--------------------------- MODULE ExamDocumentProofs ---------------------------
(***************************************************************************)
(* Theorems about ExamDocument, for any templates of whatever size and any *)
(* exams.                                                                  *)
(***************************************************************************)
EXTENDS ExamDocument, SequenceTheorems, TLAPS

\* What a cell that is found as a placeholder asks for.
Asks(c) == IF c.cell = "matrix" THEN ParseMatrix(c) ELSE ParseLine(c)

(***************************************************************************)
(* The content of one placeholder.                                         *)
(***************************************************************************)
LEMMA Placeholders ==
  /\ \A c \in Cell : c.cell \in {"matrix", "line", "plain"}
  /\ \A c \in Cell : c.cell = "plain" => c = Plain
  /\ \A c \in Cell : c.cell = "matrix" => c \in MatrixCell
BY DEF Cell, MatrixCell, Plain

\* What a matrix placeholder asks for, by its symbol.
LEMMA MatrixAsks ==
  ASSUME NEW c \in MatrixCell
  PROVE  /\ c.symbol = "#" => Asks(c).kind = "CODE"
         /\ c.symbol = "!" => Asks(c).kind = "OUTPUT"
         /\ c.symbol = "?" => Asks(c).kind = "SECRET_OUTPUT"
         /\ c.symbol \in {"#", "!", "?"}
         /\ Asks(c).index = c.index
         /\ Asks(c).lineIndex = IF c.line = NoLine THEN 0 ELSE c.line
         /\ Asks(c).height = 1 + c.slashes /\ c.slashes \in Nat
         /\ c.line \in Nat \cup {NoLine}
         /\ c.cell = "matrix"
BY DEF Asks, ParseMatrix, MatrixCell

\* The content of a line placeholder.
LEMMA LineContent ==
  ASSUME NEW v, NEW c \in Cell, c.cell = "line"
  PROVE  \/ Content(v, Asks(c)) = <<[from |-> "group"]>>
         \/ Content(v, Asks(c)) = <<[from |-> "kind", shown |-> v]>>
<1>1. Asks(c).kind = "GROUP" \/ Asks(c).kind = "KIND"
  BY DEF Asks, ParseLine
<1>. QED  BY <1>1 DEF Content

\* The content of an output.
LEMMA OutputContent ==
  ASSUME NEW v, NEW c \in MatrixCell, c.symbol = "!"
  PROVE  Content(v, Asks(c)) =
           IF c.index \in DOMAIN exam /\ Asks(c).lineIndex \in 1 .. exam[c.index].output
             THEN <<OutputLine(c.index, Asks(c).lineIndex)>> ELSE Throws
BY MatrixAsks DEF Content, DumpOutput

\* The content of a secret output.
LEMMA SecretContent ==
  ASSUME NEW v, NEW c \in MatrixCell, c.symbol = "?"
  PROVE  Content(v, Asks(c)) =
           IF c.index \notin DOMAIN exam THEN Throws
           ELSE IF v = "STUDENT" THEN <<UnderscoreLine(Asks(c).width)>>
           ELSE IF Asks(c).lineIndex \in 1 .. exam[c.index].output
             THEN <<OutputLine(c.index, Asks(c).lineIndex)>> ELSE Throws
BY MatrixAsks DEF Content, DumpSecretOutput, DumpOutput

\* The content of code: as many lines as the placeholder is high, the program's first.
LEMMA CodeContent ==
  ASSUME NEW v, NEW c \in MatrixCell, c.symbol = "#"
  PROVE  Content(v, Asks(c)) =
           IF c.index \in DOMAIN exam /\ Fits(exam[c.index], Asks(c))
             THEN [i \in 1 .. 1 + c.slashes |->
                     IF i \in DOMAIN exam[c.index].lengths THEN SourceLine(v, c.index, i)
                                                           ELSE BlankLine]
             ELSE Throws
BY MatrixAsks DEF Content, DumpProgram

(***************************************************************************)
(* The inductive invariant.                                                *)
(***************************************************************************)

\* The cells of a document of variant v: texts as they were, and every placeholder
\* filled.
IsDocument(v, content) ==
  /\ content = [i \in 1 .. Len(template) |-> content[i]]
  /\ \A i \in 1 .. Len(template) :
       /\ template[i].cell = "plain" => content[i] = template[i]
       /\ template[i].cell # "plain" =>
            /\ content[i] = Content(v, Asks(template[i]))
            /\ content[i] # Throws
       /\ template[i].cell = "line" => HasKind(template[i])

\* A placeholder that has been found.
IsFound(ref) ==
  /\ ref.cell \in 1 .. Len(template)
  /\ template[ref.cell].cell # "plain"
  /\ ref.asks = Asks(template[ref.cell])
  /\ template[ref.cell].cell = "line" => HasKind(template[ref.cell])

Ref == [cell : Nat, asks : {Asks(c) : c \in Cell}]

InputsOK == template \in Seq(Cell) /\ exam \in Exam

Counters ==
  /\ stage \in {"start", "find", "fill", "over"}
  /\ variant \in Variant
  /\ at \in 1 .. Len(template) + 1
  /\ refs \in Seq(Ref) /\ Len(refs) <= Len(template)
  /\ stage = "find" => Len(refs) < at
  /\ stage = "fill" => at <= Len(refs) + 1
  /\ stage = "start" => variant = "STUDENT"

Found ==
  /\ \A k \in 1 .. Len(refs) : IsFound(refs[k])
  /\ \A i \in 1 .. Len(template) :
       template[i].cell # "plain" /\ (stage = "fill" \/ (stage = "find" /\ i < at))
         => \E k \in 1 .. Len(refs) : refs[k].cell = i

Filling ==
  /\ cells = [i \in 1 .. Len(template) |-> cells[i]]
  /\ stage = "find" => cells = template
  /\ stage = "fill" =>
       /\ \A i \in 1 .. Len(template) : template[i].cell = "plain" => cells[i] = template[i]
       /\ \A k \in 1 .. Len(refs) : k < at =>
            /\ cells[refs[k].cell] = Content(variant, refs[k].asks)
            /\ cells[refs[k].cell] # Throws

SavedSoFar ==
  /\ DOMAIN saved \subseteq Variant
  /\ \A v \in DOMAIN saved : IsDocument(v, saved[v])
  /\ variant = "TEACHER" => IsSaved("STUDENT")
  /\ stage # "over" => IsSaved(variant) = FALSE
  /\ IsSaved("TEACHER") => variant = "TEACHER"

Inv == InputsOK /\ Counters /\ Found /\ Filling /\ SavedSoFar

\* The invariant holds at the beginning.
LEMMA InvInit == Init => Inv
<1>. SUFFICES ASSUME Init PROVE Inv
  OBVIOUS
<1>. USE DEF Init
<1>1. InputsOK /\ Len(template) \in Nat
  BY DocumentAssumption DEF InputsOK
<1>2. Counters
  BY <1>1 DEF Counters, Variant
<1>3. Found
  BY <1>1 DEF Found
<1>4. Filling
  BY <1>1 DEF Filling, InputsOK
<1>5. SavedSoFar
  BY DEF SavedSoFar, IsSaved
<1>. QED  BY <1>1, <1>2, <1>3, <1>4, <1>5 DEF Inv

\* The fields of the fresh document that LoadTemplate starts on.
LEMMA Loading ==
  ASSUME Inv, NEW w \in Variant, LoadTemplate(w), UNCHANGED input
  PROVE  InputsOK' /\ Counters' /\ Found' /\ Filling'
<1>. USE DEF LoadTemplate, input
<1>1. InputsOK' /\ Len(template) \in Nat /\ cells' = template
  BY DEF Inv, InputsOK
<1>2. Counters'
  BY <1>1 DEF Counters
<1>3. Found'
  BY <1>1 DEF Found
<1>4. Filling'
  BY <1>1 DEF Filling, InputsOK
<1>. QED  BY <1>1, <1>2, <1>3, <1>4

\* The content of a placeholder only depends on the exam.
LEMMA SameContent ==
  ASSUME UNCHANGED exam, NEW v, NEW ph
  PROVE  Content(v, ph)' = Content(v, ph)
BY DEF Content, DumpProgram, DumpOutput, DumpSecretOutput

\* So does what is found.
LEMMA SameFound ==
  ASSUME UNCHANGED template, NEW ref, IsFound(ref)
  PROVE  IsFound(ref)'
BY DEF IsFound, Asks, ParseMatrix, ParseLine

\* What the saved documents are known to be lasts as long as none is saved.
LEMMA SavedKept ==
  ASSUME SavedSoFar, UNCHANGED <<input, saved>>, variant' = variant,
         stage' # "over" => stage # "over"
  PROVE  SavedSoFar'
<1>1. ASSUME NEW v \in DOMAIN saved, NEW i \in 1 .. Len(template)
      PROVE  Content(v, Asks(template[i]))' = Content(v, Asks(template[i]))
  BY SameContent DEF input, Asks, ParseMatrix, ParseLine
<1>2. \A v \in DOMAIN saved : IsDocument(v, saved[v])'
  BY <1>1 DEF SavedSoFar, IsDocument, input
<1>. QED  BY <1>2 DEF SavedSoFar, IsSaved

(***************************************************************************)
(* Every step preserves it.                                                *)
(***************************************************************************)
LEMMA StartKeeps == Inv /\ Start => Inv'
<1>. SUFFICES ASSUME Inv, Start PROVE Inv'
  OBVIOUS
<1>1. LoadTemplate("STUDENT") /\ UNCHANGED <<input, saved>> /\ stage = "start" /\ variant = "STUDENT"
  BY DEF Start, Inv, Counters
<1>2. InputsOK' /\ Counters' /\ Found' /\ Filling'
  BY <1>1, Loading DEF Variant
<1>3. SavedSoFar'
  BY <1>1, SavedKept DEF Inv, LoadTemplate
<1>. QED  BY <1>2, <1>3 DEF Inv

\* An exception leaves the documents as they are.
LEMMA ThrowKeeps == Inv /\ Throw => Inv'
<1>. SUFFICES ASSUME Inv, Throw PROVE Inv'
  OBVIOUS
<1>. USE DEF Throw, input
<1>1. InputsOK' /\ Counters' /\ Filling'
  BY DEF Inv, InputsOK, Counters, Filling
<1>2. Found'
  BY SameFound DEF Inv, Found
<1>3. SavedSoFar'
  BY SavedKept DEF Inv
<1>. QED  BY <1>1, <1>2, <1>3 DEF Inv

\* What was found is all there is to fill.
LEMMA FoundAllKeeps == Inv /\ FoundAll => Inv'
<1>. SUFFICES ASSUME Inv, FoundAll PROVE Inv'
  OBVIOUS
<1>. USE DEF FoundAll, input
<1>1. InputsOK' /\ Len(template) \in Nat /\ Len(refs) \in Nat /\ at \in Nat
  BY DEF Inv, InputsOK, Counters
<1>2. Counters'
  BY <1>1 DEF Inv, Counters
<1>3. Found'
  BY <1>1, SameFound DEF Inv, Found
<1>4. Filling'
  BY <1>1 DEF Inv, Filling
<1>5. SavedSoFar'
  BY SavedKept DEF Inv
<1>. QED  BY <1>1, <1>2, <1>3, <1>4, <1>5 DEF Inv

\* One more placeholder holds its content, and the others what they held.
LEMMA FillPlaceholderKeeps == Inv /\ FillPlaceholder => Inv'
<1>. SUFFICES ASSUME Inv, FillPlaceholder PROVE Inv'
  OBVIOUS
<1>. DEFINE content == Content(variant, refs[at].asks)
<1>1. /\ stage = "fill" /\ stage' = "fill" /\ at \in 1 .. Len(refs) /\ at' = at + 1
      /\ content # Throws /\ cells' = [cells EXCEPT ![refs[at].cell] = content]
      /\ UNCHANGED <<template, exam, variant, refs, saved>>
  BY DEF Inv, Counters, FillPlaceholder, input
<1>2. Len(template) \in Nat /\ Len(refs) \in Nat /\ IsFound(refs[at])
  BY <1>1 DEF Inv, InputsOK, Counters, Found
<1>3. InputsOK' /\ Counters'
  BY <1>1, <1>2 DEF Inv, InputsOK, Counters
<1>4. Found'
  BY <1>1, SameFound DEF Inv, Found
<1>5. Filling'
  <2>1. cells' = [i \in 1 .. Len(template) |-> cells'[i]]
    BY <1>1, <1>2 DEF Inv, Filling, IsFound
  <2>2. ASSUME NEW i \in 1 .. Len(template), template[i].cell = "plain"
        PROVE  cells'[i] = template[i]
    BY <1>1, <1>2, <2>2 DEF Inv, Filling, IsFound
  <2>3. ASSUME NEW k \in 1 .. Len(refs), k < at'
        PROVE  /\ cells'[refs[k].cell] = Content(variant, refs[k].asks)
               /\ cells'[refs[k].cell] # Throws
    <3>1. IsFound(refs[k])
      BY DEF Inv, Found
    <3>2. CASE refs[k].cell = refs[at].cell
      <4>1. refs[k].asks = refs[at].asks
        BY <3>1, <3>2, <1>2 DEF IsFound
      <4>2. cells'[refs[at].cell] = content
        BY <1>1, <1>2 DEF Inv, Filling, IsFound
      <4>. QED  BY <4>1, <4>2, <3>2, <1>1
    <3>3. CASE refs[k].cell # refs[at].cell
      <4>1. k < at
        BY <1>1, <1>2, <2>3, <3>3
      <4>2. cells'[refs[k].cell] = cells[refs[k].cell]
        BY <1>1, <1>2, <3>1, <3>3 DEF Inv, Filling, IsFound
      <4>. QED  BY <4>1, <4>2, <1>1 DEF Inv, Filling
    <3>. QED  BY <3>2, <3>3
  <2>4. ASSUME NEW k \in 1 .. Len(refs)
        PROVE  Content(variant, refs[k].asks)' = Content(variant, refs[k].asks)
    BY SameContent, <1>1
  <2>. QED  BY <2>1, <2>2, <2>3, <2>4, <1>1 DEF Filling
<1>6. SavedSoFar'
  BY <1>1, SavedKept DEF Inv, input
<1>. QED  BY <1>3, <1>4, <1>5, <1>6 DEF Inv

\* One more cell is passed, and it is found if it is a placeholder.
LEMMA FindPlaceholderKeeps == Inv /\ FindPlaceholder => Inv'
<1>. SUFFICES ASSUME Inv, FindPlaceholder PROVE Inv'
  OBVIOUS
<1>. DEFINE c == template[at]
            ref == [cell |-> at, asks |-> Asks(c)]
<1>1. /\ stage = "find" /\ stage' = "find" /\ at' = at + 1
      /\ at \in 1 .. Len(template) /\ Len(template) \in Nat /\ c \in Cell
      /\ Len(refs) \in Nat /\ Len(refs) < at /\ refs \in Seq(Ref)
      /\ UNCHANGED <<template, exam, variant, cells, saved>>
  BY DEF Inv, InputsOK, Counters, FindPlaceholder, input
<1>2. \/ c.cell = "plain" /\ refs' = refs
      \/ c.cell # "plain" /\ refs' = Append(refs, ref) /\ (c.cell = "line" => HasKind(c))
  BY DEF FindPlaceholder, Asks
<1>3. ref \in Ref
  BY <1>1 DEF Ref
<1>4. CASE c.cell = "plain" /\ refs' = refs
  <2>1. InputsOK' /\ Counters' /\ Filling'
    BY <1>1, <1>4 DEF Inv, InputsOK, Counters, Filling
  <2>2. Found'
    BY <1>1, <1>4, SameFound DEF Inv, Found
  <2>. QED  BY <1>1, <2>1, <2>2, SavedKept DEF Inv, input
<1>5. CASE c.cell # "plain" /\ refs' = Append(refs, ref) /\ (c.cell = "line" => HasKind(c))
  <2>1. /\ Len(refs') = Len(refs) + 1 /\ refs' \in Seq(Ref)
        /\ refs'[Len(refs) + 1] = ref
        /\ \A k \in 1 .. Len(refs) : refs'[k] = refs[k]
    BY <1>1, <1>3, <1>5
  <2>2. InputsOK' /\ Counters' /\ Filling'
    BY <1>1, <2>1 DEF Inv, InputsOK, Counters, Filling
  <2>3. Found'
    <3>1. IsFound(ref)
      BY <1>1, <1>5 DEF IsFound
    <3>2. ASSUME NEW k \in 1 .. Len(refs') PROVE IsFound(refs'[k])
      <4>1. k = Len(refs) + 1 \/ k \in 1 .. Len(refs)
        BY <1>1, <2>1
      <4>2. \A j \in 1 .. Len(refs) : IsFound(refs'[j])
        BY <2>1 DEF Inv, Found
      <4>. QED  BY <2>1, <3>1, <4>1, <4>2
    <3>3. ASSUME NEW i \in 1 .. Len(template), template[i].cell # "plain", i < at + 1
          PROVE  \E k \in 1 .. Len(refs') : refs'[k].cell = i
      <4>1. CASE i = at
        BY <1>1, <2>1, <4>1
      <4>2. CASE i < at
        <5>1. PICK k \in 1 .. Len(refs) : refs[k].cell = i
          BY <1>1, <3>3, <4>2 DEF Inv, Found
        <5>2. k \in 1 .. Len(refs') /\ refs'[k].cell = i
          BY <1>1, <2>1, <5>1
        <5>. QED  BY <5>2
      <4>. QED  BY <1>1, <3>3, <4>1, <4>2
    <3>. QED  BY <1>1, <3>2, <3>3, SameFound DEF Found
  <2>. QED  BY <1>1, <2>2, <2>3, SavedKept DEF Inv, input
<1>. QED  BY <1>2, <1>4, <1>5

\* A document that is saved has every placeholder filled.
LEMMA Filled ==
  ASSUME Inv, stage = "fill", at > Len(refs)
  PROVE  IsDocument(variant, cells)
<1>1. Len(template) \in Nat /\ Len(refs) \in Nat /\ at \in Nat
  BY DEF Inv, InputsOK, Counters
<1>2. ASSUME NEW i \in 1 .. Len(template), template[i].cell # "plain"
      PROVE  /\ cells[i] = Content(variant, Asks(template[i])) /\ cells[i] # Throws
             /\ template[i].cell = "line" => HasKind(template[i])
  <2>1. PICK k \in 1 .. Len(refs) : refs[k].cell = i
    BY <1>2 DEF Inv, Found
  <2>2. IsFound(refs[k])
    BY DEF Inv, Found
  <2>3. k < at
    BY <1>1
  <2>. QED  BY <2>1, <2>2, <2>3 DEF Inv, Filling, IsFound
<1>. QED  BY <1>2 DEF Inv, Filling, IsDocument

\* A document is saved when all in it are filled, the students' before the teacher's.
LEMMA SaveDocumentKeeps == Inv /\ SaveDocument => Inv'
<1>. SUFFICES ASSUME Inv, SaveDocument PROVE Inv'
  OBVIOUS
<1>1. /\ stage = "fill" /\ UNCHANGED <<template, exam>> /\ variant \in Variant
      /\ saved' = [v \in DOMAIN saved \cup {variant} |-> IF v = variant THEN cells ELSE saved[v]]
  BY DEF SaveDocument, input, Inv, Counters
<1>2. IsDocument(variant, cells)
  BY Filled DEF SaveDocument, Inv, Counters, InputsOK
<1>3. \A v \in DOMAIN saved' : IsDocument(v, saved'[v])
  BY <1>1, <1>2 DEF Inv, SavedSoFar
<1>4. ASSUME NEW v \in DOMAIN saved' PROVE IsDocument(v, saved[v])'
  <2>1. ASSUME NEW i \in 1 .. Len(template)
        PROVE  Content(v, Asks(template[i]))' = Content(v, Asks(template[i]))
    BY <1>1, SameContent DEF Asks, ParseMatrix, ParseLine
  <2>2. IsDocument(v, saved'[v]) /\ template' = template
    BY <1>1, <1>3
  <2>. QED  BY <2>1, <2>2 DEF IsDocument
<1>5. CASE variant = "STUDENT"
  <2>1. LoadTemplate("TEACHER") /\ variant' = "TEACHER"
    BY <1>5 DEF SaveDocument, LoadTemplate
  <2>2. InputsOK' /\ Counters' /\ Found' /\ Filling'
    BY <1>1, <2>1, Loading DEF Variant, input
  <2>3. SavedSoFar'
    <3>1. DOMAIN saved' = DOMAIN saved \cup {"STUDENT"} /\ DOMAIN saved \subseteq Variant
      BY <1>1, <1>5 DEF Inv, SavedSoFar
    <3>2. "TEACHER" \notin DOMAIN saved
      BY <1>5 DEF Inv, SavedSoFar, IsSaved
    <3>. QED  BY <1>4, <2>1, <3>1, <3>2 DEF SavedSoFar, IsSaved, Variant
  <2>. QED  BY <2>2, <2>3 DEF Inv
<1>6. CASE variant # "STUDENT"
  <2>1. stage' = "over" /\ UNCHANGED <<variant, refs, at, cells>> /\ variant = "TEACHER"
    BY <1>1, <1>6 DEF SaveDocument, Variant
  <2>2. InputsOK' /\ Counters' /\ Filling'
    BY <1>1, <2>1 DEF Inv, InputsOK, Counters, Filling
  <2>3. Found'
    BY <1>1, <2>1, SameFound DEF Inv, Found
  <2>4. SavedSoFar'
    BY <1>1, <1>4, <2>1 DEF Inv, SavedSoFar, IsSaved, Variant
  <2>. QED  BY <2>2, <2>3, <2>4 DEF Inv
<1>. QED  BY <1>5, <1>6

\* One case per action.
LEMMA InvNext == Inv /\ [Next]_vars => Inv'
<1>. SUFFICES ASSUME Inv, [Next]_vars PROVE Inv'
  OBVIOUS
<1>1. ASSUME UNCHANGED vars PROVE Inv'
  <2>1. InputsOK' /\ Counters'
    BY <1>1 DEF Inv, InputsOK, Counters, vars, input
  <2>2. Found'
    BY <1>1, SameFound DEF Inv, Found, vars, input
  <2>3. Filling'
    <3>1. ASSUME NEW k \in 1 .. Len(refs)
          PROVE  Content(variant, refs[k].asks)' = Content(variant, refs[k].asks)
      BY <1>1, SameContent DEF vars, input
    <3>. QED  BY <1>1, <3>1 DEF Inv, Filling, vars, input
  <2>4. SavedSoFar'
    BY <1>1, SavedKept DEF Inv, vars
  <2>. QED  BY <2>1, <2>2, <2>3, <2>4 DEF Inv
<1>. QED  BY <1>1, StartKeeps, ThrowKeeps, FoundAllKeeps, FillPlaceholderKeeps,
             FindPlaceholderKeeps, SaveDocumentKeeps DEF Next

\* The inductive invariant holds in every state.
THEOREM Invariance == Spec => []Inv
BY InvInit, InvNext, PTL DEF Spec

(***************************************************************************)
(* What the documents show.                                                *)
(***************************************************************************)

\* The cells of a document as a sequence.
LEMMA CellsInSequence ==
  ASSUME NEW n \in Nat, NEW content, content = [i \in 1 .. n |-> content[i]]
  PROVE  Len(content) = n
OBVIOUS

\* Every variable has its type.
THEOREM TypeCorrect == Spec => []TypeOK
<1>1. Inv => TypeOK
  <2>. SUFFICES ASSUME Inv PROVE TypeOK
    OBVIOUS
  <2>1. Len(template) \in Nat /\ Len(refs) \in Nat
    BY DEF Inv, InputsOK, Counters
  <2>2. \A i \in DOMAIN refs : refs[i].cell \in DOMAIN template
    BY DEF Inv, Counters, InputsOK, Found, IsFound
  <2>3. Len(cells) = Len(template)
    BY <2>1, CellsInSequence DEF Inv, Filling
  <2>4. \A v \in DOMAIN saved : Len(saved[v]) = Len(template)
    BY <2>1, CellsInSequence DEF Inv, SavedSoFar, IsDocument
  <2>. QED  BY <2>2, <2>3, <2>4 DEF TypeOK, Inv, Counters, SavedSoFar
<1>. QED  BY <1>1, Invariance, PTL

\* The programs of an exam.
LEMMA Programs ==
  ASSUME Inv
  PROVE  \A p \in DOMAIN exam : exam[p].output \in Nat /\ exam[p].lengths \in Seq(Nat)
BY DocumentAssumption DEF Inv, InputsOK

\* A placeholder of a document.
LEMMA PlaceholderOf ==
  ASSUME Inv, NEW i \in DOMAIN template
  PROVE  template[i] \in Cell /\ i \in 1 .. Len(template)
BY DEF Inv, InputsOK

\* What students are shown of a placeholder.
LEMMA StudentContent ==
  ASSUME NEW c \in Cell, c.cell # "plain",
         NEW k \in DOMAIN Content("STUDENT", Asks(c))
  PROVE  /\ ForStudents(Content("STUDENT", Asks(c))[k])
         /\ c.cell = "matrix" /\ c.symbol = "?" =>
              Content("STUDENT", Asks(c))[k].from = "underscores"
<1>. DEFINE content == Content("STUDENT", Asks(c))
<1>1. CASE c.cell = "line"
  BY <1>1, LineContent DEF ForStudents
<1>2. CASE c.cell = "matrix"
  <2>1. c \in MatrixCell /\ c.symbol \in {"#", "!", "?"}
    BY <1>2, Placeholders, MatrixAsks
  <2>2. CASE content = Throws
    BY <2>2 DEF Throws
  <2>3. CASE content # Throws /\ c.symbol = "#"
    <3>1. content = [i \in 1 .. 1 + c.slashes |->
                       IF i \in DOMAIN exam[c.index].lengths THEN SourceLine("STUDENT", c.index, i)
                                                             ELSE BlankLine]
      BY <2>1, <2>3, CodeContent
    <3>2. content[k] = SourceLine("STUDENT", c.index, k) \/ content[k] = BlankLine
      BY <3>1
    <3>. QED  BY <3>2, <2>3 DEF ForStudents, SourceLine, BlankLine
  <2>4. CASE content # Throws /\ c.symbol = "!"
    <3>1. content = <<OutputLine(c.index, Asks(c).lineIndex)>>
      BY <2>1, <2>4, OutputContent
    <3>. QED  BY <3>1, <2>4 DEF ForStudents, OutputLine
  <2>5. CASE content # Throws /\ c.symbol = "?"
    <3>1. content = <<UnderscoreLine(Asks(c).width)>>
      BY <2>1, <2>5, SecretContent
    <3>. QED  BY <3>1 DEF ForStudents, UnderscoreLine
  <2>. QED  BY <2>1, <2>2, <2>3, <2>4, <2>5
<1>. QED  BY <1>1, <1>2, Placeholders

\* The students' document has nothing of the teacher's, whatever the template and
\* the exam.
THEOREM StudentsSeeNoSecrets == Spec => []NothingForTeachersOnly
<1>1. Inv => NothingForTeachersOnly
  <2>. SUFFICES ASSUME Inv, IsSaved("STUDENT"), NEW i \in DOMAIN template,
                       template[i].cell # "plain"
                PROVE  LET content == saved["STUDENT"][i]
                       IN /\ \A k \in DOMAIN content : ForStudents(content[k])
                          /\ template[i].cell = "matrix" /\ template[i].symbol = "?" =>
                               \A k \in DOMAIN content : content[k].from = "underscores"
    BY DEF NothingForTeachersOnly
  <2>1. saved["STUDENT"][i] = Content("STUDENT", Asks(template[i]))
    BY PlaceholderOf DEF Inv, SavedSoFar, IsDocument, IsSaved
  <2>. QED  BY <2>1, StudentContent, PlaceholderOf
<1>. QED  BY <1>1, Invariance, PTL

\* The content of an output that can be shown: the line with the number asked for.
LEMMA ShownOutput ==
  ASSUME Inv, NEW c \in MatrixCell, c.index \in DOMAIN exam,
         Asks(c).lineIndex \in 1 .. exam[c.index].output
  PROVE  <<OutputLine(c.index, Asks(c).lineIndex)>> =
           <<[from |-> "output", program |-> c.index, line |-> c.line]>>
<1>1. Asks(c).lineIndex = c.line
  BY MatrixAsks, Programs
<1>. QED  BY <1>1 DEF OutputLine

\* The content of a placeholder that could be filled: as many lines as the template
\* drew, and the output that it asks for.
LEMMA FilledContent ==
  ASSUME Inv, NEW v, NEW c \in Cell, c.cell # "plain", Content(v, Asks(c)) # Throws
  PROVE  /\ c.cell = "line" => Len(Content(v, Asks(c))) = 1
         /\ c.cell = "matrix" =>
              /\ c.symbol = "#" => Len(Content(v, Asks(c))) = 1 + c.slashes
              /\ c.symbol = "!" =>
                   Content(v, Asks(c)) =
                     <<[from |-> "output", program |-> c.index, line |-> c.line]>>
              /\ c.symbol = "?" => Len(Content(v, Asks(c))) = 1
<1>1. c.cell = "line" => Len(Content(v, Asks(c))) = 1
  BY LineContent
<1>2. ASSUME c.cell = "matrix", c.symbol = "#"
      PROVE  Len(Content(v, Asks(c))) = 1 + c.slashes
  <2>1. c \in MatrixCell /\ c.slashes \in Nat
    BY <1>2, Placeholders, MatrixAsks
  <2>2. DOMAIN Content(v, Asks(c)) = 1 .. 1 + c.slashes
    BY <1>2, <2>1, CodeContent
  <2>3. Content(v, Asks(c)) = [k \in 1 .. 1 + c.slashes |-> Content(v, Asks(c))[k]]
    BY <1>2, <2>1, CodeContent
  <2>. QED  BY <2>1, <2>3, CellsInSequence
<1>3. ASSUME c.cell = "matrix", c.symbol = "!"
      PROVE  Content(v, Asks(c)) =
               <<[from |-> "output", program |-> c.index, line |-> c.line]>>
  BY <1>3, Placeholders, OutputContent, ShownOutput
<1>4. ASSUME c.cell = "matrix", c.symbol = "?"
      PROVE  Len(Content(v, Asks(c))) = 1
  BY <1>4, Placeholders, SecretContent
<1>. QED  BY <1>1, <1>2, <1>3, <1>4

\* A saved document has every placeholder filled as the template drew it, whatever
\* the template and the exam.
THEOREM SavedDocumentsAreFilled == Spec => []PlaceholdersAreFilled
<1>1. Inv => PlaceholdersAreFilled
  <2>. SUFFICES ASSUME Inv, NEW v \in Variant, IsSaved(v), NEW i \in DOMAIN template
                PROVE  LET c == template[i]
                           content == saved[v][i]
                       IN /\ c.cell = "plain" => content = c
                          /\ c.cell = "line"  => Len(content) = 1
                          /\ c.cell = "matrix" =>
                               /\ c.symbol = "#" => Len(content) = 1 + c.slashes
                               /\ c.symbol = "!" =>
                                    content = <<[from |-> "output", program |-> c.index,
                                                 line |-> c.line]>>
                               /\ c.symbol = "?" => Len(content) = 1
    BY DEF PlaceholdersAreFilled
  <2>1. IsDocument(v, saved[v])
    BY DEF Inv, SavedSoFar, IsSaved
  <2>2. CASE template[i].cell = "plain"
    BY <2>1, <2>2, PlaceholderOf DEF IsDocument
  <2>3. CASE template[i].cell # "plain"
    <3>1. saved[v][i] = Content(v, Asks(template[i])) /\ saved[v][i] # Throws
      BY <2>1, <2>3, PlaceholderOf DEF IsDocument
    <3>. QED  BY <2>3, <3>1, FilledContent, PlaceholderOf
  <2>. QED  BY <2>2, <2>3
<1>. QED  BY <1>1, Invariance, PTL

\* What the teacher is shown of a placeholder, compared with what students are.
LEMMA ContentCorresponds ==
  ASSUME Inv, NEW c \in Cell, c.cell # "plain",
         Content("STUDENT", Asks(c)) # Throws, Content("TEACHER", Asks(c)) # Throws
  PROVE  LET student == Content("STUDENT", Asks(c))
             teacher == Content("TEACHER", Asks(c))
         IN /\ Len(student) = Len(teacher)
            /\ \A k \in DOMAIN student :
                 IF student[k].from = "underscores"
                   THEN teacher[k] = [from |-> "output", program |-> c.index, line |-> c.line]
                 ELSE IF student[k].from \in {"source", "kind"}
                   THEN teacher[k] = [student[k] EXCEPT !.shown = "TEACHER"]
                 ELSE teacher[k] = student[k]
<1>. DEFINE student == Content("STUDENT", Asks(c))
            teacher == Content("TEACHER", Asks(c))
<1>1. Len(student) = Len(teacher)
  <2>1. c.cell = "matrix" => c.symbol \in {"#", "!", "?"}
    BY Placeholders, MatrixAsks
  <2>. QED  BY <2>1, FilledContent, Placeholders
<1>2. ASSUME NEW k \in DOMAIN student
      PROVE  IF student[k].from = "underscores"
               THEN teacher[k] = [from |-> "output", program |-> c.index, line |-> c.line]
             ELSE IF student[k].from \in {"source", "kind"}
               THEN teacher[k] = [student[k] EXCEPT !.shown = "TEACHER"]
             ELSE teacher[k] = student[k]
  <2>1. CASE c.cell = "line"
    <3>1. CASE Asks(c).kind = "GROUP"
      <4>1. student = <<[from |-> "group"]>> /\ teacher = <<[from |-> "group"]>>
        BY <3>1 DEF Content
      <4>. QED  BY <4>1
    <3>2. CASE Asks(c).kind = "KIND"
      <4>1. /\ student = <<[from |-> "kind", shown |-> "STUDENT"]>>
            /\ teacher = <<[from |-> "kind", shown |-> "TEACHER"]>>
        BY <3>2 DEF Content
      <4>. QED  BY <4>1
    <3>. QED  BY <2>1, <3>1, <3>2 DEF Asks, ParseLine
  <2>2. CASE c.cell = "matrix" /\ c.symbol = "#"
    <3>1. /\ c \in MatrixCell
          /\ student = [i \in 1 .. 1 + c.slashes |->
                          IF i \in DOMAIN exam[c.index].lengths THEN SourceLine("STUDENT", c.index, i)
                                                                ELSE BlankLine]
          /\ teacher = [i \in 1 .. 1 + c.slashes |->
                          IF i \in DOMAIN exam[c.index].lengths THEN SourceLine("TEACHER", c.index, i)
                                                                ELSE BlankLine]
      BY <2>2, Placeholders, CodeContent
    <3>2. CASE k \in DOMAIN exam[c.index].lengths
      <4>1. student[k] = SourceLine("STUDENT", c.index, k) /\ teacher[k] = SourceLine("TEACHER", c.index, k)
        BY <3>1, <3>2
      <4>. QED  BY <4>1 DEF SourceLine
    <3>3. CASE k \notin DOMAIN exam[c.index].lengths
      <4>1. student[k] = BlankLine /\ teacher[k] = BlankLine
        BY <3>1, <3>3
      <4>. QED  BY <4>1 DEF BlankLine
    <3>. QED  BY <3>2, <3>3
  <2>3. CASE c.cell = "matrix" /\ c.symbol = "!"
    <3>1. /\ student = <<[from |-> "output", program |-> c.index, line |-> c.line]>>
          /\ teacher = student
      BY <2>3, FilledContent
    <3>. QED  BY <3>1
  <2>4. CASE c.cell = "matrix" /\ c.symbol = "?"
    <3>1. c \in MatrixCell
      BY <2>4, Placeholders
    <3>2. student = <<UnderscoreLine(Asks(c).width)>>
      BY <2>4, <3>1, SecretContent
    <3>3. teacher = <<[from |-> "output", program |-> c.index, line |-> c.line]>>
      BY <2>4, <3>1, SecretContent, ShownOutput
    <3>. QED  BY <3>2, <3>3 DEF UnderscoreLine
  <2>. QED  BY <2>1, <2>2, <2>3, <2>4, Placeholders, MatrixAsks
<1>. QED  BY <1>1, <1>2

\* The two documents of a group have the same shape, whatever the template and the
\* exam.
THEOREM VariantsCorrespond == Spec => []DocumentsCorrespond
<1>1. Inv => DocumentsCorrespond
  <2>. SUFFICES ASSUME Inv, IsSaved("TEACHER"), NEW i \in DOMAIN template
                PROVE  LET student == saved["STUDENT"][i]
                           teacher == saved["TEACHER"][i]
                       IN IF template[i].cell = "plain" THEN student = teacher
                          ELSE /\ Len(student) = Len(teacher)
                               /\ \A k \in DOMAIN student :
                                    IF student[k].from = "underscores"
                                      THEN teacher[k] = [from |-> "output",
                                                         program |-> template[i].index,
                                                         line |-> template[i].line]
                                    ELSE IF student[k].from \in {"source", "kind"}
                                      THEN teacher[k] = [student[k] EXCEPT !.shown = "TEACHER"]
                                    ELSE teacher[k] = student[k]
    BY DEF DocumentsCorrespond
  <2>1. IsDocument("STUDENT", saved["STUDENT"]) /\ IsDocument("TEACHER", saved["TEACHER"])
    BY DEF Inv, SavedSoFar, IsSaved
  <2>2. CASE template[i].cell = "plain"
    BY <2>1, <2>2, PlaceholderOf DEF IsDocument
  <2>3. CASE template[i].cell # "plain"
    <3>1. /\ saved["STUDENT"][i] = Content("STUDENT", Asks(template[i]))
          /\ saved["TEACHER"][i] = Content("TEACHER", Asks(template[i]))
          /\ saved["STUDENT"][i] # Throws /\ saved["TEACHER"][i] # Throws
      BY <2>1, <2>3, PlaceholderOf DEF IsDocument
    <3>. QED  BY <2>3, <3>1, ContentCorresponds, PlaceholderOf
  <2>. QED  BY <2>2, <2>3
<1>. QED  BY <1>1, Invariance, PTL

\* A placeholder that was filled for the students fails for the teacher only as a
\* secret output of which there is no such line.
LEMMA OnlySecretsFail ==
  ASSUME Inv, NEW c \in Cell, c.cell # "plain",
         Content("STUDENT", Asks(c)) # Throws, Content("TEACHER", Asks(c)) = Throws
  PROVE  /\ Asks(c).kind = "SECRET_OUTPUT"
         /\ Asks(c).lineIndex \notin 1 .. exam[Asks(c).index].output
<1>1. c.cell # "line"
  BY LineContent DEF Throws
<1>2. c \in MatrixCell /\ c.symbol \in {"#", "!", "?"} /\ c.cell = "matrix"
  BY <1>1, Placeholders, MatrixAsks
<1>3. c.symbol # "!"
  BY <1>2, OutputContent
<1>4. c.symbol # "#"
  <2>. SUFFICES ASSUME c.symbol = "#" PROVE FALSE
    OBVIOUS
  <2>1. c.index \in DOMAIN exam /\ Fits(exam[c.index], Asks(c))
    BY <1>2, CodeContent
  <2>2. Len(Content("TEACHER", Asks(c))) = 1 + c.slashes /\ c.slashes \in Nat
    <3>1. Content("TEACHER", Asks(c)) =
            [i \in 1 .. 1 + c.slashes |->
               IF i \in DOMAIN exam[c.index].lengths THEN SourceLine("TEACHER", c.index, i)
                                                     ELSE BlankLine]
      BY <1>2, <2>1, CodeContent
    <3>. QED  BY <3>1, <1>2, MatrixAsks, CellsInSequence
  <2>. QED  BY <2>2 DEF Throws
<1>5. c.symbol = "?" /\ c.index \in DOMAIN exam
  BY <1>2, <1>3, <1>4, SecretContent
<1>6. Asks(c).lineIndex \notin 1 .. exam[c.index].output
  BY <1>2, <1>5, SecretContent DEF Throws
<1>. QED  BY <1>2, <1>5, <1>6, MatrixAsks

\* After the students' document, only a secret output can stop the teacher's.
THEOREM OnlySecretsStopTheTeacher == Spec => []TeacherFailsOnlyAtSecrets
<1>1. Inv => TeacherFailsOnlyAtSecrets
  <2>. SUFFICES ASSUME Inv, variant = "TEACHER" PROVE TeacherFailsOnlyAtSecrets
    BY DEF TeacherFailsOnlyAtSecrets
  <2>1. IsDocument("STUDENT", saved["STUDENT"])
    BY DEF Inv, SavedSoFar, IsSaved
  <2>2. ASSUME stage = "fill", at <= Len(refs), Content("TEACHER", refs[at].asks) = Throws
        PROVE  /\ refs[at].asks.kind = "SECRET_OUTPUT"
               /\ refs[at].asks.lineIndex \notin 1 .. exam[refs[at].asks.index].output
    <3>1. IsFound(refs[at])
      BY <2>2 DEF Inv, Found, Counters, InputsOK
    <3>. DEFINE c == template[refs[at].cell]
    <3>2. c \in Cell /\ c.cell # "plain" /\ refs[at].asks = Asks(c)
      BY <3>1 DEF IsFound, Inv, InputsOK
    <3>3. Content("STUDENT", Asks(c)) # Throws
      BY <2>1, <3>1 DEF IsDocument, IsFound
    <3>. HIDE DEF c
    <3>. QED  BY <2>2, <3>2, <3>3, OnlySecretsFail
  <2>3. ASSUME stage = "find", at <= Len(template), template[at].cell = "line"
        PROVE  HasKind(template[at])
    BY <2>1, <2>3 DEF IsDocument, Inv, Counters, InputsOK
  <2>. QED  BY <2>2, <2>3 DEF TeacherFailsOnlyAtSecrets
<1>. QED  BY <1>1, Invariance, PTL

(***************************************************************************)
(* The documents implement those of the abstract task.                     *)
(***************************************************************************)
DocsBar  == [g \in {"A"} |-> DocumentsStage]
SavedBar == [g \in {"A"} |-> {v \in Variant : IsSaved(v)}]

\* A document saved is a step of the abstract specification; nothing else is seen.
LEMMA StepImplements ==
  ASSUME Inv, [Next]_vars
  PROVE  [Lifecycle!Next]_(Lifecycle!vars)
<1>. USE DEF Lifecycle!vars
<1>1. stage \in {"start", "find", "fill", "over"} /\ variant \in Variant
  BY DEF Inv, Counters
<1>2. ASSUME Start PROVE Lifecycle!OpenDocuments("A")
  BY <1>2 DEF Start, LoadTemplate, Lifecycle!OpenDocuments, DocumentsStage, IsSaved
<1>3. ASSUME Throw PROVE Lifecycle!AbandonDocuments("A")
  BY <1>3 DEF Throw, Lifecycle!AbandonDocuments, DocumentsStage, IsSaved
<1>4. ASSUME FindPlaceholder \/ FoundAll \/ FillPlaceholder \/ UNCHANGED vars
      PROVE  UNCHANGED Lifecycle!vars
  <2>1. UNCHANGED saved /\ DocumentsStage' = DocumentsStage
    BY <1>4 DEF FindPlaceholder, FoundAll, FillPlaceholder, vars, DocumentsStage
  <2>. QED  BY <2>1 DEF IsSaved
<1>5. ASSUME SaveDocument PROVE Lifecycle!SaveStudent("A") \/ Lifecycle!SaveTeacher("A")
  <2>1. DocumentsStage = "open" /\ DOMAIN saved' = DOMAIN saved \cup {variant}
    BY <1>5 DEF SaveDocument, DocumentsStage
  <2>2. CASE variant = "STUDENT"
    <3>1. DocumentsStage' = "open"
      BY <1>5, <2>2 DEF SaveDocument, LoadTemplate, DocumentsStage
    <3>2. DOMAIN saved = {}
      BY <1>5, <2>2 DEF SaveDocument, Inv, SavedSoFar, IsSaved, Variant
    <3>3. SavedBar["A"] = {} /\ SavedBar'["A"] = {"STUDENT"}
      BY <2>1, <2>2, <3>2 DEF SavedBar, IsSaved, Variant
    <3>. QED  BY <2>1, <3>1, <3>3 DEF SavedBar, Lifecycle!SaveStudent
  <2>3. CASE variant = "TEACHER"
    <3>1. DocumentsStage' = "closed"
      BY <1>5, <2>3 DEF SaveDocument, DocumentsStage
    <3>2. DOMAIN saved = {"STUDENT"}
      BY <1>5, <2>3 DEF SaveDocument, Inv, SavedSoFar, IsSaved, Variant
    <3>3. SavedBar["A"] = {"STUDENT"} /\ SavedBar'["A"] = {"STUDENT", "TEACHER"}
      BY <2>1, <2>3, <3>2 DEF SavedBar, IsSaved, Variant
    <3>. QED  BY <2>1, <3>1, <3>3 DEF SavedBar, Lifecycle!SaveTeacher
  <2>. QED  BY <1>1, <2>2, <2>3 DEF Variant
<1>. QED  BY <1>2, <1>3, <1>4, <1>5 DEF Next, Lifecycle!Next

\* Placeholder by placeholder, the documents of a group are what the abstract task
\* says they are, for every template and every exam.
THEOREM DocumentsImplemented == Spec => ImplementsDocuments
<1>1. Init => Lifecycle!Init
  BY DEF Init, Lifecycle!Init, DocumentsStage, IsSaved
<1>2. Inv /\ [Next]_vars => [Lifecycle!Next]_(Lifecycle!vars)
  BY StepImplements
<1>. QED  BY <1>1, <1>2, Invariance, PTL DEF Spec, ImplementsDocuments, Lifecycle!Spec
=============================================================================
