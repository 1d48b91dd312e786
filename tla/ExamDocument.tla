----------------------------- MODULE ExamDocument -----------------------------
(***************************************************************************)
(* The two documents of one group (ExamGeneration.generateExamVariants-    *)
(* ForGroup): for the students and then for the teacher, the template is   *)
(* loaded, its placeholders are found (ExamTemplateLoading) and filled in   *)
(* (ExamTemplateRealization), and the document is saved.  Whatever cannot   *)
(* be found or filled throws and ends both documents.                      *)
(*                                                                         *)
(* A template is the sequence of the cells of its tables.  Of a program    *)
(* only the lengths of its lines and the number of its output lines        *)
(* matter; module ProgramTemplates shows that the lengths are those of     *)
(* both variants.  A line of a document says where it comes from.          *)
(***************************************************************************)
EXTENDS ListUtils

CONSTANTS
  Template,  \* templates: sequences of cells
  Exam       \* exams: functions from program ids to programs

Variant == {"STUDENT", "TEACHER"}

\* Cells as they stand in a template: code and outputs of a program with, in the
\* order of the pattern, its id, a line number or NoLine, hyphens and backslashes;
\* "$G", "$KIND" or one of them in other letters; and a text.
NoLine == -1
Matrix(symbol, index, line, minuses, slashes) ==
  [cell |-> "matrix", symbol |-> symbol, index |-> index, line |-> line,
   minuses |-> minuses, slashes |-> slashes]
Line(symbol) == [cell |-> "line", symbol |-> symbol]
Plain        == [cell |-> "plain"]

MatrixCell == [cell : {"matrix"}, symbol : {"#", "!", "?"}, index : Nat,
               line : Nat \cup {NoLine}, minuses : Nat, slashes : Nat]
Cell       == MatrixCell \cup [cell : {"line"}, symbol : STRING] \cup {Plain}

ASSUME DocumentAssumption ==
  /\ Template \subseteq Seq(Cell)
  /\ \A e \in Exam : \A p \in DOMAIN e : e[p] \in [lengths : Seq(Nat), output : Nat]

VARIABLES
  stage,     \* "start", "find", "fill" or "over"
  template,  \* the template
  exam,      \* the programs of the exam
  variant,   \* the document at hand
  refs,      \* placeholders found: the cell, and what it asks for
  at,        \* the next cell to look at, or the next placeholder to fill
  cells,     \* the cells of the document at hand
  saved      \* the documents that have been saved: their cells, by variant

input == <<template, exam>>
vars  == <<stage, input, variant, refs, at, cells, saved>>

-----------------------------------------------------------------------------
(***************************************************************************)
(* Placeholders.                                                           *)
(***************************************************************************)

\* MatrixPlaceholder.parse; a line number that is missing is zero.
ParseMatrix(c) ==
  [kind |-> CASE c.symbol = "#" -> "CODE" [] c.symbol = "!" -> "OUTPUT"
              [] c.symbol = "?" -> "SECRET_OUTPUT",
   index |-> c.index,
   lineIndex |-> IF c.line = NoLine THEN 0 ELSE c.line,
   width |-> 3 + (IF c.line = NoLine THEN 0 ELSE 3) + c.minuses,
   height |-> 1 + c.slashes]

\* LinePlaceholder.Kind; isLinePlaceholder takes any letter case, the kinds do not.
HasKind(c)   == c.symbol \in {"$G", "$KIND"}
ParseLine(c) == [kind |-> IF c.symbol = "$G" THEN "GROUP" ELSE "KIND"]

-----------------------------------------------------------------------------
(***************************************************************************)
(* ExamTemplateRealization: the lines of variant v for a placeholder, or    *)
(* Throws.                                                                 *)
(***************************************************************************)
Throws == <<>>

SourceLine(v, p, i) == [from |-> "source", program |-> p, line |-> i, shown |-> v]
OutputLine(p, i)    == [from |-> "output", program |-> p, line |-> i]
UnderscoreLine(n)   == [from |-> "underscores", width |-> n]
BlankLine           == [from |-> "blank"]

Fits(program, ph) ==
  /\ Len(program.lengths) <= ph.height
  /\ \A i \in DOMAIN program.lengths : program.lengths[i] <= ph.width

\* Mutation: the students' program is not measured.
DumpProgram_StudentUnchecked(v, ph) ==
  LET program == exam[ph.index]
  IN IF v = "STUDENT" \/ Fits(program, ph)
       THEN [i \in 1 .. ph.height |->
               IF i \in DOMAIN program.lengths THEN SourceLine(v, ph.index, i) ELSE BlankLine]
       ELSE Throws

\* dumpProgram: the program, and blank lines up to the height of the placeholder.
DumpProgram(v, ph) ==
  LET program == exam[ph.index]
  IN IF Fits(program, ph)
       THEN [i \in 1 .. ph.height |->
               IF i \in DOMAIN program.lengths THEN SourceLine(v, ph.index, i) ELSE BlankLine]
       ELSE Throws

\* Mutation: lines of the output are counted from zero.
DumpOutput_FromZero(ph) ==
  IF ph.lineIndex < exam[ph.index].output
    THEN <<OutputLine(ph.index, ph.lineIndex + 1)>> ELSE Throws

\* dumpOutputLineString: the line, unless there is none of that number; zero makes
\* get(-1) throw.
DumpOutput(ph) ==
  IF ph.lineIndex \in 1 .. exam[ph.index].output
    THEN <<OutputLine(ph.index, ph.lineIndex)>> ELSE Throws

\* Mutation: the secret is kept from the teacher, too.
DumpSecretOutput_FromBoth(v, ph) == <<UnderscoreLine(ph.width)>>

\* Mutation: the variants are taken one for the other.
DumpSecretOutput_Swapped(v, ph) ==
  IF v = "TEACHER" THEN <<UnderscoreLine(ph.width)>> ELSE DumpOutput(ph)

\* dumpSecretOutput: students get underscores, whether or not there is such a line.
DumpSecretOutput(v, ph) ==
  IF v = "STUDENT" THEN <<UnderscoreLine(ph.width)>> ELSE DumpOutput(ph)

\* extractContentForPlaceholder; a program that the exam does not have is null.
Content(v, ph) ==
  IF ph.kind = "GROUP" THEN <<[from |-> "group"]>>
  ELSE IF ph.kind = "KIND" THEN <<[from |-> "kind", shown |-> v]>>
  ELSE IF ph.index \notin DOMAIN exam THEN Throws
  ELSE IF ph.kind = "CODE" THEN DumpProgram(v, ph)
  ELSE IF ph.kind = "OUTPUT" THEN DumpOutput(ph)
  ELSE DumpSecretOutput(v, ph)

-----------------------------------------------------------------------------
(***************************************************************************)
(* The documents.                                                          *)
(***************************************************************************)
LoadTemplate(v) ==
  /\ stage' = "find" /\ variant' = v
  /\ refs' = <<>> /\ at' = 1 /\ cells' = template

\* Mutation: the teacher's document comes first.
Start_TeacherFirst == stage = "start" /\ LoadTemplate("TEACHER") /\ UNCHANGED <<input, saved>>

\* generateExamVariantsForGroup begins with the students' document.
Start == stage = "start" /\ LoadTemplate("STUDENT") /\ UNCHANGED <<input, saved>>

\* buildExamModel has put the programs together; a template that cannot be loaded,
\* or a file that cannot be written, throws at any time.
Throw ==
  /\ stage \in {"find", "fill"}
  /\ stage' = "over"
  /\ UNCHANGED <<input, variant, refs, at, cells, saved>>

\* findPlaceholders: the cells in the order of the document; see Throw for a line
\* placeholder without a kind.
FindPlaceholder ==
  /\ stage = "find" /\ at <= Len(template)
  /\ LET c == template[at]
     IN \/ c.cell = "plain" /\ UNCHANGED refs
        \/ c.cell = "matrix" /\ refs' = Append(refs, [cell |-> at, asks |-> ParseMatrix(c)])
        \/ c.cell = "line" /\ HasKind(c)
             /\ refs' = Append(refs, [cell |-> at, asks |-> ParseLine(c)])
  /\ at' = at + 1
  /\ UNCHANGED <<stage, input, variant, cells, saved>>

FoundAll ==
  /\ stage = "find" /\ at > Len(template)
  /\ stage' = "fill" /\ at' = 1
  /\ UNCHANGED <<input, variant, refs, cells, saved>>

\* Mutation: the content is put beside what the cell held.
FillPlaceholder_Beside ==
  /\ stage = "fill" /\ at <= Len(refs)
  /\ Content(variant, refs[at].asks) # Throws
  /\ cells' = Append(cells, Content(variant, refs[at].asks))
  /\ at' = at + 1
  /\ UNCHANGED <<stage, input, variant, refs, saved>>

\* fillPlaceholder: the content takes the place of all the cell held.
FillPlaceholder ==
  /\ stage = "fill" /\ at <= Len(refs)
  /\ Content(variant, refs[at].asks) # Throws
  /\ cells' = [cells EXCEPT ![refs[at].cell] = Content(variant, refs[at].asks)]
  /\ at' = at + 1
  /\ UNCHANGED <<stage, input, variant, refs, saved>>

\* save, and on to the teacher's document.
SaveDocument ==
  /\ stage = "fill" /\ at > Len(refs)
  /\ saved' = [v \in DOMAIN saved \cup {variant} |-> IF v = variant THEN cells ELSE saved[v]]
  /\ IF variant = "STUDENT" THEN LoadTemplate("TEACHER")
     ELSE stage' = "over" /\ UNCHANGED <<variant, refs, at, cells>>
  /\ UNCHANGED input

Init ==
  /\ stage = "start"
  /\ template \in Template /\ exam \in Exam
  /\ variant = "STUDENT"
  /\ refs = <<>> /\ at = 1 /\ cells = template
  /\ saved = <<>>

Next == Start \/ FindPlaceholder \/ FoundAll \/ FillPlaceholder \/ SaveDocument \/ Throw

Spec == Init /\ [][Next]_vars
-----------------------------------------------------------------------------
(***************************************************************************)
(* Properties.                                                             *)
(***************************************************************************)
IsSaved(v) == v \in DOMAIN saved

\* Every variable has its type.
TypeOK ==
  /\ stage \in {"start", "find", "fill", "over"}
  /\ variant \in Variant
  /\ at \in 1 .. Len(template) + 1
  /\ \A i \in DOMAIN refs : refs[i].cell \in DOMAIN template
  /\ Len(cells) = Len(template)
  /\ DOMAIN saved \subseteq Variant
  /\ \A v \in DOMAIN saved : Len(saved[v]) = Len(template)

\* Once the students' document is saved, the teacher's can only fail to be filled at a
\* secret output of which there is no such line: any other mistake of the template
\* stops both documents.
TeacherFailsOnlyAtSecrets ==
  /\ variant = "TEACHER" /\ stage = "fill" /\ at <= Len(refs) /\ Content(variant, refs[at].asks) = Throws
       => /\ refs[at].asks.kind = "SECRET_OUTPUT"
          /\ refs[at].asks.lineIndex \notin 1 .. exam[refs[at].asks.index].output
  /\ variant = "TEACHER" /\ stage = "find" /\ at <= Len(template) /\ template[at].cell = "line"
       => HasKind(template[at])

\* A line of a saved cell as the students may see it.
ForStudents(line) == line.from \in {"source", "kind"} => line.shown = "STUDENT"

\* The students' document has nothing of the teacher's: no source with answers, and
\* no line of an output that the template keeps secret.
NothingForTeachersOnly ==
  IsSaved("STUDENT") => \A i \in DOMAIN template :
    template[i].cell # "plain" =>
      /\ \A k \in DOMAIN saved["STUDENT"][i] : ForStudents(saved["STUDENT"][i][k])
      /\ template[i].cell = "matrix" /\ template[i].symbol = "?" =>
           \A k \in DOMAIN saved["STUDENT"][i] : saved["STUDENT"][i][k].from = "underscores"

\* The two documents of a group have the same shape: the same cells, with as many
\* lines, the same lines of the same program and the same outputs but for the secrets.
DocumentsCorrespond ==
  IsSaved("TEACHER") => \A i \in DOMAIN template :
    LET student == saved["STUDENT"][i]
        teacher == saved["TEACHER"][i]
    IN IF template[i].cell = "plain" THEN student = teacher
       ELSE /\ Len(student) = Len(teacher)
            /\ \A k \in DOMAIN student :
                 IF student[k].from = "underscores"
                   THEN teacher[k] = [from |-> "output", program |-> template[i].index,
                                      line |-> template[i].line]
                 ELSE IF student[k].from \in {"source", "kind"}
                   THEN teacher[k] = [student[k] EXCEPT !.shown = "TEACHER"]
                 ELSE teacher[k] = student[k]

\* A saved document has every placeholder filled as the template drew it: code in as
\* many lines as the placeholder is high, and an output is the line with the number
\* in the placeholder; texts are as they were.
PlaceholdersAreFilled ==
  \A v \in Variant : IsSaved(v) => \A i \in DOMAIN template :
    LET c == template[i]
        content == saved[v][i]
    IN /\ c.cell = "plain" => content = c
       /\ c.cell = "line"  => Len(content) = 1
       /\ c.cell = "matrix" =>
            /\ c.symbol = "#" => Len(content) = 1 + c.slashes
            /\ c.symbol = "!" =>
                 content = <<[from |-> "output", program |-> c.index, line |-> c.line]>>
            /\ c.symbol = "?" => Len(content) = 1

\* The documents of the group as the abstract task sees them.
DocumentsStage ==
  CASE stage = "start" -> "unopened" [] stage = "over" -> "closed" [] OTHER -> "open"

Lifecycle == INSTANCE TaskLifecycle WITH
  Group <- {"A"},
  state <- "RUNNING",
  docs  <- [g \in {"A"} |-> DocumentsStage],
  saved <- [g \in {"A"} |-> {v \in Variant : IsSaved(v)}]

\* Generating the documents of a group, placeholder by placeholder, is what the
\* abstract task does with them: the students' document first, then the teacher's,
\* each at most once, and none after an exception.
ImplementsDocuments == Lifecycle!Spec

\* The check in LinePlaceholder.Kind.tryFindKindBy: a symbol that was taken for a line
\* placeholder has a kind.
LinePlaceholdersHaveKinds ==
  stage = "find" /\ at <= Len(template) /\ template[at].cell = "line" => HasKind(template[at])
=============================================================================
