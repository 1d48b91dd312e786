------------------------- MODULE BatchGenerationProofs -------------------------
(***************************************************************************)
(* Theorems about BatchGeneration, for any programs and any number of      *)
(* groups, and whatever earlier runs have left below "outputs".            *)
(***************************************************************************)
EXTENDS BatchGeneration, SequenceTheorems, TLAPS

(***************************************************************************)
(* The tree of outputs.                                                    *)
(***************************************************************************)
LEMMA Entries ==
  /\ Root \in Entry
  /\ \A g \in Group : <<g>> \in Entry
  /\ \A g \in Group, p \in Program : <<g, p>> \in Entry
  /\ \A g \in Group, p \in Program, f \in File : <<g, p, f>> \in Entry
BY DEF Entry, Root

\* An entry is the root, the directory of a group, that of a program, or a file.
LEMMA EntryCases ==
  ASSUME NEW e \in Entry
  PROVE  \/ e = Root
         \/ \E g \in Group : e = <<g>>
         \/ \E g \in Group, p \in Program : e = <<g, p>>
         \/ \E g \in Group, p \in Program, f \in File : e = <<g, p, f>>
BY DEF Entry, Root

\* Entries of different depth are different.
LEMMA Levels ==
  ASSUME NEW a, NEW b, NEW c, NEW d, NEW e, NEW f
  PROVE  /\ Root # <<a>> /\ Root # <<a, b>> /\ Root # <<a, b, c>>
         /\ <<a>> # <<d, e>> /\ <<a>> # <<d, e, f>> /\ <<a, b>> # <<d, e, f>>
<1>1. /\ Len(Root) = 0 /\ Len(<<a>>) = 1 /\ Len(<<a, b>>) = 2 /\ Len(<<a, b, c>>) = 3
      /\ Len(<<d, e>>) = 2 /\ Len(<<d, e, f>>) = 3
  BY DEF Root
<1>. QED  BY <1>1

\* The parent of a group's directory is the root.
LEMMA FrontOfOne ==
  ASSUME NEW a
  PROVE  Front(<<a>>) = Root
BY SubSeqEmpty DEF Front, Root

\* The parent of a program's directory is that of its group.
LEMMA FrontOfTwo ==
  ASSUME NEW a, NEW b
  PROVE  Front(<<a, b>>) = <<a>>
<1>. DEFINE S == {a, b}
            s == SubSeq(<<a, b>>, 1, 1)
            t == <<a>>
<1>1. s \in Seq(S) /\ Len(s) = 1 /\ s[1] = a
  BY SubSeqProperties
<1>2. t \in Seq(S) /\ Len(t) = 1 /\ t[1] = a
  OBVIOUS
<1>3. Front(<<a, b>>) = s
  BY DEF Front
<1>. HIDE DEF s, t, S
<1>4. s = t
  BY <1>1, <1>2, SeqEqual
<1>. QED  BY <1>3, <1>4 DEF t

\* The parent of a file is the directory of its program.
LEMMA FrontOfThree ==
  ASSUME NEW a, NEW b, NEW c
  PROVE  Front(<<a, b, c>>) = <<a, b>>
<1>. DEFINE S == {a, b, c}
            s == SubSeq(<<a, b, c>>, 1, 2)
            t == <<a, b>>
<1>1. s \in Seq(S) /\ Len(s) = 2 /\ s[1] = a /\ s[2] = b
  BY SubSeqProperties
<1>2. t \in Seq(S) /\ Len(t) = 2 /\ t[1] = a /\ t[2] = b
  OBVIOUS
<1>3. Front(<<a, b, c>>) = s
  BY DEF Front
<1>. HIDE DEF s, t, S
<1>4. s = t
  BY <1>1, <1>2, SeqEqual
<1>. QED  BY <1>3, <1>4 DEF t

-----------------------------------------------------------------------------
(***************************************************************************)
(* The inductive invariant.                                                *)
(***************************************************************************)

\* A program ran only if it compiled; outputs and documents are touched, and left to
\* the loops that write them, only when all have run.
RunsComplete ==
  /\ \A p \in Program, g \in Group : <<p, g>> \in ran => compiled[<<p, g>>] = "program"
  /\ pc \in {"delete", "create", "write", "save", "done"} => ran = Program \X Group
  /\ pc \in {"compile", "run"} => outputs = before /\ \A d \in Group \X Variant : exam[d] = "old"
  /\ Touched => ran = Program \X Group

\* What is in a directory that is not there is not there; a directory is never partial.
IsTree ==
  /\ \A g \in Group : Exists(<<g>>) => Exists(Root)
  /\ \A g \in Group, p \in Program : Exists(<<g, p>>) => Exists(<<g>>)
  /\ \A g \in Group, p \in Program, f \in File : Exists(<<g, p, f>>) => Exists(<<g, p>>)
  /\ outputs[Root] # "partial"
  /\ \A g \in Group : outputs[<<g>>] # "partial"
  /\ \A g \in Group, p \in Program : outputs[<<g, p>>] # "partial"

\* The tree is begun when nothing is left of the one before.  While it is written, what
\* the pass is done with is new, there is no directory it has not made itself, and it
\* is done with the groups the loop has left.
InnerLoop ==
  /\ pc = "create" => ~Exists(Root)
  /\ pc = "write" =>
       /\ Root \in pass
       /\ \A e \in pass : outputs[e] = "new"
       /\ \A g \in Group : Exists(<<g>>) => <<g>> \in pass
       /\ \A g \in Group, p \in Program : Exists(<<g, p>>) => <<g, p>> \in pass
       /\ \A g \in Group : g < inner =>
            <<g>> \in pass /\ \A p \in Program : Below(g, p) \subseteq pass
  /\ pc = "save" => Written(Entry)

\* Documents of the groups the loop has left are new, those of the groups to come old.
OuterLoop ==
  /\ \A h \in Group, v \in Variant : /\ h < group => exam[<<h, v>>] = "new"
                                     /\ h > group => exam[<<h, v>>] = "old"
  /\ exam[<<group, "TEACHER">>] # "old" => exam[<<group, "STUDENT">>] = "new"
  /\ pc \in {"compile", "run", "delete", "create", "write"} =>
       \A v \in Variant : exam[<<group, v>>] = "old"
  /\ pc = "done" => group = GROUPS_COUNT /\ \A v \in Variant : exam[<<group, v>>] = "new"

Inv ==
  TypeOK /\ NeverClashes /\ RunsComplete /\ IsTree /\ InnerLoop /\ OuterLoop
    /\ OutputsBesideDocuments

-----------------------------------------------------------------------------
(***************************************************************************)
(* The invariant holds at first and is preserved by every step.            *)
(***************************************************************************)
LEMMA Bounds ==
  /\ 1 \in Group /\ Group \subseteq Nat
  /\ \A g \in Group : 1 <= g /\ g <= GROUPS_COUNT /\ (g < GROUPS_COUNT => g + 1 \in Group)
  /\ "STUDENT" \in Variant /\ "TEACHER" \in Variant
  /\ \A v \in Variant : v = "STUDENT" \/ v = "TEACHER"
BY BatchAssumption DEF Group, Variant

\* A pass that is done with every group is done with the tree.
LEMMA TreeWritten ==
  ASSUME Root \in pass,
         \A g \in Group : <<g>> \in pass /\ \A p \in Program : Below(g, p) \subseteq pass
  PROVE  Entry \subseteq pass
<1>1. SUFFICES ASSUME NEW e \in Entry PROVE e \in pass
  OBVIOUS
<1>. QED  BY EntryCases DEF Below

\* It holds before the first compilation, whatever an earlier run has left.
LEMMA InitInv == Init => Inv
<1>. SUFFICES ASSUME Init PROVE Inv
  OBVIOUS
<1>. USE DEF Init
<1>1. /\ outputs \in [Entry -> {"absent", "old"}]
      /\ \A e \in Entry \ {Root} : outputs[e] = "old" => outputs[Front(e)] = "old"
  OBVIOUS
<1>2. /\ \A e \in Entry : outputs[e] \in {"absent", "old"}
      /\ outputs \in [Entry -> Content]
  <2>1. {"absent", "old"} \subseteq Content
    BY DEF Content
  <2>. HIDE DEF Init
  <2>. QED  BY <1>1, <2>1
<1>3. TypeOK
  BY <1>1, <1>2, Bounds DEF TypeOK
<1>4. IsTree
  <2>1. \A e \in Entry \ {Root} : Exists(e) => Exists(Front(e))
    BY <1>1, <1>2 DEF Exists
  <2>. HIDE DEF Init
  <2>2. ASSUME NEW g \in Group
        PROVE  /\ Exists(<<g>>) => Exists(Root)
               /\ outputs[Root] # "partial" /\ outputs[<<g>>] # "partial"
    BY <1>2, <2>1, Entries, Levels, FrontOfOne
  <2>3. ASSUME NEW g \in Group, NEW p \in Program
        PROVE  /\ Exists(<<g, p>>) => Exists(<<g>>)
               /\ outputs[<<g, p>>] # "partial"
    BY <1>2, <2>1, Entries, Levels, FrontOfTwo
  <2>4. ASSUME NEW g \in Group, NEW p \in Program, NEW f \in File
        PROVE  Exists(<<g, p, f>>) => Exists(<<g, p>>)
    BY <2>1, Entries, Levels, FrontOfThree
  <2>. QED  BY <2>2, <2>3, <2>4, <1>2, Entries DEF IsTree
<1>5. RunsComplete
  BY DEF RunsComplete, Touched
<1>6. OuterLoop
  BY Bounds DEF OuterLoop
<1>7. OutputsBesideDocuments
  BY Bounds DEF OutputsBesideDocuments
<1>8. NeverClashes /\ InnerLoop
  BY DEF NeverClashes, InnerLoop
<1>. QED  BY <1>3, <1>4, <1>5, <1>6, <1>7, <1>8 DEF Inv

\* A compilation touches no file.
LEMMA CompilePreserves ==
  ASSUME Inv, NEW p \in Program, NEW g \in Group, CompileProgram(p, g)
  PROVE  Inv'
<1>. USE DEF Inv, CompileProgram
<1>1. PICK output \in {"program", "nothing"} : compiled' = [compiled EXCEPT ![<<p, g>>] = output]
  OBVIOUS
<1>2. compiled \in [Program \X Group -> {"none", "program", "nothing"}] /\ <<p, g>> \in Program \X Group
  BY DEF TypeOK
<1>3. TypeOK'
  BY <1>1, <1>2 DEF TypeOK, loops
<1>4. \A q \in Program, h \in Group : compiled[<<q, h>>] = "program" => compiled'[<<q, h>>] = "program"
  BY <1>1, <1>2
<1>5. RunsComplete'
  BY <1>4 DEF RunsComplete, Touched
<1>6. (NeverClashes /\ IsTree /\ InnerLoop /\ OuterLoop /\ OutputsBesideDocuments)'
  BY DEF NeverClashes, IsTree, InnerLoop, OuterLoop, OutputsBesideDocuments, Exists, Written, loops
<1>. QED  BY <1>3, <1>5, <1>6

\* Neither does a run; the last one makes the outputs complete.
LEMMA RunPreserves ==
  ASSUME Inv, NEW p \in Program, NEW g \in Group, RunProgram(p, g)
  PROVE  Inv'
<1>. USE DEF Inv, RunProgram
<1>1. TypeOK'
  BY DEF TypeOK, loops
<1>2. RunsComplete'
  <2>1. \A q \in Program, h \in Group : <<q, h>> \in ran' => compiled'[<<q, h>>] = "program"
    BY DEF RunsComplete
  <2>2. ~Touched' /\ outputs' = before' /\ \A d \in Group \X Variant : exam'[d] = "old"
    BY DEF RunsComplete, Touched
  <2>. QED  BY <2>1, <2>2 DEF RunsComplete
<1>3. (NeverClashes /\ IsTree /\ InnerLoop /\ OuterLoop /\ OutputsBesideDocuments)'
  BY DEF NeverClashes, IsTree, InnerLoop, OuterLoop, OutputsBesideDocuments, Exists, Written, loops
<1>. QED  BY <1>1, <1>2, <1>3

\* Steps that change the program counter only.
LEMMA StagePreserves ==
  ASSUME Inv, CompiledAll \/ RanAll \/ DeletedOutputs \/ Abort
  PROVE  Inv'
<1>. USE DEF Inv, CompiledAll, RanAll, DeletedOutputs, Abort
<1>1. TypeOK'
  BY DEF TypeOK, loops
<1>2. RunsComplete'
  BY DEF RunsComplete, Touched
<1>3. (NeverClashes /\ IsTree /\ OutputsBesideDocuments)'
  BY DEF NeverClashes, IsTree, OutputsBesideDocuments, Exists, Written, loops
<1>4. InnerLoop'
  BY DEF InnerLoop, Written, Exists, loops
<1>5. OuterLoop'
  BY DEF OuterLoop, loops
<1>. QED  BY <1>1, <1>2, <1>3, <1>4, <1>5

\* One entry changes.
LEMMA EntryUpdate ==
  ASSUME NEW o \in [Entry -> Content], NEW e \in Entry, NEW x \in Content
  PROVE  LET o2 == [o EXCEPT ![e] = x] IN
         o2 \in [Entry -> Content] /\ o2[e] = x /\ \A c \in Entry : c # e => o2[c] = o[c]
OBVIOUS

\* A leaf that is deleted leaves a tree.
LEMMA DeletePreserves ==
  ASSUME Inv, NEW e \in Entry, DeleteEntry(e)
  PROVE  Inv'
<1>. USE DEF Inv
<1>1. pc = "delete" /\ UNCHANGED <<pc, compiled, ran, group, inner, pass, exam, before>>
  BY DEF DeleteEntry, loops
<1>2. outputs' \in [Entry -> Content] /\ outputs'[e] = "absent"
      /\ \A c \in Entry : c # e => outputs'[c] = outputs[c]
  BY EntryUpdate DEF DeleteEntry, TypeOK, Content
<1>3. \A c \in Entry : Exists(c) /\ c # Root => Front(c) # e
  BY DEF DeleteEntry
<1>4. TypeOK'
  BY <1>1, <1>2 DEF TypeOK
<1>5. (NeverClashes /\ InnerLoop /\ OuterLoop)'
  BY <1>1 DEF NeverClashes, InnerLoop, OuterLoop
<1>6. RunsComplete'
  BY <1>1 DEF RunsComplete, Touched
<1>7. OutputsBesideDocuments'
  BY <1>1 DEF OuterLoop, OutputsBesideDocuments
<1>8. IsTree'
  <2>1. ASSUME NEW g \in Group
        PROVE  /\ Exists(<<g>>)' => Exists(Root)'
               /\ outputs'[Root] # "partial" /\ outputs'[<<g>>] # "partial"
    BY <1>2, <1>3, Entries, Levels, FrontOfOne DEF IsTree, Exists
  <2>2. ASSUME NEW g \in Group, NEW p \in Program
        PROVE  /\ Exists(<<g, p>>)' => Exists(<<g>>)'
               /\ outputs'[<<g, p>>] # "partial"
    BY <1>2, <1>3, Entries, Levels, FrontOfTwo DEF IsTree, Exists
  <2>3. ASSUME NEW g \in Group, NEW p \in Program, NEW f \in File
        PROVE  Exists(<<g, p, f>>)' => Exists(<<g, p>>)'
    BY <1>2, <1>3, Entries, Levels, FrontOfThree DEF IsTree, Exists
  <2>4. outputs'[Root] # "partial"
    BY <2>1, Bounds
  <2>. QED  BY <2>1, <2>2, <2>3, <2>4 DEF IsTree
<1>. QED  BY <1>4, <1>5, <1>6, <1>7, <1>8

\* The new root stands alone.
LEMMA CreateOutputsPreserves ==
  ASSUME Inv, CreateOutputs
  PROVE  Inv'
<1>. USE DEF Inv
<1>1. /\ pc = "create" /\ ~Exists(Root) /\ pc' = "write" /\ inner' = 1 /\ pass' = {Root}
      /\ outputs' = [outputs EXCEPT ![Root] = "new"]
      /\ UNCHANGED <<compiled, ran, group, exam, before>>
  BY DEF CreateOutputs, InnerLoop
<1>2. outputs' \in [Entry -> Content] /\ outputs'[Root] = "new"
      /\ \A c \in Entry : c # Root => outputs'[c] = outputs[c]
  BY <1>1, EntryUpdate, Entries DEF TypeOK, Content
<1>3. \A e \in Entry : ~Exists(e)
  <2>1. \A g \in Group : ~Exists(<<g>>)
    BY <1>1 DEF IsTree
  <2>2. \A g \in Group, p \in Program : ~Exists(<<g, p>>)
    BY <2>1 DEF IsTree
  <2>3. \A g \in Group, p \in Program, f \in File : ~Exists(<<g, p, f>>)
    BY <2>2 DEF IsTree
  <2>. QED  BY <1>1, <2>1, <2>2, <2>3, EntryCases
<1>4. \A e \in Entry : e # Root => outputs'[e] = "absent"
  BY <1>2, <1>3 DEF Exists
<1>5. TypeOK'
  BY <1>1, <1>2, Bounds, Entries DEF TypeOK
<1>6. InnerLoop'
  <2>1. /\ \A g \in Group : ~Exists(<<g>>)'
        /\ \A g \in Group, p \in Program : ~Exists(<<g, p>>)'
    BY <1>4, Entries, Levels DEF Exists
  <2>2. \A g \in Group : ~(g < 1)
    BY Bounds
  <2>. QED  BY <1>1, <1>2, <2>1, <2>2 DEF InnerLoop
<1>7. IsTree'
  BY <1>2, <1>4, Entries, Levels DEF IsTree, Exists
<1>8. RunsComplete'
  BY <1>1 DEF RunsComplete
<1>9. (NeverClashes /\ OuterLoop /\ OutputsBesideDocuments)'
  BY <1>1 DEF NeverClashes, OuterLoop, OutputsBesideDocuments
<1>. QED  BY <1>5, <1>6, <1>7, <1>8, <1>9

\* Writing one entry of the group at hand that the pass was not done with, in a directory
\* that it was.
LEMMA WritePreserves ==
  ASSUME Inv, pc = "write", UNCHANGED <<pc, compiled, ran, group, inner, exam, before>>,
         NEW e \in Entry, NEW x \in {"partial", "new"}, e \notin pass,
         outputs' = [outputs EXCEPT ![e] = x],
         pass' = (IF x = "new" THEN pass \cup {e} ELSE pass),
         \/ e = <<inner>> /\ x = "new"
         \/ <<inner>> \in pass /\ \E p \in Program : e = <<inner, p>> /\ x = "new"
         \/ \E p \in Program : <<inner, p>> \in pass /\ \E f \in File : e = <<inner, p, f>>
  PROVE  Inv'
<1>. USE DEF Inv
<1>. DEFINE OfGroupAtHand ==
              /\ Root # e
              /\ \A g \in Group : <<g>> = e => x = "new"
              /\ \A g \in Group, p \in Program : <<g, p>> = e => x = "new" /\ Exists(<<g>>)
              /\ \A g \in Group, p \in Program, f \in File :
                   <<g, p, f>> = e => Exists(<<g, p>>)
<1>1. outputs' \in [Entry -> Content] /\ outputs'[e] = x
      /\ \A c \in Entry : c # e => outputs'[c] = outputs[c]
  BY EntryUpdate DEF TypeOK, Content
<1>2. TypeOK'
  BY <1>1 DEF TypeOK
<1>3. inner \in Group /\ pass \subseteq Entry /\ \A c \in pass : Exists(c)
  BY DEF TypeOK, InnerLoop, Exists
<1>4. \A c \in Entry : Exists(c) => Exists(c)'
  BY <1>1 DEF Exists
<1>5. OfGroupAtHand
  <2>1. CASE e = <<inner>> /\ x = "new"
    BY <2>1, Levels
  <2>2. ASSUME NEW p \in Program, <<inner>> \in pass, e = <<inner, p>>, x = "new"
        PROVE  OfGroupAtHand
    BY <1>3, <2>2, Levels
  <2>3. ASSUME NEW p \in Program, NEW f \in File,
               <<inner, p>> \in pass, e = <<inner, p, f>>
        PROVE  OfGroupAtHand
    BY <1>3, <2>3, Levels
  <2>. QED  BY <2>1, <2>2, <2>3
<1>6. \A c \in Entry : Exists(c)' => Exists(c) \/ c = e
  BY <1>1 DEF Exists
<1>7. IsTree'
  <2>1. ASSUME NEW g \in Group
        PROVE  /\ Exists(<<g>>)' => Exists(Root)'
               /\ outputs'[Root] # "partial" /\ outputs'[<<g>>] # "partial"
    <3>1. Exists(Root)
      BY <1>3 DEF InnerLoop
    <3>. QED  BY <1>1, <1>4, <1>5, <3>1, Entries DEF IsTree
  <2>2. ASSUME NEW g \in Group, NEW p \in Program
        PROVE  /\ Exists(<<g, p>>)' => Exists(<<g>>)'
               /\ outputs'[<<g, p>>] # "partial"
    BY <1>1, <1>4, <1>6, <1>5, Entries DEF IsTree
  <2>3. ASSUME NEW g \in Group, NEW p \in Program, NEW f \in File
        PROVE  Exists(<<g, p, f>>)' => Exists(<<g, p>>)'
    <3>1. Exists(<<g, p, f>>)' => Exists(<<g, p>>)
      BY <1>6, <1>5, Entries DEF IsTree
    <3>. QED  BY <1>4, <3>1, Entries
  <2>4. outputs'[Root] # "partial"
    BY <2>1, Bounds
  <2>. QED  BY <2>1, <2>2, <2>3, <2>4 DEF IsTree
<1>8. InnerLoop'
  <2>1. pass \subseteq pass' /\ (x = "new" => e \in pass')
    OBVIOUS
  <2>2. \A c \in pass' : outputs'[c] = "new"
    BY <1>1, <1>3 DEF InnerLoop
  <2>3. /\ \A g \in Group : Exists(<<g>>)' => <<g>> \in pass'
        /\ \A g \in Group, p \in Program : Exists(<<g, p>>)' => <<g, p>> \in pass'
    BY <1>5, <1>6, <2>1, Entries DEF InnerLoop
  <2>. QED  BY <2>1, <2>2, <2>3 DEF InnerLoop
<1>9. RunsComplete'
  BY DEF RunsComplete, Touched
<1>10. (NeverClashes /\ OuterLoop)'
  BY DEF NeverClashes, OuterLoop
<1>11. OutputsBesideDocuments'
  BY DEF OuterLoop, OutputsBesideDocuments
<1>. QED  BY <1>2, <1>7, <1>8, <1>9, <1>10, <1>11

\* A group's directory that the pass is not done with is not there, and is made.
LEMMA CreateGroupDirectoryPreserves ==
  ASSUME Inv, CreateGroupDirectory
  PROVE  Inv'
<1>1. inner \in Group
  BY DEF Inv, TypeOK
<1>2. ~Exists(<<inner>>)
  BY <1>1 DEF Inv, InnerLoop, CreateGroupDirectory
<1>. QED  BY <1>1, <1>2, WritePreserves, Entries DEF CreateGroupDirectory

\* Nor is a program's directory, whoever might have made it.
LEMMA CreateProgramDirectoryPreserves ==
  ASSUME Inv, NEW p \in Program, CreateProgramDirectory(p)
  PROVE  Inv'
<1>1. inner \in Group /\ <<inner, p>> \in Entry
  BY Entries DEF Inv, TypeOK
<1>2. ~Exists(<<inner, p>>)
  BY <1>1 DEF Inv, InnerLoop, CreateProgramDirectory
<1>. QED  BY <1>1, <1>2, WritePreserves DEF CreateProgramDirectory, CreateDirectory

\* A file is begun and ended in the directory of its program.
LEMMA FilePreserves ==
  ASSUME Inv, NEW p \in Program, NEW f \in File, BeginFile(p, f) \/ EndFile(p, f)
  PROVE  Inv'
<1>1. inner \in Group /\ <<inner>> \in Entry /\ <<inner, p>> \in Entry /\ <<inner, p, f>> \in Entry
  BY Entries DEF Inv, TypeOK
<1>2. <<inner, p, f>> \notin pass
  BY DEF Inv, InnerLoop, BeginFile, EndFile
<1>3. <<inner, p>> \in pass
  BY <1>1 DEF Inv, InnerLoop, IsTree, Exists, BeginFile, EndFile
<1>. QED  BY <1>1, <1>2, <1>3, WritePreserves DEF BeginFile, EndFile, loops

\* The inner loop goes on to the next group, or to the documents.
LEMMA OutputsOfGroupWrittenPreserves ==
  ASSUME Inv, OutputsOfGroupWritten
  PROVE  Inv'
<1>. USE DEF Inv
<1>1. /\ pc = "write" /\ <<inner>> \in pass /\ \A p \in Program : Below(inner, p) \subseteq pass
      /\ inner < GROUPS_COUNT => inner' = inner + 1 /\ pc' = pc
      /\ ~(inner < GROUPS_COUNT) => pc' = "save" /\ inner' = inner
      /\ UNCHANGED <<compiled, ran, group, pass, outputs, exam, before>>
  BY DEF OutputsOfGroupWritten, GroupWritten
<1>2. inner \in Group /\ group \in Group
  BY DEF TypeOK
<1>3. TypeOK'
  <2>1. inner' \in Group
    BY <1>1, <1>2, Bounds
  <2>. QED  BY <1>1, <2>1 DEF TypeOK
<1>4. \A g \in Group : g <= inner =>
        <<g>> \in pass /\ \A p \in Program : Below(g, p) \subseteq pass
  <2>1. \A g \in Group : g <= inner => g < inner \/ g = inner
    BY <1>2, Bounds
  <2>. QED  BY <1>1, <2>1 DEF InnerLoop
<1>5. InnerLoop'
  <2>1. CASE inner < GROUPS_COUNT
    <3>1. \A g \in Group : g < inner' => g <= inner
      BY <1>1, <1>2, <2>1, Bounds
    <3>. QED  BY <1>1, <1>4, <2>1, <3>1 DEF InnerLoop, Exists
  <2>2. CASE ~(inner < GROUPS_COUNT)
    <3>1. \A g \in Group : g <= inner
      BY <1>2, <2>2, Bounds, BatchAssumption
    <3>2. Entry \subseteq pass
      BY <1>1, <1>4, <3>1, TreeWritten DEF InnerLoop
    <3>3. Written(Entry)
      BY <1>1, <3>2 DEF InnerLoop, Written
    <3>. QED  BY <1>1, <2>2, <3>3 DEF InnerLoop, Written
  <2>. QED  BY <2>1, <2>2
<1>6. (NeverClashes /\ RunsComplete /\ OuterLoop)'
  BY <1>1 DEF NeverClashes, RunsComplete, OuterLoop, Touched
<1>7. (IsTree /\ OutputsBesideDocuments)'
  BY <1>1 DEF IsTree, Exists, OutputsBesideDocuments, Written
<1>. QED  BY <1>3, <1>5, <1>6, <1>7

\* One document changes.
LEMMA ExamUpdate ==
  ASSUME NEW o \in [Group \X Variant -> {"old", "broken", "new"}],
         NEW g \in Group, NEW v \in Variant, NEW x \in {"old", "broken", "new"}
  PROVE  LET o2 == [o EXCEPT ![<<g, v>>] = x] IN
         /\ o2 \in [Group \X Variant -> {"old", "broken", "new"}]
         /\ o2[<<g, v>>] = x
         /\ \A h \in Group, w \in Variant : h # g \/ w # v => o2[<<h, w>>] = o[<<h, w>>]
OBVIOUS

\* Before its teacher's document is touched a group has its student's.
LEMMA NextVariants ==
  ASSUME TypeOK
  PROVE  /\ NextVariant \in Variant
         /\ NextVariant = "STUDENT" <=> exam[<<group, "STUDENT">>] # "new"
         /\ NextVariant = "TEACHER" <=> exam[<<group, "STUDENT">>] = "new"
BY DEF NextVariant, Variant

\* A document is broken only while it is being saved.
LEMMA BeginSavePreserves ==
  ASSUME Inv, BeginSave
  PROVE  Inv'
<1>. USE DEF Inv
<1>. DEFINE v == NextVariant
<1>1. /\ pc = "save" /\ exam[<<group, v>>] = "old"
      /\ UNCHANGED <<pc, compiled, ran, group, inner, pass, outputs, before>>
  BY DEF BeginSave, loops
<1>2. group \in Group /\ v \in Variant
  BY NextVariants DEF TypeOK
<1>3. /\ exam' \in [Group \X Variant -> {"old", "broken", "new"}]
      /\ exam'[<<group, v>>] = "broken"
      /\ \A h \in Group, w \in Variant : h # group \/ w # v => exam'[<<h, w>>] = exam[<<h, w>>]
  BY <1>2, ExamUpdate DEF BeginSave, TypeOK
<1>4. TypeOK'
  BY <1>1, <1>3 DEF TypeOK
<1>5. (NeverClashes /\ IsTree /\ InnerLoop)'
  BY <1>1 DEF NeverClashes, IsTree, InnerLoop, Exists, Written
<1>6. RunsComplete'
  BY <1>1 DEF RunsComplete
<1>7. OutputsBesideDocuments'
  BY <1>1 DEF InnerLoop, OutputsBesideDocuments, Written
<1>8. OuterLoop'
  <2>1. \A h \in Group, w \in Variant : /\ h < group => exam'[<<h, w>>] = "new"
                                        /\ h > group => exam'[<<h, w>>] = "old"
    <3>1. \A h \in Group : h < group \/ h > group => h # group
      BY <1>2, Bounds
    <3>2. \A h \in Group, w \in Variant : /\ h < group => exam[<<h, w>>] = "new"
                                          /\ h > group => exam[<<h, w>>] = "old"
      BY DEF OuterLoop
    <3>. QED  BY <1>3, <3>1, <3>2
  <2>2. exam'[<<group, "TEACHER">>] # "old" => exam'[<<group, "STUDENT">>] = "new"
    BY <1>1, <1>2, <1>3, NextVariants, Bounds DEF OuterLoop
  <2>. QED  BY <1>1, <2>1, <2>2 DEF OuterLoop
<1>. QED  BY <1>4, <1>5, <1>6, <1>7, <1>8

\* A document saved is new; the last of a group ends a turn of the outer loop.
LEMMA EndSavePreserves ==
  ASSUME Inv, EndSave
  PROVE  Inv'
<1>. USE DEF Inv
<1>. DEFINE v == NextVariant
<1>1. /\ pc = "save" /\ exam[<<group, v>>] = "broken"
      /\ UNCHANGED <<compiled, ran, inner, pass, outputs, before>>
      /\ v = "STUDENT" => pc' = pc /\ group' = group
      /\ v # "STUDENT" /\ group < GROUPS_COUNT => group' = group + 1 /\ pc' = "delete"
      /\ v # "STUDENT" /\ ~(group < GROUPS_COUNT) => group' = group /\ pc' = "done"
  BY DEF EndSave
<1>2. group \in Group /\ v \in Variant
  BY NextVariants DEF TypeOK
<1>3. /\ exam' \in [Group \X Variant -> {"old", "broken", "new"}]
      /\ exam'[<<group, v>>] = "new"
      /\ \A h \in Group, w \in Variant : h # group \/ w # v => exam'[<<h, w>>] = exam[<<h, w>>]
  BY <1>2, ExamUpdate DEF EndSave, TypeOK
<1>4. /\ \A h \in Group, w \in Variant : /\ h < group => exam'[<<h, w>>] = "new"
                                         /\ h > group => exam'[<<h, w>>] = "old"
      /\ exam'[<<group, "STUDENT">>] = "new"
      /\ v # "STUDENT" => \A w \in Variant : exam'[<<group, w>>] = "new"
  <2>1. \A h \in Group, w \in Variant : /\ h < group => exam'[<<h, w>>] = "new"
                                        /\ h > group => exam'[<<h, w>>] = "old"
    <3>1. \A h \in Group : h < group \/ h > group => h # group
      BY <1>2, Bounds
    <3>2. \A h \in Group, w \in Variant : /\ h < group => exam[<<h, w>>] = "new"
                                          /\ h > group => exam[<<h, w>>] = "old"
      BY DEF OuterLoop
    <3>. QED  BY <1>3, <3>1, <3>2
  <2>2. exam'[<<group, "STUDENT">>] = "new"
    BY <1>2, <1>3, NextVariants, Bounds
  <2>3. v # "STUDENT" => v = "TEACHER"
    BY <1>2, Bounds
  <2>. QED  BY <1>3, <2>1, <2>2, <2>3, Bounds
<1>. HIDE DEF v
<1>5. (NeverClashes /\ IsTree)'
  BY <1>1 DEF NeverClashes, IsTree, Exists
<1>6. RunsComplete'
  BY <1>1 DEF RunsComplete
<1>7. Written(Entry)' /\ InnerLoop'
  BY <1>1 DEF InnerLoop, Written
<1>8. OutputsBesideDocuments'
  BY <1>7 DEF OutputsBesideDocuments
<1>9. TypeOK' /\ OuterLoop'
  <2>1. CASE v = "STUDENT"
    BY <1>1, <1>3, <1>4, <2>1 DEF TypeOK, OuterLoop
  <2>2. CASE v # "STUDENT" /\ group < GROUPS_COUNT
    <3>1. group' \in Group /\ group' = group + 1 /\ pc' = "delete"
      BY <1>1, <1>2, <2>2, Bounds
    <3>2. \A h \in Group : (h < group' => h < group \/ h = group) /\ (h >= group' => h > group)
      BY <1>2, <3>1, Bounds
    <3>3. \A h \in Group, w \in Variant : /\ h < group' => exam'[<<h, w>>] = "new"
                                          /\ h >= group' => exam'[<<h, w>>] = "old"
      BY <1>4, <2>2, <3>2
    <3>4. \A w \in Variant : exam'[<<group', w>>] = "old"
      BY <3>1, <3>3, Bounds
    <3>5. \A h \in Group : h > group' => h >= group'
      BY <3>1, Bounds
    <3>6. exam'[<<group', "TEACHER">>] = "old"
      BY <3>4, Bounds
    <3>. QED  BY <1>1, <1>3, <3>1, <3>3, <3>4, <3>5, <3>6 DEF TypeOK, OuterLoop
  <2>3. CASE v # "STUDENT" /\ ~(group < GROUPS_COUNT)
    <3>1. group = GROUPS_COUNT
      BY <1>2, <2>3, Bounds, BatchAssumption
    <3>. QED  BY <1>1, <1>3, <1>4, <2>3, <3>1, Bounds DEF TypeOK, OuterLoop
  <2>. QED  BY <2>1, <2>2, <2>3
<1>. QED  BY <1>5, <1>6, <1>7, <1>8, <1>9

\* One case per action.
LEMMA StepInv == Inv /\ [Next]_vars => Inv'
<1>. SUFFICES ASSUME Inv, [Next]_vars PROVE Inv'
  OBVIOUS
<1>1. ASSUME NEW p \in Program, NEW g \in Group, CompileProgram(p, g) \/ RunProgram(p, g)
      PROVE  Inv'
  BY <1>1, CompilePreserves, RunPreserves
<1>2. CASE CompiledAll \/ RanAll \/ DeletedOutputs \/ Abort
  BY <1>2, StagePreserves
<1>3. ASSUME NEW e \in Entry, DeleteEntry(e) PROVE Inv'
  BY <1>3, DeletePreserves
<1>4. CASE CreateOutputs \/ CreateGroupDirectory
  BY <1>4, CreateOutputsPreserves, CreateGroupDirectoryPreserves
<1>5. ASSUME NEW p \in Program, CreateProgramDirectory(p) PROVE Inv'
  BY <1>5, CreateProgramDirectoryPreserves
<1>6. ASSUME NEW p \in Program, NEW f \in File, BeginFile(p, f) \/ EndFile(p, f) PROVE Inv'
  BY <1>6, FilePreserves
<1>7. CASE OutputsOfGroupWritten \/ BeginSave \/ EndSave
  BY <1>7, OutputsOfGroupWrittenPreserves, BeginSavePreserves, EndSavePreserves
<1>8. CASE UNCHANGED vars
  BY <1>8 DEF vars, loops, Inv, TypeOK, NeverClashes, RunsComplete, IsTree, InnerLoop, OuterLoop,
              OutputsBesideDocuments, Touched, Exists, Written
<1>. QED  BY <1>1, <1>2, <1>3, <1>4, <1>5, <1>6, <1>7, <1>8 DEF Next

\* The invariant holds in every state of a run.
LEMMA Invariance == Spec => []Inv
BY InitInv, StepInv, PTL DEF Spec

-----------------------------------------------------------------------------
(***************************************************************************)
(* The theorems.                                                           *)
(***************************************************************************)

\* The type invariant of the program and of what it leaves in the workspace, for any
\* programs and any number of groups.
THEOREM TypeCorrect == Spec => []TypeOK
<1>1. Inv => TypeOK
  BY DEF Inv
<1>. QED  BY <1>1, Invariance, PTL

\* The workspace is only touched when every program has compiled and run for every
\* group.
THEOREM UntouchedUntilAllRan == Spec => []UntouchedBeforeOutputs
<1>1. Inv => UntouchedBeforeOutputs
  BY DEF Inv, RunsComplete, UntouchedBeforeOutputs
<1>. QED  BY <1>1, Invariance, PTL

\* createDirectory never throws because of a file or directory that is already there:
\* not one that an earlier run has left, however deep into the tree that run came, and
\* not one that this run made for a group before.
THEOREM DirectoriesNeverClash == Spec => []NeverClashes
<1>1. Inv => NeverClashes
  BY DEF Inv
<1>. QED  BY <1>1, Invariance, PTL

\* While the documents of the group at hand are replaced, all outputs of all groups are
\* of this run.
THEOREM OutputsAreBeside == Spec => []OutputsBesideDocuments
<1>1. Inv => OutputsBesideDocuments
  BY DEF Inv
<1>. QED  BY <1>1, Invariance, PTL

\* Documents are replaced group by group and the student's before the teacher's, for
\* any number of groups.
THEOREM DocumentsAreInOrder == Spec => []DocumentsInOrder
<1>1. Inv => DocumentsInOrder
  <2>. SUFFICES ASSUME Inv PROVE DocumentsInOrder
    OBVIOUS
  <2>. USE DEF Inv
  <2>1. group \in Group
    BY DEF TypeOK
  <2>2. ASSUME NEW g \in Group, exam[<<g, "TEACHER">>] # "old"
        PROVE  exam[<<g, "STUDENT">>] = "new"
    <3>1. g < group \/ g = group
      BY <2>1, <2>2, Bounds DEF OuterLoop
    <3>. QED  BY <2>2, <3>1, Bounds DEF OuterLoop
  <2>3. ASSUME NEW g \in Group, NEW h \in 1 .. g - 1, exam[<<g, "STUDENT">>] # "old"
        PROVE  exam[<<h, "TEACHER">>] = "new"
    <3>1. ~(g > group)
      BY <2>3, Bounds DEF OuterLoop
    <3>2. h \in Group /\ h < group
      BY <2>1, <3>1, Bounds, BatchAssumption DEF Group
    <3>. QED  BY <3>2, Bounds DEF OuterLoop
  <2>4. ASSUME pc = "done", NEW d \in Group \X Variant
        PROVE  exam[d] = "new"
    <3>1. PICK g \in Group, v \in Variant : d = <<g, v>>
      OBVIOUS
    <3>2. group = GROUPS_COUNT
      BY <2>4 DEF OuterLoop
    <3>3. g < group \/ g = group
      BY <3>2, Bounds, BatchAssumption
    <3>. QED  BY <2>4, <3>1, <3>3 DEF OuterLoop
  <2>. QED  BY <2>2, <2>3, <2>4 DEF DocumentsInOrder
<1>. QED  BY <1>1, Invariance, PTL
=============================================================================
