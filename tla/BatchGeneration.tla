---------------------------- MODULE BatchGeneration ----------------------------
(***************************************************************************)
(* The program without the window (Main.java): generateAllExamVariants     *)
(* compiles every program for every group, runs them all, and then, for    *)
(* one group after the other, writes the directory "outputs" anew (for all *)
(* groups, every time) and saves the two documents of the group.           *)
(*                                                                         *)
(* The program is sequential.  What is hard about it is where it stops: an *)
(* exception, a full disk or a kill may end it between any two operations  *)
(* on files, and what it then leaves is what the next run and the teacher  *)
(* find.                                                                   *)
(***************************************************************************)
EXTENDS Naturals, Sequences, SequencesExt

CONSTANTS
  Program,     \* ids of the program templates
  GROUPS_COUNT \* groups are numbered from 1

ASSUME BatchAssumption == GROUPS_COUNT \in Nat \ {0}

Group   == 1 .. GROUPS_COUNT
File    == {"standard output.txt", "error output.txt"}
Variant == {"STUDENT", "TEACHER"}

(***************************************************************************)
(* What is below "outputs": a path is the sequence of the names that lead  *)
(* to it, the empty sequence the directory "outputs" itself.               *)
(***************************************************************************)
Root  == <<>>
Entry == {Root} \cup {<<g>> : g \in Group} \cup (Group \X Program)
                \cup (Group \X Program \X File)

\* An entry is absent, of an earlier run, being written, or of this run.
Content == {"absent", "old", "partial", "new"}

VARIABLES
  pc,        \* "compile", "run", "delete", "create", "write", "save"; or how it ended:
             \* "done", "aborted", or "clash", createDirectory found what it was to create
  compiled,  \* CompilerOutput of each program and group: "none" yet, a "program" or "nothing"
  ran,       \* programs and groups with a ProcessOutput
  group,     \* outer loop: the group whose documents are generated
  inner,     \* loop of generateFilesWithProgramsOutputs
  pass,      \* the entries this call of generateFilesWithProgramsOutputs is done with
  outputs,   \* the entries below "outputs"
  exam,      \* documents of each group: "old" (or none), "broken" or "new"
  before     \* history: the entries found when the program started

loops == <<group, inner, pass>>
vars  == <<pc, compiled, ran, loops, outputs, exam, before>>

Exists(e)   == outputs[e] # "absent"
Written(es) == \A e \in es : outputs[e] = "new"
Below(g, p) == {<<g, p>>} \cup {<<g, p, f>> : f \in File}

-----------------------------------------------------------------------------
(***************************************************************************)
(* Compilation and runs.                                                   *)
(***************************************************************************)

\* compileProgramTemplates goes on after a program that did not compile.
CompileProgram(p, g) ==
  /\ pc = "compile" /\ compiled[<<p, g>>] = "none"
  /\ \E output \in {"program", "nothing"} : compiled' = [compiled EXCEPT ![<<p, g>>] = output]
  /\ UNCHANGED <<pc, ran, loops, outputs, exam, before>>

CompiledAll ==
  /\ pc = "compile" /\ \A p \in Program, g \in Group : compiled[<<p, g>>] # "none"
  /\ pc' = "run"
  /\ UNCHANGED <<compiled, ran, loops, outputs, exam, before>>

\* runPrograms: a program that is missing, and the null of one that exits with a
\* non-zero code, throw out of toMap; see Abort.
RunProgram(p, g) ==
  /\ pc = "run" /\ compiled[<<p, g>>] = "program" /\ <<p, g>> \notin ran
  /\ ran' = ran \cup {<<p, g>>}
  /\ UNCHANGED <<pc, compiled, loops, outputs, exam, before>>

\* Mutation: the outputs of the programs that did run are good enough.
RanAll_Some ==
  /\ pc = "run" /\ ran # {}
  /\ pc' = "delete"
  /\ UNCHANGED <<compiled, ran, loops, outputs, exam, before>>

\* extractStandardOutputs.
RanAll ==
  /\ pc = "run" /\ ran = Program \X Group
  /\ pc' = "delete"
  /\ UNCHANGED <<compiled, ran, loops, outputs, exam, before>>

-----------------------------------------------------------------------------
(***************************************************************************)
(* generateFilesWithProgramsOutputs.                                       *)
(***************************************************************************)

\* deleteDirectory: what a directory holds goes before the directory.
DeleteEntry(e) ==
  /\ pc = "delete" /\ Exists(e)
  /\ \A c \in Entry : Exists(c) /\ c # Root => Front(c) # e
  /\ outputs' = [outputs EXCEPT ![e] = "absent"]
  /\ UNCHANGED <<pc, compiled, ran, loops, exam, before>>

\* Mutation: what is still there is left there.
DeletedOutputs_Quietly ==
  /\ pc = "delete"
  /\ pc' = "create"
  /\ UNCHANGED <<compiled, ran, loops, outputs, exam, before>>

\* Mutation: outputs is deleted for the first group only.
DeletedOutputs_FirstGroup ==
  /\ pc = "delete" /\ (~Exists(Root) \/ group > 1)
  /\ pc' = "create"
  /\ UNCHANGED <<compiled, ran, loops, outputs, exam, before>>

\* It returns when outputs itself is gone.
DeletedOutputs ==
  /\ pc = "delete" /\ ~Exists(Root)
  /\ pc' = "create"
  /\ UNCHANGED <<compiled, ran, loops, outputs, exam, before>>

\* createDirectory throws when there is anything of that name, whoever made it.
CreateDirectory(e) ==
  IF Exists(e) THEN pc' = "clash" /\ UNCHANGED outputs
               ELSE UNCHANGED pc /\ outputs' = [outputs EXCEPT ![e] = "new"]

CreateOutputs ==
  /\ pc = "create"
  /\ IF Exists(Root) THEN pc' = "clash" /\ UNCHANGED outputs
                     ELSE pc' = "write" /\ outputs' = [outputs EXCEPT ![Root] = "new"]
  /\ inner' = 1 /\ pass' = {Root}
  /\ UNCHANGED <<compiled, ran, group, exam, before>>

\* The directory of a group is only created if there is none.
CreateGroupDirectory ==
  /\ pc = "write" /\ <<inner>> \notin pass
  /\ IF Exists(<<inner>>) THEN UNCHANGED outputs
                          ELSE outputs' = [outputs EXCEPT ![<<inner>>] = "new"]
  /\ pass' = pass \cup {<<inner>>}
  /\ UNCHANGED <<pc, compiled, ran, group, inner, exam, before>>

\* The programs of a group come in any order, one after the other.
CreateProgramDirectory(p) ==
  /\ pc = "write" /\ <<inner>> \in pass /\ <<inner, p>> \notin pass
  /\ \A q \in Program : <<inner, q>> \in pass => Below(inner, q) \subseteq pass
  /\ CreateDirectory(<<inner, p>>)
  /\ pass' = pass \cup {<<inner, p>>}
  /\ UNCHANGED <<compiled, ran, group, inner, exam, before>>

\* Files.write truncates or creates the file ...
BeginFile(p, f) ==
  /\ pc = "write" /\ <<inner, p>> \in pass /\ <<inner, p, f>> \notin pass
  /\ f = "error output.txt" => <<inner, p, "standard output.txt">> \in pass
  /\ outputs[<<inner, p, f>>] # "partial"
  /\ outputs' = [outputs EXCEPT ![<<inner, p, f>>] = "partial"]
  /\ UNCHANGED <<pc, compiled, ran, loops, exam, before>>

\* ... and fills it.
EndFile(p, f) ==
  /\ pc = "write" /\ outputs[<<inner, p, f>>] = "partial"
  /\ outputs' = [outputs EXCEPT ![<<inner, p, f>>] = "new"]
  /\ pass' = pass \cup {<<inner, p, f>>}
  /\ UNCHANGED <<pc, compiled, ran, group, inner, exam, before>>

\* The directories and files of the group at hand are all there.
GroupWritten == <<inner>> \in pass /\ \A p \in Program : Below(inner, p) \subseteq pass

\* Mutation: only the outputs of the group at hand are written.
OutputsOfGroupWritten_OneGroup ==
  /\ pc = "write" /\ GroupWritten
  /\ pc' = "save"
  /\ UNCHANGED <<compiled, ran, loops, outputs, exam, before>>

\* Mutation: one group too many.
OutputsOfGroupWritten_OneMore ==
  /\ pc = "write" /\ GroupWritten
  /\ IF inner <= GROUPS_COUNT THEN inner' = inner + 1 /\ UNCHANGED pc
                              ELSE pc' = "save" /\ UNCHANGED inner
  /\ UNCHANGED <<compiled, ran, group, pass, outputs, exam, before>>

OutputsOfGroupWritten ==
  /\ pc = "write" /\ GroupWritten
  /\ IF inner < GROUPS_COUNT THEN inner' = inner + 1 /\ UNCHANGED pc
                             ELSE pc' = "save" /\ UNCHANGED inner
  /\ UNCHANGED <<compiled, ran, group, pass, outputs, exam, before>>

-----------------------------------------------------------------------------
(***************************************************************************)
(* generateExamVariantsForGroup.                                           *)
(***************************************************************************)

\* The variant that is saved next.
NextVariant == IF exam[<<group, "STUDENT">>] = "new" THEN "TEACHER" ELSE "STUDENT"

\* save truncates the document ...
BeginSave ==
  /\ pc = "save" /\ exam[<<group, NextVariant>>] = "old"
  /\ exam' = [exam EXCEPT ![<<group, NextVariant>>] = "broken"]
  /\ UNCHANGED <<pc, compiled, ran, loops, outputs, before>>

\* Mutation: the teacher's document is left out.
EndSave_StudentOnly ==
  /\ pc = "save" /\ exam[<<group, NextVariant>>] = "broken"
  /\ exam' = [exam EXCEPT ![<<group, NextVariant>>] = "new"]
  /\ IF group < GROUPS_COUNT THEN group' = group + 1 /\ pc' = "delete"
                             ELSE UNCHANGED group /\ pc' = "done"
  /\ UNCHANGED <<compiled, ran, inner, pass, outputs, before>>

\* ... and fills it; behind the teacher's document comes the next group.
EndSave ==
  /\ pc = "save" /\ exam[<<group, NextVariant>>] = "broken"
  /\ exam' = [exam EXCEPT ![<<group, NextVariant>>] = "new"]
  /\ IF NextVariant = "STUDENT" THEN UNCHANGED <<pc, group>>
     ELSE IF group < GROUPS_COUNT THEN group' = group + 1 /\ pc' = "delete"
     ELSE UNCHANGED group /\ pc' = "done"
  /\ UNCHANGED <<compiled, ran, inner, pass, outputs, before>>

\* An exception of any of these, or the end of the process.
Abort ==
  /\ pc \notin {"done", "aborted", "clash"}
  /\ pc' = "aborted"
  /\ UNCHANGED <<compiled, ran, loops, outputs, exam, before>>

-----------------------------------------------------------------------------
\* What earlier runs have left: any part of a tree.
Init ==
  /\ pc = "compile"
  /\ compiled = [pg \in Program \X Group |-> "none"]
  /\ ran = {}
  /\ group = 1 /\ inner = 1 /\ pass = {}
  /\ outputs \in {o \in [Entry -> {"absent", "old"}] :
                    \A e \in Entry \ {Root} : o[e] = "old" => o[Front(e)] = "old"}
  /\ exam = [d \in Group \X Variant |-> "old"]
  /\ before = outputs

Next ==
  \/ \E p \in Program, g \in Group : CompileProgram(p, g) \/ RunProgram(p, g)
  \/ CompiledAll \/ RanAll
  \/ \E e \in Entry : DeleteEntry(e)
  \/ DeletedOutputs \/ CreateOutputs \/ CreateGroupDirectory
  \/ \E p \in Program : \/ CreateProgramDirectory(p)
                        \/ \E f \in File : BeginFile(p, f) \/ EndFile(p, f)
  \/ OutputsOfGroupWritten \/ BeginSave \/ EndSave \/ Abort

Spec == Init /\ [][Next]_vars
-----------------------------------------------------------------------------
(***************************************************************************)
(* Properties.                                                             *)
(***************************************************************************)

\* Every variable has its type.
TypeOK ==
  /\ pc \in {"compile", "run", "delete", "create", "write", "save", "done", "aborted", "clash"}
  /\ compiled \in [Program \X Group -> {"none", "program", "nothing"}]
  /\ ran \subseteq Program \X Group
  /\ group \in Group /\ inner \in Group /\ pass \subseteq Entry
  /\ outputs \in [Entry -> Content]
  /\ exam \in [Group \X Variant -> {"old", "broken", "new"}]
  /\ before \in [Entry -> {"absent", "old"}]

Touched == outputs # before \/ \E d \in Group \X Variant : exam[d] # "old"

\* Nothing in the workspace is touched before every program has compiled, run and
\* exited with zero for every group: a mistake in a program costs no document and
\* no output of an earlier run.
UntouchedBeforeOutputs ==
  Touched => /\ ran = Program \X Group
             /\ \A p \in Program, g \in Group : compiled[<<p, g>>] = "program"

\* createDirectory never meets a file or directory of its name: neither one that an
\* earlier, aborted run has left nor one of this run, which writes the same tree
\* again for each group.
NeverClashes == pc # "clash"

\* When a document of a group is begun, and for as long as the program is at that
\* group, all outputs of all groups are of this run, also if it aborts there.
OutputsBesideDocuments ==
  (\E v \in Variant : exam[<<group, v>>] # "old") => Written(Entry)

\* Documents are replaced in order, group by group and the student's before the
\* teacher's: all documents before one that has been touched are new, so at most one
\* is broken, and a program that is done has replaced them all.
DocumentsInOrder ==
  /\ \A g \in Group :
       /\ exam[<<g, "TEACHER">>] # "old" => exam[<<g, "STUDENT">>] = "new"
       /\ \A h \in 1 .. g - 1 : exam[<<g, "STUDENT">>] # "old" => exam[<<h, "TEACHER">>] = "new"
  /\ pc = "done" => \A d \in Group \X Variant : exam[d] = "new"
=============================================================================
