--------------------------- MODULE ProgramExecution ---------------------------
(***************************************************************************)
(* What the suppliers of one program and group do on their worker thread:  *)
(* compileProgramTemplate runs g++, runProgram runs what g++ made, both    *)
(* through util/ProcessUtils.execute, which starts a process, waits for it *)
(* to end (waitFor) and only then reads its standard output and its error  *)
(* output to their ends.                                                   *)
(*                                                                         *)
(* What a process writes passes through two pipes of the operating system  *)
(* that hold Capacity units each.  A process that writes to a full pipe    *)
(* is blocked until somebody reads.                                        *)
(***************************************************************************)
EXTENDS Naturals

CONSTANTS
  Capacity,  \* what a pipe holds
  MaxOutput  \* bound on what a process writes to each stream

ASSUME ExecutionAssumption == Capacity \in Nat /\ MaxOutput \in Nat

Stream == {"stdout", "stderr"}
Phase  == {"compile", "run"}

\* Zero, and any other exit code.
Status == {0, 1}

VARIABLES
  phase,    \* what the thread is about: "compile", "run" or "over"
  pc,       \* in execute: "start", "waitFor", "stdout" or "stderr" (reading it), "return"
  alive,    \* the process has not ended
  total,    \* what the process is to write to each stream
  status,   \* its exit code
  pipe,     \* what each pipe holds
  left,     \* what the process still has to write
  read,     \* what execute has read
  outcome,  \* how each phase ended, as in module ProjectTask; "none" before
  report    \* kind of the diagnostic each phase wrote, or "none"

vars == <<phase, pc, alive, total, status, pipe, left, read, outcome, report>>

Outputs == [Stream -> 0 .. MaxOutput]
Nothing == [s \in Stream |-> 0]

Init ==
  /\ phase = "compile" /\ pc = "start"
  /\ alive = FALSE
  /\ total = Nothing /\ status = 0
  /\ pipe = Nothing /\ left = Nothing /\ read = Nothing
  /\ outcome = [ph \in Phase |-> "none"]
  /\ report = [ph \in Phase |-> "none"]

-----------------------------------------------------------------------------
(***************************************************************************)
(* ProcessUtils.execute.                                                   *)
(***************************************************************************)

\* A compilation is always tried; a run needs the program that g++ made.
HasProgram == phase = "run" => outcome["compile"] = "ok"

\* Mutation: execute reads before it waits.
StartProcess_ReadFirst ==
  /\ phase # "over" /\ pc = "start" /\ HasProgram
  /\ pc' = "stdout"
  /\ alive' = TRUE
  /\ \E t \in Outputs, st \in Status : total' = t /\ left' = t /\ status' = st
  /\ pipe' = Nothing /\ read' = Nothing
  /\ UNCHANGED <<phase, outcome, report>>

\* ProcessBuilder.start succeeds; what the process will do is up to it.
StartProcess ==
  /\ phase # "over" /\ pc = "start" /\ HasProgram
  /\ pc' = "waitFor"
  /\ alive' = TRUE
  /\ \E t \in Outputs, st \in Status : total' = t /\ left' = t /\ status' = st
  /\ pipe' = Nothing /\ read' = Nothing
  /\ UNCHANGED <<phase, outcome, report>>

\* Mutation: waitFor also waits for the output to be read.
WaitFor_Drained ==
  /\ pc = "waitFor" /\ ~alive /\ pipe = Nothing
  /\ pc' = "stdout"
  /\ UNCHANGED <<phase, alive, total, status, pipe, left, read, outcome, report>>

WaitFor ==
  /\ pc = "waitFor" /\ ~alive
  /\ pc' = "stdout"
  /\ UNCHANGED <<phase, alive, total, status, pipe, left, read, outcome, report>>

\* Mutation: reading leaves the pipe as it was.
Read_Repeated(s) ==
  /\ pc = s /\ pipe[s] > 0
  /\ read' = [read EXCEPT ![s] = @ + pipe[s]]
  /\ UNCHANGED <<phase, pc, alive, total, status, pipe, left, outcome, report>>

\* IOUtils.readLines takes what the pipe holds ...
Read(s) ==
  /\ pc = s /\ pipe[s] > 0
  /\ read' = [read EXCEPT ![s] = @ + pipe[s]]
  /\ pipe' = [pipe EXCEPT ![s] = 0]
  /\ UNCHANGED <<phase, pc, alive, total, status, left, outcome, report>>

\* Mutation: the error output is not read.
ReadEnds_OnlyStdout(s) ==
  /\ pc = s /\ pipe[s] = 0 /\ ~alive
  /\ pc' = "return"
  /\ UNCHANGED <<phase, alive, total, status, pipe, left, read, outcome, report>>

\* ... until nothing is left and nobody writes.
ReadEnds(s) ==
  /\ pc = s /\ pipe[s] = 0 /\ ~alive
  /\ pc' = IF s = "stdout" THEN "stderr" ELSE "return"
  /\ UNCHANGED <<phase, alive, total, status, pipe, left, read, outcome, report>>

-----------------------------------------------------------------------------
(***************************************************************************)
(* Its callers.                                                            *)
(***************************************************************************)

\* A phase is over; a compilation that did not throw is followed by the run.
EndPhase(result, diagnostic) ==
  /\ outcome' = [outcome EXCEPT ![phase] = result]
  /\ report' = [report EXCEPT ![phase] = diagnostic]
  /\ phase' = IF phase = "compile" /\ result # "thrown" THEN "run" ELSE "over"
  /\ pc' = "start"
  /\ UNCHANGED <<alive, total, status, pipe, left, read>>

\* The temporary file cannot be written, the process cannot be started, there is no
\* program to call, or reading a stream fails. (waitFor only throws in a thread that is
\* interrupted, which nobody does.)
Throw == phase # "over" /\ pc \in {"start"} \cup Stream /\ EndPhase("thrown", "none")

\* ProcessOutput.getDiagnostics: standard output and error output.
Diagnostics == read["stdout"] + read["stderr"]

\* Mutation: compiler messages make a compilation fail.
CompileProgramTemplate_WarningsFail ==
  /\ phase = "compile" /\ pc = "return"
  /\ \/ status = 0 /\ Diagnostics = 0 /\ EndPhase("ok", "none")
     \/ Diagnostics > 0 /\ EndPhase("failed", "WARNING")
     \/ status # 0 /\ Diagnostics = 0 /\ EndPhase("failedSilently", "none")

\* GccCompiler.compile makes a program of exit code zero; compileProgramTemplate
\* reports whatever the compiler printed.
CompileProgramTemplate ==
  /\ phase = "compile" /\ pc = "return"
  /\ \/ status = 0 /\ Diagnostics = 0 /\ EndPhase("ok", "none")
     \/ status = 0 /\ Diagnostics > 0 /\ EndPhase("ok", "WARNING")
     \/ status # 0 /\ Diagnostics > 0 /\ EndPhase("failed", "ERROR")
     \/ status # 0 /\ Diagnostics = 0 /\ EndPhase("failedSilently", "none")

\* runProgram: a non-zero exit code is reported, and what was read is dropped.
RunProgram ==
  /\ phase = "run" /\ pc = "return"
  /\ \/ status = 0 /\ EndPhase("ok", "none")
     \/ status # 0 /\ EndPhase("null", "ERROR")

-----------------------------------------------------------------------------
(***************************************************************************)
(* The process.                                                            *)
(***************************************************************************)
Write(s) ==
  /\ alive /\ left[s] > 0 /\ pipe[s] < Capacity
  /\ left' = [left EXCEPT ![s] = @ - 1]
  /\ pipe' = [pipe EXCEPT ![s] = @ + 1]
  /\ UNCHANGED <<phase, pc, alive, total, status, read, outcome, report>>

Exit ==
  /\ alive /\ left = Nothing
  /\ alive' = FALSE
  /\ UNCHANGED <<phase, pc, total, status, pipe, left, read, outcome, report>>

Worker ==
  \/ StartProcess \/ WaitFor \/ Throw \/ CompileProgramTemplate \/ RunProgram
  \/ \E s \in Stream : Read(s) \/ ReadEnds(s)

Process == Exit \/ \E s \in Stream : Write(s)

Next == Worker \/ Process

Spec == Init /\ [][Next]_vars

\* The thread is scheduled, and so is the process, which neither loops nor waits
\* for anything but room in a pipe.
FairSpec == Spec /\ WF_vars(Worker) /\ WF_vars(Process)
-----------------------------------------------------------------------------
(***************************************************************************)
(* Properties.                                                             *)
(***************************************************************************)

\* Every variable has its type.
TypeOK ==
  /\ phase \in Phase \cup {"over"}
  /\ pc \in {"start", "waitFor", "stdout", "stderr", "return"}
  /\ alive \in BOOLEAN
  /\ total \in Outputs /\ left \in Outputs /\ read \in Outputs
  /\ pipe \in Outputs
  /\ status \in Status
  /\ outcome \in [Phase -> {"none", "ok", "failed", "failedSilently", "null", "thrown"}]
  /\ report \in [Phase -> {"none", "WARNING", "ERROR"}]

\* Nothing the process wrote is lost: it is on its way, in the pipe or read, and
\* when execute returns it has read all of it.
NothingIsLost ==
  /\ pc # "start" => \A s \in Stream : left[s] + pipe[s] + read[s] = total[s]
  /\ pc = "return" => read = total

Fits == \A s \in Stream : total[s] <= Capacity

\* execute gets past waitFor only when each stream of the process fits into its
\* pipe: it cannot return the output of any process that writes more.
ReturnsOnlyWhatFits == pc \in {"stdout", "stderr", "return"} => Fits

\* The results and diagnostics on which module ProjectTask builds, and no others;
\* a run only succeeds after a compilation that did.
OutcomesOfProjectTask ==
  /\ <<outcome["compile"], report["compile"]>> \in
       {<<"none", "none">>, <<"ok", "none">>, <<"ok", "WARNING">>, <<"failed", "ERROR">>,
        <<"failedSilently", "none">>, <<"thrown", "none">>}
  /\ <<outcome["run"], report["run"]>> \in
       {<<"none", "none">>, <<"ok", "none">>, <<"null", "ERROR">>, <<"thrown", "none">>}
  /\ outcome["run"] \in {"ok", "null"} => outcome["compile"] = "ok"

\* A process that ends on its own and whose output fits lets execute return, or end
\* with the exception of a read; one whose output does not fit keeps the worker thread
\* for ever.
ExecuteReturns ==
  /\ (pc = "waitFor" /\ Fits) ~> (pc = "return" \/ \E ph \in Phase : outcome[ph] = "thrown")
  /\ [](pc = "waitFor" /\ ~Fits => [](pc = "waitFor"))
=============================================================================
