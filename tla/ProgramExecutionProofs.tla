------------------------ MODULE ProgramExecutionProofs ------------------------
(***************************************************************************)
(* Theorems about ProgramExecution, for pipes of any capacity and any      *)
(* amount of output.                                                       *)
(***************************************************************************)
EXTENDS ProgramExecution, TLAPS

(***************************************************************************)
(* The inductive invariant: where the output of the process is, at each    *)
(* point of execute and of its callers.                                    *)
(***************************************************************************)
Reading == {"stdout", "stderr", "return"}

\* The output is accounted for, and no pipe holds more than it can.
Accounted == \A s \in Stream :
  /\ pipe[s] <= Capacity
  /\ pc # "start" => left[s] + pipe[s] + read[s] = total[s]

\* Nobody reads before the process has ended, having written everything, and
\* a stream that has been read is empty.
ReadAfterTheEnd ==
  /\ alive => pc = "waitFor"
  /\ pc = "waitFor" => read = Nothing
  /\ pc = "waitFor" /\ ~alive => left = Nothing
  /\ pc \in Reading => left = Nothing
  /\ pc \in {"stderr", "return"} => pipe["stdout"] = 0
  /\ pc = "return" => pipe["stderr"] = 0

\* A program runs only after g++ made it, and the two phases come in order.
PhasesInOrder ==
  /\ phase = "compile" => outcome["run"] = "none"
  /\ phase = "run" /\ pc # "start" => outcome["compile"] = "ok"

Inv == TypeOK /\ Accounted /\ ReadAfterTheEnd /\ ReturnsOnlyWhatFits
         /\ PhasesInOrder /\ OutcomesOfProjectTask

-----------------------------------------------------------------------------
\* The two streams, and what it means to have written nothing to either.
LEMMA StreamFacts ==
  /\ "stdout" \in Stream /\ "stderr" \in Stream
  /\ Nothing \in Outputs
  /\ \A s \in Stream : Nothing[s] = 0
  /\ \A s \in Stream : s = "stdout" \/ s = "stderr"
BY ExecutionAssumption DEF Stream, Nothing, Outputs

\* What Init, a start and the end of a phase have in common.
LEMMA InitInv == Init => Inv
<1>. SUFFICES ASSUME Init PROVE Inv
  OBVIOUS
<1>1. TypeOK
  BY StreamFacts DEF Init, TypeOK, Phase, Status
<1>2. Accounted
  BY StreamFacts, ExecutionAssumption DEF Init, Accounted
<1>3. ReadAfterTheEnd /\ ReturnsOnlyWhatFits
  BY DEF Init, ReadAfterTheEnd, ReturnsOnlyWhatFits, Reading
<1>4. PhasesInOrder /\ OutcomesOfProjectTask
  BY DEF Init, PhasesInOrder, OutcomesOfProjectTask, Phase
<1>. QED  BY <1>1, <1>2, <1>3, <1>4 DEF Inv

\* A new process: everything is still to be written.
LEMMA StartPreserves == Inv /\ StartProcess => Inv'
<1>. SUFFICES ASSUME Inv, StartProcess PROVE Inv'
  OBVIOUS
<1>. USE DEF Inv, StartProcess
<1>1. TypeOK'
  BY StreamFacts DEF TypeOK
<1>2. Accounted'
  <2>. SUFFICES ASSUME NEW s \in Stream
                PROVE  pipe'[s] <= Capacity /\ left'[s] + pipe'[s] + read'[s] = total'[s]
    BY DEF Accounted
  <2>1. pipe'[s] = 0 /\ read'[s] = 0 /\ left'[s] = total'[s] /\ total' \in Outputs
    BY StreamFacts
  <2>2. total'[s] \in Nat
    BY <2>1, ExecutionAssumption DEF Outputs
  <2>. QED  BY <2>1, <2>2, ExecutionAssumption
<1>3. ReadAfterTheEnd' /\ ReturnsOnlyWhatFits'
  BY DEF ReadAfterTheEnd, ReturnsOnlyWhatFits, Reading
<1>4. PhasesInOrder' /\ OutcomesOfProjectTask'
  BY DEF PhasesInOrder, OutcomesOfProjectTask, HasProgram
<1>. QED  BY <1>1, <1>2, <1>3, <1>4

\* After waitFor all that was written is in the pipes, which is why it fits.
LEMMA WaitForPreserves == Inv /\ WaitFor => Inv'
<1>. SUFFICES ASSUME Inv, WaitFor PROVE Inv'
  OBVIOUS
<1>. USE DEF Inv, WaitFor
<1>1. TypeOK'
  BY DEF TypeOK
<1>2. Accounted' /\ ReadAfterTheEnd'
  BY DEF Accounted, ReadAfterTheEnd, Reading
<1>3. Fits
  <2>. SUFFICES ASSUME NEW s \in Stream PROVE total[s] <= Capacity
    BY DEF Fits
  <2>1. left[s] = 0 /\ read[s] = 0
    BY StreamFacts DEF ReadAfterTheEnd
  <2>2. pipe[s] \in Nat /\ pipe[s] <= Capacity /\ left[s] + pipe[s] + read[s] = total[s]
    BY ExecutionAssumption DEF Accounted, TypeOK, Outputs
  <2>. QED  BY <2>1, <2>2
<1>4. ReturnsOnlyWhatFits'
  BY <1>3 DEF ReturnsOnlyWhatFits, Fits
<1>5. PhasesInOrder' /\ OutcomesOfProjectTask'
  BY DEF PhasesInOrder, OutcomesOfProjectTask
<1>. QED  BY <1>1, <1>2, <1>4, <1>5

\* Reading moves what a pipe holds to what was read.
LEMMA ReadPreserves == ASSUME NEW s \in Stream, Inv, Read(s) PROVE Inv'
<1>. USE DEF Inv, Read
<1>1. /\ pipe[s] \in 0 .. MaxOutput /\ read[s] \in 0 .. MaxOutput /\ total[s] \in 0 .. MaxOutput
      /\ left[s] = 0 /\ left[s] + pipe[s] + read[s] = total[s] /\ pc \in Reading
  BY StreamFacts DEF TypeOK, Outputs, Accounted, ReadAfterTheEnd, Reading, Stream
<1>2. read[s] + pipe[s] \in 0 .. MaxOutput
  BY <1>1, ExecutionAssumption
<1>3. TypeOK'
  BY <1>2, ExecutionAssumption DEF TypeOK, Outputs
<1>4. Accounted'
  <2>. SUFFICES ASSUME NEW t \in Stream
                PROVE  pipe'[t] <= Capacity /\ left[t] + pipe'[t] + read'[t] = total[t]
    BY DEF Accounted
  <2>1. CASE t = s
    <3>1. pipe'[t] = 0 /\ read'[t] = read[s] + pipe[s]
      BY <2>1 DEF TypeOK, Outputs
    <3>. QED  BY <3>1, <2>1, <1>1, ExecutionAssumption
  <2>2. CASE t # s
    BY <2>2, <1>1 DEF TypeOK, Outputs, Accounted, Reading
  <2>. QED  BY <2>1, <2>2
<1>5. ReadAfterTheEnd'
  BY <1>1, StreamFacts DEF ReadAfterTheEnd, Reading, TypeOK, Outputs
<1>6. ReturnsOnlyWhatFits' /\ PhasesInOrder' /\ OutcomesOfProjectTask'
  BY DEF ReturnsOnlyWhatFits, Fits, PhasesInOrder, OutcomesOfProjectTask
<1>. QED  BY <1>3, <1>4, <1>5, <1>6

\* A stream ends when its pipe is empty and the process has ended.
LEMMA ReadEndsPreserves == ASSUME NEW s \in Stream, Inv, ReadEnds(s) PROVE Inv'
<1>. USE DEF Inv, ReadEnds
<1>1. pc \in {"stdout", "stderr"} /\ pc' \in {"stderr", "return"}
  BY DEF Stream
<1>2. TypeOK'
  BY <1>1 DEF TypeOK
<1>3. Accounted'
  BY <1>1 DEF Accounted
<1>4. ReadAfterTheEnd'
  BY <1>1, StreamFacts DEF ReadAfterTheEnd, Reading
<1>5. ReturnsOnlyWhatFits' /\ PhasesInOrder' /\ OutcomesOfProjectTask'
  BY <1>1 DEF ReturnsOnlyWhatFits, Fits, PhasesInOrder, OutcomesOfProjectTask
<1>. QED  BY <1>2, <1>3, <1>4, <1>5

\* The process moves what it has to write into a pipe that has room.
LEMMA WritePreserves == ASSUME NEW s \in Stream, Inv, Write(s) PROVE Inv'
<1>. USE DEF Inv, Write
<1>1. /\ pipe[s] \in 0 .. MaxOutput /\ read[s] = 0 /\ total[s] \in 0 .. MaxOutput
      /\ left[s] \in 0 .. MaxOutput /\ left[s] + pipe[s] + read[s] = total[s] /\ pc = "waitFor"
  BY StreamFacts DEF TypeOK, Outputs, Accounted, ReadAfterTheEnd
<1>2. pipe[s] + 1 \in 0 .. MaxOutput /\ left[s] - 1 \in 0 .. MaxOutput /\ pipe[s] + 1 <= Capacity
  BY <1>1, ExecutionAssumption
<1>3. TypeOK'
  BY <1>2 DEF TypeOK, Outputs
<1>4. Accounted'
  <2>. SUFFICES ASSUME NEW t \in Stream
                PROVE  pipe'[t] <= Capacity /\ left'[t] + pipe'[t] + read[t] = total[t]
    BY DEF Accounted
  <2>1. CASE t = s
    <3>1. pipe'[t] = pipe[s] + 1 /\ left'[t] = left[s] - 1
      BY <2>1 DEF TypeOK, Outputs
    <3>. QED  BY <3>1, <2>1, <1>1, <1>2, ExecutionAssumption
  <2>2. CASE t # s
    BY <2>2, <1>1 DEF TypeOK, Outputs, Accounted
  <2>. QED  BY <2>1, <2>2
<1>5. ReadAfterTheEnd'
  BY <1>1 DEF ReadAfterTheEnd, Reading
<1>6. ReturnsOnlyWhatFits' /\ PhasesInOrder' /\ OutcomesOfProjectTask'
  BY <1>1 DEF ReturnsOnlyWhatFits, Fits, PhasesInOrder, OutcomesOfProjectTask
<1>. QED  BY <1>3, <1>4, <1>5, <1>6

\* The process ends.
LEMMA ExitPreserves == Inv /\ Exit => Inv'
<1>. SUFFICES ASSUME Inv, Exit PROVE Inv'
  OBVIOUS
<1>. USE DEF Inv, Exit
<1>1. TypeOK' /\ Accounted'
  BY DEF TypeOK, Accounted
<1>2. ReadAfterTheEnd'
  BY DEF ReadAfterTheEnd, Reading
<1>3. ReturnsOnlyWhatFits' /\ PhasesInOrder' /\ OutcomesOfProjectTask'
  BY DEF ReturnsOnlyWhatFits, Fits, PhasesInOrder, OutcomesOfProjectTask
<1>. QED  BY <1>1, <1>2, <1>3

\* What a caller of execute may conclude of a phase.
Concludes(ph, result, diagnostic) ==
  /\ ph = "compile" =>
       <<result, diagnostic>> \in {<<"ok", "none">>, <<"ok", "WARNING">>, <<"failed", "ERROR">>,
                                  <<"failedSilently", "none">>, <<"thrown", "none">>}
  /\ ph = "run" =>
       <<result, diagnostic>> \in {<<"ok", "none">>, <<"null", "ERROR">>, <<"thrown", "none">>}

\* The end of a phase, with a result that its callers have.
LEMMA EndPhasePreserves ==
  ASSUME NEW result, NEW diagnostic, Inv, phase \in Phase, pc # "waitFor",
         Concludes(phase, result, diagnostic),
         phase = "run" /\ result \in {"ok", "null"} => outcome["compile"] = "ok",
         EndPhase(result, diagnostic)
  PROVE  Inv'
<1>. USE DEF Inv, EndPhase
<1>1. /\ result \in {"ok", "failed", "failedSilently", "null", "thrown"}
      /\ diagnostic \in {"none", "WARNING", "ERROR"}
  BY DEF Concludes, Phase
<1>2. TypeOK'
  BY <1>1 DEF TypeOK, Phase
<1>3. Accounted'
  BY DEF Accounted
<1>4. ReadAfterTheEnd'
  BY DEF ReadAfterTheEnd, Reading
<1>5. ReturnsOnlyWhatFits'
  BY DEF ReturnsOnlyWhatFits
<1>6. CASE phase = "compile"
  <2>1. /\ outcome'["compile"] = result /\ report'["compile"] = diagnostic
        /\ outcome'["run"] = "none" /\ report'["run"] = "none"
        /\ phase' # "compile" /\ pc' = "start"
    BY <1>6 DEF TypeOK, PhasesInOrder, OutcomesOfProjectTask, Phase
  <2>2. PhasesInOrder' /\ OutcomesOfProjectTask'
    BY <1>6, <2>1 DEF PhasesInOrder, OutcomesOfProjectTask, Concludes
  <2>. QED  BY <1>2, <1>3, <1>4, <1>5, <2>2
<1>7. CASE phase = "run"
  <2>1. /\ outcome'["run"] = result /\ report'["run"] = diagnostic
        /\ outcome'["compile"] = outcome["compile"] /\ report'["compile"] = report["compile"]
        /\ phase' = "over" /\ pc' = "start"
    BY <1>7 DEF TypeOK, Phase
  <2>2. PhasesInOrder'
    BY <2>1 DEF PhasesInOrder
  <2>3. OutcomesOfProjectTask'
    BY <1>7, <2>1 DEF OutcomesOfProjectTask, Concludes
  <2>. QED  BY <1>2, <1>3, <1>4, <1>5, <2>2, <2>3
<1>. QED  BY <1>6, <1>7 DEF Phase

\* The three ways a phase ends.
LEMMA CallersPreserve == Inv /\ (Throw \/ CompileProgramTemplate \/ RunProgram) => Inv'
<1>. SUFFICES ASSUME Inv, Throw \/ CompileProgramTemplate \/ RunProgram PROVE Inv'
  OBVIOUS
<1>1. CASE Throw
  <2>1. phase \in Phase /\ Concludes(phase, "thrown", "none")
    BY <1>1 DEF Throw, Inv, TypeOK, Phase, Concludes
  <2>2. pc # "waitFor"
    BY <1>1 DEF Throw, Stream
  <2>. QED  BY <1>1, <2>1, <2>2, EndPhasePreserves DEF Throw
<1>2. CASE CompileProgramTemplate
  <2>1. phase = "compile" /\ phase \in Phase /\ pc = "return"
    BY <1>2 DEF CompileProgramTemplate, Phase
  <2>2. PICK result, diagnostic :
          Concludes(phase, result, diagnostic) /\ EndPhase(result, diagnostic)
    <3>1. /\ Concludes(phase, "ok", "none") /\ Concludes(phase, "ok", "WARNING")
          /\ Concludes(phase, "failed", "ERROR") /\ Concludes(phase, "failedSilently", "none")
      BY <2>1 DEF Concludes
    <3>. QED  BY <1>2, <3>1 DEF CompileProgramTemplate
  <2>. QED  BY <2>1, <2>2, EndPhasePreserves
<1>3. CASE RunProgram
  <2>1. phase = "run" /\ phase \in Phase /\ pc = "return" /\ outcome["compile"] = "ok"
    BY <1>3 DEF RunProgram, Phase, Inv, PhasesInOrder
  <2>2. PICK result, diagnostic :
          Concludes(phase, result, diagnostic) /\ EndPhase(result, diagnostic)
    <3>1. Concludes(phase, "ok", "none") /\ Concludes(phase, "null", "ERROR")
      BY <2>1 DEF Concludes
    <3>. QED  BY <1>3, <3>1 DEF RunProgram
  <2>. QED  BY <2>1, <2>2, EndPhasePreserves
<1>. QED  BY <1>1, <1>2, <1>3

\* Every step of the worker and of the process preserves the invariant.
LEMMA NextPreserves == Inv /\ [Next]_vars => Inv'
<1>. SUFFICES ASSUME Inv, [Next]_vars PROVE Inv'
  OBVIOUS
<1>1. CASE Worker
  BY <1>1, StartPreserves, WaitForPreserves, CallersPreserve, ReadPreserves, ReadEndsPreserves
     DEF Worker
<1>2. CASE Process
  BY <1>2, ExitPreserves, WritePreserves DEF Process
<1>3. CASE UNCHANGED vars
  BY <1>3 DEF vars, Inv, TypeOK, Accounted, ReadAfterTheEnd, ReturnsOnlyWhatFits, Fits,
              PhasesInOrder, OutcomesOfProjectTask, Reading
<1>. QED  BY <1>1, <1>2, <1>3 DEF Next

\* The inductive invariant holds in every state, for pipes of any capacity.
THEOREM Invariance == Spec => []Inv
BY InitInv, NextPreserves, PTL DEF Spec

-----------------------------------------------------------------------------
\* The variables keep their types: among other things, no pipe and no result ever
\* holds more than the process was to write.
THEOREM TypeCorrect == Spec => []TypeOK
<1>1. Inv => TypeOK
  BY DEF Inv
<1>. QED  BY <1>1, Invariance, PTL

\* ProcessUtils.execute returns everything the process wrote to its two streams,
\* although it reads them one after the other.
THEOREM NothingLost == Spec => []NothingIsLost
<1>1. Inv => NothingIsLost
  <2>. SUFFICES ASSUME Inv PROVE NothingIsLost
    OBVIOUS
  <2>1. pc # "start" => \A s \in Stream : left[s] + pipe[s] + read[s] = total[s]
    BY DEF Inv, Accounted
  <2>2. ASSUME pc = "return" PROVE read = total
    <3>1. \A s \in Stream : left[s] = 0 /\ pipe[s] = 0
      BY <2>2, StreamFacts DEF Inv, ReadAfterTheEnd, Reading
    <3>2. \A s \in Stream : read[s] \in Nat /\ total[s] \in Nat
      BY ExecutionAssumption DEF Inv, TypeOK, Outputs
    <3>3. \A s \in Stream : read[s] = total[s]
      BY <2>1, <2>2, <3>1, <3>2
    <3>. QED  BY <3>3 DEF Inv, TypeOK, Outputs
  <2>. QED  BY <2>1, <2>2 DEF NothingIsLost
<1>. QED  BY <1>1, Invariance, PTL

\* Whatever a pipe holds, execute returns the output of no process that writes more.
THEOREM OnlyWhatFits == Spec => []ReturnsOnlyWhatFits
<1>1. Inv => ReturnsOnlyWhatFits
  BY DEF Inv
<1>. QED  BY <1>1, Invariance, PTL

\* A compilation and a run end in the ways ProjectTask assumes, and a run succeeds
\* only after a compilation that made its program.
THEOREM OutcomesHold == Spec => []OutcomesOfProjectTask
<1>1. Inv => OutcomesOfProjectTask
  BY DEF Inv
<1>. QED  BY <1>1, Invariance, PTL

\* The worker that waits for a process with more output than fits waits for ever: it
\* is the second half of ExecuteReturns, and needs no fairness.
THEOREM WorkerIsLost == Spec => [](pc = "waitFor" /\ ~Fits => [](pc = "waitFor"))
<1>. DEFINE Lost == pc = "waitFor" /\ ~Fits
<1>1. Inv /\ Inv' /\ [Next]_vars /\ Lost => Lost'
  <2>. SUFFICES ASSUME Inv, Inv', [Next]_vars, Lost PROVE Lost'
    OBVIOUS
  <2>1. total' = total
    BY DEF Next, Worker, Process, StartProcess, WaitFor, Throw, EndPhase, CompileProgramTemplate,
           RunProgram, Read, ReadEnds, Write, Exit, vars
  <2>2. pc' \in {"waitFor", "stdout"}
    BY DEF Next, Worker, Process, StartProcess, WaitFor, Throw, CompileProgramTemplate,
           RunProgram, Read, ReadEnds, Write, Exit, vars, Stream
  <2>3. ~Fits'
    BY <2>1 DEF Fits
  <2>4. pc' # "stdout"
    BY <2>3 DEF Inv, ReturnsOnlyWhatFits
  <2>. QED  BY <2>2, <2>3, <2>4
<1>2. Lost => pc = "waitFor"
  OBVIOUS
<1>3. Spec => [](Lost => []Lost)
  BY <1>1, Invariance, PTL DEF Spec
<1>. QED  BY <1>2, <1>3, PTL
=============================================================================
