-------------------------- MODULE ProjectTaskProofs --------------------------
(***************************************************************************)
(* Theorems about ProjectTask and its views, for any finite sets of        *)
(* programs and groups and any number of worker threads.                   *)
(***************************************************************************)
EXTENDS TaskView, TLAPS, FiniteSetTheorems

-----------------------------------------------------------------------------
(***************************************************************************)
(* The jobs.                                                               *)
(***************************************************************************)

\* Jobs of different stages, programs or groups are different jobs.
LEMMA JobFacts ==
  /\ Load \in Job /\ Load \notin CompileJob /\ Load \notin RunJob /\ Load \notin DocsJob
  /\ \A p \in Program, g \in Group :
       /\ Compile(p, g) \in CompileJob /\ Compile(p, g) \in Job
       /\ Compile(p, g) \notin RunJob /\ Compile(p, g) \notin DocsJob
       /\ Run(p, g) \in RunJob /\ Run(p, g) \in Job
       /\ Run(p, g) \notin CompileJob /\ Run(p, g) \notin DocsJob
       /\ Docs(g) \in DocsJob /\ Docs(g) \in Job
       /\ Docs(g) \notin CompileJob /\ Docs(g) \notin RunJob
       /\ Load # Compile(p, g) /\ Load # Run(p, g) /\ Load # Docs(g)
  /\ \A g \in Group : Docs(g) \in DocsJob /\ Docs(g) \in Job /\ Load # Docs(g)
  /\ \A p, q \in Program, g, h \in Group :
       /\ Compile(p, g) # Run(q, h) /\ Compile(p, g) # Docs(h) /\ Run(p, g) # Docs(h)
       /\ Compile(p, g) = Compile(q, h) => p = q /\ g = h
       /\ Run(p, g) = Run(q, h) => p = q /\ g = h
  /\ \A g, h \in Group : Docs(g) = Docs(h) => g = h
  /\ CompileJob \subseteq Job /\ RunJob \subseteq Job /\ DocsJob \subseteq Job
  /\ \A j \in CompileJob : \E p \in Program, g \in Group : j = Compile(p, g)
  /\ \A j \in RunJob : \E p \in Program, g \in Group : j = Run(p, g)
  /\ \A j \in DocsJob : \E g \in Group : j = Docs(g)
<1>. USE DEF Job, CompileJob, RunJob, DocsJob, Load, Compile, Run, Docs
<1>1. /\ Load \in Job /\ Load \notin CompileJob /\ Load \notin RunJob /\ Load \notin DocsJob
      /\ \A g \in Group : Docs(g) \in DocsJob /\ Docs(g) \in Job /\ Load # Docs(g)
  OBVIOUS
<1>2. ASSUME NEW p \in Program, NEW g \in Group
      PROVE  /\ Compile(p, g) \in CompileJob /\ Compile(p, g) \in Job
             /\ Compile(p, g) \notin RunJob /\ Compile(p, g) \notin DocsJob
             /\ Run(p, g) \in RunJob /\ Run(p, g) \in Job
             /\ Run(p, g) \notin CompileJob /\ Run(p, g) \notin DocsJob
             /\ Docs(g) \in DocsJob /\ Docs(g) \in Job
             /\ Docs(g) \notin CompileJob /\ Docs(g) \notin RunJob
             /\ Load # Compile(p, g) /\ Load # Run(p, g) /\ Load # Docs(g)
  OBVIOUS
<1>3. ASSUME NEW p \in Program, NEW q \in Program, NEW g \in Group, NEW h \in Group
      PROVE  /\ Compile(p, g) # Run(q, h) /\ Compile(p, g) # Docs(h) /\ Run(p, g) # Docs(h)
             /\ Compile(p, g) = Compile(q, h) => p = q /\ g = h
             /\ Run(p, g) = Run(q, h) => p = q /\ g = h
  OBVIOUS
<1>4. \A g, h \in Group : Docs(g) = Docs(h) => g = h
  OBVIOUS
<1>5. /\ CompileJob \subseteq Job /\ RunJob \subseteq Job /\ DocsJob \subseteq Job
      /\ \A j \in CompileJob : \E p \in Program, g \in Group : j = Compile(p, g)
      /\ \A j \in RunJob : \E p \in Program, g \in Group : j = Run(p, g)
      /\ \A j \in DocsJob : \E g \in Group : j = Docs(g)
  OBVIOUS
<1>. QED  BY <1>1, <1>2, <1>3, <1>4, <1>5

\* A task has finitely many jobs, whatever the programs and the groups.
LEMMA JobFinite == IsFiniteSet(Job) /\ IsFiniteSet(CompileJob)
<1>1. IsFiniteSet(Program \X Group)
  BY ConstantsAssumption, FS_Product DEF ConstantsAssumption
<1>2. IsFiniteSet({"compile"}) /\ IsFiniteSet({"run"}) /\ IsFiniteSet({"docs"}) /\ IsFiniteSet({Load})
  BY FS_Singleton
<1>3. IsFiniteSet(CompileJob) /\ IsFiniteSet(RunJob)
  BY <1>1, <1>2, FS_Product DEF CompileJob, RunJob
<1>4. IsFiniteSet(DocsJob)
  BY <1>2, ConstantsAssumption, FS_Product DEF DocsJob, ConstantsAssumption
<1>5. IsFiniteSet({Load} \cup CompileJob)
  BY <1>2, <1>3, FS_Union
<1>6. IsFiniteSet({Load} \cup CompileJob \cup RunJob)
  BY <1>3, <1>5, FS_Union
<1>. QED  BY <1>3, <1>4, <1>6, FS_Union DEF Job

-----------------------------------------------------------------------------
(***************************************************************************)
(* How a supplier ends.                                                    *)
(***************************************************************************)

\* Job j ends with a result and leaves next to the JavaFX thread: what of a job
\* can be said without asking which stage it is.
Ends(j, result, next) ==
  /\ Finish(j, result, next)
  /\ result \in Resolved \cup {"thrown"}
  /\ next \in {"diagnostic", "count", "exception"}
  /\ result = "thrown" <=> next = "exception"
  /\ result \in {"failed", "null"} => next = "diagnostic"
  /\ result \in {"failed", "failedSilently"} => j \in CompileJob
  /\ result = "null" => j \in RunJob
  /\ result = "thrown" => j # Load
  /\ \A p \in Program, g \in Group :
       j = Run(p, g) /\ result \in {"ok", "null"} => job[Compile(p, g)] = "ok"

\* A compilation job ends in one of the ways compileProgramTemplate has.
LEMMA CompileEnds ==
  ASSUME NEW p \in Program, NEW g \in Group, CompileProgram(p, g)
  PROVE  \E result, next : Ends(Compile(p, g), result, next)
<1>1. PICK outcome \in {<<"ok", "count">>, <<"ok", "diagnostic">>, <<"failed", "diagnostic">>,
                        <<"failedSilently", "count">>, <<"thrown", "exception">>} :
        Finish(Compile(p, g), outcome[1], outcome[2])
  BY DEF CompileProgram
<1>2. outcome[1] \in Resolved \cup {"thrown"} /\ outcome[2] \in {"diagnostic", "count", "exception"}
  BY DEF Resolved
<1>3. /\ outcome[1] = "thrown" <=> outcome[2] = "exception"
      /\ outcome[1] \in {"failed", "null"} => outcome[2] = "diagnostic"
  OBVIOUS
<1>4. Ends(Compile(p, g), outcome[1], outcome[2])
  BY <1>1, <1>2, <1>3, JobFacts DEF Ends
<1>. QED  BY <1>4

\* A run ends in one of the ways runProgram has.
LEMMA RunEnds ==
  ASSUME NEW p \in Program, NEW g \in Group, RunProgram(p, g)
  PROVE  \E result, next : Ends(Run(p, g), result, next)
<1>1. CASE /\ job[Compile(p, g)] = "ok"
           /\ Finish(Run(p, g), "ok", "count") \/ Finish(Run(p, g), "null", "diagnostic")
  <2>1. Ends(Run(p, g), "ok", "count") \/ Ends(Run(p, g), "null", "diagnostic")
    BY <1>1, JobFacts DEF Ends, Resolved
  <2>. QED  BY <2>1
<1>2. CASE Finish(Run(p, g), "thrown", "exception")
  <2>1. Ends(Run(p, g), "thrown", "exception")
    BY <1>2, JobFacts DEF Ends
  <2>. QED  BY <2>1
<1>3. \A outcome \in {<<"ok", "count">>, <<"null", "diagnostic">>} :
        \/ outcome[1] = "ok" /\ outcome[2] = "count"
        \/ outcome[1] = "null" /\ outcome[2] = "diagnostic"
  OBVIOUS
<1>. QED  BY <1>1, <1>2, <1>3 DEF RunProgram

\* The loading of the templates and the documents of a group end their jobs, too.
LEMMA OtherEnds ==
  /\ LoadTemplates => Ends(Load, "ok", "count")
  /\ \A g \in Group : SaveTeacher(g) => Ends(Docs(g), "ok", "count")
  /\ \A g \in Group : FailDocuments(g) => Ends(Docs(g), "thrown", "exception")
BY JobFacts DEF LoadTemplates, SaveTeacher, FailDocuments, Ends, Resolved

\* The steps of the system by what they do to jobs, callbacks and counters.
WorkerShape ==
  \/ \E j \in Job : \E result, next : Ends(j, result, next)
  \/ \E j \in Job : Start(j) \/ Hang(j)
  \/ \E g \in Group : SaveStudent(g)

\* Every step of a worker thread starts, ends or hangs one job, or saves a document.
LEMMA WorkerShapes == WorkerStep => WorkerShape
<1>1. ASSUME NEW p \in Program, NEW g \in Group, CompileProgram(p, g) PROVE WorkerShape
  BY <1>1, CompileEnds, JobFacts DEF WorkerShape
<1>2. ASSUME NEW p \in Program, NEW g \in Group, RunProgram(p, g) PROVE WorkerShape
  BY <1>2, RunEnds, JobFacts DEF WorkerShape
<1>3. CASE LoadTemplates
  BY <1>3, OtherEnds, JobFacts DEF WorkerShape
<1>4. ASSUME NEW g \in Group, SaveTeacher(g) \/ FailDocuments(g) PROVE WorkerShape
  BY <1>4, OtherEnds, JobFacts DEF WorkerShape
<1>5. ASSUME NEW g \in Group, SaveStudent(g) PROVE WorkerShape
  BY <1>5 DEF WorkerShape
<1>6. ASSUME NEW j \in Job, Start(j) \/ Hang(j) PROVE WorkerShape
  BY <1>6 DEF WorkerShape
<1>. QED  BY <1>1, <1>2, <1>3, <1>4, <1>5, <1>6 DEF WorkerStep, WorkerEnds

-----------------------------------------------------------------------------
(***************************************************************************)
(* Type correctness.                                                       *)
(***************************************************************************)

\* supplyAsync keeps the types of the jobs and of workTotal.
LEMMA SupplyAsyncType ==
  ASSUME TypeOK, NEW js \in SUBSET Job, SupplyAsync(js) \/ SupplyRefused
  PROVE  job' \in [Job -> JobState] /\ workTotal' \in Nat
<1>1. Cardinality(js) \in Nat
  BY JobFinite, FS_Subset, FS_CardinalityType
<1>. QED  BY <1>1 DEF TypeOK, SupplyAsync, SupplyRefused, JobState

\* Init and every action respect the types of the variables.
THEOREM TypeCorrect == Spec => []TypeOK
<1>1. Init => TypeOK
  BY JobFacts DEF Init, TypeOK, JobState, Resolved, Callback, ExamStage, Variant
<1>2. TypeOK /\ [Next]_vars => TypeOK'
  <2>. SUFFICES ASSUME TypeOK, [Next]_vars PROVE TypeOK'
    OBVIOUS
  <2>. USE DEF TypeOK
  <2>1. CASE LoadTemplates
    BY <2>1 DEF LoadTemplates, Finish, JobState, Resolved, Callback
  <2>2. ASSUME NEW p \in Program, NEW g \in Group, CompileProgram(p, g) PROVE TypeOK'
    <3>1. PICK result, next : Ends(Compile(p, g), result, next)
      BY <2>2, CompileEnds
    <3>2. saved' = saved
      BY <2>2 DEF CompileProgram
    <3>. QED  BY <3>1, <3>2 DEF Ends, Finish, JobState, Callback
  <2>3. ASSUME NEW p \in Program, NEW g \in Group, RunProgram(p, g) PROVE TypeOK'
    <3>1. PICK result, next : Ends(Run(p, g), result, next)
      BY <2>3, RunEnds
    <3>2. saved' = saved
      BY <2>3 DEF RunProgram
    <3>. QED  BY <3>1, <3>2 DEF Ends, Finish, JobState, Callback
  <2>4. ASSUME NEW g \in Group, SaveStudent(g) PROVE TypeOK'
    BY <2>4 DEF SaveStudent, Variant
  <2>5. ASSUME NEW g \in Group, SaveTeacher(g) PROVE TypeOK'
    BY <2>5 DEF SaveTeacher, Finish, JobState, Resolved, Callback, Variant
  <2>6. ASSUME NEW g \in Group, FailDocuments(g) PROVE TypeOK'
    BY <2>6 DEF FailDocuments, Finish, JobState, Resolved, Callback
  <2>7. ASSUME NEW j \in Job, Hang(j) \/ Start(j) PROVE TypeOK'
    BY <2>7 DEF Hang, Start, JobState
  <2>8. ASSUME NEW j \in Job, ShowDiagnostic(j) PROVE TypeOK'
    BY <2>8 DEF ShowDiagnostic, Callback
  <2>9. ASSUME NEW j \in Job, CountDone(j) \/ SetException(j) PROVE TypeOK'
    BY <2>9 DEF CountDone, SetException, Callback
  <2>10. CASE BuildProgramPipelines
    BY <2>10, SupplyAsyncType, JobFacts DEF BuildProgramPipelines, Callback
  <2>11. ASSUME NEW p \in Program, NEW g \in Group, StartRun(p, g) PROVE TypeOK'
    <3>. {Run(p, g)} \in SUBSET Job
      BY JobFacts
    <3>. QED  BY <2>11, SupplyAsyncType DEF StartRun, Callback
  <2>12. ASSUME NEW p \in Program, NEW g \in Group, DeliverOutput(p, g) PROVE TypeOK'
    BY <2>12 DEF DeliverOutput, Callback
  <2>13. ASSUME NEW g \in Group, BuildExamPipeline(g) \/ MergeOutputs(g) PROVE TypeOK'
    BY <2>13 DEF BuildExamPipeline, MergeOutputs, ExamStage
  <2>14. ASSUME NEW g \in Group, StartDocuments(g) PROVE TypeOK'
    <3>. {Docs(g)} \in SUBSET Job
      BY JobFacts
    <3>. QED  BY <2>14, SupplyAsyncType DEF StartDocuments, ExamStage
  <2>15. CASE UNCHANGED vars
    BY <2>15 DEF vars
  <2>. QED
    BY <2>1, <2>2, <2>3, <2>4, <2>5, <2>6, <2>7, <2>8, <2>9, <2>10, <2>11, <2>12,
       <2>13, <2>14, <2>15 DEF Next, AtRest, WorkerStep, WorkerEnds, FxStep
<1>. QED  BY <1>1, <1>2, PTL DEF Spec

-----------------------------------------------------------------------------
(***************************************************************************)
(* The inductive invariant.                                                *)
(***************************************************************************)

\* What supplyAsync does to the jobs.
LEMMA SupplyAsyncJobs ==
  ASSUME TypeOK, NEW js \in SUBSET Job, SupplyAsync(js) \/ SupplyRefused
  PROVE  /\ \A j \in Job : job'[j] = job[j] \/ (j \in js /\ job'[j] = "queued")
         /\ SupplyAsync(js) => \A j \in js : job'[j] = "queued"
<1>1. CASE SupplyAsync(js)
  <2>1. job' = [j \in Job |-> IF j \in js THEN "queued" ELSE job[j]]
    BY <1>1 DEF SupplyAsync
  <2>. QED  BY <2>1
<1>2. CASE SupplyRefused /\ ~SupplyAsync(js)
  <2>1. job' = job
    BY <1>2 DEF SupplyRefused
  <2>. QED  BY <1>2, <2>1
<1>. QED  BY <1>1, <1>2

\* A callback calls supplyAsync for jobs nobody submitted before.
Supplies(js) ==
  /\ SupplyAsync(js) \/ SupplyRefused
  /\ \A j \in js : job[j] = "idle"
  /\ \/ pending' = pending
     \/ \E k \in Job : pending[k] = "then" /\ pending' = [pending EXCEPT ![k] = "none"]
  /\ UNCHANGED <<workDone, exception, diagnostics, saved>>

\* The callbacks that submit jobs do so through supplyAsync alone.
LEMMA CallersSupply ==
  ASSUME Inv
  PROVE  /\ BuildProgramPipelines => Supplies(CompileJob)
         /\ \A p \in Program, g \in Group : StartRun(p, g) => Supplies({Run(p, g)})
         /\ \A g \in Group : StartDocuments(g) => Supplies({Docs(g)})
<1>. USE DEF Inv, StagesInOrder, Supplies
<1>1. ASSUME BuildProgramPipelines PROVE Supplies(CompileJob)
  <2>1. \A j \in CompileJob : job[j] = "idle"
    BY <1>1, JobFacts DEF BuildProgramPipelines, Delivered
  <2>. QED  BY <1>1, <2>1, JobFacts DEF BuildProgramPipelines
<1>2. ASSUME NEW p \in Program, NEW g \in Group, StartRun(p, g) PROVE Supplies({Run(p, g)})
  <2>1. job[Run(p, g)] = "idle"
    BY <1>2 DEF StartRun, Delivered
  <2>. QED  BY <1>2, <2>1, JobFacts DEF StartRun
<1>3. ASSUME NEW g \in Group, StartDocuments(g) PROVE Supplies({Docs(g)})
  <2>1. job[Docs(g)] = "idle"
    BY <1>3, JobFacts DEF StartDocuments
  <2>. QED  BY <1>3, <2>1, JobFacts DEF StartDocuments
<1>. QED  BY <1>1, <1>2, <1>3

\* The callbacks by what they do to jobs, callbacks and counters.
FxShape ==
  \/ \E j \in Job : ShowDiagnostic(j) \/ CountDone(j) \/ SetException(j)
  \/ \E js \in SUBSET Job : Supplies(js)
  \/ \E p \in Program, g \in Group : DeliverOutput(p, g)
  \/ \E g \in Group : BuildExamPipeline(g) \/ MergeOutputs(g)

\* Every step of the JavaFX thread runs one callback of one promise.
LEMMA FxShapes == Inv /\ FxStep => FxShape
<1>1. \A p \in Program, g \in Group : {Run(p, g)} \in SUBSET Job
  BY JobFacts
<1>2. \A g \in Group : {Docs(g)} \in SUBSET Job
  BY JobFacts
<1>3. CompileJob \in SUBSET Job
  BY JobFacts
<1>. QED  BY <1>1, <1>2, <1>3, CallersSupply DEF FxStep, FxShape

\* A job that was resolved or has thrown is never touched again.
LEMMA CallbacksFitInvariant ==
  ASSUME Inv, TypeOK', [Next]_vars
  PROVE  CallbacksFit'
<1>. USE DEF Inv, TypeOK, CallbacksFit
<1>1. ASSUME NEW j \in Job, NEW result, NEW next, Ends(j, result, next) PROVE CallbacksFit'
  <2>. SUFFICES ASSUME NEW k \in Job
                PROVE  /\ pending'[k] = "exception" => job'[k] = "thrown"
                       /\ pending'[k] \in {"diagnostic", "count", "then"} => job'[k] \in Resolved
                       /\ pending'[k] = "then" => k \notin DocsJob
                       /\ job'[k] \in {"failed", "failedSilently"} => k \in CompileJob
                       /\ exception' = k => job'[k] = "thrown"
    OBVIOUS
  <2>1. CASE k = j
    BY <1>1, <2>1 DEF Ends, Finish, Resolved
  <2>2. CASE k # j
    BY <1>1, <2>2 DEF Ends, Finish
  <2>. QED  BY <2>1, <2>2
<1>2. ASSUME NEW j \in Job, Start(j) \/ Hang(j) PROVE CallbacksFit'
  BY <1>2 DEF Start, Hang, Resolved
<1>3. ASSUME NEW g \in Group, SaveStudent(g) PROVE CallbacksFit'
  BY <1>3 DEF SaveStudent
<1>4. ASSUME NEW j \in Job, ShowDiagnostic(j) \/ CountDone(j) \/ SetException(j) PROVE CallbacksFit'
  BY <1>4 DEF ShowDiagnostic, CountDone, SetException
<1>5. ASSUME NEW js \in SUBSET Job, Supplies(js) PROVE CallbacksFit'
  BY <1>5, SupplyAsyncJobs DEF Supplies, Resolved
<1>6. ASSUME NEW p \in Program, NEW g \in Group, DeliverOutput(p, g) PROVE CallbacksFit'
  BY <1>6, JobFacts DEF DeliverOutput
<1>7. ASSUME NEW g \in Group, BuildExamPipeline(g) \/ MergeOutputs(g) PROVE CallbacksFit'
  BY <1>7 DEF BuildExamPipeline, MergeOutputs
<1>8. CASE UNCHANGED vars
  BY <1>8 DEF vars
<1>. QED
  BY <1>1, <1>2, <1>3, <1>4, <1>5, <1>6, <1>7, <1>8, WorkerShapes, FxShapes
     DEF Next, AtRest, WorkerShape, FxShape

\* What a job has reached, it keeps: results and delivered promises are final.
LEMMA ResultsAreFinal ==
  ASSUME Inv, [Next]_vars, NEW j \in Job
  PROVE  /\ job[j] \in Resolved \cup {"thrown"} => job'[j] = job[j]
         /\ Delivered(j) => Delivered(j)'
         /\ job[j] # "idle" => job'[j] # "idle"
<1>. DEFINE Goal == /\ job[j] \in Resolved \cup {"thrown"} => job'[j] = job[j]
                    /\ Delivered(j) => Delivered(j)'
                    /\ job[j] # "idle" => job'[j] # "idle"
<1>. USE DEF Inv, TypeOK, CallbacksFit, Delivered
<1>1. ASSUME NEW k \in Job, NEW result, NEW next, Ends(k, result, next) PROVE Goal
  BY <1>1 DEF Ends, Finish, Resolved
<1>2. ASSUME NEW k \in Job, Start(k) \/ Hang(k) PROVE Goal
  BY <1>2 DEF Start, Hang, Resolved
<1>3. ASSUME NEW g \in Group, SaveStudent(g) PROVE Goal
  BY <1>3 DEF SaveStudent
<1>4. ASSUME NEW k \in Job, ShowDiagnostic(k) \/ CountDone(k) \/ SetException(k) PROVE Goal
  BY <1>4 DEF ShowDiagnostic, CountDone, SetException
<1>5. ASSUME NEW js \in SUBSET Job, Supplies(js) PROVE Goal
  BY <1>5, SupplyAsyncJobs DEF Supplies, Resolved
<1>6. ASSUME NEW p \in Program, NEW g \in Group, DeliverOutput(p, g) PROVE Goal
  BY <1>6, JobFacts DEF DeliverOutput
<1>7. ASSUME NEW g \in Group, BuildExamPipeline(g) \/ MergeOutputs(g) PROVE Goal
  BY <1>7 DEF BuildExamPipeline, MergeOutputs
<1>8. CASE UNCHANGED vars
  BY <1>8 DEF vars
<1>. QED
  BY <1>1, <1>2, <1>3, <1>4, <1>5, <1>6, <1>7, <1>8, WorkerShapes, FxShapes
     DEF Next, AtRest, WorkerShape, FxShape

\* A diagnostic stays listed, and is listed before anything behind it runs.
LEMMA ErrorsAreKeptInvariant ==
  ASSUME Inv, TypeOK', [Next]_vars
  PROVE  ErrorsAreKept'
<1>. USE DEF Inv, TypeOK, ErrorsAreKept
<1>1. ASSUME NEW j \in Job, NEW result, NEW next, Ends(j, result, next) PROVE ErrorsAreKept'
  BY <1>1 DEF Ends, Finish
<1>2. ASSUME NEW j \in Job, Start(j) \/ Hang(j) PROVE ErrorsAreKept'
  BY <1>2 DEF Start, Hang
<1>3. ASSUME NEW g \in Group, SaveStudent(g) PROVE ErrorsAreKept'
  BY <1>3 DEF SaveStudent
<1>4. ASSUME NEW j \in Job, ShowDiagnostic(j) \/ CountDone(j) \/ SetException(j) PROVE ErrorsAreKept'
  BY <1>4 DEF ShowDiagnostic, CountDone, SetException
<1>5. ASSUME NEW js \in SUBSET Job, Supplies(js) PROVE ErrorsAreKept'
  BY <1>5, SupplyAsyncJobs DEF Supplies
<1>6. ASSUME NEW p \in Program, NEW g \in Group, DeliverOutput(p, g) PROVE ErrorsAreKept'
  BY <1>6 DEF DeliverOutput
<1>7. ASSUME NEW g \in Group, BuildExamPipeline(g) \/ MergeOutputs(g) PROVE ErrorsAreKept'
  BY <1>7 DEF BuildExamPipeline, MergeOutputs
<1>8. CASE UNCHANGED vars
  BY <1>8 DEF vars
<1>. QED
  BY <1>1, <1>2, <1>3, <1>4, <1>5, <1>6, <1>7, <1>8, WorkerShapes, FxShapes
     DEF Next, AtRest, WorkerShape, FxShape

\* Who submits a job: only the callback of the stage before it.
LEMMA SubmittedBy ==
  ASSUME Inv, [Next]_vars, NEW j \in Job, job[j] = "idle", job'[j] # "idle"
  PROVE  \/ j \in CompileJob /\ BuildProgramPipelines /\ SupplyAsync(CompileJob)
         \/ \E p \in Program, g \in Group :
              j = Run(p, g) /\ StartRun(p, g) /\ SupplyAsync({Run(p, g)})
         \/ \E g \in Group : j = Docs(g) /\ StartDocuments(g) /\ SupplyAsync({Docs(g)})
<1>. USE DEF Inv, TypeOK
<1>1. ~WorkerStep
  <2>. SUFFICES ASSUME WorkerShape PROVE FALSE
    BY WorkerShapes
  <2>1. ASSUME NEW k \in Job, NEW result, NEW next, Ends(k, result, next) PROVE FALSE
    BY <2>1 DEF Ends, Finish
  <2>2. ASSUME NEW k \in Job, Start(k) \/ Hang(k) PROVE FALSE
    BY <2>2 DEF Start, Hang
  <2>3. ASSUME NEW g \in Group, SaveStudent(g) PROVE FALSE
    BY <2>3 DEF SaveStudent
  <2>. QED  BY <2>1, <2>2, <2>3 DEF WorkerShape
<1>2. job' # job
  OBVIOUS
<1>3. CASE BuildProgramPipelines
  BY <1>3, <1>2 DEF BuildProgramPipelines, SupplyAsync, SupplyRefused
<1>4. ASSUME NEW p \in Program, NEW g \in Group, StartRun(p, g)
      PROVE  j = Run(p, g) /\ SupplyAsync({Run(p, g)})
  BY <1>4, <1>2 DEF StartRun, SupplyAsync, SupplyRefused
<1>5. ASSUME NEW g \in Group, StartDocuments(g) PROVE j = Docs(g) /\ SupplyAsync({Docs(g)})
  BY <1>5, <1>2 DEF StartDocuments, SupplyAsync, SupplyRefused
<1>6. \/ BuildProgramPipelines
      \/ \E p \in Program, g \in Group : StartRun(p, g)
      \/ \E g \in Group : StartDocuments(g)
  BY <1>1, <1>2 DEF Next, AtRest, FxStep, vars, ShowDiagnostic, CountDone, SetException, DeliverOutput,
                    BuildExamPipeline, MergeOutputs
<1>. QED  BY <1>3, <1>4, <1>5, <1>6

\* How a job comes by a result: its supplier ends.
LEMMA ResolvedBy ==
  ASSUME Inv, [Next]_vars, NEW j \in Job, job[j] \notin Resolved, job'[j] \in Resolved
  PROVE  \E next : Ends(j, job'[j], next)
<1>. USE DEF Inv, TypeOK
<1>1. ASSUME NEW k \in Job, NEW result, NEW next, Ends(k, result, next)
      PROVE  Ends(j, job'[j], next)
  BY <1>1 DEF Ends, Finish
<1>2. ASSUME NEW k \in Job PROVE ~Start(k) /\ ~Hang(k)
  BY DEF Start, Hang, Resolved
<1>3. ASSUME NEW js \in SUBSET Job PROVE ~Supplies(js)
  BY SupplyAsyncJobs DEF Supplies, Resolved
<1>4. job' # job
  OBVIOUS
<1>. QED
  BY <1>1, <1>2, <1>3, <1>4, WorkerShapes, FxShapes
     DEF Next, AtRest, WorkerShape, FxShape, vars, SaveStudent, ShowDiagnostic, CountDone, SetException,
         DeliverOutput, BuildExamPipeline, MergeOutputs

\* How the exam pipeline of a group advances.
LEMMA ExamAdvances ==
  ASSUME Inv, [Next]_vars, NEW g \in Group, exam'[g] # exam[g]
  PROVE  BuildExamPipeline(g) \/ MergeOutputs(g) \/ StartDocuments(g)
<1>. USE DEF Inv, TypeOK
<1>1. ~WorkerStep
  <2>. SUFFICES ASSUME WorkerShape PROVE FALSE
    BY WorkerShapes
  <2>. QED  BY DEF WorkerShape, Ends, Finish, Start, Hang, SaveStudent
<1>2. exam' # exam
  OBVIOUS
<1>3. \E h \in Group : BuildExamPipeline(h) \/ MergeOutputs(h) \/ StartDocuments(h)
  BY <1>1, <1>2 DEF Next, AtRest, FxStep, vars, ShowDiagnostic, CountDone, SetException, DeliverOutput,
                    BuildProgramPipelines, StartRun
<1>4. ASSUME NEW h \in Group, BuildExamPipeline(h) \/ MergeOutputs(h) \/ StartDocuments(h)
      PROVE  h = g
  BY <1>4 DEF BuildExamPipeline, MergeOutputs, StartDocuments
<1>. QED  BY <1>3, <1>4

\* The order of the stages is kept by every step.
LEMMA StagesInOrderInvariant ==
  ASSUME Inv, TypeOK', [Next]_vars
  PROVE  StagesInOrder'
<1>. USE DEF Inv
<1>1. ASSUME NEW p \in Program, NEW g \in Group, job'[Compile(p, g)] # "idle"
      PROVE  Delivered(Load)'
  <2>1. CASE job[Compile(p, g)] # "idle"
    BY <2>1, ResultsAreFinal, JobFacts DEF StagesInOrder
  <2>2. CASE job[Compile(p, g)] = "idle"
    <3>1. BuildProgramPipelines
      <4>1. /\ Compile(p, g) \in Job
            /\ \A q \in Program, h \in Group : Compile(p, g) # Run(q, h)
            /\ \A h \in Group : Compile(p, g) # Docs(h)
        BY JobFacts
      <4>. QED  BY <1>1, <2>2, <4>1, SubmittedBy
    <3>2. job[Load] \in Resolved /\ pending'[Load] = "none"
      BY <3>1, JobFacts DEF BuildProgramPipelines, TypeOK, CallbacksFit
    <3>. QED  BY <3>2, ResultsAreFinal, JobFacts DEF Delivered
  <2>. QED  BY <2>1, <2>2
<1>2. ASSUME NEW p \in Program, NEW g \in Group, job'[Run(p, g)] # "idle"
      PROVE  Delivered(Compile(p, g))'
  <2>1. CASE job[Run(p, g)] # "idle"
    BY <2>1, ResultsAreFinal, JobFacts DEF StagesInOrder
  <2>2. CASE job[Run(p, g)] = "idle"
    <3>1. StartRun(p, g)
      <4>1. Run(p, g) \in Job /\ Run(p, g) \notin CompileJob /\ \A h \in Group : Run(p, g) # Docs(h)
        BY JobFacts
      <4>2. PICK q \in Program, h \in Group : Run(p, g) = Run(q, h) /\ StartRun(q, h)
        BY <1>2, <2>2, <4>1, SubmittedBy
      <4>. QED  BY <4>2, JobFacts
    <3>2. job[Compile(p, g)] \in Resolved /\ pending'[Compile(p, g)] = "none"
      BY <3>1, JobFacts DEF StartRun, TypeOK, CallbacksFit
    <3>. QED  BY <3>2, ResultsAreFinal, JobFacts DEF Delivered
  <2>. QED  BY <2>1, <2>2
<1>3. ASSUME NEW p \in Program, NEW g \in Group, job'[Run(p, g)] \in {"ok", "null"}
      PROVE  job'[Compile(p, g)] = "ok"
  <2>1. job[Compile(p, g)] = "ok"
    <3>1. CASE job[Run(p, g)] \in Resolved
      BY <1>3, <3>1, ResultsAreFinal, JobFacts DEF StagesInOrder
    <3>2. CASE job[Run(p, g)] \notin Resolved
      <4>1. Run(p, g) \in Job /\ job'[Run(p, g)] \in Resolved
        BY <1>3, JobFacts DEF Resolved
      <4>2. PICK next : Ends(Run(p, g), job'[Run(p, g)], next)
        BY <3>2, <4>1, ResolvedBy
      <4>. QED  BY <1>3, <4>2 DEF Ends
    <3>. QED  BY <3>1, <3>2
  <2>. QED  BY <2>1, ResultsAreFinal, JobFacts DEF Resolved
<1>4. ASSUME NEW p \in Program, NEW g \in Group, exam'[g] \in {"merged", "submitted"}
      PROVE  job'[Run(p, g)] = "ok"
  <2>1. job[Run(p, g)] = "ok"
    <3>1. CASE exam'[g] = exam[g]
      BY <1>4, <3>1 DEF StagesInOrder
    <3>2. CASE BuildExamPipeline(g)
      BY <1>4, <3>2 DEF BuildExamPipeline, TypeOK
    <3>3. CASE MergeOutputs(g)
      <4>1. job[Run(p, g)] \in Resolved /\ job[Run(p, g)] # "null"
        BY <1>4, <3>3 DEF MergeOutputs, TypeOK, Delivered
      <4>. QED  BY <4>1, JobFacts DEF CallbacksFit, Resolved
    <3>4. CASE StartDocuments(g)
      BY <3>4 DEF StartDocuments, StagesInOrder
    <3>. QED  BY <3>1, <3>2, <3>3, <3>4, ExamAdvances
  <2>. QED  BY <2>1, ResultsAreFinal, JobFacts DEF Resolved
<1>5. ASSUME NEW g \in Group PROVE job'[Docs(g)] # "idle" <=> exam'[g] = "submitted"
  <2>1. CASE job[Docs(g)] = "idle" /\ job'[Docs(g)] # "idle"
    <3>1. Docs(g) \in Job /\ Docs(g) \notin CompileJob /\
          \A p \in Program, h \in Group : Docs(g) # Run(p, h)
      BY JobFacts
    <3>2. PICK h \in Group : Docs(g) = Docs(h) /\ StartDocuments(h) /\ SupplyAsync({Docs(h)})
      BY <2>1, <3>1, SubmittedBy
    <3>3. h = g
      BY <3>2, JobFacts
    <3>. QED  BY <2>1, <3>2, <3>3 DEF StartDocuments, SupplyRefused, SupplyAsync, TypeOK
  <2>2. CASE job[Docs(g)] # "idle"
    <3>1. exam[g] = "submitted"
      BY <2>2 DEF StagesInOrder
    <3>2. exam'[g] = exam[g]
      BY <3>1, ExamAdvances DEF BuildExamPipeline, MergeOutputs, StartDocuments
    <3>. QED  BY <2>2, <3>1, <3>2, ResultsAreFinal, JobFacts
  <2>3. CASE job[Docs(g)] = "idle" /\ job'[Docs(g)] = "idle"
    <3>1. exam[g] # "submitted"
      BY <2>3 DEF StagesInOrder
    <3>2. CASE BuildExamPipeline(g) \/ MergeOutputs(g)
      BY <3>2, <2>3 DEF BuildExamPipeline, MergeOutputs, TypeOK
    <3>3. CASE StartDocuments(g)
      BY <3>3, <2>3, JobFacts DEF StartDocuments, SupplyAsync, TypeOK
    <3>. QED  BY <2>3, <3>1, <3>2, <3>3, ExamAdvances
  <2>. QED  BY <2>1, <2>2, <2>3
<1>. QED  BY <1>1, <1>2, <1>3, <1>4, <1>5 DEF StagesInOrder

\* Every job is counted once when submitted and once when done.
LEMMA CountersAreExactInvariant ==
  ASSUME Inv, TypeOK', [Next]_vars
  PROVE  CountersAreExact'
<1>. USE DEF Inv, TypeOK, CallbacksFit, CountersAreExact
<1>1. Submitted \subseteq Job /\ Counted \subseteq Job
  BY DEF Submitted, Counted
<1>2. IsFiniteSet(Submitted) /\ IsFiniteSet(Counted)
  BY <1>1, JobFinite, FS_Subset
<1>3. ASSUME Submitted' = Submitted, Counted' = Counted, UNCHANGED <<workDone, workTotal>>
      PROVE  CountersAreExact'
  BY <1>3
<1>4. ASSUME NEW j \in Job, NEW result, NEW next, Ends(j, result, next) PROVE CountersAreExact'
  BY <1>3, <1>4 DEF Ends, Finish, Submitted, Counted, Resolved
<1>5. ASSUME NEW j \in Job, Start(j) \/ Hang(j) PROVE CountersAreExact'
  BY <1>3, <1>5 DEF Start, Hang, Submitted, Counted, Resolved
<1>6. ASSUME NEW g \in Group, SaveStudent(g) PROVE CountersAreExact'
  BY <1>3, <1>6 DEF SaveStudent, Submitted, Counted
<1>7. ASSUME NEW j \in Job, ShowDiagnostic(j) \/ SetException(j) PROVE CountersAreExact'
  BY <1>3, <1>7 DEF ShowDiagnostic, SetException, Submitted, Counted, Resolved
<1>8. ASSUME NEW j \in Job, CountDone(j) PROVE CountersAreExact'
  <2>1. j \notin Counted /\ Counted' = Counted \cup {j}
    BY <1>8 DEF CountDone, Counted
  <2>2. Cardinality(Counted') = Cardinality(Counted) + 1
    BY <1>2, <2>1, FS_AddElement
  <2>3. Submitted' = Submitted
    BY <1>8 DEF CountDone, Submitted
  <2>. QED  BY <1>8, <2>2, <2>3 DEF CountDone
<1>9. ASSUME NEW js \in SUBSET Job, Supplies(js) PROVE CountersAreExact'
  <2>1. Counted' = Counted
    BY <1>9, SupplyAsyncJobs DEF Supplies, Counted, Resolved
  <2>2. CASE SupplyAsync(js)
    <3>1. Submitted' = Submitted \cup js /\ Submitted \cap js = {}
      BY <1>9, <2>2, SupplyAsyncJobs DEF Supplies, Submitted
    <3>2. IsFiniteSet(js)
      BY JobFinite, FS_Subset
    <3>3. Cardinality(Submitted') = Cardinality(Submitted) + Cardinality(js)
      <4>1. Cardinality(Submitted \cup js)
              = Cardinality(Submitted) + Cardinality(js) - Cardinality(Submitted \cap js)
        BY <1>2, <3>2, FS_Union
      <4>2. Cardinality(Submitted) \in Nat /\ Cardinality(js) \in Nat
        BY <1>2, <3>2, FS_CardinalityType
      <4>3. Cardinality(Submitted \cap js) = 0
        BY <3>1, FS_EmptySet
      <4>4. Cardinality(Submitted \cup js) = Cardinality(Submitted) + Cardinality(js)
        BY <4>1, <4>2, <4>3
      <4>. QED  BY <3>1, <4>4
    <3>. QED  BY <1>9, <2>1, <2>2, <3>3 DEF Supplies, SupplyAsync
  <2>3. CASE SupplyRefused
    <3>1. Submitted' = Submitted
      BY <2>3 DEF SupplyRefused, Submitted
    <3>. QED  BY <1>3, <1>9, <2>1, <2>3, <3>1 DEF Supplies, SupplyRefused
  <2>. QED  BY <1>9, <2>2, <2>3 DEF Supplies
<1>10. ASSUME NEW p \in Program, NEW g \in Group, DeliverOutput(p, g) PROVE CountersAreExact'
  BY <1>3, <1>10 DEF DeliverOutput, Submitted, Counted
<1>11. ASSUME NEW g \in Group, BuildExamPipeline(g) \/ MergeOutputs(g) PROVE CountersAreExact'
  BY <1>3, <1>11 DEF BuildExamPipeline, MergeOutputs, Submitted, Counted
<1>12. CASE UNCHANGED vars
  BY <1>3, <1>12 DEF vars, Submitted, Counted
<1>. QED
  BY <1>4, <1>5, <1>6, <1>7, <1>8, <1>9, <1>10, <1>11, <1>12, WorkerShapes, FxShapes
     DEF Next, AtRest, WorkerShape, FxShape

\* Only Start occupies a worker, and it does so when one is free.
LEMMA OccupiedInvariant ==
  ASSUME Inv, TypeOK', [Next]_vars
  PROVE  Cardinality(Occupied)' <= Parallelism
<1>. USE DEF Inv, TypeOK, OutcomesAreKept
<1>1. IsFiniteSet(Occupied) /\ Cardinality(Occupied) \in Nat /\ Parallelism \in Nat
  BY JobFinite, FS_Subset, FS_CardinalityType, ConstantsAssumption DEF Occupied, ConstantsAssumption
<1>2. Occupied' \subseteq Occupied => Cardinality(Occupied') <= Parallelism
  <2>1. Occupied' \subseteq Occupied => Cardinality(Occupied') \in Nat /\ Cardinality(Occupied') <= Cardinality(Occupied)
    BY <1>1, FS_Subset, FS_CardinalityType
  <2>. QED  BY <1>1, <2>1
<1>3. ASSUME NEW j \in Job, NEW result, NEW next, Ends(j, result, next)
      PROVE  Occupied' \subseteq Occupied
  BY <1>3 DEF Ends, Finish, Occupied, Resolved
<1>4. ASSUME NEW j \in Job, Start(j) PROVE Cardinality(Occupied') <= Parallelism
  <2>1. Occupied' = Occupied \cup {j} /\ j \notin Occupied
    BY <1>4 DEF Start, Occupied
  <2>2. Cardinality(Occupied') = Cardinality(Occupied) + 1
    BY <1>1, <2>1, FS_AddElement
  <2>. QED  BY <1>1, <1>4, <2>2 DEF Start
<1>5. ASSUME NEW j \in Job, Hang(j) PROVE Occupied' \subseteq Occupied
  BY <1>5 DEF Hang, Occupied
<1>6. ASSUME NEW js \in SUBSET Job, Supplies(js) PROVE Occupied' \subseteq Occupied
  BY <1>6, SupplyAsyncJobs DEF Supplies, Occupied
<1>7. job' = job => Occupied' \subseteq Occupied
  BY DEF Occupied
<1>8. \/ \E j \in Job : ShowDiagnostic(j) \/ CountDone(j) \/ SetException(j)
      \/ \E p \in Program, g \in Group : DeliverOutput(p, g)
      \/ \E g \in Group : SaveStudent(g) \/ BuildExamPipeline(g) \/ MergeOutputs(g)
      \/ UNCHANGED vars
      => job' = job
  BY DEF ShowDiagnostic, CountDone, SetException, DeliverOutput, SaveStudent, BuildExamPipeline,
         MergeOutputs, vars
<1>. QED
  BY <1>2, <1>3, <1>4, <1>5, <1>6, <1>7, <1>8, WorkerShapes, FxShapes
     DEF Next, AtRest, WorkerShape, FxShape

\* A throw is followed by an exception, and only what compiles or runs gets stuck.
LEMMA JobOutcomesInvariant ==
  ASSUME Inv, TypeOK', [Next]_vars, NEW k \in Job
  PROVE  /\ job'[k] = "thrown" /\ pending'[k] # "exception" => exception' # None
         /\ job'[k] = "hung" => k \in CompileJob \cup RunJob
         /\ job'[k] = "null" => k \in RunJob
<1>. DEFINE Goal == /\ job'[k] = "thrown" /\ pending'[k] # "exception" => exception' # None
                    /\ job'[k] = "hung" => k \in CompileJob \cup RunJob
                    /\ job'[k] = "null" => k \in RunJob
<1>. USE DEF Inv, TypeOK, CallbacksFit, OutcomesAreKept
<1>1. ASSUME NEW j \in Job, NEW result, NEW next, Ends(j, result, next) PROVE Goal
  BY <1>1 DEF Ends, Finish, Resolved
<1>2. ASSUME NEW j \in Job, Start(j) PROVE Goal
  BY <1>2 DEF Start
<1>3. ASSUME NEW j \in Job, Hang(j) PROVE Goal
  BY <1>3, JobFacts DEF Hang
<1>4. ASSUME NEW g \in Group, SaveStudent(g) PROVE Goal
  BY <1>4 DEF SaveStudent
<1>5. ASSUME NEW j \in Job, ShowDiagnostic(j) \/ CountDone(j) PROVE Goal
  BY <1>5 DEF ShowDiagnostic, CountDone
<1>6. ASSUME NEW j \in Job, SetException(j) PROVE Goal
  BY <1>6, ConstantsAssumption DEF SetException, ConstantsAssumption
<1>7. ASSUME NEW js \in SUBSET Job, Supplies(js) PROVE Goal
  <2>1. job'[k] = job[k] \/ job'[k] = "queued"
    BY <1>7, SupplyAsyncJobs DEF Supplies
  <2>2. exception' = exception /\ (pending'[k] = pending[k] \/ pending[k] = "then")
    BY <1>7 DEF Supplies
  <2>3. pending[k] = "then" => job[k] \in Resolved
    OBVIOUS
  <2>. QED  BY <2>1, <2>2, <2>3 DEF Resolved
<1>8. ASSUME NEW p \in Program, NEW g \in Group, DeliverOutput(p, g) PROVE Goal
  BY <1>8 DEF DeliverOutput
<1>9. ASSUME NEW g \in Group, BuildExamPipeline(g) \/ MergeOutputs(g) PROVE Goal
  BY <1>9 DEF BuildExamPipeline, MergeOutputs
<1>10. CASE UNCHANGED vars
  BY <1>10 DEF vars
<1>. QED
  BY <1>1, <1>2, <1>3, <1>4, <1>5, <1>6, <1>7, <1>8, <1>9, <1>10, WorkerShapes, FxShapes
     DEF Next, AtRest, WorkerShape, FxShape

\* The load job was submitted by the constructor, and it does not throw.
LEMMA LoadInvariant ==
  ASSUME Inv, TypeOK', [Next]_vars
  PROVE  job'[Load] \notin {"idle", "thrown"}
<1>. USE DEF Inv, TypeOK, OutcomesAreKept
<1>0. Load \in Job
  BY JobFacts
<1>1. ASSUME NEW j \in Job, NEW result, NEW next, Ends(j, result, next) PROVE job'[Load] \notin {"idle", "thrown"}
  BY <1>0, <1>1 DEF Resolved, Ends, Finish
<1>2. ASSUME NEW j \in Job, Start(j) \/ Hang(j) PROVE job'[Load] \notin {"idle", "thrown"}
  BY <1>0, <1>2 DEF Start, Hang
<1>3. ASSUME NEW js \in SUBSET Job, Supplies(js) PROVE job'[Load] \notin {"idle", "thrown"}
  BY <1>0, <1>3, SupplyAsyncJobs DEF Supplies
<1>4. job' = job => job'[Load] \notin {"idle", "thrown"}
  OBVIOUS
<1>5. \/ \E j \in Job : ShowDiagnostic(j) \/ CountDone(j) \/ SetException(j)
      \/ \E p \in Program, g \in Group : DeliverOutput(p, g)
      \/ \E g \in Group : SaveStudent(g) \/ BuildExamPipeline(g) \/ MergeOutputs(g)
      \/ UNCHANGED vars
      => job' = job
  BY DEF ShowDiagnostic, CountDone, SetException, DeliverOutput, SaveStudent, BuildExamPipeline,
         MergeOutputs, vars
<1>. QED
  BY <1>1, <1>2, <1>3, <1>4, <1>5, WorkerShapes, FxShapes DEF Next, AtRest, WorkerShape, FxShape

\* A document job that ended well has saved both documents, and they stay.
LEMMA DocumentsInvariant ==
  ASSUME Inv, TypeOK', [Next]_vars, NEW g \in Group, job'[Docs(g)] = "ok"
  PROVE  saved'[g] = Variant
<1>. USE DEF Inv, TypeOK, OutcomesAreKept
<1>1. Docs(g) \in Job /\ \A h \in Group : Docs(h) \in Job /\ (Docs(h) = Docs(g) => h = g)
  BY JobFacts
<1>2. CASE job[Docs(g)] = "ok"
  <2>1. saved[g] = Variant
    BY <1>2
  <2>2. ASSUME NEW h \in Group, SaveStudent(h) \/ SaveTeacher(h) PROVE saved'[g] = saved[g]
    <3>1. h # g
      BY <1>2, <2>2 DEF SaveStudent, SaveTeacher, Finish
    <3>. QED  BY <2>2, <3>1 DEF SaveStudent, SaveTeacher
  <2>3. (\E h \in Group : SaveStudent(h) \/ SaveTeacher(h)) \/ saved' = saved
    BY DEF Next, AtRest, WorkerStep, WorkerEnds, FxStep, vars, LoadTemplates, CompileProgram,
           RunProgram, FailDocuments, Hang, Start, ShowDiagnostic, CountDone, SetException,
           BuildProgramPipelines, StartRun, DeliverOutput, BuildExamPipeline, MergeOutputs,
           StartDocuments
  <2>. QED  BY <2>1, <2>2, <2>3
<1>3. CASE job[Docs(g)] # "ok"
  <2>1. ASSUME NEW j \in Job, NEW result, NEW next, Finish(j, result, next), j \notin DocsJob
        PROVE  FALSE
    BY <1>1, <1>3, <2>1, JobFacts DEF Finish
  <2>2. ~LoadTemplates
    BY <2>1, JobFacts DEF LoadTemplates
  <2>3. \A p \in Program, h \in Group : ~CompileProgram(p, h)
    BY <2>1, JobFacts DEF CompileProgram
  <2>4. \A p \in Program, h \in Group : ~RunProgram(p, h)
    BY <2>1, JobFacts DEF RunProgram
  <2>5. \A h \in Group : ~FailDocuments(h) /\ (SaveTeacher(h) => h = g)
    BY <1>1, <1>3 DEF FailDocuments, SaveTeacher, Finish
  <2>6. \A j \in Job : ~Hang(j) /\ ~Start(j)
    BY <1>1, <1>3 DEF Hang, Start
  <2>7. job' # job
    BY <1>3
  <2>8. \A js \in SUBSET Job : ~Supplies(js)
    BY <1>1, <1>3, SupplyAsyncJobs DEF Supplies
  <2>9. ~FxStep
    BY <2>7, <2>8, FxShapes DEF FxShape, ShowDiagnostic, CountDone, SetException, DeliverOutput,
                              BuildExamPipeline, MergeOutputs
  <2>10. SaveTeacher(g)
    BY <2>2, <2>3, <2>4, <2>5, <2>6, <2>7, <2>9
       DEF Next, AtRest, WorkerStep, WorkerEnds, SaveStudent, vars
  <2>. QED  BY <2>10 DEF SaveTeacher
<1>. QED  BY <1>2, <1>3

\* An exam is rejected by a null output or by the exception of the task.
LEMMA RejectedInvariant ==
  ASSUME Inv, TypeOK', [Next]_vars, NEW g \in Group, exam'[g] = "rejected"
  PROVE  exception' # None \/ \E p \in Program : job'[Run(p, g)] = "null"
<1>. USE DEF Inv, TypeOK, OutcomesAreKept
<1>1. exception # None => exception' # None
  <2>1. ASSUME NEW j \in Job, SetException(j) PROVE exception' # None
    BY <2>1, ConstantsAssumption DEF SetException, ConstantsAssumption
  <2>2. (\E j \in Job : SetException(j)) \/ exception' = exception
    BY DEF Next, AtRest, WorkerStep, WorkerEnds, FxStep, vars, LoadTemplates, CompileProgram,
           RunProgram, SaveStudent, SaveTeacher, FailDocuments, Finish, Hang, Start,
           ShowDiagnostic, CountDone, BuildProgramPipelines, StartRun, DeliverOutput,
           BuildExamPipeline, MergeOutputs, StartDocuments
  <2>. QED  BY <2>1, <2>2
<1>2. \A p \in Program : job[Run(p, g)] = "null" => job'[Run(p, g)] = "null"
  BY ResultsAreFinal, JobFacts DEF Resolved
<1>3. CASE exam[g] = "rejected"
  BY <1>1, <1>2, <1>3
<1>4. CASE exam[g] # "rejected"
  <2>1. BuildExamPipeline(g) \/ MergeOutputs(g) \/ StartDocuments(g)
    BY <1>4, ExamAdvances
  <2>2. CASE MergeOutputs(g)
    BY <1>2, <2>2 DEF MergeOutputs
  <2>3. CASE StartDocuments(g)
    BY <1>1, <2>3 DEF StartDocuments, SupplyRefused, MaySupply
  <2>. QED  BY <2>1, <2>2, <2>3 DEF BuildExamPipeline
<1>. QED  BY <1>3, <1>4

\* What jobs and pipelines leave behind is kept by every step.
LEMMA OutcomesAreKeptInvariant ==
  ASSUME Inv, TypeOK', [Next]_vars
  PROVE  OutcomesAreKept'
BY OccupiedInvariant, JobOutcomesInvariant, LoadInvariant, DocumentsInvariant, RejectedInvariant
   DEF OutcomesAreKept

\* Inv holds initially: only the load job is submitted.
LEMMA InvInit == Init => Inv
<1>. SUFFICES ASSUME Init PROVE Inv
  OBVIOUS
<1>1. TypeOK
  BY JobFacts DEF Init, TypeOK, JobState, Resolved, Callback, ExamStage, Variant
<1>2. CallbacksFit /\ ErrorsAreKept
  BY ConstantsAssumption DEF Init, CallbacksFit, ErrorsAreKept, Resolved, ConstantsAssumption
<1>3. StagesInOrder
  BY JobFacts DEF Init, StagesInOrder
<1>4. Submitted = {Load} /\ Counted = {}
  BY JobFacts DEF Init, Submitted, Counted, Resolved
<1>5. CountersAreExact
  BY <1>4, FS_Singleton, FS_EmptySet DEF Init, CountersAreExact
<1>6. OutcomesAreKept
  <2>1. Occupied = {}
    BY DEF Init, Occupied
  <2>2. Cardinality(Occupied) <= Parallelism
    BY <2>1, FS_EmptySet, ConstantsAssumption DEF ConstantsAssumption
  <2>. QED  BY <2>2, JobFacts DEF Init, OutcomesAreKept
<1>. QED  BY <1>1, <1>2, <1>3, <1>5, <1>6 DEF Inv

\* The counters, the callbacks and the stages agree with the jobs in every state.
THEOREM Invariance == Spec => []Inv
<1>1. Inv /\ TypeOK' /\ [Next]_vars => Inv'
  BY CallbacksFitInvariant, StagesInOrderInvariant, ErrorsAreKeptInvariant,
     CountersAreExactInvariant, OutcomesAreKeptInvariant DEF Inv
<1>. QED  BY InvInit, TypeCorrect, <1>1, PTL DEF Spec

-----------------------------------------------------------------------------
(***************************************************************************)
(* The safety properties.                                                  *)
(***************************************************************************)

\* While the counters agree, every submitted job is done and counted.
LEMMA EqualCounters ==
  ASSUME Inv, workDone = workTotal
  PROVE  Counted = Submitted
<1>1. Counted \in SUBSET Submitted
  BY DEF Counted, Submitted, Resolved
<1>2. IsFiniteSet(Submitted)
  <2>1. Submitted \subseteq Job
    BY DEF Submitted
  <2>. QED  BY <2>1, JobFinite, FS_Subset
<1>. QED  BY <1>1, <1>2, FS_Subset DEF Inv, CountersAreExact

\* When the counters meet without an exception, no job is left.
LEMMA InvImpliesSucceededMeansIdle == Inv => SucceededMeansIdle
<1>. SUFFICES ASSUME Inv, State = "SUCCEEDED", NEW j \in Job
              PROVE  job[j] \notin {"queued", "running", "hung", "thrown"}
  BY DEF SucceededMeansIdle
<1>1. Counted = Submitted
  BY EqualCounters DEF State
<1>. QED  BY <1>1 DEF Counted, Submitted, Resolved

\* A task that shows SUCCEEDED has no job submitted, running, stuck or thrown.
THEOREM SucceededIsIdle == Spec => []SucceededMeansIdle
BY Invariance, InvImpliesSucceededMeansIdle, PTL

\* Documents are generated from the outputs of programs that compiled, ran and
\* exited with zero.
THEOREM DocumentsComeFromOutputs == Spec => []DocumentsFollowOutputs
<1>1. Inv => DocumentsFollowOutputs
  BY DEF Inv, StagesInOrder, DocumentsFollowOutputs
<1>. QED  BY <1>1, Invariance, PTL

\* No task is FAILED for want of a program, or SUCCEEDED with a program that
\* failed, before the error is listed.
THEOREM ErrorsComeFirst == Spec => []ErrorsAreListedFirst
<1>1. ASSUME Inv, NEW p \in Program, NEW g \in Group,
             exception = Run(p, g), job[Compile(p, g)] = "failed"
      PROVE  <<"ERROR", Compile(p, g)>> \in diagnostics
  <2>1. job[Run(p, g)] = "thrown"
    BY <1>1, JobFacts DEF Inv, CallbacksFit
  <2>2. pending[Compile(p, g)] = "none"
    BY <1>1, <2>1 DEF Inv, StagesInOrder, Delivered
  <2>. QED  BY <1>1, <2>2, JobFacts DEF Inv, ErrorsAreKept
<1>2. ASSUME Inv, NEW p \in Program, NEW g \in Group,
             State = "SUCCEEDED", job[Run(p, g)] = "null"
      PROVE  <<"ERROR", Run(p, g)>> \in diagnostics
  <2>1. Counted = Submitted
    BY <1>2, EqualCounters DEF State
  <2>2. pending[Run(p, g)] \in {"none", "then"}
    BY <1>2, <2>1, JobFacts DEF Counted, Submitted
  <2>. QED  BY <1>2, <2>2, JobFacts DEF Inv, ErrorsAreKept
<1>3. Inv => ErrorsAreListedFirst
  BY <1>1, <1>2 DEF ErrorsAreListedFirst
<1>. QED  BY <1>3, Invariance, PTL

\* After a failure every callback of the pipeline finds supplyAsync closed.
THEOREM FailureStopsSubmission == Spec => NoSubmissionAfterFailure
<1>1. ASSUME Inv, [Next]_vars, exception # None, NEW j \in Job, job[j] = "idle"
      PROVE  job'[j] = "idle"
  BY <1>1, SubmittedBy DEF SupplyAsync, MaySupply
<1>2. Inv /\ [Next]_vars
        => [exception # None => \A j \in Job : job[j] = "idle" => job'[j] = "idle"]_vars
  BY <1>1
<1>. QED  BY <1>2, Invariance, PTL DEF Spec, NoSubmissionAfterFailure

\* What a job is once the task has stopped.
LEMMA StoppedJobs ==
  ASSUME Inv, Stopped, NEW j \in Job
  PROVE  /\ job[j] \in {"idle", "queued", "hung", "thrown"} \cup Resolved
         /\ job[j] = "thrown" => exception # None
         /\ job[j] \in Resolved => Delivered(j)
BY DEF Inv, Stopped, TypeOK, OutcomesAreKept, JobState, Delivered

\* Only stuck jobs occupy the workers of a stopped task.
LEMMA StoppedWorkers ==
  ASSUME Inv, Stopped
  PROVE  /\ Occupied = Hung
         /\ Cardinality(Hung) \in Nat /\ Cardinality(Hung) <= Parallelism
         /\ (\E j \in Job : job[j] = "queued") => Cardinality(Hung) = Parallelism
<1>1. Occupied = Hung
  BY DEF Stopped, Occupied, Hung
<1>2. Cardinality(Hung) \in Nat
  BY JobFinite, FS_Subset, FS_CardinalityType DEF Hung
<1>. QED  BY <1>1, <1>2, ConstantsAssumption DEF Inv, OutcomesAreKept, Stopped, ConstantsAssumption

\* A stopped task without an exception and with a worker left has the documents of
\* every group whose programs all exited with zero.
LEMMA StoppedDocuments ==
  ASSUME Inv, Stopped, exception = None, Cardinality(Hung) < Parallelism,
         NEW g \in Group, \A p \in Program : job[Run(p, g)] = "ok"
  PROVE  saved[g] = Variant
<1>1. \A j \in Job : job[j] # "queued"
  BY StoppedWorkers, ConstantsAssumption DEF ConstantsAssumption
<1>2. Delivered(Load)
  <2>1. Load \in Job /\ job[Load] # "idle" /\ job[Load] # "hung" /\ job[Load] # "thrown"
    BY JobFacts DEF Inv, OutcomesAreKept
  <2>. QED  BY <1>1, <2>1, StoppedJobs
<1>3. \A p \in Program : Delivered(Run(p, g))
  BY StoppedJobs, JobFacts DEF Resolved
<1>4. exam[g] = "submitted"
  <2>1. exam[g] # "rejected"
    BY DEF Inv, OutcomesAreKept
  <2>. QED  BY <1>2, <1>3, <2>1 DEF Stopped, Inv, TypeOK, ExamStage
<1>5. job[Docs(g)] # "idle" /\ Docs(g) \in Job /\ Docs(g) \notin CompileJob /\ Docs(g) \notin RunJob
  BY <1>4, JobFacts DEF Inv, StagesInOrder
<1>6. job[Docs(g)] = "ok"
  <2>1. job[Docs(g)] \in {"thrown"} \cup Resolved
    BY <1>1, <1>5, StoppedJobs DEF Inv, OutcomesAreKept
  <2>2. job[Docs(g)] \notin {"thrown", "null", "failed", "failedSilently"}
    BY <1>5, StoppedJobs DEF Inv, OutcomesAreKept, CallbacksFit
  <2>. QED  BY <2>1, <2>2 DEF Resolved
<1>. QED  BY <1>6 DEF Inv, OutcomesAreKept

\* A stopped task shows RUNNING exactly when a job is stuck and none has thrown.
LEMMA StoppedState ==
  ASSUME Inv, Stopped
  PROVE  State = "RUNNING" <=> exception = None /\ Hung # {}
<1>1. ASSUME exception = None, Hung # {} PROVE State = "RUNNING"
  <2>1. State # "SUCCEEDED"
    BY <1>1, InvImpliesSucceededMeansIdle DEF SucceededMeansIdle, Hung
  <2>. QED  BY <1>1, <2>1 DEF State
<1>2. ASSUME State = "RUNNING" PROVE exception = None /\ Hung # {}
  <2>1. exception = None /\ Counted # Submitted
    BY <1>2 DEF State, Inv, CountersAreExact
  <2>2. PICK j \in Job : job[j] # "idle" /\ job[j] \notin Resolved
    BY <2>1, StoppedJobs DEF Counted, Submitted, Delivered, Resolved
  <2>3. job[j] = "queued" \/ job[j] = "hung"
    BY <2>1, <2>2, StoppedJobs
  <2>4. CASE job[j] = "queued"
    <3>1. Cardinality(Hung) # 0
      BY <2>4, StoppedWorkers, ConstantsAssumption DEF ConstantsAssumption
    <3>. QED  BY <2>1, <3>1, FS_EmptySet
  <2>. QED  BY <2>1, <2>3, <2>4 DEF Hung
<1>. QED  BY <1>1, <1>2

\* What a task has achieved and what it shows where it stops for good.
THEOREM StopsWithOutcome == Spec => []StoppedOutcome
<1>1. Inv => StoppedOutcome
  <2>. SUFFICES ASSUME Inv, Stopped PROVE StoppedOutcome
    BY DEF StoppedOutcome
  <2>1. \A j \in Job : job[j] # "running"
    BY DEF Stopped
  <2>. QED  BY <2>1, StoppedDocuments, StoppedState, StoppedWorkers DEF StoppedOutcome
<1>. QED  BY <1>1, Invariance, PTL

\* No thread of the task takes a step once it has stopped: Stopped is not met on the
\* way, it is the end.
THEOREM StoppedIsFinal == Spec => [][Stopped => UNCHANGED vars]_vars
<1>1. ASSUME Inv, Stopped, Next PROVE UNCHANGED vars
  <2>1. ASSUME NEW j \in Job PROVE ~Start(j) /\ ~Hang(j)
    BY <1>1, <2>1, StoppedWorkers, ConstantsAssumption DEF Start, Hang, Stopped, ConstantsAssumption
  <2>2. \A j \in Job : \A result, next : ~Finish(j, result, next)
    BY <1>1 DEF Stopped, Finish
  <2>3. \A g \in Group : ~SaveStudent(g)
    BY <1>1, JobFacts DEF Stopped, SaveStudent
  <2>4. ~WorkerStep
    BY <2>1, <2>2, <2>3, JobFacts
       DEF WorkerStep, WorkerEnds, LoadTemplates, CompileProgram, RunProgram, SaveTeacher, FailDocuments
  <2>5. \A j \in Job : pending[j] = "none"
    BY <1>1 DEF Stopped
  <2>6. \A g \in Group : ~BuildExamPipeline(g) /\ ~MergeOutputs(g) /\ ~StartDocuments(g)
    BY <1>1 DEF Stopped, BuildExamPipeline, MergeOutputs, StartDocuments
  <2>7. ~FxStep
    BY <2>5, <2>6, JobFacts
       DEF FxStep, ShowDiagnostic, CountDone, SetException, BuildProgramPipelines, StartRun,
           DeliverOutput
  <2>. QED  BY <1>1, <2>4, <2>7 DEF Next, AtRest
<1>2. Inv /\ [Next]_vars => [Stopped => UNCHANGED vars]_vars
  BY <1>1
<1>. QED  BY <1>2, Invariance, PTL DEF Spec

-----------------------------------------------------------------------------
(***************************************************************************)
(* Every step uses up something of what the task can still do.             *)
(***************************************************************************)

\* The steps a callback that is pending is from the last of its promise.
CallbacksLeft(c) ==
  CASE c = "diagnostic" -> 4
    [] c = "count"      -> 3
    [] c = "then"       -> 2
    [] c = "exception"  -> 1
    [] OTHER            -> 0

\* The steps a job has ahead at most, with callback c pending: to be submitted, to be
\* started, to end, and then the callbacks of its promise.
Left(state, c) ==
  CASE state = "idle"    -> 7
    [] state = "queued"  -> 6
    [] state = "running" -> 5
    [] OTHER             -> CallbacksLeft(c)

\* The steps an exam pipeline has ahead at most.
Waits(stage) ==
  CASE stage = "unbuilt" -> 3
    [] stage = "waiting" -> 2
    [] stage = "merged"  -> 1
    [] OTHER             -> 0

JobSteps   == {x \in Job \X (1 .. 7) : x[2] <= Left(job[x[1]], pending[x[1]])}
ExamSteps  == {x \in Group \X (1 .. 3) : x[2] <= Waits(exam[x[1]])}
Unsaved    == {x \in Group \X Variant : x[2] \notin saved[x[1]]}
StepsAhead == Cardinality(JobSteps) + Cardinality(ExamSteps) + Cardinality(Unsaved)

\* The steps ahead are numbers.
LEMMA LeftType ==
  /\ \A c : CallbacksLeft(c) \in 0 .. 4
  /\ \A state, c : Left(state, c) \in 0 .. 7
  /\ \A stage : Waits(stage) \in 0 .. 3
<1>1. ASSUME NEW c PROVE CallbacksLeft(c) \in 0 .. 4
  BY DEF CallbacksLeft
<1>2. ASSUME NEW state, NEW c PROVE Left(state, c) \in 0 .. 7
  BY <1>1 DEF Left
<1>3. ASSUME NEW stage PROVE Waits(stage) \in 0 .. 3
  BY DEF Waits
<1>. QED  BY <1>1, <1>2, <1>3

\* No job, no exam pipeline and no document goes back.
NoneGoesBack ==
  /\ \A j \in Job : Left(job'[j], pending'[j]) <= Left(job[j], pending[j])
  /\ \A g \in Group : Waits(exam'[g]) <= Waits(exam[g])
  /\ \A g \in Group : saved[g] \subseteq saved'[g]

\* One of them goes on.
OneGoesOn ==
  \/ \E j \in Job : Left(job'[j], pending'[j]) < Left(job[j], pending[j])
  \/ \E g \in Group : Waits(exam'[g]) < Waits(exam[g])
  \/ \E g \in Group : saved'[g] # saved[g]

\* A step that moves one job on and no other.
LEMMA OneJobMoves ==
  ASSUME NEW k \in Job, Left(job'[k], pending'[k]) < Left(job[k], pending[k]),
         \A j \in Job : j # k => job'[j] = job[j] /\ pending'[j] = pending[j],
         exam' = exam, \A g \in Group : saved[g] \subseteq saved'[g]
  PROVE  NoneGoesBack /\ OneGoesOn
<1>1. ASSUME NEW j \in Job PROVE Left(job'[j], pending'[j]) <= Left(job[j], pending[j])
  <2>1. CASE j = k
    BY <2>1, LeftType
  <2>2. CASE j # k
    <3>1. Left(job'[j], pending'[j]) = Left(job[j], pending[j])
      BY <2>2 DEF Left
    <3>. QED  BY <3>1, LeftType
  <2>. QED  BY <2>1, <2>2
<1>2. ASSUME NEW g \in Group PROVE Waits(exam'[g]) <= Waits(exam[g])
  <2>1. Waits(exam'[g]) = Waits(exam[g])
    BY DEF Waits
  <2>. QED  BY <2>1, LeftType
<1>. QED  BY <1>1, <1>2 DEF NoneGoesBack, OneGoesOn

\* A step that moves one exam pipeline on, and submits jobs that were idle.
LEMMA OneExamMoves ==
  ASSUME NEW h \in Group, Waits(exam'[h]) < Waits(exam[h]),
         \A g \in Group : g # h => exam'[g] = exam[g],
         \A j \in Job : job'[j] = job[j] \/ (job[j] = "idle" /\ job'[j] = "queued"),
         pending' = pending, saved' = saved
  PROVE  NoneGoesBack /\ OneGoesOn
<1>1. ASSUME NEW j \in Job PROVE Left(job'[j], pending'[j]) <= Left(job[j], pending[j])
  <2>1. CASE job'[j] = job[j]
    <3>1. Left(job'[j], pending'[j]) = Left(job[j], pending[j])
      BY <2>1 DEF Left
    <3>. QED  BY <3>1, LeftType
  <2>2. CASE job[j] = "idle" /\ job'[j] = "queued"
    BY <2>2 DEF Left
  <2>. QED  BY <2>1, <2>2
<1>2. ASSUME NEW g \in Group PROVE Waits(exam'[g]) <= Waits(exam[g])
  <2>1. CASE g = h
    BY <2>1, LeftType
  <2>2. CASE g # h
    <3>1. Waits(exam'[g]) = Waits(exam[g])
      BY <2>2 DEF Waits
    <3>. QED  BY <3>1, LeftType
  <2>. QED  BY <2>1, <2>2
<1>. QED  BY <1>1, <1>2 DEF NoneGoesBack, OneGoesOn

\* A callback of a job that is over is followed by a later one, or is its last.
LEMMA CallbackMoves ==
  ASSUME Inv, TypeOK', NEW k \in Job, pending[k] # "none",
         CallbacksLeft(pending'[k]) < CallbacksLeft(pending[k]), job'[k] = job[k]
  PROVE  Left(job'[k], pending'[k]) < Left(job[k], pending[k])
<1>1. job[k] \in Resolved \cup {"thrown"}
  BY DEF Inv, CallbacksFit, TypeOK, Callback
<1>2. /\ Left(job[k], pending[k]) = CallbacksLeft(pending[k])
      /\ Left(job'[k], pending'[k]) = CallbacksLeft(pending'[k])
  BY <1>1 DEF Left, Resolved
<1>. QED  BY <1>2

\* The callbacks that call supplyAsync use themselves up, also when it refuses.
LEMMA SubmissionMoves ==
  ASSUME Inv, TypeOK', NEW js \in SUBSET Job, Supplies(js), exam' = exam,
         NEW k \in Job, pending[k] = "then", pending' = [pending EXCEPT ![k] = "none"]
  PROVE  NoneGoesBack /\ OneGoesOn
<1>1. \A j \in Job : job'[j] = job[j] \/ (job[j] = "idle" /\ job'[j] = "queued")
  BY SupplyAsyncJobs DEF Supplies, Inv
<1>2. job[k] \in Resolved /\ saved' = saved
  BY DEF Inv, CallbacksFit, Supplies
<1>3. pending'[k] = "none" /\ \A j \in Job : j # k => pending'[j] = pending[j]
  BY DEF Inv, TypeOK
<1>4. Left(job'[k], pending'[k]) < Left(job[k], pending[k])
  <2>1. job'[k] = job[k]
    BY <1>1, <1>2 DEF Resolved
  <2>. QED  BY <1>3, <2>1, CallbackMoves DEF CallbacksLeft
<1>5. ASSUME NEW j \in Job PROVE Left(job'[j], pending'[j]) <= Left(job[j], pending[j])
  <2>1. CASE j = k
    BY <1>4, <2>1, LeftType
  <2>2. CASE j # k /\ job'[j] = job[j]
    <3>1. Left(job'[j], pending'[j]) = Left(job[j], pending[j])
      BY <1>3, <2>2 DEF Left
    <3>. QED  BY <3>1, LeftType
  <2>3. CASE job[j] = "idle" /\ job'[j] = "queued"
    BY <2>3 DEF Left
  <2>. QED  BY <1>1, <2>1, <2>2, <2>3
<1>6. ASSUME NEW g \in Group PROVE Waits(exam'[g]) <= Waits(exam[g])
  <2>1. Waits(exam'[g]) = Waits(exam[g])
    BY DEF Waits
  <2>. QED  BY <2>1, LeftType
<1>. QED  BY <1>2, <1>4, <1>5, <1>6 DEF NoneGoesBack, OneGoesOn

\* Documents are added, never taken away.
LEMMA DocumentsStay ==
  ASSUME Inv, WorkerStep
  PROVE  \A g \in Group : saved[g] \subseteq saved'[g]
<1>1. ASSUME NEW h \in Group, SaveStudent(h) \/ SaveTeacher(h)
      PROVE  \A g \in Group : saved[g] \subseteq saved'[g]
  <2>1. saved[h] \subseteq Variant /\ saved[h] \subseteq saved'[h]
    BY <1>1 DEF SaveStudent, SaveTeacher, Inv, TypeOK, Variant
  <2>2. \A g \in Group : g # h => saved'[g] = saved[g]
    BY <1>1 DEF SaveStudent, SaveTeacher, Inv, TypeOK
  <2>. QED  BY <2>1, <2>2
<1>2. CASE saved' = saved
  BY <1>2
<1>. QED
  BY <1>1, <1>2 DEF WorkerStep, WorkerEnds, LoadTemplates, CompileProgram, RunProgram,
                    FailDocuments, Hang, Start

\* A worker moves a job on or saves a document.
LEMMA WorkerMoves ==
  ASSUME Inv, TypeOK', WorkerStep
  PROVE  NoneGoesBack /\ OneGoesOn
<1>. USE DEF Inv, TypeOK
<1>1. \A g \in Group : saved[g] \subseteq saved'[g]
  BY DocumentsStay
<1>2. ASSUME NEW j \in Job, NEW result, NEW next, Ends(j, result, next)
      PROVE  NoneGoesBack /\ OneGoesOn
  <2>1. /\ job[j] = "running" /\ job'[j] = result /\ pending'[j] = next /\ exam' = exam
        /\ \A k \in Job : k # j => job'[k] = job[k] /\ pending'[k] = pending[k]
    BY <1>2 DEF Ends, Finish
  <2>2. result \in Resolved \cup {"thrown"}
    BY <1>2 DEF Ends
  <2>3. Left(job'[j], pending'[j]) = CallbacksLeft(next) /\ Left(job[j], pending[j]) = 5
    BY <2>1, <2>2 DEF Left, Resolved
  <2>4. Left(job'[j], pending'[j]) < Left(job[j], pending[j])
    BY <2>3, LeftType
  <2>. QED  BY <1>1, <2>1, <2>4, OneJobMoves
<1>3. ASSUME NEW j \in Job, Start(j) \/ Hang(j) PROVE NoneGoesBack /\ OneGoesOn
  <2>1. /\ exam' = exam /\ pending' = pending
        /\ \/ job[j] = "queued" /\ job'[j] = "running"
           \/ job[j] = "running" /\ job'[j] = "hung"
        /\ \A k \in Job : k # j => job'[k] = job[k]
    BY <1>3 DEF Start, Hang
  <2>2. Left(job'[j], pending'[j]) < Left(job[j], pending[j])
    BY <2>1, LeftType DEF Left
  <2>. QED  BY <1>1, <2>1, <2>2, OneJobMoves
<1>4. ASSUME NEW h \in Group, SaveStudent(h) PROVE NoneGoesBack /\ OneGoesOn
  <2>1. saved[h] = {} /\ saved'[h] = {"STUDENT"} /\ UNCHANGED <<job, pending, exam>>
    BY <1>4 DEF SaveStudent
  <2>2. /\ \A j \in Job : Left(job'[j], pending'[j]) = Left(job[j], pending[j])
        /\ \A g \in Group : Waits(exam'[g]) = Waits(exam[g])
    BY <2>1 DEF Left, Waits
  <2>3. saved'[h] # saved[h]
    BY <2>1
  <2>. QED  BY <1>1, <2>2, <2>3, LeftType DEF NoneGoesBack, OneGoesOn
<1>. QED  BY <1>2, <1>3, <1>4, WorkerShapes DEF WorkerShape

\* A callback moves its job or its exam pipeline on.
LEMMA FxMoves ==
  ASSUME Inv, TypeOK', FxStep
  PROVE  NoneGoesBack /\ OneGoesOn
<1>. USE DEF Inv, TypeOK
<1>1. ASSUME NEW j \in Job, ShowDiagnostic(j) \/ CountDone(j) \/ SetException(j)
      PROVE  NoneGoesBack /\ OneGoesOn
  <2>1. /\ UNCHANGED <<job, exam, saved>> /\ pending[j] # "none"
        /\ \A k \in Job : k # j => pending'[k] = pending[k]
    BY <1>1 DEF ShowDiagnostic, CountDone, SetException
  <2>2. CallbacksLeft(pending'[j]) < CallbacksLeft(pending[j])
    BY <1>1 DEF ShowDiagnostic, CountDone, SetException, CallbacksLeft
  <2>. QED  BY <2>1, <2>2, CallbackMoves, OneJobMoves
<1>2. CASE BuildProgramPipelines
  <2>1. Supplies(CompileJob) /\ CompileJob \in SUBSET Job /\ Load \in Job
    BY <1>2, CallersSupply, JobFacts
  <2>2. exam' = exam /\ pending[Load] = "then" /\ pending' = [pending EXCEPT ![Load] = "none"]
    BY <1>2 DEF BuildProgramPipelines
  <2>. QED  BY <2>1, <2>2, SubmissionMoves
<1>3. ASSUME NEW p \in Program, NEW g \in Group, StartRun(p, g)
      PROVE  NoneGoesBack /\ OneGoesOn
  <2>1. Supplies({Run(p, g)}) /\ {Run(p, g)} \in SUBSET Job /\ Compile(p, g) \in Job
    BY <1>3, CallersSupply, JobFacts
  <2>2. /\ exam' = exam /\ pending[Compile(p, g)] = "then"
        /\ pending' = [pending EXCEPT ![Compile(p, g)] = "none"]
    BY <1>3 DEF StartRun
  <2>. QED  BY <2>1, <2>2, SubmissionMoves
<1>4. ASSUME NEW p \in Program, NEW g \in Group, DeliverOutput(p, g)
      PROVE  NoneGoesBack /\ OneGoesOn
  <2>. DEFINE j == Run(p, g)
  <2>1. j \in Job
    BY JobFacts
  <2>2. /\ UNCHANGED <<job, exam, saved>> /\ pending[j] = "then"
        /\ pending' = [pending EXCEPT ![j] = "none"]
    BY <1>4 DEF DeliverOutput
  <2>. HIDE DEF j
  <2>3. pending'[j] = "none" /\ \A k \in Job : k # j => pending'[k] = pending[k]
    BY <2>1, <2>2
  <2>4. CallbacksLeft(pending'[j]) < CallbacksLeft(pending[j])
    BY <2>2, <2>3 DEF CallbacksLeft
  <2>. QED  BY <2>1, <2>2, <2>3, <2>4, CallbackMoves, OneJobMoves
<1>5. ASSUME NEW g \in Group, BuildExamPipeline(g) \/ MergeOutputs(g)
      PROVE  NoneGoesBack /\ OneGoesOn
  <2>1. /\ UNCHANGED <<job, pending, saved>> /\ \A h \in Group : h # g => exam'[h] = exam[h]
        /\ \/ exam[g] = "unbuilt" /\ exam'[g] = "waiting"
           \/ exam[g] = "waiting" /\ exam'[g] \in {"rejected", "merged"}
    BY <1>5 DEF BuildExamPipeline, MergeOutputs
  <2>2. Waits(exam'[g]) < Waits(exam[g])
    BY <2>1 DEF Waits
  <2>. QED  BY <2>1, <2>2, OneExamMoves
<1>6. ASSUME NEW g \in Group, StartDocuments(g) PROVE NoneGoesBack /\ OneGoesOn
  <2>1. Supplies({Docs(g)}) /\ {Docs(g)} \in SUBSET Job
    BY <1>6, CallersSupply, JobFacts
  <2>2. \A j \in Job : job'[j] = job[j] \/ (job[j] = "idle" /\ job'[j] = "queued")
    BY <2>1, SupplyAsyncJobs DEF Supplies
  <2>3. /\ pending' = pending /\ saved' = saved /\ \A h \in Group : h # g => exam'[h] = exam[h]
        /\ exam[g] = "merged" /\ exam'[g] \in {"submitted", "rejected"}
    BY <1>6 DEF StartDocuments
  <2>4. Waits(exam'[g]) < Waits(exam[g])
    BY <2>3 DEF Waits
  <2>. QED  BY <2>2, <2>3, <2>4, OneExamMoves
<1>. QED  BY <1>1, <1>2, <1>3, <1>4, <1>5, <1>6 DEF FxStep

\* There are finitely many steps ahead.
LEMMA StepsAreFinite ==
  IsFiniteSet(JobSteps) /\ IsFiniteSet(ExamSteps) /\ IsFiniteSet(Unsaved)
<1>1. IsFiniteSet(1 .. 7) /\ IsFiniteSet(1 .. 3)
  <2>1. \A a, b \in Int : IsFiniteSet(a .. b)
    BY FS_Interval
  <2>2. 1 \in Int /\ 3 \in Int /\ 7 \in Int
    OBVIOUS
  <2>. QED  BY <2>1, <2>2, Zenon
<1>2. IsFiniteSet(Variant)
  <2>1. Variant = {"STUDENT"} \cup {"TEACHER"}
    BY DEF Variant
  <2>2. IsFiniteSet({"STUDENT"}) /\ IsFiniteSet({"TEACHER"})
    BY FS_Singleton
  <2>. QED  BY <2>1, <2>2, FS_Union
<1>3. IsFiniteSet(Job \X (1 .. 7)) /\ IsFiniteSet(Group \X (1 .. 3)) /\ IsFiniteSet(Group \X Variant)
  BY <1>1, <1>2, JobFinite, ConstantsAssumption, FS_Product DEF ConstantsAssumption
<1>. QED  BY <1>3, FS_Subset DEF JobSteps, ExamSteps, Unsaved

\* The steps ahead become fewer when one thing goes on and none goes back.
LEMMA FewerAhead ==
  ASSUME NoneGoesBack, OneGoesOn, TypeOK, TypeOK'
  PROVE  StepsAhead' < StepsAhead
<1>1. JobSteps' \subseteq JobSteps
  BY LeftType DEF NoneGoesBack, JobSteps
<1>2. ExamSteps' \subseteq ExamSteps
  BY LeftType DEF NoneGoesBack, ExamSteps
<1>3. Unsaved' \subseteq Unsaved
  BY DEF NoneGoesBack, Unsaved
<1>4. JobSteps' # JobSteps \/ ExamSteps' # ExamSteps \/ Unsaved' # Unsaved
  <2>1. ASSUME NEW j \in Job, Left(job'[j], pending'[j]) < Left(job[j], pending[j])
        PROVE  JobSteps' # JobSteps
    <3>. DEFINE x == <<j, Left(job[j], pending[j])>>
    <3>1. x \in JobSteps /\ x \notin JobSteps'
      BY <2>1, LeftType DEF JobSteps
    <3>. QED  BY <3>1
  <2>2. ASSUME NEW g \in Group, Waits(exam'[g]) < Waits(exam[g]) PROVE ExamSteps' # ExamSteps
    <3>. DEFINE x == <<g, Waits(exam[g])>>
    <3>1. x \in ExamSteps /\ x \notin ExamSteps'
      BY <2>2, LeftType DEF ExamSteps
    <3>. QED  BY <3>1
  <2>3. ASSUME NEW g \in Group, saved'[g] # saved[g] PROVE Unsaved' # Unsaved
    <3>1. PICK v \in Variant : v \in saved'[g] /\ v \notin saved[g]
      BY <2>3 DEF NoneGoesBack, TypeOK
    <3>2. <<g, v>> \in Unsaved /\ <<g, v>> \notin Unsaved'
      BY <3>1 DEF Unsaved
    <3>. QED  BY <3>2
  <2>. QED  BY <2>1, <2>2, <2>3 DEF OneGoesOn
<1>5. ASSUME NEW S, IsFiniteSet(S), NEW T \in SUBSET S
      PROVE  /\ Cardinality(S) \in Nat /\ Cardinality(T) \in Nat /\ Cardinality(T) <= Cardinality(S)
             /\ T # S => Cardinality(T) # Cardinality(S)
  BY <1>5, FS_Subset, FS_CardinalityType
<1>. QED  BY <1>1, <1>2, <1>3, <1>4, <1>5, StepsAreFinite DEF StepsAhead

\* Every step of a thread leaves fewer steps ahead, whatever the interleaving and whatever
\* fails: no callback and no job comes twice, and a task of any size ends after so many.
THEOREM StepsAreUsedUp == Spec => [](StepsAhead \in Nat) /\ [][StepsAhead' < StepsAhead]_vars
<1>1. ASSUME Inv, TypeOK', [Next]_vars PROVE [StepsAhead' < StepsAhead]_vars
  BY <1>1, WorkerMoves, FxMoves, FewerAhead DEF Next, AtRest, Inv
<1>2. StepsAhead \in Nat
  BY StepsAreFinite, FS_CardinalityType DEF StepsAhead
<1>. QED  BY <1>1, <1>2, Invariance, TypeCorrect, PTL DEF Spec

-----------------------------------------------------------------------------
(***************************************************************************)
(* The pipeline implements TaskLifecycle.                                  *)
(***************************************************************************)
DocsBar == [g \in Group |-> DocumentsStage(g)]

\* getState, case by case.
LEMMA StateCases ==
  /\ State \in {"RUNNING", "SUCCEEDED", "FAILED"}
  /\ State = "FAILED" <=> exception # None
BY DEF State

\* A step that neither touches documents nor a document job changes at most the
\* state shown, and that as the abstract task allows.
LEMMA QuietStep ==
  ASSUME Inv, Inv', saved' = saved, DocsBar' = DocsBar,
         \/ exception' = exception
         \/ \E j \in Job : pending[j] = "exception" /\ exception' = j
  PROVE  [Lifecycle!Next]_(Lifecycle!vars)
<1>1. SucceededMeansIdle /\ SucceededMeansIdle'
  BY InvImpliesSucceededMeansIdle, PTL
<1>2. State' \in {"RUNNING", "SUCCEEDED", "FAILED"} /\ (State' = "FAILED" <=> exception' # None)
  BY DEF State
<1>3. CASE exception' = exception
  <2>1. CASE State = State'
    BY <2>1 DEF Lifecycle!vars, DocsBar
  <2>2. CASE State = "RUNNING" /\ State' = "SUCCEEDED"
    <3>1. \A g \in Group : DocumentsStage(g)' # "open"
      BY <1>1, <2>2, JobFacts DEF SucceededMeansIdle, DocumentsStage
    <3>2. \A g \in Group : DocsBar[g] # "open"
      BY <3>1 DEF DocsBar
    <3>. QED  BY <2>2, <3>2 DEF Lifecycle!Next, Lifecycle!Settle, DocsBar
  <2>3. CASE State = "SUCCEEDED" /\ State' = "RUNNING"
    BY <2>3 DEF Lifecycle!Next, Lifecycle!Resume, DocsBar
  <2>. QED  BY <1>2, <1>3, <2>1, <2>2, <2>3, StateCases
<1>4. ASSUME NEW j \in Job, pending[j] = "exception", exception' = j
      PROVE  [Lifecycle!Next]_(Lifecycle!vars)
  <2>1. State' = "FAILED"
    BY <1>2, <1>4, ConstantsAssumption DEF ConstantsAssumption
  <2>2. State # "SUCCEEDED"
    BY <1>1, <1>4 DEF Inv, CallbacksFit, SucceededMeansIdle
  <2>3. CASE State = "FAILED"
    BY <2>1, <2>3 DEF Lifecycle!vars, DocsBar
  <2>4. CASE State = "RUNNING"
    BY <2>1, <2>4 DEF Lifecycle!Next, Lifecycle!Fail, DocsBar
  <2>. QED  BY <2>2, <2>3, <2>4, StateCases
<1>. QED  BY <1>3, <1>4

\* A step that changes no job of documents leaves the abstract documents alone.
LEMMA SameDocuments ==
  ASSUME \A g \in Group : job'[Docs(g)] = job[Docs(g)]
  PROVE  DocsBar' = DocsBar
BY DEF DocsBar, DocumentsStage

\* The steps on documents are those of the abstract task.
LEMMA DocumentSteps ==
  ASSUME Inv, Inv', NEW g \in Group,
         SaveStudent(g) \/ SaveTeacher(g) \/ FailDocuments(g) \/ (StartDocuments(g) /\ MaySupply)
  PROVE  Lifecycle!Next
<1>1. SucceededMeansIdle /\ SucceededMeansIdle'
  BY InvImpliesSucceededMeansIdle, PTL
<1>2. Docs(g) \in Job /\ \A h \in Group : Docs(h) \in Job /\ (Docs(h) = Docs(g) => h = g)
  BY JobFacts
<1>3. job \in [Job -> JobState]
  BY DEF Inv, TypeOK
<1>4. CASE SaveStudent(g)
  <2>1. State # "SUCCEEDED" /\ State' = State
    BY <1>1, <1>2, <1>4 DEF SaveStudent, SucceededMeansIdle, State
  <2>2. DocsBar' = DocsBar /\ DocsBar[g] = "open"
    BY <1>2, <1>4, SameDocuments DEF SaveStudent, DocsBar, DocumentsStage
  <2>3. Lifecycle!SaveStudent(g)
    BY <1>4, <2>1, <2>2 DEF SaveStudent, Lifecycle!SaveStudent, DocsBar
  <2>. QED  BY <2>3 DEF Lifecycle!Next
<1>5. ASSUME NEW result \in {"ok", "thrown"}, NEW next, Finish(Docs(g), result, next)
      PROVE  /\ State # "SUCCEEDED" /\ State' = State
             /\ DocsBar[g] = "open"
             /\ DocsBar' = [DocsBar EXCEPT ![g] = "closed"]
  <2>1. State # "SUCCEEDED" /\ State' = State
    BY <1>1, <1>2, <1>5 DEF Finish, SucceededMeansIdle, State
  <2>2. DocumentsStage(g) = "open" /\ DocumentsStage(g)' = "closed"
    BY <1>2, <1>3, <1>5 DEF Finish, DocumentsStage
  <2>3. \A h \in Group : h # g => DocumentsStage(h)' = DocumentsStage(h)
    BY <1>2, <1>3, <1>5 DEF Finish, DocumentsStage
  <2>. QED  BY <2>1, <2>2, <2>3 DEF DocsBar
<1>6. CASE SaveTeacher(g)
  <2>1. Lifecycle!SaveTeacher(g)
    BY <1>5, <1>6 DEF SaveTeacher, Variant, Lifecycle!SaveTeacher, DocsBar
  <2>. QED  BY <2>1 DEF Lifecycle!Next
<1>7. CASE FailDocuments(g)
  <2>1. Lifecycle!AbandonDocuments(g)
    BY <1>5, <1>7 DEF FailDocuments, Lifecycle!AbandonDocuments, DocsBar
  <2>. QED  BY <2>1 DEF Lifecycle!Next
<1>8. CASE StartDocuments(g) /\ MaySupply
  <2>1. job[Docs(g)] = "idle"
    BY <1>8 DEF StartDocuments, Inv, StagesInOrder
  <2>2. job' = [j \in Job |-> IF j \in {Docs(g)} THEN "queued" ELSE job[j]]
    BY <1>8 DEF StartDocuments, SupplyAsync, SupplyRefused
  <2>3. State # "FAILED" /\ State' = "RUNNING"
    BY <1>1, <1>2, <1>8, <2>2 DEF StartDocuments, MaySupply, State, SucceededMeansIdle
  <2>4. DocumentsStage(g) = "unopened" /\ DocumentsStage(g)' = "open"
    BY <1>2, <2>1, <2>2 DEF DocumentsStage
  <2>5. \A h \in Group : h # g => DocumentsStage(h)' = DocumentsStage(h)
    BY <1>2, <2>2 DEF DocumentsStage
  <2>6. DocsBar[g] = "unopened" /\ DocsBar' = [DocsBar EXCEPT ![g] = "open"]
    BY <2>4, <2>5 DEF DocsBar
  <2>7. Lifecycle!OpenDocuments(g)
    BY <1>8, <2>3, <2>6 DEF StartDocuments, Lifecycle!OpenDocuments, DocsBar
  <2>. QED  BY <2>7 DEF Lifecycle!Next
<1>. QED  BY <1>4, <1>6, <1>7, <1>8

\* Every step of the pipeline is a step of the abstract task or a stutter.
LEMMA StepImplements ==
  ASSUME Inv, Inv', [Next]_vars
  PROVE  [Lifecycle!Next]_(Lifecycle!vars)
<1>. DEFINE Goal == [Lifecycle!Next]_(Lifecycle!vars)
<1>. HIDE DEF Goal
<1>1. ASSUME saved' = saved, \A g \in Group : job'[Docs(g)] = job[Docs(g)],
             \/ exception' = exception
             \/ \E j \in Job : pending[j] = "exception" /\ exception' = j
      PROVE  Goal
  BY <1>1, SameDocuments, QuietStep DEF Goal
<1>2. job \in [Job -> JobState] /\ \A g \in Group : Docs(g) \in Job
  BY JobFacts DEF Inv, TypeOK
<1>3. ASSUME NEW j \in Job, NEW result, NEW next, Finish(j, result, next), j \notin DocsJob, saved' = saved
      PROVE  Goal
  BY <1>1, <1>2, <1>3, JobFacts DEF Finish
<1>4. ASSUME LoadTemplates PROVE Goal
  BY <1>3, <1>4, JobFacts DEF LoadTemplates
<1>5. ASSUME NEW p \in Program, NEW g \in Group, CompileProgram(p, g) PROVE Goal
  <2>1. PICK result, next : Ends(Compile(p, g), result, next)
    BY <1>5, CompileEnds
  <2>2. saved' = saved
    BY <1>5 DEF CompileProgram
  <2>. QED  BY <1>3, <2>1, <2>2, JobFacts DEF Ends
<1>6. ASSUME NEW p \in Program, NEW g \in Group, RunProgram(p, g) PROVE Goal
  <2>1. PICK result, next : Ends(Run(p, g), result, next)
    BY <1>6, RunEnds
  <2>2. saved' = saved
    BY <1>6 DEF RunProgram
  <2>. QED  BY <1>3, <2>1, <2>2, JobFacts DEF Ends
<1>7. ASSUME NEW g \in Group, SaveStudent(g) \/ SaveTeacher(g) \/ FailDocuments(g) PROVE Goal
  BY <1>7, DocumentSteps DEF Goal
<1>8. ASSUME NEW j \in Job, Hang(j) PROVE Goal
  <2>1. j \notin DocsJob
    BY <1>8, JobFacts DEF Hang
  <2>. QED  BY <1>1, <1>2, <1>8, <2>1, JobFacts DEF Hang
<1>9. ASSUME NEW j \in Job, Start(j) PROVE Goal
  <2>1. \A g \in Group : DocumentsStage(g)' = DocumentsStage(g)
    BY <1>2, <1>9 DEF Start, DocumentsStage
  <2>. QED  BY <1>9, <2>1, QuietStep DEF Start, DocsBar, Goal
<1>10. ASSUME NEW j \in Job, ShowDiagnostic(j) \/ CountDone(j) \/ SetException(j) PROVE Goal
  BY <1>1, <1>10 DEF ShowDiagnostic, CountDone, SetException
<1>11. ASSUME NEW js \in SUBSET Job, Supplies(js), js \cap DocsJob = {} PROVE Goal
  BY <1>1, <1>2, <1>11, SupplyAsyncJobs, JobFacts DEF Supplies, Inv
<1>12. ASSUME BuildProgramPipelines PROVE Goal
  <2>1. CompileJob \in SUBSET Job /\ CompileJob \cap DocsJob = {}
    BY JobFacts
  <2>. QED  BY <1>11, <1>12, <2>1, CallersSupply
<1>13. ASSUME NEW p \in Program, NEW g \in Group, StartRun(p, g) PROVE Goal
  <2>1. {Run(p, g)} \in SUBSET Job /\ {Run(p, g)} \cap DocsJob = {}
    BY JobFacts
  <2>. QED  BY <1>11, <1>13, <2>1, CallersSupply
<1>14. ASSUME NEW g \in Group, StartDocuments(g) PROVE Goal
  <2>1. CASE MaySupply
    BY <1>14, <2>1, DocumentSteps DEF Goal
  <2>2. CASE ~MaySupply
    BY <1>1, <1>14, <2>2 DEF StartDocuments, SupplyAsync, SupplyRefused
  <2>. QED  BY <2>1, <2>2
<1>15. ASSUME NEW p \in Program, NEW g \in Group, DeliverOutput(p, g) PROVE Goal
  BY <1>1, <1>15 DEF DeliverOutput
<1>16. ASSUME NEW g \in Group, BuildExamPipeline(g) \/ MergeOutputs(g) PROVE Goal
  BY <1>1, <1>16 DEF BuildExamPipeline, MergeOutputs
<1>17. ASSUME UNCHANGED vars PROVE Goal
  BY <1>1, <1>17 DEF vars
<1>18. Goal
  BY <1>4, <1>5, <1>6, <1>7, <1>8, <1>9, <1>10, <1>12, <1>13, <1>14, <1>15, <1>16, <1>17
     DEF Next, AtRest, WorkerStep, WorkerEnds, FxStep
<1>. QED  BY <1>18 DEF Goal

\* The task of the promises is the task the window and the workspace see, for
\* any programs, groups and number of worker threads.
THEOREM LifecycleImplemented == Spec => ImplementsLifecycle
<1>1. Init => Lifecycle!Init
  <2>. SUFFICES ASSUME Init PROVE Lifecycle!Init
    OBVIOUS
  <2>1. State = "RUNNING"
    BY DEF Init, State
  <2>2. \A g \in Group : DocumentsStage(g) = "unopened"
    BY JobFacts DEF Init, DocumentsStage
  <2>. QED  BY <2>1, <2>2 DEF Init, Lifecycle!Init
<1>2. Inv /\ Inv' /\ [Next]_vars => [Lifecycle!Next]_(Lifecycle!vars)
  BY StepImplements
<1>. QED  BY <1>1, <1>2, Invariance, PTL DEF Spec, ImplementsLifecycle, Lifecycle!Spec

-----------------------------------------------------------------------------
(***************************************************************************)
(* The views leave the task alone: what is proved of the task without its  *)
(* window holds of the task under it.                                      *)
(***************************************************************************)

\* A callback that a view registers on a promise of the task changes no variable of
\* the task, and the window lets the task take only its own steps.
THEOREM ViewsLeaveTheTask == ViewSpec => Spec
<1>1. ViewInit => Init
  BY DEF ViewInit
<1>2. [ViewNext]_<<vars, view>> => [Next]_vars
  <2>. SUFFICES ASSUME ViewNext PROVE [Next]_vars
    OBVIOUS
  <2>1. CASE ShowTabs
    BY <2>1 DEF ShowTabs
  <2>2. ASSUME NEW p \in Program, NEW g \in Group, ShowOutput(p, g) PROVE UNCHANGED vars
    BY <2>2 DEF ShowOutput
  <2>. QED  BY <2>1, <2>2 DEF ViewNext, ViewStep
<1>. QED  BY <1>1, <1>2, PTL DEF ViewSpec, Spec

\* Under the window, too, the task is the one the workspace and the window see.
THEOREM ViewedTaskImplementsLifecycle == ViewSpec => ImplementsLifecycle
BY ViewsLeaveTheTask, LifecycleImplemented, PTL

\* Under the window, too, a task stops with what it can have achieved.
THEOREM ViewedTaskStopsWithOutcome == ViewSpec => []StoppedOutcome
BY ViewsLeaveTheTask, StopsWithOutcome, PTL

-----------------------------------------------------------------------------
(***************************************************************************)
(* What the tabs show.                                                     *)
(***************************************************************************)

\* A tab shows an output only of a run that ended with one, and it is there for each
\* program and group of a task whose templates were loaded, or for none.
ViewFits ==
  /\ tabs = {} \/ (tabs = Program \X Group /\ Delivered(Load))
  /\ shown \subseteq tabs
  /\ \A p \in Program, g \in Group : <<p, g>> \in shown => job[Run(p, g)] = "ok"

\* What a tab shows it has from a run that ended well, and no later step of the task
\* changes what that run ended with.
THEOREM ShownComesFromRuns == ViewSpec => []ViewFits
<1>1. ViewInit => ViewFits
  BY DEF ViewInit, ViewFits
<1>2. Inv /\ ViewFits /\ [ViewNext]_<<vars, view>> => ViewFits'
  <2>. SUFFICES ASSUME Inv, ViewFits, [ViewNext]_<<vars, view>> PROVE ViewFits'
    OBVIOUS
  <2>1. CASE ShowTabs
    BY <2>1 DEF ShowTabs, ViewFits, vars, Delivered
  <2>2. ASSUME NEW p \in Program, NEW g \in Group, ShowOutput(p, g) PROVE ViewFits'
    <3>1. job' = job /\ pending' = pending /\ tabs' = tabs /\ shown' = shown \cup {<<p, g>>}
      BY <2>2 DEF ShowOutput, vars
    <3>2. <<p, g>> \in tabs /\ job[Run(p, g)] = "ok"
      BY <2>2 DEF ShowOutput
    <3>. QED  BY <3>1, <3>2 DEF ViewFits, Delivered
  <2>3. CASE [Next]_vars /\ UNCHANGED view
    <3>1. tabs' = tabs /\ shown' = shown
      BY <2>3 DEF view
    <3>2. Delivered(Load) => Delivered(Load)'
      BY <2>3, ResultsAreFinal, JobFacts
    <3>3. ASSUME NEW p \in Program, NEW g \in Group, <<p, g>> \in shown PROVE job'[Run(p, g)] = "ok"
      BY <2>3, <3>3, ResultsAreFinal, JobFacts DEF ViewFits, Resolved
    <3>. QED  BY <3>1, <3>2, <3>3 DEF ViewFits
  <2>4. ViewNext \/ UNCHANGED <<vars, view>>
    OBVIOUS
  <2>. QED  BY <2>1, <2>2, <2>3, <2>4 DEF ViewNext, ViewStep
<1>3. ViewSpec => []Inv
  BY ViewsLeaveTheTask, Invariance, PTL
<1>. QED  BY <1>1, <1>2, <1>3, PTL DEF ViewSpec
=============================================================================
