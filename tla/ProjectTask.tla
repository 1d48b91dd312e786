----------------------------- MODULE ProjectTask -----------------------------
(***************************************************************************)
(* One generation task of the graphical application: the pipeline that     *)
(* ui/model/ProjectTask.java builds out of promises, and the bookkeeping    *)
(* of ui/util/PromiseContext.java from which the task's progress and its   *)
(* RUNNING / FAILED / SUCCEEDED state are derived.                          *)
(*                                                                         *)
(* The suppliers handed to supplyAsync are the jobs: load the templates,   *)
(* compile and run each program for each group, generate the documents of  *)
(* each group.  They run on the worker threads of a ForkJoinPool.  Every   *)
(* promise callback and every diagnostic runs on the JavaFX application     *)
(* thread, one at a time, and only there do the counters, the exception    *)
(* and the list of diagnostics change.                                     *)
(*                                                                         *)
(* The promise library is not part of the repository.  Of it the model     *)
(* uses what the code relies on: the callbacks of one promise run in the   *)
(* order in which they were registered, after whatever the job's thread    *)
(* handed to Platform.runLater before it settled the promise; callbacks of *)
(* different promises run in any order; a callback that throws rejects the *)
(* promise derived from it, and the callbacks behind that promise never    *)
(* run.                                                                    *)
(***************************************************************************)
EXTENDS Naturals, FiniteSets

CONSTANTS
  Program,      \* ids of the program templates found in the workspace
  Group,        \* exam groups (the code builds Group.A and Group.B)
  Parallelism,  \* worker threads of the ForkJoinPool
  None          \* the null of PromiseContext.exception

(***************************************************************************)
(* A job is a pair of a stage and what the stage works on.                 *)
(***************************************************************************)
Load          == <<"load", None>>
Compile(p, g) == <<"compile", <<p, g>>>>
Run(p, g)     == <<"run", <<p, g>>>>
Docs(g)       == <<"docs", g>>

CompileJob == {"compile"} \X (Program \X Group)
RunJob     == {"run"} \X (Program \X Group)
DocsJob    == {"docs"} \X Group
Job        == {Load} \cup CompileJob \cup RunJob \cup DocsJob

ASSUME ConstantsAssumption ==
  /\ IsFiniteSet(Program)
  /\ IsFiniteSet(Group)
  /\ Parallelism \in Nat \ {0}
  /\ None \notin Job

(***************************************************************************)
(* What becomes of a job.  "failed" and "failedSilently" are compilations  *)
(* that returned a CompilerOutput without a program, with and without      *)
(* compiler messages; "null" is a program that ran and exited with a       *)
(* non-zero code, for which the code returns null; all of these, like      *)
(* "ok", resolve the job's promise.  "thrown" rejects it.  A "hung" job    *)
(* never returns and keeps its worker: neither compiler nor program has a  *)
(* time limit.                                                             *)
(***************************************************************************)
Resolved  == {"ok", "failed", "failedSilently", "null"}
JobState  == {"idle", "queued", "running", "hung", "thrown"} \cup Resolved

(***************************************************************************)
(* The next callback of a job's promise, or the diagnostic the job wrote,  *)
(* that the JavaFX thread still has to run.                                *)
(***************************************************************************)
Callback == {"none", "diagnostic", "count", "then", "exception"}

(***************************************************************************)
(* Stages of a group's exam pipeline.                                      *)
(***************************************************************************)
ExamStage == {"unbuilt", "waiting", "merged", "submitted", "rejected"}

Variant == {"STUDENT", "TEACHER"}

VARIABLES
  job,          \* state of each job
  pending,      \* callback of each job the JavaFX thread runs next
  exam,         \* stage of each group's exam pipeline
  workDone,     \* PromiseContext.workDone
  workTotal,    \* PromiseContext.workTotal
  exception,    \* PromiseContext.exception: the job that set it, or None
  diagnostics,  \* ProjectTask.diagnostics: pairs of a kind and the job it is about
  saved         \* documents each group has got from this task

vars == <<job, pending, exam, workDone, workTotal, exception, diagnostics, saved>>

-----------------------------------------------------------------------------
(***************************************************************************)
(* PromiseContext.                                                         *)
(***************************************************************************)

\* Mutation: supplyAsync without its checkState.
MaySupply_Unchecked == TRUE

\* The checkState at the head of supplyAsync.
MaySupply == exception = None

\* Mutation: one unit of work per callback instead of one per job.
SupplyAsync_OncePerCallback(js) ==
  /\ MaySupply
  /\ workTotal' = workTotal + 1
  /\ job' = [j \in Job |-> IF j \in js THEN "queued" ELSE job[j]]

\* supplyAsync called for each job of a set, by one callback.
SupplyAsync(js) ==
  /\ MaySupply
  /\ workTotal' = workTotal + Cardinality(js)
  /\ job' = [j \in Job |-> IF j \in js THEN "queued" ELSE job[j]]

\* checkState throws out of the callback: nothing is submitted.
SupplyRefused == ~MaySupply /\ UNCHANGED <<job, workTotal>>

\* ProjectTask.getState over the progress workDone / workTotal.
State ==
  IF exception # None THEN "FAILED"
  ELSE IF workDone = workTotal THEN "SUCCEEDED" ELSE "RUNNING"

\* The promise of j is settled and all its callbacks have run.
Delivered(j) == job[j] \in Resolved /\ pending[j] = "none"

-----------------------------------------------------------------------------
(***************************************************************************)
(* The worker threads.                                                     *)
(***************************************************************************)
Occupied == {j \in Job : job[j] \in {"running", "hung"}}

\* A worker takes a submitted job.
Start(j) ==
  /\ job[j] = "queued"
  /\ Cardinality(Occupied) < Parallelism
  /\ job' = [job EXCEPT ![j] = "running"]
  /\ UNCHANGED <<pending, exam, workDone, workTotal, exception, diagnostics, saved>>

\* The supplier of j ends; next is the first thing it leaves to the JavaFX thread.
Finish(j, result, next) ==
  /\ job[j] = "running"
  /\ job' = [job EXCEPT ![j] = result]
  /\ pending' = [pending EXCEPT ![j] = next]
  /\ UNCHANGED <<exam, workDone, workTotal, exception, diagnostics>>

\* loadProgramTemplates never throws: it stops at the first file it cannot read.
LoadTemplates == Finish(Load, "ok", "count") /\ UNCHANGED saved

\* Mutation: compiler messages are only reported when there is a program.
CompileProgram_ErrorsLost(p, g) ==
  /\ \E outcome \in {<<"ok", "count">>, <<"ok", "diagnostic">>, <<"failed", "count">>,
                     <<"failedSilently", "count">>, <<"thrown", "exception">>} :
       Finish(Compile(p, g), outcome[1], outcome[2])
  /\ UNCHANGED saved

\* compileProgramTemplate: a diagnostic is written when the compiler printed
\* anything; it throws when the compiler cannot be started.
CompileProgram(p, g) ==
  /\ \E outcome \in {<<"ok", "count">>, <<"ok", "diagnostic">>, <<"failed", "diagnostic">>,
                     <<"failedSilently", "count">>, <<"thrown", "exception">>} :
       Finish(Compile(p, g), outcome[1], outcome[2])
  /\ UNCHANGED saved

\* runProgram: without a program the call on null throws; a program may also
\* fail to start, exit with zero, or exit with a code that is reported.
RunProgram(p, g) ==
  /\ \/ /\ job[Compile(p, g)] = "ok"
        /\ \E outcome \in {<<"ok", "count">>, <<"null", "diagnostic">>} :
             Finish(Run(p, g), outcome[1], outcome[2])
     \/ Finish(Run(p, g), "thrown", "exception")
  /\ UNCHANGED saved

\* The compiler or the program never ends, or waits forever for its output to be read.
Hang(j) ==
  /\ j \in CompileJob \/ \E p \in Program, g \in Group :
                           j = Run(p, g) /\ job[Compile(p, g)] = "ok"
  /\ job[j] = "running"
  /\ job' = [job EXCEPT ![j] = "hung"]
  /\ UNCHANGED <<pending, exam, workDone, workTotal, exception, diagnostics, saved>>

\* generateExamVariantsForGroup: the student's document, then the teacher's,
\* either of which may throw before it is saved.
SaveStudent(g) ==
  /\ job[Docs(g)] = "running"
  /\ saved[g] = {}
  /\ saved' = [saved EXCEPT ![g] = {"STUDENT"}]
  /\ UNCHANGED <<job, pending, exam, workDone, workTotal, exception, diagnostics>>

SaveTeacher(g) ==
  /\ saved[g] = {"STUDENT"}
  /\ Finish(Docs(g), "ok", "count")
  /\ saved' = [saved EXCEPT ![g] = Variant]

\* Mutation: generateExamVariantsForGroup swallows the exception.
FailDocuments_Swallowed(g) == Finish(Docs(g), "thrown", "none") /\ UNCHANGED saved

FailDocuments(g) == Finish(Docs(g), "thrown", "exception") /\ UNCHANGED saved

-----------------------------------------------------------------------------
(***************************************************************************)
(* The JavaFX application thread: one action per callback.                 *)
(***************************************************************************)

\* The Platform.runLater of diagnosticStream.  Whatever was written, the
\* promise of the job is settled behind it.
ShowDiagnostic(j) ==
  /\ pending[j] = "diagnostic"
  /\ pending' = [pending EXCEPT ![j] = "count"]
  /\ diagnostics' = diagnostics \cup {<<IF job[j] = "ok" THEN "WARNING" ELSE "ERROR", j>>}
  /\ UNCHANGED <<job, exam, workDone, workTotal, exception, saved>>

\* Mutation: finished work is taken off workDone.
CountDone_Down(j) ==
  /\ pending[j] = "count"
  /\ workDone' = workDone - 1
  /\ pending' = [pending EXCEPT ![j] = IF j \in DocsJob THEN "none" ELSE "then"]
  /\ UNCHANGED <<job, exam, workTotal, exception, diagnostics, saved>>

\* Mutation: document jobs are not counted.
CountDone_NotDocuments(j) ==
  /\ pending[j] = "count"
  /\ workDone' = IF j \in DocsJob THEN workDone ELSE workDone + 1
  /\ pending' = [pending EXCEPT ![j] = IF j \in DocsJob THEN "none" ELSE "then"]
  /\ UNCHANGED <<job, exam, workTotal, exception, diagnostics, saved>>

\* The thenRun of supplyAsync; nothing is chained behind a document job.
CountDone(j) ==
  /\ pending[j] = "count"
  /\ workDone' = workDone + 1
  /\ pending' = [pending EXCEPT ![j] = IF j \in DocsJob THEN "none" ELSE "then"]
  /\ UNCHANGED <<job, exam, workTotal, exception, diagnostics, saved>>

\* Mutation: no onExceptionAccept behind a run.
SetException_NotRuns(j) ==
  /\ pending[j] = "exception"
  /\ exception' = IF j \in RunJob THEN exception ELSE j
  /\ pending' = [pending EXCEPT ![j] = "none"]
  /\ UNCHANGED <<job, exam, workDone, workTotal, diagnostics, saved>>

\* The onExceptionAccept of supplyAsync; a later exception replaces an earlier one.
SetException(j) ==
  /\ pending[j] = "exception"
  /\ exception' = j
  /\ pending' = [pending EXCEPT ![j] = "none"]
  /\ UNCHANGED <<job, exam, workDone, workTotal, diagnostics, saved>>

\* mainPipeline, the then of the loaded templates: programPipeline for every
\* program submits its compilation for every group.
BuildProgramPipelines ==
  /\ pending[Load] = "then"
  /\ pending' = [pending EXCEPT ![Load] = "none"]
  /\ SupplyAsync(CompileJob) \/ SupplyRefused
  /\ UNCHANGED <<exam, workDone, exception, diagnostics, saved>>

\* examPipeline, a then of the built pipelines: waits for all outputs of the group.
BuildExamPipeline(g) ==
  /\ exam[g] = "unbuilt"
  /\ Delivered(Load)
  /\ exam' = [exam EXCEPT ![g] = "waiting"]
  /\ UNCHANGED <<job, pending, workDone, workTotal, exception, diagnostics, saved>>

\* groupPipeline, the then of a compilation, whether or not there is a program.
StartRun(p, g) ==
  /\ pending[Compile(p, g)] = "then"
  /\ pending' = [pending EXCEPT ![Compile(p, g)] = "none"]
  /\ SupplyAsync({Run(p, g)}) \/ SupplyRefused
  /\ UNCHANGED <<exam, workDone, exception, diagnostics, saved>>

\* The entry promise PromiseUtils.all puts behind a run.
DeliverOutput(p, g) ==
  /\ pending[Run(p, g)] = "then"
  /\ pending' = [pending EXCEPT ![Run(p, g)] = "none"]
  /\ UNCHANGED <<job, exam, workDone, workTotal, exception, diagnostics, saved>>

\* Mutation: the outputs are collected by a map that admits null.
MergeOutputs_NullAllowed(g) ==
  /\ exam[g] = "waiting"
  /\ \A p \in Program : Delivered(Run(p, g))
  /\ exam' = [exam EXCEPT ![g] = "merged"]
  /\ UNCHANGED <<job, pending, workDone, workTotal, exception, diagnostics, saved>>

\* The then of PromiseUtils.all: Collectors.toMap throws on a null output.
MergeOutputs(g) ==
  /\ exam[g] = "waiting"
  /\ \A p \in Program : Delivered(Run(p, g))
  /\ exam' = [exam EXCEPT ![g] =
                IF \E p \in Program : job[Run(p, g)] = "null" THEN "rejected" ELSE "merged"]
  /\ UNCHANGED <<job, pending, workDone, workTotal, exception, diagnostics, saved>>

\* The then of examPipeline: submits the document job.
StartDocuments(g) ==
  /\ exam[g] = "merged"
  /\ \/ SupplyAsync({Docs(g)}) /\ exam' = [exam EXCEPT ![g] = "submitted"]
     \/ SupplyRefused /\ exam' = [exam EXCEPT ![g] = "rejected"]
  /\ UNCHANGED <<pending, workDone, exception, diagnostics, saved>>

-----------------------------------------------------------------------------
\* The constructor has submitted the load job.
Init ==
  /\ job = [j \in Job |-> IF j = Load THEN "queued" ELSE "idle"]
  /\ pending = [j \in Job |-> "none"]
  /\ exam = [g \in Group |-> "unbuilt"]
  /\ workDone = 0
  /\ workTotal = 1
  /\ exception = None
  /\ diagnostics = {}
  /\ saved = [g \in Group |-> {}]

WorkerEnds ==
  \/ LoadTemplates
  \/ \E p \in Program, g \in Group : CompileProgram(p, g) \/ RunProgram(p, g)
  \/ \E g \in Group : SaveStudent(g) \/ SaveTeacher(g) \/ FailDocuments(g)
  \/ \E j \in Job : Hang(j)

WorkerStep == WorkerEnds \/ \E j \in Job : Start(j)

FxStep ==
  \/ \E j \in Job : ShowDiagnostic(j) \/ CountDone(j) \/ SetException(j)
  \/ BuildProgramPipelines
  \/ \E p \in Program, g \in Group : StartRun(p, g) \/ DeliverOutput(p, g)
  \/ \E g \in Group : BuildExamPipeline(g) \/ MergeOutputs(g) \/ StartDocuments(g)

\* What is left when the task stops for good: no job is running and no callback is
\* due, every worker is stuck if the queue is not empty, and every exam pipeline
\* waits for a promise that has not delivered or has ended.
Stopped ==
  /\ \A j \in Job : job[j] # "running" /\ pending[j] = "none"
  /\ (\E j \in Job : job[j] = "queued") => Cardinality(Occupied) >= Parallelism
  /\ \A g \in Group :
       /\ exam[g] = "unbuilt" => ~Delivered(Load)
       /\ exam[g] = "waiting" => \E p \in Program : ~Delivered(Run(p, g))
       /\ exam[g] # "merged"

\* A stopped task stays as it is; in any other state that admits no step of its
\* threads, TLC reports a deadlock.
AtRest == Stopped /\ UNCHANGED vars

Next == WorkerStep \/ FxStep \/ AtRest

Spec == Init /\ [][Next]_vars

\* The pool runs what it can, a job that does not hang ends, and the JavaFX
\* thread keeps running what it was given.
FairSpec == Spec /\ WF_vars(WorkerStep) /\ WF_vars(FxStep)
-----------------------------------------------------------------------------
(***************************************************************************)
(* Properties.                                                             *)
(***************************************************************************)

\* Every variable has its type.
TypeOK ==
  /\ job \in [Job -> JobState]
  /\ pending \in [Job -> Callback]
  /\ exam \in [Group -> ExamStage]
  /\ workDone \in Nat
  /\ workTotal \in Nat
  /\ exception \in Job \cup {None}
  /\ diagnostics \in SUBSET ({"WARNING", "ERROR"} \X Job)
  /\ saved \in [Group -> SUBSET Variant]

(***************************************************************************)
(* The inductive invariant from which the safety properties follow.        *)
(***************************************************************************)

\* A callback is pending only of a settled promise, and of its own kind.
CallbacksFit ==
  \A j \in Job :
    /\ pending[j] = "exception" => job[j] = "thrown"
    /\ pending[j] \in {"diagnostic", "count", "then"} => job[j] \in Resolved
    /\ pending[j] = "then" => j \notin DocsJob
    /\ job[j] \in {"failed", "failedSilently"} => j \in CompileJob
    /\ exception = j => job[j] = "thrown"

\* A stage starts when the promise before it has delivered what the stage needs.
StagesInOrder ==
  /\ \A p \in Program, g \in Group :
       /\ job[Compile(p, g)] # "idle" => Delivered(Load)
       /\ job[Run(p, g)] # "idle" => Delivered(Compile(p, g))
       /\ job[Run(p, g)] \in {"ok", "null"} => job[Compile(p, g)] = "ok"
       /\ exam[g] \in {"merged", "submitted"} => job[Run(p, g)] = "ok"
  /\ \A g \in Group : job[Docs(g)] # "idle" <=> exam[g] = "submitted"

\* What was reported of a job is listed once its diagnostic is no longer pending.
ErrorsAreKept ==
  \A j \in Job :
    job[j] \in {"failed", "null"} /\ pending[j] # "diagnostic" => <<"ERROR", j>> \in diagnostics

Submitted == {j \in Job : job[j] # "idle"}
Counted   == {j \in Job : job[j] \in Resolved /\ pending[j] \in {"none", "then"}}

\* workTotal counts the jobs supplyAsync was called for, workDone those whose
\* thenRun has run.
CountersAreExact ==
  /\ workTotal = Cardinality(Submitted)
  /\ workDone = Cardinality(Counted)

\* What a job or a pipeline that is over has left behind: an exception for a throw, an
\* exception or a null output for a rejected exam, both documents for a document job
\* that ended well.  Only a compilation or a run gets stuck, and the workers are as
\* many as the pool has.
OutcomesAreKept ==
  /\ Cardinality(Occupied) <= Parallelism
  /\ \A j \in Job :
       /\ job[j] = "thrown" /\ pending[j] # "exception" => exception # None
       /\ job[j] = "hung" => j \in CompileJob \cup RunJob
       /\ job[j] = "null" => j \in RunJob
  /\ job[Load] \notin {"idle", "thrown"}
  /\ \A g \in Group :
       /\ exam[g] = "rejected" => exception # None \/ \E p \in Program : job[Run(p, g)] = "null"
       /\ job[Docs(g)] = "ok" => saved[g] = Variant

\* The counters and the stages agree with the jobs in every state: each job is
\* counted once when submitted and once when done, in the order of the pipeline.
Inv ==
  /\ TypeOK /\ CallbacksFit /\ StagesInOrder /\ ErrorsAreKept /\ CountersAreExact
  /\ OutcomesAreKept

\* While the window shows SUCCEEDED no supplier of this task is submitted,
\* running or stuck, and none has thrown: the counters, updated one callback
\* at a time as the pipeline grows, are only ever equal between two waves.
SucceededMeansIdle ==
  State = "SUCCEEDED" =>
    \A j \in Job : job[j] \notin {"queued", "running", "hung", "thrown"}

\* The documents of a group are only generated from complete outputs: every
\* program compiled for that group, ran, and exited with zero.
DocumentsFollowOutputs ==
  \A g \in Group : job[Docs(g)] # "idle" =>
    \A p \in Program : job[Compile(p, g)] = "ok" /\ job[Run(p, g)] = "ok"

\* The window never shows the end of a task before the error it comes from: a
\* missing program has its compiler messages listed before the task is FAILED
\* by the run that needed it, and a non-zero exit is listed before the task
\* can be SUCCEEDED.
ErrorsAreListedFirst ==
  \A p \in Program, g \in Group :
    /\ exception = Run(p, g) /\ job[Compile(p, g)] = "failed" =>
         <<"ERROR", Compile(p, g)>> \in diagnostics
    /\ State = "SUCCEEDED" /\ job[Run(p, g)] = "null" =>
         <<"ERROR", Run(p, g)>> \in diagnostics

\* Once a job of the task has failed in the eyes of the JavaFX thread, no
\* callback submits another one, however many were still to run.
NoSubmissionAfterFailure ==
  [][exception # None => \A j \in Job : job[j] = "idle" => job'[j] = "idle"]_vars

Hung == {j \in Job : job[j] = "hung"}

\* Where the task stops for good.  Without a failure and with a worker left, a
\* group whose programs all exited with zero has both documents, whatever
\* became of the other group; and the task shows RUNNING exactly when a job is
\* stuck.  After a failure nothing is left on the workers but stuck jobs and,
\* if those hold every worker, the queue behind them.
StoppedOutcome ==
  Stopped =>
    /\ exception = None /\ Cardinality(Hung) < Parallelism =>
         \A g \in Group :
           (\A p \in Program : job[Run(p, g)] = "ok") => saved[g] = Variant
    /\ State = "RUNNING" <=> exception = None /\ Hung # {}
    /\ \A j \in Job : job[j] # "running"
    /\ (\E j \in Job : job[j] = "queued") => Cardinality(Hung) = Parallelism

\* A supplier that throws turns the task FAILED, whatever else is under way.
ThrownSurfaces ==
  \A j \in Job : job[j] = "thrown" ~> State = "FAILED"

\* The task comes to rest in SUCCEEDED or FAILED unless a compiler or a program hangs.
EventuallySettles ==
  <>[](State # "RUNNING") \/ <>[](Hung # {})

\* The document job of a group as the abstract task sees it.
DocumentsStage(g) ==
  CASE job[Docs(g)] = "idle" -> "unopened"
    [] job[Docs(g)] \in {"queued", "running"} -> "open"
    [] OTHER -> "closed"

Lifecycle == INSTANCE TaskLifecycle WITH
  state <- State,
  docs  <- [g \in Group |-> DocumentsStage(g)]

\* The pipeline of promises implements the task the window and the workspace see.
ImplementsLifecycle == Lifecycle!Spec

\* The precondition supplyAsync states of its callers: none of them runs once an
\* exception is set.
SupplyAsyncPrecondition ==
  [][ \/ BuildProgramPipelines
      \/ \E p \in Program, g \in Group : StartRun(p, g)
      \/ \E g \in Group : StartDocuments(g)
      => MaySupply ]_vars

\* What an ERROR diagnostic says of a program, its task says too: with one
\* listed, a task that has stopped is not SUCCEEDED.
ErrorIsNotSuccess ==
  Stopped /\ (\E d \in diagnostics : d[1] = "ERROR") => State # "SUCCEEDED"
=============================================================================
