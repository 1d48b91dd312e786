------------------------------ MODULE Workspace ------------------------------
(***************************************************************************)
(* The window over its generation tasks: which project is open              *)
(* (ui/model/Application.java), which task it runs (ui/model/Project.java),*)
(* and the exam documents that the tasks, the current one and those that   *)
(* the window has left behind, write into the workspaces.                  *)
(*                                                                         *)
(* A task is what module TaskLifecycle says of it, except that saving a    *)
(* document takes two steps: the file is truncated, then it is complete.   *)
(* A task belongs to the project it was started from for good; opening a   *)
(* project, also the one that is open, makes a new Project object without  *)
(* a task and stops nothing.                                               *)
(*                                                                         *)
(* Closing the window ends the application: the workers of a task are       *)
(* daemon threads and are stopped wherever they are, also in the middle of *)
(* a file.  An application that is started again knows nothing of them.     *)
(***************************************************************************)
EXTENDS Naturals

CONSTANTS
  Path,      \* workspace directories
  Group,     \* exam groups
  MaxTasks,  \* bound on the number of tasks started
  NoPath     \* no project is open

ASSUME WorkspaceAssumption == MaxTasks \in Nat /\ NoPath \notin Path

Task    == 1 .. MaxTasks
NoTask  == 0
Variant == {"STUDENT", "TEACHER"}
State   == {"RUNNING", "FAILED", "SUCCEEDED"}

\* A document on disk: the task that began to write it last (NoTask: there is
\* none) and whether it is complete.
Document == [by : Task \cup {NoTask}, whole : BOOLEAN]

VARIABLES
  open,     \* Application.openProjectProperty: path of the open project
  current,  \* Project.taskProperty of the open project
  started,  \* tasks started so far, by any project
  gone,     \* how many of them, the first ones, ended with their application
  path,     \* workspace of each task
  state,    \* ProjectTask.getState of each task
  docs,     \* each task's work on the documents of a group
  saved,    \* documents each task has saved
  writing,  \* variants each task is saving, per group
  file,     \* the documents in the workspaces: exam_<group>_<variant>.odt
  last,     \* history: the task that began last on the documents of a group
  overlap   \* history: the groups of a workspace two tasks worked on at once

app     == <<open, current, started, gone, path>>
tasks   == <<state, docs, saved, writing>>
history == <<last, overlap>>
vars    == <<app, tasks, file, history>>

Started == 1 .. started
Live    == gone + 1 .. started

-----------------------------------------------------------------------------
(***************************************************************************)
(* Application and Project.                                                *)
(***************************************************************************)

\* openProject: a new Project object, whether or not a task is running.
OpenProject(p) ==
  /\ open' = p
  /\ current' = NoTask
  /\ UNCHANGED <<started, gone, path, tasks, file, history>>

\* The last window is closed, and the application started again: no project is open
\* and no task lives on; the workspaces stay as they are.
CloseWindow ==
  /\ open' = NoPath
  /\ current' = NoTask
  /\ gone' = started
  /\ UNCHANGED <<started, path, tasks, file, history>>

\* canStartTask, which also enables the Generate button.
CanStartTask == current # NoTask => state[current] # "RUNNING"

\* Project.startTask, from onGeneratePressed.
StartTask ==
  /\ open # NoPath
  /\ CanStartTask
  /\ started < MaxTasks
  /\ started' = started + 1
  /\ current' = started + 1
  /\ path' = [path EXCEPT ![started + 1] = open]
  /\ UNCHANGED <<open, gone, tasks, file, history>>

-----------------------------------------------------------------------------
(***************************************************************************)
(* The tasks.                                                              *)
(***************************************************************************)
Settle(t) ==
  /\ state[t] = "RUNNING"
  /\ \A g \in Group : docs[t][g] # "open"
  /\ state' = [state EXCEPT ![t] = "SUCCEEDED"]
  /\ UNCHANGED <<app, docs, saved, writing, file, history>>

Resume(t) ==
  /\ state[t] = "SUCCEEDED"
  /\ state' = [state EXCEPT ![t] = "RUNNING"]
  /\ UNCHANGED <<app, docs, saved, writing, file, history>>

Fail(t) ==
  /\ state[t] = "RUNNING"
  /\ state' = [state EXCEPT ![t] = "FAILED"]
  /\ UNCHANGED <<app, docs, saved, writing, file, history>>

OpenDocuments(t, g) ==
  /\ state[t] # "FAILED"
  /\ docs[t][g] = "unopened"
  /\ docs' = [docs EXCEPT ![t][g] = "open"]
  /\ state' = [state EXCEPT ![t] = "RUNNING"]
  /\ last' = [last EXCEPT ![path[t]][g] = t]
  /\ overlap' = IF \E u \in Live : u # t /\ path[u] = path[t] /\ docs[u][g] = "open"
                  THEN overlap \cup {<<path[t], g>>} ELSE overlap
  /\ UNCHANGED <<app, saved, writing, file>>

\* Mutation: the teacher's document is saved first.
NextVariant_TeacherFirst(t, g) == IF saved[t][g] = {} THEN "TEACHER" ELSE "STUDENT"

\* The next variant a task saves of a group: the student's before the teacher's.
NextVariant(t, g) == IF saved[t][g] = {} THEN "STUDENT" ELSE "TEACHER"

\* Mutation: documents go to the project that is open.
BeginSave_OpenProject(t, g) ==
  /\ docs[t][g] = "open" /\ state[t] # "SUCCEEDED"
  /\ writing[t][g] = {}
  /\ writing' = [writing EXCEPT ![t][g] = {NextVariant(t, g)}]
  /\ file' = [file EXCEPT ![open][g][NextVariant(t, g)] = [by |-> t, whole |-> FALSE]]
  /\ UNCHANGED <<app, state, docs, saved, history>>

\* examTemplate.save truncates the file of an earlier task, or of this one.
BeginSave(t, g) ==
  /\ docs[t][g] = "open" /\ state[t] # "SUCCEEDED"
  /\ writing[t][g] = {}
  /\ writing' = [writing EXCEPT ![t][g] = {NextVariant(t, g)}]
  /\ file' = [file EXCEPT ![path[t]][g][NextVariant(t, g)] = [by |-> t, whole |-> FALSE]]
  /\ UNCHANGED <<app, state, docs, saved, history>>

\* Mutation: save returns before the file is complete.
EndSave_Early(t, g) ==
  \E v \in writing[t][g] :
    /\ writing' = [writing EXCEPT ![t][g] = {}]
    /\ saved' = [saved EXCEPT ![t][g] = @ \cup {v}]
    /\ docs' = [docs EXCEPT ![t][g] = IF saved'[t][g] = Variant THEN "closed" ELSE "open"]
    /\ UNCHANGED <<app, state, file, history>>

\* The file is complete, unless another task has been writing it meanwhile:
\* then it may be anything.
EndSave(t, g) ==
  \E v \in writing[t][g], ok \in BOOLEAN :
    /\ <<path[t], g>> \notin overlap => ok
    /\ writing' = [writing EXCEPT ![t][g] = {}]
    /\ saved' = [saved EXCEPT ![t][g] = @ \cup {v}]
    /\ docs' = [docs EXCEPT ![t][g] = IF saved'[t][g] = Variant THEN "closed" ELSE "open"]
    /\ file' = [file EXCEPT ![path[t]][g][v] = [by |-> file[path[t]][g][v].by, whole |-> ok]]
    /\ UNCHANGED <<app, state, history>>

\* Mutation: documents that could not be generated are tried again.
AbandonDocuments_Retry(t, g) ==
  /\ docs[t][g] = "open" /\ state[t] # "SUCCEEDED"
  /\ docs' = [docs EXCEPT ![t][g] = "unopened"]
  /\ writing' = [writing EXCEPT ![t][g] = {}]
  /\ UNCHANGED <<app, state, saved, file, history>>

\* Filling or saving a document throws.
AbandonDocuments(t, g) ==
  /\ docs[t][g] = "open" /\ state[t] # "SUCCEEDED"
  /\ docs' = [docs EXCEPT ![t][g] = "closed"]
  /\ writing' = [writing EXCEPT ![t][g] = {}]
  /\ UNCHANGED <<app, state, saved, file, history>>

-----------------------------------------------------------------------------
Init ==
  /\ open = NoPath
  /\ current = NoTask
  /\ started = 0
  /\ gone = 0
  /\ path = [t \in Task |-> NoPath]
  /\ state = [t \in Task |-> "RUNNING"]
  /\ docs = [t \in Task |-> [g \in Group |-> "unopened"]]
  /\ saved = [t \in Task |-> [g \in Group |-> {}]]
  /\ writing = [t \in Task |-> [g \in Group |-> {}]]
  /\ file \in [Path -> [Group -> [Variant -> {[by |-> NoTask, whole |-> TRUE]}]]]
  /\ last = [p \in Path |-> [g \in Group |-> NoTask]]
  /\ overlap = {}

TaskStep(t) ==
  \/ Settle(t) \/ Resume(t) \/ Fail(t)
  \/ \E g \in Group : \/ OpenDocuments(t, g) \/ BeginSave(t, g)
                      \/ EndSave(t, g) \/ AbandonDocuments(t, g)

Next ==
  \/ \E p \in Path : OpenProject(p)
  \/ CloseWindow
  \/ StartTask
  \/ \E t \in Live : TaskStep(t)

Spec == Init /\ [][Next]_vars
-----------------------------------------------------------------------------
(***************************************************************************)
(* Properties.                                                             *)
(***************************************************************************)

\* Every variable has its type.
TypeOK ==
  /\ open \in Path \cup {NoPath}
  /\ current \in Started \cup {NoTask}
  /\ started \in 0 .. MaxTasks
  /\ gone \in 0 .. started
  /\ path \in [Task -> Path \cup {NoPath}]
  /\ \A t \in Started : path[t] \in Path
  /\ state \in [Task -> State]
  /\ docs \in [Task -> [Group -> {"unopened", "open", "closed"}]]
  /\ saved \in [Task -> [Group -> {{}, {"STUDENT"}, Variant}]]
  /\ writing \in [Task -> [Group -> {{}, {"STUDENT"}, {"TEACHER"}}]]
  /\ file \in [Path -> [Group -> [Variant -> Document]]]
  /\ last \in [Path -> [Group -> Started \cup {NoTask}]]
  /\ overlap \subseteq Path \X Group

\* The documents of a group in a workspace are explained by a task: each variant the
\* task has saved is there, whole and its own; one it has begun and not saved is
\* broken: it is being written, it was when the application was closed, or it has been
\* given up; and the teacher's document is never newer than the students'.
Explains(t, p, g) ==
  /\ \A v \in Variant :
       /\ v \in saved[t][g] <=> file[p][g][v] = [by |-> t, whole |-> TRUE]
       /\ file[p][g][v] = [by |-> t, whole |-> FALSE] =>
            v \in writing[t][g] \/ docs[t][g] = "closed"
  /\ file[p][g]["TEACHER"].by = t => file[p][g]["STUDENT"] = [by |-> t, whole |-> TRUE]

\* As long as no two tasks have been on the documents of a group at once, the last
\* task that was on them explains what the workspace holds, whatever the tasks of
\* applications that were closed in the middle of a save had left there.
WorkspaceIsExplained ==
  \A p \in Path, g \in Group :
    <<p, g>> \notin overlap /\ last[p][g] # NoTask => Explains(last[p][g], p, g)

LifecycleOf(t) == INSTANCE TaskLifecycle WITH
  state <- state[t], docs <- docs[t], saved <- saved[t]

\* Saving in two steps, every task still is a TaskLifecycle.
TasksFollowLifecycle ==
  /\ \A t \in Task : LifecycleOf(t)!Init
  /\ [][\A t \in Task : [LifecycleOf(t)!Next]_(LifecycleOf(t)!vars)]_vars

\* The precondition of startTask, read as what it is for: a project starts a task
\* when the one before it is over, not while it still generates documents.
StartsWhenOver ==
  [][StartTask /\ current # NoTask => \A g \in Group : docs[current][g] # "open"]_vars
=============================================================================
