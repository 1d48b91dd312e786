------------------------------ MODULE TaskView ------------------------------
(***************************************************************************)
(* A generation task under the window that shows it: the tabs of its       *)
(* programs (ProjectTask.getPrograms, MainWindowController, ProgramView)   *)
(* and the outputs in them (ProgramTabController).                         *)
(*                                                                         *)
(* The views register callbacks of their own on the promises of the        *)
(* pipeline (PromiseUtils.promiseToObservableValue), which the JavaFX       *)
(* thread runs among those of ProjectTask: a tab is made while the first   *)
(* programs already compile, and an output may have come before its tab.   *)
(* They change nothing of the task.  The task's project stays open here.   *)
(***************************************************************************)
EXTENDS ProjectTask

VARIABLES
  tabs,  \* programs and groups that have a tab
  shown  \* those of them whose output the tab shows

view == <<tabs, shown>>

\* getPrograms, once the map of pipelines is there: a tab for each program and in it
\* one for each group.
ShowTabs ==
  /\ Delivered(Load) /\ tabs = {}
  /\ tabs' = Program \X Group
  /\ UNCHANGED <<vars, shown>>

\* Mutation: outputs are shown as long as the task has not failed.
ShowOutput_UnlessFailed(p, g) ==
  /\ <<p, g>> \in tabs \ shown
  /\ job[Run(p, g)] = "ok" /\ Run(p, g) \in Counted /\ State # "FAILED"
  /\ shown' = shown \cup {<<p, g>>}
  /\ UNCHANGED <<vars, tabs>>

\* The thenAccept on the run of a tab.  A run that resolves to null sets the property
\* to the null it has.
ShowOutput(p, g) ==
  /\ <<p, g>> \in tabs \ shown
  /\ job[Run(p, g)] = "ok" /\ Run(p, g) \in Counted
  /\ shown' = shown \cup {<<p, g>>}
  /\ UNCHANGED <<vars, tabs>>

ViewInit == Init /\ tabs = {} /\ shown = {}

ViewStep == ShowTabs \/ \E p \in Program, g \in Group : ShowOutput(p, g)

ViewNext == (Next /\ UNCHANGED view) \/ ViewStep

\* The views wait for the JavaFX thread as the callbacks of the task do.
ViewSpec ==
  /\ ViewInit /\ [][ViewNext]_<<vars, view>>
  /\ WF_vars(WorkerStep)
  /\ WF_<<vars, view>>((FxStep /\ UNCHANGED view) \/ ViewStep)

-----------------------------------------------------------------------------
\* Every output of a program that ran is shown in the end, whichever of the tab and the
\* output comes first, and also when another job has failed and the task with it: what
\* was computed is not lost to the user.
OutputsAreShown ==
  \A p \in Program, g \in Group : job[Run(p, g)] = "ok" ~> <<p, g>> \in shown
=============================================================================
