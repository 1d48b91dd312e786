---------------------------- MODULE WorkspaceProofs ----------------------------
(***************************************************************************)
(* Theorems about Workspace, for any workspaces and groups and any number  *)
(* of tasks.                                                               *)
(***************************************************************************)
EXTENDS Workspace, TLAPS

(***************************************************************************)
(* The inductive invariant.                                                *)
(***************************************************************************)

\* How far a task is with the documents of a group.
Progressing(t, g) ==
  /\ docs[t][g] = "unopened" => saved[t][g] = {}
  /\ docs[t][g] = "open" => saved[t][g] # Variant
  /\ writing[t][g] # {} => docs[t][g] = "open" /\ writing[t][g] = {NextVariant(t, g)}

\* Where a task is, or was, on the documents of a group, the history knows it (of the
\* tasks of an application that was closed, one that is on them may be forgotten); what
\* is on disk was written by a task of that workspace that has been on it.
Recorded ==
  /\ \A p \in Path, g \in Group :
       last[p][g] # NoTask => path[last[p][g]] = p /\ docs[last[p][g]][g] # "unopened"
  /\ \A t \in Live, g \in Group :
       docs[t][g] = "open" /\ <<path[t], g>> \notin overlap => last[path[t]][g] = t
  /\ \A p \in Path, g \in Group, v \in Variant :
       file[p][g][v].by # NoTask => /\ file[p][g][v].by \in Started
                                    /\ docs[file[p][g][v].by][g] # "unopened"

\* A document that is being written is broken.
BrokenWhileWriting ==
  \A p \in Path, g \in Group :
    <<p, g>> \notin overlap /\ last[p][g] # NoTask =>
      \A v \in writing[last[p][g]][g] : file[p][g][v] = [by |-> last[p][g], whole |-> FALSE]

\* Tasks that have not been started have done nothing.
NotStarted ==
  \A t \in Task \ Started : /\ state[t] = "RUNNING"
                            /\ \A g \in Group : docs[t][g] = "unopened" /\ writing[t][g] = {}

Inv ==
  /\ TypeOK
  /\ \A t \in Task, g \in Group : Progressing(t, g)
  /\ Recorded /\ BrokenWhileWriting /\ NotStarted
  /\ WorkspaceIsExplained

-----------------------------------------------------------------------------
(***************************************************************************)
(* What each step of a task changes.                                       *)
(***************************************************************************)
LEMMA Bounds ==
  /\ NoTask \notin Task
  /\ "STUDENT" \in Variant /\ "TEACHER" \in Variant
  /\ \A v \in Variant : v = "STUDENT" \/ v = "TEACHER"
  /\ TypeOK => Started \subseteq Task /\ Live \subseteq Started
BY WorkspaceAssumption DEF NoTask, Task, Variant, TypeOK, Started, Live

\* What a task may be writing, and may have saved, of the documents of a group.
Writings == {{}, {"STUDENT"}, {"TEACHER"}}
Savings  == {{}, {"STUDENT"}, Variant}

\* Writing one place of a table of tables.
LEMMA TableUpdate ==
  ASSUME NEW S, NEW f \in [Task -> [Group -> S]], NEW t \in Task, NEW g \in Group, NEW x
  PROVE  LET f2 == [f EXCEPT ![t][g] = x] IN
         /\ x \in S => f2 \in [Task -> [Group -> S]]
         /\ f2[t][g] = x
         /\ \A u \in Task, h \in Group : u # t \/ h # g => f2[u][h] = f[u][h]
OBVIOUS

Opened(t, g) ==
  /\ t \in Task /\ path[t] \in Path
  /\ docs[t][g] = "unopened" /\ docs'[t][g] = "open"
  /\ \A u \in Task, h \in Group : u # t \/ h # g => docs'[u][h] = docs[u][h]
  /\ \A u \in Task : u # t => state'[u] = state[u]
  /\ last'[path[t]][g] = t
  /\ \A p \in Path, h \in Group : p # path[t] \/ h # g => last'[p][h] = last[p][h]
  /\ overlap \subseteq overlap'
  /\ \A p \in Path, h \in Group :
       <<p, h>> \in overlap' => <<p, h>> \in overlap \/ (p = path[t] /\ h = g)
  /\ (\E u \in Live : u # t /\ path[u] = path[t] /\ docs[u][g] = "open")
       => <<path[t], g>> \in overlap'
  /\ UNCHANGED <<app, saved, writing, file>>
  /\ TypeOK'

\* OpenDocuments changes the documents and the history at one place only.
LEMMA OpenDocumentsStep ==
  ASSUME TypeOK, NEW t \in Started, NEW g \in Group, OpenDocuments(t, g)
  PROVE  Opened(t, g)
<1>. USE DEF OpenDocuments
<1>1. t \in Task /\ path[t] \in Path
  BY Bounds DEF TypeOK
<1>2. /\ docs'[t][g] = "open"
      /\ \A u \in Task, h \in Group : u # t \/ h # g => docs'[u][h] = docs[u][h]
      /\ docs' \in [Task -> [Group -> {"unopened", "open", "closed"}]]
  BY <1>1, TableUpdate DEF TypeOK
<1>3. /\ \A u \in Task : u # t => state'[u] = state[u]
      /\ state' \in [Task -> State]
  BY <1>1 DEF TypeOK, State
<1>4. /\ last'[path[t]][g] = t
      /\ \A p \in Path, h \in Group : p # path[t] \/ h # g => last'[p][h] = last[p][h]
      /\ last' \in [Path -> [Group -> Started \cup {NoTask}]]
  BY <1>1 DEF TypeOK
<1>5. /\ overlap \subseteq overlap' /\ overlap' \subseteq Path \X Group
      /\ \A p \in Path, h \in Group :
           <<p, h>> \in overlap' => <<p, h>> \in overlap \/ (p = path[t] /\ h = g)
      /\ (\E u \in Live : u # t /\ path[u] = path[t] /\ docs[u][g] = "open")
           => <<path[t], g>> \in overlap'
  BY <1>1 DEF TypeOK
<1>6. TypeOK'
  BY <1>2, <1>3, <1>4, <1>5 DEF TypeOK, app, Started
<1>. QED  BY <1>1, <1>2, <1>3, <1>4, <1>5, <1>6 DEF Opened

Begun(t, g) ==
  /\ t \in Task /\ path[t] \in Path /\ NextVariant(t, g) \in Variant
  /\ writing[t][g] = {} /\ writing'[t][g] = {NextVariant(t, g)}
  /\ \A u \in Task, h \in Group : u # t \/ h # g => writing'[u][h] = writing[u][h]
  /\ file'[path[t]][g][NextVariant(t, g)] = [by |-> t, whole |-> FALSE]
  /\ \A p \in Path, h \in Group, v \in Variant :
       p # path[t] \/ h # g \/ v # NextVariant(t, g) => file'[p][h][v] = file[p][h][v]
  /\ UNCHANGED <<app, state, docs, saved, history>>
  /\ TypeOK'

\* BeginSave changes one file of one group, and what its task is writing.
LEMMA BeginSaveStep ==
  ASSUME TypeOK, NEW t \in Started, NEW g \in Group, BeginSave(t, g)
  PROVE  Begun(t, g)
<1>. USE DEF BeginSave
<1>1. t \in Task /\ path[t] \in Path
  BY Bounds DEF TypeOK
<1>2. NextVariant(t, g) \in Variant /\ {NextVariant(t, g)} \in {{"STUDENT"}, {"TEACHER"}}
  BY DEF NextVariant, Variant
<1>3. /\ writing'[t][g] = {NextVariant(t, g)}
      /\ \A u \in Task, h \in Group : u # t \/ h # g => writing'[u][h] = writing[u][h]
      /\ writing' \in [Task -> [Group -> {{}, {"STUDENT"}, {"TEACHER"}}]]
  <2>1. writing \in [Task -> [Group -> Writings]] /\ {NextVariant(t, g)} \in Writings
    BY <1>2 DEF TypeOK, Writings
  <2>2. /\ writing'[t][g] = {NextVariant(t, g)}
        /\ \A u \in Task, h \in Group : u # t \/ h # g => writing'[u][h] = writing[u][h]
        /\ writing' \in [Task -> [Group -> Writings]]
    BY <1>1, <2>1, TableUpdate
  <2>. QED  BY <2>2 DEF Writings
<1>4. /\ file'[path[t]][g][NextVariant(t, g)] = [by |-> t, whole |-> FALSE]
      /\ \A p \in Path, h \in Group, v \in Variant :
           p # path[t] \/ h # g \/ v # NextVariant(t, g) => file'[p][h][v] = file[p][h][v]
  BY <1>1, <1>2 DEF TypeOK
<1>5. file' \in [Path -> [Group -> [Variant -> Document]]]
  <2>1. [by |-> t, whole |-> FALSE] \in Document
    BY <1>1 DEF Document
  <2>. QED  BY <1>1, <1>2, <2>1 DEF TypeOK
<1>6. TypeOK'
  BY <1>3, <1>5 DEF TypeOK, app, Started, history
<1>. QED  BY <1>1, <1>2, <1>3, <1>4, <1>6 DEF Begun

Ended(t, g, w) ==
  /\ t \in Task /\ path[t] \in Path /\ w \in Variant
  /\ docs[t][g] = "open" /\ writing[t][g] = {w} /\ writing'[t][g] = {}
  /\ saved'[t][g] = saved[t][g] \cup {w}
  /\ saved'[t][g] \in {{"STUDENT"}, Variant}
  /\ docs'[t][g] = IF saved'[t][g] = Variant THEN "closed" ELSE "open"
  /\ \A u \in Task, h \in Group : u # t \/ h # g =>
       /\ writing'[u][h] = writing[u][h] /\ saved'[u][h] = saved[u][h]
       /\ docs'[u][h] = docs[u][h]
  /\ file'[path[t]][g][w].by = file[path[t]][g][w].by
  /\ <<path[t], g>> \notin overlap => file'[path[t]][g][w] = [by |-> file[path[t]][g][w].by, whole |-> TRUE]
  /\ \A p \in Path, h \in Group, v \in Variant :
       p # path[t] \/ h # g \/ v # w => file'[p][h][v] = file[p][h][v]
  /\ UNCHANGED <<app, state, history>>
  /\ TypeOK'

\* EndSave changes one file of one group, and the progress of its task.
LEMMA EndSaveStep ==
  ASSUME TypeOK, NEW t \in Started, NEW g \in Group, EndSave(t, g), Progressing(t, g)
  PROVE  Ended(t, g, NextVariant(t, g))
<1>. DEFINE w == NextVariant(t, g)
<1>1. t \in Task /\ path[t] \in Path /\ w \in Variant
  BY Bounds DEF TypeOK, NextVariant
<1>2. docs[t][g] = "open" /\ writing[t][g] = {w}
  BY DEF EndSave, Progressing
<1>. DEFINE Ends(ok) ==
              /\ <<path[t], g>> \notin overlap => ok
              /\ writing' = [writing EXCEPT ![t][g] = {}]
              /\ saved' = [saved EXCEPT ![t][g] = @ \cup {w}]
              /\ docs' = [docs EXCEPT ![t][g] = IF saved'[t][g] = Variant THEN "closed" ELSE "open"]
              /\ file' = [file EXCEPT ![path[t]][g][w] = [by |-> file[path[t]][g][w].by, whole |-> ok]]
              /\ UNCHANGED <<app, state, history>>
<1>3. PICK ok \in BOOLEAN : Ends(ok)
  BY <1>2 DEF EndSave
<1>4. /\ writing'[t][g] = {}
      /\ \A u \in Task, h \in Group : u # t \/ h # g => writing'[u][h] = writing[u][h]
      /\ writing' \in [Task -> [Group -> {{}, {"STUDENT"}, {"TEACHER"}}]]
  <2>1. writing \in [Task -> [Group -> Writings]] /\ {} \in Writings
    BY DEF TypeOK, Writings
  <2>2. /\ writing'[t][g] = {}
        /\ \A u \in Task, h \in Group : u # t \/ h # g => writing'[u][h] = writing[u][h]
        /\ writing' \in [Task -> [Group -> Writings]]
    BY <1>3, <1>1, <2>1, TableUpdate
  <2>. QED  BY <2>2 DEF Writings
<1>5. saved[t][g] = {} \/ saved[t][g] = {"STUDENT"}
  <2>1. saved \in [Task -> [Group -> Savings]]
    BY DEF TypeOK, Savings
  <2>2. saved[t][g] \in Savings /\ saved[t][g] # Variant
    BY <1>1, <1>2, <2>1 DEF Progressing
  <2>. QED  BY <2>2 DEF Savings
<1>6. saved[t][g] \cup {w} \in {{"STUDENT"}, Variant}
  BY <1>5 DEF NextVariant, Variant
<1>7. /\ saved'[t][g] = saved[t][g] \cup {w}
      /\ \A u \in Task, h \in Group : u # t \/ h # g => saved'[u][h] = saved[u][h]
      /\ saved' \in [Task -> [Group -> {{}, {"STUDENT"}, Variant}]]
  <2>1. saved' = [saved EXCEPT ![t][g] = saved[t][g] \cup {w}]
    BY <1>3
  <2>2. saved \in [Task -> [Group -> Savings]] /\ saved[t][g] \cup {w} \in Savings
    BY <1>6 DEF TypeOK, Savings
  <2>3. /\ saved'[t][g] = saved[t][g] \cup {w}
        /\ \A u \in Task, h \in Group : u # t \/ h # g => saved'[u][h] = saved[u][h]
        /\ saved' \in [Task -> [Group -> Savings]]
    <3>. HIDE DEF w
    <3>. QED  BY <1>1, <2>1, <2>2, TableUpdate
  <2>. QED  BY <2>3 DEF Savings
<1>8. /\ docs'[t][g] = IF saved'[t][g] = Variant THEN "closed" ELSE "open"
      /\ \A u \in Task, h \in Group : u # t \/ h # g => docs'[u][h] = docs[u][h]
      /\ docs' \in [Task -> [Group -> {"unopened", "open", "closed"}]]
  BY <1>1, <1>3, TableUpdate DEF TypeOK
<1>9. /\ file'[path[t]][g][w] = [by |-> file[path[t]][g][w].by, whole |-> ok]
      /\ \A p \in Path, h \in Group, v \in Variant :
           p # path[t] \/ h # g \/ v # w => file'[p][h][v] = file[p][h][v]
      /\ file' \in [Path -> [Group -> [Variant -> Document]]]
  <2>1. /\ file[path[t]][g][w] \in Document
        /\ [by |-> file[path[t]][g][w].by, whole |-> ok] \in Document
    BY <1>1 DEF TypeOK, Document
  <2>. HIDE DEF w
  <2>. QED  BY <1>1, <1>3, <2>1 DEF TypeOK
<1>10. /\ file'[path[t]][g][w].by = file[path[t]][g][w].by
       /\ <<path[t], g>> \notin overlap => file'[path[t]][g][w] = [by |-> file[path[t]][g][w].by, whole |-> TRUE]
  <2>1. <<path[t], g>> \notin overlap => ok = TRUE
    BY <1>3, Zenon
  <2>2. file'[path[t]][g][w].by = file[path[t]][g][w].by
    <3>. HIDE DEF w, Ends
    <3>. QED  BY <1>9
  <2>. QED  BY <1>9, <2>1, <2>2, Zenon
<1>11. TypeOK'
  BY <1>3, <1>4, <1>7, <1>8, <1>9 DEF TypeOK, app, Started, history
<1>12. UNCHANGED <<app, state, history>>
  BY <1>3
<1>13. saved'[t][g] \in {{"STUDENT"}, Variant}
  BY <1>6, <1>7
<1>. HIDE DEF Ends, w
<1>14. /\ \A u \in Task, h \in Group : u # t \/ h # g =>
            /\ writing'[u][h] = writing[u][h] /\ saved'[u][h] = saved[u][h]
            /\ docs'[u][h] = docs[u][h]
       /\ \A p \in Path, h \in Group, v \in Variant :
            p # path[t] \/ h # g \/ v # w => file'[p][h][v] = file[p][h][v]
  BY <1>4, <1>7, <1>8, <1>9
<1>15. writing'[t][g] = {} /\ saved'[t][g] = saved[t][g] \cup {w}
       /\ docs'[t][g] = IF saved'[t][g] = Variant THEN "closed" ELSE "open"
  BY <1>4, <1>7, <1>8
<1>16. Ended(t, g, w)
  BY <1>1, <1>2, <1>10, <1>11, <1>12, <1>13, <1>14, <1>15, Zenon DEF Ended
<1>. QED  BY <1>16 DEF w

Abandoned(t, g) ==
  /\ t \in Task /\ path[t] \in Path
  /\ docs[t][g] = "open" /\ docs'[t][g] = "closed" /\ writing'[t][g] = {}
  /\ \A u \in Task, h \in Group : u # t \/ h # g =>
       docs'[u][h] = docs[u][h] /\ writing'[u][h] = writing[u][h]
  /\ UNCHANGED <<app, state, saved, file, history>>
  /\ TypeOK'

\* AbandonDocuments changes the progress of its task at one place only.
LEMMA AbandonDocumentsStep ==
  ASSUME TypeOK, NEW t \in Started, NEW g \in Group, AbandonDocuments(t, g)
  PROVE  Abandoned(t, g)
<1>. USE DEF AbandonDocuments
<1>1. t \in Task /\ path[t] \in Path
  BY Bounds DEF TypeOK
<1>2. /\ docs'[t][g] = "closed"
      /\ \A u \in Task, h \in Group : u # t \/ h # g => docs'[u][h] = docs[u][h]
      /\ docs' \in [Task -> [Group -> {"unopened", "open", "closed"}]]
  BY <1>1, TableUpdate DEF TypeOK
<1>3. /\ writing'[t][g] = {}
      /\ \A u \in Task, h \in Group : u # t \/ h # g => writing'[u][h] = writing[u][h]
      /\ writing' \in [Task -> [Group -> {{}, {"STUDENT"}, {"TEACHER"}}]]
  <2>1. writing \in [Task -> [Group -> Writings]] /\ {} \in Writings
    BY DEF TypeOK, Writings
  <2>2. /\ writing'[t][g] = {}
        /\ \A u \in Task, h \in Group : u # t \/ h # g => writing'[u][h] = writing[u][h]
        /\ writing' \in [Task -> [Group -> Writings]]
    BY <1>1, <2>1, TableUpdate
  <2>. QED  BY <2>2 DEF Writings
<1>4. TypeOK'
  BY <1>2, <1>3 DEF TypeOK, app, Started, history
<1>. QED  BY <1>1, <1>2, <1>3, <1>4 DEF Abandoned

-----------------------------------------------------------------------------
(***************************************************************************)
(* The invariant holds at first and is preserved by every step.            *)
(***************************************************************************)
LEMMA InitInv == Init => Inv
<1>. SUFFICES ASSUME Init PROVE Inv
  OBVIOUS
<1>. USE DEF Init
<1>1. Started = {}
  BY DEF Started
<1>2. \A t \in Task, g \in Group : /\ docs[t][g] = "unopened" /\ saved[t][g] = {}
                                   /\ writing[t][g] = {} /\ state[t] = "RUNNING"
  OBVIOUS
<1>21. \A p \in Path, g \in Group : last[p][g] = NoTask
  OBVIOUS
<1>22. \A p \in Path, g \in Group, v \in Variant : file[p][g][v].by = NoTask
  <2>. SUFFICES ASSUME NEW p \in Path, NEW g \in Group, NEW v \in Variant
                PROVE  file[p][g][v].by = NoTask
    OBVIOUS
  <2>1. file[p][g][v] \in {[by |-> NoTask, whole |-> TRUE]}
    OBVIOUS
  <2>. QED  BY <2>1
<1>3. TypeOK
  <2>1. /\ file \in [Path -> [Group -> [Variant -> Document]]]
        /\ last \in [Path -> [Group -> Started \cup {NoTask}]]
    <3>. DEFINE Blank == {[by |-> NoTask, whole |-> TRUE]}
    <3>1. Blank \subseteq Document /\ file \in [Path -> [Group -> [Variant -> Blank]]]
      BY DEF Document
    <3>2. last \in [Path -> [Group -> Started \cup {NoTask}]]
      OBVIOUS
    <3>3. file \in [Path -> [Group -> [Variant -> Document]]]
      <4>. HIDE DEF Blank, Init
      <4>. QED  BY <3>1
    <3>. QED  BY <3>2, <3>3
  <2>2. /\ docs \in [Task -> [Group -> {"unopened", "open", "closed"}]]
        /\ saved \in [Task -> [Group -> Savings]]
        /\ writing \in [Task -> [Group -> Writings]]
        /\ state \in [Task -> State] /\ path \in [Task -> Path \cup {NoPath}]
    BY DEF Savings, Writings, State
  <2>3. /\ saved \in [Task -> [Group -> {{}, {"STUDENT"}, Variant}]]
        /\ writing \in [Task -> [Group -> {{}, {"STUDENT"}, {"TEACHER"}}]]
    BY <2>2 DEF Savings, Writings
  <2>4. /\ open \in Path \cup {NoPath} /\ current \in Started \cup {NoTask}
        /\ started \in 0 .. MaxTasks /\ gone \in 0 .. started /\ overlap \subseteq Path \X Group
    BY WorkspaceAssumption DEF NoTask
  <2>. QED  BY <1>1, <2>1, <2>2, <2>3, <2>4 DEF TypeOK
<1>. HIDE DEF Init
<1>4. \A t \in Task, g \in Group : Progressing(t, g)
  BY <1>2 DEF Progressing
<1>5. Recorded /\ BrokenWhileWriting /\ WorkspaceIsExplained
  <2>1. Live = {}
    BY <1>1, <1>3, Bounds
  <2>. QED  BY <1>21, <1>22, <2>1 DEF Recorded, BrokenWhileWriting, WorkspaceIsExplained
<1>6. NotStarted
  <2>1. \A t \in Task : state[t] = "RUNNING"
    BY DEF Init
  <2>. QED  BY <1>2, <2>1 DEF NotStarted
<1>. QED  BY <1>3, <1>4, <1>5, <1>6 DEF Inv

\* The task a history names is a task of that workspace.
LEMMA LastIsThere ==
  ASSUME Inv, NEW p \in Path, NEW g \in Group, last[p][g] # NoTask
  PROVE  last[p][g] \in Started /\ last[p][g] \in Task /\ path[last[p][g]] = p
<1>1. last \in [Path -> [Group -> Started \cup {NoTask}]] /\ Started \subseteq Task
  BY Bounds DEF Inv, TypeOK
<1>2. path[last[p][g]] = p
  BY DEF Inv, Recorded
<1>. QED  BY <1>1, <1>2

\* Steps that touch no document and start no task.
LEMMA QuietStep ==
  ASSUME Inv, TypeOK', NotStarted', Live' \subseteq Live,
         UNCHANGED <<started, path, docs, saved, writing, file, last, overlap>>
  PROVE  Inv'
<1>1. \A t \in Task, g \in Group : Progressing(t, g)'
  BY DEF Inv, Progressing, NextVariant
<1>2. Recorded' /\ BrokenWhileWriting' /\ WorkspaceIsExplained'
  BY DEF Inv, Recorded, BrokenWhileWriting, WorkspaceIsExplained, Explains, Started
<1>. QED  BY <1>1, <1>2 DEF Inv

\* Opening a project forgets the current task, and stops and starts none.
LEMMA OpenProjectPreserves == ASSUME Inv, NEW p \in Path, OpenProject(p) PROVE Inv'
<1>. USE DEF OpenProject, tasks, history
<1>1. TypeOK'
  BY DEF Inv, TypeOK, Started
<1>2. NotStarted' /\ Live' = Live
  BY DEF Inv, NotStarted, Started, Live
<1>. QED  BY <1>1, <1>2, QuietStep

\* Closing the window leaves no task alive, and everything they have written.
LEMMA CloseWindowPreserves == Inv /\ CloseWindow => Inv'
<1>. SUFFICES ASSUME Inv, CloseWindow PROVE Inv'
  OBVIOUS
<1>. USE DEF CloseWindow, tasks, history
<1>1. started \in Nat /\ gone' \in 0 .. started'
  BY WorkspaceAssumption DEF Inv, TypeOK
<1>2. TypeOK'
  BY <1>1 DEF Inv, TypeOK, Started
<1>3. NotStarted'
  BY DEF Inv, NotStarted, Started
<1>4. Live' = {}
  BY <1>1 DEF Live
<1>. QED  BY <1>2, <1>3, <1>4, QuietStep

\* What a task shows has no part in what it has written.
LEMMA StateStepPreserves ==
  ASSUME Inv, NEW t \in Started, Settle(t) \/ Resume(t) \/ Fail(t) PROVE Inv'
<1>. USE DEF Settle, Resume, Fail, app, history
<1>1. UNCHANGED <<open, current, started, gone, path, docs, saved, writing, file, last, overlap>>
  OBVIOUS
<1>2. state' \in [Task -> State] /\ \A u \in Task : u # t => state'[u] = state[u]
  BY Bounds DEF Inv, TypeOK, State
<1>3. TypeOK'
  BY <1>1, <1>2 DEF Inv, TypeOK, Started
<1>4. NotStarted' /\ Live' = Live
  BY <1>1, <1>2 DEF Inv, NotStarted, Started, Live
<1>. QED  BY <1>1, <1>3, <1>4, QuietStep

\* A new task has done nothing, so the history and the files do not know it.
LEMMA StartTaskPreserves == Inv /\ StartTask => Inv'
<1>. SUFFICES ASSUME Inv, StartTask PROVE Inv'
  OBVIOUS
<1>. DEFINE new == started + 1
<1>1. /\ new \in Task /\ new \notin Started /\ started' = new /\ current' = new
      /\ Started' = Started \cup {new} /\ open \in Path
      /\ started \in Nat /\ started' \in 0 .. MaxTasks
      /\ gone' = gone /\ gone \in 0 .. started' /\ Live' = Live \cup {new}
  BY WorkspaceAssumption DEF Inv, TypeOK, StartTask, Started, Live, Task
<1>2. path' = [path EXCEPT ![new] = open] /\ UNCHANGED <<open, state, docs, saved, writing, file, last, overlap>>
  BY DEF StartTask, tasks, history
<1>3. path' \in [Task -> Path \cup {NoPath}] /\ path'[new] = open /\ \A t \in Started : path'[t] = path[t]
  BY <1>1, <1>2, Bounds DEF Inv, TypeOK
<1>. HIDE DEF new
<1>4. TypeOK'
  <2>1. /\ current' \in Started' \cup {NoTask} /\ \A t \in Started' : path'[t] \in Path
        /\ last' \in [Path -> [Group -> Started' \cup {NoTask}]]
    BY <1>1, <1>2, <1>3 DEF Inv, TypeOK
  <2>. QED  BY <1>1, <1>2, <1>3, <2>1 DEF Inv, TypeOK
<1>5. \A t \in Task, g \in Group : Progressing(t, g)'
  BY <1>2 DEF Inv, Progressing, NextVariant
<1>6. \A g \in Group : docs[new][g] = "unopened"
  BY <1>1 DEF Inv, NotStarted
<1>7. Recorded'
  <2>1. \A p \in Path, g \in Group : last[p][g] # NoTask =>
          path'[last[p][g]] = p /\ docs[last[p][g]][g] # "unopened"
    BY <1>3, LastIsThere DEF Inv, Recorded
  <2>2. \A t \in Live', g \in Group :
          docs[t][g] = "open" /\ <<path'[t], g>> \notin overlap => last[path'[t]][g] = t
    BY <1>1, <1>3, <1>6, Bounds DEF Inv, Recorded
  <2>3. \A p \in Path, g \in Group, v \in Variant :
          file[p][g][v].by # NoTask => /\ file[p][g][v].by \in Started'
                                       /\ docs[file[p][g][v].by][g] # "unopened"
    BY <1>1 DEF Inv, Recorded
  <2>. QED  BY <1>2, <2>1, <2>2, <2>3 DEF Recorded
<1>8. BrokenWhileWriting' /\ WorkspaceIsExplained'
  BY <1>2 DEF Inv, BrokenWhileWriting, WorkspaceIsExplained, Explains
<1>9. NotStarted'
  BY <1>1, <1>2 DEF Inv, NotStarted
<1>. QED  BY <1>4, <1>5, <1>7, <1>8, <1>9 DEF Inv

-----------------------------------------------------------------------------
\* A task that begins on the documents of a group has written none of them; if no
\* other task is on them, it is the one to explain them from here on.
LEMMA OpenDocumentsPreserves ==
  ASSUME Inv, NEW t \in Started, NEW g \in Group, OpenDocuments(t, g) PROVE Inv'
<1>0. Opened(t, g)
  BY OpenDocumentsStep DEF Inv
<1>1. TypeOK /\ Progressing(t, g) /\ TypeOK'
  BY <1>0, Bounds DEF Inv, Opened
<1>2. /\ t \in Task /\ path[t] \in Path /\ t # NoTask
      /\ docs[t][g] = "unopened" /\ docs'[t][g] = "open"
      /\ \A u \in Task, h \in Group : u # t \/ h # g => docs'[u][h] = docs[u][h]
      /\ \A u \in Task : u # t => state'[u] = state[u]
      /\ UNCHANGED <<started, gone, path, saved, writing, file>>
  <2>1. /\ t \in Task /\ path[t] \in Path
        /\ docs[t][g] = "unopened" /\ docs'[t][g] = "open"
        /\ \A u \in Task, h \in Group : u # t \/ h # g => docs'[u][h] = docs[u][h]
        /\ \A u \in Task : u # t => state'[u] = state[u]
        /\ UNCHANGED <<app, saved, writing, file>>
    BY <1>0 DEF Opened
  <2>2. t # NoTask
    BY <2>1, Bounds
  <2>. QED  BY <2>1, <2>2 DEF app
<1>3. /\ last'[path[t]][g] = t
      /\ \A p \in Path, h \in Group : p # path[t] \/ h # g => last'[p][h] = last[p][h]
  BY <1>0 DEF Opened
<1>4. /\ \A p \in Path, h \in Group : <<p, h>> \notin overlap' => <<p, h>> \notin overlap
      /\ (\E u \in Live : u # t /\ path[u] = path[t] /\ docs[u][g] = "open")
           => <<path[t], g>> \in overlap'
  BY <1>0 DEF Opened
<1>5. saved[t][g] = {} /\ writing[t][g] = {}
  BY <1>1, <1>2 DEF Progressing
<1>6. Started' = Started /\ Started \subseteq Task /\ Live' = Live /\ Live \subseteq Started
  BY <1>1, <1>2, Bounds DEF Started, Live
<1>7. ASSUME NEW u \in Task, NEW h \in Group PROVE Progressing(u, h)'
  <2>1. Progressing(u, h)
    BY DEF Inv
  <2>2. CASE u = t /\ h = g
    BY <1>2, <1>5, <2>2 DEF Progressing, Variant
  <2>3. CASE u # t \/ h # g
    BY <1>2, <2>1, <2>3 DEF Progressing, NextVariant
  <2>. QED  BY <2>2, <2>3
<1>8. ASSUME NEW p \in Path, NEW h \in Group, p # path[t] \/ h # g, last[p][h] # NoTask
      PROVE  /\ last'[p][h] = last[p][h] /\ last[p][h] \in Task
             /\ path[last[p][h]] = p /\ docs'[last[p][h]][h] = docs[last[p][h]][h]
  BY <1>2, <1>3, <1>8, LastIsThere
<1>9. Recorded'
  <2>1. ASSUME NEW p \in Path, NEW h \in Group, last'[p][h] # NoTask
        PROVE  path[last'[p][h]] = p /\ docs'[last'[p][h]][h] # "unopened"
    <3>1. CASE p = path[t] /\ h = g
      BY <1>2, <1>3, <3>1
    <3>2. CASE p # path[t] \/ h # g
      BY <1>3, <1>8, <2>1, <3>2 DEF Inv, Recorded
    <3>. QED  BY <3>1, <3>2
  <2>2. ASSUME NEW u \in Live, NEW h \in Group, docs'[u][h] = "open", <<path[u], h>> \notin overlap'
        PROVE  last'[path[u]][h] = u
    <3>1. path[u] \in Path /\ u \in Task /\ <<path[u], h>> \notin overlap
      BY <1>1, <1>4, <1>6, <2>2 DEF TypeOK
    <3>2. CASE u = t /\ h = g
      BY <1>3, <3>2
    <3>3. CASE u # t /\ h = g
      BY <1>2, <1>3, <1>4, <2>2, <3>1, <3>3 DEF Inv, Recorded
    <3>4. CASE h # g
      BY <1>2, <1>3, <2>2, <3>1, <3>4 DEF Inv, Recorded
    <3>. QED  BY <3>2, <3>3, <3>4
  <2>3. ASSUME NEW p \in Path, NEW h \in Group, NEW v \in Variant, file[p][h][v].by # NoTask
        PROVE  file[p][h][v].by \in Started /\ docs'[file[p][h][v].by][h] # "unopened"
    BY <1>2, <1>6, <2>3 DEF Inv, Recorded
  <2>. QED  BY <1>2, <1>6, <2>1, <2>2, <2>3 DEF Recorded
<1>10. BrokenWhileWriting'
  <2>. SUFFICES ASSUME NEW p \in Path, NEW h \in Group, NEW v \in writing'[last'[p][h]][h],
                       <<p, h>> \notin overlap', last'[p][h] # NoTask
                PROVE  file'[p][h][v] = [by |-> last'[p][h], whole |-> FALSE]
    BY DEF BrokenWhileWriting
  <2>1. CASE p = path[t] /\ h = g
    BY <1>2, <1>3, <1>5, <2>1
  <2>2. CASE p # path[t] \/ h # g
    BY <1>2, <1>3, <1>4, <2>2 DEF Inv, BrokenWhileWriting
  <2>. QED  BY <2>1, <2>2
<1>11. WorkspaceIsExplained'
  <2>. SUFFICES ASSUME NEW p \in Path, NEW h \in Group, <<p, h>> \notin overlap', last'[p][h] # NoTask
                PROVE  Explains(last[p][h], p, h)'
    BY DEF WorkspaceIsExplained, Explains
  <2>1. CASE p = path[t] /\ h = g
    <3>1. \A v \in Variant : file[p][h][v].by # t
      BY <1>2, <2>1 DEF Inv, Recorded
    <3>2. \A v \in Variant : file[p][h][v] # [by |-> t, whole |-> TRUE]
                              /\ file[p][h][v] # [by |-> t, whole |-> FALSE]
      BY <3>1
    <3>. QED  BY <1>2, <1>3, <1>5, <2>1, <3>1, <3>2, Bounds DEF Explains
  <2>2. CASE p # path[t] \/ h # g
    <3>1. Explains(last[p][h], p, h)
      BY <1>3, <1>4, <2>2 DEF Inv, WorkspaceIsExplained
    <3>2. last'[p][h] = last[p][h] /\ docs'[last[p][h]][h] = docs[last[p][h]][h]
      BY <1>3, <1>8, <2>2
    <3>. QED  BY <1>2, <3>1, <3>2 DEF Explains
  <2>. QED  BY <2>1, <2>2
<1>12. NotStarted'
  BY <1>2, <1>6 DEF Inv, NotStarted
<1>. QED  BY <1>1, <1>7, <1>9, <1>10, <1>11, <1>12 DEF Inv

\* A task that is on the documents of a group, in a workspace where no other task has
\* been on them at the same time, is the task to explain them; elsewhere it is not.
LEMMA OpenTaskIsLast ==
  ASSUME Inv, NEW t \in Live, NEW g \in Group, docs[t][g] = "open"
  PROVE  /\ t \in Task /\ t # NoTask /\ path[t] \in Path
         /\ <<path[t], g>> \notin overlap => last[path[t]][g] = t
         /\ \A p \in Path, h \in Group :
              last[p][h] # NoTask /\ (p # path[t] \/ h # g)
                => last[p][h] \in Task /\ (last[p][h] # t \/ h # g)
<1>1. t \in Task /\ t # NoTask /\ path[t] \in Path
  BY Bounds DEF Inv, TypeOK
<1>2. <<path[t], g>> \notin overlap => last[path[t]][g] = t
  BY DEF Inv, Recorded
<1>3. \A p \in Path, h \in Group :
        last[p][h] # NoTask /\ (p # path[t] \/ h # g)
          => last[p][h] \in Task /\ (last[p][h] # t \/ h # g)
  BY LastIsThere
<1>. QED  BY <1>1, <1>2, <1>3

\* What it takes to explain the documents of a group after a step.
LEMMA ExplainsAfter ==
  ASSUME NEW t, NEW p, NEW g, last'[p][g] = t,
         \A v \in Variant :
           /\ v \in saved'[t][g] <=> file'[p][g][v] = [by |-> t, whole |-> TRUE]
           /\ file'[p][g][v] = [by |-> t, whole |-> FALSE] =>
                v \in writing'[t][g] \/ docs'[t][g] = "closed",
         file'[p][g]["TEACHER"].by = t => file'[p][g]["STUDENT"] = [by |-> t, whole |-> TRUE]
  PROVE  Explains(last[p][g], p, g)'
BY DEF Explains

\* Documents that no step touches stay explained.
LEMMA ExplainsStays ==
  ASSUME NEW t, NEW p, NEW g, last'[p][g] = t, Explains(t, p, g),
         \A v \in Variant : file'[p][g][v] = file[p][g][v],
         saved'[t][g] = saved[t][g], writing'[t][g] = writing[t][g], docs'[t][g] = docs[t][g]
  PROVE  Explains(last[p][g], p, g)'
<1>1. \A v \in Variant :
        /\ v \in saved'[t][g] <=> file'[p][g][v] = [by |-> t, whole |-> TRUE]
        /\ file'[p][g][v] = [by |-> t, whole |-> FALSE] =>
             v \in writing'[t][g] \/ docs'[t][g] = "closed"
  BY DEF Explains
<1>2. file'[p][g]["TEACHER"].by = t => file'[p][g]["STUDENT"] = [by |-> t, whole |-> TRUE]
  BY Bounds DEF Explains
<1>. QED  BY <1>1, <1>2, ExplainsAfter

\* The file is truncated: it is this task's, and broken.
LEMMA BeginSavePreserves ==
  ASSUME Inv, NEW t \in Live, NEW g \in Group, BeginSave(t, g) PROVE Inv'
<1>. DEFINE w == NextVariant(t, g)
<1>0. t \in Started
  BY Bounds DEF Inv
<1>1. Begun(t, g) /\ docs[t][g] = "open"
  BY <1>0, BeginSaveStep DEF Inv, BeginSave
<1>2. /\ w \in Variant /\ writing[t][g] = {} /\ writing'[t][g] = {w}
      /\ \A u \in Task, h \in Group : u # t \/ h # g => writing'[u][h] = writing[u][h]
      /\ UNCHANGED <<started, gone, path, state, docs, saved, last, overlap>> /\ TypeOK'
  BY <1>1 DEF Begun, app, history
<1>3. /\ file'[path[t]][g][w] = [by |-> t, whole |-> FALSE]
      /\ \A p \in Path, h \in Group, v \in Variant :
           p # path[t] \/ h # g \/ v # w => file'[p][h][v] = file[p][h][v]
  BY <1>1 DEF Begun
<1>4. /\ t \in Task /\ t # NoTask /\ path[t] \in Path
      /\ <<path[t], g>> \notin overlap => last[path[t]][g] = t
      /\ \A p \in Path, h \in Group :
           last[p][h] # NoTask /\ (p # path[t] \/ h # g)
             => last[p][h] \in Task /\ (last[p][h] # t \/ h # g)
  BY <1>1, OpenTaskIsLast
<1>5. \/ saved[t][g] = {} /\ w = "STUDENT"
      \/ saved[t][g] = {"STUDENT"} /\ w = "TEACHER"
  <2>1. saved \in [Task -> [Group -> Savings]]
    BY DEF Inv, TypeOK, Savings
  <2>2. saved[t][g] \in Savings /\ saved[t][g] # Variant
    BY <1>1, <1>4, <2>1 DEF Inv, Progressing
  <2>. QED  BY <2>2 DEF Savings, NextVariant
<1>6. ASSUME NEW u \in Task, NEW h \in Group PROVE Progressing(u, h)'
  <2>1. Progressing(u, h)
    BY DEF Inv
  <2>2. CASE u = t /\ h = g
    BY <1>1, <1>2, <2>1, <2>2 DEF Progressing, NextVariant
  <2>3. CASE u # t \/ h # g
    BY <1>2, <2>1, <2>3 DEF Progressing, NextVariant
  <2>. QED  BY <2>2, <2>3
<1>. HIDE DEF w
<1>7. Recorded'
  <2>1. ASSUME NEW p \in Path, NEW h \in Group, NEW v \in Variant, file'[p][h][v].by # NoTask
        PROVE  file'[p][h][v].by \in Started /\ docs[file'[p][h][v].by][h] # "unopened"
    <3>1. CASE p = path[t] /\ h = g /\ v = w
      BY <1>0, <1>1, <1>3, <3>1
    <3>2. CASE p # path[t] \/ h # g \/ v # w
      BY <1>3, <2>1, <3>2 DEF Inv, Recorded
    <3>. QED  BY <3>1, <3>2
  <2>. QED  BY <1>2, <2>1 DEF Inv, Recorded, Started, Live
<1>8. BrokenWhileWriting'
  <2>. SUFFICES ASSUME NEW p \in Path, NEW h \in Group, NEW v \in writing'[last[p][h]][h],
                       <<p, h>> \notin overlap, last[p][h] # NoTask
                PROVE  file'[p][h][v] = [by |-> last[p][h], whole |-> FALSE]
    BY <1>2 DEF BrokenWhileWriting
  <2>1. CASE p = path[t] /\ h = g
    BY <1>2, <1>3, <1>4, <2>1
  <2>2. CASE p # path[t] \/ h # g
    <3>1. v \in writing[last[p][h]][h]
      BY <1>2, <1>4, <2>2
    <3>2. v \in Variant
      <4>1. writing \in [Task -> [Group -> Writings]] /\ last[p][h] \in Task
        BY <1>4, <2>2 DEF Inv, TypeOK, Writings
      <4>2. writing[last[p][h]][h] \in Writings
        BY <4>1
      <4>. QED  BY <3>1, <4>2 DEF Writings, Variant
    <3>. QED  BY <1>3, <2>2, <3>1, <3>2 DEF Inv, BrokenWhileWriting
  <2>. QED  BY <2>1, <2>2
<1>9. WorkspaceIsExplained'
  <2>. SUFFICES ASSUME NEW p \in Path, NEW h \in Group, <<p, h>> \notin overlap, last[p][h] # NoTask
                PROVE  Explains(last[p][h], p, h)'
    BY <1>2 DEF WorkspaceIsExplained, Explains
  <2>1. Explains(last[p][h], p, h)
    BY DEF Inv, WorkspaceIsExplained
  <2>2. CASE p = path[t] /\ h = g
    <3>1. /\ last[p][h] = t /\ last'[p][h] = t
          /\ file'[p][h][w] = [by |-> t, whole |-> FALSE]
          /\ \A v \in Variant : v # w => file'[p][h][v] = file[p][h][v]
      BY <1>2, <1>3, <1>4, <2>2
    <3>2. /\ "TEACHER" \notin saved[t][g]
          /\ file[p][h]["TEACHER"].by = t => "STUDENT" \in saved[t][g]
      BY <1>5, <2>1, <2>2, <3>1, Bounds DEF Explains
    <3>3. ASSUME NEW v \in Variant
          PROVE  /\ v \in saved[t][g] <=> file'[p][h][v] = [by |-> t, whole |-> TRUE]
                 /\ file'[p][h][v] = [by |-> t, whole |-> FALSE] =>
                      v \in writing'[t][g] \/ docs[t][g] = "closed"
      <4>1. CASE v = w
        <5>1. [by |-> t, whole |-> FALSE] # [by |-> t, whole |-> TRUE]
          OBVIOUS
        <5>2. v \notin saved[t][g] /\ v \in writing'[t][g]
          BY <1>2, <1>5, <4>1
        <5>. QED  BY <3>1, <4>1, <5>1, <5>2
      <4>2. CASE v # w
        <5>1. /\ v \in saved[t][g] <=> file[p][h][v] = [by |-> t, whole |-> TRUE]
              /\ file[p][h][v] = [by |-> t, whole |-> FALSE] =>
                   v \in writing[t][g] \/ docs[t][g] = "closed"
          BY <2>1, <2>2, <3>1 DEF Explains
        <5>2. file'[p][h][v] = file[p][h][v] /\ v \notin writing[t][g]
          BY <1>2, <3>1, <4>2
        <5>. QED  BY <5>1, <5>2, Zenon
      <4>. QED  BY <4>1, <4>2
    <3>4. file'[p][h]["TEACHER"].by = t => file'[p][h]["STUDENT"] = [by |-> t, whole |-> TRUE]
      <4>1. CASE w = "STUDENT"
        BY <1>5, <3>1, <3>2, <4>1, Bounds
      <4>2. CASE w = "TEACHER"
        BY <1>5, <2>1, <2>2, <3>1, <4>2, Bounds DEF Explains
      <4>. QED  BY <1>5, <4>1, <4>2
    <3>5. saved' = saved /\ docs' = docs
      BY <1>2
    <3>. QED  BY <2>2, <3>1, <3>3, <3>4, <3>5, ExplainsAfter
  <2>3. CASE p # path[t] \/ h # g
    <3>1. \A v \in Variant : file'[p][h][v] = file[p][h][v]
      BY <1>3, <2>3
    <3>2. writing'[last[p][h]][h] = writing[last[p][h]][h]
      BY <1>2, <1>4, <2>3
    <3>3. saved' = saved /\ docs' = docs /\ last' = last
      BY <1>2
    <3>. QED  BY <2>1, <3>1, <3>2, <3>3, ExplainsStays
  <2>. QED  BY <2>2, <2>3
<1>10. NotStarted'
  BY <1>2, Bounds DEF Inv, NotStarted, Started
<1>. QED  BY <1>2, <1>6, <1>7, <1>8, <1>9, <1>10 DEF Inv

\* The file is complete: what was broken is saved.
LEMMA EndSavePreserves ==
  ASSUME Inv, NEW t \in Live, NEW g \in Group, EndSave(t, g) PROVE Inv'
<1>. DEFINE w == NextVariant(t, g)
<1>0. t \in Started
  BY Bounds DEF Inv
<1>1. Ended(t, g, NextVariant(t, g))
  <2>1. Progressing(t, g)
    BY Bounds DEF Inv
  <2>. QED  BY <1>0, <2>1, EndSaveStep DEF Inv
<1>2. /\ w \in Variant /\ docs[t][g] = "open" /\ writing[t][g] = {w} /\ writing'[t][g] = {}
      /\ saved'[t][g] = saved[t][g] \cup {w} /\ saved'[t][g] \in {{"STUDENT"}, Variant}
      /\ docs'[t][g] = IF saved'[t][g] = Variant THEN "closed" ELSE "open"
      /\ \A u \in Task, h \in Group : u # t \/ h # g =>
           /\ writing'[u][h] = writing[u][h] /\ saved'[u][h] = saved[u][h]
           /\ docs'[u][h] = docs[u][h]
      /\ UNCHANGED <<started, gone, path, state, last, overlap>> /\ TypeOK'
  BY <1>1 DEF Ended, app, history
<1>3. /\ file'[path[t]][g][w].by = file[path[t]][g][w].by
      /\ <<path[t], g>> \notin overlap =>
           file'[path[t]][g][w] = [by |-> file[path[t]][g][w].by, whole |-> TRUE]
      /\ \A p \in Path, h \in Group, v \in Variant :
           p # path[t] \/ h # g \/ v # w => file'[p][h][v] = file[p][h][v]
  BY <1>1 DEF Ended
<1>4. /\ t \in Task /\ t # NoTask /\ path[t] \in Path
      /\ <<path[t], g>> \notin overlap => last[path[t]][g] = t
      /\ \A p \in Path, h \in Group :
           last[p][h] # NoTask /\ (p # path[t] \/ h # g)
             => last[p][h] \in Task /\ (last[p][h] # t \/ h # g)
  BY <1>2, OpenTaskIsLast
<1>. HIDE DEF w
<1>5. ASSUME NEW u \in Task, NEW h \in Group
      PROVE  /\ Progressing(u, h)'
             /\ docs'[u][h] = "unopened" <=> docs[u][h] = "unopened"
             /\ docs'[u][h] = "open" => docs[u][h] = "open"
  <2>1. Progressing(u, h)
    BY DEF Inv
  <2>2. CASE u = t /\ h = g
    BY <1>2, <2>2 DEF Progressing
  <2>3. CASE u # t \/ h # g
    BY <1>2, <2>1, <2>3 DEF Progressing, NextVariant
  <2>. QED  BY <2>2, <2>3
<1>6. ASSUME NEW p \in Path, NEW h \in Group, NEW v \in Variant
      PROVE  file'[p][h][v].by = file[p][h][v].by
  BY <1>3
<1>7. Recorded'
  <2>1. ASSUME NEW p \in Path, NEW h \in Group, last[p][h] # NoTask
        PROVE  path[last[p][h]] = p /\ docs'[last[p][h]][h] # "unopened"
    BY <1>5, <2>1, LastIsThere DEF Inv, Recorded
  <2>2. ASSUME NEW u \in Live, NEW h \in Group, docs'[u][h] = "open", <<path[u], h>> \notin overlap
        PROVE  last[path[u]][h] = u
    BY <1>5, <2>2, Bounds DEF Inv, Recorded
  <2>3. ASSUME NEW p \in Path, NEW h \in Group, NEW v \in Variant, file'[p][h][v].by # NoTask
        PROVE  file'[p][h][v].by \in Started /\ docs'[file'[p][h][v].by][h] # "unopened"
    BY <1>5, <1>6, <2>3, Bounds DEF Inv, Recorded
  <2>. QED  BY <1>2, <2>1, <2>2, <2>3 DEF Recorded, Started, Live
<1>8. BrokenWhileWriting'
  <2>. SUFFICES ASSUME NEW p \in Path, NEW h \in Group, NEW v \in writing'[last[p][h]][h],
                       <<p, h>> \notin overlap, last[p][h] # NoTask
                PROVE  file'[p][h][v] = [by |-> last[p][h], whole |-> FALSE]
    BY <1>2 DEF BrokenWhileWriting
  <2>1. CASE p = path[t] /\ h = g
    BY <1>2, <1>4, <2>1
  <2>2. CASE p # path[t] \/ h # g
    <3>1. v \in writing[last[p][h]][h]
      BY <1>2, <1>4, <2>2
    <3>2. v \in Variant
      <4>1. writing \in [Task -> [Group -> Writings]] /\ last[p][h] \in Task
        BY <1>4, <2>2 DEF Inv, TypeOK, Writings
      <4>2. writing[last[p][h]][h] \in Writings
        BY <4>1
      <4>. QED  BY <3>1, <4>2 DEF Writings, Variant
    <3>. QED  BY <1>3, <2>2, <3>1, <3>2 DEF Inv, BrokenWhileWriting
  <2>. QED  BY <2>1, <2>2
<1>9. WorkspaceIsExplained'
  <2>. SUFFICES ASSUME NEW p \in Path, NEW h \in Group, <<p, h>> \notin overlap, last[p][h] # NoTask
                PROVE  Explains(last[p][h], p, h)'
    BY <1>2 DEF WorkspaceIsExplained, Explains
  <2>1. Explains(last[p][h], p, h)
    BY DEF Inv, WorkspaceIsExplained
  <2>2. CASE p = path[t] /\ h = g
    <3>1. last[p][h] = t /\ last'[p][h] = t /\ file[p][h][w] = [by |-> t, whole |-> FALSE]
      BY <1>2, <1>4, <2>2 DEF Inv, BrokenWhileWriting
    <3>2. file'[p][h][w] = [by |-> t, whole |-> TRUE]
      BY <1>3, <2>2, <3>1
    <3>3. ASSUME NEW v \in Variant
          PROVE  /\ v \in saved'[t][g] <=> file'[p][h][v] = [by |-> t, whole |-> TRUE]
                 /\ file'[p][h][v] = [by |-> t, whole |-> FALSE] =>
                      v \in writing'[t][g] \/ docs'[t][g] = "closed"
      <4>1. CASE v = w
        <5>1. [by |-> t, whole |-> TRUE] # [by |-> t, whole |-> FALSE]
          OBVIOUS
        <5>. QED  BY <1>2, <3>2, <4>1, <5>1
      <4>2. CASE v # w
        <5>1. /\ v \in saved[t][g] <=> file[p][h][v] = [by |-> t, whole |-> TRUE]
              /\ file[p][h][v] = [by |-> t, whole |-> FALSE] =>
                   v \in writing[t][g] \/ docs[t][g] = "closed"
          BY <2>1, <2>2, <3>1 DEF Explains
        <5>2. /\ file'[p][h][v] = file[p][h][v] /\ v \notin writing[t][g]
              /\ docs[t][g] # "closed"
              /\ v \in saved'[t][g] <=> v \in saved[t][g]
          BY <1>2, <1>3, <4>2
        <5>. QED  BY <5>1, <5>2, Zenon
      <4>. QED  BY <4>1, <4>2
    <3>4. file'[p][h]["TEACHER"].by = t => file'[p][h]["STUDENT"] = [by |-> t, whole |-> TRUE]
      <4>1. CASE w = "STUDENT"
        BY <3>2, <4>1
      <4>2. CASE w = "TEACHER"
        <5>1. file[p][h]["STUDENT"] = [by |-> t, whole |-> TRUE]
          BY <2>1, <3>1, <4>2 DEF Explains
        <5>. QED  BY <1>3, <4>2, <5>1, Bounds
      <4>. QED  BY <1>2, <4>1, <4>2, Bounds
    <3>. QED  BY <2>2, <3>1, <3>3, <3>4, ExplainsAfter
  <2>3. CASE p # path[t] \/ h # g
    <3>1. \A v \in Variant : file'[p][h][v] = file[p][h][v]
      BY <1>3, <2>3
    <3>2. /\ writing'[last[p][h]][h] = writing[last[p][h]][h]
          /\ saved'[last[p][h]][h] = saved[last[p][h]][h]
          /\ docs'[last[p][h]][h] = docs[last[p][h]][h]
      BY <1>2, <1>4, <2>3
    <3>3. last' = last
      BY <1>2
    <3>. QED  BY <2>1, <3>1, <3>2, <3>3, ExplainsStays
  <2>. QED  BY <2>2, <2>3
<1>10. NotStarted'
  BY <1>2, Bounds DEF Inv, NotStarted, Started
<1>. QED  BY <1>2, <1>5, <1>7, <1>8, <1>9, <1>10 DEF Inv

\* The documents are given up: what was being written stays broken.
LEMMA AbandonDocumentsPreserves ==
  ASSUME Inv, NEW t \in Started, NEW g \in Group, AbandonDocuments(t, g) PROVE Inv'
<1>1. Abandoned(t, g)
  BY AbandonDocumentsStep DEF Inv
<1>2. /\ t \in Task /\ docs[t][g] = "open" /\ docs'[t][g] = "closed" /\ writing'[t][g] = {}
      /\ \A u \in Task, h \in Group : u # t \/ h # g =>
           docs'[u][h] = docs[u][h] /\ writing'[u][h] = writing[u][h]
      /\ UNCHANGED <<started, gone, path, state, saved, file, last, overlap>> /\ TypeOK'
  BY <1>1 DEF Abandoned, app, history
<1>3. ASSUME NEW u \in Task, NEW h \in Group
      PROVE  /\ Progressing(u, h)'
             /\ docs'[u][h] = "unopened" <=> docs[u][h] = "unopened"
             /\ docs'[u][h] = "open" => docs[u][h] = "open"
             /\ docs[u][h] = "closed" => docs'[u][h] = "closed"
             /\ writing'[u][h] = writing[u][h] \/ (writing'[u][h] = {} /\ docs'[u][h] = "closed")
  <2>1. Progressing(u, h)
    BY DEF Inv
  <2>2. CASE u = t /\ h = g
    BY <1>2, <2>2 DEF Progressing
  <2>3. CASE u # t \/ h # g
    BY <1>2, <2>1, <2>3 DEF Progressing, NextVariant
  <2>. QED  BY <2>2, <2>3
<1>4. Recorded'
  <2>1. ASSUME NEW p \in Path, NEW h \in Group, last[p][h] # NoTask
        PROVE  path[last[p][h]] = p /\ docs'[last[p][h]][h] # "unopened"
    BY <1>3, <2>1, LastIsThere DEF Inv, Recorded
  <2>2. ASSUME NEW u \in Live, NEW h \in Group, docs'[u][h] = "open", <<path[u], h>> \notin overlap
        PROVE  last[path[u]][h] = u
    BY <1>3, <2>2, Bounds DEF Inv, Recorded
  <2>3. ASSUME NEW p \in Path, NEW h \in Group, NEW v \in Variant, file[p][h][v].by # NoTask
        PROVE  file[p][h][v].by \in Started /\ docs'[file[p][h][v].by][h] # "unopened"
    BY <1>3, <2>3, Bounds DEF Inv, Recorded
  <2>. QED  BY <1>2, <2>1, <2>2, <2>3 DEF Recorded, Started, Live
<1>5. BrokenWhileWriting'
  <2>. SUFFICES ASSUME NEW p \in Path, NEW h \in Group, NEW v \in writing'[last[p][h]][h],
                       <<p, h>> \notin overlap, last[p][h] # NoTask
                PROVE  file[p][h][v] = [by |-> last[p][h], whole |-> FALSE]
    BY <1>2 DEF BrokenWhileWriting
  <2>1. v \in writing[last[p][h]][h]
    BY <1>3, LastIsThere
  <2>. QED  BY <2>1 DEF Inv, BrokenWhileWriting
<1>6. WorkspaceIsExplained'
  <2>. SUFFICES ASSUME NEW p \in Path, NEW h \in Group, <<p, h>> \notin overlap, last[p][h] # NoTask
                PROVE  Explains(last[p][h], p, h)'
    BY <1>2 DEF WorkspaceIsExplained, Explains
  <2>1. Explains(last[p][h], p, h) /\ last[p][h] \in Task
    BY LastIsThere DEF Inv, WorkspaceIsExplained
  <2>2. /\ docs[last[p][h]][h] = "closed" => docs'[last[p][h]][h] = "closed"
        /\ \/ writing'[last[p][h]][h] = writing[last[p][h]][h]
           \/ docs'[last[p][h]][h] = "closed"
    BY <1>3, <2>1
  <2>. QED  BY <1>2, <2>1, <2>2 DEF Explains
<1>7. NotStarted'
  <2>. SUFFICES ASSUME NEW u \in Task \ Started
                PROVE  /\ state[u] = "RUNNING"
                       /\ \A h \in Group : docs'[u][h] = "unopened" /\ writing'[u][h] = {}
    BY <1>2 DEF NotStarted, Started
  <2>1. u # t
    OBVIOUS
  <2>. QED  BY <1>2, <2>1 DEF Inv, NotStarted
<1>. QED  BY <1>2, <1>3, <1>4, <1>5, <1>6, <1>7 DEF Inv

\* Every step of the window and of a started task preserves the invariant.
LEMMA NextPreserves == Inv /\ [Next]_vars => Inv'
<1>. SUFFICES ASSUME Inv, [Next]_vars PROVE Inv'
  OBVIOUS
<1>1. CASE \E p \in Path : OpenProject(p)
  BY <1>1, OpenProjectPreserves
<1>2. CASE StartTask
  BY <1>2, StartTaskPreserves
<1>3. CASE \E t \in Live : TaskStep(t)
  <2>1. PICK t \in Live : TaskStep(t)
    BY <1>3
  <2>. t \in Started
    BY Bounds DEF Inv
  <2>2. CASE Settle(t) \/ Resume(t) \/ Fail(t)
    BY <2>2, StateStepPreserves
  <2>3. ASSUME NEW g \in Group, OpenDocuments(t, g) PROVE Inv'
    BY <2>3, OpenDocumentsPreserves
  <2>4. ASSUME NEW g \in Group, BeginSave(t, g) PROVE Inv'
    BY <2>4, BeginSavePreserves
  <2>5. ASSUME NEW g \in Group, EndSave(t, g) PROVE Inv'
    BY <2>5, EndSavePreserves
  <2>6. ASSUME NEW g \in Group, AbandonDocuments(t, g) PROVE Inv'
    BY <2>6, AbandonDocumentsPreserves
  <2>. QED  BY <2>1, <2>2, <2>3, <2>4, <2>5, <2>6 DEF TaskStep
<1>4. CASE CloseWindow
  BY <1>4, CloseWindowPreserves
<1>5. CASE UNCHANGED vars
  <2>1. UNCHANGED <<open, current, started, gone, path, state, docs, saved, writing, file, last, overlap>>
    BY <1>5 DEF vars, app, tasks, history
  <2>2. TypeOK' /\ NotStarted' /\ Live' = Live
    BY <2>1 DEF Inv, TypeOK, NotStarted, Started, Live
  <2>. QED  BY <2>1, <2>2, QuietStep
<1>. QED  BY <1>1, <1>2, <1>3, <1>4, <1>5 DEF Next

\* The inductive invariant holds in every state, for any workspaces, groups and tasks.
THEOREM Invariance == Spec => []Inv
BY InitInv, NextPreserves, PTL DEF Spec

-----------------------------------------------------------------------------
\* The variables keep their types, whatever projects are opened and tasks started.
THEOREM TypeCorrect == Spec => []TypeOK
<1>1. Inv => TypeOK
  BY DEF Inv
<1>. QED  BY <1>1, Invariance, PTL

\* What the workspaces hold is explained by the last task on the documents of a group,
\* for any number of workspaces, groups and tasks, until two tasks are on them at once.
THEOREM WorkspaceExplained == Spec => []WorkspaceIsExplained
<1>1. Inv => WorkspaceIsExplained
  BY DEF Inv
<1>. QED  BY <1>1, Invariance, PTL

-----------------------------------------------------------------------------
(***************************************************************************)
(* Saving in two steps, a task is a TaskLifecycle.                         *)
(***************************************************************************)
\* A task that shows SUCCEEDED is on no documents.
Idle == \A t \in Task : state[t] = "SUCCEEDED" => \A g \in Group : docs[t][g] # "open"

\* A task settles only when it is on no documents, and resumes before it is on some.
LEMMA IdleInvariance == Spec => []Idle
<1>1. Init => Idle
  <2>. SUFFICES ASSUME Init, NEW t \in Task PROVE state[t] # "SUCCEEDED"
    BY DEF Idle
  <2>. QED  BY DEF Init
<1>2. Inv /\ Idle /\ [Next]_vars => Idle'
  <2>. SUFFICES ASSUME Inv, Idle, [Next]_vars PROVE Idle'
    OBVIOUS
  <2>1. ASSUME NEW t \in Started, Settle(t) \/ Resume(t) \/ Fail(t) PROVE Idle'
    <3>1. /\ t \in Task /\ docs' = docs
          /\ \A u \in Task : u # t => state'[u] = state[u]
          /\ state'[t] = "SUCCEEDED" => \A g \in Group : docs[t][g] # "open"
      BY <2>1, Bounds DEF Inv, TypeOK, Settle, Resume, Fail
    <3>. QED  BY <3>1 DEF Idle
  <2>2. ASSUME NEW t \in Started, NEW g \in Group, OpenDocuments(t, g) PROVE Idle'
    <3>1. Opened(t, g)
      BY <2>2, OpenDocumentsStep DEF Inv
    <3>2. state'[t] = "RUNNING"
      BY <2>2, Bounds DEF Inv, TypeOK, OpenDocuments
    <3>. QED  BY <3>1, <3>2 DEF Idle, Opened
  <2>3. ASSUME NEW t \in Started, NEW g \in Group, BeginSave(t, g) PROVE Idle'
    BY <2>3 DEF Idle, BeginSave
  <2>4. ASSUME NEW t \in Started, NEW g \in Group, EndSave(t, g) PROVE Idle'
    <3>1. Ended(t, g, NextVariant(t, g))
      BY <2>4, Bounds, EndSaveStep DEF Inv
    <3>2. state' = state /\ \A u \in Task, h \in Group : docs'[u][h] = "open" => docs[u][h] = "open"
      BY <3>1 DEF Ended
    <3>. QED  BY <3>2 DEF Idle
  <2>5. ASSUME NEW t \in Started, NEW g \in Group, AbandonDocuments(t, g) PROVE Idle'
    <3>1. Abandoned(t, g)
      BY <2>5, AbandonDocumentsStep DEF Inv
    <3>. QED  BY <3>1 DEF Idle, Abandoned
  <2>6. CASE (\E p \in Path : OpenProject(p)) \/ CloseWindow \/ StartTask \/ UNCHANGED vars
    BY <2>6 DEF Idle, OpenProject, CloseWindow, StartTask, vars, tasks
  <2>7. Live \subseteq Started
    BY Bounds DEF Inv
  <2>. QED  BY <2>1, <2>2, <2>3, <2>4, <2>5, <2>6, <2>7 DEF Next, TaskStep
<1>. QED  BY <1>1, <1>2, Invariance, PTL DEF Spec

-----------------------------------------------------------------------------
(***************************************************************************)
(* Saving in two steps, a task is a TaskLifecycle.                         *)
(***************************************************************************)
Follows(t) == [LifecycleOf(t)!Next]_(LifecycleOf(t)!vars)

\* A task that has not started is a TaskLifecycle that has not done anything.
LEMMA InitFollows == Init => \A t \in Task : LifecycleOf(t)!Init
BY DEF Init, LifecycleOf!Init

\* Steps of another task, and of the window, leave a task where it is.
LEMMA OthersStutter ==
  ASSUME NEW u \in Task, UNCHANGED <<state[u], docs[u], saved[u]>> PROVE Follows(u)
BY DEF Follows, LifecycleOf!vars

\* The state changes, and the documents do not.
LEMMA StateStepFollows ==
  ASSUME TypeOK, NEW t \in Task, Settle(t) \/ Resume(t) \/ Fail(t) PROVE \A u \in Task : Follows(u)
<1>1. docs' = docs /\ saved' = saved /\ \A u \in Task : u # t => state'[u] = state[u]
  BY DEF TypeOK, Settle, Resume, Fail
<1>2. Follows(t)
  BY DEF TypeOK, Settle, Resume, Fail, Follows, LifecycleOf!Next, LifecycleOf!Settle,
         LifecycleOf!Resume, LifecycleOf!Fail
<1>3. ASSUME NEW u \in Task, u # t PROVE Follows(u)
  BY <1>1, <1>3, OthersStutter
<1>. QED  BY <1>2, <1>3

\* Beginning on the documents of a group is the step of that name.
LEMMA OpenDocumentsFollows ==
  ASSUME TypeOK, NEW t \in Task, NEW g \in Group, OpenDocuments(t, g) PROVE \A u \in Task : Follows(u)
<1>1. ASSUME NEW u \in Task, u # t PROVE UNCHANGED <<state[u], docs[u], saved[u]>>
  BY <1>1 DEF TypeOK, OpenDocuments
<1>2. /\ state[t] # "FAILED" /\ docs[t][g] = "unopened"
      /\ docs'[t] = [docs[t] EXCEPT ![g] = "open"] /\ state'[t] = "RUNNING" /\ saved'[t] = saved[t]
  BY DEF TypeOK, OpenDocuments
<1>3. Follows(t)
  BY <1>2 DEF Follows, LifecycleOf!Next, LifecycleOf!OpenDocuments
<1>. QED  BY <1>1, <1>3, OthersStutter

\* The second step of saving is the one that saves.
LEMMA EndSaveFollows ==
  ASSUME Inv, Idle, NEW t \in Started, NEW g \in Group, EndSave(t, g) PROVE \A u \in Task : Follows(u)
<1>1. t \in Task /\ Progressing(t, g)
  BY Bounds DEF Inv
<1>2. /\ docs[t][g] = "open" /\ state[t] # "SUCCEEDED"
      /\ NextVariant(t, g) \in writing[t][g] /\ \A v \in writing[t][g] : v = NextVariant(t, g)
  BY <1>1 DEF EndSave, Progressing, Idle
<1>3. /\ state' = state
      /\ saved' = [saved EXCEPT ![t][g] = saved[t][g] \cup {NextVariant(t, g)}]
      /\ docs' = [docs EXCEPT ![t][g] = IF saved'[t][g] = Variant THEN "closed" ELSE "open"]
  BY <1>2 DEF EndSave
<1>4. /\ saved'[t] = [saved[t] EXCEPT ![g] = saved[t][g] \cup {NextVariant(t, g)}]
      /\ docs'[t] = [docs[t] EXCEPT ![g] = IF saved'[t][g] = Variant THEN "closed" ELSE "open"]
      /\ saved'[t][g] = saved[t][g] \cup {NextVariant(t, g)}
  <2>1. saved \in [Task -> [Group -> Savings]] /\ docs \in [Task -> [Group -> {"unopened", "open", "closed"}]]
    BY DEF Inv, TypeOK, Savings
  <2>. QED  BY <1>1, <1>3, <2>1
<1>5. saved[t][g] = {} \/ saved[t][g] = {"STUDENT"}
  <2>1. saved \in [Task -> [Group -> Savings]]
    BY DEF Inv, TypeOK, Savings
  <2>2. saved[t][g] \in Savings /\ saved[t][g] # Variant
    BY <1>1, <1>2, <2>1 DEF Progressing
  <2>. QED  BY <2>2 DEF Savings
<1>6. ASSUME saved[t][g] = {} PROVE Follows(t)
  <2>1. saved[t][g] \cup {NextVariant(t, g)} = {"STUDENT"} /\ {"STUDENT"} # Variant
    BY <1>6 DEF NextVariant, Variant
  <2>2. docs'[t] = docs[t]
    <3>1. docs'[t] = [docs[t] EXCEPT ![g] = "open"]
      BY <1>4, <2>1
    <3>. QED  BY <1>1, <1>2, <3>1 DEF Inv, TypeOK
  <2>3. LifecycleOf(t)!SaveStudent(g)
    BY <1>2, <1>3, <1>4, <1>6, <2>1, <2>2 DEF LifecycleOf!SaveStudent
  <2>. QED  BY <2>3 DEF Follows, LifecycleOf!Next
<1>7. ASSUME saved[t][g] = {"STUDENT"} PROVE Follows(t)
  <2>1. saved[t][g] \cup {NextVariant(t, g)} = {"STUDENT", "TEACHER"}
    BY <1>7 DEF NextVariant
  <2>2. docs'[t] = [docs[t] EXCEPT ![g] = "closed"]
    BY <1>4, <2>1 DEF Variant
  <2>3. LifecycleOf(t)!SaveTeacher(g)
    BY <1>2, <1>3, <1>4, <1>7, <2>1, <2>2 DEF LifecycleOf!SaveTeacher
  <2>. QED  BY <2>3 DEF Follows, LifecycleOf!Next
<1>8. Follows(t)
  BY <1>5, <1>6, <1>7
<1>9. ASSUME NEW u \in Task, u # t PROVE UNCHANGED <<state[u], docs[u], saved[u]>>
  BY <1>3, <1>9 DEF Inv, TypeOK
<1>. QED  BY <1>8, <1>9, OthersStutter

\* Every step is a step of the TaskLifecycle of one task, and a stutter of the others.
LEMMA StepFollows == Inv /\ Idle /\ [Next]_vars => \A u \in Task : Follows(u)
<1>. SUFFICES ASSUME Inv, Idle, [Next]_vars PROVE \A u \in Task : Follows(u)
  OBVIOUS
<1>1. CASE (\E p \in Path : OpenProject(p)) \/ CloseWindow \/ StartTask \/ UNCHANGED vars
  <2>1. UNCHANGED <<state, docs, saved>>
    BY <1>1 DEF OpenProject, CloseWindow, StartTask, tasks, vars
  <2>. QED  BY <2>1, OthersStutter
<1>2. ASSUME NEW t \in Started, TaskStep(t) PROVE \A u \in Task : Follows(u)
  <2>1. t \in Task /\ TypeOK
    BY Bounds DEF Inv
  <2>2. CASE Settle(t) \/ Resume(t) \/ Fail(t)
    BY <2>1, <2>2, StateStepFollows
  <2>3. ASSUME NEW g \in Group, OpenDocuments(t, g) PROVE \A u \in Task : Follows(u)
    BY <2>1, <2>3, OpenDocumentsFollows
  <2>4. ASSUME NEW g \in Group, BeginSave(t, g) PROVE \A u \in Task : Follows(u)
    BY <2>4, OthersStutter DEF BeginSave
  <2>5. ASSUME NEW g \in Group, EndSave(t, g) PROVE \A u \in Task : Follows(u)
    BY <2>5, EndSaveFollows
  <2>6. ASSUME NEW g \in Group, AbandonDocuments(t, g) PROVE \A u \in Task : Follows(u)
    <3>1. /\ docs[t][g] = "open" /\ state[t] # "SUCCEEDED" /\ state' = state /\ saved' = saved
          /\ docs'[t] = [docs[t] EXCEPT ![g] = "closed"]
          /\ \A u \in Task : u # t => docs'[u] = docs[u]
      BY <2>1, <2>6 DEF TypeOK, AbandonDocuments
    <3>2. Follows(t)
      BY <2>1, <3>1 DEF Follows, LifecycleOf!Next, LifecycleOf!AbandonDocuments
    <3>3. ASSUME NEW u \in Task, u # t PROVE Follows(u)
      BY <3>1, <3>3, OthersStutter
    <3>. QED  BY <3>2, <3>3
  <2>. QED  BY <1>2, <2>2, <2>3, <2>4, <2>5, <2>6 DEF TaskStep
<1>3. Live \subseteq Started
  BY Bounds DEF Inv
<1>. QED  BY <1>1, <1>2, <1>3 DEF Next

\* However many tasks run, on one workspace or on several, each of them is what
\* TaskLifecycle says of a task.
THEOREM LifecyclesFollowed == Spec => TasksFollowLifecycle
<1>1. Init => \A t \in Task : LifecycleOf(t)!Init
  BY InitFollows
<1>2. Inv /\ Idle /\ [Next]_vars => [\A t \in Task : [LifecycleOf(t)!Next]_(LifecycleOf(t)!vars)]_vars
  BY StepFollows DEF Follows
<1>. QED  BY <1>1, <1>2, Invariance, IdleInvariance, PTL DEF Spec, TasksFollowLifecycle
=============================================================================
