---------------------------- MODULE TaskLifecycle ----------------------------
(***************************************************************************)
(* What the window and the workspace may rely on of a generation task,     *)
(* without its promises, jobs and counters: the state it shows and the     *)
(* documents it writes.                                                    *)
(*                                                                         *)
(*   - It is FAILED for good, and only a RUNNING task fails.               *)
(*   - It writes no document while it shows SUCCEEDED, yet SUCCEEDED is    *)
(*     not final: the task may resume and write more.                      *)
(*   - It starts on the documents of a group at most once and never after  *)
(*     a failure, but documents it is on may still be written after one.   *)
(*   - The student's document of a group comes before the teacher's, and    *)
(*     the teacher's may never come.                                       *)
(***************************************************************************)
CONSTANT Group

VARIABLES
  state,   \* the state shown
  docs,    \* per group: "unopened", "open" (being generated) or "closed"
  saved    \* per group: the documents written

vars == <<state, docs, saved>>

Init ==
  /\ state = "RUNNING"
  /\ docs = [g \in Group |-> "unopened"]
  /\ saved = [g \in Group |-> {}]

OpenDocuments(g) ==
  /\ state # "FAILED"
  /\ docs[g] = "unopened"
  /\ docs' = [docs EXCEPT ![g] = "open"]
  /\ state' = "RUNNING"
  /\ UNCHANGED saved

SaveStudent(g) ==
  /\ docs[g] = "open" /\ state # "SUCCEEDED"
  /\ saved[g] = {}
  /\ saved' = [saved EXCEPT ![g] = {"STUDENT"}]
  /\ UNCHANGED <<state, docs>>

SaveTeacher(g) ==
  /\ docs[g] = "open" /\ state # "SUCCEEDED"
  /\ saved[g] = {"STUDENT"}
  /\ saved' = [saved EXCEPT ![g] = {"STUDENT", "TEACHER"}]
  /\ docs' = [docs EXCEPT ![g] = "closed"]
  /\ UNCHANGED state

AbandonDocuments(g) ==
  /\ docs[g] = "open" /\ state # "SUCCEEDED"
  /\ docs' = [docs EXCEPT ![g] = "closed"]
  /\ UNCHANGED <<state, saved>>

Settle ==
  /\ state = "RUNNING"
  /\ \A g \in Group : docs[g] # "open"
  /\ state' = "SUCCEEDED"
  /\ UNCHANGED <<docs, saved>>

Resume ==
  /\ state = "SUCCEEDED"
  /\ state' = "RUNNING"
  /\ UNCHANGED <<docs, saved>>

Fail ==
  /\ state = "RUNNING"
  /\ state' = "FAILED"
  /\ UNCHANGED <<docs, saved>>

Next ==
  \/ Settle \/ Resume \/ Fail
  \/ \E g \in Group : \/ OpenDocuments(g) \/ AbandonDocuments(g)
                      \/ SaveStudent(g) \/ SaveTeacher(g)

Spec == Init /\ [][Next]_vars
=============================================================================
