---------------------------- MODULE MCProjectTask ----------------------------
(***************************************************************************)
(* Instances of ProjectTask for TLC.                                       *)
(***************************************************************************)
EXTENDS ProjectTask, TLC

CONSTANTS p1, p2, A, B

\* No definition tells one program or one group from another.
Symmetry == Permutations({p1, p2}) \cup Permutations({A, B})

\* Jobs with an outcome of their own choice other than a quiet success.
Surprises ==
  {d[2] : d \in diagnostics} \cup
  {j \in Job : /\ job[j] \in {"failed", "failedSilently", "null", "thrown", "hung"}
               /\ ~\E p \in Program, g \in Group :
                     j = Run(p, g) /\ job[Compile(p, g)] \in {"failed", "failedSilently"}}

\* Bound of the instance with two programs and two groups.
CONSTANT MaxSurprises
FewSurprises == Cardinality(Surprises) <= MaxSurprises
=============================================================================
