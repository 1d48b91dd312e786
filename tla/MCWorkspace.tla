----------------------------- MODULE MCWorkspace -----------------------------
(***************************************************************************)
(* Instances of Workspace for TLC.                                         *)
(***************************************************************************)
EXTENDS Workspace, TLC

CONSTANTS w1, w2, A, B

\* No definition tells one workspace from another.
Symmetry == Permutations({w1, w2})

\* What happens once the last task of the bound has been started does not depend on
\* the project that is open: it is not opened any more.
NothingLeftToOpen == started = MaxTasks /\ current = NoTask => open = NoPath

=============================================================================
