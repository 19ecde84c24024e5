--------------------------- MODULE MCTaskTracker ---------------------------
(***************************************************************************)
(* Small trees of trackers for TaskTracker.                                 *)
(***************************************************************************)
EXTENDS TaskTracker, TLC

CONSTANTS root, mid, leaf

\* One tracker, a parent with a child, and a chain of three.
OneAncestors == root :> {root}
TwoAncestors == root :> {root} @@ mid :> {root, mid}
ChainAncestors == root :> {root} @@ mid :> {root, mid} @@ leaf :> {root, mid, leaf}

CONSTANTS sem, unl

TwoPermits == sem :> 2
UnlOnly    == unl :> 0

Symmetric == Permutations(Task)
=============================================================================
