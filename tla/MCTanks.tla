------------------------------- MODULE MCTanks -------------------------------
(***************************************************************************)
(* Small instances of Tanks: callers that are alike.                       *)
(***************************************************************************)
EXTENDS Tanks, TLC

UpAndDown == {1, -1}

Alike == Permutations(Callers)
=============================================================================
