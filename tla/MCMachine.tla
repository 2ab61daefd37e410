----------------------------- MODULE MCMachine -----------------------------
(***************************************************************************)
(* Small instances of Machine: the drinks, cycles and families that differ *)
(* in what the module tells apart, and the symmetries of its tasks.        *)
(***************************************************************************)
EXTENDS Machine, TLC

CONSTANTS c1, c2, b1, b2, m1, m2    (* model values: tasks                  *)

TaskSymmetry ==
    Permutations(Clients) \cup Permutations(BrewTasks)
        \cup Permutations(CycleTasks)
=============================================================================
