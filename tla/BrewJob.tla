------------------------------- MODULE BrewJob -------------------------------
(***************************************************************************)
(* What the brew orchestrator promises its callers, without its lock, its  *)
(* task or its stages: one job at a time; a job is settled exactly once,   *)
(* and settling counts a cup unless somebody asked for a cancel before; a  *)
(* request to cancel dies with the job it was made for.                    *)
(***************************************************************************)
EXTENDS Integers

CONSTANT CounterMod         (* The cup counter is kept modulo CounterMod.  *)

VARIABLES
    phase,                  (* "idle", "running" or "settled"              *)
    cancel,                 (* a cancel of the current job was requested   *)
    cups                    (* cups counted so far, modulo CounterMod      *)

jobVars == <<phase, cancel, cups>>

Init ==
    /\ phase = "idle"
    /\ cancel = FALSE
    /\ cups = 0

Accept ==
    /\ phase = "idle"
    /\ phase' = "running"
    /\ UNCHANGED <<cancel, cups>>

RequestCancel ==
    /\ phase # "idle"
    /\ cancel' = TRUE
    /\ UNCHANGED <<phase, cups>>

(* A job is charged at most once, and only if nobody asked to cancel it.   *)
Charge ==
    /\ phase = "running"
    /\ ~cancel
    /\ phase' = "settled"
    /\ cups' = (cups + 1) % CounterMod
    /\ UNCHANGED cancel

Abandon ==
    /\ phase = "running"
    /\ cancel
    /\ phase' = "settled"
    /\ UNCHANGED <<cancel, cups>>

Finish ==
    /\ phase = "settled"
    /\ phase' = "idle"
    /\ cancel' = FALSE
    /\ UNCHANGED cups

Next == Accept \/ RequestCancel \/ Charge \/ Abandon \/ Finish

Spec == Init /\ [][Next]_jobVars
=============================================================================
