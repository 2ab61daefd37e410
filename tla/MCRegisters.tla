---------------------------- MODULE MCRegisters ----------------------------
(***************************************************************************)
(* Small instances of Registers: machines that have brewed and been        *)
(* serviced before, with gauges next to their limits.                      *)
(***************************************************************************)
EXTENDS Registers, TLC

(* A 1040 about to brew its tenth cup, the first espresso (200 is not       *)
(* stored yet), and to change its tenth filter: the filter is used up, the *)
(* brew unit and the boiler are at their limits.                           *)
Worn ==
    (215 :> 9) @@ (223 :> 9) @@ (221 :> 9)
        @@ (FILTER :> 0) @@ (641 :> 1) @@ (BU_CLEAN :> 20) @@ (611 :> 0)
        @@ (DESCALE :> 0) @@ (601 :> 1)

(* Each instance is in the case that the properties are proved for.        *)
ASSUME SteadyInstance == Steady /\ WarnedRight
=============================================================================
