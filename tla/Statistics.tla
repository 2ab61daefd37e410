----------------------------- MODULE Statistics -----------------------------
(***************************************************************************)
(* Which register a family counts what in (nivona_stats.c), and which      *)
(* registers a maintenance cycle resets (PLANS of nivona_maint_cycle.c).   *)
(***************************************************************************)
EXTENDS Families

NoRegister == 0

(* The cumulative counters, by the field names of nivona_stats_t.          *)
Counters(total, clean_coffee, rinse, filter_change, descale, via_app) ==
    [total |-> total, clean_coffee |-> clean_coffee, rinse |-> rinse,
     filter_change |-> filter_change, descale |-> descale, via_app |-> via_app]

stats(f) ==
    CASE f \in {"8000", "900", "900-light"} -> Counters(213, 214, 216, 219, 220, 221)
      [] f \in {"1030", "1040"}             -> Counters(215, 216, 218, 221, 222, 223)
      [] OTHER                              -> Counters(0, 0, 0, 0, 0, 0)

filter_dep_id(f) ==
    CASE f = "8000"                      -> 642
      [] f \in {"600", "700", "79x"}     -> 105
      [] OTHER                           -> 101

(* nivona_stats_has_recipe_counter, with the mask as a set of selectors.   *)
RecipeMask(f) ==
    CASE f = "8000"                 -> (0..10) \cup {13}
      [] f = "1030"                 -> (0..9) \cup (11..14)
      [] f = "1040"                 -> ((0..9) \cup (11..14)) \ {7}
      [] f \in {"900", "900-light"} -> 0..13
      [] f = "700"                  -> 0..8
      [] f = "79x"                  -> (0..8) \ {4}
      [] f = "600"                  -> (0..8) \ {2, 5}

RecipeCounter(selector) == 200 + selector

(* The gauges every family has; the warning flag is the next register.     *)
DESCALE  == 600
BU_CLEAN == 610
FROTHER  == 620
FILTER   == 640

Gauges           == {DESCALE, BU_CLEAN, FROTHER, FILTER}
Warning(gauge)   == gauge + 1
WarnBelow(gauge) == IF gauge = FILTER THEN 10 ELSE 20

(* What a finished cycle counts, and the gauge it resets.                  *)
CycleCounter(kind, f) ==
    CASE kind \in {9, 17, 20}           -> stats(f).rinse
      [] kind = 10                      -> stats(f).descale
      [] kind = 19                      -> stats(f).clean_coffee
      [] kind \in {FILTER_INSERT, 12}   -> stats(f).filter_change
      [] OTHER                          -> NoRegister

CycleGauge(kind) ==
    CASE kind = 10                        -> DESCALE
      [] kind = 19                        -> BU_CLEAN
      [] kind \in {FILTER_INSERT, 12, 13} -> FILTER
      [] OTHER                            -> NoRegister
=============================================================================
