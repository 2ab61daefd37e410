------------------------------ MODULE Families ------------------------------
(***************************************************************************)
(* The constant tables the firmware is driven by: the machine families of  *)
(* nivona_families.c, the brew ramps of nivona_brew.c, the maintenance     *)
(* plans of nivona_maint_cycle.c, the statistics registers of              *)
(* nivona_stats.c and the prompt masks of nivona_maint.c.  Names, BLE      *)
(* strings and durations are left out; codes that meet on the wire keep    *)
(* their numbers, because the code compares them with one another.         *)
(***************************************************************************)
EXTENDS Integers, Sequences

FamilyKeys ==
    {"600", "700", "79x", "900", "900-light", "1030", "1040", "8000"}

(* The process codes a family reports when it is idle and when it brews.   *)
process_ready(f)   == IF f = "8000" THEN 3 ELSE 8
process_brewing(f) == IF f = "8000" THEN 4 ELSE 11
ReadyCodes         == {3, 8}

has_milk_system(f) == f \in {"900", "900-light", "1030", "1040", "8000"}
has_powder_lid(f)  == f \in {"1030", "1040", "8000"}

-----------------------------------------------------------------------------
(* Recipes: the selectors of each category of drink.                       *)

Categories ==
    {"espresso", "coffee", "americano", "milk_drink", "milk_only", "water"}

RecipeTable(espresso, coffee, americano, milk_drink, milk_only, water) ==
    [espresso   |-> espresso,   coffee    |-> coffee,    americano |-> americano,
     milk_drink |-> milk_drink, milk_only |-> milk_only, water     |-> water]

Recipes(f) ==
    CASE f = "600"  -> RecipeTable({0}, {1}, {2}, {3}, {4}, {5})
      [] f = "700"  -> RecipeTable({0}, {1, 2}, {3}, {4, 5}, {6}, {7})
      [] f = "79x"  -> RecipeTable({0}, {1}, {2}, {3, 5}, {6}, {7})
      [] f \in {"900", "900-light"}
                    -> RecipeTable({0}, {1}, {2}, {3, 4, 5}, {6}, {7})
      [] f = "1030" -> RecipeTable({0}, {1}, {2}, {3, 4, 5}, {7, 8, 9}, {6})
      [] f = "1040" -> RecipeTable({0}, {1}, {2}, {3, 4, 5}, {7, 8}, {6})
      [] f = "8000" -> RecipeTable({0, 8}, {1, 9}, {2, 10}, {3, 4, 5}, {6}, {7})

(* nivona_family_recipe_by_selector: the category the family lists the     *)
(* selector under, in a set; the empty set where the code returns NULL.    *)
RecipeCategories(f, selector) ==
    {c \in Categories : selector \in Recipes(f)[c]}

(* The stages of a brew by their sub_process codes, in order (the weights  *)
(* only share out the time).                                               *)
GRINDING == 1
COFFEE   == 2
STEAM    == 3
WATER    == 4

Ramp(category) ==
    CASE category = "americano"  -> <<GRINDING, COFFEE, WATER>>
      [] category = "milk_drink" -> <<GRINDING, COFFEE, STEAM>>
      [] category = "milk_only"  -> <<STEAM>>
      [] category = "water"      -> <<WATER>>
      [] OTHER                   -> <<GRINDING, COFFEE>>

(* The prompt a stage can bring up: it empties the tank or fills the tray. *)
Uses(sub) == IF sub = GRINDING THEN "EMPTY_TRAYS" ELSE "FILL_WATER"

-----------------------------------------------------------------------------
(* Prompts (the manipulation byte of HX).                                  *)

SoftPrompts == {"FLUSH_REQUIRED", "MOVE_CUP"}

(* The prompts evaluate() can return, with the order it tries them in.     *)
Rank == [BU_REMOVED       |-> 1, TRAYS_MISSING |-> 2, CLOSE_POWDER_LID |-> 3,
         FILL_WATER       |-> 4, EMPTY_TRAYS   |-> 5]

Conditions  == DOMAIN Rank
HardPrompts == Conditions \cup {"FILL_POWDER"}
Prompts     == HardPrompts \cup SoftPrompts \cup {"NONE"}

(* nivona_maint_family_mask.                                               *)
FamilyMask(f) ==
    (Prompts \ {"MOVE_CUP", "CLOSE_POWDER_LID", "FILL_POWDER"})
    \cup (IF has_milk_system(f) THEN {"MOVE_CUP"} ELSE {})
    \cup (IF has_powder_lid(f) THEN {"CLOSE_POWDER_LID", "FILL_POWDER"} ELSE {})

-----------------------------------------------------------------------------
(* Maintenance cycles: nivona_cycle_kind_t and the prompt of each plan.    *)

FILTER_INSERT == 11
CycleKinds    == {9, 10, FILTER_INSERT, 12, 13, 17, 19, 20}
BUSY          == 99

PrepPrompt(kind) ==
    CASE kind = 10                        -> "FILL_WATER"
      [] kind = 19                        -> "FILL_POWDER"
      [] kind \in {17, FILTER_INSERT, 12} -> "FLUSH_REQUIRED"
      [] OTHER                            -> "NONE"

(* Mutant: the code is never replaced.                                     *)
EmitCode_Plain(kind, f) == kind

(* The code a cycle reports: its own, unless the family reads that code as *)
(* brewing or ready.                                                       *)
EmitCode(kind, f) ==
    IF kind \in {process_brewing(f), process_ready(f)} THEN BUSY ELSE kind
=============================================================================
