------------------------------- MODULE Machine -------------------------------
(***************************************************************************)
(* The core of the emulator: the status block (nivona_fsm.c), the brew     *)
(* orchestrator (nivona_brew.c), the maintenance-cycle orchestrator        *)
(* (nivona_maint_cycle.c) and the prompt orchestrator (nivona_maint.c),    *)
(* with the tasks that call them.                                          *)
(*                                                                         *)
(* A client is a FreeRTOS task that calls the public functions: the NimBLE *)
(* host task (HE, HZ, HY), a console or telnet task (brew, cancel, maint,  *)
(* tank, part, fix, family) or the touch UI.  A brew or a cycle runs in a  *)
(* task of its own, made by xTaskCreate.  FreeRTOS preempts a task wherever *)
(* it stands, so every interleaving is possible; a step below is what a    *)
(* task does under one mutex, or one unlocked read or write.               *)
(* pc[p] is the place where task p stands, and a task that does not exist  *)
(* is "dead".                                                              *)
(*                                                                         *)
(* push_status reads the status block and writes only to the radio, so it  *)
(* is no step here.  A tank is the side of its threshold it is on.  A      *)
(* local variable that nobody reads any more is put back to its initial    *)
(* value: that is the end of its scope.                                    *)
(***************************************************************************)
EXTENDS Families, FiniteSets

CONSTANTS
    Clients,        (* tasks that call the orchestrators                   *)
    BrewTasks,      (* task control blocks a brew task can get             *)
    CycleTasks,     (* task control blocks a cycle task can get            *)
    Ops,            (* the operations clients use                          *)
    InUse,          (* the families that are switched between              *)
    Selectors,      (* the recipe selectors clients ask for                *)
    Kinds,          (* the maintenance cycles clients ask for              *)
    Watched,        (* the conditions that can come up                     *)
    StageTicks,     (* bound: 500 ms ticks of a brew stage                 *)
    CycleTicks,     (* bound: 500 ms ticks of a cycle                      *)
    CounterMod      (* bound: the cup counter is kept modulo CounterMod    *)

ClientOps == {"brew", "cycle", "cancel", "confirm", "tank", "trigger",
              "family_cli", "family_ui"}

ASSUME TasksAssumption ==
    /\ Clients \cap BrewTasks = {}
    /\ Clients \cap CycleTasks = {}
    /\ BrewTasks \cap CycleTasks = {}

ASSUME InputsAssumption ==
    /\ Ops \subseteq ClientOps
    /\ InUse \subseteq FamilyKeys /\ InUse # {}
    /\ Selectors \subseteq 0..255
    /\ Kinds \subseteq CycleKinds
    /\ Watched \subseteq Conditions

ASSUME BoundsAssumption ==
    /\ StageTicks \in Nat \ {0}
    /\ CycleTicks \in Nat \ {0}
    /\ CounterMod \in Nat \ {0}

Procs == Clients \cup BrewTasks \cup CycleTasks

VARIABLES
    family,         (* nivona_families.c: s_current                        *)
    process,        (* nivona_fsm.c: s_status.process                      *)
    sub_process,    (*               s_status.sub_process                  *)
    manipulation,   (*               s_status.manipulation                 *)
    progress,       (*               s_status.progress                     *)
    unmet,          (* the Watched conditions that call for a prompt now   *)
    brewActive,     (* nivona_brew.c: s_active                             *)
    brewCancel,     (*                s_cancel                             *)
    brewArg,        (*                s_arg                                *)
    cycleActive,    (* nivona_maint_cycle.c: s_active                      *)
    cycleKind,      (*                       s_kind                        *)
    acceptedDrink,  (* ghost: what the claim of each brew task accepted    *)
    acceptedKind,   (* ghost: what the claim of each cycle task accepted   *)
    late,           (* ghost: stages a brew consumed for after its cancel  *)
    cups,           (* brews charged to the cup counters                   *)
    pc,             (* where each task stands                              *)
    drink,          (* local: the recipe asked for or brewed               *)
    kind,           (* local: the cycle asked for or run                   *)
    fam,            (* local: the family read last                         *)
    rest,           (* local: conditions evaluate() has not read yet       *)
    found,          (* local: the prompt evaluate() returns                *)
    stage,          (* local: the brew stage, from 1                       *)
    tick            (* local: ticks elapsed in the stage or the cycle      *)

status     == <<process, sub_process, manipulation, progress>>
brewOrder  == <<brewActive, brewCancel, brewArg, acceptedDrink, late>>
cycleOrder == <<cycleActive, cycleKind, acceptedKind>>
settings   == <<family, unmet, cups>>
shared     == <<status, brewOrder, cycleOrder, settings>>
request    == <<drink, kind>>
evaluation == <<rest, found>>
ramp       == <<stage, tick>>
local      == <<request, fam, evaluation, ramp>>
vars       == <<shared, pc, local>>

Drinks == [selector : 0..255, category : Categories]

(* s_arg before the first brew: no recipe, which the ramp takes for coffee. *)
NoDrink  == [selector |-> 0, category |-> "coffee"]
NoKind   == 0
NoFamily == "8000"      (* any family: fam is read only after it is set.    *)

-----------------------------------------------------------------------------
At(p, from) == pc[p] = from

Goto(p, to) == pc' = [pc EXCEPT ![p] = to]

Move(p, from, to) == At(p, from) /\ Goto(p, to)

(* Task p reads nivona_family_current().                                   *)
ReadFamily(p) == fam' = [fam EXCEPT ![p] = family]

(* Client c returns from the call it made.                                 *)
Return(c) ==
    /\ Goto(c, "idle")
    /\ drink' = [drink EXCEPT ![c] = NoDrink]
    /\ kind' = [kind EXCEPT ![c] = NoKind]

(* nivona_fsm.c: each of these is one section under the status mutex, and  *)
(* changes nothing that tasks share but the status block.                  *)
OnlyStatus == UNCHANGED <<brewOrder, cycleOrder, settings>>

SetProcess(code, sub) ==
    /\ process' = code
    /\ sub_process' = sub
    /\ UNCHANGED <<manipulation, progress>>
    /\ OnlyStatus

SetProgress(percent) ==
    /\ progress' = percent
    /\ UNCHANGED <<process, sub_process, manipulation>>
    /\ OnlyStatus

SetManipulation(prompt) ==
    /\ manipulation' = prompt
    /\ UNCHANGED <<process, sub_process, progress>>
    /\ OnlyStatus

(* The strongest condition of a set, by the order evaluate() tries them.   *)
Strongest(raised) ==
    CHOOSE c \in raised : \A d \in raised : Rank[c] <= Rank[d]

(* nivona_maint_cold_start, after the tanks and parts are restored.        *)
ColdStartPrompt(conditions, f) ==
    LET raised == conditions \cap FamilyMask(f)
    IN  IF raised = {} THEN "FLUSH_REQUIRED" ELSE Strongest(raised)

(* app_main has run: the status block is READY, no brew or cycle exists.   *)
Init ==
    /\ family \in InUse
    /\ process = process_ready(family) /\ sub_process = 0 /\ progress = 0
    /\ unmet \in SUBSET Watched
    /\ manipulation = ColdStartPrompt(unmet, family)
    /\ brewActive = FALSE /\ brewCancel = FALSE /\ brewArg = NoDrink
    /\ cycleActive = FALSE /\ cycleKind = NoKind
    /\ acceptedDrink = [t \in BrewTasks |-> NoDrink] /\ late = 0
    /\ acceptedKind = [t \in CycleTasks |-> NoKind]
    /\ cups = 0
    /\ pc = [p \in Procs |-> IF p \in Clients THEN "idle" ELSE "dead"]
    /\ drink = [p \in Procs |-> NoDrink] /\ kind = [p \in Procs |-> NoKind]
    /\ fam = [p \in Procs |-> NoFamily]
    /\ rest = [p \in Procs |-> {}] /\ found = [p \in Procs |-> "NONE"]
    /\ stage = [p \in Procs |-> 0] /\ tick = [p \in Procs |-> 0]

-----------------------------------------------------------------------------
(* nivona_brew_start, called by client c.                                  *)

(* The selector must be a recipe of the current family.                    *)
BrewStart(c, s) ==
    /\ "brew" \in Ops
    /\ Move(c, "idle", "brew_cycle")
    /\ \E r \in RecipeCategories(family, s) :
         drink' = [drink EXCEPT ![c] = [selector |-> s, category |-> r]]
    /\ UNCHANGED <<shared, kind, fam, evaluation, ramp>>

(* Mutant: a brew does not ask about cycles.                               *)
BrewCheckCycle_Missing(c) ==
    /\ Move(c, "brew_cycle", "brew_prompt")
    /\ UNCHANGED <<shared, local>>

(* nivona_maint_cycle_active() under the cycle's lock, which is released   *)
(* before the brew's lock is taken.                                        *)
BrewCheckCycle(c) ==
    /\ At(c, "brew_cycle")
    /\ IF cycleActive
       THEN Return(c)
       ELSE Goto(c, "brew_prompt") /\ UNCHANGED request
    /\ UNCHANGED <<shared, fam, evaluation, ramp>>

(* The prompt is read twice: first for "none" ...                          *)
BrewCheckPrompt(c) ==
    /\ Move(c, "brew_prompt",
            IF manipulation = "NONE" THEN "brew_claim" ELSE "brew_soft")
    /\ UNCHANGED <<shared, local>>

(* ... then, by nivona_maint_current_is_soft(), for "soft".                *)
BrewCheckSoft(c) ==
    /\ At(c, "brew_soft")
    /\ IF manipulation \in SoftPrompts
       THEN Goto(c, "brew_claim") /\ UNCHANGED request
       ELSE Return(c)
    /\ UNCHANGED <<shared, fam, evaluation, ramp>>

(* Mutant: s_arg is filled in before s_active is looked at.                *)
BrewBusy_WritesArg(c) ==
    /\ At(c, "brew_claim") /\ brewActive
    /\ brewArg' = drink[c]
    /\ Return(c)
    /\ UNCHANGED <<status, brewActive, brewCancel, acceptedDrink, late, cycleOrder,
                   settings, fam, evaluation, ramp>>

(* The section under s_lock: somebody else's brew, ...                     *)
BrewBusy(c) ==
    /\ At(c, "brew_claim") /\ brewActive
    /\ Return(c)
    /\ UNCHANGED <<shared, fam, evaluation, ramp>>

(* Mutant: s_active is not looked at under the lock.                       *)
BrewClaim_NoCheck(c, t) ==
    /\ At(c, "brew_claim") /\ At(t, "dead")
    /\ brewActive' = TRUE /\ brewCancel' = FALSE /\ brewArg' = drink[c]
    /\ pc' = [pc EXCEPT ![c] = "idle", ![t] = "snap"]
    /\ drink' = [drink EXCEPT ![c] = NoDrink]
    /\ acceptedDrink' = [acceptedDrink EXCEPT ![t] = drink[c]]
    /\ UNCHANGED <<status, late, cycleOrder, settings, kind, fam, evaluation, ramp>>

(* ... or claim the orchestrator and create task t, ...                    *)
BrewClaim(c, t) ==
    /\ At(c, "brew_claim") /\ At(t, "dead") /\ ~brewActive
    /\ brewActive' = TRUE /\ brewCancel' = FALSE /\ brewArg' = drink[c]
    /\ pc' = [pc EXCEPT ![c] = "idle", ![t] = "snap"]
    /\ drink' = [drink EXCEPT ![c] = NoDrink]
    /\ acceptedDrink' = [acceptedDrink EXCEPT ![t] = drink[c]]
    /\ UNCHANGED <<status, late, cycleOrder, settings, kind, fam, evaluation, ramp>>

(* ... or find no memory for it: s_arg and s_cancel are written already.   *)
BrewNoTask(c) ==
    /\ At(c, "brew_claim") /\ ~brewActive
    /\ brewCancel' = FALSE /\ brewArg' = drink[c]
    /\ Return(c)
    /\ UNCHANGED <<status, brewActive, acceptedDrink, late, cycleOrder, settings, fam,
                   evaluation, ramp>>

(* Mutant: the request is noted with no brew active.                       *)
BrewCancel_NoCheck(c) ==
    /\ "cancel" \in Ops
    /\ At(c, "idle")
    /\ brewCancel' = TRUE
    /\ UNCHANGED <<status, brewActive, brewArg, acceptedDrink, late, cycleOrder,
                   settings, pc, local>>

(* nivona_brew_cancel.                                                     *)
BrewCancel(c) ==
    /\ "cancel" \in Ops
    /\ At(c, "idle") /\ brewActive
    /\ brewCancel' = TRUE
    /\ UNCHANGED <<status, brewActive, brewArg, acceptedDrink, late, cycleOrder,
                   settings, pc, local>>

-----------------------------------------------------------------------------
(* nivona_maint_cycle_start, called by client c.                           *)

CycleStart(c, k) ==
    /\ "cycle" \in Ops
    /\ Move(c, "idle", "cycle_brew")
    /\ kind' = [kind EXCEPT ![c] = k]
    /\ UNCHANGED <<shared, drink, fam, evaluation, ramp>>

(* nivona_brew_active() under the brew's lock, released before the cycle's *)
(* lock is taken.                                                          *)
CycleCheckBrew(c) ==
    /\ At(c, "cycle_brew")
    /\ IF brewActive
       THEN Return(c)
       ELSE Goto(c, "cycle_claim") /\ UNCHANGED request
    /\ UNCHANGED <<shared, fam, evaluation, ramp>>

CycleBusy(c) ==
    /\ At(c, "cycle_claim") /\ cycleActive
    /\ Return(c)
    /\ UNCHANGED <<shared, fam, evaluation, ramp>>

CycleClaim(c, t) ==
    /\ At(c, "cycle_claim") /\ At(t, "dead") /\ ~cycleActive
    /\ cycleActive' = TRUE /\ cycleKind' = kind[c]
    /\ pc' = [pc EXCEPT ![c] = "idle", ![t] = "snap"]
    /\ kind' = [kind EXCEPT ![c] = NoKind]
    /\ acceptedKind' = [acceptedKind EXCEPT ![t] = kind[c]]
    /\ UNCHANGED <<status, brewOrder, settings, drink, fam, evaluation, ramp>>

CycleNoTask(c) ==
    /\ At(c, "cycle_claim") /\ ~cycleActive
    /\ cycleKind' = kind[c]
    /\ Return(c)
    /\ UNCHANGED <<status, brewOrder, cycleActive, acceptedKind, settings, fam,
                   evaluation, ramp>>

-----------------------------------------------------------------------------
(* nivona_maint_reevaluate, called by any task p.                          *)

Reevaluate(p) ==
    /\ Move(p, "reevaluate", "scan")
    /\ ReadFamily(p)
    /\ rest' = [rest EXCEPT ![p] = Watched]
    /\ UNCHANGED <<shared, request, found, ramp>>

(* evaluate() reads one tank or part at a time, the strongest first, and   *)
(* stops at the first condition the family can raise.                      *)
Scan(p) ==
    /\ At(p, "scan") /\ rest[p] # {}
    /\ LET w == Strongest(rest[p])
       IN  IF w \in unmet \cap FamilyMask(fam[p])
           THEN /\ found' = [found EXCEPT ![p] = w]
                /\ rest' = [rest EXCEPT ![p] = {}]
                /\ Goto(p, "raise")
           ELSE /\ rest' = [rest EXCEPT ![p] = @ \ {w}]
                /\ UNCHANGED <<found, pc>>
    /\ UNCHANGED <<shared, request, fam, ramp>>

(* found[p] is still NONE: nothing calls for a prompt.                     *)
ScanNothing(p) ==
    /\ Move(p, "scan", "raise")
    /\ rest[p] = {}
    /\ UNCHANGED <<shared, local>>

AfterRaise(p) == IF p \in Clients THEN "idle" ELSE "exit"

(* Mutant: a prompt is never taken back.                                   *)
Raise_KeepsPrompt(p) ==
    /\ Move(p, "raise", AfterRaise(p))
    /\ SetManipulation(IF found[p] = "NONE" THEN manipulation ELSE found[p])
    /\ found' = [found EXCEPT ![p] = "NONE"]
    /\ fam' = [fam EXCEPT ![p] = NoFamily]
    /\ UNCHANGED <<request, rest, ramp>>

(* nivona_fsm_set_manipulation(manip), then the caller goes on.            *)
Raise(p) ==
    /\ Move(p, "raise", AfterRaise(p))
    /\ SetManipulation(found[p])
    /\ found' = [found EXCEPT ![p] = "NONE"]
    /\ fam' = [fam EXCEPT ![p] = NoFamily]
    /\ UNCHANGED <<request, rest, ramp>>

-----------------------------------------------------------------------------
(* nivona_maint_handle_confirm (HY, or the confirm button), by client c.   *)
(* With no prompt it does nothing.                                         *)

Confirm(c) ==
    /\ "confirm" \in Ops
    /\ Move(c, "idle", "confirm_soft")
    /\ manipulation # "NONE"
    /\ UNCHANGED <<shared, local>>

(* The status block is read again to see if the prompt is soft; a hard one *)
(* is evaluated again and the confirm has no other effect.                 *)
ConfirmSoft(c) ==
    /\ Move(c, "confirm_soft",
            IF manipulation \in SoftPrompts THEN "confirm_clear" ELSE "reevaluate")
    /\ UNCHANGED <<shared, local>>

ConfirmClear(c) ==
    /\ Move(c, "confirm_clear", "reevaluate")
    /\ SetManipulation("NONE")
    /\ UNCHANGED local

-----------------------------------------------------------------------------
(* The other commands of a console, and the screens of the touch UI.       *)

(* cmd_tank, cmd_part, one target of cmd_fix, and the refill screen: a tank *)
(* or part comes to either side of its threshold, then all are evaluated.  *)
SetTank(c, w) ==
    /\ "tank" \in Ops
    /\ Move(c, "idle", "reevaluate")
    /\ unmet' \in {unmet \cup {w}, unmet \ {w}}
    /\ UNCHANGED <<status, brewOrder, cycleOrder, family, cups, local>>

(* `fix all`: nivona_consumables_reset.                                    *)
ResetTanks(c) ==
    /\ "tank" \in Ops
    /\ Move(c, "idle", "reevaluate")
    /\ unmet' = {}
    /\ UNCHANGED <<status, brewOrder, cycleOrder, family, cups, local>>

(* `trigger`: any prompt, whatever the tanks say.                          *)
Trigger(c) ==
    /\ "trigger" \in Ops
    /\ At(c, "idle")
    /\ \E prompt \in Prompts : SetManipulation(prompt)
    /\ UNCHANGED <<pc, local>>

(* `family`: nivona_family_set, then nivona_fsm_reset_to_ready, which reads *)
(* the family before it takes the status lock.                             *)
FamilyCli(c, f) ==
    /\ "family_cli" \in Ops
    /\ Move(c, "idle", "reset_read")
    /\ family' = f
    /\ UNCHANGED <<status, brewOrder, cycleOrder, unmet, cups, local>>

ResetRead(c) ==
    /\ Move(c, "reset_read", "reset_write")
    /\ ReadFamily(c)
    /\ UNCHANGED <<shared, request, evaluation, ramp>>

ResetWrite(c) ==
    /\ Move(c, "reset_write", "idle")
    /\ process' = process_ready(fam[c]) /\ sub_process' = 0
    /\ manipulation' = "NONE" /\ progress' = 0
    /\ OnlyStatus
    /\ fam' = [fam EXCEPT ![c] = NoFamily]
    /\ UNCHANGED <<request, evaluation, ramp>>

(* The family picker of the touch UI calls nivona_family_set and no more.  *)
FamilyUi(c, f) ==
    /\ "family_ui" \in Ops
    /\ At(c, "idle")
    /\ family' = f
    /\ UNCHANGED <<status, brewOrder, cycleOrder, unmet, cups, pc, local>>

-----------------------------------------------------------------------------
(* brew_task, task t.  The family is read once, at the start.              *)

BrewSnap(t) ==
    /\ Move(t, "snap", "brew_family")
    /\ drink' = [drink EXCEPT ![t] = brewArg]
    /\ UNCHANGED <<shared, kind, fam, evaluation, ramp>>

BrewFamily(t) ==
    /\ Move(t, "brew_family", "announce")
    /\ ReadFamily(t)
    /\ UNCHANGED <<shared, request, evaluation, ramp>>

Announce(t) ==
    /\ Move(t, "announce", "brew_zero")
    /\ SetProcess(process_brewing(fam[t]), drink[t].selector)
    /\ UNCHANGED local

BrewZero(t) ==
    /\ Move(t, "brew_zero", "brew_clear")
    /\ SetProgress(0)
    /\ UNCHANGED local

(* The prompt that was pending is dropped, and the first stage is next.    *)
BrewClear(t) ==
    /\ Move(t, "brew_clear", "stage")
    /\ SetManipulation("NONE")
    /\ stage' = [stage EXCEPT ![t] = 1]
    /\ UNCHANGED <<request, fam, evaluation, tick>>

Stages(t) == Ramp(drink[t].category)

(* Mutant: only the tick loop looks at s_cancel.                           *)
Stage_IgnoresCancel(t) ==
    /\ Move(t, "stage", IF stage[t] <= Len(Stages(t)) THEN "consume" ELSE "ready")
    /\ UNCHANGED <<shared, local>>

(* The head of the stage loop, which reads s_cancel without the lock.      *)
Stage(t) ==
    /\ Move(t, "stage", IF stage[t] <= Len(Stages(t)) /\ ~brewCancel
                        THEN "consume" ELSE "ready")
    /\ UNCHANGED <<shared, local>>

(* A stage may empty its tank (fill its tray) as far as the threshold.     *)
Consume(t) ==
    /\ Move(t, "consume", "show_stage")
    /\ unmet' \in {unmet, unmet \cup ({Uses(Stages(t)[stage[t]])} \cap Watched)}
    /\ late' = IF brewCancel THEN late + 1 ELSE late
    /\ UNCHANGED <<status, brewActive, brewCancel, brewArg, acceptedDrink, cycleOrder,
                   family, cups, local>>

(* Mutant: the stage shown is the first one all along.                     *)
ShowStage_First(t) ==
    /\ Move(t, "show_stage", "tick")
    /\ SetProcess(process_brewing(fam[t]), Stages(t)[1])
    /\ UNCHANGED local

ShowStage(t) ==
    /\ Move(t, "show_stage", "tick")
    /\ SetProcess(process_brewing(fam[t]), Stages(t)[stage[t]])
    /\ UNCHANGED local

(* The tick loop: wait for a tick, ...                                     *)
Wait(t) ==
    /\ Move(t, "tick", "progress")
    /\ tick' = [tick EXCEPT ![t] = @ + 1]
    /\ UNCHANGED <<shared, request, fam, evaluation, stage>>

NextStage(t) ==
    /\ Move(t, "tick", "stage")
    /\ tick' = [tick EXCEPT ![t] = 0]
    /\ stage' = [stage EXCEPT ![t] = @ + 1]
    /\ UNCHANGED <<shared, request, fam, evaluation>>

(* Mutant: the elapsed time is not counted.                                *)
Tick_NoAdvance(t) ==
    IF ~brewCancel THEN Move(t, "tick", "progress") /\ UNCHANGED <<shared, local>>
                   ELSE NextStage(t)

(* ... or, when they are over or a cancel was asked for, the next stage.   *)
Tick(t) ==
    IF tick[t] < StageTicks /\ ~brewCancel THEN Wait(t) ELSE NextStage(t)

(* Mutant: the tick to come is counted and nothing is clamped.             *)
Percent_NoClamp(done, total) == ((done + 1) * 100) \div total

Percent(done, total) ==
    LET pct == (done * 100) \div total IN IF pct > 100 THEN 100 ELSE pct

(* The percentage is of the whole brew, the stages before included.        *)
BrewProgress(t) ==
    /\ Move(t, "progress", "tick")
    /\ SetProgress(Percent((stage[t] - 1) * StageTicks + tick[t],
                           Len(Stages(t)) * StageTicks))
    /\ UNCHANGED local

BrewReady(t) ==
    /\ Move(t, "ready", "zero")
    /\ SetProcess(process_ready(fam[t]), 0)
    /\ stage' = [stage EXCEPT ![t] = 0]
    /\ fam' = [fam EXCEPT ![t] = NoFamily]
    /\ UNCHANGED <<request, evaluation, tick>>

(* Mutant: the progress is left where the brew ended.                      *)
BrewReset_Forgotten(t) ==
    Move(t, "zero", "charge") /\ UNCHANGED <<shared, local>>

BrewReset(t) ==
    /\ Move(t, "zero", "charge")
    /\ SetProgress(0)
    /\ UNCHANGED local

(* Mutant: a cancelled brew is charged too.                                *)
Charge_Always(t) == Move(t, "charge", "wear") /\ UNCHANGED <<shared, local>>

(* A cancelled brew is not charged; s_cancel is read for the last time.    *)
Charge(t) ==
    /\ Move(t, "charge", IF brewCancel THEN "reevaluate" ELSE "wear")
    /\ UNCHANGED <<shared, local>>

AddCup ==
    /\ cups' = (cups + 1) % CounterMod
    /\ UNCHANGED <<status, brewOrder, cycleOrder, family, unmet, local>>

(* apply_wear_after_brew, as far as the cups go.                           *)
Wear(t) == Move(t, "wear", "reevaluate") /\ AddCup

(* The section under s_lock, then vTaskDelete.                             *)
BrewExit(t) ==
    /\ Move(t, "exit", "dead")
    /\ brewActive' = FALSE /\ brewCancel' = FALSE /\ late' = 0
    /\ drink' = [drink EXCEPT ![t] = NoDrink]
    /\ acceptedDrink' = [acceptedDrink EXCEPT ![t] = NoDrink]
    /\ UNCHANGED <<status, brewArg, cycleOrder, settings, kind, fam, evaluation,
                   ramp>>

-----------------------------------------------------------------------------
(* cycle_task, task t.  Nobody calls nivona_maint_cycle_cancel, so s_cancel *)
(* is always false here.                                                   *)

CycleSnap(t) ==
    /\ Move(t, "snap",
            IF PrepPrompt(cycleKind) = "NONE" THEN "cycle_family" ELSE "prep")
    /\ kind' = [kind EXCEPT ![t] = cycleKind]
    /\ UNCHANGED <<shared, drink, fam, evaluation, ramp>>

Prep(t) ==
    /\ Move(t, "prep", "unprep")
    /\ SetManipulation(PrepPrompt(kind[t]))
    /\ UNCHANGED local

(* 1.5 s later, whatever the prompt is by then.                            *)
Unprep(t) ==
    /\ Move(t, "unprep", "cycle_family")
    /\ SetManipulation("NONE")
    /\ UNCHANGED local

CycleFamily(t) ==
    /\ Move(t, "cycle_family", "emit")
    /\ ReadFamily(t)
    /\ UNCHANGED <<shared, request, evaluation, ramp>>

Emit(t) ==
    /\ Move(t, "emit", "tick")
    /\ SetProcess(EmitCode(kind[t], fam[t]), 0)
    /\ UNCHANGED local

(* Mutant: the elapsed time is not counted.                                *)
CycleTick_NoAdvance(t) ==
    /\ Move(t, "tick", "progress")
    /\ UNCHANGED <<shared, local>>

CycleTick(t) ==
    /\ Move(t, "tick", "progress")
    /\ tick[t] < CycleTicks
    /\ tick' = [tick EXCEPT ![t] = @ + 1]
    /\ UNCHANGED <<shared, request, fam, evaluation, stage>>

CycleProgress(t) ==
    /\ Move(t, "progress", "tick")
    /\ SetProgress(Percent(tick[t], CycleTicks))
    /\ UNCHANGED local

(* The cycle is over: the family is read again.                            *)
CycleOver(t) ==
    /\ Move(t, "tick", "ready")
    /\ tick[t] >= CycleTicks
    /\ tick' = [tick EXCEPT ![t] = 0]
    /\ ReadFamily(t)
    /\ UNCHANGED <<shared, request, evaluation, stage>>

(* Mutant: the code is put back only if it still looks like the cycle's.   *)
CycleReady_OnlyIfOwn(t) ==
    /\ Move(t, "ready", "zero")
    /\ SetProcess(IF process = EmitCode(kind[t], fam[t])
                  THEN process_ready(fam[t]) ELSE process, 0)
    /\ fam' = [fam EXCEPT ![t] = NoFamily]
    /\ UNCHANGED <<request, evaluation, ramp>>

CycleReady(t) ==
    /\ Move(t, "ready", "zero")
    /\ SetProcess(process_ready(fam[t]), 0)
    /\ fam' = [fam EXCEPT ![t] = NoFamily]
    /\ UNCHANGED <<request, evaluation, ramp>>

(* Mutant: the progress is left where the cycle ended.                     *)
CycleReset_Forgotten(t) ==
    Move(t, "zero", "reevaluate") /\ UNCHANGED <<shared, local>>

CycleReset(t) ==
    /\ Move(t, "zero", "reevaluate")
    /\ SetProgress(0)
    /\ UNCHANGED local

CycleExit(t) ==
    /\ Move(t, "exit", "dead")
    /\ cycleActive' = FALSE
    /\ kind' = [kind EXCEPT ![t] = NoKind]
    /\ acceptedKind' = [acceptedKind EXCEPT ![t] = NoKind]
    /\ UNCHANGED <<status, brewOrder, cycleKind, settings, drink, fam,
                   evaluation, ramp>>

-----------------------------------------------------------------------------
Evaluate(p) == Reevaluate(p) \/ Scan(p) \/ ScanNothing(p) \/ Raise(p)

(* A client makes a call ...                                               *)
Call(c) ==
    \/ \E s \in Selectors : BrewStart(c, s)
    \/ \E k \in Kinds : CycleStart(c, k)
    \/ BrewCancel(c)
    \/ Confirm(c)
    \/ \E w \in Watched : SetTank(c, w)
    \/ ResetTanks(c)
    \/ Trigger(c)
    \/ \E f \in InUse : FamilyCli(c, f)
    \/ \E f \in InUse : FamilyUi(c, f)

(* ... and goes on with it.                                                *)
CallStep(c) ==
    \/ BrewCheckCycle(c) \/ BrewCheckPrompt(c) \/ BrewCheckSoft(c)
    \/ BrewBusy(c) \/ BrewNoTask(c)
    \/ \E t \in BrewTasks : BrewClaim(c, t)
    \/ CycleCheckBrew(c) \/ CycleBusy(c) \/ CycleNoTask(c)
    \/ \E t \in CycleTasks : CycleClaim(c, t)
    \/ ConfirmSoft(c) \/ ConfirmClear(c)
    \/ ResetRead(c) \/ ResetWrite(c)
    \/ Evaluate(c)

BrewStep(t) ==
    \/ BrewSnap(t) \/ BrewFamily(t) \/ Announce(t) \/ BrewZero(t)
    \/ BrewClear(t) \/ Stage(t) \/ Consume(t) \/ ShowStage(t) \/ Tick(t)
    \/ BrewProgress(t) \/ BrewReady(t) \/ BrewReset(t) \/ Charge(t) \/ Wear(t)
    \/ Evaluate(t) \/ BrewExit(t)

CycleStep(t) ==
    \/ CycleSnap(t) \/ Prep(t) \/ Unprep(t) \/ CycleFamily(t) \/ Emit(t)
    \/ CycleTick(t) \/ CycleProgress(t) \/ CycleOver(t) \/ CycleReady(t)
    \/ CycleReset(t) \/ Evaluate(t) \/ CycleExit(t)

Next ==
    \/ \E c \in Clients : Call(c) \/ CallStep(c)
    \/ \E t \in BrewTasks : BrewStep(t)
    \/ \E t \in CycleTasks : CycleStep(t)

Spec == Init /\ [][Next]_vars

(* Every task sleeps or blocks between its calls, so none starves another, *)
(* and no mutex is held across a wait: a task that can take a step takes it *)
(* in the end.  Nobody is obliged to make a call.                          *)
Fairness ==
    /\ \A c \in Clients : WF_vars(CallStep(c))
    /\ \A t \in BrewTasks : WF_vars(BrewStep(t))
    /\ \A t \in CycleTasks : WF_vars(CycleStep(t))

FairSpec == Spec /\ Fairness

-----------------------------------------------------------------------------
(* The parts of the code a task is in.                                     *)

EvaluateAt == {"reevaluate", "scan", "raise"}
ClientAt ==
    {"idle", "brew_cycle", "brew_prompt", "brew_soft", "brew_claim",
     "cycle_brew", "cycle_claim", "confirm_soft", "confirm_clear",
     "reset_read", "reset_write"} \cup EvaluateAt
RampAt == {"stage", "consume", "show_stage", "tick", "progress"}
BrewAt ==
    {"dead", "snap", "brew_family", "announce", "brew_zero", "brew_clear",
     "ready", "zero", "charge", "wear", "exit"} \cup RampAt \cup EvaluateAt
CycleAt ==
    {"dead", "snap", "prep", "unprep", "cycle_family", "emit", "tick",
     "progress", "ready", "zero", "exit"} \cup EvaluateAt

SharedTyped ==
    /\ family \in FamilyKeys
    /\ process \in 0..99
    /\ sub_process \in 0..255
    /\ manipulation \in Prompts
    /\ progress \in 0..100
    /\ unmet \in SUBSET Watched
    /\ brewActive \in BOOLEAN
    /\ brewCancel \in BOOLEAN
    /\ brewArg \in Drinks
    /\ cycleActive \in BOOLEAN
    /\ cycleKind \in CycleKinds \cup {NoKind}
    /\ acceptedDrink \in [BrewTasks -> Drinks] /\ late \in Nat
    /\ acceptedKind \in [CycleTasks -> CycleKinds \cup {NoKind}]
    /\ cups \in 0..(CounterMod - 1)

PlacesTyped ==
    /\ pc \in [Procs -> ClientAt \cup BrewAt \cup CycleAt]
    /\ \A c \in Clients : pc[c] \in ClientAt
    /\ \A t \in BrewTasks : pc[t] \in BrewAt
    /\ \A t \in CycleTasks : pc[t] \in CycleAt

LocalsTyped ==
    /\ drink \in [Procs -> Drinks]
    /\ kind \in [Procs -> CycleKinds \cup {NoKind}]
    /\ fam \in [Procs -> FamilyKeys]
    /\ rest \in [Procs -> SUBSET Watched]
    /\ found \in [Procs -> Conditions \cup {"NONE"}]
    /\ stage \in [Procs -> Nat]
    /\ tick \in [Procs -> Nat]

(* Every variable has its type, and every task is somewhere in its code.   *)
TypeOK == SharedTyped /\ PlacesTyped /\ LocalsTyped

Live(t) == pc[t] # "dead"

LiveBrews  == {t \in BrewTasks : Live(t)}
LiveCycles == {t \in CycleTasks : Live(t)}

(* s_active is true exactly while there is a task, and there is never a    *)
(* second one: whoever calls nivona_brew_start or nivona_maint_cycle_start *)
(* next to the last lines of a task finds the old task or an empty place.  *)
OneTaskEach ==
    /\ \A t \in BrewTasks : Live(t) => brewActive
    /\ \A t \in CycleTasks : Live(t) => cycleActive
    /\ brewActive => LiveBrews # {}
    /\ cycleActive => LiveCycles # {}
    /\ \A t, u \in BrewTasks : Live(t) /\ Live(u) => t = u
    /\ \A t, u \in CycleTasks : Live(t) /\ Live(u) => t = u

(* A request to cancel never outlives the brew it was made for: no later   *)
(* brew can be stopped by it.                                              *)
NoStaleCancel == brewCancel => brewActive

(* A cancel that comes when the head of the stage loop has read s_cancel   *)
(* and nothing is consumed yet is late for that stage, whose beans, water  *)
(* and tray it cannot save; it is not late for a second one.               *)
OneStageAfterCancel == late <= 1

(* A task works on the order its claim accepted, although the order goes   *)
(* through s_arg or s_kind, which other callers write too, and the task    *)
(* takes it from there only when it comes to run.                          *)
RunsWhatWasAccepted ==
    /\ \A t \in BrewTasks :
          pc[t] \notin {"dead", "snap"} => drink[t] = acceptedDrink[t]
    /\ \A t \in CycleTasks :
          pc[t] \notin {"dead", "snap"} => kind[t] = acceptedKind[t]

(* When no task is left the status block says READY and shows no progress, *)
(* however the brews, the cycles, the cancels and the family switches were *)
(* interleaved: nothing is stuck at "brewing" or at 60 %.                  *)
SettledReady ==
    LiveBrews \cup LiveCycles = {} =>
        process \in ReadyCodes /\ sub_process = 0 /\ progress = 0

(* No brew and no cycle run at the same time.  (Of one caller at a time.)  *)
NoOverlap == ~(brewActive /\ cycleActive)

(* Inside a stage the status block shows that very stage of that very      *)
(* brew.  (Of one caller at a time, which does not switch the family.)     *)
ShowsTheStage ==
    \A t \in BrewTasks :
        pc[t] \in {"tick", "progress"} =>
            /\ process = process_brewing(fam[t])
            /\ sub_process = Stages(t)[stage[t]]

(* A cycle is reported as itself, and as neither brewing nor ready.  (Of   *)
(* one caller at a time, which does not switch the family.)                *)
ShowsTheCycle ==
    \A t \in CycleTasks :
        pc[t] \in {"tick", "progress"} =>
            process \in {kind[t], BUSY} \ {process_brewing(family),
                                           process_ready(family)}

(* The prompt the tanks and parts call for; a soft one is shown only when  *)
(* they call for none.                                                     *)
PromptFits ==
    LET raised == unmet \cap FamilyMask(family)
    IN  IF raised = {} THEN manipulation \in SoftPrompts \cup {"NONE"}
                       ELSE manipulation = Strongest(raised)

AtRest == \A p \in Procs : pc[p] \in {"idle", "dead"}

(* Evaluations that race with one another, with a brew or with a refill    *)
(* may leave a stale prompt, but not for ever: when the tanks stay as they *)
(* are and evaluations go on, the prompt at rest comes to fit and stays so. *)
PromptHeals ==
    \A tanks \in SUBSET Watched :
        <>[](unmet = tanks) /\ []<>(\E c \in Clients : pc[c] = "scan")
            => <>[](AtRest => PromptFits)

(* The progress shown while something runs never goes back, although the   *)
(* tasks share one cell and each starts over.  (Of one caller at a time.)  *)
ProgressMonotone ==
    [][\A t \in BrewTasks \cup CycleTasks : pc[t] = "progress" =>
            progress' >= progress]_vars

(* A brew ends, and so does a cycle, whatever the others do.               *)
BrewEnds  == brewActive ~> ~brewActive
CycleEnds == cycleActive ~> ~cycleActive

(* What callers may rely on: the brew orchestrator is a BrewJob.  The job  *)
(* is settled when the last read of s_cancel is done.                      *)
SettledAt == {"wear", "exit"} \cup EvaluateAt

Settled == \E t \in BrewTasks : pc[t] \in SettledAt
Wearing == \E t \in BrewTasks : pc[t] = "wear"

Phase == IF ~brewActive THEN "idle" ELSE IF Settled THEN "settled" ELSE "running"

CupsOwed == IF Wearing THEN (cups + 1) % CounterMod ELSE cups

job == INSTANCE BrewJob WITH
    phase <- Phase, cancel <- brewCancel, cups <- CupsOwed

BrewIsAJob == job!Spec
=============================================================================
