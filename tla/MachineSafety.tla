---------------------------- MODULE MachineSafety ----------------------------
(***************************************************************************)
(* What Machine promises, proved for every set of tasks, every set of      *)
(* inputs and every bound: its types, its safety invariants, and that its  *)
(* brew orchestrator implements BrewJob.                                   *)
(***************************************************************************)
EXTENDS Machine, TLAPS

-----------------------------------------------------------------------------
(* THE TYPES.  A lemma for each part of TypeOK has one step for each kind  *)
(* of step of Machine; the first lemmas are about the operators the steps  *)
(* are built from.                                                         *)

(* Lemmas about the operators the steps are built from.                    *)

(* A ramp has one to three stages, and each has a sub_process code.        *)
LEMMA RampStages ==
    ASSUME NEW c \in Categories
    PROVE  /\ Len(Ramp(c)) \in 1..3
           /\ \A i \in 1..Len(Ramp(c)) : Ramp(c)[i] \in 1..4
  BY DEF Categories, Ramp, GRINDING, COFFEE, STEAM, WATER

(* The arithmetic behind the percentage of a brew.                         *)
LEMMA NaturalProduct ==
    ASSUME NEW m \in Nat, NEW n \in Nat
    PROVE  /\ m * n \in Nat
           /\ m # 0 /\ n # 0 => m * n # 0
<1>1. m * n \in Nat
  OBVIOUS
<1>2. m # 0 /\ n # 0 => m * n >= n
  OBVIOUS
<1> QED
  BY <1>1, <1>2

(* A percentage is one, whatever share of whatever total was done.         *)
LEMMA PercentRange ==
    ASSUME NEW done \in Nat, NEW total \in Nat \ {0}
    PROVE  Percent(done, total) \in 0..100
<1> DEFINE pct == (done * 100) \div total
<1>2. pct \in Nat
  OBVIOUS
<1> QED
  BY <1>2 DEF Percent

(* evaluate() finds a strongest condition wherever there is one.           *)
LEMMA StrongestIsOne ==
    ASSUME NEW S \in SUBSET Conditions, S # {}
    PROVE  Strongest(S) \in S
<1>1. \A c \in Conditions : Rank[c] \in 1..5
  BY DEF Conditions, Rank
<1>2. \E c \in S : \A d \in S : Rank[c] <= Rank[d]
  BY <1>1 DEF Conditions, Rank
<1> QED
  BY <1>2 DEF Strongest

-----------------------------------------------------------------------------
(* Types.  The ramp a brew task walks is never walked past its end.        *)

InRamp ==
    \A t \in BrewTasks :
        /\ pc[t] = "stage" => stage[t] \in Nat \ {0}
        /\ pc[t] \in RampAt \ {"stage"} => stage[t] \in 1..Len(Stages(t))

Typed == TypeOK /\ InRamp

(* The parts of TypeOK that steps keep for reasons of their own.           *)
StatusTyped ==
    /\ process \in 0..99 /\ sub_process \in 0..255
    /\ manipulation \in Prompts /\ progress \in 0..100

OrdersTyped ==
    /\ brewActive \in BOOLEAN /\ brewCancel \in BOOLEAN /\ brewArg \in Drinks
    /\ cycleActive \in BOOLEAN /\ cycleKind \in CycleKinds \cup {NoKind}
    /\ acceptedDrink \in [BrewTasks -> Drinks] /\ late \in Nat
    /\ acceptedKind \in [CycleTasks -> CycleKinds \cup {NoKind}]

SettingsTyped ==
    /\ family \in FamilyKeys /\ unmet \in SUBSET Watched
    /\ cups \in 0..(CounterMod - 1)

DrinkTyped == drink \in [Procs -> Drinks]
StageTyped == stage \in [Procs -> Nat]

ScratchTyped ==
    /\ kind \in [Procs -> CycleKinds \cup {NoKind}]
    /\ fam \in [Procs -> FamilyKeys]
    /\ rest \in [Procs -> SUBSET Watched]
    /\ found \in [Procs -> Conditions \cup {"NONE"}]
    /\ tick \in [Procs -> Nat]

(* What app_main leaves behind is well typed.                              *)
LEMMA TypedInit == Init => Typed
<1> SUFFICES ASSUME Init PROVE Typed
  OBVIOUS
<1> USE TasksAssumption, InputsAssumption, BoundsAssumption
<1>1. manipulation \in Prompts
  BY StrongestIsOne DEF Init, ColdStartPrompt, Prompts, HardPrompts, SoftPrompts
<1>a. family \in FamilyKeys /\ process \in 0..99
  BY DEF Init, process_ready
<1>b. NoDrink \in Drinks
  BY DEF Drinks, NoDrink, Categories
<1>c. sub_process \in 0..255 /\ progress \in 0..100 /\ cups \in 0..(CounterMod - 1)
  BY DEF Init
<1>2. SharedTyped
  BY <1>1, <1>a, <1>b, <1>c DEF Init, SharedTyped
<1>3. PlacesTyped
  BY DEF Init, PlacesTyped, Procs, ClientAt, BrewAt, CycleAt
<1>4. LocalsTyped
  BY <1>b DEF Init, LocalsTyped, NoFamily, FamilyKeys
<1>5. InRamp
  BY DEF Init, InRamp, RampAt, Procs
<1> QED
  BY <1>2, <1>3, <1>4, <1>5 DEF Typed, TypeOK

(* Every task stays in the code it runs.                                   *)
LEMMA PlacesStep ==
    ASSUME Typed, [Next]_vars
    PROVE  PlacesTyped'
<1> USE TasksAssumption
    DEF Typed, TypeOK, PlacesTyped, Procs, ClientAt, BrewAt, CycleAt, RampAt,
        EvaluateAt, Move, At, Goto
<1>1. ASSUME NEW p \in Procs, Evaluate(p) PROVE PlacesTyped'
  BY <1>1 DEF Evaluate, Reevaluate, Scan, ScanNothing, Raise, AfterRaise
<1>2. ASSUME NEW c \in Clients, Call(c) PROVE PlacesTyped'
  BY <1>2 DEF Call, BrewStart, CycleStart, BrewCancel, Confirm, SetTank,
     ResetTanks, Trigger, FamilyCli, FamilyUi
<1>3. ASSUME NEW c \in Clients, CallStep(c) PROVE PlacesTyped'
  BY <1>1, <1>3 DEF CallStep, BrewCheckCycle, BrewCheckPrompt, BrewCheckSoft,
     BrewBusy, BrewNoTask, BrewClaim, CycleCheckBrew, CycleBusy, CycleNoTask,
     CycleClaim, ConfirmSoft, ConfirmClear, ResetRead, ResetWrite, Return
<1>4. ASSUME NEW t \in BrewTasks, BrewStep(t) PROVE PlacesTyped'
  BY <1>1, <1>4 DEF BrewStep, BrewSnap, BrewFamily, Announce, BrewZero,
     BrewClear, Stage, Consume, ShowStage, Tick, Wait, NextStage, BrewProgress,
     BrewReady, BrewReset, Charge, Wear, BrewExit
<1>5. ASSUME NEW t \in CycleTasks, CycleStep(t) PROVE PlacesTyped'
  BY <1>1, <1>5 DEF CycleStep, CycleSnap, Prep, Unprep, CycleFamily, Emit,
     CycleTick, CycleProgress, CycleOver, CycleReady, CycleReset, CycleExit
<1>6. ASSUME UNCHANGED vars PROVE PlacesTyped'
  BY <1>6 DEF vars
<1> QED
  BY <1>2, <1>3, <1>4, <1>5, <1>6 DEF Next

(* A recipe in hand is one: the callers', the task's snapshot of s_arg.    *)
LEMMA DrinksStep ==
    ASSUME Typed, [Next]_vars
    PROVE  DrinkTyped'
<1> USE DEF Typed, TypeOK, SharedTyped, LocalsTyped, DrinkTyped, Procs, local, request
<1> NoDrink \in Drinks
  BY DEF NoDrink, Drinks, Categories
<1>0. ASSUME NEW c \in Clients, NEW q \in Selectors, BrewStart(c, q) PROVE DrinkTyped'
  <2>1. \A r \in Categories : [selector |-> q, category |-> r] \in Drinks
    BY InputsAssumption DEF Drinks
  <2> QED
    BY <1>0, <2>1 DEF BrewStart, RecipeCategories
<1>1. ASSUME NEW p \in Procs, Evaluate(p) PROVE DrinkTyped'
  BY <1>1 DEF Evaluate, Reevaluate, Scan, ScanNothing, Raise
<1>2. ASSUME NEW c \in Clients, Call(c) PROVE DrinkTyped'
  BY <1>0, <1>2 DEF Call, CycleStart, BrewCancel, Confirm, SetTank,
     ResetTanks, Trigger, FamilyCli, FamilyUi
<1>3. ASSUME NEW c \in Clients, CallStep(c) PROVE DrinkTyped'
  BY <1>1, <1>3 DEF CallStep, BrewCheckCycle, BrewCheckPrompt,
     BrewCheckSoft, BrewBusy, BrewNoTask, BrewClaim, CycleCheckBrew, CycleBusy,
     CycleNoTask, CycleClaim, ConfirmSoft, ConfirmClear, ResetRead, ResetWrite,
     Return
<1>4. ASSUME NEW t \in BrewTasks, BrewStep(t) PROVE DrinkTyped'
  BY <1>1, <1>4 DEF BrewStep, BrewSnap, BrewFamily, Announce, BrewZero,
     BrewClear, Stage, Consume, ShowStage, Tick, Wait, NextStage, BrewProgress,
     BrewReady, BrewReset, Charge, Wear, AddCup, BrewExit
<1>5. ASSUME NEW t \in CycleTasks, CycleStep(t) PROVE DrinkTyped'
  BY <1>1, <1>5 DEF CycleStep, CycleSnap, Prep, Unprep, CycleFamily, Emit,
     CycleTick, CycleProgress, CycleOver, CycleReady, CycleReset, CycleExit
<1>6. ASSUME UNCHANGED vars PROVE DrinkTyped'
  BY <1>6 DEF vars, local, request, evaluation, ramp
<1> QED
  BY <1>2, <1>3, <1>4, <1>5, <1>6 DEF Next

(* The other locals of a call, an evaluation or a task.                    *)
LEMMA LocalsStep ==
    ASSUME Typed, [Next]_vars
    PROVE  ScratchTyped'
<1> USE InputsAssumption
    DEF Typed, TypeOK, SharedTyped, LocalsTyped, ScratchTyped, Procs, local,
        evaluation, request, ramp, ReadFamily
<1> NoFamily \in FamilyKeys
  BY DEF NoFamily, FamilyKeys
<1>0. ASSUME NEW t \in BrewTasks, Tick(t) PROVE ScratchTyped'
  BY <1>0 DEF Tick, Wait, NextStage
<1>1. ASSUME NEW p \in Procs, Evaluate(p) PROVE ScratchTyped'
  BY <1>1 DEF Evaluate, Reevaluate, Scan, ScanNothing, Raise
<1>2. ASSUME NEW c \in Clients, Call(c) PROVE ScratchTyped'
  BY <1>2 DEF Call, BrewStart, CycleStart, BrewCancel, Confirm, SetTank,
     ResetTanks, Trigger, FamilyCli, FamilyUi
<1>3. ASSUME NEW c \in Clients, CallStep(c) PROVE ScratchTyped'
  BY <1>1, <1>3 DEF CallStep, BrewCheckCycle, BrewCheckPrompt,
     BrewCheckSoft, BrewBusy, BrewNoTask, BrewClaim, CycleCheckBrew, CycleBusy,
     CycleNoTask, CycleClaim, ConfirmSoft, ConfirmClear, ResetRead, ResetWrite,
     Return
<1>4. ASSUME NEW t \in BrewTasks, BrewStep(t) PROVE ScratchTyped'
  <2>1. CASE BrewFamily(t) \/ BrewReady(t)
    BY <2>1 DEF BrewFamily, BrewReady
  <2>2. CASE BrewStep(t) /\ ~(Tick(t) \/ Evaluate(t) \/ BrewFamily(t) \/ BrewReady(t))
    <3>1. UNCHANGED <<kind, fam, rest, found, tick>>
      BY <2>2 DEF BrewStep, BrewSnap, Announce, BrewZero, BrewClear, Stage,
         Consume, ShowStage, BrewProgress, BrewReset, Charge, Wear, AddCup,
         BrewExit
    <3> QED
      BY <3>1
  <2> QED
    BY <1>0, <1>1, <1>4, <2>1, <2>2
<1>5. ASSUME NEW t \in CycleTasks, CycleStep(t) PROVE ScratchTyped'
  BY <1>1, <1>5 DEF CycleStep, CycleSnap, Prep, Unprep, CycleFamily, Emit,
     CycleTick, CycleProgress, CycleOver, CycleReady, CycleReset, CycleExit
<1>6. ASSUME UNCHANGED vars PROVE ScratchTyped'
  BY <1>6 DEF vars, local, request, evaluation, ramp
<1> QED
  BY <1>2, <1>3, <1>4, <1>5, <1>6 DEF Next

(* The stage counter only starts, advances or is dropped.                  *)
LEMMA StageStep ==
    ASSUME Typed, [Next]_vars
    PROVE  StageTyped'
<1> USE DEF Typed, TypeOK, LocalsTyped, StageTyped, Procs, local, ramp
<1>1. ASSUME NEW p \in Procs, Evaluate(p) PROVE StageTyped'
  BY <1>1 DEF Evaluate, Reevaluate, Scan, ScanNothing, Raise
<1>2. ASSUME NEW c \in Clients, Call(c) PROVE StageTyped'
  BY <1>2 DEF Call, BrewStart, CycleStart, BrewCancel, Confirm, SetTank,
     ResetTanks, Trigger, FamilyCli, FamilyUi
<1>3. ASSUME NEW c \in Clients, CallStep(c) PROVE StageTyped'
  BY <1>1, <1>3 DEF CallStep, BrewCheckCycle, BrewCheckPrompt,
     BrewCheckSoft, BrewBusy, BrewNoTask, BrewClaim, CycleCheckBrew, CycleBusy,
     CycleNoTask, CycleClaim, ConfirmSoft, ConfirmClear, ResetRead, ResetWrite,
     Return
<1>4. ASSUME NEW t \in BrewTasks, BrewStep(t) PROVE StageTyped'
  BY <1>1, <1>4 DEF BrewStep, BrewSnap, BrewFamily, Announce, BrewZero,
     BrewClear, Stage, Consume, ShowStage, Tick, Wait, NextStage, BrewProgress,
     BrewReady, BrewReset, Charge, Wear, AddCup, BrewExit
<1>5. ASSUME NEW t \in CycleTasks, CycleStep(t) PROVE StageTyped'
  BY <1>1, <1>5 DEF CycleStep, CycleSnap, Prep, Unprep, CycleFamily, Emit,
     CycleTick, CycleProgress, CycleOver, CycleReady, CycleReset, CycleExit
<1>6. ASSUME UNCHANGED vars PROVE StageTyped'
  BY <1>6 DEF vars, local, request, evaluation, ramp
<1> QED
  BY <1>2, <1>3, <1>4, <1>5, <1>6 DEF Next

(* The stage loop leaves the ramp by its head and by no other way.         *)
LEMMA InRampStep ==
    ASSUME Typed, [Next]_vars
    PROVE  InRamp'
<1> USE TasksAssumption
    DEF Typed, TypeOK, PlacesTyped, LocalsTyped, InRamp, RampAt, Procs, local,
        ramp, request, Stages, Move, At, Goto
<1>1. ASSUME NEW p \in Procs, Evaluate(p) PROVE InRamp'
  BY <1>1 DEF Evaluate, AfterRaise, Reevaluate, Scan, ScanNothing, Raise
<1>2. ASSUME NEW c \in Clients, Call(c) PROVE InRamp'
  BY <1>2 DEF Call, BrewStart, CycleStart, BrewCancel, Confirm, SetTank,
     ResetTanks, Trigger, FamilyCli, FamilyUi
<1>3. ASSUME NEW c \in Clients, CallStep(c) PROVE InRamp'
  BY <1>1, <1>3 DEF CallStep, BrewCheckCycle, BrewCheckPrompt,
     BrewCheckSoft, BrewBusy, BrewNoTask, BrewClaim, CycleCheckBrew, CycleBusy,
     CycleNoTask, CycleClaim, ConfirmSoft, ConfirmClear, ResetRead, ResetWrite,
     Return
<1>4. ASSUME NEW t \in BrewTasks, BrewStep(t) PROVE InRamp'
  BY <1>1, <1>4 DEF BrewStep, BrewSnap, BrewFamily, Announce, BrewZero,
     BrewClear, Stage, Consume, ShowStage, Tick, Wait, NextStage, BrewProgress,
     BrewReady, BrewReset, Charge, Wear, AddCup, BrewExit
<1>5. ASSUME NEW t \in CycleTasks, CycleStep(t) PROVE InRamp'
  BY <1>1, <1>5 DEF CycleStep, CycleSnap, Prep, Unprep, CycleFamily, Emit,
     CycleTick, CycleProgress, CycleOver, CycleReady, CycleReset, CycleExit
<1>6. ASSUME UNCHANGED vars PROVE InRamp'
  BY <1>6 DEF vars, local, request, evaluation, ramp
<1> QED
  BY <1>2, <1>3, <1>4, <1>5, <1>6 DEF Next

(* The family, the tanks and the cup counter.                              *)
LEMMA SettingsStep ==
    ASSUME Typed, [Next]_vars
    PROVE  SettingsTyped'
<1> USE InputsAssumption, BoundsAssumption
    DEF Typed, TypeOK, SharedTyped, SettingsTyped, Procs, shared, settings, OnlyStatus,
        SetProcess, SetProgress, SetManipulation
<1>0. ASSUME NEW t \in BrewTasks, Wear(t) PROVE SettingsTyped'
  <2>1. \A n \in 0..(CounterMod - 1) : (n + 1) % CounterMod \in 0..(CounterMod - 1)
    OBVIOUS
  <2> QED
    BY <1>0, <2>1 DEF Wear, AddCup
<1>1. ASSUME NEW p \in Procs, Evaluate(p) PROVE SettingsTyped'
  BY <1>1 DEF Evaluate, Reevaluate, Scan, ScanNothing, Raise
<1>2. ASSUME NEW c \in Clients, Call(c) PROVE SettingsTyped'
  BY <1>2 DEF Call, BrewStart, CycleStart, BrewCancel, Confirm, SetTank,
     ResetTanks, Trigger, FamilyCli, FamilyUi
<1>3. ASSUME NEW c \in Clients, CallStep(c) PROVE SettingsTyped'
  BY <1>1, <1>3 DEF CallStep, BrewCheckCycle, BrewCheckPrompt,
     BrewCheckSoft, BrewBusy, BrewNoTask, BrewClaim, CycleCheckBrew, CycleBusy,
     CycleNoTask, CycleClaim, ConfirmSoft, ConfirmClear, ResetRead, ResetWrite,
     Return
<1>4. ASSUME NEW t \in BrewTasks, BrewStep(t) PROVE SettingsTyped'
  BY <1>0, <1>1, <1>4 DEF BrewStep, BrewSnap, BrewFamily, Announce, BrewZero,
     BrewClear, Stage, Consume, ShowStage, Tick, Wait, NextStage, BrewProgress,
     BrewReady, BrewReset, Charge, BrewExit
<1>5. ASSUME NEW t \in CycleTasks, CycleStep(t) PROVE SettingsTyped'
  BY <1>1, <1>5 DEF CycleStep, CycleSnap, Prep, Unprep, CycleFamily, Emit,
     CycleTick, CycleProgress, CycleOver, CycleReady, CycleReset, CycleExit
<1>6. ASSUME UNCHANGED vars PROVE SettingsTyped'
  BY <1>6 DEF vars
<1> QED
  BY <1>2, <1>3, <1>4, <1>5, <1>6 DEF Next

(* What nivona_brew_start and nivona_maint_cycle_start write.              *)
LEMMA OrdersStep ==
    ASSUME Typed, [Next]_vars
    PROVE  OrdersTyped'
<1> USE DEF Typed, TypeOK, SharedTyped, LocalsTyped, OrdersTyped,
    Procs, shared, brewOrder, cycleOrder, OnlyStatus, SetProcess,
        SetProgress, SetManipulation
<1>0. ASSUME NEW c \in Clients,
            \/ BrewNoTask(c) \/ \E t \in BrewTasks : BrewClaim(c, t)
            \/ CycleNoTask(c) \/ \E t \in CycleTasks : CycleClaim(c, t)
     PROVE OrdersTyped'
  <2>1. drink[c] \in Drinks /\ kind[c] \in CycleKinds \cup {NoKind}
    OBVIOUS
  <2> QED
    BY <1>0, <2>1 DEF BrewNoTask, BrewClaim, CycleNoTask, CycleClaim
<1>1. ASSUME NEW p \in Procs, Evaluate(p) PROVE OrdersTyped'
  BY <1>1 DEF Evaluate, Reevaluate, Scan, ScanNothing, Raise
<1>2. ASSUME NEW c \in Clients, Call(c) PROVE OrdersTyped'
  BY <1>2 DEF Call, BrewStart, CycleStart, BrewCancel, Confirm, SetTank,
     ResetTanks, Trigger, FamilyCli, FamilyUi
<1>3. ASSUME NEW c \in Clients, CallStep(c) PROVE OrdersTyped'
  <2>1. CASE \/ BrewNoTask(c) \/ \E t \in BrewTasks : BrewClaim(c, t)
             \/ CycleNoTask(c) \/ \E t \in CycleTasks : CycleClaim(c, t)
    BY <1>0, <2>1
  <2>2. CASE Evaluate(c)
    BY <1>1, <2>2
  <2>3. CASE \/ BrewCheckCycle(c) \/ BrewCheckPrompt(c) \/ BrewCheckSoft(c)
             \/ BrewBusy(c) \/ CycleCheckBrew(c) \/ CycleBusy(c)
             \/ ConfirmSoft(c) \/ ConfirmClear(c) \/ ResetRead(c) \/ ResetWrite(c)
    <3>1. UNCHANGED <<brewOrder, cycleOrder>>
      BY <2>3 DEF BrewCheckCycle, BrewCheckPrompt, BrewCheckSoft, BrewBusy,
         CycleCheckBrew, CycleBusy, ConfirmSoft, ConfirmClear, ResetRead,
         ResetWrite
    <3> QED
      BY <3>1
  <2> QED
    BY <1>3, <2>1, <2>2, <2>3 DEF CallStep
<1>4. ASSUME NEW t \in BrewTasks, BrewStep(t) PROVE OrdersTyped'
  <2>1. CASE Consume(t)
    BY <2>1 DEF Consume
  <2>2. CASE BrewExit(t)
    <3>1. NoDrink \in Drinks
      BY DEF NoDrink, Drinks, Categories
    <3> QED
      BY <2>2, <3>1 DEF BrewExit
  <2> QED
    BY <1>1, <1>4, <2>1, <2>2 DEF BrewStep, BrewSnap, BrewFamily, Announce, BrewZero,
       BrewClear, Stage, ShowStage, Tick, Wait, NextStage, BrewProgress,
       BrewReady, BrewReset, Charge, Wear, AddCup
<1>5. ASSUME NEW t \in CycleTasks, CycleStep(t) PROVE OrdersTyped'
  BY <1>1, <1>5 DEF CycleStep, CycleSnap, Prep, Unprep, CycleFamily, Emit,
     CycleTick, CycleProgress, CycleOver, CycleReady, CycleReset, CycleExit
<1>6. ASSUME UNCHANGED vars PROVE OrdersTyped'
  BY <1>6 DEF vars
<1> QED
  BY <1>2, <1>3, <1>4, <1>5, <1>6 DEF Next

(* The status block: every code, prompt and percentage that is written is  *)
(* one a client can read.                                                  *)
LEMMA StatusStep ==
    ASSUME Typed, [Next]_vars
    PROVE  StatusTyped'
<1> USE DEF StatusTyped
<1>a. \A f : process_ready(f) \in 0..99 /\ process_brewing(f) \in 0..99
  BY DEF process_ready, process_brewing
<1>b. \A k \in CycleKinds \cup {NoKind} : PrepPrompt(k) \in Prompts
                     /\ \A f : EmitCode(k, f) \in 0..99
  BY <1>a DEF PrepPrompt, EmitCode, Prompts, HardPrompts, SoftPrompts, Conditions,
     Rank, CycleKinds, NoKind, FILTER_INSERT, BUSY
<1>c. "NONE" \in Prompts /\ Conditions \subseteq Prompts
  BY DEF Prompts, HardPrompts
<1>d. \A t \in BrewTasks :
        /\ drink[t].selector \in 0..255
        /\ drink[t].category \in Categories
  BY DEF Typed, TypeOK, LocalsTyped, Procs, Drinks
<1>e. ASSUME NEW t \in BrewTasks, ShowStage(t) \/ BrewProgress(t) PROVE StatusTyped'
  <2>1. /\ Len(Stages(t)) \in 1..3
        /\ stage[t] \in 1..Len(Stages(t))
        /\ Stages(t)[stage[t]] \in 1..4
    <3>1. pc[t] \in RampAt \ {"stage"}
      BY <1>e DEF ShowStage, BrewProgress, Move, At, RampAt
    <3>2. stage[t] \in 1..Len(Stages(t))
      BY <3>1 DEF Typed, InRamp
    <3> QED
      BY <3>2, <1>d, RampStages DEF Stages
  <2>2. tick[t] \in Nat /\ StageTicks \in Nat \ {0}
    BY BoundsAssumption DEF Typed, TypeOK, LocalsTyped, Procs
  <2>3. /\ (stage[t] - 1) * StageTicks + tick[t] \in Nat
        /\ Len(Stages(t)) * StageTicks \in Nat \ {0}
    <3>1. stage[t] - 1 \in Nat
      BY <2>1
    <3>2. (stage[t] - 1) * StageTicks \in Nat
      BY <3>1, <2>2, NaturalProduct
    <3>3. Len(Stages(t)) * StageTicks \in Nat \ {0}
      BY <2>1, <2>2, NaturalProduct
    <3> QED
      BY <3>2, <3>3, <2>2
  <2>4. Percent((stage[t] - 1) * StageTicks + tick[t],
                Len(Stages(t)) * StageTicks) \in 0..100
    BY <2>3, PercentRange
  <2>5. CASE ShowStage(t)
    <3>1. /\ process' = process_brewing(fam[t])
          /\ sub_process' = Stages(t)[stage[t]]
          /\ manipulation' = manipulation /\ progress' = progress
      BY <2>5 DEF ShowStage, SetProcess
    <3>2. process' \in 0..99
      BY <3>1, <1>a
    <3>3. sub_process' \in 0..255
      BY <3>1, <2>1
    <3> QED
      BY <3>1, <3>2, <3>3 DEF Typed, TypeOK, SharedTyped
  <2>6. CASE BrewProgress(t)
    BY <2>6, <2>4 DEF BrewProgress, SetProgress, Typed, TypeOK, SharedTyped
  <2> QED
    BY <1>e, <2>5, <2>6
<1>f. ASSUME NEW t \in CycleTasks, CycleProgress(t) PROVE StatusTyped'
  <2>1. Percent(tick[t], CycleTicks) \in 0..100
    BY PercentRange, BoundsAssumption DEF Typed, TypeOK, LocalsTyped, Procs
  <2> QED
    BY <1>f, <2>1 DEF CycleProgress, SetProgress, Typed, TypeOK, SharedTyped
<1> USE <1>a, <1>b, <1>c
    DEF Typed, TypeOK, SharedTyped, LocalsTyped, Procs, shared, status, SetProcess,
        SetProgress, SetManipulation
<1>g. ASSUME NEW t \in BrewTasks, Announce(t) PROVE StatusTyped'
  BY <1>d, <1>g DEF Announce
<1>1. ASSUME NEW p \in Procs, Evaluate(p) PROVE StatusTyped'
  BY <1>1 DEF Evaluate, Reevaluate, Scan, ScanNothing, Raise
<1>2. ASSUME NEW c \in Clients, Call(c) PROVE StatusTyped'
  BY <1>2 DEF Call, BrewStart, CycleStart, BrewCancel, Confirm, SetTank,
     ResetTanks, Trigger, FamilyCli, FamilyUi
<1>3. ASSUME NEW c \in Clients, CallStep(c) PROVE StatusTyped'
  BY <1>1, <1>3 DEF CallStep, BrewCheckCycle, BrewCheckPrompt,
     BrewCheckSoft, BrewBusy, BrewNoTask, BrewClaim, CycleCheckBrew, CycleBusy,
     CycleNoTask, CycleClaim, ConfirmSoft, ConfirmClear, ResetRead, ResetWrite,
     Return
<1>4. ASSUME NEW t \in BrewTasks, BrewStep(t) PROVE StatusTyped'
  <2>1. CASE \/ BrewSnap(t) \/ BrewFamily(t) \/ Stage(t) \/ Consume(t) \/ Tick(t)
             \/ Charge(t) \/ Wear(t) \/ BrewExit(t)
    <3>1. UNCHANGED <<process, sub_process, manipulation, progress>>
      BY <2>1 DEF BrewSnap, BrewFamily, Stage, Consume, Tick, Wait, NextStage,
         Charge, Wear, AddCup, BrewExit
    <3> QED
      BY <3>1
  <2>2. CASE BrewZero(t) \/ BrewReset(t)
    BY <2>2 DEF BrewZero, BrewReset
  <2>3. CASE BrewClear(t)
    BY <2>3 DEF BrewClear
  <2>4. CASE BrewReady(t)
    <3>1. process' = process_ready(fam[t]) /\ sub_process' = 0
          /\ manipulation' = manipulation /\ progress' = progress
      BY <2>4 DEF BrewReady
    <3> QED
      BY <3>1
  <2> QED
    BY <1>e, <1>g, <1>1, <1>4, <2>1, <2>2, <2>3, <2>4 DEF BrewStep
<1>5. ASSUME NEW t \in CycleTasks, CycleStep(t) PROVE StatusTyped'
  <2>1. CASE CycleSnap(t) \/ CycleFamily(t) \/ CycleTick(t) \/ CycleOver(t) \/ CycleExit(t)
    <3>1. UNCHANGED <<process, sub_process, manipulation, progress>>
      BY <2>1 DEF CycleSnap, CycleFamily, CycleTick, CycleOver, CycleExit
    <3> QED
      BY <3>1
  <2>2. CASE Unprep(t) \/ CycleReset(t)
    BY <2>2 DEF Unprep, CycleReset
  <2>3. CASE Prep(t)
    <3>1. PrepPrompt(kind[t]) \in Prompts
      OBVIOUS
    <3> QED
      BY <2>3, <3>1 DEF Prep
  <2>4. CASE Emit(t) \/ CycleReady(t)
    <3>1. EmitCode(kind[t], fam[t]) \in 0..99 /\ process_ready(fam[t]) \in 0..99
      OBVIOUS
    <3> QED
      BY <2>4, <3>1 DEF Emit, CycleReady
  <2> QED
    BY <1>f, <1>1, <1>5, <2>1, <2>2, <2>3, <2>4 DEF CycleStep
<1>6. ASSUME UNCHANGED vars PROVE StatusTyped'
  BY <1>6 DEF vars
<1> QED
  BY <1>2, <1>3, <1>4, <1>5, <1>6 DEF Next

(* All parts together.                                                     *)
LEMMA TypedStep == Typed /\ [Next]_vars => Typed'
  BY SettingsStep, OrdersStep, StatusStep, DrinksStep, LocalsStep, StageStep,
     PlacesStep, InRampStep
     DEF Typed, TypeOK, SharedTyped, LocalsTyped, SettingsTyped, OrdersTyped,
         StatusTyped, DrinkTyped, ScratchTyped, StageTyped

(* Whatever the clients, the brews and the cycles do, and in whatever      *)
(* order, every variable has its type: no task leaves its code, no         *)
(* percentage exceeds 100 and no stage index leaves its ramp.              *)
THEOREM TypeCorrect == Spec => []TypeOK
<1>1. Typed => TypeOK
  BY DEF Typed
<1> QED
  BY <1>1, TypedInit, TypedStep, PTL DEF Spec

-----------------------------------------------------------------------------
(* THE SAFETY INVARIANTS.                                                  *)

(* One task each.                                                          *)

(* There is no task when app_main has run.                                 *)
LEMMA OneTaskInit == Init => OneTaskEach
  BY TasksAssumption DEF Init, OneTaskEach, Live, LiveBrews, LiveCycles, Procs

(* A claim, made under the lock, finds no task of its kind; only the last  *)
(* step of a task clears s_active.                                         *)
LEMMA OneTaskStep ==
    ASSUME Typed, OneTaskEach, [Next]_vars
    PROVE  OneTaskEach'
<1> USE TasksAssumption
    DEF Typed, TypeOK, PlacesTyped, Procs, OneTaskEach, Live, LiveBrews,
        LiveCycles, Move, At, Goto, shared, brewOrder, cycleOrder, SetProcess,
        SetProgress, SetManipulation, OnlyStatus
<1>1. ASSUME NEW p \in Procs, Evaluate(p) PROVE OneTaskEach'
  BY <1>1 DEF Evaluate, Reevaluate, Scan, ScanNothing, Raise, AfterRaise
<1>2. ASSUME NEW c \in Clients, Call(c) PROVE OneTaskEach'
  BY <1>2 DEF Call, BrewStart, CycleStart, BrewCancel, Confirm, SetTank,
     ResetTanks, Trigger, FamilyCli, FamilyUi
<1>3. ASSUME NEW c \in Clients, CallStep(c) PROVE OneTaskEach'
  BY <1>1, <1>3 DEF CallStep, BrewCheckCycle, BrewCheckPrompt,
     BrewCheckSoft, BrewBusy, BrewNoTask, BrewClaim, CycleCheckBrew, CycleBusy,
     CycleNoTask, CycleClaim, ConfirmSoft, ConfirmClear, ResetRead, ResetWrite,
     Return
<1>4. ASSUME NEW t \in BrewTasks, BrewStep(t) PROVE OneTaskEach'
  BY <1>1, <1>4 DEF BrewStep, BrewSnap, BrewFamily, Announce, BrewZero,
     BrewClear, Stage, Consume, ShowStage, Tick, Wait, NextStage, BrewProgress,
     BrewReady, BrewReset, Charge, Wear, AddCup, BrewExit
<1>5. ASSUME NEW t \in CycleTasks, CycleStep(t) PROVE OneTaskEach'
  BY <1>1, <1>5 DEF CycleStep, CycleSnap, Prep, Unprep, CycleFamily, Emit,
     CycleTick, CycleProgress, CycleOver, CycleReady, CycleReset, CycleExit
<1>6. ASSUME UNCHANGED vars PROVE OneTaskEach'
  BY <1>6 DEF vars
<1> QED
  BY <1>2, <1>3, <1>4, <1>5, <1>6 DEF Next

-----------------------------------------------------------------------------
(* A cancel belongs to the brew that is running.                           *)

(* Only nivona_brew_cancel sets s_cancel, with s_active true; the claim    *)
(* and the exit, which change s_active, clear it.                          *)
LEMMA CancelStep ==
    ASSUME NoStaleCancel, [Next]_vars
    PROVE  NoStaleCancel'
<1> DEFINE Kept == UNCHANGED <<brewActive, brewCancel>>
<1> USE DEF shared, brewOrder, SetProcess, SetProgress, SetManipulation,
        OnlyStatus
<1>1. ASSUME Kept PROVE NoStaleCancel'
  BY <1>1 DEF NoStaleCancel
<1>2. ASSUME NEW p \in Procs, Evaluate(p) PROVE Kept
  BY <1>2 DEF Evaluate, Reevaluate, Scan, ScanNothing, Raise
<1>3. ASSUME NEW c \in Clients, Call(c) PROVE NoStaleCancel'
  <2>1. CASE BrewCancel(c)
    BY <2>1 DEF BrewCancel, NoStaleCancel
  <2>2. CASE Call(c) /\ ~BrewCancel(c)
    <3>1. Kept
      BY <2>2 DEF Call, BrewStart, CycleStart, Confirm, SetTank, ResetTanks,
         Trigger, FamilyCli, FamilyUi
    <3> QED
      BY <1>1, <3>1
  <2> QED
    BY <1>3, <2>1, <2>2
<1>4. ASSUME NEW c \in Clients, CallStep(c) PROVE NoStaleCancel'
  <2>1. CASE BrewNoTask(c) \/ \E t \in BrewTasks : BrewClaim(c, t)
    <3>1. brewCancel' = FALSE
      BY <2>1 DEF BrewNoTask, BrewClaim
    <3> QED
      BY <3>1 DEF NoStaleCancel
  <2>2. CASE Evaluate(c)
    BY <1>1, <1>2, <2>2 DEF Procs
  <2>3. CASE \/ BrewCheckCycle(c) \/ BrewCheckPrompt(c) \/ BrewCheckSoft(c)
             \/ BrewBusy(c) \/ CycleCheckBrew(c) \/ CycleBusy(c)
             \/ ConfirmSoft(c) \/ ConfirmClear(c) \/ ResetRead(c)
             \/ ResetWrite(c)
    <3>1. Kept
      BY <2>3 DEF BrewCheckCycle, BrewCheckPrompt, BrewCheckSoft, BrewBusy,
         CycleCheckBrew, CycleBusy, ConfirmSoft, ConfirmClear, ResetRead,
         ResetWrite
    <3> QED
      BY <1>1, <3>1
  <2>4. CASE CycleNoTask(c) \/ \E t \in CycleTasks : CycleClaim(c, t)
    <3>1. Kept
      BY <2>4 DEF CycleNoTask, CycleClaim
    <3> QED
      BY <1>1, <3>1
  <2> QED
    BY <1>4, <2>1, <2>2, <2>3, <2>4 DEF CallStep
<1>5. ASSUME NEW t \in BrewTasks, BrewStep(t) PROVE NoStaleCancel'
  <2>1. CASE BrewExit(t)
    BY <2>1 DEF BrewExit, NoStaleCancel
  <2>2. CASE Evaluate(t)
    BY <1>1, <1>2, <2>2 DEF Procs
  <2>3. CASE BrewStep(t) /\ ~BrewExit(t) /\ ~Evaluate(t)
    <3>1. Kept
      BY <2>3 DEF BrewStep, BrewSnap, BrewFamily, Announce, BrewZero,
         BrewClear, Stage, Consume, ShowStage, Tick, Wait, NextStage,
         BrewProgress, BrewReady, BrewReset, Charge, Wear, AddCup
    <3> QED
      BY <1>1, <3>1
  <2> QED
    BY <1>5, <2>1, <2>2, <2>3
<1>6. ASSUME NEW t \in CycleTasks, CycleStep(t) PROVE Kept
  BY <1>2, <1>6 DEF CycleStep, CycleSnap, Prep, Unprep, CycleFamily, Emit,
     CycleTick, CycleProgress, CycleOver, CycleReady, CycleReset, CycleExit,
     Procs
<1>7. ASSUME UNCHANGED vars PROVE Kept
  BY <1>7 DEF vars
<1> QED
  BY <1>1, <1>3, <1>4, <1>5, <1>6, <1>7 DEF Next

-----------------------------------------------------------------------------
(* Tasks run what was accepted.                                            *)

(* What a claim accepted is still in s_arg or s_kind when the task comes   *)
(* to take it from there.                                                  *)
HandedOver ==
    /\ \A t \in BrewTasks : pc[t] = "snap" => brewArg = acceptedDrink[t]
    /\ \A t \in CycleTasks : pc[t] = "snap" => cycleKind = acceptedKind[t]

Accepted == HandedOver /\ RunsWhatWasAccepted

(* No task, no promise.                                                    *)
LEMMA AcceptedInit == Init => Accepted
  BY TasksAssumption DEF Init, Accepted, HandedOver, RunsWhatWasAccepted, Procs

(* s_arg and s_kind are written only where s_active is false, when no task *)
(* is left that is still to read them.                                     *)
LEMMA AcceptedStep ==
    ASSUME Typed, OneTaskEach, Accepted, [Next]_vars
    PROVE  Accepted'
<1> USE TasksAssumption
    DEF Typed, TypeOK, PlacesTyped, SharedTyped, LocalsTyped, Procs, OneTaskEach, Live,
        Accepted, HandedOver, RunsWhatWasAccepted, Move, At, Goto, local, request,
        shared, brewOrder, cycleOrder, status, SetProcess, SetProgress,
        SetManipulation, OnlyStatus
<1>1. ASSUME NEW p \in Procs, Evaluate(p) PROVE Accepted'
  BY <1>1 DEF Evaluate, Reevaluate, Scan, ScanNothing, Raise, AfterRaise
<1>2. ASSUME NEW c \in Clients, Call(c) PROVE Accepted'
  BY <1>2 DEF Call, BrewStart, CycleStart, BrewCancel, Confirm, SetTank,
     ResetTanks, Trigger, FamilyCli, FamilyUi
<1>3. ASSUME NEW c \in Clients, CallStep(c) PROVE Accepted'
  <2>1. ASSUME NEW t \in BrewTasks, BrewClaim(c, t) PROVE Accepted'
    BY <2>1 DEF BrewClaim
  <2>2. ASSUME NEW t \in CycleTasks, CycleClaim(c, t) PROVE Accepted'
    BY <2>2 DEF CycleClaim
  <2>3. CASE BrewNoTask(c) \/ CycleNoTask(c)
    BY <2>3 DEF BrewNoTask, CycleNoTask, Return
  <2> QED
    BY <1>1, <1>3, <2>1, <2>2, <2>3 DEF CallStep, BrewCheckCycle, BrewCheckPrompt,
       BrewCheckSoft, BrewBusy, CycleCheckBrew, CycleBusy, ConfirmSoft, ConfirmClear,
       ResetRead, ResetWrite, Return
<1>4. ASSUME NEW t \in BrewTasks, BrewStep(t) PROVE Accepted'
  <2>1. CASE BrewSnap(t)
    BY <2>1 DEF BrewSnap
  <2>2. CASE BrewExit(t)
    BY <2>2 DEF BrewExit
  <2>3. CASE BrewStep(t) /\ ~(BrewSnap(t) \/ BrewExit(t) \/ Evaluate(t))
    <3>1. UNCHANGED <<brewArg, cycleKind, acceptedDrink, acceptedKind, drink, kind>>
      BY <2>3 DEF BrewStep, BrewFamily, Announce, BrewZero, BrewClear, Stage,
         Consume, ShowStage, Tick, Wait, NextStage, BrewProgress, BrewReady,
         BrewReset, Charge, Wear, AddCup
    <3>2. /\ pc[t] \notin {"dead", "snap"} /\ pc'[t] # "snap"
          /\ pc' = [pc EXCEPT ![t] = pc'[t]]
      BY <2>3 DEF BrewStep, BrewFamily, Announce, BrewZero, BrewClear, Stage,
         Consume, ShowStage, Tick, Wait, NextStage, BrewProgress, BrewReady,
         BrewReset, Charge, Wear, AddCup
    <3> QED
      BY <3>1, <3>2
  <2> QED
    BY <1>1, <1>4, <2>1, <2>2, <2>3
<1>5. ASSUME NEW t \in CycleTasks, CycleStep(t) PROVE Accepted'
  BY <1>1, <1>5 DEF CycleStep, CycleSnap, Prep, Unprep, CycleFamily, Emit,
     CycleTick, CycleProgress, CycleOver, CycleReady, CycleReset, CycleExit
<1>6. ASSUME UNCHANGED vars PROVE Accepted'
  BY <1>6 DEF vars
<1> QED
  BY <1>2, <1>3, <1>4, <1>5, <1>6 DEF Next

-----------------------------------------------------------------------------
(* A cancelled brew stops.                                                 *)

(* Who has passed the head of the stage loop since the cancel: nobody; and *)
(* the one who had passed it before has consumed once.                     *)
Stopping ==
    /\ ~brewCancel => late = 0
    /\ late \in {0, 1}
    /\ late = 1 => \A t \in BrewTasks : pc[t] # "consume"

LEMMA StoppingInit == Init => Stopping
  BY DEF Init, Stopping

LEMMA StoppingStep ==
    ASSUME Typed, OneTaskEach, NoStaleCancel, Stopping, [Next]_vars
    PROVE  Stopping'
<1> USE TasksAssumption
    DEF Typed, TypeOK, PlacesTyped, Procs, OneTaskEach, Live, NoStaleCancel,
        Stopping, Move, At, Goto, shared, brewOrder, SetProcess, SetProgress,
        SetManipulation, OnlyStatus
<1>1. ASSUME NEW p \in Procs, Evaluate(p) PROVE Stopping'
  BY <1>1 DEF Evaluate, Reevaluate, Scan, ScanNothing, Raise, AfterRaise
<1>2. ASSUME NEW c \in Clients, Call(c) PROVE Stopping'
  BY <1>2 DEF Call, BrewStart, CycleStart, BrewCancel, Confirm, SetTank,
     ResetTanks, Trigger, FamilyCli, FamilyUi
<1>3. ASSUME NEW c \in Clients, CallStep(c) PROVE Stopping'
  BY <1>1, <1>3 DEF CallStep, BrewCheckCycle, BrewCheckPrompt,
     BrewCheckSoft, BrewBusy, BrewNoTask, BrewClaim, CycleCheckBrew, CycleBusy,
     CycleNoTask, CycleClaim, ConfirmSoft, ConfirmClear, ResetRead, ResetWrite,
     Return
<1>4. ASSUME NEW t \in BrewTasks, BrewStep(t) PROVE Stopping'
  <2>1. CASE Consume(t)
    <3>1. late = 0 /\ pc'[t] = "show_stage"
          /\ \A u \in BrewTasks : u # t => pc'[u] = "dead"
      BY <2>1 DEF Consume
    <3> QED
      BY <2>1, <3>1 DEF Consume
  <2> QED
    BY <1>1, <1>4, <2>1 DEF BrewStep, BrewSnap, BrewFamily, Announce, BrewZero,
       BrewClear, Stage, ShowStage, Tick, Wait, NextStage, BrewProgress,
       BrewReady, BrewReset, Charge, Wear, AddCup, BrewExit
<1>5. ASSUME NEW t \in CycleTasks, CycleStep(t) PROVE Stopping'
  BY <1>1, <1>5 DEF CycleStep, CycleSnap, Prep, Unprep, CycleFamily, Emit,
     CycleTick, CycleProgress, CycleOver, CycleReady, CycleReset, CycleExit
<1>6. ASSUME UNCHANGED vars PROVE Stopping'
  BY <1>6 DEF vars
<1> QED
  BY <1>2, <1>3, <1>4, <1>5, <1>6 DEF Next

-----------------------------------------------------------------------------
(* The status block is settled.                                            *)

BrewShows  == {"brew_zero", "brew_clear", "ready"} \cup RampAt
CycleShows == {"tick", "progress", "ready"}

(* The strengthening of SettledReady: a status block that is not settled   *)
(* has a task that is going to settle it.                                  *)
Settling ==
    /\ \/ \E t \in BrewTasks : pc[t] \in BrewShows
       \/ \E t \in CycleTasks : pc[t] \in CycleShows
       \/ process \in ReadyCodes /\ sub_process = 0
    /\ \/ \E t \in BrewTasks : pc[t] \in {"ready", "zero"} \cup RampAt
       \/ \E t \in CycleTasks : pc[t] \in {"zero"} \cup CycleShows
       \/ progress = 0

(* app_main leaves the status block at READY.                              *)
LEMMA SettlingInit == Init => Settling
  BY DEF Init, Settling, process_ready, ReadyCodes

(* Whoever changes the code, the sub code or the progress is still to put  *)
(* them back.                                                              *)
LEMMA SettlingStep ==
    ASSUME Typed, Settling, [Next]_vars
    PROVE  Settling'
<1> USE TasksAssumption
    DEF Typed, TypeOK, PlacesTyped, Procs, Settling, BrewShows, CycleShows,
        RampAt, process_ready, ReadyCodes, Move, At, Goto, shared, brewOrder,
        cycleOrder, status, SetProcess, SetProgress, SetManipulation, OnlyStatus
<1>1. ASSUME NEW p \in Procs, Evaluate(p) PROVE Settling'
  BY <1>1 DEF Evaluate, Reevaluate, Scan, ScanNothing, Raise, AfterRaise
<1>2. ASSUME NEW c \in Clients, Call(c) PROVE Settling'
  BY <1>2 DEF Call, BrewStart, CycleStart, BrewCancel, Confirm, SetTank,
     ResetTanks, Trigger, FamilyCli, FamilyUi
<1>3. ASSUME NEW c \in Clients, CallStep(c) PROVE Settling'
  BY <1>1, <1>3 DEF CallStep, BrewCheckCycle, BrewCheckPrompt,
     BrewCheckSoft, BrewBusy, BrewNoTask, BrewClaim, CycleCheckBrew, CycleBusy,
     CycleNoTask, CycleClaim, ConfirmSoft, ConfirmClear, ResetRead, ResetWrite,
     Return
<1>4. ASSUME NEW t \in BrewTasks, BrewStep(t) PROVE Settling'
  BY <1>1, <1>4 DEF BrewStep, BrewSnap, BrewFamily, Announce, BrewZero,
     BrewClear, Stage, Consume, ShowStage, Tick, Wait, NextStage, BrewProgress,
     BrewReady, BrewReset, Charge, Wear, AddCup, BrewExit
<1>5. ASSUME NEW t \in CycleTasks, CycleStep(t) PROVE Settling'
  BY <1>1, <1>5 DEF CycleStep, CycleSnap, Prep, Unprep, CycleFamily, Emit,
     CycleTick, CycleProgress, CycleOver, CycleReady, CycleReset, CycleExit
<1>6. ASSUME UNCHANGED vars PROVE Settling'
  BY <1>6 DEF vars
<1> QED
  BY <1>2, <1>3, <1>4, <1>5, <1>6 DEF Next

-----------------------------------------------------------------------------
(* The inductive invariant, and what follows from it.                      *)

Inv ==
    /\ Typed
    /\ OneTaskEach
    /\ NoStaleCancel
    /\ Accepted
    /\ Stopping
    /\ Settling

LEMMA InvInit == Init => Inv
  BY TypedInit, OneTaskInit, AcceptedInit, StoppingInit, SettlingInit
     DEF Init, NoStaleCancel, Inv

LEMMA InvStep == Inv /\ [Next]_vars => Inv'
  BY TypedStep, OneTaskStep, CancelStep, AcceptedStep, StoppingStep, SettlingStep DEF Inv

(* Inv holds in every state Machine can reach.                             *)
THEOREM Invariance == Spec => []Inv
  BY InvInit, InvStep, PTL DEF Spec

(* There is a brew task exactly while nivona_brew.c's s_active is true,    *)
(* and never two; and likewise for cycles: no interleaving of starts and   *)
(* of the last lines of a task breaks the claim under the lock.            *)
THEOREM BrewsAndCyclesAreSingle == Spec => []OneTaskEach
<1>1. Inv => OneTaskEach
  BY DEF Inv
<1> QED
  BY <1>1, Invariance, PTL

(* s_cancel of nivona_brew.c is never true without a brew: a cancel cannot *)
(* stop a later brew.                                                      *)
THEOREM CancelDiesWithItsBrew == Spec => []NoStaleCancel
<1>1. Inv => NoStaleCancel
  BY DEF Inv
<1> QED
  BY <1>1, Invariance, PTL

(* A task runs the recipe or the cycle its claim accepted: nobody writes   *)
(* s_arg or s_kind between the claim and the moment the task reads it,     *)
(* neither a caller that is refused nor one whose xTaskCreate fails.       *)
THEOREM AcceptedIsRun == Spec => []RunsWhatWasAccepted
<1>1. Inv => RunsWhatWasAccepted
  BY DEF Inv, Accepted
<1> QED
  BY <1>1, Invariance, PTL

(* With no task left the status block is at a READY code with sub code and *)
(* progress 0, overlapping brews and cycles and family switches included.  *)
THEOREM SettlesReady == Spec => []SettledReady
<1>1. Inv => SettledReady
  BY DEF Inv, Settling, BrewShows, CycleShows, RampAt, SettledReady, LiveBrews,
     LiveCycles, Live
<1> QED
  BY <1>1, Invariance, PTL

(* Whenever nivona_brew_cancel comes, the brew consumes for one more stage *)
(* at most: the one whose head it had passed.                              *)
THEOREM CancelIsObeyed == Spec => []OneStageAfterCancel
<1>1. Inv => OneStageAfterCancel
  BY DEF Inv, Stopping, OneStageAfterCancel
<1> QED
  BY <1>1, Invariance, PTL

-----------------------------------------------------------------------------
(* THE REFINEMENT.  The brew orchestrator with its lock, its task and its  *)
(* stages implements BrewJob.  The abstract state is a function of         *)
(* brewActive, brewCancel, cups and of two facts about where the tasks     *)
(* of brews stand.                                                         *)

(* What a step leaves alone if it is none of a brew's milestones.          *)
Kept == UNCHANGED <<brewActive, brewCancel, cups>>

Unmoved == \A t \in BrewTasks : pc'[t] = pc[t]

(* A step that changes neither the flags, the cups nor the facts is none   *)
(* of BrewJob's.                                                           *)
LEMMA Stutter ==
    ASSUME Kept, Settled' <=> Settled, Wearing' <=> Wearing
    PROVE  UNCHANGED job!jobVars
<1>1. Phase' = Phase
  BY DEF Kept, Phase
<1>2. CupsOwed' = CupsOwed
  BY DEF Kept, CupsOwed
<1> QED
  BY <1>1, <1>2 DEF Kept, job!jobVars

(* In particular, a step of somebody else.                                 *)
LEMMA UnmovedStutters ==
    ASSUME Kept, Unmoved
    PROVE  UNCHANGED job!jobVars
<1>1. Settled' <=> Settled
  BY DEF Unmoved, Settled
<1>2. Wearing' <=> Wearing
  BY DEF Unmoved, Wearing
<1> QED
  BY <1>1, <1>2, Stutter

(* Before the first brew the job is idle.                                  *)
LEMMA JobInit == Init => job!Init
<1> SUFFICES ASSUME Init PROVE job!Init
  OBVIOUS
<1>1. ~Wearing
  BY TasksAssumption DEF Init, Wearing, Procs
<1> QED
  BY <1>1 DEF Init, job!Init, Phase, CupsOwed

(* A call by a client moves no brew task, but for the claim.               *)
LEMMA ClientRefines ==
    ASSUME Inv, NEW c \in Clients, Call(c) \/ CallStep(c)
    PROVE  [job!Next]_job!jobVars
<1> USE TasksAssumption
    DEF Inv, Typed, TypeOK, PlacesTyped, Procs, Move, At, Goto, Unmoved, shared,
        brewOrder, settings, SetManipulation, OnlyStatus
<1>1. CASE BrewCancel(c)
  <2>1. /\ brewActive /\ brewCancel' = TRUE
        /\ UNCHANGED <<brewActive, cups, pc>>
    BY <1>1 DEF BrewCancel
  <2>2. Phase' = Phase /\ Phase # "idle"
    BY <2>1 DEF Phase, Settled
  <2>3. CupsOwed' = CupsOwed
    BY <2>1 DEF CupsOwed, Wearing
  <2> QED
    BY <2>1, <2>2, <2>3 DEF job!Next, job!RequestCancel
<1>2. CASE \E t \in BrewTasks : BrewClaim(c, t)
  <2> PICK t \in BrewTasks : BrewClaim(c, t)
    BY <1>2
  <2>1. ~brewActive /\ brewActive' = TRUE /\ brewCancel' = FALSE /\ cups' = cups
    BY DEF BrewClaim
  <2>2. ~brewCancel
    BY <2>1 DEF NoStaleCancel
  <2>3. \A u \in BrewTasks : pc[u] = "dead" /\ pc'[u] \in {"dead", "snap"}
    BY <2>1 DEF OneTaskEach, Live, BrewClaim
  <2>4. ~Settled' /\ ~Wearing /\ ~Wearing'
    BY <2>3 DEF Settled, Wearing, SettledAt, EvaluateAt
  <2>5. Phase = "idle" /\ Phase' = "running" /\ CupsOwed' = CupsOwed
    BY <2>1, <2>4 DEF Phase, CupsOwed
  <2>6. brewCancel' = brewCancel
    BY <2>1, <2>2 DEF SharedTyped
  <2> QED
    BY <2>5, <2>6 DEF job!Next, job!Accept
<1>3. CASE BrewNoTask(c)
  <2>1. ~brewActive /\ brewActive' = brewActive /\ brewCancel' = FALSE /\ cups' = cups
    BY <1>3 DEF BrewNoTask
  <2>2. brewCancel' = brewCancel
    BY <2>1 DEF NoStaleCancel, SharedTyped
  <2>3. Unmoved
    BY <1>3 DEF BrewNoTask, Return
  <2> QED
    BY <2>1, <2>2, <2>3, UnmovedStutters DEF Kept
<1>4. CASE Evaluate(c)
  <2>1. Kept /\ Unmoved
    BY <1>4 DEF Kept, Evaluate, Reevaluate, Scan, ScanNothing, Raise
  <2> QED
    BY <2>1, UnmovedStutters
<1>5. CASE Call(c) /\ ~BrewCancel(c)
  <2>1. Kept /\ Unmoved
    BY <1>5 DEF Kept, Call, BrewStart, CycleStart, Confirm, SetTank, ResetTanks,
       Trigger, FamilyCli, FamilyUi
  <2> QED
    BY <2>1, UnmovedStutters
<1>6. CASE \/ BrewCheckCycle(c) \/ BrewCheckPrompt(c) \/ BrewCheckSoft(c)
           \/ BrewBusy(c) \/ CycleCheckBrew(c) \/ CycleBusy(c) \/ CycleNoTask(c)
           \/ ConfirmSoft(c) \/ ConfirmClear(c) \/ ResetRead(c) \/ ResetWrite(c)
  <2>1. Kept
    BY <1>6 DEF Kept, BrewCheckCycle, BrewCheckPrompt, BrewCheckSoft, BrewBusy,
       CycleCheckBrew, CycleBusy, CycleNoTask, ConfirmSoft, ConfirmClear,
       ResetRead, ResetWrite
  <2>2. Unmoved
    BY <1>6 DEF BrewCheckCycle, BrewCheckPrompt, BrewCheckSoft, BrewBusy,
       CycleCheckBrew, CycleBusy, CycleNoTask, ConfirmSoft, ConfirmClear,
       ResetRead, ResetWrite, Return
  <2> QED
    BY <2>1, <2>2, UnmovedStutters
<1>7. CASE \E t \in CycleTasks : CycleClaim(c, t)
  <2>1. Kept /\ Unmoved
    BY <1>7 DEF Kept, CycleClaim
  <2> QED
    BY <2>1, UnmovedStutters
<1> QED
  BY <1>1, <1>2, <1>3, <1>4, <1>5, <1>6, <1>7 DEF CallStep

(* A cycle task takes no part in a brew job.                               *)
LEMMA CycleRefines ==
    ASSUME Inv, NEW t \in CycleTasks, CycleStep(t)
    PROVE  [job!Next]_job!jobVars
<1> USE TasksAssumption
    DEF Inv, Typed, TypeOK, PlacesTyped, Procs, Move, At, Goto, shared,
        brewOrder, settings, SetProcess, SetProgress, SetManipulation, OnlyStatus
<1>1. Kept
  BY DEF Kept, CycleStep, CycleSnap, Prep, Unprep, CycleFamily, Emit, CycleTick,
     CycleProgress, CycleOver, CycleReady, CycleReset, CycleExit, Evaluate,
     Reevaluate, Scan, ScanNothing, Raise
<1>2. Unmoved
  BY DEF Unmoved, CycleStep, CycleSnap, Prep, Unprep, CycleFamily, Emit,
     CycleTick, CycleProgress, CycleOver, CycleReady, CycleReset, CycleExit,
     Evaluate, Reevaluate, Scan, ScanNothing, Raise
<1> QED
  BY <1>1, <1>2, UnmovedStutters

(* The last read of s_cancel settles the job, charged or abandoned; the    *)
(* cup is counted in the step after; the exit makes place for the next.    *)
LEMMA BrewRefines ==
    ASSUME Inv, NEW t \in BrewTasks, BrewStep(t)
    PROVE  [job!Next]_job!jobVars
<1> DEFINE from == pc[t]
           to   == pc'[t]
<1> USE TasksAssumption
    DEF Inv, Typed, TypeOK, PlacesTyped, Procs, Move, At, Goto, shared,
        brewOrder, settings, SetProcess, SetProgress, SetManipulation, OnlyStatus
<1>1. /\ brewActive
      /\ \A u \in BrewTasks : u # t => pc[u] = "dead" /\ pc'[u] = "dead"
  <2>1. pc[t] # "dead"
    BY DEF BrewStep, BrewSnap, BrewFamily, Announce, BrewZero, BrewClear,
       Stage, Consume, ShowStage, Tick, Wait, NextStage, BrewProgress,
       BrewReady, BrewReset, Charge, Wear, BrewExit, Evaluate, Reevaluate,
       Scan, ScanNothing, Raise
  <2>2. \A u \in BrewTasks : u # t => pc'[u] = pc[u]
    BY DEF BrewStep, BrewSnap, BrewFamily, Announce, BrewZero, BrewClear,
       Stage, Consume, ShowStage, Tick, Wait, NextStage, BrewProgress,
       BrewReady, BrewReset, Charge, Wear, BrewExit, Evaluate, Reevaluate,
       Scan, ScanNothing, Raise
  <2> QED
    BY <2>1, <2>2 DEF OneTaskEach, Live
<1>2. /\ Settled <=> from \in SettledAt
      /\ Settled' <=> to \in SettledAt
      /\ Wearing <=> from = "wear"
      /\ Wearing' <=> to = "wear"
  BY <1>1 DEF Settled, Wearing, SettledAt, EvaluateAt
<1>3. CASE Charge(t)
  <2>1. /\ from = "charge" /\ to = IF brewCancel THEN "reevaluate" ELSE "wear"
        /\ Kept
    BY <1>3 DEF Charge, Kept
  <2>2. ~Settled /\ Settled' /\ ~Wearing
    BY <1>2, <2>1 DEF SettledAt, EvaluateAt
  <2>3. Phase = "running" /\ Phase' = "settled" /\ CupsOwed = cups
    BY <1>1, <2>1, <2>2 DEF Phase, CupsOwed, Kept
  <2>4. CASE brewCancel
    <3>1. ~Wearing'
      BY <1>2, <2>1, <2>4
    <3> QED
      BY <2>1, <2>3, <2>4, <3>1 DEF job!Next, job!Abandon, CupsOwed, Kept
  <2>5. CASE ~brewCancel
    <3>1. Wearing'
      BY <1>2, <2>1, <2>5
    <3> QED
      BY <2>1, <2>3, <2>5, <3>1 DEF job!Next, job!Charge, CupsOwed, Kept
  <2> QED
    BY <2>4, <2>5
<1>4. CASE Wear(t)
  <2>1. /\ from = "wear" /\ to = "reevaluate"
        /\ cups' = (cups + 1) % CounterMod
        /\ UNCHANGED <<brewActive, brewCancel>>
    BY <1>4 DEF Wear, AddCup
  <2>2. Phase' = Phase /\ CupsOwed' = CupsOwed
    BY <1>2, <2>1 DEF Phase, CupsOwed, SettledAt, EvaluateAt
  <2> QED
    BY <2>1, <2>2 DEF job!jobVars
<1>5. CASE BrewExit(t)
  <2>1. /\ from = "exit" /\ to = "dead"
        /\ brewActive' = FALSE /\ brewCancel' = FALSE /\ cups' = cups
    BY <1>5 DEF BrewExit
  <2>2. Phase = "settled" /\ Phase' = "idle" /\ CupsOwed' = CupsOwed
    BY <1>1, <1>2, <2>1 DEF Phase, CupsOwed, SettledAt
  <2> QED
    BY <2>1, <2>2 DEF job!Next, job!Finish
<1>6. CASE Evaluate(t)
  <2>1. /\ from \in EvaluateAt /\ to \in EvaluateAt \cup {"exit"}
        /\ Kept
    BY <1>6 DEF Evaluate, Reevaluate, Scan, ScanNothing, Raise, AfterRaise,
       EvaluateAt, Kept
  <2> QED
    BY <1>2, <2>1, Stutter DEF SettledAt, EvaluateAt
<1>7. CASE /\ BrewStep(t)
           /\ ~(Charge(t) \/ Wear(t) \/ BrewExit(t) \/ Evaluate(t))
  <2>1. Kept
    BY <1>7 DEF Kept, BrewStep, BrewSnap, BrewFamily, Announce, BrewZero,
       BrewClear, Stage, Consume, ShowStage, Tick, Wait, NextStage,
       BrewProgress, BrewReady, BrewReset
  <2>2. from \notin SettledAt /\ to \notin SettledAt
    BY <1>7 DEF BrewStep, BrewSnap, BrewFamily, Announce, BrewZero, BrewClear,
       Stage, Consume, ShowStage, Tick, Wait, NextStage, BrewProgress,
       BrewReady, BrewReset, SettledAt, EvaluateAt
  <2> QED
    BY <1>2, <2>1, <2>2, Stutter DEF SettledAt
<1> QED
  BY <1>3, <1>4, <1>5, <1>6, <1>7

(* The brew orchestrator is a BrewJob: one job at a time, each settled     *)
(* once, charged unless cancelled before, and no cancel left for the next. *)
THEOREM ImplementsBrewJob == Spec => BrewIsAJob
<1>1. Init => job!Init
  BY JobInit
<1>2. Inv /\ [Next]_vars => [job!Next]_job!jobVars
  <2> SUFFICES ASSUME Inv, [Next]_vars PROVE [job!Next]_job!jobVars
    OBVIOUS
  <2>1. CASE UNCHANGED vars
    <3>1. Kept /\ Unmoved
      BY <2>1 DEF vars, shared, brewOrder, settings, Kept, Unmoved
    <3> QED
      BY <3>1, UnmovedStutters
  <2> QED
    BY <2>1, ClientRefines, BrewRefines, CycleRefines DEF Next
<1> QED
  BY <1>1, <1>2, Invariance, PTL DEF Spec, BrewIsAJob, job!Spec
=============================================================================
