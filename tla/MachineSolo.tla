----------------------------- MODULE MachineSolo -----------------------------
(***************************************************************************)
(* What Machine promises to one caller at a time, as the program is used   *)
(* from a phone or from a console but not from both: proved for any other  *)
(* constants.  With two callers, or with a family switch where it is       *)
(* excluded, each of these properties fails.                               *)
(***************************************************************************)
EXTENDS MachineSafety

(* One caller at a time.                                                   *)
OneCaller == \A c, d \in Clients : c = d

(* Nobody resets the status block by the `family` command, or switches the *)
(* family at all.                                                          *)
NoReset       == "family_cli" \notin Ops
FamilyIsFixed == {"family_cli", "family_ui"} \cap Ops = {}

-----------------------------------------------------------------------------
(* Brews and cycles apart.                                                 *)

(* What the checks before a claim have seen is still so at the claim: the  *)
(* caller that made them is the only one who could change it.              *)
Apart ==
    /\ NoOverlap
    /\ \A c \in Clients :
         /\ pc[c] \in {"brew_prompt", "brew_soft", "brew_claim"} => ~cycleActive
         /\ pc[c] = "cycle_claim" => ~brewActive


LEMMA ApartStep ==
    ASSUME OneCaller, Typed, Apart, [Next]_vars
    PROVE  Apart'
<1> USE TasksAssumption
    DEF OneCaller, Typed, TypeOK, PlacesTyped, Procs, Apart, NoOverlap, Move, At,
        Goto, shared, brewOrder, cycleOrder, SetProcess, SetProgress,
        SetManipulation, OnlyStatus
<1>1. ASSUME NEW p \in Procs, Evaluate(p) PROVE Apart'
  BY <1>1 DEF Evaluate, Reevaluate, Scan, ScanNothing, Raise, AfterRaise
<1>2. ASSUME NEW c \in Clients, Call(c) PROVE Apart'
  BY <1>2 DEF Call, BrewStart, CycleStart, BrewCancel, Confirm, SetTank,
     ResetTanks, Trigger, FamilyCli, FamilyUi
<1>3. ASSUME NEW c \in Clients, CallStep(c) PROVE Apart'
  BY <1>1, <1>3 DEF CallStep, BrewCheckCycle, BrewCheckPrompt,
     BrewCheckSoft, BrewBusy, BrewNoTask, BrewClaim, CycleCheckBrew, CycleBusy,
     CycleNoTask, CycleClaim, ConfirmSoft, ConfirmClear, ResetRead, ResetWrite,
     Return
<1>4. ASSUME NEW t \in BrewTasks, BrewStep(t) PROVE Apart'
  BY <1>1, <1>4 DEF BrewStep, BrewSnap, BrewFamily, Announce, BrewZero,
     BrewClear, Stage, Consume, ShowStage, Tick, Wait, NextStage, BrewProgress,
     BrewReady, BrewReset, Charge, Wear, AddCup, BrewExit
<1>5. ASSUME NEW t \in CycleTasks, CycleStep(t) PROVE Apart'
  BY <1>1, <1>5 DEF CycleStep, CycleSnap, Prep, Unprep, CycleFamily, Emit,
     CycleTick, CycleProgress, CycleOver, CycleReady, CycleReset, CycleExit
<1>6. ASSUME UNCHANGED vars PROVE Apart'
  BY <1>6 DEF vars
<1> QED
  BY <1>2, <1>3, <1>4, <1>5, <1>6 DEF Next

(* One caller at a time never gets a brew and a cycle to run together,     *)
(* although nivona_brew_start and nivona_maint_cycle_start look at the     *)
(* other's s_active before they take their own lock.                       *)
THEOREM OneCallerNoOverlap ==
    ASSUME OneCaller
    PROVE  Spec => []NoOverlap
<1>1. Init => Apart
  BY TasksAssumption DEF Init, Apart, NoOverlap, Procs
<1>2. Inv /\ Apart /\ [Next]_vars => Apart'
  BY ApartStep, OneCaller DEF Inv
<1>3. Apart => NoOverlap
  BY DEF Apart
<1> QED
  BY <1>1, <1>2, <1>3, Invariance, PTL DEF Spec

-----------------------------------------------------------------------------
(* One task at a time.                                                     *)

Tasks == BrewTasks \cup CycleTasks

(* While a brew or a cycle runs no other task does.                        *)
LEMMA Alone ==
    ASSUME OneTaskEach, NoOverlap, NEW t \in Tasks, NEW u \in Tasks, Live(t), u # t
    PROVE  pc[u] = "dead"
  BY DEF OneTaskEach, NoOverlap, Live, Tasks

(* Nobody is in the middle of nivona_fsm_reset_to_ready.                   *)
NotResetting == \A c \in Clients : pc[c] \notin {"reset_read", "reset_write"}

LEMMA NotResettingStep ==
    ASSUME NoReset, Typed, NotResetting, [Next]_vars
    PROVE  NotResetting'
<1> USE TasksAssumption
    DEF NoReset, Typed, TypeOK, PlacesTyped, Procs, NotResetting, Move, At, Goto
<1>1. ASSUME NEW p \in Procs, Evaluate(p) PROVE NotResetting'
  BY <1>1 DEF Evaluate, Reevaluate, Scan, ScanNothing, Raise, AfterRaise
<1>2. ASSUME NEW c \in Clients, Call(c) PROVE NotResetting'
  BY <1>2 DEF Call, BrewStart, CycleStart, BrewCancel, Confirm, SetTank,
     ResetTanks, Trigger, FamilyCli, FamilyUi
<1>3. ASSUME NEW c \in Clients, CallStep(c) PROVE NotResetting'
  BY <1>1, <1>3 DEF CallStep, BrewCheckCycle, BrewCheckPrompt,
     BrewCheckSoft, BrewBusy, BrewNoTask, BrewClaim, CycleCheckBrew, CycleBusy,
     CycleNoTask, CycleClaim, ConfirmSoft, ConfirmClear, ResetRead, ResetWrite,
     Return
<1>4. ASSUME NEW t \in BrewTasks, BrewStep(t) PROVE NotResetting'
  BY <1>1, <1>4 DEF BrewStep, BrewSnap, BrewFamily, Announce, BrewZero,
     BrewClear, Stage, Consume, ShowStage, Tick, Wait, NextStage, BrewProgress,
     BrewReady, BrewReset, Charge, Wear, BrewExit
<1>5. ASSUME NEW t \in CycleTasks, CycleStep(t) PROVE NotResetting'
  BY <1>1, <1>5 DEF CycleStep, CycleSnap, Prep, Unprep, CycleFamily, Emit,
     CycleTick, CycleProgress, CycleOver, CycleReady, CycleReset, CycleExit
<1>6. ASSUME UNCHANGED vars PROVE NotResetting'
  BY <1>6 DEF vars
<1> QED
  BY <1>2, <1>3, <1>4, <1>5, <1>6 DEF Next

(* What a step leaves of the status block, and of the tasks that do not    *)
(* take it: of those only a claim does something, it starts one.           *)
CodeKept == UNCHANGED <<process, sub_process, progress>>

Same(t) ==
    /\ drink'[t] = drink[t] /\ kind'[t] = kind[t] /\ fam'[t] = fam[t]
    /\ stage'[t] = stage[t] /\ tick'[t] = tick[t]

Untouched(t) ==
    /\ Same(t)
    /\ pc'[t] = pc[t] \/ (pc[t] = "dead" /\ pc'[t] = "snap")

(* A client writes no code and no progress unless it resets the block.     *)
LEMMA ClientsLeave ==
    ASSUME Typed, NotResetting, NEW c \in Clients, Call(c) \/ CallStep(c)
    PROVE  CodeKept /\ \A t \in Tasks : Untouched(t)
<1> USE TasksAssumption
    DEF Typed, TypeOK, PlacesTyped, LocalsTyped, Procs, Tasks, NotResetting,
        CodeKept, Untouched, Same, Move, At, Goto, shared, status, local, request,
        evaluation, ramp, SetManipulation
<1>1. CASE Evaluate(c)
  BY <1>1 DEF Evaluate, Reevaluate, ReadFamily, Scan, ScanNothing, Raise, AfterRaise
<1>2. CASE Call(c)
  BY <1>2 DEF Call, BrewStart, CycleStart, BrewCancel, Confirm, SetTank,
     ResetTanks, Trigger, FamilyCli, FamilyUi
<1>3. CASE \/ BrewCheckCycle(c) \/ BrewCheckPrompt(c) \/ BrewCheckSoft(c)
           \/ BrewBusy(c) \/ BrewNoTask(c) \/ CycleCheckBrew(c) \/ CycleBusy(c)
           \/ CycleNoTask(c) \/ ConfirmSoft(c) \/ ConfirmClear(c)
           \/ ResetRead(c) \/ ResetWrite(c)
  BY <1>3 DEF BrewCheckCycle, BrewCheckPrompt, BrewCheckSoft, BrewBusy, BrewNoTask,
     CycleCheckBrew, CycleBusy, CycleNoTask, ConfirmSoft, ConfirmClear, ResetRead,
     ResetWrite, Return
<1>4. CASE \E t \in BrewTasks : BrewClaim(c, t)
  BY <1>4 DEF BrewClaim
<1>5. CASE \E t \in CycleTasks : CycleClaim(c, t)
  BY <1>5 DEF CycleClaim
<1> QED
  BY <1>1, <1>2, <1>3, <1>4, <1>5 DEF CallStep

(* Nor does an evaluation, whoever runs it.                                *)
LEMMA EvaluationLeaves ==
    ASSUME Typed, NEW p \in Procs, Evaluate(p)
    PROVE  /\ CodeKept
           /\ \A t \in Tasks : t # p => Untouched(t)
           /\ p \in Tasks =>
                /\ pc[p] \in EvaluateAt /\ pc'[p] \in EvaluateAt \cup {"exit"}
                /\ drink'[p] = drink[p] /\ kind'[p] = kind[p]
                /\ stage'[p] = stage[p] /\ tick'[p] = tick[p]
<1> USE TasksAssumption
    DEF Typed, TypeOK, PlacesTyped, LocalsTyped, Procs, Tasks, CodeKept, Untouched,
        Same, Move, At, Goto, shared, status, local, request, evaluation, ramp,
        SetManipulation, EvaluateAt
<1> QED
  BY DEF Evaluate, Reevaluate, ReadFamily, Scan, ScanNothing, Raise, AfterRaise

(* A task leaves the others alone.                                         *)
LEMMA TasksLeave ==
    ASSUME Typed, NEW t \in Tasks,
           (t \in BrewTasks /\ BrewStep(t)) \/ (t \in CycleTasks /\ CycleStep(t))
    PROVE  \A u \in Tasks : u # t => Untouched(u)
<1> USE TasksAssumption
    DEF Typed, TypeOK, PlacesTyped, LocalsTyped, Procs, Tasks, Untouched, Same,
        Move, At, Goto, local, request, evaluation, ramp
<1>1. CASE Evaluate(t)
  BY <1>1, EvaluationLeaves
<1>2. CASE BrewStep(t) /\ ~Evaluate(t)
  BY <1>2 DEF BrewStep, BrewSnap, BrewFamily, ReadFamily, Announce, BrewZero,
     BrewClear, Stage, Consume, ShowStage, Tick, Wait, NextStage, BrewProgress,
     BrewReady, BrewReset, Charge, Wear, AddCup, BrewExit
<1>3. CASE CycleStep(t) /\ ~Evaluate(t)
  BY <1>3 DEF CycleStep, CycleSnap, Prep, Unprep, CycleFamily, ReadFamily, Emit,
     CycleTick, CycleProgress, CycleOver, CycleReady, CycleReset, CycleExit
<1> QED
  BY <1>1, <1>2, <1>3

-----------------------------------------------------------------------------
(* The status block shows what runs.                                       *)

(* A brew announces itself before its first stage and each stage when it   *)
(* begins; nobody overwrites it until it is over.                          *)
BrewShown ==
    \A t \in BrewTasks :
        /\ pc[t] \in {"brew_zero", "brew_clear"} \cup RampAt =>
              process = process_brewing(fam[t])
        /\ pc[t] \in {"tick", "progress"} => sub_process = Stages(t)[stage[t]]

LEMMA BrewShownStep ==
    ASSUME Typed, OneTaskEach, NoOverlap, NotResetting, BrewShown, [Next]_vars
    PROVE  BrewShown'
<1> USE DEF BrewShown
<1>0. ASSUME CodeKept, NEW t \in BrewTasks, Untouched(t)
      PROVE  /\ pc'[t] \in {"brew_zero", "brew_clear"} \cup RampAt =>
                   process' = process_brewing(fam'[t])
             /\ pc'[t] \in {"tick", "progress"} =>
                   sub_process' = Stages(t)'[stage'[t]]
  BY <1>0 DEF CodeKept, Untouched, Same, Stages, RampAt
<1>1. ASSUME NEW c \in Clients, Call(c) \/ CallStep(c) PROVE BrewShown'
  BY <1>0, <1>1, ClientsLeave DEF Tasks
<1>2. ASSUME NEW t \in BrewTasks, BrewStep(t) PROVE BrewShown'
  <2>1. \A u \in BrewTasks : u # t => pc'[u] \in {"dead", "snap"}
    <3>1. Live(t)
      BY <1>2 DEF Live, BrewStep, BrewSnap, BrewFamily, Announce, BrewZero,
         BrewClear, Stage, Consume, ShowStage, Tick, Wait, NextStage, BrewProgress,
         BrewReady, BrewReset, Charge, Wear, BrewExit, Evaluate, Reevaluate, Scan,
         ScanNothing, Raise, Move, At
    <3> QED
      BY <1>2, <3>1, Alone, TasksLeave DEF Tasks, Untouched
  <2> SUFFICES /\ pc'[t] \in {"brew_zero", "brew_clear"} \cup RampAt =>
                    process' = process_brewing(fam'[t])
               /\ pc'[t] \in {"tick", "progress"} =>
                    sub_process' = Stages(t)'[stage'[t]]
    BY <2>1 DEF RampAt
  <2>2. CASE Evaluate(t)
    BY <2>2, EvaluationLeaves DEF Tasks, Procs, EvaluateAt, RampAt
  <2>3. CASE BrewStep(t) /\ ~Evaluate(t)
    BY <2>3
    DEF Typed, TypeOK, PlacesTyped, LocalsTyped, Procs, Move, At, Goto, RampAt,
        BrewStep, BrewSnap, BrewFamily, Announce, BrewZero, BrewClear, Stage,
        Consume, ShowStage, Tick, Wait, NextStage, BrewProgress, BrewReady,
        BrewReset, Charge, Wear, AddCup, BrewExit, Stages, shared, status, local,
        request, evaluation, ramp, SetProcess, SetProgress, SetManipulation
  <2> QED
    BY <1>2, <2>2, <2>3
<1>3. ASSUME NEW t \in CycleTasks, CycleStep(t) PROVE BrewShown'
  <2>1. \A u \in BrewTasks : pc'[u] \in {"dead", "snap"}
    <3>1. Live(t)
      BY <1>3 DEF Live, CycleStep, CycleSnap, Prep, Unprep, CycleFamily, Emit,
         CycleTick, CycleProgress, CycleOver, CycleReady, CycleReset, CycleExit,
         Evaluate, Reevaluate, Scan, ScanNothing, Raise, Move, At
    <3> QED
      BY <1>3, <3>1, Alone, TasksLeave, TasksAssumption DEF Tasks, Untouched
  <2> QED
    BY <2>1 DEF RampAt
<1>4. ASSUME UNCHANGED vars PROVE BrewShown'
  BY <1>4 DEF vars, shared, status, local, request, ramp, Stages
<1> QED
  BY <1>1, <1>2, <1>3, <1>4 DEF Next

(* With one caller at a time, who does not use the `family` command, the   *)
(* status block shows the very stage the brew is in: ShowsTheStage of the  *)
(* stage loop of brew_task.                                                *)
THEOREM OneCallerShowsTheStage ==
    ASSUME OneCaller, NoReset
    PROVE  Spec => []ShowsTheStage
<1> DEFINE I == Apart /\ NotResetting /\ BrewShown
<1>1. Init => I
  BY TasksAssumption
  DEF Init, Apart, NoOverlap, NotResetting, BrewShown, RampAt, Procs
<1>2. Inv /\ I /\ [Next]_vars => I'
  BY ApartStep, NotResettingStep, BrewShownStep, OneCaller, NoReset DEF Inv, Apart
<1>3. I => ShowsTheStage
  BY DEF BrewShown, ShowsTheStage, RampAt
<1> QED
  BY <1>1, <1>2, <1>3, Invariance, PTL DEF Spec

(* A cycle that has read the family reports the code it has for it, and    *)
(* the family stays the one it read.                                       *)
CycleShown ==
    \A t \in CycleTasks :
        /\ pc[t] \in {"emit", "tick", "progress"} => fam[t] = family
        /\ pc[t] \in {"tick", "progress"} => process = EmitCode(kind[t], fam[t])

(* The code of a cycle is never the code of a brew or of a machine at rest. *)
LEMMA EmitCodeIsOwn ==
    ASSUME NEW k \in CycleKinds \cup {NoKind}, NEW f \in FamilyKeys
    PROVE  EmitCode(k, f) \in {k, BUSY} \ {process_brewing(f), process_ready(f)}
  BY DEF EmitCode, BUSY, process_brewing, process_ready

(* Nobody but the `family` command and the picker switches the family.     *)
LEMMA FamilyStays ==
    ASSUME FamilyIsFixed, [Next]_vars
    PROVE  family' = family
<1> USE DEF shared, settings, SetProcess, SetProgress, SetManipulation, OnlyStatus
<1>1. ASSUME NEW p \in Procs, Evaluate(p) PROVE family' = family
  BY <1>1 DEF Evaluate, Reevaluate, Scan, ScanNothing, Raise
<1>2. ASSUME NEW c \in Clients, Call(c) PROVE family' = family
  BY <1>2 DEF FamilyIsFixed, Call, BrewStart, CycleStart, BrewCancel, Confirm,
     SetTank, ResetTanks, Trigger, FamilyCli, FamilyUi
<1>3. ASSUME NEW c \in Clients, CallStep(c) PROVE family' = family
  BY <1>1, <1>3 DEF CallStep, BrewCheckCycle, BrewCheckPrompt, BrewCheckSoft,
     BrewBusy, BrewNoTask, BrewClaim, CycleCheckBrew, CycleBusy, CycleNoTask,
     CycleClaim, ConfirmSoft, ConfirmClear, ResetRead, ResetWrite, Procs
<1>4. ASSUME NEW t \in BrewTasks, BrewStep(t) PROVE family' = family
  BY <1>1, <1>4 DEF BrewStep, BrewSnap, BrewFamily, Announce, BrewZero,
     BrewClear, Stage, Consume, ShowStage, Tick, Wait, NextStage, BrewProgress,
     BrewReady, BrewReset, Charge, Wear, AddCup, BrewExit, Procs
<1>5. ASSUME NEW t \in CycleTasks, CycleStep(t) PROVE family' = family
  BY <1>1, <1>5 DEF CycleStep, CycleSnap, Prep, Unprep, CycleFamily, Emit,
     CycleTick, CycleProgress, CycleOver, CycleReady, CycleReset, CycleExit, Procs
<1>6. ASSUME UNCHANGED vars PROVE family' = family
  BY <1>6 DEF vars
<1> QED
  BY <1>2, <1>3, <1>4, <1>5, <1>6 DEF Next

LEMMA CycleShownStep ==
    ASSUME FamilyIsFixed, Typed, OneTaskEach, NoOverlap, NotResetting, CycleShown,
           [Next]_vars
    PROVE  CycleShown'
<1> USE DEF CycleShown
<1>a. family' = family
  BY FamilyStays
<1>0. ASSUME CodeKept, NEW t \in CycleTasks, Untouched(t)
      PROVE  /\ pc'[t] \in {"emit", "tick", "progress"} => fam'[t] = family'
             /\ pc'[t] \in {"tick", "progress"} =>
                   process' = EmitCode(kind'[t], fam'[t])
  BY <1>0, <1>a DEF CodeKept, Untouched, Same
<1>1. ASSUME NEW c \in Clients, Call(c) \/ CallStep(c) PROVE CycleShown'
  BY <1>0, <1>1, ClientsLeave DEF Tasks
<1>2. ASSUME NEW t \in CycleTasks, CycleStep(t) PROVE CycleShown'
  <2>1. \A u \in CycleTasks : u # t => pc'[u] \in {"dead", "snap"}
    <3>1. Live(t)
      BY <1>2 DEF Live, CycleStep, CycleSnap, Prep, Unprep, CycleFamily, Emit,
         CycleTick, CycleProgress, CycleOver, CycleReady, CycleReset, CycleExit,
         Evaluate, Reevaluate, Scan, ScanNothing, Raise, Move, At
    <3> QED
      BY <1>2, <3>1, Alone, TasksLeave DEF Tasks, Untouched
  <2> SUFFICES /\ pc'[t] \in {"emit", "tick", "progress"} => fam'[t] = family'
               /\ pc'[t] \in {"tick", "progress"} =>
                    process' = EmitCode(kind'[t], fam'[t])
    BY <2>1
  <2>2. CASE Evaluate(t)
    BY <2>2, EvaluationLeaves DEF Tasks, Procs, EvaluateAt
  <2>3. CASE CycleStep(t) /\ ~Evaluate(t)
    BY <1>a, <2>3
    DEF Typed, TypeOK, PlacesTyped, LocalsTyped, Procs, Move, At, Goto,
        CycleStep, CycleSnap, Prep, Unprep, CycleFamily, ReadFamily, Emit,
        CycleTick, CycleProgress, CycleOver, CycleReady, CycleReset, CycleExit,
        shared, status, local, request, evaluation, ramp, SetProcess, SetProgress,
        SetManipulation
  <2> QED
    BY <1>2, <2>2, <2>3
<1>3. ASSUME NEW t \in BrewTasks, BrewStep(t) PROVE CycleShown'
  <2>1. \A u \in CycleTasks : pc'[u] \in {"dead", "snap"}
    <3>1. Live(t)
      BY <1>3 DEF Live, BrewStep, BrewSnap, BrewFamily, Announce, BrewZero,
         BrewClear, Stage, Consume, ShowStage, Tick, Wait, NextStage, BrewProgress,
         BrewReady, BrewReset, Charge, Wear, BrewExit, Evaluate, Reevaluate, Scan,
         ScanNothing, Raise, Move, At
    <3> QED
      BY <1>3, <3>1, Alone, TasksLeave, TasksAssumption DEF Tasks, Untouched
  <2> QED
    BY <2>1
<1>4. ASSUME UNCHANGED vars PROVE CycleShown'
  BY <1>4 DEF vars, shared, status, settings, local, request
<1> QED
  BY <1>1, <1>2, <1>3, <1>4 DEF Next

(* With one caller at a time and a family that stays, a running cycle is   *)
(* reported under its own code or as busy, and the client reads neither    *)
(* "brewing" nor "ready" from it (emit_process of cycle_task).             *)
THEOREM OneCallerShowsTheCycle ==
    ASSUME OneCaller, FamilyIsFixed
    PROVE  Spec => []ShowsTheCycle
<1> DEFINE I == Apart /\ NotResetting /\ CycleShown
<1>0. NoReset
  BY FamilyIsFixed DEF FamilyIsFixed, NoReset
<1>1. Init => I
  BY TasksAssumption DEF Init, Apart, NoOverlap, NotResetting, CycleShown, Procs
<1>2. Inv /\ I /\ [Next]_vars => I'
  BY <1>0, ApartStep, NotResettingStep, CycleShownStep, OneCaller, FamilyIsFixed
  DEF Inv, Apart
<1>3. Inv /\ I => ShowsTheCycle
  <2> SUFFICES ASSUME Inv, I, NEW t \in CycleTasks, pc[t] \in {"tick", "progress"}
               PROVE  process \in {kind[t], BUSY} \ {process_brewing(family),
                                                     process_ready(family)}
    BY DEF ShowsTheCycle
  <2>1. process = EmitCode(kind[t], family)
    BY DEF CycleShown
  <2>2. kind[t] \in CycleKinds \cup {NoKind} /\ family \in FamilyKeys
    BY DEF Inv, Typed, TypeOK, SharedTyped, LocalsTyped, Procs
  <2> QED
    BY <2>1, <2>2, EmitCodeIsOwn
<1> QED
  BY <1>1, <1>2, <1>3, Invariance, PTL DEF Spec

-----------------------------------------------------------------------------
(* Progress.                                                               *)

LEMMA DivisionMonotone ==
    ASSUME NEW a \in Nat, NEW b \in Nat, NEW n \in Nat \ {0}, a <= b
    PROVE  a \div n <= b \div n
<1> DEFINE p == a \div n
           q == b \div n
<1>1. /\ p \in Nat /\ n * p <= a
      /\ q \in Nat /\ b < n * q + n
  OBVIOUS
<1> HIDE DEF p, q
<1>2. n * p < n * q + n
  <2>1. n * p \in Nat /\ n * q \in Nat
    BY <1>1, NaturalProduct
  <2> QED
    BY <1>1, <2>1
<1>3. ~(p >= q + 1)
  <2> SUFFICES ASSUME p >= q + 1 PROVE FALSE
    OBVIOUS
  <2>1. n * p >= n * (q + 1)
    BY <1>1
  <2>2. n * (q + 1) = n * q + n
    BY <1>1
  <2> QED
    BY <1>1, <1>2, <2>1, <2>2, NaturalProduct
<1> QED
  BY <1>1, <1>3 DEF p, q

(* More done is no smaller a percentage.                                   *)
LEMMA PercentMonotone ==
    ASSUME NEW a \in Nat, NEW b \in Nat, NEW n \in Nat \ {0}, a <= b
    PROVE  Percent(a, n) <= Percent(b, n)
<1>1. a * 100 \in Nat /\ b * 100 \in Nat /\ a * 100 <= b * 100
  OBVIOUS
<1>2. (a * 100) \div n <= (b * 100) \div n
  BY <1>1, DivisionMonotone
<1>3. (a * 100) \div n \in Nat /\ (b * 100) \div n \in Nat
  BY <1>1
<1> QED
  BY <1>2, <1>3 DEF Percent

(* What the brew and the cycle of a task have done so far, in percent.     *)
BrewDone(t) ==
    Percent((stage[t] - 1) * StageTicks + tick[t], Len(Stages(t)) * StageTicks)

CycleDone(t) == Percent(tick[t], CycleTicks)

(* The progress shown is never ahead of the task that runs.                *)
Behind ==
    /\ \A t \in BrewTasks :
         /\ tick[t] <= StageTicks
         /\ pc[t] = "brew_clear" => progress = 0
         /\ pc[t] \in RampAt => progress <= BrewDone(t)
    /\ \A t \in CycleTasks :
         pc[t] \in {"tick", "progress"} => progress <= CycleDone(t)

DoneTyped ==
    /\ progress \in 0..100
    /\ \A t \in BrewTasks : pc[t] \in RampAt => BrewDone(t) \in 0..100
    /\ \A t \in CycleTasks : CycleDone(t) \in 0..100

(* Both percentages are ones.                                              *)
LEMMA DoneRange == Typed => DoneTyped
<1> SUFFICES ASSUME Typed PROVE DoneTyped
  OBVIOUS
<1>1. ASSUME NEW t \in BrewTasks, pc[t] \in RampAt PROVE BrewDone(t) \in 0..100
  <2>1. /\ stage[t] \in Nat \ {0} /\ tick[t] \in Nat
        /\ StageTicks \in Nat \ {0} /\ Len(Stages(t)) \in Nat \ {0}
    <3>1. drink[t].category \in Categories
      BY DEF Typed, TypeOK, LocalsTyped, Procs, Drinks
    <3>2. Len(Stages(t)) \in 1..3
      BY <3>1, RampStages DEF Stages
    <3>3. stage[t] \in Nat /\ (pc[t] = "stage" => stage[t] # 0)
          /\ (pc[t] # "stage" => stage[t] \in 1..Len(Stages(t)))
      BY <1>1 DEF Typed, TypeOK, LocalsTyped, Procs, InRamp
    <3> QED
      BY <3>2, <3>3, BoundsAssumption DEF Typed, TypeOK, LocalsTyped, Procs
  <2>2. stage[t] - 1 \in Nat
    BY <2>1
  <2>3. /\ (stage[t] - 1) * StageTicks + tick[t] \in Nat
        /\ Len(Stages(t)) * StageTicks \in Nat \ {0}
    BY <2>1, <2>2, NaturalProduct
  <2> QED
    BY <2>3, PercentRange DEF BrewDone
<1>2. ASSUME NEW t \in CycleTasks PROVE CycleDone(t) \in 0..100
  BY PercentRange, BoundsAssumption DEF CycleDone, Typed, TypeOK, LocalsTyped, Procs
<1> QED
  BY <1>1, <1>2 DEF DoneTyped, Typed, TypeOK, SharedTyped

(* ... after a step as before it.                                          *)
LEMMA DoneRangeNext == ASSUME Typed, [Next]_vars PROVE DoneTyped'
<1>1. Typed'
  BY TypedStep
<1>2. Typed' => DoneTyped'
  BY DoneRange, PTL
<1> QED
  BY <1>1, <1>2

(* A tick more, or the next stage instead of the rest of this one.         *)
LEMMA BrewDoneGrows ==
    ASSUME Typed, NEW t \in BrewTasks, pc[t] = "tick", tick[t] <= StageTicks,
           Tick(t)
    PROVE  /\ BrewDone(t) <= BrewDone(t)'
           /\ tick'[t] <= StageTicks
<1> DEFINE n == Len(Stages(t))
           a == (stage[t] - 1) * StageTicks + tick[t]
           b == (stage'[t] - 1) * StageTicks + tick'[t]
<1>1. drink' = drink
  BY DEF Tick, Wait, NextStage, request
<1>2. /\ stage[t] \in Nat \ {0} /\ tick[t] \in Nat
      /\ StageTicks \in Nat \ {0} /\ n \in Nat \ {0}
  <2>1. drink[t].category \in Categories
    BY DEF Typed, TypeOK, LocalsTyped, Procs, Drinks
  <2>2. n \in 1..3
    BY <2>1, RampStages DEF Stages
  <2>3. stage[t] \in 1..n
    BY DEF Typed, InRamp, RampAt
  <2> QED
    BY <2>2, <2>3, BoundsAssumption DEF Typed, TypeOK, LocalsTyped, Procs
<1>3. \/ stage'[t] = stage[t] /\ tick'[t] = tick[t] + 1 /\ tick[t] < StageTicks
      \/ stage'[t] = stage[t] + 1 /\ tick'[t] = 0
  BY DEF Tick, Wait, NextStage, Typed, TypeOK, LocalsTyped, Procs
<1>4. a \in Nat /\ b \in Nat /\ n * StageTicks \in Nat \ {0}
  <2>1. stage[t] - 1 \in Nat /\ stage'[t] - 1 \in Nat /\ tick'[t] \in Nat
    BY <1>2, <1>3
  <2>2. /\ (stage[t] - 1) * StageTicks \in Nat
        /\ (stage'[t] - 1) * StageTicks \in Nat
    BY <1>2, <2>1, NaturalProduct
  <2>3. n * StageTicks \in Nat \ {0}
    BY <1>2, NaturalProduct
  <2>4. \A x, y \in Nat : x + y \in Nat
    OBVIOUS
  <2>5. a \in Nat
    BY <1>2, <2>2, <2>4
  <2>6. b \in Nat
    BY <2>1, <2>2, <2>4
  <2> QED
    BY <2>3, <2>5, <2>6
<1>5. a <= b
  <2>1. CASE stage'[t] = stage[t] /\ tick'[t] = tick[t] + 1
    <3>1. (stage[t] - 1) * StageTicks \in Nat
      BY <1>2, NaturalProduct
    <3> QED
      BY <1>2, <2>1, <3>1
  <2>2. CASE stage'[t] = stage[t] + 1 /\ tick'[t] = 0
    <3>1. (stage[t] + 1 - 1) * StageTicks = (stage[t] - 1) * StageTicks + StageTicks
      BY <1>2
    <3>2. (stage[t] - 1) * StageTicks \in Nat
      BY <1>2, NaturalProduct
    <3>3. b = (stage[t] - 1) * StageTicks + StageTicks
      BY <1>2, <2>2, <3>1, <3>2
    <3> QED
      BY <1>2, <3>2, <3>3
  <2> QED
    BY <1>3, <2>1, <2>2
<1>6. Percent(a, n * StageTicks) <= Percent(b, n * StageTicks)
  BY <1>4, <1>5, PercentMonotone
<1>7. Stages(t)' = Stages(t)
  BY <1>1 DEF Stages
<1>8. tick'[t] <= StageTicks
  BY <1>2, <1>3
<1> QED
  BY <1>6, <1>7, <1>8 DEF BrewDone

(* What a step of brew task t does to the progress and to its share.       *)
LEMMA BrewBehind ==
    ASSUME Typed, Behind, NEW t \in BrewTasks, BrewStep(t)
    PROVE  /\ tick'[t] <= StageTicks
           /\ pc'[t] = "brew_clear" => progress' = 0
           /\ pc'[t] \in RampAt => progress' <= BrewDone(t)'
           /\ pc[t] = "progress" => progress' >= progress
<1> USE DEF Behind
<1>a. /\ progress \in 0..100
      /\ pc[t] \in RampAt => BrewDone(t) \in 0..100
      /\ tick[t] \in Nat /\ tick[t] <= StageTicks
      /\ StageTicks \in Nat
  BY DoneRange, BoundsAssumption DEF DoneTyped, Typed, TypeOK, LocalsTyped, Procs
<1>b. pc'[t] \in RampAt => BrewDone(t)' \in 0..100
  BY DoneRangeNext DEF DoneTyped, Next
<1>1. CASE Evaluate(t)
  BY <1>1, <1>a, EvaluationLeaves DEF Tasks, Procs, EvaluateAt, RampAt
<1>2. CASE Tick(t)
  <2>1. pc[t] = "tick" /\ progress' = progress
    BY <1>2 DEF Tick, Wait, NextStage, Move, At, shared, status
  <2>2. BrewDone(t) <= BrewDone(t)' /\ tick'[t] <= StageTicks
    BY <1>2, <1>a, <2>1, BrewDoneGrows
  <2>3. progress <= BrewDone(t) /\ BrewDone(t) \in 0..100
    BY <1>a, <2>1 DEF RampAt
  <2>4. BrewDone(t)' \in 0..100
    <3>1. pc'[t] \in RampAt
      BY <1>2 DEF Tick, Wait, NextStage, Move, Goto, RampAt, Typed, TypeOK,
         PlacesTyped, Procs
    <3> QED
      BY <1>b, <3>1
  <2>5. pc'[t] # "brew_clear"
    BY <1>2 DEF Tick, Wait, NextStage, Move, Goto, Typed, TypeOK, PlacesTyped, Procs
  <2> QED
    BY <1>a, <2>1, <2>2, <2>3, <2>4, <2>5
<1>3. CASE BrewProgress(t)
  <2>1. /\ pc[t] = "progress" /\ pc'[t] = "tick" /\ progress' = BrewDone(t)
        /\ UNCHANGED <<drink, stage, tick>>
    BY <1>3 DEF BrewProgress, Move, At, Goto, SetProgress, BrewDone, local,
       request, ramp, Typed, TypeOK, PlacesTyped, Procs
  <2>2. BrewDone(t)' = BrewDone(t)
    BY <2>1 DEF BrewDone, Stages
  <2>3. progress <= BrewDone(t) /\ BrewDone(t) \in 0..100
    BY <1>a, <2>1 DEF RampAt
  <2> QED
    BY <1>a, <2>1, <2>2, <2>3
<1>4. CASE BrewClear(t)
  <2>1. /\ pc[t] = "brew_clear" /\ pc'[t] = "stage" /\ progress' = progress
        /\ tick' = tick
    BY <1>4 DEF BrewClear, Move, At, Goto, SetManipulation, Typed, TypeOK,
       PlacesTyped, Procs
  <2>2. BrewDone(t)' \in 0..100
    BY <1>b, <2>1 DEF RampAt
  <2> QED
    BY <1>a, <2>1, <2>2
<1>5. CASE Stage(t) \/ Consume(t) \/ ShowStage(t)
  <2>1. /\ pc[t] \in RampAt \ {"progress"} /\ progress' = progress
        /\ pc'[t] \in RampAt \cup {"ready"}
        /\ UNCHANGED <<drink, stage, tick>>
    BY <1>5 DEF Stage, Consume, ShowStage, Move, At, Goto, SetProcess, shared,
       status, local, request, ramp, RampAt, Typed, TypeOK, PlacesTyped, Procs
  <2>2. BrewDone(t)' = BrewDone(t)
    BY <2>1 DEF BrewDone, Stages
  <2> QED
    BY <1>a, <2>1, <2>2 DEF RampAt
<1>6. CASE BrewZero(t)
  BY <1>6, <1>a DEF BrewZero, Move, At, Goto, SetProgress, local, ramp, RampAt,
     Typed, TypeOK, PlacesTyped, Procs
<1>7. CASE \/ BrewSnap(t) \/ BrewFamily(t) \/ Announce(t) \/ BrewReady(t)
           \/ BrewReset(t) \/ Charge(t) \/ Wear(t) \/ BrewExit(t)
  <2>1. tick' = tick /\ pc[t] # "progress" /\ pc'[t] \notin {"brew_clear"} \cup RampAt
    BY <1>7 DEF BrewSnap, BrewFamily, Announce, BrewReady, BrewReset, Charge, Wear,
       AddCup, BrewExit, Move, At, Goto, local, ramp, RampAt, Typed, TypeOK,
       PlacesTyped, Procs
  <2> QED
    BY <1>a, <2>1
<1> QED
  BY <1>1, <1>2, <1>3, <1>4, <1>5, <1>6, <1>7 DEF BrewStep

(* ... and a step of cycle task t, which finds no progress when it begins. *)
LEMMA CycleBehind ==
    ASSUME Inv, NoOverlap, Behind, NEW t \in CycleTasks, CycleStep(t)
    PROVE  /\ pc'[t] \in {"tick", "progress"} => progress' <= CycleDone(t)'
           /\ pc[t] = "progress" => progress' >= progress
<1> USE DEF Behind
<1>a. Typed /\ progress \in 0..100 /\ CycleDone(t) \in 0..100 /\ tick[t] \in Nat
      /\ CycleTicks \in Nat \ {0}
  BY DoneRange, BoundsAssumption DEF DoneTyped, Inv, Typed, TypeOK, LocalsTyped, Procs
<1>b. CycleDone(t)' \in 0..100
  BY DoneRangeNext DEF DoneTyped, Inv, Next
<1>1. CASE Evaluate(t)
  BY <1>1, <1>a, EvaluationLeaves DEF Tasks, Procs, EvaluateAt
<1>2. CASE CycleTick(t)
  <2>1. /\ pc[t] = "tick" /\ progress' = progress /\ tick'[t] = tick[t] + 1
    BY <1>2, <1>a DEF CycleTick, Move, At, shared, status, Typed, TypeOK,
       LocalsTyped, Procs
  <2>2. CycleDone(t) <= CycleDone(t)'
    BY <1>a, <2>1, PercentMonotone DEF CycleDone
  <2> QED
    BY <1>a, <1>b, <2>1, <2>2
<1>3. CASE CycleProgress(t)
  <2>1. /\ pc[t] = "progress" /\ progress' = CycleDone(t) /\ tick' = tick
    BY <1>3 DEF CycleProgress, Move, At, SetProgress, CycleDone, local, ramp
  <2> QED
    BY <1>a, <2>1 DEF CycleDone
<1>4. CASE Emit(t)
  <2>1. pc[t] = "emit" /\ progress' = progress
    BY <1>4 DEF Emit, Move, At, SetProcess
  <2>2. progress = 0
    <3>1. \A u \in Tasks : u # t => pc[u] = "dead"
      BY <2>1, Alone DEF Inv, Tasks, Live
    <3>2. /\ \A u \in BrewTasks : pc[u] \notin {"ready", "zero"} \cup RampAt
          /\ \A u \in CycleTasks : pc[u] \notin {"zero"} \cup CycleShows
      BY <2>1, <3>1, TasksAssumption DEF Tasks, RampAt, CycleShows
    <3> QED
      BY <3>2 DEF Inv, Settling
  <2> QED
    BY <1>b, <2>1, <2>2
<1>5. CASE \/ CycleSnap(t) \/ Prep(t) \/ Unprep(t) \/ CycleFamily(t) \/ CycleOver(t)
           \/ CycleReady(t) \/ CycleReset(t) \/ CycleExit(t)
  BY <1>5, <1>a DEF CycleSnap, Prep, Unprep, CycleFamily, CycleOver, CycleReady,
     CycleReset, CycleExit, Move, At, Goto, PlacesTyped, TypeOK, Typed, Procs
<1> QED
  BY <1>1, <1>2, <1>3, <1>4, <1>5 DEF CycleStep

(* No step takes the progress back while somebody shows it.                *)
Rises ==
    \A t \in BrewTasks \cup CycleTasks : pc[t] = "progress" => progress' >= progress

LEMMA BehindStep ==
    ASSUME Inv, NoOverlap, NotResetting, Behind, [Next]_vars
    PROVE  Behind' /\ Rises
<1> USE DEF Behind, Inv
<1>a. progress \in 0..100 /\ progress' \in 0..100
  BY DoneRange, DoneRangeNext DEF DoneTyped
<1>0. /\ \A t \in BrewTasks : CodeKept /\ Untouched(t) =>
           /\ tick'[t] <= StageTicks
           /\ pc'[t] = "brew_clear" => progress' = 0
           /\ pc'[t] \in RampAt => progress' <= BrewDone(t)'
      /\ \A t \in CycleTasks : CodeKept /\ Untouched(t) =>
           (pc'[t] \in {"tick", "progress"} => progress' <= CycleDone(t)')
  BY DEF CodeKept, Untouched, Same, BrewDone, CycleDone, Stages, RampAt
<1>1. ASSUME NEW c \in Clients, Call(c) \/ CallStep(c) PROVE Behind' /\ Rises
  <2>1. CodeKept /\ \A t \in Tasks : Untouched(t)
    BY <1>1, ClientsLeave
  <2>2. Rises
    BY <1>a, <2>1 DEF CodeKept, Rises
  <2> QED
    BY <1>0, <2>1, <2>2 DEF Tasks
<1>2. ASSUME NEW t \in Tasks,
             (t \in BrewTasks /\ BrewStep(t)) \/ (t \in CycleTasks /\ CycleStep(t))
      PROVE  Behind' /\ Rises
  <2>1. Live(t)
    BY <1>2 DEF Live, BrewStep, BrewSnap, BrewFamily, Announce, BrewZero,
       BrewClear, Stage, Consume, ShowStage, Tick, Wait, NextStage, BrewProgress,
       BrewReady, BrewReset, Charge, Wear, BrewExit, CycleStep, CycleSnap, Prep,
       Unprep, CycleFamily, Emit, CycleTick, CycleProgress, CycleOver, CycleReady,
       CycleReset, CycleExit, Evaluate, Reevaluate, Scan, ScanNothing, Raise,
       Move, At
  <2>2. \A u \in Tasks : u # t =>
          pc[u] = "dead" /\ pc'[u] \in {"dead", "snap"} /\ tick'[u] = tick[u]
    BY <1>2, <2>1, Alone, TasksLeave DEF Untouched, Same
  <2>3. \A u \in Tasks : u # t =>
          /\ u \in BrewTasks => tick'[u] <= StageTicks
          /\ pc[u] # "progress"
          /\ pc'[u] \notin {"brew_clear"} \cup RampAt
    BY <2>2 DEF RampAt
  <2>4. CASE t \in BrewTasks
    BY <1>2, <2>3, <2>4, BrewBehind, TasksAssumption DEF Tasks, Rises, RampAt
  <2>5. CASE t \in CycleTasks
    BY <1>2, <2>3, <2>5, CycleBehind, TasksAssumption DEF Tasks, Rises, RampAt
  <2> QED
    BY <1>2, <2>4, <2>5
<1>3. ASSUME UNCHANGED vars PROVE Behind' /\ Rises
  BY <1>a, <1>3 DEF vars, shared, status, local, request, ramp, Rises, BrewDone,
     CycleDone, Stages
<1> QED
  BY <1>1, <1>2, <1>3 DEF Next, Tasks

(* With one caller at a time, who does not use the `family` command, the   *)
(* progress a client reads never goes back while a brew or a cycle runs,   *)
(* across stages and a cancel (run_stage and the loop of cycle_task).      *)
THEOREM OneCallerProgress ==
    ASSUME OneCaller, NoReset
    PROVE  Spec => ProgressMonotone
<1> DEFINE I == Apart /\ NotResetting /\ Behind
<1>1. Init => I
  BY TasksAssumption, BoundsAssumption
  DEF Init, Apart, NoOverlap, NotResetting, Behind, RampAt, Procs
<1>2. Inv /\ I /\ [Next]_vars => I'
  BY ApartStep, NotResettingStep, BehindStep, OneCaller, NoReset DEF Inv, Apart
<1>3. Inv /\ I /\ [Next]_vars => [Rises]_vars
  BY BehindStep DEF Apart
<1> QED
  BY <1>1, <1>2, <1>3, Invariance, PTL DEF Spec, ProgressMonotone, Rises
=============================================================================
