----------------------------- MODULE PanelSafety -----------------------------
(***************************************************************************)
(* What Panel promises, proved for every set of tasks, every set of inputs *)
(* and every bound: the panel does nothing to the machine that Machine     *)
(* does not allow its callers, so that what is proved of Machine holds of  *)
(* a machine with a panel; and what a poll draws is consistent.            *)
(***************************************************************************)
EXTENDS Panel, MachineSafety

Statuses == [manipulation : Prompts \cup {"unread"}, sub : 0..255, process : 0..99]
Readings == [manipulation : Prompts \cup {"unread"}, sub : 0..255, process : 0..99,
             brewing : BOOLEAN]

(* The panel's own part of the types.  A poll under way has read a prompt. *)
PanelTyped ==
    /\ screen \in Screens
    /\ offered \subseteq Selectors
    /\ poll \in {"rest", "brew"}
    /\ poll # "rest" => At(Touch, "idle") /\ seen.manipulation \in Prompts
    /\ seen \in Statuses
    /\ last \in Readings
    /\ title \in {"READY", "BREWING"} \cup (Prompts \ {"NONE"})
    /\ enabled \subseteq Tiles

(* Until the first poll last is a reading that no poll can make; from then *)
(* on the state tile and the tiles that can be tapped are drawn from it.   *)
Drawn ==
    last # Never =>
        /\ title = Title(last.manipulation, last.brewing)
        /\ enabled = Enabled(last.manipulation, last.brewing)

-----------------------------------------------------------------------------
(* A step of the panel is a step of the machine, or none.                  *)

LEMMA ElsewhereIsNext == Elsewhere => Next
  BY TouchAssumption DEF Elsewhere, Next, Call

LEMMA TapIsNext ==
    ASSUME offered \subseteq Selectors, Tap
    PROVE  Next \/ UNCHANGED vars
<1>1. CASE OpenBrew \/ OpenRefill \/ OpenFamily \/ Back
  BY <1>1 DEF OpenBrew, OpenRefill, OpenFamily, Back
<1>2. CASE TapCancel \/ TapConfirm
  BY <1>2, TouchAssumption DEF TapCancel, TapConfirm, Call, Next
<1>3. CASE TapRecipe
  BY <1>3, TouchAssumption DEF TapRecipe, Call, Next
<1>4. CASE TapRefill
  BY <1>4, TouchAssumption DEF TapRefill, Call, Next
<1>5. CASE TapFamily
  BY <1>5, TouchAssumption DEF TapFamily, Call, Next
<1> QED
  BY <1>1, <1>2, <1>3, <1>4, <1>5 DEF Tap

LEMMA PanelStep ==
    ASSUME offered \subseteq Selectors, [PanelNext]_panelVars
    PROVE  [Next]_vars
<1>1. CASE Poll
  BY <1>1 DEF Poll, PollStatus, PollBrew
<1>2. CASE UNCHANGED panelVars
  BY <1>2 DEF panelVars
<1> QED
  BY <1>1, <1>2, TapIsNext, ElsewhereIsNext DEF PanelNext

-----------------------------------------------------------------------------
(* The types.                                                              *)

LEMMA PanelInitTyped == PanelInit => PanelTyped /\ Drawn
<1> SUFFICES ASSUME PanelInit PROVE PanelTyped /\ Drawn
  OBVIOUS
<1>1. seen \in Statuses /\ last \in Readings
  BY DEF PanelInit, Unread, Never, Statuses, Readings
<1> QED
  BY <1>1 DEF PanelInit, PanelTyped, Drawn, Screens, Tiles

(* Only a call of its own takes the LVGL task out of its loop.             *)
LEMMA ElsewhereStays ==
    ASSUME Typed, Elsewhere, At(Touch, "idle")
    PROVE  At(Touch, "idle")'
<1> USE TouchAssumption, TasksAssumption
    DEF Typed, TypeOK, PlacesTyped, Procs, Move, At, Goto
<1>1. ASSUME NEW p \in Procs, p # Touch, Evaluate(p) PROVE pc'[Touch] = "idle"
  BY <1>1 DEF Evaluate, Reevaluate, Scan, ScanNothing, Raise, AfterRaise
<1>2. ASSUME NEW c \in Clients, c # Touch, NEW s \in Selectors, BrewStart(c, s)
      PROVE  pc'[Touch] = "idle"
  BY <1>2 DEF BrewStart
<1>3. ASSUME NEW c \in Clients, c # Touch, CallStep(c) PROVE pc'[Touch] = "idle"
  BY <1>1, <1>3 DEF CallStep, BrewCheckCycle, BrewCheckPrompt, BrewCheckSoft,
     BrewBusy, BrewNoTask, BrewClaim, CycleCheckBrew, CycleBusy, CycleNoTask,
     CycleClaim, ConfirmSoft, ConfirmClear, ResetRead, ResetWrite, Return
<1>4. ~CallStep(Touch)
  BY DEF CallStep, BrewCheckCycle, BrewCheckPrompt, BrewCheckSoft, BrewBusy,
     BrewNoTask, BrewClaim, CycleCheckBrew, CycleBusy, CycleNoTask, CycleClaim,
     ConfirmSoft, ConfirmClear, ResetRead, ResetWrite, Evaluate, Reevaluate,
     Scan, ScanNothing, Raise
<1>5. ASSUME NEW t \in BrewTasks, BrewStep(t) PROVE pc'[Touch] = "idle"
  <2>1. t \in Procs /\ t # Touch
    OBVIOUS
  <2> QED
    BY <1>1, <1>5, <2>1 DEF BrewStep, BrewSnap, BrewFamily, Announce, BrewZero,
       BrewClear, Stage, Consume, ShowStage, Tick, Wait, NextStage, BrewProgress,
       BrewReady, BrewReset, Charge, Wear, BrewExit
<1> QED
  BY <1>2, <1>3, <1>4, <1>5 DEF Elsewhere

LEMMA UnreadIsNoPrompt == "unread" \notin Prompts
  BY DEF Prompts, HardPrompts, Conditions, Rank, SoftPrompts

LEMMA TitleIsOne ==
    ASSUME NEW m \in Prompts, NEW b \in BOOLEAN
    PROVE  /\ Title(m, b) \in {"READY", "BREWING"} \cup (Prompts \ {"NONE"})
           /\ Enabled(m, b) \subseteq Tiles
  BY DEF Title, Enabled, Tiles

LEMMA PanelTypedStep ==
    ASSUME Typed, PanelTyped, Drawn, [PanelNext]_panelVars
    PROVE  PanelTyped' /\ Drawn'
<1>1. CASE OpenBrew \/ OpenRefill \/ OpenFamily \/ Back
  BY <1>1 DEF OpenBrew, OpenRefill, OpenFamily, Back, Idle, Show, Offered,
     PanelTyped, Drawn, Screens, poller, home
<1>2. CASE TapCancel \/ TapConfirm \/ TapRefill
  BY <1>2 DEF TapCancel, TapConfirm, TapRefill, Idle, PanelTyped, Drawn, panel,
     poller, home
<1>3. CASE TapRecipe \/ TapFamily
  BY <1>3 DEF TapRecipe, TapFamily, Idle, Show, PanelTyped, Drawn, Screens,
     poller, home
<1>4. CASE PollStatus
  <2>1. seen' \in Statuses /\ seen'.manipulation \in Prompts
    BY <1>4 DEF PollStatus, Statuses, Typed, TypeOK, SharedTyped
  <2>2. At(Touch, "idle")'
    BY <1>4 DEF PollStatus, Idle, At, vars
  <2> QED
    BY <1>4, <2>1, <2>2 DEF PollStatus, PanelTyped, Drawn, home
<1>5. CASE PollBrew
  <2> DEFINE reading == Reading(brewActive)
  <2>1. /\ seen.manipulation \in Prompts /\ brewActive \in BOOLEAN
        /\ seen.sub \in 0..255 /\ seen.process \in 0..99
    BY <1>5 DEF PollBrew, PanelTyped, Statuses, Typed, TypeOK, SharedTyped
  <2>2. /\ reading \in Readings /\ reading # Never
        /\ reading.manipulation = seen.manipulation /\ reading.brewing = brewActive
    BY <2>1, UnreadIsNoPrompt DEF Reading, Readings, Never
  <2>3. seen' \in Statuses
    BY <1>5 DEF PollBrew, Unread, Statuses
  <2>4. last' = reading
    BY <1>5 DEF PollBrew, StateChanged
  <2>5. title' = Title(seen.manipulation, brewActive)
    BY <1>5, <2>2 DEF PollBrew, StateChanged, Drawn
  <2>6. enabled' = Enabled(seen.manipulation, brewActive)
    BY <1>5 DEF PollBrew
  <2>7. PanelTyped'
    BY <1>5, <2>1, <2>2, <2>3, <2>4, <2>5, <2>6, TitleIsOne DEF PollBrew, PanelTyped
  <2>8. Drawn'
    BY <2>2, <2>4, <2>5, <2>6 DEF Drawn
  <2> QED
    BY <2>7, <2>8
<1>6. CASE Elsewhere
  <2>1. UNCHANGED panel
    BY <1>6 DEF Elsewhere
  <2>2. At(Touch, "idle") => At(Touch, "idle")'
    BY <1>6, ElsewhereStays
  <2> QED
    BY <2>1, <2>2 DEF panel, poller, home, PanelTyped, Drawn
<1>7. CASE UNCHANGED panelVars
  BY <1>7 DEF panelVars, vars, panel, poller, home, PanelTyped, Drawn, At
<1> QED
  BY <1>1, <1>2, <1>3, <1>4, <1>5, <1>6, <1>7 DEF PanelNext, Tap, Poll

(* The inductive invariant: that of the machine, and the panel's own.      *)
PanelInv == Inv /\ PanelTyped /\ Drawn

(* What the panel remembers and shows fits the machine behind every tap    *)
(* handler and every poll of nivona_ui.c.                                  *)
THEOREM PanelInvariance == PanelSpec => []PanelInv
<1>1. PanelInit => PanelInv
  BY InvInit, PanelInitTyped DEF PanelInit, PanelInv
<1>2. PanelInv /\ [PanelNext]_panelVars => PanelInv'
  <2> SUFFICES ASSUME PanelInv, [PanelNext]_panelVars PROVE PanelInv'
    OBVIOUS
  <2>1. [Next]_vars
    BY PanelStep DEF PanelInv, PanelTyped
  <2>2. Inv'
    BY <2>1, InvStep DEF PanelInv
  <2> QED
    BY <2>2, PanelTypedStep DEF PanelInv, Inv
<1> QED
  BY <1>1, <1>2, PTL DEF PanelSpec

(* Every variable of the panel has its type, and no tap is handled while a *)
(* poll is between its two reads.                                          *)
THEOREM PanelTypeCorrect == PanelSpec => []PanelTypeOK
<1>1. PanelInv => PanelTypeOK
  BY DEF PanelInv, Inv, Typed, PanelTyped, PanelTypeOK, Statuses, Readings
<1> QED
  BY <1>1, PanelInvariance, PTL

(* The taps, the polls and the loop of the LVGL task do nothing to the     *)
(* machine that a client of Machine may not do: a machine with a panel is  *)
(* a Machine, and all that is proved of Machine holds of it.               *)
THEOREM PanelImplementsMachine == PanelSpec => Spec
<1>1. PanelInit => Init
  BY DEF PanelInit
<1>2. PanelInv /\ [PanelNext]_panelVars => [Next]_vars
  BY PanelStep DEF PanelInv, PanelTyped
<1> QED
  BY <1>1, <1>2, PanelInvariance, PTL DEF PanelSpec, Spec

(* The state tile and the tiles that can be tapped never contradict each   *)
(* other: both are drawn from the last reading, although the one is drawn  *)
(* only after a change and the others at every poll.                       *)
THEOREM TilesAgree == PanelSpec => []Drawn
<1>1. PanelInv => Drawn
  BY DEF PanelInv
<1> QED
  BY <1>1, PanelInvariance, PTL

(* A poll leaves a home screen that tells the truth, unless the prompt was *)
(* changed between its read of the status block and its read of s_active.  *)
PollTells ==
    poll = "brew" /\ poll' = "rest" /\ seen.manipulation = manipulation
        => TellsTheTruth'

(* PollTells of poll_timer_cb, whatever other tasks do between its reads.  *)
THEOREM PollsTellTheTruth == PanelSpec => [][PollTells]_panelVars
<1>1. PanelInv /\ [PanelNext]_panelVars => [PollTells]_panelVars
  <2> SUFFICES ASSUME PanelInv, PanelNext, poll = "brew", poll' = "rest",
                      seen.manipulation = manipulation
               PROVE  TellsTheTruth'
    BY DEF PollTells
  <2>1. PollBrew
    BY DEF PanelNext, Tap, Poll, PollStatus, Elsewhere, OpenBrew, OpenRefill,
       OpenFamily, TapCancel, TapConfirm, Back, TapRecipe, TapRefill, TapFamily,
       Idle, panel, poller
  <2>2. seen.manipulation \in Prompts
    BY <2>1 DEF PollBrew, PanelInv, PanelTyped
  <2>3. Reading(brewActive) # Never
    BY <2>2, UnreadIsNoPrompt DEF Reading, Never
  <2>4. title' = Title(seen.manipulation, brewActive)
    <3>1. Reading(brewActive).manipulation = seen.manipulation
          /\ Reading(brewActive).brewing = brewActive
      BY DEF Reading
    <3> QED
      BY <2>1, <2>3, <3>1 DEF PollBrew, StateChanged, PanelInv, Drawn
  <2> QED
    BY <2>1, <2>4 DEF PollBrew, TellsTheTruth, vars, shared, status, brewOrder
<1> QED
  BY <1>1, PanelInvariance, PTL DEF PanelSpec
=============================================================================
