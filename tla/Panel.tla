-------------------------------- MODULE Panel --------------------------------
(***************************************************************************)
(* The touch panel (nivona_ui.c) on top of the Machine: four screens, the  *)
(* tiles of the home screen, and the poll that redraws it every 150 ms.    *)
(*                                                                         *)
(* All of it runs in the LVGL task, the client Touch: a tap and a poll     *)
(* never overlap, but every other task runs on between the reads of a poll *)
(* and during a call a tap makes.  Which screen is loaded and what it      *)
(* shows is known to that task alone, so the screen that a handler loads   *)
(* when its call has returned is loaded here when it makes the call.       *)
(*                                                                         *)
(* Left out: the line below the title, the progress bar, the BLE dot, the  *)
(* strip of levels and the model's name, which show a reading as it is.    *)
(***************************************************************************)
EXTENDS Machine

CONSTANT Touch      (* the LVGL task                                       *)

ASSUME TouchAssumption == Touch \in Clients

VARIABLES
    screen,         (* lv_screen_active()                                  *)
    offered,        (* g_brew_ud: the selectors the brew picker lists      *)
    poll,           (* "rest", or "brew" while a poll is under way         *)
    seen,           (* local: the status block the poll has read           *)
    last,           (* g_last_manip, _brewing, _sub, _process              *)
    title,          (* of the state tile                                   *)
    enabled         (* the tiles that can be tapped                        *)

poller    == <<poll, seen>>
home      == <<last, title, enabled>>
panel     == <<screen, offered, poller, home>>
panelVars == <<vars, panel>>

Screens   == {"home", "brew", "refill", "family"}
Tiles     == {"BREW", "CANCEL", "CONFIRM"}
Refills   == {"FILL_WATER", "EMPTY_TRAYS"}

(* A reading of the status block, and one no reading is equal to.          *)
Unread == [manipulation |-> "unread", sub |-> 0, process |-> 0]
Never  == [manipulation |-> "unread", sub |-> 0, process |-> 0,
           brewing |-> FALSE]

(* The selectors that the picker lists for the family it is built for.     *)
Offered(f) == {s \in Selectors : RecipeCategories(f, s) # {}}

(* screen_home_build, called once, before the first poll.                  *)
PanelInit ==
    /\ Init
    /\ screen = "home" /\ offered = {}
    /\ poll = "rest" /\ seen = Unread
    /\ last = Never
    /\ title = "READY"
    /\ enabled = {"BREW"}

-----------------------------------------------------------------------------
(* Mutant: the poll runs in a task other than the taps.                    *)
Idle_TwoTasks == At(Touch, "idle")

(* The LVGL task is in no call and in no poll.                             *)
Idle == At(Touch, "idle") /\ poll = "rest"

Show(next) == screen' = next

(* The tiles of the home screen.                                           *)
OpenBrew ==
    /\ Idle /\ screen = "home" /\ "BREW" \in enabled
    /\ Show("brew") /\ offered' = Offered(family)
    /\ UNCHANGED <<vars, poller, home>>

OpenRefill ==
    /\ Idle /\ screen = "home"
    /\ Show("refill")
    /\ UNCHANGED <<vars, offered, poller, home>>

OpenFamily ==
    /\ Idle /\ screen = "home"
    /\ Show("family")
    /\ UNCHANGED <<vars, offered, poller, home>>

(* on_cancel: of a brew that has ended since, it does nothing.             *)
TapCancel ==
    /\ Idle /\ screen = "home" /\ "CANCEL" \in enabled
    /\ BrewCancel(Touch)
    /\ UNCHANGED panel

TapConfirm ==
    /\ Idle /\ screen = "home" /\ "CONFIRM" \in enabled
    /\ Confirm(Touch)
    /\ UNCHANGED panel

Back ==
    /\ Idle /\ screen # "home"
    /\ Show("home")
    /\ UNCHANGED <<vars, offered, poller, home>>

(* on_brew_recipe: back to home whether the brew is accepted or not.  The  *)
(* rows are those of the family the picker was built for; one that the     *)
(* family of now does not list is refused at once, which is Back.          *)
TapRecipe ==
    /\ Idle /\ screen = "brew"
    /\ \E s \in offered : BrewStart(Touch, s)
    /\ Show("home")
    /\ UNCHANGED <<offered, poller, home>>

(* on_refill_water, on_empty_tray: the screen stays.                       *)
TapRefill ==
    /\ Idle /\ screen = "refill"
    /\ \E w \in Refills \cap Watched : SetTank(Touch, w) /\ unmet' = unmet \ {w}
    /\ UNCHANGED panel

(* on_family_select.                                                       *)
TapFamily ==
    /\ Idle /\ screen = "family"
    /\ \E f \in InUse : FamilyUi(Touch, f)
    /\ Show("home")
    /\ UNCHANGED <<offered, poller, home>>

Tap ==
    \/ OpenBrew \/ OpenRefill \/ OpenFamily \/ TapCancel \/ TapConfirm
    \/ Back \/ TapRecipe \/ TapRefill \/ TapFamily

-----------------------------------------------------------------------------
(* poll_timer_cb, on the home screen only: the status block is read under  *)
(* its lock, ...                                                           *)
PollStatus ==
    /\ Idle /\ screen = "home"
    /\ poll' = "brew"
    /\ seen' = [manipulation |-> manipulation, sub |-> sub_process,
                process |-> process]
    /\ UNCHANGED <<vars, screen, offered, home>>

Title(manip, brewing) ==
    IF manip # "NONE" THEN manip ELSE IF brewing THEN "BREWING" ELSE "READY"

Enabled(manip, brewing) ==
    (IF ~brewing /\ manip = "NONE" THEN {"BREW"} ELSE {})
    \cup (IF brewing THEN {"CANCEL"} ELSE {})
    \cup (IF manip # "NONE" THEN {"CONFIRM"} ELSE {})

Reading(brewing) ==
    [manipulation |-> seen.manipulation, sub |-> seen.sub,
     process |-> seen.process, brewing |-> brewing]

(* Mutant: the end of a brew is taken to change nothing by itself.         *)
StateChanged_NotBrewing(reading) ==
    [reading EXCEPT !.brewing = last.brewing] # last

StateChanged(reading) == reading # last

(* ... then nivona_brew_active under the brew's lock; the rest of the poll *)
(* draws.  The tile is drawn only if what it was drawn from has changed.   *)
PollBrew ==
    /\ poll = "brew"
    /\ poll' = "rest" /\ seen' = Unread
    /\ LET reading == Reading(brewActive)
       IN  /\ IF StateChanged(reading)
              THEN last' = reading /\ title' = Title(seen.manipulation, brewActive)
              ELSE UNCHANGED <<last, title>>
           /\ enabled' = Enabled(seen.manipulation, brewActive)
    /\ UNCHANGED <<vars, screen, offered>>

Poll == PollStatus \/ PollBrew

-----------------------------------------------------------------------------
(* The LVGL task goes on with the call a tap made, an app or a console asks *)
(* for brews too, and brews run.  Cycles, which the panel does not know of, *)
(* and the calls whose effect the panel's own calls have as well are left  *)
(* to the runs of Machine.                                                 *)
Elsewhere ==
    /\ \/ CallStep(Touch)
       \/ \E c \in Clients \ {Touch} :
            (\E s \in Selectors : BrewStart(c, s)) \/ CallStep(c)
       \/ \E t \in BrewTasks : BrewStep(t)
    /\ UNCHANGED panel

PanelNext == Tap \/ Poll \/ Elsewhere

PanelSpec == PanelInit /\ [][PanelNext]_panelVars

(* LVGL reads the touches and runs the poll from timers of one loop, which *)
(* runs all that are due: however often it is tapped, the panel polls (SF). *)
(* Every other task goes on, and nobody has to tap.                        *)
PanelFairness ==
    /\ SF_panelVars(PollStatus) /\ WF_panelVars(PollBrew)
    /\ \A c \in Clients : WF_panelVars(CallStep(c) /\ UNCHANGED panel)
    /\ \A t \in BrewTasks : WF_panelVars(BrewStep(t) /\ UNCHANGED panel)

PanelFairSpec == PanelSpec /\ PanelFairness

-----------------------------------------------------------------------------
(* Every variable has its type, and no tap is handled during a poll.       *)
PanelTypeOK ==
    /\ TypeOK
    /\ screen \in Screens
    /\ offered \subseteq Selectors
    /\ poll \in {"rest", "brew"}
    /\ poll # "rest" => At(Touch, "idle")
    /\ seen.manipulation \in Prompts \cup {"unread"}
    /\ last.manipulation \in Prompts \cup {"unread"}
    /\ last.brewing \in BOOLEAN
    /\ title \in {"READY", "BREWING"} \cup (Prompts \ {"NONE"})
    /\ enabled \subseteq Tiles

(* What the home screen has to say of the machine as it is.                *)
TellsTheTruth ==
    /\ title = Title(manipulation, brewActive)
    /\ enabled = Enabled(manipulation, brewActive)

(* A panel that is left on the home screen comes to tell the truth about   *)
(* a machine that has settled, although a poll reads the prompt and the    *)
(* brew at different moments and redraws only what it takes for changed:   *)
(* no BREWING, no prompt and no dead BREW tile is left behind for ever.    *)
PanelSettles ==
    /\ <>[](screen = "home")
    /\ <>[][UNCHANGED <<manipulation, brewActive>>]_panelVars
    => <>[]TellsTheTruth
=============================================================================
