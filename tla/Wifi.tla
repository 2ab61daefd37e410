-------------------------------- MODULE Wifi --------------------------------
(***************************************************************************)
(* The station (nivona_wifi.c): it joins the access point, and after every *)
(* failure and every loss of the link tries again, later and later.  The   *)
(* driver (external) posts events; event_handler takes them one by one on  *)
(* the event loop task, and a one-shot timer calls esp_wifi_connect from   *)
(* its own.  The back-off is looked at only as far as it is zero or not:   *)
(* 500 ms times s_consecutive_failures, a counter of limited width.        *)
(***************************************************************************)
EXTENDS Integers, Sequences

CONSTANT
    FailureMod      (* bound: 2^8, the values of s_consecutive_failures    *)

ASSUME WifiAssumption == FailureMod \in Nat \ {0}

VARIABLES
    station,        (* external: "idle", "joining" or "online"             *)
    events,         (* external: posted, and not handled yet               *)
    s_connected,
    s_consecutive_failures,
    timerArmed      (* external: s_reconnect_timer is running              *)

retrying == <<s_consecutive_failures, timerArmed>>
wifi     == <<station, events, s_connected, retrying>>

(* nivona_wifi_init ends with esp_wifi_start, which posts its event.       *)
WifiStarts ==
    /\ station' = "idle" /\ events' = <<"start">>
    /\ s_connected' = FALSE
    /\ s_consecutive_failures' = 0 /\ timerArmed' = FALSE

WifiInit ==
    /\ station = "idle" /\ events = <<"start">>
    /\ s_connected = FALSE
    /\ s_consecutive_failures = 0 /\ timerArmed = FALSE

-----------------------------------------------------------------------------
(* External: esp_wifi_connect does nothing unless the station is idle, and *)
(* a try ends in an address or in a failure; a link that is up may go.     *)
Connected == IF station = "idle" THEN "joining" ELSE station

Joins ==
    /\ station = "joining"
    /\ station' = "online" /\ events' = Append(events, "ip")
    /\ UNCHANGED <<s_connected, retrying>>

LosesLink ==
    /\ station # "idle"
    /\ station' = "idle" /\ events' = Append(events, "down")
    /\ UNCHANGED <<s_connected, retrying>>

-----------------------------------------------------------------------------
(* event_handler.                                                          *)
Handles(event) ==
    /\ events # <<>> /\ Head(events) = event
    /\ events' = Tail(events)

OnStart ==
    /\ Handles("start")
    /\ station' = Connected
    /\ UNCHANGED <<s_connected, retrying>>

(* Mutant: the counter has no limit.                                       *)
OnDown_NoWrap ==
    /\ Handles("down")
    /\ s_connected' = FALSE
    /\ s_consecutive_failures' = s_consecutive_failures + 1
    /\ timerArmed' = TRUE
    /\ UNCHANGED station

(* Mutant: a back-off of zero arms no timer, and nobody reconnects.        *)
OnDown_NoDelay ==
    /\ Handles("down")
    /\ s_connected' = FALSE
    /\ s_consecutive_failures' = (s_consecutive_failures + 1) % FailureMod
    /\ timerArmed' = (s_consecutive_failures' # 0)
    /\ UNCHANGED station

(* The counter wraps; at zero the handler reconnects itself, and else sets *)
(* the timer anew.                                                         *)
OnDown ==
    /\ Handles("down")
    /\ s_connected' = FALSE
    /\ s_consecutive_failures' = (s_consecutive_failures + 1) % FailureMod
    /\ IF s_consecutive_failures' = 0
       THEN station' = Connected /\ UNCHANGED timerArmed
       ELSE timerArmed' = TRUE /\ UNCHANGED station

OnIp ==
    /\ Handles("ip")
    /\ s_consecutive_failures' = 0 /\ s_connected' = TRUE
    /\ UNCHANGED <<station, timerArmed>>

Handler == OnStart \/ OnDown \/ OnIp

(* reconnect_timer_cb, on the timer task.                                  *)
TimerFires ==
    /\ timerArmed /\ timerArmed' = FALSE
    /\ station' = Connected
    /\ UNCHANGED <<events, s_connected, s_consecutive_failures>>

WifiNext == Joins \/ LosesLink \/ Handler \/ TimerFires

-----------------------------------------------------------------------------
WifiTypeOK ==
    /\ station \in {"idle", "joining", "online"}
    /\ events \in Seq({"start", "ip", "down"}) /\ Len(events) <= 2
    /\ s_connected \in BOOLEAN /\ timerArmed \in BOOLEAN
    /\ s_consecutive_failures \in 0..(FailureMod - 1)
=============================================================================
