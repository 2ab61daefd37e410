-------------------------------- MODULE Link --------------------------------
(***************************************************************************)
(* The BLE link: advertising (nivona_ble.c), the connection and the        *)
(* notifications of nivona_gatt.c, the frames and the session of           *)
(* nivona_frame.c, and the answers nivona_dispatch.c sends.                *)
(*                                                                         *)
(* Three tasks meet here: the NimBLE host task, which handles every event  *)
(* of the link and answers requests; a brew or cycle task that pushes      *)
(* status frames whenever it likes; and the console, whose `pair` command  *)
(* restarts advertising.  The spinlock of nivona_gatt.c guards the         *)
(* connection; what comes after it is let go is a step of its own.  The    *)
(* host task handles one event at a time and takes a write byte by byte,   *)
(* which is every way there is to cut a request into writes.               *)
(*                                                                         *)
(* The client subscribes, shakes hands and then asks one thing at a time.  *)
(* There is one connection at a time (CONFIG_BT_NIMBLE_MAX_CONNECTIONS); a  *)
(* connection and the event that tells of it are one step.  Its handle is  *)
(* any the controller likes, that of an earlier connection too: a task     *)
(* that read the handle before a disconnect notifies whoever has it now.   *)
(***************************************************************************)
EXTENDS Frame

CONSTANTS
    Keys,               (* session keys                                    *)
    ConnHandles,        (* the handles the controller gives to connections *)
    StartMayFail,       (* ble_gap_adv_start may fail                      *)
    NotifyMayFail,      (* no buffer may be left for a notification        *)
    MayRetry,           (* the client gives up waiting for an answer       *)
    MaxConnections,     (* bound: connections in all                       *)
    MaxBreaks,          (* bound: requests given up half-way               *)
    MaxMissed,          (* bound: whole requests missed in a row           *)
    MaxAir              (* bound: notifications on their way               *)

NONE == 0               (* BLE_HS_CONN_HANDLE_NONE; also: no session key   *)

ASSUME LinkAssumption ==
    /\ NONE \notin Keys /\ Keys # {}
    /\ ConnHandles \subseteq Nat \ {NONE}
    /\ MaxConnections \in Nat
    /\ StartMayFail \in BOOLEAN /\ NotifyMayFail \in BOOLEAN /\ MayRetry \in BOOLEAN

Tasks == {"host", "push", "console"}

VARIABLES
    peer,           (* the handle of the connection that is up             *)
    connections,    (* ghost: connections so far                           *)
    advertising,
    link,           (* s_conn_handle, s_notify_subscribed                  *)
    parser,         (* s_in_frame, s_buf                                   *)
    handshake,      (* s_handshake_done, s_key_prefix                      *)
    pc,             (* where each task stands                              *)
    out,            (* the notifications a task has still to send          *)
    snapshot,       (* the handle it read under the spinlock               *)
    air,            (* notifications on their way to the client            *)
    client,         (* the client of the connection                        *)
    broken,         (* ghost: requests given up on this connection         *)
    missed,         (* ghost: whole requests missed in a row               *)
    asked,          (* ghost: the client has subscribed                    *)
    strays,         (* ghost: notifications it got before that             *)
    misread         (* ghost: a request was dispatched with its key in it  *)

session == <<parser, handshake>>
sending == <<out, snapshot>>
ghost   == <<broken, missed, asked, strays, misread>>
vars    == <<peer, connections, advertising, link, session, pc, sending, air,
             client, ghost>>

At(t, from)       == pc[t] = from
Goto(t, to)       == pc' = [pc EXCEPT ![t] = to]
Move(t, from, to) == At(t, from) /\ Goto(t, to)

NewClient == [key |-> NONE, request |-> Nothing, at |-> 0, awaits |-> "", retried |-> FALSE]

NoHandshake == [done |-> FALSE, key |-> NONE, conn |-> NONE]

(* Mutant: a new connection finds the subscription of the one before.      *)
Linked_Subscribed(h) == [conn |-> h, subscribed |-> link.subscribed]

(* on_connect and on_disconnect, under the spinlock.                       *)
Linked(h) == [conn |-> h, subscribed |-> FALSE]

Init ==
    /\ peer = NONE /\ connections = 0
    /\ advertising = FALSE
    /\ link = [conn |-> NONE, subscribed |-> FALSE]
    /\ parser = Empty /\ handshake = NoHandshake
    /\ pc = [t \in Tasks |-> IF t = "host" THEN "adv_stop" ELSE "idle"]
    /\ out = [t \in Tasks |-> <<>>] /\ snapshot = [t \in Tasks |-> NONE]
    /\ air = <<>>
    /\ client = NewClient
    /\ broken = 0 /\ missed = 0 /\ asked = FALSE /\ strays = 0 /\ misread = FALSE

-----------------------------------------------------------------------------
(* Advertising: nivona_ble_start_advertising, by the host and the console. *)

AdvStop(t) ==
    /\ Move(t, "adv_stop", "adv_start")
    /\ advertising' = FALSE
    /\ UNCHANGED <<peer, connections, link, session, sending, air, client, ghost>>

(* It does not start while a connection is up, and goes on when it is on.  *)
AdvStart(t) ==
    /\ Move(t, "adv_start", "idle")
    /\ \E ok \in IF StartMayFail THEN BOOLEAN ELSE {TRUE} :
         advertising' = (advertising \/ (ok /\ peer = NONE))
    /\ UNCHANGED <<peer, connections, link, session, sending, air, client, ghost>>

(* The console's `pair`: stops advertising, then restarts it.              *)
Pair ==
    /\ Move("console", "idle", "adv_stop")
    /\ advertising' = FALSE
    /\ UNCHANGED <<peer, connections, link, session, sending, air, client, ghost>>

-----------------------------------------------------------------------------
(* Connections: gap_event, on the host task.                               *)

Incoming == At("host", "idle") /\ advertising /\ peer = NONE /\ link.conn = NONE

Connect ==
    /\ Incoming
    /\ connections < MaxConnections
    /\ connections' = connections + 1
    /\ \E h \in ConnHandles : peer' = h /\ link' = Linked(h)
    /\ advertising' = FALSE
    /\ UNCHANGED <<session, pc, sending, air, client, ghost>>

(* Mutant: a connection that fails leaves the machine silent.              *)
ConnectFails_Silent ==
    /\ Incoming
    /\ advertising' = FALSE
    /\ UNCHANGED <<peer, connections, link, session, pc, sending, air, client, ghost>>

ConnectFails ==
    /\ Incoming
    /\ Goto("host", "adv_stop")
    /\ advertising' = FALSE
    /\ UNCHANGED <<peer, connections, link, session, sending, air, client, ghost>>

(* The link breaks; the host task is told later.                           *)
LinkDown ==
    /\ peer # NONE
    /\ peer' = NONE /\ air' = <<>> /\ client' = NewClient
    /\ broken' = 0 /\ missed' = 0 /\ asked' = FALSE /\ strays' = 0 /\ misread' = FALSE
    /\ UNCHANGED <<connections, advertising, link, session, pc, sending>>

OnDisconnect ==
    /\ peer = NONE /\ link.conn # NONE
    /\ Move("host", "idle", "reset")
    /\ link' = Linked(NONE)
    /\ UNCHANGED <<peer, connections, advertising, session, sending, air, client,
                   ghost>>

(* Mutant: the session of the old connection stays.                        *)
FrameReset_KeepsHandshake ==
    /\ Move("host", "reset", "adv_stop")
    /\ parser' = Empty
    /\ UNCHANGED <<peer, connections, advertising, link, handshake, sending, air,
                   client, ghost>>

FrameReset ==
    /\ Move("host", "reset", "adv_stop")
    /\ parser' = Empty /\ handshake' = NoHandshake
    /\ UNCHANGED <<peer, connections, advertising, link, sending, air, client, ghost>>

Subscribe ==
    /\ At("host", "idle") /\ peer # NONE
    /\ \E on \in BOOLEAN :
         /\ link' = [link EXCEPT !.subscribed = on]
         /\ asked' = (asked \/ on)
    /\ UNCHANGED <<peer, connections, advertising, session, pc, sending, air, client,
                   broken, missed, strays, misread>>

-----------------------------------------------------------------------------
(* The client.                                                             *)

Begin(r) ==
    /\ asked
    /\ client.request = Nothing /\ client.awaits = ""
    /\ command(r) = "U" \/ client.key # NONE
    /\ missed < MaxMissed
    /\ client' = [client EXCEPT !.request = r]
    /\ UNCHANGED <<peer, connections, advertising, link, session, pc, sending, air,
                   ghost>>

(* It gives a request up half-way, and may start another.                  *)
GiveUp ==
    /\ client.at > 0 /\ broken < MaxBreaks
    /\ client' = [client EXCEPT !.request = Nothing, !.at = 0]
    /\ broken' = broken + 1
    /\ UNCHANGED <<peer, connections, advertising, link, session, pc, sending, air,
                   missed, asked, strays, misread>>

(* It gives up waiting; the answer may still come.                         *)
Timeout ==
    /\ MayRetry /\ client.awaits # "" /\ Len(air) < MaxAir
    /\ client' = [client EXCEPT !.awaits = "", !.retried = TRUE]
    /\ UNCHANGED <<peer, connections, advertising, link, session, pc, sending, air,
                   ghost>>

Receive ==
    /\ air # <<>>
    /\ air' = Tail(air)
    /\ LET note == Head(air)
       IN  client' = [client EXCEPT
             !.key    = IF note.cmd = "U" THEN note.key ELSE @,
             !.awaits = IF note.last /\ note.cmd = @ THEN "" ELSE @]
    /\ UNCHANGED <<peer, connections, advertising, link, session, pc, sending, ghost>>

-----------------------------------------------------------------------------
(* Requests: nivona_frame_feed, try_parse and nivona_dispatch, on the host *)
(* task.                                                                   *)

(* How many notifications of 20 bytes the answer to a command takes.       *)
Parts(c) ==
    CASE c \in {"A", "C"} -> 4
      [] c \in {"L", "p"} -> 2
      [] OTHER            -> 1

Answer(c, key) ==
    [i \in 1..Parts(c) |-> [cmd |-> c, key |-> key, last |-> i = Parts(c)]]

(* Without the key of the session in front, the payload stays as it is.    *)
Strips(key) == handshake.done /\ key = handshake.key

(* handle_hu: every handshake makes a new key.                             *)
Handshaken(r) ==
    IF command(r) = "U"
    THEN \E k \in Keys : handshake' = [done |-> TRUE, key |-> k, conn |-> connections]
    ELSE UNCHANGED handshake

(* Mutant: the answer to a handshake carries the key of the one before.    *)
Dispatch_OldKey(r, key) ==
    /\ Goto("host", "send")
    /\ Handshaken(r)
    /\ out' = [out EXCEPT !["host"] =
                 Answer(command(r), IF handshake.done THEN handshake.key
                                                      ELSE handshake'.key)]
    /\ misread' = (misread \/ (command(r) # "U" /\ ~Strips(key)))

(* A request from a client that holds key.                                 *)
Dispatch(r, key) ==
    /\ Goto("host", "send")
    /\ Handshaken(r)
    /\ out' = [out EXCEPT !["host"] = Answer(command(r), handshake'.key)]
    /\ misread' = (misread \/ (command(r) # "U" /\ ~Strips(key)))

Write ==
    LET r     == client.request
        byte  == <<r, client.at + 1>>
        heard == Heard(parser, byte)
        last  == client.at + 1 = Len(r)
    IN  /\ At("host", "idle") /\ r # Nothing /\ link.conn = peer
        /\ parser' = Fed(parser, byte)
        /\ client' = IF last
                     THEN [client EXCEPT !.request = Nothing, !.at = 0,
                                         !.awaits = command(r)]
                     ELSE [client EXCEPT !.at = @ + 1]
        /\ missed' = IF heard # Nothing THEN 0 ELSE IF last THEN missed + 1 ELSE missed
        /\ IF heard # Nothing THEN Dispatch(heard, client.key)
                              ELSE UNCHANGED <<handshake, pc, out, misread>>
        /\ UNCHANGED <<peer, connections, advertising, link, snapshot, air, broken,
                       asked, strays>>

-----------------------------------------------------------------------------
(* Notifications: push_status, nivona_frame_send and nivona_gatt_notify.   *)

PushStatus ==
    /\ Move("push", "idle", "send")
    /\ Len(air) < MaxAir
    /\ out' = [out EXCEPT !["push"] = Answer("X", NONE)]
    /\ UNCHANGED <<peer, connections, advertising, link, session, snapshot, air,
                   client, ghost>>

(* Under the spinlock: the pair is read, or the notification is dropped.   *)
Snapshot(t) ==
    LET live == link.subscribed /\ link.conn # NONE
    IN  /\ At(t, "send") /\ out[t] # <<>>
        /\ Goto(t, IF live THEN "notify" ELSE "send")
        /\ snapshot' = [snapshot EXCEPT ![t] = IF live THEN link.conn ELSE NONE]
        /\ out' = IF live THEN out ELSE [out EXCEPT ![t] = Tail(@)]
        /\ UNCHANGED <<peer, connections, advertising, link, session, air, client,
                       ghost>>

(* ble_gatts_notify_custom: it goes to whichever connection has that       *)
(* handle, and fails when none has.                                        *)
Notify(t) ==
    /\ Move(t, "notify", "send")
    /\ \E ok \in IF NotifyMayFail THEN BOOLEAN ELSE {TRUE} :
         IF ok /\ snapshot[t] = peer
         THEN /\ air' = Append(air, Head(out[t]))
              /\ strays' = IF asked THEN strays ELSE strays + 1
         ELSE UNCHANGED <<air, strays>>
    /\ out' = [out EXCEPT ![t] = Tail(@)]
    /\ snapshot' = [snapshot EXCEPT ![t] = NONE]
    /\ UNCHANGED <<peer, connections, advertising, link, session, client, broken,
                   missed, asked, misread>>

Sent(t) ==
    /\ Move(t, "send", "idle")
    /\ out[t] = <<>>
    /\ UNCHANGED <<peer, connections, advertising, link, session, sending, air,
                   client, ghost>>

-----------------------------------------------------------------------------
Next ==
    \/ \E t \in {"host", "console"} : AdvStop(t) \/ AdvStart(t)
    \/ Pair \/ Connect \/ ConnectFails \/ LinkDown \/ OnDisconnect \/ FrameReset
    \/ Subscribe
    \/ \E r \in Requests : Begin(r)
    \/ GiveUp \/ Timeout \/ Receive \/ Write
    \/ PushStatus
    \/ \E t \in {"host", "push"} : Snapshot(t) \/ Notify(t) \/ Sent(t)

Spec == Init /\ [][Next]_vars

-----------------------------------------------------------------------------
Places   == {"idle", "adv_stop", "adv_start", "reset", "send", "notify"}
Commands == {command(r) : r \in Requests}
Notes    == [cmd : Commands \cup {"X"}, key : Keys \cup {NONE}, last : BOOLEAN]
Handles  == ConnHandles \cup {NONE}
Parsers  == [inFrame : BOOLEAN, buf : Seq(Requests \X Nat)]
Sessions == [done : BOOLEAN, key : Keys \cup {NONE}, conn : 0..MaxConnections]
Clients  == [key : Keys \cup {NONE}, request : Requests \cup {Nothing}, at : Nat,
             awaits : Commands \cup {""}, retried : BOOLEAN]

(* Every variable has its type, and the parser's buffer its bound.         *)
TypeOK ==
    /\ peer \in Handles /\ connections \in 0..MaxConnections
    /\ advertising \in BOOLEAN
    /\ link \in [conn : Handles, subscribed : BOOLEAN]
    /\ parser \in Parsers /\ Len(parser.buf) \in 0..MAX_FRAME_BYTES
    /\ handshake \in Sessions
    /\ pc \in [Tasks -> Places]
    /\ out \in [Tasks -> Seq(Notes)]
    /\ \A t \in Tasks : pc[t] = "notify" => out[t] # <<>>
    /\ snapshot \in [Tasks -> Handles]
    /\ air \in Seq(Notes)
    /\ client \in Clients
    /\ asked \in BOOLEAN /\ strays \in Nat /\ misread \in BOOLEAN

(* The parser cuts the stream where the client did: unless a request was   *)
(* given up on this connection, every whole one is heard, whatever bytes   *)
(* it holds and however the writes, or an earlier connection, ended.       *)
Hears == missed > 0 => broken > 0

(* What a request has to be like for that: when its size is not fixed, the *)
(* byte that ends a frame comes last only ...                              *)
EndsOnce ==
    \A r \in Requests : expected_request_size(command(r)) = 0 =>
        \A i \in 3..Len(r) - 1 : r[i] # "E"

(* ... and no request holds what another could begin with.                 *)
StartsOnce ==
    \A r \in Requests : \A i \in 2..Len(r) - 1 : r[i] = "S" => r[i + 1] # "H"

(* A request given up half-way costs a bounded number of the next ones:    *)
(* those it swallows until it has its size, and the one it ends in.        *)
Sizes    == {Len(r) : r \in Requests}
Longest  == CHOOSE n \in Sizes : \A m \in Sizes : m <= n
Shortest == CHOOSE n \in Sizes : \A m \in Sizes : n <= m
Recovers == missed <= broken * (Longest \div Shortest + 1)

(* Once the host task is done with an event, a session belongs to the      *)
(* connection it was made on, even if its handle was used before.          *)
FreshSession ==
    At("host", "idle") /\ handshake.done =>
        link.conn # NONE /\ handshake.conn = connections

(* A client that waits for its answers is understood: no request of its    *)
(* is dispatched with the session key still in the payload.                *)
Understood == misread => client.retried

(* A client that has not asked for notifications gets one at most: the     *)
(* status a task was sending when the connection before was lost.  It      *)
(* never gets an answer to what an earlier client asked.                   *)
OnlySubscribers ==
    /\ strays <= 1
    /\ ~asked => \A i \in DOMAIN air : air[i].cmd = "X"

(* Nobody connected, and nobody about to restart it: the machine can be    *)
(* found.                                                                  *)
CanBeFound ==
    peer = NONE /\ link.conn = NONE
        /\ (\A t \in {"host", "console"} : pc[t] \notin {"reset", "adv_stop", "adv_start"})
        => advertising
=============================================================================
