----------------------------- MODULE LinkSafety ------------------------------
(***************************************************************************)
(* The types and the safety invariants of Link, proved for every set of    *)
(* requests and keys, every size of the buffer, any number of connections  *)
(* and any handles, which the controller may give again.                   *)
(***************************************************************************)
EXTENDS Link, TLAPS

-----------------------------------------------------------------------------
(* THE TYPES.                                                              *)

LEMMA Buffers == MAX_FRAME_BYTES \in Nat \ {0}
  BY RequestAssumption

LEMMA HandleTypes ==
    /\ NONE \in Handles /\ Handles \subseteq Nat
    /\ MaxConnections \in Nat /\ NONE \in 0..MaxConnections
  BY LinkAssumption DEF NONE, Handles

(* The answer to a command is a few notifications of that command, the     *)
(* last of them marked.                                                    *)
LEMMA AnswerTyped ==
    ASSUME NEW c \in Commands \cup {"X"}, NEW key \in Keys \cup {NONE}
    PROVE  Answer(c, key) \in Seq(Notes)
<1>1. Parts(c) \in Nat
  BY DEF Parts
<1>2. \A i \in 1..Parts(c) :
        [cmd |-> c, key |-> key, last |-> i = Parts(c)] \in Notes
  BY DEF Notes
<1> QED
  BY <1>1, <1>2 DEF Answer

(* A byte never makes the buffer larger than it is, nor is it anything but *)
(* the bytes it was fed.                                                   *)
LEMMA FedTyped ==
    ASSUME NEW p \in Parsers,
           Len(p.buf) \in 0..MAX_FRAME_BYTES,
           NEW byte \in Requests \X Nat
    PROVE  /\ Fed(p, byte) \in Parsers
           /\ Len(Fed(p, byte).buf) \in 0..MAX_FRAME_BYTES
<1>1. CASE ~p.inFrame
  BY <1>1, Buffers DEF Fed, Parsers
<1>2. CASE p.inFrame /\ (Full(p) \/ Complete(Append(p.buf, byte)))
  <2>1. Fed(p, byte) = Empty
    BY <1>2 DEF Fed
  <2> QED
    BY <2>1, Buffers DEF Empty, Parsers
<1>3. CASE p.inFrame /\ ~(Full(p) \/ Complete(Append(p.buf, byte)))
  <2> DEFINE b == Append(p.buf, byte)
  <2>1. Fed(p, byte) = [p EXCEPT !.buf = b]
    BY <1>3 DEF Fed
  <2>2. Len(p.buf) < MAX_FRAME_BYTES
    BY <1>3, Buffers DEF Full, Parsers
  <2>3. b \in Seq(Requests \X Nat) /\ Len(b) = Len(p.buf) + 1
    BY DEF Parsers
  <2>4. Len(b) \in 0..MAX_FRAME_BYTES
    BY <2>2, <2>3, Buffers
  <2> HIDE DEF b
  <2> QED
    BY <2>1, <2>3, <2>4 DEF Parsers
<1> QED
  BY <1>1, <1>2, <1>3

(* The request a byte completes is the one whose last byte it is.          *)
LEMMA HeardIsSent ==
    ASSUME NEW p \in Parsers,
           NEW r \in Requests, NEW i \in Nat,
           Heard(p, <<r, i>>) # Nothing
    PROVE  Heard(p, <<r, i>>) = r /\ i = Len(r)
<1> DEFINE b == Append(p.buf, <<r, i>>)
<1>1. Heard(p, <<r, i>>) = Parsed(b)
  BY DEF Heard
<1>2. PICK s \in Requests : b = Bytes(s) /\ Parsed(b) = s
  BY <1>1 DEF Parsed
<1>3. Len(s) \in Nat
  BY RequestAssumption
<1>4. Len(b) = Len(p.buf) + 1 /\ b[Len(b)] = <<r, i>>
  BY DEF Parsers
<1>5. Len(Bytes(s)) = Len(s)
  BY <1>3 DEF Bytes
<1>6. Len(s) \in 1..Len(s)
  BY RequestAssumption
<1>7. Bytes(s)[Len(s)] = <<s, Len(s)>>
  BY <1>6 DEF Bytes
<1>8. <<r, i>> = <<s, Len(s)>>
  BY <1>2, <1>4, <1>5, <1>7
<1> QED
  BY <1>1, <1>2, <1>8

-----------------------------------------------------------------------------
LEMMA TypedInit == Init => TypeOK
<1> SUFFICES ASSUME Init PROVE TypeOK
  OBVIOUS
<1> USE HandleTypes DEF Init, NONE
<1>1. /\ peer \in Handles /\ connections \in 0..MaxConnections
      /\ advertising \in BOOLEAN
      /\ link \in [conn : Handles, subscribed : BOOLEAN]
  OBVIOUS
<1>2. /\ parser \in Parsers
      /\ Len(parser.buf) \in 0..MAX_FRAME_BYTES
  BY Buffers DEF Empty, Parsers
<1>3. handshake \in Sessions
  BY DEF NoHandshake, Sessions
<1>4. /\ pc \in [Tasks -> Places]
      /\ \A t \in Tasks : pc[t] = "notify" => out[t] # <<>>
  BY DEF Tasks, Places
<1>5. /\ out \in [Tasks -> Seq(Notes)] /\ air \in Seq(Notes)
      /\ snapshot \in [Tasks -> Handles]
  OBVIOUS
<1>6. /\ client \in Clients
      /\ asked \in BOOLEAN /\ strays \in Nat /\ misread \in BOOLEAN
  BY DEF NewClient, Clients, NONE
<1> QED
  BY <1>1, <1>2, <1>3, <1>4, <1>5, <1>6 DEF TypeOK

(* The actions that neither send nor parse.                                *)
LEMMA TypedLink ==
    ASSUME TypeOK,
           \/ \E t \in {"host", "console"} : AdvStop(t) \/ AdvStart(t)
           \/ Pair \/ Connect \/ ConnectFails \/ LinkDown \/ OnDisconnect
           \/ FrameReset \/ Subscribe
    PROVE  TypeOK'
<1> USE HandleTypes DEF TypeOK, session, sending, ghost, Move, At, Goto, Tasks, Places
<1>1. CASE \E t \in {"host", "console"} : AdvStop(t) \/ AdvStart(t)
  <2>1. advertising' \in BOOLEAN
    BY <1>1 DEF AdvStop, AdvStart
  <2>2. /\ pc' \in [Tasks -> Places]
        /\ \A t \in Tasks : pc'[t] = "notify" => pc[t] = "notify"
    <3>1. PICK t \in Tasks : pc' = [pc EXCEPT ![t] = "adv_start"]
                              \/ pc' = [pc EXCEPT ![t] = "idle"]
      BY <1>1 DEF AdvStop, AdvStart
    <3> QED
      BY <3>1
  <2> QED
    BY <1>1, <2>1, <2>2 DEF AdvStop, AdvStart
<1>2. CASE Pair \/ ConnectFails
  BY <1>2 DEF Pair, ConnectFails, Incoming
<1>3. CASE Connect
  <2>1. connections' \in 0..MaxConnections
    BY <1>3 DEF Connect
  <2>2. peer' \in Handles /\ link' \in [conn : Handles, subscribed : BOOLEAN]
    BY <1>3 DEF Connect, Linked, Handles
  <2> QED
    BY <1>3, <2>1, <2>2 DEF Connect
<1>4. CASE LinkDown
  <2>1. client' \in Clients
    BY <1>4 DEF LinkDown, NewClient, Clients, NONE
  <2>2. air' \in Seq(Notes)
    BY <1>4 DEF LinkDown
  <2> QED
    BY <1>4, <2>1, <2>2 DEF LinkDown
<1>5. CASE OnDisconnect
  <2>1. link' \in [conn : Handles, subscribed : BOOLEAN]
    BY <1>5 DEF OnDisconnect, Linked
  <2> QED
    BY <1>5, <2>1 DEF OnDisconnect
<1>6. CASE FrameReset
  <2>1. parser' \in Parsers /\ Len(parser'.buf) \in 0..MAX_FRAME_BYTES
    BY <1>6, Buffers DEF FrameReset, Empty, Parsers
  <2>2. handshake' \in Sessions
    BY <1>6 DEF FrameReset, NoHandshake, Sessions
  <2> QED
    BY <1>6, <2>1, <2>2 DEF FrameReset
<1>7. CASE Subscribe
  BY <1>7 DEF Subscribe
<1> QED
  BY <1>1, <1>2, <1>3, <1>4, <1>5, <1>6, <1>7

LEMMA TypedClient ==
    ASSUME TypeOK, (\E r \in Requests : Begin(r)) \/ GiveUp \/ Timeout \/ Receive
    PROVE  TypeOK'
<1> USE DEF TypeOK, session, sending, ghost, Tasks
<1>1. CASE \E r \in Requests : Begin(r)
  <2>1. client' \in Clients
    BY <1>1 DEF Begin, Clients
  <2> QED
    BY <1>1, <2>1 DEF Begin
<1>2. CASE GiveUp
  BY <1>2 DEF GiveUp, Clients
<1>3. CASE Timeout
  BY <1>3 DEF Timeout, Clients
<1>4. CASE Receive
  <2>1. Head(air) \in Notes /\ Tail(air) \in Seq(Notes)
    BY <1>4 DEF Receive
  <2>2. Head(air).key \in Keys \cup {NONE}
    BY <2>1 DEF Notes
  <2> QED
    BY <1>4, <2>1, <2>2 DEF Receive, Clients
<1> QED
  BY <1>1, <1>2, <1>3, <1>4

LEMMA TypedWrite == ASSUME TypeOK, Write PROVE TypeOK'
<1> DEFINE byte == <<client.request, client.at + 1>>
<1>1. client.request \in Requests /\ client.at + 1 \in Nat
  <2>1. client \in Clients /\ client.request # Nothing
    BY DEF TypeOK, Write
  <2>2. client.request \in Requests /\ client.at \in Nat
    BY <2>1 DEF Clients
  <2> QED
    BY <2>2
<1>2. /\ parser' \in Parsers
      /\ Len(parser'.buf) \in 0..MAX_FRAME_BYTES
  <2>1. parser' = Fed(parser, byte)
    BY DEF Write
  <2>2. byte \in Requests \X Nat
    BY <1>1
  <2> QED
    BY <2>1, <2>2, FedTyped DEF TypeOK
<1>3. client' \in Clients
  <2>1. command(client.request) \in Commands
    BY <1>1 DEF Commands
  <2> QED
    BY <1>1, <2>1 DEF Write, TypeOK, Clients
<1>4. CASE Heard(parser, byte) = Nothing
  BY <1>2, <1>3, <1>4 DEF Write, TypeOK
<1>5. CASE Heard(parser, byte) # Nothing
  <2>1. Heard(parser, byte) = client.request
    BY <1>1, <1>5, HeardIsSent DEF TypeOK
  <2>2. Dispatch(client.request, client.key)
    BY <1>5, <2>1 DEF Write
  <2>3. handshake' \in Sessions
    <3>1. CASE command(client.request) = "U"
      <4>1. PICK k \in Keys : handshake' = [done |-> TRUE, key |-> k, conn |-> connections]
        BY <2>2, <3>1 DEF Dispatch, Handshaken
      <4> QED
        BY <4>1 DEF TypeOK, Sessions
    <3>2. CASE command(client.request) # "U"
      BY <2>2, <3>2 DEF Dispatch, Handshaken, TypeOK
    <3> QED
      BY <3>1, <3>2
  <2>4. out' \in [Tasks -> Seq(Notes)]
    <3>1. Answer(command(client.request), handshake'.key) \in Seq(Notes)
      <4>1. handshake'.key \in Keys \cup {NONE}
        BY <2>3 DEF Sessions
      <4>2. command(client.request) \in Commands
        BY <1>1 DEF Commands
      <4> QED
        BY <4>1, <4>2, AnswerTyped
    <3> QED
      BY <2>2, <3>1 DEF Dispatch, TypeOK
  <2>5. /\ pc' \in [Tasks -> Places] /\ misread' \in BOOLEAN
        /\ \A t \in Tasks : pc'[t] = "notify" => t # "host" /\ pc[t] = "notify"
    BY <2>2 DEF Dispatch, Goto, TypeOK, Places
  <2>6. \A t \in Tasks : pc'[t] = "notify" => out'[t] # <<>>
    BY <2>2, <2>5 DEF Dispatch, TypeOK
  <2> QED
    BY <1>2, <1>3, <2>3, <2>4, <2>5, <2>6 DEF Write, TypeOK
<1> QED
  BY <1>4, <1>5

LEMMA TypedSend ==
    ASSUME TypeOK,
           PushStatus \/ \E t \in {"host", "push"} : Snapshot(t) \/ Notify(t) \/ Sent(t)
    PROVE  TypeOK'
<1> USE DEF TypeOK, session, sending, ghost, Move, At, Goto, Places
<1>1. CASE PushStatus
  <2>1. Answer("X", NONE) \in Seq(Notes)
    BY AnswerTyped
  <2> QED
    BY <1>1, <2>1 DEF PushStatus
<1>2. CASE \E t \in {"host", "push"} : Snapshot(t)
  <2>1. PICK t \in Tasks : Snapshot(t)
    BY <1>2 DEF Tasks
  <2>2. Tail(out[t]) \in Seq(Notes)
    BY <2>1 DEF Snapshot
  <2>3. out' \in [Tasks -> Seq(Notes)]
    BY <2>1, <2>2 DEF Snapshot
  <2> QED
    BY <2>1, <2>3, HandleTypes DEF Snapshot
<1>3. CASE \E t \in {"host", "push"} : Notify(t)
  <2>1. PICK t \in Tasks : Notify(t)
    BY <1>3 DEF Tasks
  <2>2. Head(out[t]) \in Notes /\ Tail(out[t]) \in Seq(Notes)
    BY <2>1 DEF Notify
  <2>3. air' \in Seq(Notes)
    <3>1. air' = air \/ air' = Append(air, Head(out[t]))
      BY <2>1 DEF Notify
    <3>2. PICK note : note = Head(out[t])
      OBVIOUS
    <3>3. note \in Notes
      BY <2>2, <3>2
    <3>4. air \in Seq(Notes)
      OBVIOUS
    <3>5. Append(air, note) \in Seq(Notes)
      BY ONLY <3>3, <3>4
    <3> QED
      BY ONLY <3>1, <3>2, <3>4, <3>5
  <2>4. out' \in [Tasks -> Seq(Notes)]
    BY <2>1, <2>2 DEF Notify
  <2>5. /\ pc' \in [Tasks -> Places]
        /\ \A u \in Tasks : pc'[u] = "notify" => out'[u] # <<>>
    BY <2>1 DEF Notify
  <2>6. snapshot' \in [Tasks -> Handles]
    BY <2>1, HandleTypes DEF Notify
  <2>7. strays' \in Nat
    BY <2>1 DEF Notify
  <2> QED
    BY <2>1, <2>3, <2>4, <2>5, <2>6, <2>7 DEF Notify
<1>4. CASE \E t \in {"host", "push"} : Sent(t)
  <2>1. PICK t \in Tasks : Sent(t)
    BY <1>4 DEF Tasks
  <2> QED
    BY <2>1 DEF Sent
<1> QED
  BY <1>1, <1>2, <1>3, <1>4

-----------------------------------------------------------------------------
LEMMA TypedStep == ASSUME TypeOK, [Next]_vars PROVE TypeOK'
<1>1. CASE UNCHANGED vars
  BY <1>1 DEF vars, session, sending, ghost, TypeOK
<1> QED
  BY <1>1, TypedLink, TypedClient, TypedWrite, TypedSend DEF Next

(* Every variable keeps its type, and nivona_frame_feed never writes past  *)
(* the end of s_buf.                                                       *)
THEOREM TypeCorrect == Spec => []TypeOK
<1>1. TypeOK /\ [Next]_vars => TypeOK'
  BY TypedStep
<1> QED
  BY <1>1, TypedInit, PTL DEF Spec

-----------------------------------------------------------------------------
(* THE SAFETY INVARIANTS.                                                  *)

OnlyStatus(s) == \A i \in 1..Len(s) : s[i].cmd = "X"

(* What the proofs below need of the types.                                *)
Shapes ==
    /\ peer \in Nat /\ connections \in Nat
    /\ link \in [conn : Nat, subscribed : BOOLEAN]
    /\ pc \in [Tasks -> Places]
    /\ snapshot \in [Tasks -> Nat]
    /\ out \in [Tasks -> Seq(Notes)] /\ air \in Seq(Notes)
    /\ \A t \in Tasks : pc[t] = "notify" => out[t] # <<>>
    /\ strays \in Nat

LEMMA ShapesFromTypes == TypeOK => Shapes
<1> SUFFICES ASSUME TypeOK PROVE Shapes
  OBVIOUS
<1>1. /\ peer \in Nat /\ connections \in Nat
      /\ link \in [conn : Nat, subscribed : BOOLEAN]
  <2>1. /\ peer \in Handles /\ connections \in 0..MaxConnections
        /\ link \in [conn : Handles, subscribed : BOOLEAN]
    BY DEF TypeOK
  <2>2. peer \in Nat /\ link.conn \in Nat
    BY <2>1, HandleTypes
  <2>3. connections \in Nat
    BY <2>1, HandleTypes
  <2>4. link \in [conn : Nat, subscribed : BOOLEAN]
    BY <2>1, <2>2
  <2> QED
    BY <2>2, <2>3, <2>4
<1>2. snapshot \in [Tasks -> Nat]
  <2>1. snapshot \in [Tasks -> Handles]
    BY DEF TypeOK
  <2> QED
    BY <2>1, HandleTypes
<1> QED
  BY <1>1, <1>2 DEF TypeOK, Shapes

(* The connection that is up is the one the machine knows of; without one  *)
(* there is no client.                                                     *)
OneConnection ==
    /\ peer # NONE => link.conn = peer
    /\ peer = NONE => air = <<>> /\ ~asked /\ strays = 0 /\ client = NewClient
    /\ pc["host"] = "reset" => peer = NONE

(* What the client asked for is what the machine noted.  The host task     *)
(* reads of it only for this connection; another task may have read it for *)
(* the connection before, and then that client has had nothing yet.        *)
Asked ==
    /\ peer # NONE /\ link.subscribed => asked
    /\ \A t \in Tasks : pc[t] = "notify" => snapshot[t] # NONE
    /\ pc["host"] = "notify" /\ peer # NONE => asked
    /\ pc["push"] = "notify" /\ ~asked => strays = 0
    /\ pc["console"] # "notify"
    /\ OnlyStatus(out["push"])
    /\ OnlySubscribers

(* A session ends with its connection, at the latest in the reset.         *)
OwnSession ==
    handshake.done /\ pc["host"] # "reset" =>
        handshake.conn = connections /\ link.conn # NONE

Links == OneConnection /\ Asked /\ OwnSession

-----------------------------------------------------------------------------
LEMMA LinksInit == Init => Links
<1> SUFFICES ASSUME Init PROVE Links
  OBVIOUS
<1>1. OneConnection
  BY DEF Init, OneConnection, NONE
<1>2. Asked
  BY DEF Init, Asked, OnlySubscribers, OnlyStatus, Tasks
<1>3. OwnSession
  BY DEF Init, OwnSession, NoHandshake
<1> QED
  BY <1>1, <1>2, <1>3 DEF Links

(* Only a client of a connection asks for something.                       *)
LEMMA ClientIsConnected ==
    ASSUME OneConnection, client.request # Nothing PROVE peer # NONE
<1>1. NewClient.request = Nothing
  BY DEF NewClient
<1> QED
  BY <1>1 DEF OneConnection

LEMMA OneConnectionStep ==
    ASSUME Shapes, OneConnection, Asked, [Next]_vars
    PROVE  OneConnection'
<1> USE DEF Shapes, OneConnection, session, sending, ghost, Move, At, Goto, Tasks, NONE
<1>1. CASE \E t \in {"host", "console"} : AdvStop(t) \/ AdvStart(t)
  <2>1. PICK t \in Tasks : pc' = [pc EXCEPT ![t] = "adv_start"]
                            \/ pc' = [pc EXCEPT ![t] = "idle"]
    BY <1>1 DEF AdvStop, AdvStart
  <2>2. pc'["host"] = "reset" => pc["host"] = "reset"
    BY <2>1
  <2>3. UNCHANGED <<peer, connections, link, snapshot, air, asked, strays, client>>
    BY <1>1 DEF AdvStop, AdvStart
  <2> QED
    BY <2>2, <2>3
<1>2. CASE Pair \/ ConnectFails
  BY <1>2 DEF Pair, ConnectFails
<1>3. CASE Connect
  <2>1. /\ peer' # NONE /\ link'.conn = peer'
        /\ pc["host"] = "idle" /\ pc' = pc
    BY <1>3, LinkAssumption DEF Connect, Incoming, Linked
  <2> QED
    BY <2>1
<1>4. CASE LinkDown
  BY <1>4 DEF LinkDown
<1>5. CASE OnDisconnect
  BY <1>5 DEF OnDisconnect, Linked
<1>6. CASE FrameReset
  BY <1>6 DEF FrameReset
<1>7. CASE Subscribe
  BY <1>7 DEF Subscribe
<1>8. CASE \E r \in Requests : Begin(r)
  BY <1>8 DEF Begin
<1>9. CASE GiveUp \/ Timeout
  <2>1. NewClient.at = 0 /\ NewClient.awaits = ""
    BY DEF NewClient
  <2>2. client.at # 0 \/ client.awaits # ""
    <3>1. GiveUp => client.at # 0
      BY DEF GiveUp
    <3> QED
      BY <1>9, <3>1 DEF Timeout
  <2>3. client # NewClient
    BY <2>1, <2>2
  <2>4. peer # NONE
    BY <2>3
  <2> QED
    BY <1>9, <2>4 DEF GiveUp, Timeout
<1>10. CASE Receive
  <2>1. peer # NONE
    BY <1>10 DEF Receive
  <2> QED
    BY <1>10, <2>1 DEF Receive
<1>11. CASE Write
  <2>1. peer # NONE
    BY <1>11, ClientIsConnected DEF Write
  <2>2. pc' = pc \/ pc' = [pc EXCEPT !["host"] = "send"]
    BY <1>11 DEF Write, Dispatch
  <2> QED
    BY <1>11, <2>1, <2>2 DEF Write
<1>12. CASE PushStatus
  BY <1>12 DEF PushStatus
<1>13. CASE \E t \in {"host", "push"} : Snapshot(t)
  BY <1>13 DEF Snapshot
<1>14. CASE \E t \in {"host", "push"} : Notify(t)
  <2>1. PICK t \in {"host", "push"} : Notify(t)
    BY <1>14
  <2>2. snapshot' = [snapshot EXCEPT ![t] = NONE] /\ pc' = [pc EXCEPT ![t] = "send"]
    BY <2>1 DEF Notify
  <2>3. peer = NONE => air' = air /\ strays' = strays
    BY <2>1 DEF Notify, Asked
  <2> QED
    BY <2>1, <2>2, <2>3 DEF Notify
<1>15. CASE \E t \in {"host", "push"} : Sent(t)
  BY <1>15 DEF Sent
<1>16. CASE UNCHANGED vars
  BY <1>16 DEF vars
<1> QED
  BY <1>1, <1>2, <1>3, <1>4, <1>5, <1>6, <1>7, <1>8, <1>9, <1>10, <1>11, <1>12,
     <1>13, <1>14, <1>15, <1>16 DEF Next

LEMMA TailIsStatus ==
    ASSUME NEW s \in Seq(Notes), s # <<>>, OnlyStatus(s)
    PROVE  Head(s).cmd = "X" /\ OnlyStatus(Tail(s))
<1>1. /\ Len(s) \in Nat /\ Len(s) >= 1 /\ Head(s) = s[1]
      /\ Len(Tail(s)) = Len(s) - 1
      /\ \A i \in 1..Len(Tail(s)) : Tail(s)[i] = s[i + 1]
  OBVIOUS
<1> QED
  BY <1>1 DEF OnlyStatus

LEMMA AppendIsStatus ==
    ASSUME NEW s \in Seq(Notes), NEW note \in Notes, note.cmd = "X",
           \A i \in DOMAIN s : s[i].cmd = "X",
           NEW u, u = s \/ u = Append(s, note)
    PROVE  \A i \in DOMAIN u : u[i].cmd = "X"
<1>1. CASE u = s
  BY <1>1
<1>2. CASE u = Append(s, note)
  <2>1. /\ Len(s) \in Nat /\ DOMAIN s = 1..Len(s) /\ DOMAIN u = 1..Len(s) + 1
        /\ u[Len(s) + 1] = note /\ \A i \in 1..Len(s) : u[i] = s[i]
    BY <1>2
  <2>2. \A i \in DOMAIN u : i \in DOMAIN s \/ i = Len(s) + 1
    BY <2>1
  <2> QED
    BY <2>1, <2>2
<1> QED
  BY <1>1, <1>2

(* What a task sends to a client that has not asked for it is one status:  *)
(* the one it was sending when the connection before was lost.             *)
LEMMA AskedNotify ==
    ASSUME Shapes, OneConnection, Asked, NEW t \in {"host", "push"}, Notify(t)
    PROVE  Asked'
<1> USE DEF Shapes, Asked, Move, At, Goto, Tasks
<1>1. /\ pc[t] = "notify" /\ pc' = [pc EXCEPT ![t] = "send"]
      /\ snapshot' = [snapshot EXCEPT ![t] = NONE]
      /\ UNCHANGED <<peer, link, asked>>
      /\ out[t] \in Seq(Notes) /\ out[t] # <<>> /\ out' = [out EXCEPT ![t] = Tail(@)]
  BY DEF Notify
<1>2. OnlyStatus(out'["push"])
  BY <1>1, TailIsStatus
<1>3. \/ UNCHANGED <<air, strays>>
      \/ /\ snapshot[t] = peer /\ air' = Append(air, Head(out[t]))
         /\ strays' = IF asked THEN strays ELSE strays + 1
  BY DEF Notify
<1>4. t = "host" => asked \/ UNCHANGED <<air, strays>>
  BY <1>1, <1>3
<1>5. OnlySubscribers'
  <2>1. CASE UNCHANGED <<air, strays>>
    BY <1>1, <2>1 DEF OnlySubscribers
  <2>2. CASE asked
    BY <1>1, <1>3, <2>2 DEF OnlySubscribers
  <2>3. CASE t = "push" /\ ~asked
    <3>1. strays' <= 1
      BY <1>1, <1>3, <2>3 DEF OnlySubscribers
    <3>2. Head(out[t]).cmd = "X"
      BY <1>1, <2>3, TailIsStatus
    <3>3. Head(out[t]) \in Notes
      BY <1>1
    <3>4. \A i \in DOMAIN air : air[i].cmd = "X"
      BY <2>3 DEF OnlySubscribers
    <3>5. \A i \in DOMAIN air' : air'[i].cmd = "X"
      <4>1. air \in Seq(Notes)
        OBVIOUS
      <4> QED
        BY ONLY <1>3, <3>2, <3>3, <3>4, <4>1, AppendIsStatus, Zenon
    <3> QED
      BY <3>1, <3>5 DEF OnlySubscribers
  <2> QED
    BY <1>4, <2>1, <2>2, <2>3
<1>6. /\ \A u \in Tasks : pc'[u] = "notify" => pc[u] = "notify" /\ u # t
      /\ \A u \in Tasks : u # t => snapshot'[u] = snapshot[u]
  BY <1>1
<1>7. pc'["push"] = "notify" /\ ~asked' => strays' = 0
  <2>1. CASE t = "push"
    BY <1>6, <2>1
  <2>2. CASE t = "host"
    BY <1>1, <1>3, <1>4, <1>6, <2>2
  <2> QED
    BY <2>1, <2>2
<1> QED
  BY <1>1, <1>2, <1>5, <1>6, <1>7

LEMMA AskedStep ==
    ASSUME Shapes, OneConnection, Asked, [Next]_vars
    PROVE  Asked'
<1> USE DEF Shapes, Asked, OnlySubscribers, session, sending, ghost, Move, At, Goto, Tasks
<1>1. CASE \E t \in {"host", "console"} : AdvStop(t) \/ AdvStart(t)
  <2>1. PICK t \in Tasks : pc' = [pc EXCEPT ![t] = "adv_start"]
                            \/ pc' = [pc EXCEPT ![t] = "idle"]
    BY <1>1 DEF AdvStop, AdvStart
  <2>2. \A u \in Tasks : pc'[u] = "notify" => pc[u] = "notify"
    BY <2>1
  <2>3. UNCHANGED <<peer, link, snapshot, out, air, asked, strays>>
    BY <1>1 DEF AdvStop, AdvStart
  <2> QED
    BY <2>2, <2>3
<1>2. CASE Pair \/ ConnectFails
  BY <1>2 DEF Pair, ConnectFails
<1>3. CASE Connect
  <2>1. /\ peer = NONE /\ ~link'.subscribed /\ pc["host"] = "idle"
        /\ UNCHANGED <<snapshot, pc, out, air, asked, strays>>
    BY <1>3 DEF Connect, Incoming, Linked
  <2> QED
    BY <2>1 DEF OneConnection
<1>4. CASE LinkDown
  <2>1. /\ peer' = NONE /\ air' = <<>> /\ strays' = 0
        /\ UNCHANGED <<snapshot, pc, out, link>>
    BY <1>4 DEF LinkDown
  <2> QED
    BY <2>1
<1>5. CASE OnDisconnect
  BY <1>5 DEF OnDisconnect, Linked
<1>6. CASE FrameReset
  BY <1>6 DEF FrameReset
<1>7. CASE Subscribe
  BY <1>7 DEF Subscribe
<1>8. CASE (\E r \in Requests : Begin(r)) \/ GiveUp \/ Timeout
  BY <1>8 DEF Begin, GiveUp, Timeout
<1>9. CASE Receive
  <2>1. /\ Len(air') = Len(air) - 1 /\ Len(air) \in Nat
        /\ \A i \in 1..Len(air') : air'[i] = air[i + 1]
    BY <1>9 DEF Receive
  <2>2. ~asked' => \A i \in DOMAIN air' : air'[i].cmd = "X"
    <3> SUFFICES ASSUME ~asked, NEW i \in DOMAIN air' PROVE air'[i].cmd = "X"
      BY <1>9 DEF Receive
    <3>1. air' \in Seq(Notes)
      BY <1>9 DEF Receive
    <3>2. i \in 1..Len(air') /\ i + 1 \in DOMAIN air
      BY <2>1, <3>1
    <3> QED
      BY <2>1, <3>2
  <2>3. UNCHANGED <<peer, link, snapshot, pc, out, asked, strays>>
    BY <1>9 DEF Receive
  <2> QED
    BY <2>2, <2>3
<1>10. CASE Write
  <2>1. pc' = pc \/ pc' = [pc EXCEPT !["host"] = "send"]
    BY <1>10 DEF Write, Dispatch
  <2>2. out'["push"] = out["push"]
    BY <1>10 DEF Write, Dispatch
  <2>3. UNCHANGED <<peer, link, snapshot, air, asked, strays>>
    BY <1>10 DEF Write
  <2> QED
    BY <2>1, <2>2, <2>3
<1>11. CASE PushStatus
  <2>1. Answer("X", NONE)[1].cmd = "X" /\ Len(Answer("X", NONE)) = 1
    BY DEF Answer, Parts
  <2>2. OnlyStatus(out'["push"])
    BY <1>11, <2>1 DEF PushStatus, OnlyStatus
  <2> QED
    BY <1>11, <2>2 DEF PushStatus
<1>12. CASE \E t \in {"host", "push"} : Snapshot(t)
  <2>1. PICK t \in {"host", "push"} : Snapshot(t)
    BY <1>12
  <2>2. /\ pc'[t] = "notify" => snapshot'[t] # NONE /\ (peer # NONE => asked)
        /\ \A u \in Tasks : u # t => pc'[u] = pc[u] /\ snapshot'[u] = snapshot[u]
    BY <2>1 DEF Snapshot
  <2>3. UNCHANGED <<peer, link, air, asked, strays>>
    BY <2>1 DEF Snapshot
  <2>4. OnlyStatus(out'["push"])
    <3>1. out[t] \in Seq(Notes) /\ out[t] # <<>>
      BY <2>1 DEF Snapshot
    <3>2. out' = out \/ out' = [out EXCEPT ![t] = Tail(@)]
      BY <2>1 DEF Snapshot
    <3> QED
      BY <3>1, <3>2, TailIsStatus
  <2>5. peer = NONE => strays = 0
    BY DEF OneConnection
  <2> QED
    BY <2>2, <2>3, <2>4, <2>5
<1>13. CASE \E t \in {"host", "push"} : Notify(t)
  BY <1>13, AskedNotify
<1>14. CASE \E t \in {"host", "push"} : Sent(t)
  BY <1>14 DEF Sent
<1>15. CASE UNCHANGED vars
  BY <1>15 DEF vars
<1> QED
  BY <1>1, <1>2, <1>3, <1>4, <1>5, <1>6, <1>7, <1>8, <1>9, <1>10, <1>11, <1>12,
     <1>13, <1>14, <1>15 DEF Next

(* A session is made for the connection that is up, and the next one can   *)
(* only come after the reset.                                              *)
LEMMA OwnSessionStep ==
    ASSUME Shapes, OneConnection, OwnSession, [Next]_vars
    PROVE  OwnSession'
<1> USE DEF Shapes, OwnSession, session, sending, ghost, Move, At, Goto, Tasks
<1>1. CASE /\ UNCHANGED <<link, handshake, connections>>
           /\ pc["host"] = "reset" => pc'["host"] = "reset"
  BY <1>1
<1>2. CASE \E t \in {"host", "console"} : AdvStop(t) \/ AdvStart(t)
  BY <1>1, <1>2 DEF AdvStop, AdvStart
<1>3. CASE Pair \/ ConnectFails
  BY <1>1, <1>3 DEF Pair, ConnectFails, Incoming
<1>4. CASE Connect
  BY <1>4 DEF Connect, Incoming
<1>5. CASE LinkDown \/ GiveUp \/ Timeout \/ Receive \/ \E r \in Requests : Begin(r)
  BY <1>1, <1>5 DEF LinkDown, GiveUp, Timeout, Receive, Begin
<1>6. CASE OnDisconnect
  BY <1>6 DEF OnDisconnect
<1>7. CASE FrameReset
  BY <1>7 DEF FrameReset, NoHandshake
<1>8. CASE Subscribe
  BY <1>8 DEF Subscribe
<1>9. CASE Write
  <2>1. link.conn = peer /\ link' = link /\ pc["host"] = "idle" /\ peer # NONE
    BY <1>9, ClientIsConnected DEF Write
  <2>2. \/ handshake' = handshake
        \/ \E k \in Keys : handshake' = [done |-> TRUE, key |-> k, conn |-> connections]
    BY <1>9 DEF Write, Dispatch, Handshaken
  <2>3. connections' = connections /\ (pc'["host"] = "reset" => pc["host"] = "reset")
    <3>1. pc' = pc \/ pc' = [pc EXCEPT !["host"] = "send"]
      BY <1>9 DEF Write, Dispatch
    <3> QED
      BY <1>9, <3>1 DEF Write
  <2> QED
    BY <2>1, <2>2, <2>3
<1>10. CASE PushStatus
  BY <1>1, <1>10 DEF PushStatus
<1>11. CASE \E t \in {"host", "push"} : Snapshot(t)
  BY <1>1, <1>11 DEF Snapshot
<1>12. CASE \E t \in {"host", "push"} : Notify(t) \/ Sent(t)
  BY <1>1, <1>12 DEF Notify, Sent
<1>13. CASE UNCHANGED vars
  BY <1>13 DEF vars
<1> QED
  BY <1>2, <1>3, <1>4, <1>5, <1>6, <1>7, <1>8, <1>9, <1>10, <1>11, <1>12, <1>13
     DEF Next

LEMMA LinksStep == ASSUME TypeOK, Links, [Next]_vars PROVE Links'
  BY ShapesFromTypes, OneConnectionStep, AskedStep, OwnSessionStep DEF Links

(* The machine, the client and the tasks that notify agree on which        *)
(* connection there is, who has asked and whose session it is.             *)
THEOREM LinksHold == Spec => []Links
<1>1. TypeOK /\ Links /\ [Next]_vars => Links'
  BY LinksStep
<1> QED
  BY <1>1, LinksInit, TypeCorrect, PTL DEF Spec

(* A client that connects does not find the session of the one before:     *)
(* when the host task is done with an event, a session belongs to the      *)
(* connection it was made on, even if the one before had the same handle.  *)
THEOREM SessionsAreFresh == Spec => []FreshSession
<1>1. Links => FreshSession
  BY DEF Links, OwnSession, FreshSession, At
<1> QED
  BY <1>1, LinksHold, PTL

(* Whatever handles the controller gives again: although tasks go on in    *)
(* nivona_gatt_notify with a handle the host task has dropped since, a     *)
(* client that has not asked for notifications gets no more than one       *)
(* status, which a task was sending when the connection before was lost,   *)
(* and no answer to an earlier client.                                     *)
THEOREM OnlySubscribersHear == Spec => []OnlySubscribers
<1>1. Links => OnlySubscribers
  BY DEF Links, Asked
<1> QED
  BY <1>1, LinksHold, PTL

-----------------------------------------------------------------------------
(* Advertising is stopped only by those who start it again, and it is      *)
(* started again after every connection that fails or ends: if starting    *)
(* never fails, a machine nobody is connected to can be found.             *)
LEMMA FoundInit == Init => CanBeFound
  BY DEF Init, CanBeFound, Tasks

LEMMA FoundStep ==
    ASSUME StartMayFail = FALSE, Shapes, OneConnection, CanBeFound, [Next]_vars
    PROVE  CanBeFound'
<1> USE DEF Shapes, CanBeFound, session, sending, ghost, Move, At, Goto, Tasks
<1> DEFINE Restarts == \E t \in {"host", "console"} :
                           pc[t] \in {"reset", "adv_stop", "adv_start"}
<1>1. ASSUME UNCHANGED <<peer, link, advertising>>, Restarts => Restarts'
      PROVE  CanBeFound'
  BY <1>1
<1>2. ASSUME NEW t \in {"host", "console"}, AdvStop(t) PROVE CanBeFound'
  BY <1>2 DEF AdvStop
<1>3. ASSUME NEW t \in {"host", "console"}, AdvStart(t) PROVE CanBeFound'
  BY <1>3 DEF AdvStart
<1>4. CASE Pair \/ ConnectFails
  BY <1>4 DEF Pair, ConnectFails
<1>5. CASE Connect
  BY <1>5, LinkAssumption DEF Connect
<1>6. CASE LinkDown
  BY <1>6 DEF LinkDown, OneConnection
<1>7. CASE OnDisconnect
  BY <1>7 DEF OnDisconnect
<1>8. CASE FrameReset
  BY <1>8 DEF FrameReset
<1>9. CASE Subscribe
  BY <1>9 DEF Subscribe
<1>10. CASE GiveUp \/ Timeout \/ Receive \/ \E r \in Requests : Begin(r)
  BY <1>1, <1>10 DEF GiveUp, Timeout, Receive, Begin
<1>11. CASE Write
  <2>1. pc' = pc \/ (pc["host"] = "idle" /\ pc' = [pc EXCEPT !["host"] = "send"])
    BY <1>11 DEF Write, Dispatch
  <2>2. UNCHANGED <<peer, link, advertising>>
    BY <1>11 DEF Write
  <2> QED
    BY <1>1, <2>1, <2>2
<1>12. CASE PushStatus
  BY <1>1, <1>12 DEF PushStatus
<1>13. ASSUME NEW t \in {"host", "push"}, Snapshot(t) \/ Notify(t) \/ Sent(t)
       PROVE  CanBeFound'
  <2>1. \E to \in Places : pc[t] \in {"send", "notify"} /\ pc' = [pc EXCEPT ![t] = to]
    BY <1>13 DEF Snapshot, Notify, Sent, Places
  <2>2. UNCHANGED <<peer, link, advertising>>
    BY <1>13 DEF Snapshot, Notify, Sent
  <2> QED
    BY <1>1, <2>1, <2>2
<1>14. CASE UNCHANGED vars
  BY <1>14 DEF vars
<1> QED
  BY <1>2, <1>3, <1>4, <1>5, <1>6, <1>7, <1>8, <1>9, <1>10, <1>11, <1>12, <1>13,
     <1>14 DEF Next

(* With nobody connected and nobody about to restart it, the machine       *)
(* advertises, whatever the console and the link do to one another.        *)
THEOREM MachineIsFound ==
    ASSUME StartMayFail = FALSE
    PROVE  Spec => []CanBeFound
<1>1. TypeOK /\ Links /\ CanBeFound /\ [Next]_vars => CanBeFound'
  BY ShapesFromTypes, FoundStep DEF Links
<1> QED
  BY <1>1, FoundInit, TypeCorrect, LinksHold, PTL DEF Spec

-----------------------------------------------------------------------------
(* THE SESSION.  A client that waits for its answers is understood: its    *)
(* key and the machine's may differ only while the answer to its handshake *)
(* is under way, and then it asks for nothing.                             *)

NoKey(notes)   == \A i \in 1..Len(notes) : notes[i].cmd # "U"
OneKey(notes)  == \A i, j \in 1..Len(notes) :
                    notes[i].cmd = "U" /\ notes[j].cmd = "U" => i = j
TheKey(note)   == note.last /\ handshake.done /\ note.key = handshake.key
TrueKey(notes) == \A i \in 1..Len(notes) : notes[i].cmd = "U" => TheKey(notes[i])

(* The host task sends one answer at a time, others only push the status.  *)
Answers ==
    /\ pc["host"] \notin {"send", "notify"} => out["host"] = <<>>
    /\ NoKey(out["push"])
    /\ NoKey(out["host"]) \/ Len(out["host"]) = 1
    /\ TrueKey(out["host"])

(* At most one key is under way, the one of the session, to a client that  *)
(* waits for it; in all other states the client holds that key or none.    *)
KeyAgreed ==
    /\ NoKey(air) \/ NoKey(out["host"])
    /\ OneKey(air) /\ TrueKey(air)
    /\ client.awaits # "U" =>
         /\ NoKey(air) /\ NoKey(out["host"])
         /\ client.key # NONE => handshake.done /\ client.key = handshake.key
    /\ client.request # Nothing =>
         client.awaits = "" /\ (command(client.request) = "U" \/ client.key # NONE)

Agreement ==
    /\ Answers
    /\ peer # NONE /\ ~client.retried => KeyAgreed
    /\ Understood

-----------------------------------------------------------------------------
(* Sequences of notifications.                                             *)

LEMMA TailNotes ==
    ASSUME NEW s \in Seq(Notes), s # <<>>
    PROVE  /\ Tail(s) \in Seq(Notes) /\ Len(Tail(s)) = Len(s) - 1
           /\ \A i \in 1..Len(Tail(s)) : i + 1 \in 1..Len(s) /\ Tail(s)[i] = s[i + 1]
  OBVIOUS

LEMMA AppendNotes ==
    ASSUME NEW s \in Seq(Notes), NEW n \in Notes
    PROVE  /\ Append(s, n) \in Seq(Notes) /\ Len(Append(s, n)) = Len(s) + 1
           /\ \A i \in 1..Len(s) : Append(s, n)[i] = s[i]
           /\ Append(s, n)[Len(s) + 1] = n
  OBVIOUS

(* What holds of all notes holds when the first is gone.                   *)
LEMMA TailKeeps ==
    ASSUME NEW s \in Seq(Notes), s # <<>>
    PROVE  /\ NoKey(s) => NoKey(Tail(s))
           /\ OneKey(s) => OneKey(Tail(s))
           /\ TrueKey(s) => TrueKey(Tail(s))
           /\ OneKey(s) /\ Head(s).cmd = "U" => NoKey(Tail(s))
           /\ Len(s) = 1 => NoKey(Tail(s))
<1> DEFINE u == Tail(s)
<1>1. /\ Len(u) = Len(s) - 1 /\ Len(s) \in Nat
      /\ \A i \in 1..Len(u) : i + 1 \in 1..Len(s) /\ u[i] = s[i + 1]
  BY TailNotes
<1>2. Head(s) = s[1] /\ 1 \in 1..Len(s)
  OBVIOUS
<1> HIDE DEF u
<1>3. NoKey(s) => NoKey(u)
  <2> SUFFICES ASSUME NoKey(s), NEW i \in 1..Len(u) PROVE u[i].cmd # "U"
    BY DEF NoKey
  <2> QED
    BY <1>1 DEF NoKey
<1>4. OneKey(s) => OneKey(u)
  <2> SUFFICES ASSUME OneKey(s), NEW i \in 1..Len(u), NEW j \in 1..Len(u),
                      u[i].cmd = "U", u[j].cmd = "U"
               PROVE  i = j
    BY DEF OneKey
  <2>1. i + 1 \in 1..Len(s) /\ j + 1 \in 1..Len(s)
    BY <1>1
  <2>2. s[i + 1].cmd = "U" /\ s[j + 1].cmd = "U"
    BY <1>1
  <2>3. i + 1 = j + 1
    BY <2>1, <2>2 DEF OneKey
  <2> QED
    BY <2>3
<1>5. TrueKey(s) => TrueKey(u)
  BY <1>1 DEF TrueKey
<1>6. OneKey(s) /\ Head(s).cmd = "U" => NoKey(u)
  BY <1>1, <1>2 DEF OneKey, NoKey
<1>7. Len(s) = 1 => NoKey(u)
  BY <1>1 DEF NoKey
<1> QED
  BY <1>3, <1>4, <1>5, <1>6, <1>7 DEF u

(* ... and of all notes and one more when it holds of that one.            *)
LEMMA AppendKeeps ==
    ASSUME NEW s \in Seq(Notes), NEW n \in Notes
    PROVE  /\ NoKey(s) /\ n.cmd # "U" => NoKey(Append(s, n))
           /\ OneKey(s) /\ n.cmd # "U" => OneKey(Append(s, n))
           /\ NoKey(s) => OneKey(Append(s, n))
           /\ TrueKey(s) /\ (n.cmd = "U" => TheKey(n)) => TrueKey(Append(s, n))
<1> DEFINE u == Append(s, n)
<1>1. /\ Len(u) = Len(s) + 1 /\ Len(s) \in Nat /\ u[Len(s) + 1] = n
      /\ \A i \in 1..Len(s) : u[i] = s[i]
  BY AppendNotes
<1> HIDE DEF u
<1>2. \A i \in 1..Len(u) : i \in 1..Len(s) \/ i = Len(s) + 1
  BY <1>1
<1>3. NoKey(s) /\ n.cmd # "U" => NoKey(u)
  BY <1>1, <1>2 DEF NoKey
<1>4. OneKey(s) /\ n.cmd # "U" => OneKey(u)
  BY <1>1, <1>2 DEF OneKey
<1>5. NoKey(s) => OneKey(u)
  BY <1>1, <1>2 DEF OneKey, NoKey
<1>6. TrueKey(s) /\ (n.cmd = "U" => TheKey(n)) => TrueKey(u)
  BY <1>1, <1>2 DEF TrueKey
<1> QED
  BY <1>3, <1>4, <1>5, <1>6 DEF u

LEMMA NoNotes == NoKey(<<>>) /\ OneKey(<<>>) /\ TrueKey(<<>>)
  BY DEF NoKey, OneKey, TrueKey

(* The answer to a handshake is one notification, with the key it made.    *)
LEMMA AnswerKeys ==
    ASSUME NEW c, NEW key
    PROVE  /\ c # "U" => NoKey(Answer(c, key))
           /\ c = "U" => /\ Len(Answer(c, key)) = 1
                         /\ Answer(c, key)[1].key = key /\ Answer(c, key)[1].last
<1>1. Parts(c) \in Nat /\ (c = "U" => Parts(c) = 1)
  BY DEF Parts
<1>2. Len(Answer(c, key)) = Parts(c)
  BY <1>1 DEF Answer
<1>3. \A i \in 1..Parts(c) :
        Answer(c, key)[i] = [cmd |-> c, key |-> key, last |-> i = Parts(c)]
  BY <1>1 DEF Answer
<1>4. \A i \in 1..Parts(c) : /\ Answer(c, key)[i].cmd = c
                             /\ Answer(c, key)[i].key = key
                             /\ Answer(c, key)[i].last = (i = Parts(c))
  <2> SUFFICES ASSUME NEW i \in 1..Parts(c)
               PROVE  /\ Answer(c, key)[i].cmd = c /\ Answer(c, key)[i].key = key
                      /\ Answer(c, key)[i].last = (i = Parts(c))
    OBVIOUS
  <2> DEFINE b == (i = Parts(c))
  <2>1. Answer(c, key)[i] = [cmd |-> c, key |-> key, last |-> b]
    BY <1>3
  <2> HIDE DEF b
  <2>2. /\ Answer(c, key)[i].cmd = c /\ Answer(c, key)[i].key = key
        /\ Answer(c, key)[i].last = b
    BY <2>1
  <2> QED
    BY <2>2 DEF b
<1>5. c # "U" => NoKey(Answer(c, key))
  BY <1>2, <1>4 DEF NoKey
<1>6. c = "U" => 1 \in 1..Parts(c) /\ 1 = Parts(c)
  BY <1>1
<1> QED
  BY <1>1, <1>2, <1>4, <1>5, <1>6

-----------------------------------------------------------------------------
LEMMA AgreementInit == Init => Agreement
<1> SUFFICES ASSUME Init PROVE Agreement
  OBVIOUS
<1>1. out["host"] = <<>> /\ out["push"] = <<>> /\ peer = NONE /\ ~misread
  BY DEF Init, Tasks
<1> QED
  BY <1>1, NoNotes DEF Agreement, Answers, Understood

(* The steps that leave keys, notes and the client as they are.            *)
LEMMA AgreementQuiet ==
    ASSUME Agreement, UNCHANGED <<out, handshake, air, client, misread>>,
           peer' = peer \/ peer' = NONE,
           pc["host"] \in {"send", "notify"} => pc'["host"] \in {"send", "notify"}
    PROVE  Agreement'
<1>1. Answers'
  BY DEF Agreement, Answers, NoKey, TrueKey, TheKey
<1>2. KeyAgreed => KeyAgreed'
  BY DEF KeyAgreed, NoKey, OneKey, TrueKey, TheKey
<1>3. Understood'
  BY DEF Agreement, Understood
<1> QED
  BY <1>1, <1>2, <1>3 DEF Agreement

LEMMA AgreementLink ==
    ASSUME Shapes, OneConnection, Agreement,
           \/ \E t \in {"host", "console"} : AdvStop(t) \/ AdvStart(t)
           \/ Pair \/ Connect \/ ConnectFails \/ LinkDown \/ OnDisconnect
           \/ FrameReset \/ Subscribe
    PROVE  Agreement'
<1> USE DEF Shapes, session, sending, ghost, Move, At, Goto, Tasks
<1>1. CASE \E t \in {"host", "console"} : AdvStop(t) \/ AdvStart(t)
  <2>1. PICK t \in {"host", "console"} :
           /\ pc[t] \in {"adv_stop", "adv_start"}
           /\ \E to \in Places : pc' = [pc EXCEPT ![t] = to]
    BY <1>1 DEF AdvStop, AdvStart, Places
  <2>2. pc["host"] \in {"send", "notify"} => pc'["host"] \in {"send", "notify"}
    BY <2>1
  <2>3. UNCHANGED <<peer, out, handshake, air, client, misread>>
    BY <1>1 DEF AdvStop, AdvStart
  <2> QED
    BY <2>2, <2>3, AgreementQuiet
<1>2. CASE Pair \/ ConnectFails
  <2>1. pc["host"] \in {"send", "notify"} => pc'["host"] \in {"send", "notify"}
    BY <1>2 DEF Pair, ConnectFails, Incoming
  <2>2. UNCHANGED <<peer, out, handshake, air, client, misread>>
    BY <1>2 DEF Pair, ConnectFails
  <2> QED
    BY <2>1, <2>2, AgreementQuiet
<1>3. CASE OnDisconnect \/ Subscribe
  <2>1. pc["host"] \in {"send", "notify"} => pc'["host"] \in {"send", "notify"}
    BY <1>3 DEF OnDisconnect, Subscribe
  <2>2. UNCHANGED <<peer, out, handshake, air, client, misread>>
    BY <1>3 DEF OnDisconnect, Subscribe
  <2> QED
    BY <2>1, <2>2, AgreementQuiet
<1>4. CASE Connect
  <2>1. /\ peer = NONE /\ pc' = pc /\ pc["host"] = "idle"
        /\ UNCHANGED <<out, handshake, air, client, misread>>
    BY <1>4 DEF Connect, Incoming
  <2>2. out["host"] = <<>>
    BY <2>1 DEF Agreement, Answers
  <2>3. air = <<>> /\ client = NewClient
    BY <2>1 DEF OneConnection
  <2>4. client.key = NONE /\ client.request = Nothing
    BY <2>3 DEF NewClient
  <2>5. KeyAgreed
    BY <2>2, <2>3, <2>4, NoNotes DEF KeyAgreed
  <2>6. KeyAgreed'
    BY <2>1, <2>5 DEF KeyAgreed, NoKey, OneKey, TrueKey, TheKey
  <2>7. Answers' /\ Understood'
    BY <2>1 DEF Agreement, Answers, Understood, NoKey, TrueKey, TheKey
  <2> QED
    BY <2>6, <2>7 DEF Agreement
<1>5. CASE LinkDown
  <2>1. peer' = NONE /\ ~misread' /\ UNCHANGED <<out, handshake, pc>>
    BY <1>5 DEF LinkDown
  <2>2. Answers'
    BY <2>1 DEF Agreement, Answers, NoKey, TrueKey, TheKey
  <2> QED
    BY <2>1, <2>2 DEF Agreement, Understood
<1>6. CASE FrameReset
  <2>1. /\ pc["host"] = "reset" /\ pc'["host"] = "adv_stop"
        /\ UNCHANGED <<peer, out, client, misread>>
    BY <1>6 DEF FrameReset
  <2>2. peer' = NONE
    BY <2>1 DEF OneConnection
  <2>3. out["host"] = <<>>
    BY <2>1 DEF Agreement, Answers
  <2>4. Answers'
    BY <2>1, <2>3 DEF Agreement, Answers, NoKey, TrueKey
  <2> QED
    BY <2>1, <2>2, <2>4 DEF Agreement, Understood
<1> QED
  BY <1>1, <1>2, <1>3, <1>4, <1>5, <1>6

(* A client asks for something when it has what it waited for; if it gives *)
(* up waiting, nothing is claimed of it any more.                          *)
LEMMA AgreementClient ==
    ASSUME TypeOK, Agreement,
           (\E r \in Requests : Begin(r)) \/ GiveUp \/ Timeout \/ Receive
    PROVE  Agreement'
<1> USE DEF session, sending, ghost
<1>1. Answers' /\ peer' = peer /\ handshake' = handshake /\ out' = out /\ misread' = misread
  BY DEF Begin, GiveUp, Timeout, Receive, Agreement, Answers, NoKey, TrueKey, TheKey
<1>2. client \in Clients /\ air \in Seq(Notes)
  BY DEF TypeOK
<1>3. CASE \E r \in Requests : Begin(r)
  <2>1. PICK r \in Requests : Begin(r)
    BY <1>3
  <2>2. client' = [client EXCEPT !.request = r] /\ air' = air
    BY <2>1 DEF Begin
  <2>3. /\ client'.key = client.key /\ client'.awaits = client.awaits
        /\ client'.retried = client.retried /\ client'.request = r
    BY <1>2, <2>2 DEF Clients
  <2>4. client.awaits = "" /\ (command(r) = "U" \/ client.key # NONE)
    BY <2>1 DEF Begin
  <2>5. KeyAgreed => KeyAgreed'
    BY <1>1, <2>2, <2>3, <2>4 DEF KeyAgreed, NoKey, OneKey, TrueKey, TheKey
  <2> QED
    BY <1>1, <2>3, <2>5 DEF Agreement, Understood
<1>4. CASE GiveUp
  <2>1. client' = [client EXCEPT !.request = Nothing, !.at = 0] /\ air' = air
    BY <1>4 DEF GiveUp
  <2>2. /\ client'.key = client.key /\ client'.awaits = client.awaits
        /\ client'.retried = client.retried /\ client'.request = Nothing
    BY <1>2, <2>1 DEF Clients
  <2>3. KeyAgreed => KeyAgreed'
    BY <1>1, <2>1, <2>2 DEF KeyAgreed, NoKey, OneKey, TrueKey, TheKey
  <2> QED
    BY <1>1, <2>2, <2>3 DEF Agreement, Understood
<1>5. CASE Timeout
  <2>1. client'.retried
    BY <1>2, <1>5 DEF Timeout, Clients
  <2> QED
    BY <1>1, <2>1 DEF Agreement, Understood
<1>6. CASE Receive
  <2> DEFINE note == Head(air)
  <2>1. /\ air # <<>> /\ air' = Tail(air)
        /\ client' = [client EXCEPT
             !.key    = IF note.cmd = "U" THEN note.key ELSE @,
             !.awaits = IF note.last /\ note.cmd = @ THEN "" ELSE @]
    BY <1>6 DEF Receive
  <2>2. /\ client'.key = IF note.cmd = "U" THEN note.key ELSE client.key
        /\ client'.awaits = IF note.last /\ note.cmd = client.awaits
                             THEN "" ELSE client.awaits
        /\ client'.retried = client.retried /\ client'.request = client.request
    BY <1>2, <2>1 DEF Clients
  <2>3. note = air[1] /\ 1 \in 1..Len(air)
    BY <1>2, <2>1
  <2>4. /\ NoKey(air) => NoKey(air')
        /\ OneKey(air) => OneKey(air')
        /\ TrueKey(air) => TrueKey(air)'
        /\ OneKey(air) /\ note.cmd = "U" => NoKey(air')
    <3>1. TrueKey(air) => TrueKey(Tail(air))
      BY <1>2, <2>1, TailKeeps
    <3>2. TrueKey(Tail(air)) => TrueKey(air)'
      BY <1>1, <2>1 DEF TrueKey, TheKey
    <3> QED
      BY <1>2, <2>1, <3>1, <3>2, TailKeeps
  <2>5. NoKey(out["host"])' <=> NoKey(out["host"])
    BY <1>1 DEF NoKey
  <2> HIDE DEF note
  <2>6. ASSUME KeyAgreed PROVE KeyAgreed'
    <3>1. CASE note.cmd = "U"
      <4>1. ~NoKey(air) /\ TheKey(note)
        BY <2>3, <2>6, <3>1 DEF KeyAgreed, NoKey, TrueKey
      <4>2. client.awaits = "U" /\ NoKey(out["host"])
        BY <2>6, <4>1 DEF KeyAgreed
      <4>3. client'.awaits = "" /\ client'.key = handshake.key /\ handshake.done
        BY <2>2, <3>1, <4>1, <4>2 DEF TheKey
      <4>4. client.request = Nothing
        BY <2>6, <4>2 DEF KeyAgreed
      <4> QED
        BY <1>1, <2>2, <2>4, <2>5, <2>6, <3>1, <4>2, <4>3, <4>4 DEF KeyAgreed
    <3>2. CASE note.cmd # "U"
      <4>1. client'.key = client.key /\ (client'.awaits # "U" => client.awaits # "U")
        BY <2>2, <3>2
      <4>2. client.awaits = "" => client'.awaits = ""
        BY <2>2
      <4> QED
        BY <1>1, <2>2, <2>4, <2>5, <2>6, <4>1, <4>2 DEF KeyAgreed
    <3> QED
      BY <3>1, <3>2
  <2> QED
    BY <1>1, <2>2, <2>6 DEF Agreement, Understood
<1> QED
  BY <1>3, <1>4, <1>5, <1>6

(* A write adds a byte; with the last one the request is heard as it was   *)
(* sent, or not at all.                                                    *)
LEMMA AgreementWrite ==
    ASSUME TypeOK, OneConnection, Agreement, Write
    PROVE  Agreement'
<1> DEFINE r     == client.request
           byte  == <<r, client.at + 1>>
           heard == Heard(parser, byte)
<1> USE DEF ghost
<1>1. /\ client \in Clients /\ parser \in Parsers /\ pc \in [Tasks -> Places]
      /\ out \in [Tasks -> Seq(Notes)] /\ misread \in BOOLEAN
  BY DEF TypeOK
<1>2. /\ r # Nothing /\ r \in Requests /\ client.at + 1 \in Nat
  <2>1. r # Nothing /\ r \in Requests /\ client.at \in Nat
    BY <1>1 DEF Write, Clients
  <2> QED
    BY <2>1
<1>3. peer # NONE /\ peer' = peer /\ air' = air /\ pc["host"] = "idle"
  BY <1>2, ClientIsConnected DEF Write, At
<1>4. out["host"] = <<>>
  BY <1>3 DEF Agreement, Answers
<1>5. heard # Nothing => heard = r /\ client.at + 1 = Len(r)
  BY <1>1, <1>2, HeardIsSent
<1>6. /\ client'.key = client.key /\ client'.retried = client.retried
      /\ \/ client'.request = Nothing /\ client'.awaits = command(r)
         \/ client'.request = r /\ client'.awaits = client.awaits
      /\ client.at + 1 = Len(r) =>
           client'.request = Nothing /\ client'.awaits = command(r)
  BY <1>1 DEF Write, Clients
<1>7. KeyAgreed => /\ NoKey(air) /\ client.awaits = ""
                   /\ client.key # NONE => handshake.done /\ client.key = handshake.key
                   /\ command(r) = "U" \/ client.key # NONE
  BY <1>2 DEF KeyAgreed
<1>8. NoKey(air)' <=> NoKey(air)
  BY <1>3 DEF NoKey
<1>9. NoKey(air) => OneKey(air)' /\ TrueKey(air)'
  BY <1>3 DEF NoKey, OneKey, TrueKey
<1>10. CASE heard = Nothing
  <2>1. UNCHANGED <<handshake, pc, out, misread>>
    BY <1>10 DEF Write
  <2>2. Answers' /\ NoKey(out["host"])'
    BY <1>4, <2>1 DEF Agreement, Answers, NoKey, TrueKey, TheKey
  <2>3. KeyAgreed => KeyAgreed'
    BY <1>6, <1>7, <1>8, <1>9, <2>1, <2>2 DEF KeyAgreed
  <2> QED
    BY <1>3, <1>6, <2>1, <2>2, <2>3 DEF Agreement, Understood
<1>11. CASE heard # Nothing
  <2> DEFINE answer == Answer(command(r), handshake'.key)
  <2>1. Dispatch(r, client.key)
    BY <1>5, <1>11 DEF Write
  <2>2. client'.request = Nothing /\ client'.awaits = command(r)
    BY <1>5, <1>6, <1>11
  <2>3. /\ pc'["host"] = "send"
        /\ out'["host"] = answer /\ out'["push"] = out["push"]
    BY <1>1, <2>1 DEF Dispatch, Goto, Tasks
  <2>4. misread' <=> misread \/ (command(r) # "U" /\ ~Strips(client.key))
    BY <2>1 DEF Dispatch
  <2>5. /\ command(r) # "U" => handshake' = handshake
        /\ command(r) = "U" => handshake'.done
    BY <2>1 DEF Dispatch, Handshaken
  <2>6. NoKey(out["push"])'
    BY <2>3 DEF Agreement, Answers, NoKey
  <2>7. CASE command(r) = "U"
    <3>1. /\ Len(out'["host"]) = 1
          /\ out'["host"][1].key = handshake'.key /\ out'["host"][1].last
      BY <2>3, <2>7, AnswerKeys
    <3>2. TrueKey(out["host"])'
      BY <2>5, <2>7, <3>1 DEF TrueKey, TheKey
    <3>3. Answers'
      BY <2>3, <2>6, <3>1, <3>2 DEF Answers
    <3>4. KeyAgreed => KeyAgreed'
      BY <1>7, <1>8, <1>9, <2>2, <2>7 DEF KeyAgreed
    <3>5. misread' <=> misread
      BY <2>4, <2>7
    <3> QED
      BY <1>3, <1>6, <3>3, <3>4, <3>5 DEF Agreement, Understood
  <2>8. CASE command(r) # "U"
    <3>1. NoKey(answer)
      BY <2>8, AnswerKeys
    <3>2. NoKey(out["host"])' /\ TrueKey(out["host"])'
      BY <2>3, <3>1 DEF NoKey, TrueKey
    <3>3. Answers'
      BY <2>3, <2>6, <3>2 DEF Answers
    <3>4. KeyAgreed => KeyAgreed' /\ Strips(client.key)
      BY <1>6, <1>7, <1>8, <1>9, <2>2, <2>5, <2>8, <3>2 DEF KeyAgreed, Strips
    <3>5. Understood'
      BY <1>3, <1>6, <2>4, <3>4 DEF Agreement, Understood
    <3> QED
      BY <1>3, <1>6, <3>3, <3>4, <3>5 DEF Agreement
  <2> QED
    BY <2>7, <2>8
<1> QED
  BY <1>10, <1>11

(* A notification goes from a task to the air, or is lost on the way.      *)
LEMMA NoteGoes ==
    ASSUME air \in Seq(Notes), out \in [Tasks -> Seq(Notes)], Agreement,
           NEW t \in {"host", "push"}, out[t] # <<>>,
           UNCHANGED <<peer, handshake, client>>, Understood',
           \/ out' = out /\ air' = air
           \/ /\ out' = [out EXCEPT ![t] = Tail(@)]
              /\ air' = air \/ air' = Append(air, Head(out[t])),
           pc'["host"] \in {"send", "notify"} <=> pc["host"] \in {"send", "notify"}
    PROVE  Agreement'
<1> DEFINE s    == out[t]
           note == Head(out[t])
<1>1. s \in Seq(Notes) /\ s # <<>> /\ note \in Notes
      /\ out["host"] \in Seq(Notes) /\ out["push"] \in Seq(Notes)
  BY DEF Tasks
<1>2. CASE out' = out /\ air' = air
  BY <1>2 DEF Agreement, Answers, KeyAgreed, NoKey, OneKey, TrueKey, TheKey
<1>3. CASE /\ out' = [out EXCEPT ![t] = Tail(@)]
           /\ air' = air \/ air' = Append(air, note)
  <2>1. out'[t] = Tail(s) /\ \A u \in Tasks \ {t} : out'[u] = out[u]
    BY <1>3 DEF Tasks
  <2>2. note = s[1] /\ 1 \in 1..Len(s)
    BY <1>1
  <2>3. NoKey(out["push"])'
    BY <1>1, <2>1, TailKeeps DEF Agreement, Answers, Tasks, NoKey
  <2>4. /\ NoKey(out["host"]) => NoKey(out["host"])'
        /\ Len(out["host"]) = 1 => NoKey(out["host"])' \/ Len(out'["host"]) = 1
        /\ TrueKey(out["host"]) => TrueKey(out["host"])'
        /\ out["host"] = <<>> => out'["host"] = <<>>
    <3>1. CASE t = "push"
      <4>1. out'["host"] = out["host"]
        BY <2>1, <3>1 DEF Tasks
      <4> QED
        BY <4>1 DEF NoKey, TrueKey, TheKey
    <3>2. CASE t = "host"
      <4>1. TrueKey(s) => TrueKey(Tail(s))
        BY <1>1, TailKeeps
      <4>2. TrueKey(Tail(s)) => TrueKey(out["host"])'
        BY <2>1, <3>2 DEF TrueKey, TheKey
      <4>3. NoKey(Tail(s)) => NoKey(out["host"])'
        BY <2>1, <3>2 DEF NoKey
      <4> QED
        BY <1>1, <3>2, <4>1, <4>2, <4>3, TailKeeps
    <3> QED
      BY <3>1, <3>2
  <2>5. Answers'
    BY <2>3, <2>4 DEF Agreement, Answers
  <2>6. note.cmd = "U" => t = "host" /\ ~NoKey(out["host"])
    BY <2>2 DEF Agreement, Answers, NoKey
  <2>7. note.cmd = "U" => TheKey(note) /\ NoKey(out["host"])'
    <3>1. note.cmd = "U" => TheKey(note) /\ NoKey(Tail(s))
      BY <1>1, <2>2, <2>6, TailKeeps DEF Agreement, Answers, TrueKey
    <3> QED
      BY <2>1, <2>6, <3>1 DEF NoKey
  <2> HIDE DEF note, s
  <2>8. ASSUME KeyAgreed PROVE KeyAgreed'
    <3> DEFINE heard == Append(air, note)
    <3>1. NoKey(out["host"]) /\ air' = heard => note.cmd # "U"
      BY <2>6
    <3>2. /\ NoKey(air) /\ note.cmd # "U" => NoKey(heard)
          /\ OneKey(air) /\ note.cmd # "U" => OneKey(heard)
          /\ NoKey(air) => OneKey(heard)
          /\ TrueKey(air) => TrueKey(heard)
      BY <1>1, <2>7, AppendKeeps
    <3>3. TrueKey(air) => TrueKey(air)'
      BY <1>3, <3>2 DEF TrueKey, TheKey
    <3>4. note.cmd = "U" => NoKey(air)
      BY <2>6, <2>8 DEF KeyAgreed
    <3>5. OneKey(air)'
      BY <1>3, <2>8, <3>2, <3>4 DEF KeyAgreed, OneKey
    <3>6. NoKey(air) /\ note.cmd # "U" => NoKey(air)'
      BY <1>3, <3>2 DEF NoKey
    <3>7. NoKey(air)' \/ NoKey(out["host"])'
      BY <2>4, <2>7, <2>8, <3>6 DEF KeyAgreed
    <3>8. client.awaits # "U" => NoKey(air)' /\ NoKey(out["host"])'
      BY <2>4, <2>6, <2>8, <3>6 DEF KeyAgreed
    <3> QED
      BY <2>8, <3>3, <3>5, <3>7, <3>8 DEF KeyAgreed
  <2> QED
    BY <2>5, <2>8 DEF Agreement
<1> QED
  BY <1>2, <1>3

(* Notifications go from a task to the air in order, or are lost.          *)
LEMMA AgreementSend ==
    ASSUME TypeOK, Agreement,
           PushStatus \/ \E t \in {"host", "push"} : Snapshot(t) \/ Notify(t) \/ Sent(t)
    PROVE  Agreement'
<1> USE DEF session, ghost, Tasks
<1>1. /\ pc \in [Tasks -> Places] /\ air \in Seq(Notes)
      /\ out \in [Tasks -> Seq(Notes)]
  BY DEF TypeOK
<1>2. UNCHANGED <<peer, handshake, client, misread>>
  BY DEF PushStatus, Snapshot, Notify, Sent
<1>3. Understood'
  BY <1>2 DEF Agreement, Understood
<1>4. CASE PushStatus
  <2>1. /\ pc'["host"] = pc["host"] /\ out'["host"] = out["host"] /\ air' = air
        /\ out'["push"] = Answer("X", NONE)
    BY <1>1, <1>4 DEF PushStatus, Move, Goto
  <2>2. NoKey(out["push"])'
    BY <2>1, AnswerKeys DEF NoKey
  <2>3. Answers'
    BY <1>2, <2>1, <2>2 DEF Agreement, Answers, NoKey, TrueKey, TheKey
  <2>4. KeyAgreed => KeyAgreed'
    BY <1>2, <2>1 DEF KeyAgreed, NoKey, OneKey, TrueKey, TheKey
  <2> QED
    BY <1>2, <1>3, <2>3, <2>4 DEF Agreement
<1>5. CASE \E t \in {"host", "push"} : Sent(t)
  <2>1. PICK t \in {"host", "push"} : Sent(t)
    BY <1>5
  <2>2. /\ pc' = [pc EXCEPT ![t] = "idle"] /\ out[t] = <<>>
        /\ out' = out /\ air' = air
    BY <2>1 DEF Sent, Move, Goto, sending
  <2>3. pc'["host"] \notin {"send", "notify"} => out["host"] = <<>>
    BY <1>1, <2>2 DEF Agreement, Answers
  <2>4. Answers'
    BY <1>2, <2>2, <2>3 DEF Agreement, Answers, NoKey, TrueKey, TheKey
  <2>5. KeyAgreed => KeyAgreed'
    BY <1>2, <2>2 DEF KeyAgreed, NoKey, OneKey, TrueKey, TheKey
  <2> QED
    BY <1>2, <1>3, <2>4, <2>5 DEF Agreement
<1>6. CASE \E t \in {"host", "push"} : Snapshot(t) \/ Notify(t)
  <2>1. PICK t \in {"host", "push"} : Snapshot(t) \/ Notify(t)
    BY <1>6
  <2>2. out[t] # <<>> /\ out[t] \in Seq(Notes)
    BY <1>1, <2>1 DEF TypeOK, Snapshot, Notify, Move, At
  <2>3. \/ out' = out /\ air' = air
        \/ /\ out' = [out EXCEPT ![t] = Tail(@)]
           /\ air' = air \/ air' = Append(air, Head(out[t]))
    BY <2>1 DEF Snapshot, Notify
  <2>4. pc'["host"] \in {"send", "notify"} <=> pc["host"] \in {"send", "notify"}
    BY <1>1, <2>1 DEF Snapshot, Notify, Move, At, Goto
  <2> QED
    BY <1>1, <1>2, <1>3, <2>2, <2>3, <2>4, NoteGoes DEF Agreement
<1> QED
  BY <1>4, <1>5, <1>6

LEMMA AgreementStep ==
    ASSUME TypeOK, Links, Agreement, [Next]_vars
    PROVE  Agreement'
<1>1. CASE UNCHANGED vars
  BY <1>1, AgreementQuiet DEF vars, session, sending, ghost
<1> QED
  BY <1>1, ShapesFromTypes, AgreementLink, AgreementClient, AgreementWrite,
     AgreementSend DEF Next, Links

(* A client that waits for its answers is understood, however its bytes    *)
(* are cut into writes, whatever a brew pushes meanwhile and whichever     *)
(* notifications are lost: no request of its is dispatched with the key of *)
(* the session still in the payload.                                       *)
THEOREM RequestsUnderstood == Spec => []Understood
<1>1. TypeOK /\ Links /\ Agreement /\ [Next]_vars => Agreement'
  BY AgreementStep
<1>2. Agreement => Understood
  BY DEF Agreement
<1> QED
  BY <1>1, <1>2, AgreementInit, TypeCorrect, LinksHold, PTL DEF Spec
=============================================================================
