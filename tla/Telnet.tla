------------------------------- MODULE Telnet -------------------------------
(***************************************************************************)
(* The telnet console (nivona_telnet.c): a listener that lets the newest   *)
(* caller in and the one before out, a task per session, and the log that  *)
(* every task mirrors to the caller in the slot s_client_fd.               *)
(*                                                                         *)
(* Descriptors are lwIP's: a number is free or names an open socket, of    *)
(* telnet or of another service, and a number that was closed is given out *)
(* again.  Callers may go at any time, or stay for ever.  A section under  *)
(* s_mutex is one step; so is every call outside of it.                    *)
(***************************************************************************)
CONSTANTS
    Fds,            (* descriptors of the socket table                     *)
    Sessions,       (* task control blocks a session can get               *)
    NoFd            (* -1                                                  *)

ASSUME TelnetAssumption == NoFd \notin Fds

VARIABLES
    s_client_fd,    (* the session that gets the log, or NoFd              *)
    socket,         (* external: what each descriptor names                *)
    ended,          (* external: recv on it gives 0 or an error            *)
    listener,       (* where listen_task stands                            *)
    cfd, old_fd,    (* its locals                                          *)
    session,        (* where each client_task stands                       *)
    fd              (* its argument                                        *)

sockets  == <<socket, ended>>
listens  == <<listener, cfd, old_fd>>
serves   == <<session, fd>>
telnet   == <<s_client_fd, sockets, listens, serves>>

TelnetInit ==
    /\ s_client_fd = NoFd
    /\ socket = [d \in Fds |-> "free"] /\ ended = [d \in Fds |-> FALSE]
    /\ listener = "accept" /\ cfd = NoFd /\ old_fd = NoFd
    /\ session = [s \in Sessions |-> "dead"]
    /\ fd = [s \in Sessions |-> NoFd]

(* lwIP gives descriptor d to a service, and takes it back.                *)
Opened(d, service) ==
    /\ socket[d] = "free"
    /\ socket' = [socket EXCEPT ![d] = service]
    /\ ended' = [ended EXCEPT ![d] = FALSE]

Closed(d) ==
    /\ socket' = [socket EXCEPT ![d] = "free"]
    /\ ended' = [ended EXCEPT ![d] = FALSE]

-----------------------------------------------------------------------------
(* listen_task: a caller is taken in ...                                   *)
Accept(d) ==
    /\ listener = "accept"
    /\ Opened(d, "telnet")
    /\ listener' = "swap" /\ cfd' = d
    /\ UNCHANGED <<s_client_fd, old_fd, serves>>

(* ... and gets the slot, under the mutex; ...                             *)
Swap ==
    /\ listener = "swap"
    /\ old_fd' = s_client_fd /\ s_client_fd' = cfd
    /\ listener' = "shutdown"
    /\ UNCHANGED <<sockets, cfd, serves>>

(* Mutant: the old session is left to itself.                              *)
Shutdown_Forgotten ==
    /\ listener = "shutdown"
    /\ listener' = "create" /\ old_fd' = NoFd
    /\ UNCHANGED <<s_client_fd, sockets, cfd, serves>>

(* ... the descriptor that had it is shut down, whatever it names by now;  *)
Shutdown ==
    /\ listener = "shutdown"
    /\ ended' = [d \in Fds |->
                    ended[d] \/ (d = old_fd /\ socket[d] # "free")]
    /\ listener' = "create" /\ old_fd' = NoFd
    /\ UNCHANGED <<s_client_fd, socket, cfd, serves>>

(* ... and a task is made for the caller, or not: the socket then stays    *)
(* open, and in the slot, and nobody reads it.                             *)
Create(s) ==
    /\ listener = "create" /\ session[s] = "dead"
    /\ session' = [session EXCEPT ![s] = "recv"]
    /\ fd' = [fd EXCEPT ![s] = cfd]
    /\ listener' = "accept" /\ cfd' = NoFd
    /\ UNCHANGED <<s_client_fd, sockets, old_fd>>

CreateFails ==
    /\ listener = "create"
    /\ listener' = "accept" /\ cfd' = NoFd
    /\ UNCHANGED <<s_client_fd, sockets, old_fd, serves>>

ListenStep ==
    \/ Swap \/ Shutdown \/ CreateFails
    \/ \E s \in Sessions : Create(s)

-----------------------------------------------------------------------------
(* client_task: a line comes in and is executed, ...                       *)
Line(s) ==
    /\ session[s] = "recv" /\ ~ended[fd[s]]
    /\ session' = [session EXCEPT ![s] = "exec"]
    /\ UNCHANGED <<s_client_fd, sockets, listens, fd>>

Executed(s) ==
    /\ session[s] = "exec"
    /\ session' = [session EXCEPT ![s] = "recv"]
    /\ UNCHANGED <<s_client_fd, sockets, listens, fd>>

(* Mutant: recv is asked again after the end of the stream.                *)
Eof_Retries(s) ==
    /\ session[s] = "recv" /\ ended[fd[s]]
    /\ UNCHANGED telnet

(* ... until the caller is gone or was shut down.                          *)
Eof(s) ==
    /\ session[s] = "recv" /\ ended[fd[s]]
    /\ session' = [session EXCEPT ![s] = "cleanup"]
    /\ UNCHANGED <<s_client_fd, sockets, listens, fd>>

GoneWith(s) ==
    /\ session[s] = "cleanup"
    /\ Closed(fd[s])
    /\ session' = [session EXCEPT ![s] = "dead"]
    /\ fd' = [fd EXCEPT ![s] = NoFd]
    /\ UNCHANGED listens

(* Mutant: the descriptor is closed and the slot left as it is.            *)
Cleanup_KeepsSlot(s) == GoneWith(s) /\ UNCHANGED s_client_fd

(* The slot is emptied and the descriptor closed in one section.           *)
Cleanup(s) ==
    /\ GoneWith(s)
    /\ s_client_fd' = IF s_client_fd = fd[s] THEN NoFd ELSE s_client_fd

Serve(s) == Line(s) \/ Executed(s) \/ Eof(s) \/ Cleanup(s)

-----------------------------------------------------------------------------
(* External: the caller at the other end of descriptor d goes.             *)
Hangup(d) ==
    /\ socket[d] = "telnet" /\ ~ended[d]
    /\ ended' = [ended EXCEPT ![d] = TRUE]
    /\ UNCHANGED <<s_client_fd, socket, listens, serves>>

-----------------------------------------------------------------------------
Serving(s) == session[s] # "dead"

TelnetTypeOK ==
    /\ s_client_fd \in Fds \cup {NoFd}
    /\ socket \in [Fds -> {"free", "telnet", "http"}]
    /\ ended \in [Fds -> BOOLEAN]
    /\ listener \in {"accept", "swap", "shutdown", "create"}
    /\ cfd \in Fds \cup {NoFd} /\ old_fd \in Fds \cup {NoFd}
    /\ session \in [Sessions -> {"dead", "recv", "exec", "cleanup"}]
    /\ fd \in [Sessions -> Fds \cup {NoFd}]
    /\ \A s \in Sessions : Serving(s) => fd[s] \in Fds

(* A log line never goes to a stranger: the slot holds an open telnet      *)
(* socket or nothing, although sessions close and lwIP gives the number    *)
(* out again (the comments at telnet_vprintf and client_task).             *)
MirrorIsOurs == s_client_fd # NoFd => socket[s_client_fd] = "telnet"

(* Between two callers there is one console: a session whose caller is     *)
(* still there is the one in the slot.                                     *)
OneConsole ==
    listener = "accept" =>
        \A s \in Sessions :
            Serving(s) /\ ~ended[fd[s]] => s_client_fd = fd[s]

(* A session that was put out ends: its task and its descriptor come back. *)
EvictedEnds ==
    \A s \in Sessions : Serving(s) /\ ended[fd[s]] ~> ~Serving(s)

(* Putting a session out ends that session or nothing: the shutdown never  *)
(* reaches another service's socket that got the number meanwhile.         *)
EvictsOnlyTelnet ==
    [][\A d \in Fds :
            listener = "shutdown" /\ listener' = "create" /\ ended'[d] /\ ~ended[d]
                => socket[d] = "telnet"]_telnet
=============================================================================
