------------------------------ MODULE Network -------------------------------
(***************************************************************************)
(* What the network services share: the station, a table of descriptors,   *)
(* and the life of the machine.  An upload of firmware is an HTTP request  *)
(* on a descriptor of its own, next to the telnet sessions; a restart      *)
(* takes all of them along.  Connections outlive a loss of the Wi-Fi link, *)
(* but none begins without it.                                             *)
(***************************************************************************)
EXTENDS Telnet, Firmware, Wifi

VARIABLE
    http            (* the descriptor of the upload, or NoFd               *)

vars == <<telnet, firmware, wifi, http>>

OnlyTelnet   == UNCHANGED <<firmware, wifi, http>>
OnlyFirmware == UNCHANGED <<telnet, wifi, http>>
OnlyWifi     == UNCHANGED <<telnet, firmware, http>>

Init == TelnetInit /\ FirmwareInit /\ WifiInit /\ http = NoFd

Online == stage = "up" /\ station = "online"

(* The services run once app_main has started them.                        *)
Console ==
    /\ stage = "up"
    /\ \/ \E d \in Fds : (Online /\ Accept(d)) \/ Hangup(d)
       \/ ListenStep
       \/ \E s \in Sessions : Serve(s)
    /\ OnlyTelnet

Station == stage = "up" /\ WifiNext /\ OnlyWifi

(* A client posts an image: the server takes it in and calls ota_post.     *)
Post(d, i) ==
    /\ Online /\ UploadBegin(i)
    /\ Opened(d, "http") /\ http' = d
    /\ UNCHANGED <<s_client_fd, listens, serves, wifi>>

(* The client of the upload goes away, at any byte.                        *)
PostHangup ==
    /\ http # NoFd /\ ~ended[http]
    /\ ended' = [ended EXCEPT ![http] = TRUE]
    /\ UNCHANGED <<s_client_fd, socket, listens, serves, firmware, wifi, http>>

PostChunk == Receive /\ ~ended[http] /\ OnlyFirmware

(* The request is over and the server closes its descriptor, or goes on    *)
(* with what it received.                                                  *)
Answered ==
    IF upload' = "none"
    THEN /\ Closed(http) /\ http' = NoFd
         /\ UNCHANGED <<s_client_fd, listens, serves, wifi>>
    ELSE OnlyFirmware

PostOver ==
    /\ \/ StreamEnds /\ (total = Chunks \/ ended[http])
       \/ UploadAborts \/ OtaEnd \/ SetBoot \/ SetBootFails
    /\ Answered

(* A restart closes every socket and starts the services anew.             *)
StartsAnew ==
    /\ s_client_fd' = NoFd
    /\ socket' = [d \in Fds |-> "free"] /\ ended' = [d \in Fds |-> FALSE]
    /\ listener' = "accept" /\ cfd' = NoFd /\ old_fd' = NoFd
    /\ session' = [s \in Sessions |-> "dead"]
    /\ fd' = [s \in Sessions |-> NoFd]
    /\ http' = NoFd
    /\ WifiStarts

Machine ==
    \/ (Crash \/ Reset \/ Restart) /\ StartsAnew
    \/ MarkValid /\ OnlyFirmware

Next ==
    \/ Console \/ Station
    \/ \E d \in Fds, i \in Images : Post(d, i)
    \/ PostHangup \/ PostChunk \/ PostOver
    \/ Machine

Spec == Init /\ [][Next]_vars

(* Tasks that can run do: the machine boots, the event loop and the timer  *)
(* go on, a session works off its lines and ends when its caller is gone.  *)
(* A try to join ends, one way or the other.  Nobody is obliged to call,   *)
(* to send or to hang up.                                                  *)
Fairness ==
    /\ WF_vars(((Crash \/ Restart) /\ StartsAnew) \/ (MarkValid /\ OnlyFirmware))
    /\ WF_vars(stage = "up" /\ (Handler \/ TimerFires) /\ OnlyWifi)
    /\ WF_vars(stage = "up" /\ (Joins \/ LosesLink) /\ OnlyWifi)
    /\ \A s \in Sessions : WF_vars(stage = "up" /\ Serve(s) /\ OnlyTelnet)

FairSpec == Spec /\ Fairness

TypeOK ==
    /\ TelnetTypeOK /\ FirmwareTypeOK /\ WifiTypeOK
    /\ http \in Fds \cup {NoFd}
    /\ http = NoFd <=> upload = "none"

(* However the link, the images and the power came and went: once the      *)
(* power stays and the access point lets it in, the machine is on the      *)
(* network again and again, however often and with whatever it is updated. *)
BackOnline ==
    <>[][(Reset => Crash \/ Restart) /\ ~LosesLink]_vars
        => []<>Online
=============================================================================
