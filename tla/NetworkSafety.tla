--------------------------- MODULE NetworkSafety ---------------------------
(***************************************************************************)
(* What the network services promise for any number of descriptors,        *)
(* sessions and chunks, and for any images: the log goes to nobody else,   *)
(* one console at a time, and a machine that comes up again whatever is    *)
(* uploaded to it and whenever it is reset.                                *)
(***************************************************************************)
EXTENDS Network, TLAPS

-----------------------------------------------------------------------------
(* Updates.  The slot s holds an image to fall back on: a good one that    *)
(* was marked, or that was there before there were any marks.              *)
Backed(s) ==
    /\ image[s] = "good"
    /\ \/ entry[s] = "valid"
       \/ entry[s] = "none" /\ s = "ota_0" /\ entry[Other(s)] # "valid"

(* The running image was started and is not marked yet.                    *)
Trial ==
    /\ entry[running] = "pending" /\ latest = running
    /\ stage = "early" /\ upload = "none"
    /\ image[running] \in Whole
    /\ Backed(Other(running))

(* The running image is the one to fall back on, and the other slot is     *)
(* selected only when a whole image was written there.                     *)
Settled ==
    /\ Backed(running)
    /\ entry[Other(running)] # "pending"
    /\ latest = running \/ entry[Other(running)] \in {"aborted", "new"}
    /\ stage = "early" => upload = "none"
    /\ upload # "none" => sent \in Images
    /\ upload \in {"set_boot", "restart"} => image[Other(running)] \in Whole
    /\ upload = "restart" <=> entry[Other(running)] = "new"
    /\ upload = "restart" => latest = Other(running)

FirmwareInv == FirmwareTypeOK /\ (Trial \/ Settled)

EntryStates == {"none", "new", "pending", "valid", "aborted"}

LEMMA OtherSlot ==
    ASSUME NEW s \in Slots
    PROVE  /\ Other(s) \in Slots /\ Other(s) # s /\ Other(Other(s)) = s
           /\ \A t \in Slots : t = s \/ t = Other(s)
<1>1. \A u \in Slots : Other(u) \in Slots /\ Other(u) # u
  <2> SUFFICES ASSUME NEW u \in Slots PROVE Other(u) \in Slots /\ Other(u) # u
    OBVIOUS
  <2>1. \E t \in Slots : t # u
    BY DEF Slots
  <2> QED BY <2>1 DEF Other
<1> QED BY <1>1 DEF Slots

(* The boot after a trial that was not passed takes the other slot.        *)
LEMMA BootsBack ==
    ASSUME NEW entries \in [Slots -> EntryStates], NEW s \in Slots,
           entries[s] = "pending", latest = s, image[Other(s)] \in Whole,
           entries[Other(s)] = "valid"
             \/ (entries[Other(s)] = "none" /\ Other(s) = "ota_0")
    PROVE  /\ Loaded(entries) = Other(s)
           /\ Tried(entries) = [entries EXCEPT ![s] = "aborted"]
<1>1. Judged(entries) = [entries EXCEPT ![s] = "aborted"]
  BY OtherSlot DEF Judged
<1>2. Selected(entries) = Other(s)
  BY <1>1, OtherSlot DEF Selected, EntryStates
<1>3. Loaded(entries) = Other(s)
  BY <1>2 DEF Loaded
<1>4. entries[Other(s)] # "new"
  OBVIOUS
<1>5. Tried(entries) = Judged(entries)
  BY <1>1, <1>2, <1>4 DEF Tried
<1> QED BY <1>1, <1>3, <1>5

(* A boot while nothing new is selected takes the running slot.            *)
LEMMA BootsRunning ==
    ASSUME FirmwareTypeOK, Settled, upload # "restart"
    PROVE  Loaded(entry) = running /\ Tried(entry) = entry
<1> DEFINE r == running
           o == Other(running)
<1>1. /\ r \in Slots /\ o \in Slots /\ o # r /\ Other(o) = r
      /\ \A t \in Slots : t = r \/ t = o
  BY OtherSlot DEF FirmwareTypeOK
<1>2. entry[r] \in {"valid", "none"} /\ entry[o] \in {"none", "valid", "aborted"}
  BY <1>1 DEF Settled, Backed, FirmwareTypeOK
<1>3. Judged(entry) = entry
  BY <1>1, <1>2 DEF Judged, FirmwareTypeOK
<1>4. Selected(entry) = r
  BY <1>1, <1>2, <1>3 DEF Selected, Settled, Backed, FirmwareTypeOK
<1> QED BY <1>1, <1>2, <1>3, <1>4
    DEF Loaded, Tried, Settled, Backed, FirmwareTypeOK, Whole

(* The boot after an update takes the new image, on trial.                 *)
LEMMA BootsNew ==
    ASSUME FirmwareTypeOK, Settled, upload = "restart"
    PROVE  /\ Loaded(entry) = Other(running)
           /\ Tried(entry) = [entry EXCEPT ![Other(running)] = "pending"]
<1> DEFINE r == running
           o == Other(running)
<1>1. /\ r \in Slots /\ o \in Slots /\ o # r /\ Other(o) = r
      /\ \A t \in Slots : t = r \/ t = o
  BY OtherSlot DEF FirmwareTypeOK
<1>2. /\ entry[r] \in {"valid", "none"} /\ entry[o] = "new"
      /\ latest = o /\ image[o] \in Whole
  BY <1>1 DEF Settled, Backed, FirmwareTypeOK
<1>3. Judged(entry) = entry
  BY <1>1, <1>2 DEF Judged, FirmwareTypeOK
<1>4. Selected(entry) = o
  BY <1>1, <1>2, <1>3 DEF Selected
<1> QED BY <1>1, <1>2, <1>3, <1>4 DEF Loaded, Tried, FirmwareTypeOK

LEMMA BootHolds ==
    ASSUME FirmwareInv, Boot(entry)
    PROVE  FirmwareInv'
<1> DEFINE r == running
           o == Other(running)
<1>1. /\ r \in Slots /\ o \in Slots /\ o # r /\ Other(o) = r
      /\ \A t \in Slots : t = r \/ t = o
  BY OtherSlot DEF FirmwareInv, FirmwareTypeOK
<1>2. /\ entry' = Tried(entry) /\ running' = Loaded(entry)
      /\ stage' = "early" /\ upload' = "none" /\ sent' = NoImage /\ total' = 0
      /\ image' = image /\ latest' = latest
  BY DEF Boot, NoUpload
<1>3. entry \in [Slots -> EntryStates] /\ image \in [Slots -> Whole \cup {"partial"}]
      /\ latest \in Slots
  BY DEF FirmwareInv, FirmwareTypeOK, EntryStates
<1>4. 0 \in 0..Chunks
  BY FirmwareAssumption
<1>5. CASE Trial
  <2>1. running' = o /\ entry' = [entry EXCEPT ![r] = "aborted"]
    BY <1>1, <1>2, <1>3, <1>5, BootsBack DEF Trial, Backed, Whole
  <2>2. FirmwareTypeOK'
    BY <2>1, <1>1, <1>2, <1>3, <1>4 DEF FirmwareTypeOK, EntryStates
  <2>3. Settled'
    BY <2>1, <1>1, <1>2, <1>3, <1>5 DEF Trial, Settled, Backed, EntryStates
  <2> QED BY <2>2, <2>3 DEF FirmwareInv
<1>6. CASE Settled /\ upload = "restart"
  <2>1. running' = o /\ entry' = [entry EXCEPT ![o] = "pending"]
    BY <1>2, <1>6, BootsNew DEF FirmwareInv
  <2>2. FirmwareTypeOK'
    BY <2>1, <1>1, <1>2, <1>3, <1>4 DEF FirmwareTypeOK, EntryStates
  <2>3. Trial'
    BY <2>1, <1>1, <1>2, <1>3, <1>6 DEF Trial, Settled, Backed, EntryStates
  <2> QED BY <2>2, <2>3 DEF FirmwareInv
<1>7. CASE Settled /\ upload # "restart"
  <2>1. running' = r /\ entry' = entry
    BY <1>2, <1>7, BootsRunning DEF FirmwareInv
  <2>2. FirmwareTypeOK'
    BY <2>1, <1>1, <1>2, <1>3, <1>4 DEF FirmwareTypeOK, EntryStates
  <2>3. Settled'
    BY <2>1, <1>1, <1>2, <1>3, <1>7 DEF Settled, Backed
  <2> QED BY <2>2, <2>3 DEF FirmwareInv
<1> QED BY <1>5, <1>6, <1>7 DEF FirmwareInv

LEMMA KeepsFirmware ==
    ASSUME FirmwareInv, UNCHANGED firmware
    PROVE  FirmwareInv'
BY DEF FirmwareInv, FirmwareTypeOK, Trial, Settled, Backed, firmware, slots, boots,
       posting

LEMMA MarkHolds ==
    ASSUME FirmwareInv, MarkValid
    PROVE  FirmwareInv'
<1>1. /\ running \in Slots /\ Other(running) \in Slots
      /\ Other(running) # running /\ Other(Other(running)) = running
  BY OtherSlot DEF FirmwareInv, FirmwareTypeOK
<1>2. FirmwareTypeOK'
  BY <1>1 DEF FirmwareInv, FirmwareTypeOK, MarkValid, posting
<1>3. CASE Trial
  <2>1. Settled'
    BY <1>1, <1>3
    DEF FirmwareInv, FirmwareTypeOK, MarkValid, posting, Trial, Settled, Backed, Whole
  <2> QED BY <1>2, <2>1 DEF FirmwareInv
<1>4. CASE Settled
  <2>1. entry' = entry
    BY <1>4 DEF FirmwareInv, FirmwareTypeOK, MarkValid, Settled, Backed
  <2>2. Settled'
    BY <2>1, <1>4 DEF MarkValid, posting, Settled, Backed
  <2> QED BY <1>2, <2>2 DEF FirmwareInv
<1> QED BY <1>3, <1>4 DEF FirmwareInv

(* The steps of an upload, which begins only when no trial is pending.     *)
UploadStep ==
    \/ \E i \in Images : UploadBegin(i)
    \/ Receive \/ StreamEnds \/ UploadAborts \/ OtaEnd \/ SetBoot \/ SetBootFails

LEMMA UploadHolds ==
    ASSUME FirmwareInv, UploadStep
    PROVE  FirmwareInv'
<1>1. /\ running \in Slots /\ Other(running) \in Slots
      /\ Other(running) # running /\ Other(Other(running)) = running
  BY OtherSlot DEF FirmwareInv, FirmwareTypeOK
<1>2. FirmwareTypeOK
  BY DEF FirmwareInv
<1>3. Settled
  BY DEF FirmwareInv, UploadStep, UploadBegin, Receive, StreamEnds, UploadAborts,
         OtaEnd, SetBoot, SetBootFails, Trial
<1>4. 0 \in 0..Chunks
  BY FirmwareAssumption
<1> USE <1>1, <1>2, <1>3, <1>4
<1>5. ASSUME NEW i \in Images, UploadBegin(i)
      PROVE  FirmwareTypeOK' /\ Settled'
  BY <1>5, FirmwareAssumption
  DEF UploadBegin, Goto, boots, FirmwareTypeOK, Settled, Backed, Whole
<1>6. CASE Receive
  <2>1. sent \in Whole /\ total' \in 0..Chunks
    BY <1>6, FirmwareAssumption DEF Receive, Settled, FirmwareTypeOK, Whole
  <2> QED BY <1>6, <2>1
      DEF FirmwareInv, Receive, boots, FirmwareTypeOK, Settled, Backed
<1>7. CASE StreamEnds \/ UploadAborts \/ OtaEnd \/ SetBootFails
  <2>1. UNCHANGED <<slots, boots>>
    BY <1>7 DEF StreamEnds, UploadAborts, OtaEnd, SetBootFails
  <2>2. FirmwareTypeOK'
    BY <1>7, <2>1
    DEF StreamEnds, UploadAborts, OtaEnd, SetBootFails, NoUpload, Goto, slots,
        boots, FirmwareTypeOK
  <2>3. Settled'
    BY <1>7, <2>1
    DEF StreamEnds, UploadAborts, OtaEnd, SetBootFails, NoUpload, Goto, slots,
        boots, Settled, Backed
  <2> QED BY <2>2, <2>3 DEF FirmwareInv
<1>8. CASE SetBoot
  <2>1. FirmwareTypeOK'
    BY <1>8 DEF SetBoot, Goto, boots, FirmwareTypeOK
  <2>2. Settled'
    BY <1>8 DEF SetBoot, Goto, boots, FirmwareTypeOK, Settled, Backed
  <2> QED BY <2>1, <2>2 DEF FirmwareInv
<1> QED BY <1>5, <1>6, <1>7, <1>8 DEF UploadStep, FirmwareInv

LEMMA WorkingImage == FirmwareInv => KeepsAWorkingImage
<1> SUFFICES ASSUME FirmwareInv PROVE KeepsAWorkingImage OBVIOUS
<1>1. /\ running \in Slots /\ Other(running) \in Slots
      /\ Other(running) # running /\ Other(Other(running)) = running
      /\ entry \in [Slots -> EntryStates]
  BY OtherSlot DEF FirmwareInv, FirmwareTypeOK, EntryStates
<1>2. CASE Trial
  BY <1>1, <1>2, BootsBack DEF Trial, Backed, Whole, KeepsAWorkingImage
<1>3. CASE Settled /\ upload # "restart"
  BY <1>3, BootsRunning DEF FirmwareInv, Settled, Backed, KeepsAWorkingImage
<1>4. CASE Settled /\ upload = "restart"
  <2>1. /\ Loaded(entry) = Other(running)
        /\ Tried(entry) = [entry EXCEPT ![Other(running)] = "pending"]
    BY <1>4, BootsNew DEF FirmwareInv
  <2>2. Loaded(Tried(entry)) = running
    <3>1. Tried(entry) \in [Slots -> EntryStates]
      BY <2>1, <1>1 DEF EntryStates
    <3> QED BY <3>1, <2>1, <1>1, <1>4, BootsBack DEF Settled, Backed, Whole
  <2> QED BY <1>4, <2>1, <2>2
      DEF Settled, Backed, Whole, FallsBackTo, KeepsAWorkingImage
<1> QED BY <1>2, <1>3, <1>4 DEF FirmwareInv

-----------------------------------------------------------------------------
(* Telnet.  A session owns an open descriptor of its own, and so does the  *)
(* listener between accepting a caller and giving it a task; an upload has *)
(* a descriptor of another kind.                                           *)
Owned ==
    /\ \A s \in Sessions : Serving(s) => socket[fd[s]] = "telnet"
    /\ \A s, t \in Sessions : Serving(s) /\ Serving(t) /\ fd[s] = fd[t] => s = t
    /\ listener # "accept" =>
          /\ cfd \in Fds /\ socket[cfd] = "telnet"
          /\ \A s \in Sessions : Serving(s) => fd[s] # cfd
    /\ listener \in {"shutdown", "create"} => s_client_fd = cfd
    /\ http # NoFd => socket[http] = "http"

(* The session whose caller is still there, at each place of listen_task.  *)
Present(s) == Serving(s) /\ ~ended[fd[s]]

OneLeft ==
    \A s \in Sessions : Present(s) =>
        CASE listener \in {"accept", "swap"} -> s_client_fd = fd[s]
          [] listener = "shutdown"           -> old_fd = fd[s]
          [] listener = "create"             -> FALSE

HttpTyped ==
    /\ http \in Fds \cup {NoFd}
    /\ http = NoFd <=> upload = "none"

ConsoleInv == TelnetTypeOK /\ HttpTyped /\ Owned /\ MirrorIsOurs /\ OneLeft

Inv == FirmwareInv /\ ConsoleInv

LEMMA KeepsConsole ==
    ASSUME ConsoleInv, UNCHANGED <<telnet, http>>, upload' = "none" <=> upload = "none"
    PROVE  ConsoleInv'
BY DEF ConsoleInv, TelnetTypeOK, HttpTyped, Owned, MirrorIsOurs, OneLeft, Present,
       Serving, telnet, sockets, listens, serves

LEMMA ListenHolds ==
    ASSUME ConsoleInv, UNCHANGED <<http, upload>>,
           (\E d \in Fds : Accept(d)) \/ ListenStep
    PROVE  ConsoleInv'
<1> USE DEF ConsoleInv, HttpTyped, MirrorIsOurs, Serving, serves
<1>1. ASSUME NEW d \in Fds, Accept(d)
      PROVE  ConsoleInv'
  <2>1. TelnetTypeOK'
    BY <1>1 DEF Accept, Opened, TelnetTypeOK
  <2>2. Owned'
    BY <1>1, TelnetAssumption DEF Accept, Opened, TelnetTypeOK, Owned
  <2>3. OneLeft'
    BY <1>1 DEF Accept, Opened, TelnetTypeOK, Owned, OneLeft, Present
  <2>4. MirrorIsOurs' /\ HttpTyped'
    BY <1>1 DEF Accept, Opened, TelnetTypeOK
  <2> QED BY <2>1, <2>2, <2>3, <2>4
<1>2. CASE Swap
  <2>1. TelnetTypeOK'
    BY <1>2 DEF Swap, sockets, TelnetTypeOK
  <2>2. Owned' /\ MirrorIsOurs' /\ HttpTyped'
    BY <1>2 DEF Swap, sockets, TelnetTypeOK, Owned
  <2>3. OneLeft'
    BY <1>2 DEF Swap, sockets, TelnetTypeOK, OneLeft, Present
  <2> QED BY <2>1, <2>2, <2>3
<1>3. CASE Shutdown
  <2>1. TelnetTypeOK'
    BY <1>3 DEF Shutdown, TelnetTypeOK
  <2>2. Owned' /\ MirrorIsOurs' /\ HttpTyped'
    BY <1>3 DEF Shutdown, TelnetTypeOK, Owned
  <2>3. OneLeft'
    <3> SUFFICES ASSUME NEW s \in Sessions, Serving(s)
                 PROVE  ended'[fd[s]] /\ listener' = "create"
      BY <1>3 DEF Shutdown, OneLeft, Present
    <3>1. fd[s] \in Fds /\ socket[fd[s]] # "free"
      BY DEF TelnetTypeOK, Owned
    <3>2. ended[fd[s]] \/ old_fd = fd[s]
      BY <1>3 DEF Shutdown, OneLeft, Present
    <3> QED BY <1>3, <3>1, <3>2 DEF Shutdown
  <2> QED BY <2>1, <2>2, <2>3
<1>4. ASSUME NEW s \in Sessions, Create(s)
      PROVE  ConsoleInv'
  <2>1. TelnetTypeOK'
    BY <1>4 DEF Create, sockets, TelnetTypeOK, Owned
  <2>2. Owned' /\ MirrorIsOurs' /\ HttpTyped'
    BY <1>4 DEF Create, sockets, TelnetTypeOK, Owned
  <2>3. OneLeft'
    BY <1>4 DEF Create, sockets, TelnetTypeOK, Owned, OneLeft, Present
  <2> QED BY <2>1, <2>2, <2>3
<1>5. CASE CreateFails
  <2>1. TelnetTypeOK' /\ Owned' /\ MirrorIsOurs' /\ HttpTyped'
    BY <1>5 DEF CreateFails, sockets, TelnetTypeOK, Owned
  <2>2. OneLeft'
    BY <1>5 DEF CreateFails, sockets, OneLeft, Present
  <2> QED BY <2>1, <2>2
<1> QED BY <1>1, <1>2, <1>3, <1>4, <1>5 DEF ListenStep

LEMMA ServeHolds ==
    ASSUME ConsoleInv, UNCHANGED <<http, upload>>, NEW s \in Sessions, Serve(s)
    PROVE  ConsoleInv'
<1> USE DEF ConsoleInv, HttpTyped, MirrorIsOurs, Serving
<1>1. CASE Line(s) \/ Executed(s) \/ Eof(s)
  <2>1. TelnetTypeOK'
    BY <1>1 DEF Line, Executed, Eof, sockets, listens, TelnetTypeOK
  <2>2. Owned' /\ MirrorIsOurs' /\ HttpTyped'
    BY <1>1 DEF Line, Executed, Eof, sockets, listens, TelnetTypeOK, Owned
  <2>3. OneLeft'
    BY <1>1 DEF Line, Executed, Eof, sockets, listens, TelnetTypeOK, OneLeft, Present
  <2> QED BY <2>1, <2>2, <2>3
<1>2. CASE Cleanup(s)
  <2>1. TelnetTypeOK'
    BY <1>2 DEF Cleanup, GoneWith, Closed, listens, TelnetTypeOK
  <2>2. Owned'
    BY <1>2 DEF Cleanup, GoneWith, Closed, listens, TelnetTypeOK, Owned
  <2>3. MirrorIsOurs' /\ HttpTyped'
    BY <1>2 DEF Cleanup, GoneWith, Closed, listens, TelnetTypeOK, Owned
  <2>4. OneLeft'
    BY <1>2 DEF Cleanup, GoneWith, Closed, listens, TelnetTypeOK, Owned, OneLeft,
                Present
  <2> QED BY <2>1, <2>2, <2>3, <2>4
<1> QED BY <1>1, <1>2 DEF Serve

LEMMA HangupHolds ==
    ASSUME ConsoleInv, NEW d \in Fds, UNCHANGED <<upload, http>>,
           ended' = [ended EXCEPT ![d] = TRUE],
           UNCHANGED <<s_client_fd, socket, listens, serves>>
    PROVE  ConsoleInv'
BY DEF ConsoleInv, TelnetTypeOK, HttpTyped, Owned, MirrorIsOurs, OneLeft, Present,
       Serving, listens, serves

(* An upload takes a descriptor ...                                        *)
LEMMA PostHolds ==
    ASSUME ConsoleInv, NEW d \in Fds, Opened(d, "http"), http' = d,
           upload' # "none", upload = "none",
           UNCHANGED <<s_client_fd, listens, serves>>
    PROVE  ConsoleInv'
<1> USE DEF ConsoleInv, HttpTyped, MirrorIsOurs, Serving, listens, serves, Opened
<1>1. TelnetTypeOK' /\ HttpTyped'
  BY TelnetAssumption DEF TelnetTypeOK
<1>2. Owned' /\ MirrorIsOurs'
  BY DEF TelnetTypeOK, Owned
<1>3. OneLeft'
  BY DEF TelnetTypeOK, Owned, OneLeft, Present
<1> QED BY <1>1, <1>2, <1>3

(* ... and gives it back.                                                  *)
LEMMA AnswerHolds ==
    ASSUME ConsoleInv, Answered, upload # "none"
    PROVE  ConsoleInv'
<1>1. CASE upload' = "none"
  <2> USE DEF ConsoleInv, HttpTyped, MirrorIsOurs, Serving, listens, serves, Closed
  <2>1. /\ http \in Fds /\ http' = NoFd
        /\ socket' = [socket EXCEPT ![http] = "free"]
        /\ ended' = [ended EXCEPT ![http] = FALSE]
        /\ UNCHANGED <<s_client_fd, listens, serves>>
        /\ socket[http] = "http"
    BY <1>1 DEF Answered, Owned
  <2>2. TelnetTypeOK' /\ HttpTyped'
    BY <1>1, <2>1 DEF TelnetTypeOK
  <2>3. Owned' /\ MirrorIsOurs'
    BY <2>1 DEF TelnetTypeOK, Owned
  <2>4. OneLeft'
    BY <2>1 DEF TelnetTypeOK, Owned, OneLeft, Present
  <2> QED BY <2>2, <2>3, <2>4
<1>2. CASE upload' # "none"
  BY <1>2, KeepsConsole DEF Answered, OnlyFirmware
<1> QED BY <1>1, <1>2

-----------------------------------------------------------------------------
LEMMA InitHolds == Init => Inv
<1> SUFFICES ASSUME Init PROVE Inv OBVIOUS
<1>1. ConsoleInv
  BY TelnetAssumption
  DEF Init, TelnetInit, FirmwareInit, ConsoleInv, TelnetTypeOK, HttpTyped, Owned,
      MirrorIsOurs, OneLeft, Present, Serving
<1>2. FirmwareTypeOK
  BY FirmwareAssumption DEF Init, FirmwareInit, FirmwareTypeOK, Slots, Whole
<1>3. Settled
  <2>1. Other("ota_0") \in Slots /\ Other("ota_0") # "ota_0"
    BY OtherSlot DEF Slots
  <2>2. /\ running = "ota_0" /\ latest = "ota_0" /\ image["ota_0"] = "good"
        /\ entry["ota_0"] = "none" /\ entry[Other("ota_0")] = "none"
        /\ stage = "up" /\ upload = "none"
    BY <2>1 DEF Init, FirmwareInit, Slots
  <2> QED BY <2>2 DEF Settled, Backed
<1> QED BY <1>1, <1>2, <1>3 DEF Inv, FirmwareInv

(* A restart leaves no socket open and nobody connected.                   *)
LEMMA RestartHolds ==
    ASSUME FirmwareInv, Boot(entry), StartsAnew
    PROVE  Inv'
<1>1. FirmwareInv'
  BY BootHolds
<1>2. ConsoleInv'
  BY TelnetAssumption
  DEF Boot, NoUpload, StartsAnew, ConsoleInv, TelnetTypeOK, HttpTyped, Owned,
      MirrorIsOurs, OneLeft, Present, Serving
<1> QED BY <1>1, <1>2 DEF Inv

LEMMA StepHolds == Inv /\ [Next]_vars => Inv'
<1> SUFFICES ASSUME Inv, [Next]_vars PROVE Inv' OBVIOUS
<1> USE DEF Inv
<1>1. CASE Console
  <2>1. UNCHANGED <<firmware, upload, http>>
    BY <1>1 DEF Console, OnlyTelnet, firmware, posting
  <2>2. FirmwareInv'
    BY <2>1, KeepsFirmware
  <2>3. CASE \E d \in Fds : Accept(d)
    BY <2>1, <2>2, <2>3, ListenHolds
  <2>4. CASE \E d \in Fds : Hangup(d)
    BY <2>1, <2>2, <2>4, HangupHolds DEF Hangup
  <2>5. CASE ListenStep
    BY <2>1, <2>2, <2>5, ListenHolds
  <2>6. CASE \E s \in Sessions : Serve(s)
    BY <2>1, <2>2, <2>6, ServeHolds
  <2> QED BY <1>1, <2>3, <2>4, <2>5, <2>6 DEF Console
<1>2. CASE Station
  BY <1>2, KeepsFirmware, KeepsConsole DEF Station, OnlyWifi, firmware, posting
<1>3. ASSUME NEW d \in Fds, NEW i \in Images, Post(d, i)
      PROVE  Inv'
  <2>1. FirmwareInv'
    BY <1>3, UploadHolds DEF Post, UploadStep
  <2>2. upload = "none" /\ upload' # "none"
    BY <1>3 DEF Post, UploadBegin, Goto
  <2>3. ConsoleInv'
    BY <1>3, <2>2, PostHolds DEF Post
  <2> QED BY <2>1, <2>3
<1>4. CASE PostHangup
  <2>1. UNCHANGED <<firmware, upload, http>>
    BY <1>4 DEF PostHangup, firmware, posting
  <2>2. http \in Fds
    BY <1>4 DEF PostHangup, ConsoleInv, HttpTyped
  <2>3. ConsoleInv'
    BY <1>4, <2>1, <2>2, HangupHolds DEF PostHangup
  <2> QED BY <2>1, <2>3, KeepsFirmware
<1>5. CASE PostChunk
  <2>1. FirmwareInv'
    BY <1>5, UploadHolds DEF PostChunk, UploadStep
  <2>2. ConsoleInv'
    BY <1>5, KeepsConsole DEF PostChunk, Receive, OnlyFirmware
  <2> QED BY <2>1, <2>2
<1>6. CASE PostOver
  <2>1. UploadStep /\ Answered
    BY <1>6 DEF PostOver, UploadStep
  <2>2. upload # "none"
    BY <1>6 DEF PostOver, StreamEnds, UploadAborts, OtaEnd, SetBoot, SetBootFails
  <2> QED BY <2>1, <2>2, UploadHolds, AnswerHolds
<1>7. CASE Machine
  <2>1. CASE (Crash \/ Reset \/ Restart) /\ StartsAnew
    BY <2>1, RestartHolds DEF Crash, Reset, Restart
  <2>2. CASE MarkValid /\ OnlyFirmware
    BY <2>2, MarkHolds, KeepsConsole DEF MarkValid, OnlyFirmware, posting
  <2> QED BY <1>7, <2>1, <2>2 DEF Machine
<1>8. CASE UNCHANGED vars
  BY <1>8, KeepsFirmware, KeepsConsole DEF vars, firmware, posting
<1> QED BY <1>1, <1>2, <1>3, <1>4, <1>5, <1>6, <1>7, <1>8 DEF Next

(* What the descriptors and the otadata look like in every state.          *)
THEOREM NetworkHolds == Spec => []Inv
<1> QED BY InitHolds, StepHolds, PTL DEF Spec

(* The slot that the log goes to holds an open telnet socket or nothing,   *)
(* although sessions close it and lwIP gives the number out again          *)
(* (telnet_vprintf, client_task, listen_task).                             *)
THEOREM LogStaysOurs == Spec => []MirrorIsOurs
<1>1. Inv => MirrorIsOurs
  BY DEF Inv, ConsoleInv
<1> QED BY <1>1, NetworkHolds, PTL

(* Between two callers the session whose caller is there is the one in the *)
(* slot: the caller before has been put out (listen_task).                 *)
THEOREM ConsoleIsSingle == Spec => []OneConsole
<1>1. Inv => OneConsole
  BY DEF Inv, ConsoleInv, OneLeft, Present, OneConsole
<1> QED BY <1>1, NetworkHolds, PTL

(* Whatever was uploaded, cut short or reset, the machine comes to a       *)
(* working image (ota_post, app_main).                                     *)
THEOREM WorkingImageRemains == Spec => []KeepsAWorkingImage
<1>1. Inv => KeepsAWorkingImage
  BY WorkingImage DEF Inv
<1> QED BY <1>1, NetworkHolds, PTL

(* An update that came up does not roll back by itself (app_main's mark).  *)
THEOREM NoRollback == Spec => UpdateSticks
<1>1. Inv /\ [Next]_vars
        => [stage = "up" /\ stage' = "early" /\ entry[Other(running)] # "new"
              => running' = running]_firmware
  <2> SUFFICES ASSUME Inv, [Next]_vars, stage = "up", stage' = "early",
                      entry[Other(running)] # "new"
               PROVE  running' = running
    OBVIOUS
  <2>1. FirmwareTypeOK /\ Settled /\ upload # "restart"
    BY DEF Inv, FirmwareInv, Trial, Settled
  <2>2. Boot(entry)
    <3>1. CASE Machine
      BY <3>1 DEF Machine, Crash, Reset, Restart, MarkValid
    <3>2. ~(Console \/ Station \/ PostHangup \/ UNCHANGED vars)
      BY DEF Console, OnlyTelnet, Station, OnlyWifi, PostHangup, vars, firmware, boots
    <3>3. ~(\E d \in Fds, i \in Images : Post(d, i)) /\ ~PostChunk
      BY DEF Post, UploadBegin, PostChunk, Receive, boots
    <3>4. ~PostOver
      BY DEF PostOver, StreamEnds, UploadAborts, OtaEnd, SetBoot, SetBootFails, boots
    <3> QED BY <3>1, <3>2, <3>3, <3>4 DEF Next
  <2> QED BY <2>1, <2>2, BootsRunning DEF Boot
<1> QED BY <1>1, NetworkHolds, PTL DEF Spec, UpdateSticks

-----------------------------------------------------------------------------
(* The station.  Between two tries to join there is always exactly one     *)
(* thing that will make it try again: the event of its start or of its     *)
(* fall, or the timer that the handler of a fall has set.                  *)
Pursued ==
    /\ station = "joining" => Len(events) = 0 /\ ~timerArmed
    /\ station = "online" =>
          /\ Len(events) = 0 \/ (Len(events) = 1 /\ events[1] = "ip")
          /\ ~timerArmed
    /\ station = "idle" /\ timerArmed => Len(events) = 0
    /\ station = "idle" /\ ~timerArmed =>
          \/ Len(events) = 1 /\ events[1] \in {"start", "down"}
          \/ Len(events) = 2 /\ events[1] = "ip" /\ events[2] = "down"

WifiInv ==
    /\ station \in {"idle", "joining", "online"}
    /\ events \in Seq({"start", "ip", "down"})
    /\ Pursued
    /\ s_connected \in BOOLEAN /\ timerArmed \in BOOLEAN
    /\ s_consecutive_failures \in 0..(FailureMod - 1)

(* What the handler of an event finds and leaves in the queue.             *)
LEMMA Taken ==
    ASSUME WifiInv, NEW e, Handles(e)
    PROVE  /\ Len(events) > 0 /\ e = events[1]
           /\ events' \in Seq({"start", "ip", "down"})
           /\ Len(events') = Len(events) - 1
           /\ Len(events) = 2 => events'[1] = events[2]
<1>1. events \in Seq({"start", "ip", "down"}) /\ events # <<>>
  BY DEF WifiInv, Handles
<1> QED BY <1>1 DEF Handles

(* What an event adds to the queue.                                        *)
LEMMA Posted ==
    ASSUME WifiInv, NEW e \in {"start", "ip", "down"}, events' = Append(events, e)
    PROVE  /\ events' \in Seq({"start", "ip", "down"})
           /\ Len(events') = Len(events) + 1
           /\ events'[Len(events) + 1] = e
           /\ Len(events) = 1 => events'[1] = events[1]
BY DEF WifiInv

LEMMA WifiHolds ==
    ASSUME WifiInv, WifiNext
    PROVE  WifiInv'
<1>1. CASE Joins
  BY <1>1, Posted DEF Joins, retrying, WifiInv, Pursued
<1>2. CASE LosesLink
  BY <1>2, Posted DEF LosesLink, retrying, WifiInv, Pursued
<1>3. CASE OnStart
  <2>1. Handles("start")
    BY <1>3 DEF OnStart
  <2> QED BY <1>3, <2>1, Taken DEF OnStart, Connected, retrying, WifiInv, Pursued
<1>4. CASE OnDown
  <2>1. s_consecutive_failures' \in 0..(FailureMod - 1)
    BY <1>4, WifiAssumption DEF OnDown, WifiInv
  <2>2. Handles("down")
    BY <1>4 DEF OnDown
  <2>3. Len(events) = 1 /\ station = "idle" /\ ~timerArmed
    BY <2>2, Taken DEF WifiInv, Pursued
  <2>4. Len(events') = 0 /\ events' \in Seq({"start", "ip", "down"})
    BY <2>2, <2>3, Taken
  <2>5. s_connected' = FALSE
    BY <1>4 DEF OnDown
  <2>6. CASE s_consecutive_failures' = 0
    <3>1. station' = "joining" /\ timerArmed' = timerArmed
      BY <1>4, <2>3, <2>6 DEF OnDown, Connected
    <3> QED BY <2>1, <2>3, <2>4, <2>5, <3>1 DEF WifiInv, Pursued
  <2>7. CASE s_consecutive_failures' # 0
    <3>1. station' = station /\ timerArmed' = TRUE
      BY <1>4, <2>3, <2>7 DEF OnDown
    <3> QED BY <2>1, <2>3, <2>4, <2>5, <3>1 DEF WifiInv, Pursued
  <2> QED BY <2>6, <2>7
<1>5. CASE OnIp
  <2>1. Handles("ip")
    BY <1>5 DEF OnIp
  <2>2. /\ station' = station /\ timerArmed' = timerArmed /\ s_connected' = TRUE
        /\ s_consecutive_failures' \in 0..(FailureMod - 1)
    BY <1>5, WifiAssumption DEF OnIp
  <2>3. /\ Len(events) > 0 /\ events[1] = "ip" /\ Len(events') = Len(events) - 1
        /\ events' \in Seq({"start", "ip", "down"})
        /\ Len(events) = 2 => events'[1] = events[2]
    BY <2>1, Taken
  <2>4. Pursued'
    BY <2>2, <2>3 DEF WifiInv, Pursued
  <2> QED BY <2>2, <2>3, <2>4 DEF WifiInv
<1>6. CASE TimerFires
  BY <1>6 DEF TimerFires, Connected, WifiInv, Pursued
<1> QED BY <1>1, <1>2, <1>3, <1>4, <1>5, <1>6 DEF WifiNext, Handler

(* The machine never sits without a link and without a next try: a fall is *)
(* either waiting for its handler or has set the timer, or the handler has *)
(* tried again itself, at every value of the failure counter               *)
(* (event_handler, reconnect_timer_cb).                                    *)
THEOREM StationIsPursued == Spec => []WifiInv
<1>0. 0 \in 0..(FailureMod - 1)
  BY WifiAssumption
<1>a. /\ <<"start">> \in Seq({"start", "ip", "down"})
      /\ Len(<<"start">>) = 1 /\ <<"start">>[1] = "start"
  OBVIOUS
<1>1. Init => WifiInv
  BY <1>0, <1>a DEF Init, WifiInit, WifiInv, Pursued
<1>2. WifiInv /\ [Next]_vars => WifiInv'
  <2> SUFFICES ASSUME WifiInv, [Next]_vars PROVE WifiInv'
    OBVIOUS
  <2>1. ASSUME UNCHANGED wifi PROVE WifiInv'
    BY <2>1 DEF WifiInv, Pursued, wifi, retrying
  <2>2. CASE Station
    BY <2>2, WifiHolds DEF Station
  <2>3. CASE (Crash \/ Reset \/ Restart) /\ StartsAnew
    BY <1>0, <1>a, <2>3 DEF StartsAnew, WifiStarts, WifiInv, Pursued
  <2>4. CASE \/ Console \/ PostHangup \/ PostChunk \/ PostOver \/ UNCHANGED vars
             \/ \E d \in Fds, i \in Images : Post(d, i)
             \/ MarkValid /\ OnlyFirmware
    <3>1. UNCHANGED wifi
      BY <2>4 DEF Console, OnlyTelnet, PostHangup, PostChunk, OnlyFirmware,
         PostOver, Answered, Post, vars
    <3> QED BY <2>1, <3>1
  <2> QED BY <2>2, <2>3, <2>4 DEF Next, Machine
<1> QED BY <1>1, <1>2, PTL DEF Spec

(* All of the network side is well typed; in particular at most two events *)
(* of the station wait for the event loop at any time.                     *)
THEOREM TypeCorrect == Spec => []TypeOK
<1>1. Inv /\ WifiInv => TypeOK
  <2> SUFFICES ASSUME Inv, WifiInv PROVE TypeOK
    OBVIOUS
  <2>1. WifiTypeOK
    <3>1. Len(events) \in 0..2
      BY DEF WifiInv, Pursued
    <3>2. \A n \in 0..2 : n <= 2
      OBVIOUS
    <3>3. Len(events) <= 2
      BY <3>1, <3>2
    <3> QED BY <3>3 DEF WifiInv, WifiTypeOK
  <2> QED BY <2>1 DEF Inv, FirmwareInv, ConsoleInv, HttpTyped, TypeOK
<1> QED BY <1>1, NetworkHolds, StationIsPursued, PTL
=============================================================================
