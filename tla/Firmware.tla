------------------------------ MODULE Firmware ------------------------------
(***************************************************************************)
(* Updates over the air: ota_post (nivona_ota.c) writes an image to the    *)
(* slot that does not run, the bootloader starts it once, and app_main     *)
(* marks it valid when it has come that far (main.c).  The bootloader and  *)
(* the esp_ota functions are external: they are what ESP-IDF does with     *)
(* CONFIG_BOOTLOADER_APP_ROLLBACK_ENABLE and two slots without a factory   *)
(* image, the layout of every board here.                                  *)
(*                                                                         *)
(* An image is "good", or one that dies in app_main before it is marked    *)
(* ("crash"), or not whole ("partial").                                    *)
(***************************************************************************)
EXTENDS Integers

CONSTANTS
    Images,         (* inputs: the images that are uploaded                *)
    Chunks          (* bound: the reads an image takes                     *)

ASSUME FirmwareAssumption ==
    /\ Images \subseteq {"good", "crash"}
    /\ Chunks \in Nat \ {0}

VARIABLES
    image,          (* what each slot holds                                *)
    entry,          (* otadata: the state of each slot                     *)
    latest,         (* otadata: the slot with the highest sequence number  *)
    running,        (* the slot the machine runs                           *)
    stage,          (* how far app_main is: "early", or "up" when marked   *)
    upload,         (* where ota_post stands                               *)
    sent,           (* external: the image that is being uploaded          *)
    total           (* local: what was received so far                     *)

slots    == <<image, entry, latest>>
boots    == <<running, stage>>
posting  == <<upload, sent, total>>
firmware == <<slots, boots, posting>>

Slots    == {"ota_0", "ota_1"}
Other(s) == CHOOSE t \in Slots : t # s
Whole    == {"good", "crash"}
NoImage  == "none"

-----------------------------------------------------------------------------
(* External: the bootloader.  An image that was started and not marked is  *)
(* aborted, the newest entry left is taken, and a new one is on trial; of  *)
(* an image that is not whole the other slot is taken.                     *)
Judged(entries) ==
    [s \in Slots |-> IF entries[s] = "pending" THEN "aborted" ELSE entries[s]]

Selected(entries) ==
    LET listed == {s \in Slots : Judged(entries)[s] \notin {"none", "aborted"}}
    IN  IF latest \in listed THEN latest
        ELSE IF Other(latest) \in listed THEN Other(latest)
        ELSE "ota_0"

Loaded(entries) ==
    LET s == Selected(entries) IN IF image[s] \in Whole THEN s ELSE Other(s)

Tried(entries) ==
    [s \in Slots |-> IF s = Selected(entries) /\ entries[s] = "new"
                     THEN "pending" ELSE Judged(entries)[s]]

NoUpload == upload' = "none" /\ sent' = NoImage /\ total' = 0

(* A restart of the machine with these otadata.                            *)
Boot(entries) ==
    /\ entry' = Tried(entries)
    /\ running' = Loaded(entries)
    /\ stage' = "early"
    /\ NoUpload
    /\ UNCHANGED <<image, latest>>

FirmwareInit ==
    /\ image = [s \in Slots |-> IF s = "ota_0" THEN "good" ELSE "partial"]
    /\ entry = [s \in Slots |-> "none"] /\ latest = "ota_0"
    /\ running = "ota_0" /\ stage = "up"
    /\ upload = "none" /\ sent = NoImage /\ total = 0

-----------------------------------------------------------------------------
(* Mutant: app_main marks the image before anything else.                  *)
Crash_Marked ==
    /\ stage = "early" /\ image[running] = "crash"
    /\ Boot([entry EXCEPT ![running] = IF @ = "pending" THEN "valid" ELSE @])

(* app_main dies early, which resets the machine, ...                      *)
Crash ==
    /\ stage = "early" /\ image[running] = "crash"
    /\ Boot(entry)

(* Mutant: the image is never marked.                                      *)
MarkValid_Forgotten ==
    /\ stage = "early" /\ image[running] # "crash"
    /\ stage' = "up"
    /\ UNCHANGED <<slots, running, posting>>

(* ... or marks the image it runs, if it is on trial, and starts services. *)
MarkValid ==
    /\ stage = "early" /\ image[running] # "crash"
    /\ entry' = [entry EXCEPT ![running] = IF @ = "pending" THEN "valid" ELSE @]
    /\ stage' = "up"
    /\ UNCHANGED <<image, latest, running, posting>>

(* The power goes, or a console, reboot_post or cmd_factory_reset restarts *)
(* the machine, whatever it is doing.                                      *)
Reset ==
    Boot(entry)

-----------------------------------------------------------------------------
(* ota_post.  One request at a time: the server is one task.               *)

Goto(to) == upload' = to

(* esp_ota_begin erases the slot that does not run; it refuses while the   *)
(* running image is on trial.                                              *)
UploadBegin(i) ==
    /\ stage = "up" /\ upload = "none"
    /\ entry[running] # "pending"
    /\ image' = [image EXCEPT ![Other(running)] = "partial"]
    /\ Goto("receive") /\ sent' = i /\ total' = 0
    /\ UNCHANGED <<entry, latest, boots>>

(* httpd_req_recv gives a chunk, and esp_ota_write writes it.              *)
Receive ==
    /\ upload = "receive" /\ total < Chunks
    /\ total' = total + 1
    /\ image' = [image EXCEPT ![Other(running)] =
                    IF total' = Chunks THEN sent ELSE "partial"]
    /\ UNCHANGED <<entry, latest, boots, upload, sent>>

(* It gives 0: all was sent, or the client has gone.                       *)
StreamEnds ==
    /\ upload = "receive"
    /\ IF total = 0 THEN NoUpload ELSE Goto("end") /\ UNCHANGED <<sent, total>>
    /\ UNCHANGED <<slots, boots>>

(* It gives an error, after 30 s at the latest, or the write fails.        *)
UploadAborts ==
    /\ upload = "receive"
    /\ NoUpload
    /\ UNCHANGED <<slots, boots>>

(* esp_ota_end looks if the image is whole.                                *)
OtaEnd ==
    /\ upload = "end"
    /\ IF image[Other(running)] \in Whole
       THEN Goto("set_boot") /\ UNCHANGED <<sent, total>>
       ELSE NoUpload
    /\ UNCHANGED <<slots, boots>>

(* esp_ota_set_boot_partition writes otadata, or fails to.                 *)
SetBoot ==
    /\ upload = "set_boot"
    /\ latest' = Other(running)
    /\ entry' = [entry EXCEPT ![Other(running)] = "new"]
    /\ Goto("restart")
    /\ UNCHANGED <<image, boots, sent, total>>

SetBootFails ==
    /\ upload = "set_boot"
    /\ NoUpload
    /\ UNCHANGED <<slots, boots>>

(* 500 ms later.                                                           *)
Restart ==
    /\ upload = "restart"
    /\ Boot(entry)

-----------------------------------------------------------------------------
FirmwareTypeOK ==
    /\ image \in [Slots -> Whole \cup {"partial"}]
    /\ entry \in [Slots -> {"none", "new", "pending", "valid", "aborted"}]
    /\ latest \in Slots /\ running \in Slots
    /\ stage \in {"early", "up"}
    /\ upload \in {"none", "receive", "end", "set_boot", "restart"}
    /\ sent \in Images \cup {NoImage}
    /\ total \in 0..Chunks

(* The slot that is started when the selected image dies on trial.         *)
FallsBackTo == Loaded(Tried(entry))

(* Whatever was uploaded, cut short or reset: were the machine to restart  *)
(* now it would come to a working image, at once or after one that dies on *)
(* trial.                                                                  *)
KeepsAWorkingImage ==
    LET first == Loaded(entry)
    IN  \/ image[first] = "good"
        \/ image[first] = "crash" /\ image[FallsBackTo] = "good"

(* An image that came up is the one that a restart brings up again, unless *)
(* a newer one was selected: an update does not roll back by itself.       *)
UpdateSticks ==
    [][stage = "up" /\ stage' = "early" /\ entry[Other(running)] # "new"
        => running' = running]_firmware
=============================================================================
