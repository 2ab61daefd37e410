-------------------------------- MODULE Tanks --------------------------------
(***************************************************************************)
(* The tanks and parts of nivona_consumables.c: levels and presence in     *)
(* memory under one mutex, and the two blobs of the namespace niv_consum   *)
(* in flash, which every change writes again without the mutex.            *)
(*                                                                         *)
(* A caller is a task that changes them: the brew task (consume, fill), a  *)
(* finished cycle (filter), the console and telnet tasks (tank, part, fix, *)
(* factory_reset), the touch UI (refill).  pc[c] is where caller c stands. *)
(* A single store under the mutex is one step; a section of several        *)
(* accesses takes lock, because persist() does not wait for it.  A blob is *)
(* written by one nvs_set_blob, which NVS does under a lock of its own;    *)
(* until nvs_commit it may or may not outlive a loss of power.  Levels go  *)
(* to FULL, which stands for 100 %.                                        *)
(***************************************************************************)
EXTENDS Integers

CONSTANTS
    Callers,        (* tasks that change tanks and parts                   *)
    Tanks, Parts,   (* the tanks and parts looked at                       *)
    FULL,           (* the level of a full tank (100)                      *)
    Levels,         (* inputs: the levels tanks are set to                 *)
    Deltas,         (* inputs: what tanks are adjusted by                  *)
    StoreMayFail,   (* can NVS refuse an open or a write?                  *)
    MaxLosses,      (* bound: losses of power                              *)
    Nobody          (* the holder of a mutex that is free                  *)

ASSUME TanksAssumption ==
    /\ Tanks \subseteq {"water", "beans", "tray", "filter"}
    /\ Parts \subseteq {"brew_unit", "trays", "powder_lid"}
    /\ FULL \in Nat
    /\ Levels \subseteq Nat
    /\ Deltas \subseteq Int
    /\ StoreMayFail \in BOOLEAN
    /\ MaxLosses \in Nat
    /\ Nobody \notin Callers

VARIABLES
    level,          (* s_consum                                            *)
    present,        (* s_parts                                             *)
    lock,           (* who holds s_mutex for several accesses              *)
    levelBlob,      (* the blob "tanks", as NVS would give it back         *)
    partBlob,       (* the blob "parts", likewise                          *)
    committed,      (* both blobs as of the last nvs_commit                *)
    pc,             (* where each caller stands                            *)
    job,            (* local: tank, delta and v of nivona_consumable_adjust *)
    todo,           (* local: what nivona_consumables_reset has yet to set *)
    copy,           (* local: the uint8_t parts[] of persist               *)
    missed,         (* not in the code: a persist failed, none came since  *)
    losses          (* losses of power so far                              *)

memory == <<level, present, lock>>
flash  == <<levelBlob, partBlob, committed, missed>>
local  == <<job, todo, copy>>
vars   == <<memory, flash, pc, local, losses>>

NoBlob == <<>>
NoJob  == [tank |-> "none", delta |-> 0, was |-> 0]

FactoryLevels == [t \in Tanks |-> IF t = "tray" THEN 0 ELSE FULL]
FactoryParts  == [p \in Parts |-> TRUE]

(* Mutant: only the upper bound is kept.                                   *)
clamp8_OnlyAbove(v) == IF v > FULL THEN FULL ELSE v

clamp8(v) == IF v < 0 THEN 0 ELSE IF v > FULL THEN FULL ELSE v

Init ==
    /\ level = FactoryLevels /\ present = FactoryParts
    /\ lock = Nobody
    /\ levelBlob = FactoryLevels /\ partBlob = FactoryParts
    /\ committed = [levels |-> FactoryLevels, parts |-> FactoryParts]
    /\ pc = [c \in Callers |-> "idle"]
    /\ job = [c \in Callers |-> NoJob]
    /\ todo = [c \in Callers |-> {}]
    /\ copy = [c \in Callers |-> FactoryParts]
    /\ missed = FALSE
    /\ losses = 0

Move(c, from, to) == pc[c] = from /\ pc' = [pc EXCEPT ![c] = to]

-----------------------------------------------------------------------------
(* The changes.  Each is made under the mutex and persisted without it.    *)

(* nivona_consumable_set, and nivona_part_set: one store.                  *)
Set(c, t, v) ==
    /\ Move(c, "idle", "open")
    /\ lock = Nobody
    /\ level' = [level EXCEPT ![t] = clamp8(v)]
    /\ UNCHANGED <<present, lock, flash, local, losses>>

SetPart(c, p, there) ==
    /\ Move(c, "idle", "open")
    /\ lock = Nobody
    /\ present' = [present EXCEPT ![p] = there]
    /\ UNCHANGED <<level, lock, flash, local, losses>>

(* Mutant: the level is read before the mutex is taken.                    *)
AdjustRead_NoLock(c, t, d) ==
    /\ Move(c, "idle", "adjust")
    /\ job' = [job EXCEPT ![c] = [tank |-> t, delta |-> d, was |-> level[t]]]
    /\ UNCHANGED <<memory, flash, todo, copy, losses>>

(* nivona_consumable_adjust, for the brew and its consumption hooks.       *)
AdjustRead(c, t, d) ==
    /\ Move(c, "idle", "adjust")
    /\ lock = Nobody /\ lock' = c
    /\ job' = [job EXCEPT ![c] = [tank |-> t, delta |-> d, was |-> level[t]]]
    /\ UNCHANGED <<level, present, flash, todo, copy, losses>>

AdjustWrite(c) ==
    /\ Move(c, "adjust", "open")
    /\ lock' = Nobody
    /\ level' = [level EXCEPT ![job[c].tank] = clamp8(job[c].was + job[c].delta)]
    /\ job' = [job EXCEPT ![c] = NoJob]
    /\ UNCHANGED <<present, flash, todo, copy, losses>>

(* nivona_consumables_reset, for `fix all`: one store after the other, here *)
(* in any order.                                                           *)
Reset(c) ==
    /\ Move(c, "idle", "reset")
    /\ lock = Nobody /\ lock' = c
    /\ todo' = [todo EXCEPT ![c] = Tanks \cup Parts]
    /\ UNCHANGED <<level, present, flash, job, copy, losses>>

ResetOne(c) ==
    /\ pc[c] = "reset"
    /\ \E x \in todo[c] :
         /\ todo' = [todo EXCEPT ![c] = @ \ {x}]
         /\ level' = [t \in Tanks |-> IF t = x THEN FactoryLevels[t] ELSE level[t]]
         /\ present' = [p \in Parts |-> p = x \/ present[p]]
    /\ UNCHANGED <<lock, flash, pc, job, copy, losses>>

ResetDone(c) ==
    /\ Move(c, "reset", "open")
    /\ todo[c] = {}
    /\ lock' = Nobody
    /\ UNCHANGED <<level, present, flash, local, losses>>

-----------------------------------------------------------------------------
(* persist(): no mutex, and no look at what NVS answers but to the open.   *)

Open(c) ==
    /\ Move(c, "open", "write_levels")
    /\ UNCHANGED <<memory, flash, local, losses>>

OpenFails(c) ==
    /\ StoreMayFail
    /\ Move(c, "open", "idle")
    /\ missed' = TRUE
    /\ UNCHANGED <<memory, levelBlob, partBlob, committed, local, losses>>

WriteLevels(c) ==
    /\ Move(c, "write_levels", "copy")
    /\ levelBlob' = level
    /\ missed' = FALSE
    /\ UNCHANGED <<memory, partBlob, committed, local, losses>>

WriteFails(c) ==
    /\ StoreMayFail
    /\ Move(c, "write_levels", "copy")
    /\ missed' = TRUE
    /\ UNCHANGED <<memory, levelBlob, partBlob, committed, local, losses>>

Copy(c) ==
    /\ Move(c, "copy", "write_parts")
    /\ copy' = [copy EXCEPT ![c] = present]
    /\ UNCHANGED <<memory, flash, job, todo, losses>>

WriteParts(c) ==
    /\ Move(c, "write_parts", "commit")
    /\ partBlob' = copy[c]
    /\ copy' = [copy EXCEPT ![c] = FactoryParts]
    /\ UNCHANGED <<memory, levelBlob, committed, missed, job, todo, losses>>

(* Mutant: the handle is closed and nothing committed.                     *)
Commit_Forgotten(c) ==
    /\ Move(c, "commit", "idle")
    /\ UNCHANGED <<memory, flash, local, losses>>

Commit(c) ==
    /\ Move(c, "commit", "idle")
    /\ committed' = [levels |-> levelBlob, parts |-> partBlob]
    /\ UNCHANGED <<memory, levelBlob, partBlob, missed, local, losses>>

-----------------------------------------------------------------------------
(* cmd_factory_reset erases the namespace and sleeps a second before it    *)
(* restarts; the other tasks go on in between.                             *)
FactoryReset(c) ==
    /\ Move(c, "idle", "erased")
    /\ \/ /\ levelBlob' = NoBlob /\ partBlob' = NoBlob
          /\ committed' = [levels |-> NoBlob, parts |-> NoBlob]
       \/ StoreMayFail /\ UNCHANGED <<levelBlob, partBlob, committed>>
    /\ UNCHANGED <<memory, missed, local, losses>>

(* nivona_consumables_init, before any other task runs: restore() finds a  *)
(* blob of levels, and maybe one of parts, ...                             *)
Resume(levels, parts) ==
    /\ levels # NoBlob
    /\ level' = levels
    /\ present' = IF parts = NoBlob THEN FactoryParts ELSE parts
    /\ levelBlob' = levels /\ partBlob' = parts
    /\ missed' = FALSE

(* ... or no levels, and what nivona_consumables_reset sets is persisted.  *)
StartFresh(levels, parts) ==
    /\ levels = NoBlob
    /\ level' = FactoryLevels /\ present' = FactoryParts
    /\ \/ levelBlob' = FactoryLevels /\ partBlob' = FactoryParts /\ missed' = FALSE
       \/ /\ StoreMayFail
          /\ levelBlob' = NoBlob /\ partBlob' = parts /\ missed' = TRUE

(* A boot that finds these two blobs.                                      *)
Boot(levels, parts) ==
    /\ Resume(levels, parts) \/ StartFresh(levels, parts)
    /\ committed' = [levels |-> levelBlob', parts |-> partBlob']
    /\ lock' = Nobody
    /\ pc' = [c \in Callers |-> "idle"]
    /\ job' = [c \in Callers |-> NoJob]
    /\ todo' = [c \in Callers |-> {}]
    /\ copy' = [c \in Callers |-> FactoryParts]

(* esp_restart at the end of cmd_factory_reset.                            *)
Restart(c) ==
    /\ pc[c] = "erased"
    /\ Boot(levelBlob, partBlob)
    /\ UNCHANGED losses

(* Each blob is the one written last or the one committed last.            *)
PowerLoss ==
    /\ losses < MaxLosses
    /\ \E levels \in {levelBlob, committed.levels},
          parts \in {partBlob, committed.parts} : Boot(levels, parts)
    /\ losses' = losses + 1

Call(c) ==
    \/ \E t \in Tanks, v \in Levels : Set(c, t, v)
    \/ \E p \in Parts, there \in BOOLEAN : SetPart(c, p, there)
    \/ \E t \in Tanks, d \in Deltas : AdjustRead(c, t, d)
    \/ Reset(c)
    \/ FactoryReset(c)

Persist(c) ==
    \/ Open(c) \/ OpenFails(c) \/ WriteLevels(c) \/ WriteFails(c)
    \/ Copy(c) \/ WriteParts(c) \/ Commit(c)

Next ==
    \/ \E c \in Callers :
         \/ Call(c) \/ AdjustWrite(c) \/ ResetOne(c) \/ ResetDone(c)
         \/ Persist(c) \/ Restart(c)
    \/ PowerLoss

Spec == Init /\ [][Next]_vars

-----------------------------------------------------------------------------
LevelSet == [Tanks -> 0..FULL]
PartSet  == [Parts -> BOOLEAN]
Blobs    == [levels : LevelSet \cup {NoBlob}, parts : PartSet \cup {NoBlob}]
Jobs     == {NoJob} \cup [tank : Tanks, delta : Deltas, was : 0..FULL]
Places   == {"idle", "adjust", "reset", "open", "write_levels", "copy",
             "write_parts", "commit", "erased"}

(* Every level stays between empty and full, in memory and in flash.       *)
TypeOK ==
    /\ level \in LevelSet /\ present \in PartSet
    /\ lock \in Callers \cup {Nobody}
    /\ levelBlob \in LevelSet \cup {NoBlob}
    /\ partBlob \in PartSet \cup {NoBlob}
    /\ committed \in Blobs
    /\ pc \in [Callers -> Places]
    /\ job \in [Callers -> Jobs]
    /\ todo \in [Callers -> SUBSET (Tanks \cup Parts)]
    /\ copy \in [Callers -> PartSet]
    /\ missed \in BOOLEAN
    /\ losses \in 0..MaxLosses

AtRest == \A c \in Callers : pc[c] = "idle"

(* When no call is under way the levels in flash are those in memory,      *)
(* although persist() does not hold the mutex and any number of callers    *)
(* run it at once; a persist that NVS refuses is made up for by the next.  *)
(* (Not so the parts, which persist() writes from an older copy.)          *)
LevelsKept ==
    AtRest /\ ~missed => levelBlob = level /\ committed.levels = level

(* A level does not change between its read and its write in an            *)
(* adjustment: a refill during a brew is not lost, nor what the brew uses. *)
NoLostUpdate ==
    \A c \in Callers : pc[c] = "adjust" => level[job[c].tank] = job[c].was
=============================================================================
