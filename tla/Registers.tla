------------------------------ MODULE Registers ------------------------------
(***************************************************************************)
(* The register store (nivona_store.c) and the tasks that write to it: the *)
(* NimBLE host task (HW, HD, HB), the brew task when a brew is charged     *)
(* (apply_wear_after_brew) and the cycle task when a cycle is over.        *)
(*                                                                         *)
(* The store is a table in memory, which nothing locks, next to the flash  *)
(* (NVS): every value is written to the table and then to the flash.  Only *)
(* the NVS library locks, so a step below is one scan of the table, one    *)
(* write to it, or one call of the library.  A scan is one step because an *)
(* entry never moves.  Reading (HR, HA) changes nothing and is no step.    *)
(*                                                                         *)
(* What was written through a handle that was not committed yet may or may *)
(* not be there after a loss of power: durable is what must be.            *)
(*                                                                         *)
(* Nothing in the code keeps two tasks from using the store at once.  What *)
(* then goes wrong is part of the model, and so is a flash that cannot be  *)
(* opened; upsets remembers which of it has happened, and each property    *)
(* names the upsets it does not survive.                                   *)
(***************************************************************************)
EXTENDS Statistics, FiniteSets

CONSTANTS
    NUM_CAP,        (* entries of the table (256)                          *)
    InUse,          (* the families that are switched between              *)
    Stored,         (* the registers in the flash before the first boot    *)
    Selectors,      (* the recipes brewed                                  *)
    Kinds,          (* the cycles run                                      *)
    HostIds,        (* the registers the host task writes and resets       *)
    HostValues,     (* the values it writes                                *)
    NameIds,        (* the text registers it writes                        *)
    NameTexts,      (* the texts it writes                                 *)
    OpenMayFail,    (* nvs_open may fail: the value is then in memory only *)
    MayOverlap,     (* a brew and a cycle may run together                 *)
    MaxCount,       (* bound: the highest value of a counter               *)
    MaxLosses       (* bound: losses of power                              *)

ASSUME StoreAssumption ==
    /\ NUM_CAP \in Nat \ {0}
    /\ InUse \subseteq FamilyKeys /\ InUse # {}
    /\ DOMAIN Stored \subseteq Int /\ HostIds \subseteq Int
    /\ OpenMayFail \in BOOLEAN /\ MayOverlap \in BOOLEAN

Slots == 1..NUM_CAP
Tasks == {"host", "brew", "cycle"}

VARIABLES
    family,         (* nivona_families.c: s_current                        *)
    table,          (* nivona_store.c: s_num                               *)
    flash,          (* namespace niv_num as the library shows it           *)
    durable,        (* the same, without what is not committed             *)
    names,          (* s_alpha                                             *)
    flashNames,     (* namespace niv_alpha                                 *)
    batchOpen,      (* s_batch.open                                        *)
    wearTick,       (* nivona_brew.c: s_local_wear_tick                    *)
    pc,             (* where each task stands                              *)
    todo,           (* local: the register updates still to do, in order   *)
    value,          (* local: the value to store                           *)
    slot,           (* local: the entry of the table to store it in        *)
    owed,           (* ghost: what each counter should have counted        *)
    interrupted,    (* ghost: losses of power with a brew or cycle at work *)
    upsets,         (* ghost: what happened that the store does not survive *)
    losses          (* losses of power so far                              *)

text  == <<names, flashNames>>
local == <<todo, value, slot>>
tally == <<owed, interrupted>>
ghost == <<tally, upsets>>
vars  == <<family, table, flash, durable, text, batchOpen, wearTick, pc, local,
           ghost, losses>>

-----------------------------------------------------------------------------
(* The table.                                                              *)

First(slots) == CHOOSE s \in slots : \A r \in slots : s <= r

Empty       == [id |-> 0, value |-> 0, used |-> FALSE]
Holders(id) == {s \in Slots : table[s].used /\ table[s].id = id}
Free        == {s \in Slots : ~table[s].used}

Has(id) == Holders(id) # {}
Get(id) == IF Has(id) THEN table[First(Holders(id))].value ELSE 0

(* A flash f with register id set to v.                                    *)
Put(f, id, v) ==
    [i \in DOMAIN f \cup {id} |-> IF i = id THEN v ELSE f[i]]

-----------------------------------------------------------------------------
(* Boot: nvs_load_all, then seed_defaults.                                 *)

SeedNames == 256..259
Profile   == "Profile"      (* the text of a seeded name                   *)

Seeds(f) ==
    Gauges \cup {Warning(g) : g \in Gauges} \cup {filter_dep_id(f)}

SeedValue(id) == IF id \in Gauges THEN 100 ELSE 0

Place(id, ids) == Cardinality({i \in ids : i < id})

(* What the table takes of the stored registers, and of the seeds that are *)
(* not in it by then.                                                      *)
Loaded(f) == {id \in DOMAIN f : Place(id, DOMAIN f) < NUM_CAP}

(* Mutant: the seeds are written whatever was there.                       *)
Missing_All(f, fam) == Seeds(fam)

Missing(f, fam) == Seeds(fam) \ Loaded(f)

Seeded(f, fam) ==
    [id \in DOMAIN f \cup Seeds(fam) |->
        IF id \in Missing(f, fam) THEN SeedValue(id) ELSE f[id]]

Remembered(f, fam) ==
    LET room == NUM_CAP - Cardinality(Loaded(f) \ Missing(f, fam))
    IN  Loaded(f) \cup {id \in Missing(f, fam) : Place(id, Missing(f, fam)) < room}

Table(f, ids) ==
    [s \in Slots |->
        IF \E id \in ids : Place(id, ids) = s - 1
        THEN LET id == CHOOSE id \in ids : Place(id, ids) = s - 1
             IN  [id |-> id, value |-> f[id], used |-> TRUE]
        ELSE Empty]

(* The profile names are seeded whether they were stored or not.           *)
SeededNames(stored) ==
    [i \in NameIds |-> IF i \in SeedNames THEN Profile ELSE stored[i]]

(* What the tasks know of an earlier life: nothing.                        *)
NoWork ==
    [pc |-> [t \in Tasks |-> "idle"], todo |-> [t \in Tasks |-> <<>>],
     zero |-> [t \in Tasks |-> 0]]

(* The registers that count brews and cycles.                              *)
CupCounters(f, s) ==
    ({stats(f).total, stats(f).via_app}
        \cup {RecipeCounter(i) : i \in {s} \cap RecipeMask(f)}) \ {NoRegister}

CountingRegisters ==
    (UNION {CupCounters(f, s) : f \in InUse, s \in Selectors})
        \cup ({CycleCounter(k, f) : k \in Kinds, f \in InUse} \ {NoRegister})

Init ==
    /\ family \in InUse
    /\ flash = Seeded(Stored, family) /\ durable = flash
    /\ table = Table(flash, Remembered(Stored, family))
    /\ names = SeededNames([i \in NameIds |-> ""]) /\ flashNames = names
    /\ batchOpen = FALSE /\ wearTick = 0
    /\ pc = NoWork.pc /\ todo = NoWork.todo
    /\ value = NoWork.zero /\ slot = NoWork.zero
    /\ owed = [i \in CountingRegisters |-> Get(i)] /\ interrupted = 0
    /\ upsets = {}
    /\ losses = 0

-----------------------------------------------------------------------------
(* The updates a task has to do.                                           *)

Update(do, id, arg, every) == [do |-> do, id |-> id, arg |-> arg, every |-> every]

Bump(id) == IF id = NoRegister THEN <<>> ELSE <<Update("inc", id, 0, 1)>>

(* Mutant: the flag is looked at before the gauge goes down.               *)
Decay_WarnFirst(gauge, every) ==
    <<Update("warn", Warning(gauge), gauge, every), Update("dec", gauge, 0, every)>>

(* One gauge goes down every so many brews; below its limit it warns.      *)
Decay(gauge, every) ==
    <<Update("dec", gauge, 0, every), Update("warn", Warning(gauge), gauge, every)>>

(* Mutant: a recipe that is not counted counts nowhere.                    *)
Wear_OnlyCounted(f, s) ==
    IF s \notin RecipeMask(f) THEN <<>> ELSE
    Bump(RecipeCounter(s)) \o Bump(stats(f).total) \o Bump(stats(f).via_app)
        \o <<Update("tick", stats(f).total, 0, 1)>>
        \o Decay(FILTER, 1) \o Decay(BU_CLEAN, 2) \o Decay(DESCALE, 5)

(* apply_wear_after_brew.                                                  *)
Wear(f, s) ==
    (IF s \in RecipeMask(f) THEN Bump(RecipeCounter(s)) ELSE <<>>)
        \o Bump(stats(f).total) \o Bump(stats(f).via_app)
        \o <<Update("tick", stats(f).total, 0, 1)>>
        \o Decay(FILTER, 1) \o Decay(BU_CLEAN, 2) \o Decay(DESCALE, 5)

(* cycle_task, once a cycle is over.                                       *)
Serviced(f, kind) ==
    LET g == CycleGauge(kind)
    IN  Bump(CycleCounter(kind, f))
            \o (IF g = NoRegister THEN <<>>
                ELSE <<Update("set", g, 100, 1), Update("set", Warning(g), 0, 1)>>)

-----------------------------------------------------------------------------
At(t, from)       == pc[t] = from
Goto(t, to)       == pc' = [pc EXCEPT ![t] = to]
Move(t, from, to) == At(t, from) /\ Goto(t, to)
Works(t, updates) == todo' = [todo EXCEPT ![t] = updates]

Work(t) == Head(todo[t])

Opens == IF OpenMayFail THEN BOOLEAN ELSE {TRUE}

stores == <<table, flash, durable>>

(* The registers the machine itself writes.                                *)
Service == CountingRegisters \cup Gauges \cup {Warning(g) : g \in Gauges}

(* The upsets: nvs_open failed, and a number is in memory only (refused);  *)
(* a brew was charged while a cycle was (overlap); the app wrote a         *)
(* register of the machine (edited), or did so while a brew or a cycle was *)
(* at work (race); two tasks added registers at the same time (clash).     *)
Upset(events) == upsets' = upsets \cup events

Refused(open) == IF open THEN {} ELSE {"refused"}

Overlaps(other) == IF At(other, "idle") THEN {} ELSE {"overlap"}

Races ==
    IF todo["host"] # <<>> /\ Work("host").id \in Service THEN {"race"} ELSE {}

Edits(id) ==
    IF id \notin Service THEN {} ELSE
    IF At("brew", "idle") /\ At("cycle", "idle") THEN {"edited"} ELSE {"edited", "race"}

Adding == {"put_id", "put_new", "put_used"}

Clashes(t) ==
    IF \E u \in Tasks \ {t} : pc[u] \in Adding THEN {"clash"} ELSE {}

(* handle_hw and handle_hd, on the host task.                              *)
HostWrites ==
    /\ Move("host", "idle", "next")
    /\ \E id \in HostIds, v \in HostValues :
         Works("host", <<Update("set", id, v, 1)>>) /\ Upset(Edits(id))
    /\ UNCHANGED <<family, stores, text, batchOpen, wearTick, value, slot, tally,
                   losses>>

HostErases ==
    /\ Move("host", "idle", "next")
    /\ \E id \in HostIds :
         Works("host", <<Update("erase", id, 0, 1)>>) /\ Upset(Edits(id))
    /\ UNCHANGED <<family, stores, text, batchOpen, wearTick, value, slot, tally,
                   losses>>

(* handle_hb: memory first, then the flash.                                *)
HostNames ==
    /\ Move("host", "idle", "name")
    /\ \E id \in NameIds, n \in NameTexts : names' = [names EXCEPT ![id] = n]
    /\ UNCHANGED <<family, stores, flashNames, batchOpen, wearTick, local, ghost,
                   losses>>

PersistName ==
    /\ Move("host", "name", "idle")
    /\ \E open \in Opens : flashNames' = IF open THEN names ELSE flashNames
    /\ UNCHANGED <<family, stores, names, batchOpen, wearTick, local, ghost, losses>>

CanCount(ids) == \A id \in ids : Get(id) < MaxCount

Owes(ids) == owed' = [id \in CountingRegisters |->
                        IF id \in ids THEN owed[id] + 1 ELSE owed[id]]

(* A brew of recipe s is charged: the batch is opened.                     *)
BrewCharged(s) ==
    /\ Move("brew", "idle", "next")
    /\ MayOverlap \/ At("cycle", "idle")
    /\ CanCount(CupCounters(family, s))
    /\ Works("brew", Wear(family, s))
    /\ batchOpen' \in Opens
    /\ Owes(CupCounters(family, s))
    /\ Upset(Refused(batchOpen') \cup Overlaps("cycle") \cup Races)
    /\ UNCHANGED <<family, stores, text, wearTick, value, slot, interrupted, losses>>

(* A cycle is over.                                                        *)
CycleServiced(k) ==
    LET counters == {CycleCounter(k, family)} \ {NoRegister}
    IN  /\ Move("cycle", "idle", "next")
        /\ MayOverlap \/ At("brew", "idle")
        /\ CanCount(counters)
        /\ Works("cycle", Serviced(family, k))
        /\ Owes(counters)
        /\ Upset(Overlaps("brew") \cup Races)
        /\ UNCHANGED <<family, stores, text, batchOpen, wearTick, value, slot,
                       interrupted, losses>>

SwitchFamily ==
    /\ family' \in InUse
    /\ UNCHANGED <<stores, text, batchOpen, wearTick, pc, local, ghost, losses>>

-----------------------------------------------------------------------------
(* One update after the other.                                             *)

Rest(t) == Works(t, Tail(todo[t]))

Pending(t, kinds) == At(t, "next") /\ todo[t] # <<>> /\ Work(t).do \in kinds

(* Mutant: a gauge goes down without end.                                  *)
Applies_NoFloor(u) ==
    /\ wearTick % u.every = 0
    /\ u.do = "warn" => Get(u.arg) < WarnBelow(u.arg)

Applies(u) ==
    /\ wearTick % u.every = 0
    /\ u.do = "dec"  => Get(u.id) > 0
    /\ u.do = "warn" => Get(u.arg) < WarnBelow(u.arg)

NewValue(u) ==
    CASE u.do = "inc"  -> Get(u.id) + 1
      [] u.do = "dec"  -> Get(u.id) - 1
      [] u.do = "warn" -> 1
      [] u.do = "set"  -> u.arg

Skip(t) ==
    /\ Pending(t, {"dec", "warn"})
    /\ ~Applies(Work(t))
    /\ Rest(t)
    /\ UNCHANGED <<family, stores, text, batchOpen, wearTick, pc, value, slot,
                   ghost, losses>>

(* The brews the family has counted, or those since the boot.              *)
Tick(t) ==
    /\ Pending(t, {"tick"})
    /\ wearTick' = IF Work(t).id = NoRegister THEN wearTick + 1 ELSE Get(Work(t).id)
    /\ Rest(t)
    /\ UNCHANGED <<family, stores, text, batchOpen, pc, value, slot, ghost, losses>>

(* nivona_store_get_num, and what becomes of the value ...                 *)
Compute(t) ==
    /\ Pending(t, {"inc", "dec", "warn", "set"})
    /\ Applies(Work(t))
    /\ Goto(t, "find")
    /\ value' = [value EXCEPT ![t] = NewValue(Work(t))]
    /\ UNCHANGED <<family, stores, text, batchOpen, wearTick, todo, slot, ghost,
                   losses>>

(* Mutant: the scan stops at the first entry that is free.                 *)
Find_FirstFree(t) ==
    LET fits == Holders(Work(t).id) \cup Free
    IN  /\ At(t, "find")
        /\ fits # {}
        /\ slot' = [slot EXCEPT ![t] = First(fits)]
        /\ Goto(t, "put_id")
        /\ Upset(Clashes(t))
        /\ UNCHANGED <<family, stores, text, batchOpen, wearTick, todo, value,
                       tally, losses>>

(* ... then set_num_mem: the entry of the register, or else the first free *)
(* one, or none when the table is full.                                    *)
Find(t) ==
    LET id == Work(t).id
        fits == IF Has(id) THEN Holders(id) ELSE Free
    IN  /\ At(t, "find")
        /\ slot' = [slot EXCEPT ![t] = IF fits = {} THEN 0 ELSE First(fits)]
        /\ Goto(t, IF Has(id) THEN "put_value" ELSE
                   IF Free = {} THEN "persist" ELSE "put_id")
        /\ Upset(IF Has(id) \/ Free = {} THEN {} ELSE Clashes(t))
        /\ UNCHANGED <<family, stores, text, batchOpen, wearTick, todo, value,
                       tally, losses>>

Writes(t, entry) == table' = [table EXCEPT ![slot[t]] = entry]

PutId(t) ==
    /\ Move(t, "put_id", "put_new")
    /\ Writes(t, [table[slot[t]] EXCEPT !.id = Work(t).id])
    /\ UNCHANGED <<family, flash, durable, text, batchOpen, wearTick, local, ghost,
                   losses>>

PutNew(t) ==
    /\ Move(t, "put_new", "put_used")
    /\ Writes(t, [table[slot[t]] EXCEPT !.value = value[t]])
    /\ UNCHANGED <<family, flash, durable, text, batchOpen, wearTick, local, ghost,
                   losses>>

PutUsed(t) ==
    /\ Move(t, "put_used", "persist")
    /\ Writes(t, [table[slot[t]] EXCEPT !.used = TRUE])
    /\ UNCHANGED <<family, flash, durable, text, batchOpen, wearTick, local, ghost,
                   losses>>

PutValue(t) ==
    /\ Move(t, "put_value", "persist")
    /\ Writes(t, [table[slot[t]] EXCEPT !.value = value[t]])
    /\ UNCHANGED <<family, flash, durable, text, batchOpen, wearTick, local, ghost,
                   losses>>

(* nivona_store_set_num opens, sets, commits and closes; within a batch    *)
(* only the set is done now.                                               *)
Persist(t) ==
    LET id == Work(t).id
    IN  /\ Move(t, "persist", "next")
        /\ \E open \in IF t = "brew" THEN {batchOpen} ELSE Opens :
             /\ flash' = IF open THEN Put(flash, id, value[t]) ELSE flash
             /\ durable' = IF open /\ t # "brew"
                           THEN Put(durable, id, value[t]) ELSE durable
             /\ Upset(Refused(open))
        /\ Rest(t)
        /\ value' = [value EXCEPT ![t] = 0] /\ slot' = [slot EXCEPT ![t] = 0]
        /\ UNCHANGED <<family, table, text, batchOpen, wearTick, tally, losses>>

(* nivona_store_erase_num: the entry goes first, then what the flash has.  *)
Erase(t) ==
    LET id == Work(t).id
    IN  /\ Pending(t, {"erase"})
        /\ Goto(t, "erase")
        /\ table' = IF Has(id)
                    THEN [table EXCEPT ![First(Holders(id))].used = FALSE,
                                       ![First(Holders(id))].value = 0]
                    ELSE table
        /\ UNCHANGED <<family, flash, durable, text, batchOpen, wearTick, local,
                       ghost, losses>>

Without(f, id) == [i \in DOMAIN f \ {id} |-> f[i]]

EraseFlash(t) ==
    LET id == Work(t).id
    IN  /\ Move(t, "erase", "next")
        /\ \E open \in Opens :
             /\ flash' = IF open THEN Without(flash, id) ELSE flash
             /\ durable' = IF open THEN Without(durable, id) ELSE durable
             /\ Upset(Refused(open))
        /\ Rest(t)
        /\ UNCHANGED <<family, table, text, batchOpen, wearTick, value, slot, tally,
                       losses>>

(* Mutant: the batch is closed and not committed.                          *)
Finish_NoCommit(t) ==
    /\ Move(t, "next", "idle")
    /\ todo[t] = <<>>
    /\ batchOpen' = (batchOpen /\ t # "brew")
    /\ UNCHANGED <<family, stores, text, wearTick, local, ghost, losses>>

(* Nothing is left to do; a brew commits its batch and closes it.          *)
Finish(t) ==
    /\ Move(t, "next", "idle")
    /\ todo[t] = <<>>
    /\ durable' = IF t = "brew" /\ batchOpen THEN flash ELSE durable
    /\ batchOpen' = (batchOpen /\ t # "brew")
    /\ UNCHANGED <<family, table, flash, text, wearTick, local, ghost, losses>>

(* The power goes, or the firmware restarts; of what was not committed any *)
(* part may be lost.                                                       *)
Uncommitted ==
    {i \in DOMAIN flash \cup DOMAIN durable :
        \/ (i \in DOMAIN flash) # (i \in DOMAIN durable)
        \/ i \in DOMAIN flash \cap DOMAIN durable /\ flash[i] # durable[i]}

Survivor(lost) ==
    [i \in (DOMAIN flash \ lost) \cup (DOMAIN durable \cap lost) |->
        IF i \in lost THEN durable[i] ELSE flash[i]]

Reboot ==
    /\ losses < MaxLosses
    /\ losses' = losses + 1
    /\ \E lost \in SUBSET Uncommitted :
         LET found == Survivor(lost)
         IN  /\ flash' = Seeded(found, family)
             /\ durable' = Seeded(found, family)
             /\ table' = Table(Seeded(found, family), Remembered(found, family))
    /\ names' = SeededNames(flashNames) /\ flashNames' = SeededNames(flashNames)
    /\ batchOpen' = FALSE /\ wearTick' = 0
    /\ pc' = NoWork.pc /\ todo' = NoWork.todo
    /\ value' = NoWork.zero /\ slot' = NoWork.zero
    /\ interrupted' = IF At("brew", "idle") /\ At("cycle", "idle")
                      THEN interrupted ELSE interrupted + 1
    /\ UNCHANGED <<family, owed, upsets>>

-----------------------------------------------------------------------------
Step(t) ==
    \/ Skip(t) \/ Tick(t) \/ Compute(t) \/ Find(t)
    \/ PutId(t) \/ PutNew(t) \/ PutUsed(t) \/ PutValue(t)
    \/ Persist(t) \/ Erase(t) \/ EraseFlash(t) \/ Finish(t)

Next ==
    \/ HostWrites \/ HostErases \/ HostNames \/ PersistName
    \/ \E s \in Selectors : BrewCharged(s)
    \/ \E k \in Kinds : CycleServiced(k)
    \/ SwitchFamily
    \/ \E t \in Tasks : Step(t)
    \/ Reboot

Spec == Init /\ [][Next]_vars

-----------------------------------------------------------------------------
Registered == DOMAIN Stored \cup HostIds \cup CountingRegisters
                  \cup UNION {Seeds(f) : f \in FamilyKeys}

(* What a register may hold.                                               *)
Sound(id, v) ==
    /\ v \in Int
    /\ id \in CountingRegisters => v \in Nat
    /\ id \in Gauges => v \in 0..100
    /\ id \in {Warning(g) : g \in Gauges} => v \in {0, 1}

(* The machines the properties below are about: a table with room for all  *)
(* the registers, recipes that some family has, and a flash the firmware   *)
(* has written.                                                            *)
Steady ==
    /\ IsFiniteSet(Registered) /\ Cardinality(Registered) <= NUM_CAP
    /\ \A s \in Selectors : \E f \in FamilyKeys : RecipeCategories(f, s) # {}
    /\ HostValues \subseteq Int
    /\ Stored = [id \in DOMAIN Stored |-> Stored[id]]
    /\ \A id \in DOMAIN Stored : Sound(id, Stored[id])

(* ... with warnings that were right when the power went.                  *)
Kept(id) == IF id \in DOMAIN Stored THEN Stored[id] ELSE SeedValue(id)

WarnedRight ==
    \A g \in Gauges \ {FROTHER} :
        Kept(Warning(g)) = IF Kept(g) < WarnBelow(g) THEN 1 ELSE 0

Places == {"idle", "next", "name", "find", "put_id", "put_new", "put_used",
           "put_value", "persist", "erase"}

UpsetKinds == {"refused", "overlap", "race", "clash", "edited"}

(* Every variable has its type; a gauge is a percentage, a flag a bit.      *)
TypeOK ==
    /\ family \in InUse
    /\ table \in [Slots -> [id : Registered \cup {0}, value : Int, used : BOOLEAN]]
    /\ upsets = {} =>
          \A g \in Gauges : Get(g) \in 0..100 /\ Get(Warning(g)) \in {0, 1}
    /\ DOMAIN flash \subseteq Registered /\ \A i \in DOMAIN flash : flash[i] \in Int
    /\ DOMAIN durable \subseteq Registered
    /\ batchOpen \in BOOLEAN /\ wearTick \in Nat
    /\ pc \in [Tasks -> Places]
    /\ slot \in [Tasks -> Slots \cup {0}]
    /\ owed \in [CountingRegisters -> Int] /\ interrupted \in Nat
    /\ upsets \subseteq UpsetKinds

Settled(t) == At(t, "idle")
AtRest     == \A t \in Tasks : Settled(t)

(* The tasks have kept out of each other's way, and no nvs_open failed.    *)
Calm == upsets \subseteq {"edited"}

(* ... and the app has left the registers of the machine alone.            *)
Untroubled == upsets = {}

(* A register gets a second entry in the table only of two tasks that add  *)
(* registers at the same time.  Adding and removing at different times, or *)
(* next to a task that changes what is there, keeps one entry each.        *)
UniqueEntries ==
    "clash" \notin upsets =>
        \A s, r \in Slots :
            table[s].used /\ table[r].used /\ table[s].id = table[r].id => s = r

(* Every charged brew and every finished cycle is counted once in each     *)
(* register its family counts it in; but each loss of power while one is   *)
(* being counted may cost that count.                                      *)
CountsEveryCup ==
    Settled("brew") /\ Settled("cycle") /\ Untroubled =>
        \A id \in CountingRegisters :
            Get(id) \in owed[id] - interrupted .. owed[id]

(* A gauge that is low says so, and one that is not does not, unless power *)
(* was lost between the gauge and its flag.                                *)
WarnsWhenLow ==
    Settled("brew") /\ Settled("cycle") /\ interrupted = 0 /\ Untroubled =>
        \A g \in Gauges \ {FROTHER} :
            Get(Warning(g)) = IF Get(g) < WarnBelow(g) THEN 1 ELSE 0

(* When no task is at work the table and the flash hold the same registers *)
(* with the same values, until an upset parts them.                        *)
MemoryIsFlash ==
    AtRest /\ Calm =>
        /\ \A id \in Registered : Has(id) <=> id \in DOMAIN flash
        /\ \A id \in DOMAIN flash : Get(id) = flash[id] /\ durable[id] = flash[id]

(* A restart changes no register that was readable before it.              *)
SurvivesReboot ==
    [][AtRest /\ Calm /\ losses' # losses =>
        \A id \in Registered : Has(id) => Has(id)' /\ Get(id)' = Get(id)]_vars

(* ... and no name.                                                        *)
NamesSurviveReboot ==
    [][At("host", "idle") /\ losses' # losses => names' = names]_vars
=============================================================================
