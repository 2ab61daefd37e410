---------------------------- MODULE RegistersSafety ----------------------------
(***************************************************************************)
(* What Registers promises in the case of Steady, proved for every size of *)
(* the table, every set of families, recipes, cycles and registers, and    *)
(* every content of the flash at the first boot.                           *)
(*                                                                         *)
(* Steady asks for room in the table and sane constants only.  What the    *)
(* tasks do to each other is in the theorems themselves, each of which     *)
(* says until which upsets it holds: Calm is a store on which no task has  *)
(* got in another's way, Untroubled one on which the app has not written a *)
(* register of the machine either.  The invariant has one half for each.   *)
(***************************************************************************)
EXTENDS Registers, FiniteSetTheorems, TLAPS

Warnings == {Warning(g) : g \in Gauges}

-----------------------------------------------------------------------------
(* THE TABLE, as a function T of its entries.                              *)

Entries == [id : Registered \cup {0}, value : Int, used : BOOLEAN]
Tables  == [Slots -> Entries]

Unique(T)     == \A s, r \in Slots :
                    T[s].used /\ T[r].used /\ T[s].id = T[r].id => s = r
HeldIn(T)     == {id \in Registered : \E s \in Slots : T[s].used /\ T[s].id = id}
ReadIn(T, id) == LET slots == {s \in Slots : T[s].used /\ T[s].id = id}
                 IN  IF slots # {} THEN T[First(slots)].value ELSE 0

Held == HeldIn(table)

LEMMA SlotsAre == Slots \subseteq Nat /\ NUM_CAP \in Nat \ {0}
  BY StoreAssumption DEF Slots

LEMMA FirstIsOnly ==
    ASSUME NEW s \in Nat
    PROVE  First({s}) = s
<1>1. \E r \in {s} : \A q \in {s} : r <= q
  OBVIOUS
<1> QED
  BY <1>1 DEF First

(* The first of some entries is one of them.                               *)
LEMMA FirstIn ==
    ASSUME NEW slots \in SUBSET Slots, slots # {}
    PROVE  First(slots) \in slots
<1>1. \E s \in slots : \A r \in slots : s <= r
  <2>1. slots \in SUBSET Nat
    BY SlotsAre
  <2>2. PICK s \in slots : \A r \in slots \ {s} : <<r, s>> \notin OpToRel(<, Nat)
    BY <2>1, NatLessThanWellFounded, WFMin
  <2>3. \A r \in slots \ {s} : <<r, s>> \in Nat \X Nat /\ ~(<<r, s>>[1] < <<r, s>>[2])
    <3>1. \A r \in slots \ {s} : <<r, s>> \in Nat \X Nat
      BY <2>1
    <3> QED
      BY <2>2, <3>1 DEF OpToRel
  <2>4. \A r \in slots \ {s} : ~(r < s)
    BY <2>3
  <2> QED
    BY <2>1, <2>4
<1> QED
  BY <1>1 DEF First

(* With one entry for each register, a scan reads it.                      *)
LEMMA ReadsEntry ==
    ASSUME NEW T, Unique(T), NEW s \in Slots, T[s].used
    PROVE  ReadIn(T, T[s].id) = T[s].value
<1>1. {r \in Slots : T[r].used /\ T[r].id = T[s].id} = {s}
  BY DEF Unique
<1>2. First({s}) = s
  BY FirstIsOnly, SlotsAre
<1> QED
  BY <1>1, <1>2 DEF ReadIn

LEMMA ReadsNothing ==
    ASSUME NEW T, NEW id \in Registered, id \notin HeldIn(T)
    PROVE  ReadIn(T, id) = 0
  BY DEF HeldIn, ReadIn

(* A write to one entry.                                                   *)
LEMMA OtherEntries ==
    ASSUME NEW T \in Tables, NEW U \in Tables, NEW r \in Slots, NEW id \in Registered,
           \A s \in Slots \ {r} : U[s] = T[s],
           T[r].used => T[r].id # id, U[r].used => U[r].id # id,
           Unique(T), Unique(U)
    PROVE  /\ id \in HeldIn(U) <=> id \in HeldIn(T)
           /\ ReadIn(U, id) = ReadIn(T, id)
<1>1. id \in HeldIn(U) <=> id \in HeldIn(T)
  BY DEF HeldIn
<1>2. CASE id \in HeldIn(T)
  <2>1. PICK s \in Slots : T[s].used /\ T[s].id = id
    BY <1>2 DEF HeldIn
  <2>2. U[s] = T[s]
    BY <2>1
  <2> QED
    BY <1>1, <2>1, <2>2, ReadsEntry
<1>3. CASE id \notin HeldIn(T)
  BY <1>1, <1>3, ReadsNothing
<1> QED
  BY <1>1, <1>2, <1>3

(* The entry becomes that of register id, which has no other.              *)
LEMMA EntryWritten ==
    ASSUME NEW T \in Tables, NEW U \in Tables, NEW r \in Slots, NEW id \in Registered,
           Unique(T), \A s \in Slots \ {r} : U[s] = T[s],
           U[r].used, U[r].id = id,
           \/ T[r].used /\ T[r].id = id
           \/ ~T[r].used /\ id \notin HeldIn(T)
    PROVE  /\ Unique(U)
           /\ HeldIn(U) = HeldIn(T) \cup {id}
           /\ ReadIn(U, id) = U[r].value
           /\ \A i \in Registered \ {id} : ReadIn(U, i) = ReadIn(T, i)
<1>1. \A s \in Slots \ {r} : T[s].used => T[s].id # id
  BY DEF Unique, HeldIn
<1>2. Unique(U)
  BY <1>1 DEF Unique
<1>3. \A i \in Registered \ {id} :
        (i \in HeldIn(U) <=> i \in HeldIn(T)) /\ ReadIn(U, i) = ReadIn(T, i)
  BY <1>2, OtherEntries
<1>4. id \in HeldIn(U) /\ HeldIn(U) \subseteq Registered /\ HeldIn(T) \subseteq Registered
  BY DEF HeldIn
<1>5. ReadIn(U, id) = U[r].value
  BY <1>2, ReadsEntry
<1> QED
  BY <1>2, <1>3, <1>4, <1>5

(* The entry is free before and after.                                     *)
LEMMA EntryFree ==
    ASSUME NEW T \in Tables, NEW U \in Tables, NEW r \in Slots,
           Unique(T), \A s \in Slots \ {r} : U[s] = T[s],
           ~U[r].used, ~T[r].used
    PROVE  /\ Unique(U)
           /\ HeldIn(U) = HeldIn(T)
           /\ \A i \in Registered : ReadIn(U, i) = ReadIn(T, i)
<1>1. Unique(U)
  BY DEF Unique
<1>2. \A i \in Registered :
        (i \in HeldIn(U) <=> i \in HeldIn(T)) /\ ReadIn(U, i) = ReadIn(T, i)
  BY <1>1, OtherEntries
<1>3. HeldIn(U) \subseteq Registered /\ HeldIn(T) \subseteq Registered
  BY DEF HeldIn
<1> QED
  BY <1>1, <1>2, <1>3

(* The entry of register id is freed.                                      *)
LEMMA EntryFreed ==
    ASSUME NEW T \in Tables, NEW U \in Tables, NEW r \in Slots, NEW id \in Registered,
           Unique(T), \A s \in Slots \ {r} : U[s] = T[s],
           ~U[r].used, T[r].used, T[r].id = id
    PROVE  /\ Unique(U)
           /\ HeldIn(U) = HeldIn(T) \ {id}
           /\ \A i \in Registered \ {id} : ReadIn(U, i) = ReadIn(T, i)
<1>1. Unique(U)
  BY DEF Unique
<1>2. \A i \in Registered \ {id} :
        (i \in HeldIn(U) <=> i \in HeldIn(T)) /\ ReadIn(U, i) = ReadIn(T, i)
  BY <1>1, OtherEntries
<1>3. HeldIn(U) \subseteq Registered /\ HeldIn(T) \subseteq Registered
  BY DEF HeldIn
<1>4. id \notin HeldIn(U)
  BY DEF Unique, HeldIn
<1> QED
  BY <1>1, <1>2, <1>3, <1>4

(* In a table with room for all, a register without an entry finds one.    *)
LEMMA Room ==
    ASSUME Steady, NEW T \in Tables, Unique(T), NEW id \in Registered,
           id \notin HeldIn(T), \A s \in Slots : T[s].used => T[s].id \in Registered
    PROVE  \E s \in Slots : ~T[s].used
<1> SUFFICES ASSUME \A s \in Slots : T[s].used PROVE FALSE
  OBVIOUS
<1> DEFINE f == [s \in Slots |-> T[s].id]
<1>1. f \in Injection(Slots, Registered \ {id})
  <2>1. f \in [Slots -> Registered \ {id}]
    BY DEF HeldIn
  <2>2. \A s, r \in Slots : f[s] = f[r] => s = r
    BY DEF Unique
  <2> QED
    BY <2>1, <2>2 DEF Injection, IsInjective
<1>2. IsFiniteSet(Registered) /\ Cardinality(Registered) <= NUM_CAP
      /\ Cardinality(Registered) \in Nat
  BY FS_CardinalityType DEF Steady
<1>3. IsFiniteSet(Registered \ {id})
      /\ Cardinality(Registered \ {id}) = Cardinality(Registered) - 1
  BY <1>2, FS_RemoveElement
<1>4. Cardinality(Slots) <= Cardinality(Registered \ {id})
  BY <1>1, <1>3, FS_Injection
<1>5. Cardinality(Slots) = NUM_CAP
  BY SlotsAre, FS_Interval DEF Slots
<1> QED
  BY <1>2, <1>3, <1>4, <1>5, SlotsAre

-----------------------------------------------------------------------------
(* THE BOOT.                                                               *)

(* A flash the store can meet at a boot.                                   *)
Flashes == UNION {[ids -> Int] : ids \in SUBSET Registered}

LEMMA FlashIs ==
    ASSUME NEW f, f = [i \in DOMAIN f |-> f[i]], DOMAIN f \subseteq Registered,
           \A i \in DOMAIN f : f[i] \in Int
    PROVE  f \in Flashes
<1>1. f \in [DOMAIN f -> Int]
  OBVIOUS
<1> QED
  BY <1>1 DEF Flashes

LEMMA FlashHas ==
    ASSUME NEW f \in Flashes
    PROVE  /\ DOMAIN f \subseteq Registered /\ f = [i \in DOMAIN f |-> f[i]]
           /\ \A i \in DOMAIN f : f[i] \in Int
<1>1. PICK ids \in SUBSET Registered : f \in [ids -> Int]
  BY DEF Flashes
<1> QED
  BY <1>1

LEMMA RegistersAre == Registered \subseteq Int
<1>1. \A f \in FamilyKeys : /\ stats(f).total \in Int /\ stats(f).via_app \in Int
                            /\ stats(f).rinse \in Int /\ stats(f).descale \in Int
                            /\ stats(f).clean_coffee \in Int
                            /\ stats(f).filter_change \in Int
  BY DEF stats, Counters, FamilyKeys
<1>2. \A f \in FamilyKeys, s \in Selectors : CupCounters(f, s) \subseteq Int
  <2> SUFFICES ASSUME NEW f \in FamilyKeys, NEW s \in Selectors
               PROVE  CupCounters(f, s) \subseteq Int
    OBVIOUS
  <2>1. RecipeMask(f) \subseteq Int
    BY DEF RecipeMask, FamilyKeys
  <2> QED
    BY <1>1, <2>1 DEF CupCounters, RecipeCounter
<1>3. \A f \in FamilyKeys, k \in Kinds : CycleCounter(k, f) \in Int
  BY <1>1 DEF CycleCounter, NoRegister
<1>4. CountingRegisters \subseteq Int
  <2> SUFFICES ASSUME NEW id \in CountingRegisters PROVE id \in Int
    OBVIOUS
  <2>1. CASE \E f \in InUse, s \in Selectors : id \in CupCounters(f, s)
    BY <1>2, <2>1, StoreAssumption
  <2>2. CASE \E k \in Kinds, f \in InUse : id = CycleCounter(k, f)
    BY <1>3, <2>2, StoreAssumption
  <2>3. \/ id \in UNION {CupCounters(f, s) : f \in InUse, s \in Selectors}
        \/ id \in {CycleCounter(k, f) : k \in Kinds, f \in InUse}
    BY DEF CountingRegisters
  <2> QED
    BY <2>1, <2>2, <2>3
<1>5. \A f \in FamilyKeys : Seeds(f) \subseteq Int
  BY DEF FamilyKeys, Seeds, Gauges, Warning, DESCALE, BU_CLEAN, FROTHER, FILTER,
     filter_dep_id
<1> QED
  BY <1>4, <1>5, StoreAssumption DEF Registered

(* The places of the members of a finite set of numbers are different, and *)
(* there are no more of them than members.                                 *)
LEMMA PlacesDiffer ==
    ASSUME NEW ids \in SUBSET Registered, IsFiniteSet(ids)
    PROVE  /\ \A id \in ids : Place(id, ids) \in Nat /\ Place(id, ids) < Cardinality(ids)
           /\ \A id, jd \in ids : Place(id, ids) = Place(jd, ids) => id = jd
<1> DEFINE Below(id) == {i \in ids : i < id}
<1>1. \A id \in ids : /\ IsFiniteSet(Below(id)) /\ Cardinality(Below(id)) \in Nat
                      /\ Cardinality(Below(id)) < Cardinality(ids)
  <2> SUFFICES ASSUME NEW id \in ids
               PROVE  /\ IsFiniteSet(Below(id)) /\ Cardinality(Below(id)) \in Nat
                      /\ Cardinality(Below(id)) < Cardinality(ids)
    OBVIOUS
  <2>1. Below(id) \in SUBSET ids /\ id \notin Below(id)
    BY RegistersAre
  <2>2. /\ IsFiniteSet(Below(id)) /\ Cardinality(Below(id)) <= Cardinality(ids)
        /\ Cardinality(Below(id)) # Cardinality(ids)
    BY <2>1, FS_Subset
  <2> HIDE DEF Below
  <2> QED
    BY <2>2, FS_CardinalityType
<1>2. \A id, jd \in ids : id < jd => Cardinality(Below(id)) < Cardinality(Below(jd))
  <2> SUFFICES ASSUME NEW id \in ids, NEW jd \in ids, id < jd
               PROVE  Cardinality(Below(id)) < Cardinality(Below(jd))
    OBVIOUS
  <2>0. \A i \in ids : i \in Int
    BY RegistersAre
  <2>1. Below(id) \in SUBSET Below(jd) /\ id \in Below(jd) /\ id \notin Below(id)
    <3>1. \A i \in ids : i < id => i < jd
      BY <2>0
    <3> QED
      BY <2>0, <3>1
  <2>2. /\ Cardinality(Below(id)) <= Cardinality(Below(jd))
        /\ Cardinality(Below(id)) # Cardinality(Below(jd))
    BY <1>1, <2>1, FS_Subset
  <2> HIDE DEF Below
  <2> QED
    BY <1>1, <2>2
<1>3. \A id \in ids : Place(id, ids) = Cardinality(Below(id))
  BY DEF Place
<1>4. \A id, jd \in ids : id = jd \/ id < jd \/ jd < id
  BY RegistersAre
<1> HIDE DEF Below
<1> QED
  BY <1>1, <1>2, <1>3, <1>4

(* nvs_load_all: every register finds an entry, and one of its own.        *)
LEMMA TableLoaded ==
    ASSUME Steady, NEW f \in Flashes
    PROVE  /\ Table(f, DOMAIN f) \in Tables /\ Unique(Table(f, DOMAIN f))
           /\ \A s \in Slots : Table(f, DOMAIN f)[s].used
                                    => Table(f, DOMAIN f)[s].id \in Registered
           /\ HeldIn(Table(f, DOMAIN f)) = DOMAIN f
           /\ \A id \in DOMAIN f : ReadIn(Table(f, DOMAIN f), id) = f[id]
<1> DEFINE ids == DOMAIN f
           T == Table(f, ids)
           At_(s) == CHOOSE id \in ids : Place(id, ids) = s - 1
<1>1. ids \in SUBSET Registered /\ \A i \in ids : f[i] \in Int
  BY FlashHas
<1>2. IsFiniteSet(ids) /\ Cardinality(ids) <= NUM_CAP /\ Cardinality(ids) \in Nat
  BY <1>1, FS_Subset, FS_CardinalityType, SlotsAre DEF Steady
<1>3. /\ \A id \in ids : Place(id, ids) \in Nat /\ Place(id, ids) < NUM_CAP
      /\ \A id, jd \in ids : Place(id, ids) = Place(jd, ids) => id = jd
  <2> HIDE DEF ids
  <2> QED
    BY <1>1, <1>2, SlotsAre, PlacesDiffer
<1>4. \A s \in Slots : \A id \in ids :
        Place(id, ids) = s - 1 => T[s] = [id |-> id, value |-> f[id], used |-> TRUE]
  <2> SUFFICES ASSUME NEW s \in Slots, NEW id \in ids, Place(id, ids) = s - 1
               PROVE  T[s] = [id |-> id, value |-> f[id], used |-> TRUE]
    OBVIOUS
  <2>1. At_(s) \in ids /\ Place(At_(s), ids) = s - 1
    OBVIOUS
  <2>2. At_(s) = id
    BY <1>3, <2>1
  <2>3. T[s] = [id |-> At_(s), value |-> f[At_(s)], used |-> TRUE]
    BY DEF Table
  <2> QED
    BY <2>2, <2>3
<1>5. \A s \in Slots : ~(\E id \in ids : Place(id, ids) = s - 1) => T[s] = Empty
  BY DEF Table
<1>6. T = [s \in Slots |-> T[s]]
  BY DEF Table
<1> HIDE DEF T, ids
<1>7. \A s \in Slots : T[s] \in Entries /\ (T[s].used =>
                          T[s].id \in ids /\ Place(T[s].id, ids) = s - 1
                              /\ T[s].value = f[T[s].id])
  <2> SUFFICES ASSUME NEW s \in Slots
               PROVE  T[s] \in Entries /\ (T[s].used =>
                          T[s].id \in ids /\ Place(T[s].id, ids) = s - 1
                              /\ T[s].value = f[T[s].id])
    OBVIOUS
  <2>1. CASE \E id \in ids : Place(id, ids) = s - 1
    <3>1. PICK id \in ids : Place(id, ids) = s - 1
      BY <2>1
    <3>2. T[s] = [id |-> id, value |-> f[id], used |-> TRUE]
      BY <1>4, <3>1
    <3> QED
      BY <1>1, <3>1, <3>2 DEF Entries
  <2>2. CASE ~\E id \in ids : Place(id, ids) = s - 1
    <3>1. T[s] = [id |-> 0, value |-> 0, used |-> FALSE]
      BY <1>5, <2>2 DEF Empty
    <3> QED
      BY <3>1 DEF Entries
  <2> QED
    BY <2>1, <2>2
<1>8. T \in Tables
  BY <1>6, <1>7 DEF Tables
<1>9. Unique(T)
  BY <1>7, SlotsAre DEF Unique, Slots
<1>10. \A id \in ids : \E s \in Slots : T[s].used /\ T[s].id = id
  <2> SUFFICES ASSUME NEW id \in ids PROVE \E s \in Slots : T[s].used /\ T[s].id = id
    OBVIOUS
  <2> DEFINE s == Place(id, ids) + 1
  <2>1. s \in Slots /\ Place(id, ids) = s - 1
    BY <1>3, SlotsAre DEF Slots
  <2> HIDE DEF s
  <2>2. T[s] = [id |-> id, value |-> f[id], used |-> TRUE]
    BY <1>4, <2>1
  <2> QED
    BY <2>1, <2>2
<1>11. HeldIn(T) = ids
  BY <1>1, <1>7, <1>10 DEF HeldIn
<1>12. \A id \in ids : ReadIn(T, id) = f[id]
  BY <1>7, <1>9, <1>10, ReadsEntry
<1> QED
  BY <1>1, <1>7, <1>8, <1>9, <1>11, <1>12 DEF T, ids

(* ... then seed_defaults: the table holds what the flash then has.        *)
LEMMA Booted ==
    ASSUME Steady, NEW f \in Flashes, NEW fm \in FamilyKeys
    PROVE  /\ Seeded(f, fm) \in Flashes
           /\ DOMAIN Seeded(f, fm) = DOMAIN f \cup Seeds(fm)
           /\ \A id \in DOMAIN f : Seeded(f, fm)[id] = f[id]
           /\ \A id \in Seeds(fm) \ DOMAIN f : Seeded(f, fm)[id] = SeedValue(id)
           /\ Remembered(f, fm) = DOMAIN Seeded(f, fm)
<1>1. DOMAIN f \in SUBSET Registered /\ \A i \in DOMAIN f : f[i] \in Int
  BY FlashHas
<1>2. Seeds(fm) \in SUBSET Registered
  BY DEF Registered
<1>3. IsFiniteSet(DOMAIN f) /\ IsFiniteSet(Seeds(fm) \ DOMAIN f)
      /\ Cardinality(DOMAIN f) \in Nat /\ Cardinality(Seeds(fm) \ DOMAIN f) \in Nat
      /\ Cardinality(DOMAIN f) <= NUM_CAP
      /\ Cardinality(DOMAIN f) + Cardinality(Seeds(fm) \ DOMAIN f) <= NUM_CAP
  <2>1. IsFiniteSet(Registered) /\ Cardinality(Registered) <= NUM_CAP
        /\ Cardinality(Registered) \in Nat
    BY FS_CardinalityType DEF Steady
  <2>2. Seeds(fm) \ DOMAIN f \in SUBSET Registered
        /\ DOMAIN f \cup (Seeds(fm) \ DOMAIN f) \in SUBSET Registered
        /\ DOMAIN f \cap (Seeds(fm) \ DOMAIN f) = {}
    BY <1>1, <1>2
  <2>3. IsFiniteSet(DOMAIN f) /\ IsFiniteSet(Seeds(fm) \ DOMAIN f)
        /\ Cardinality(DOMAIN f) <= Cardinality(Registered)
    BY <1>1, <2>1, <2>2, FS_Subset
  <2>4. Cardinality(DOMAIN f) \in Nat /\ Cardinality(Seeds(fm) \ DOMAIN f) \in Nat
    BY <2>3, FS_CardinalityType
  <2>5. Cardinality(DOMAIN f \cup (Seeds(fm) \ DOMAIN f)) =
          Cardinality(DOMAIN f) + Cardinality(Seeds(fm) \ DOMAIN f)
    <3>1. Cardinality(DOMAIN f \cap (Seeds(fm) \ DOMAIN f)) = 0
      BY <2>2, FS_EmptySet
    <3>2. Cardinality(DOMAIN f \cup (Seeds(fm) \ DOMAIN f)) =
            Cardinality(DOMAIN f) + Cardinality(Seeds(fm) \ DOMAIN f)
              - Cardinality(DOMAIN f \cap (Seeds(fm) \ DOMAIN f))
      BY <2>3, FS_Union
    <3> QED
      BY <2>4, <3>1, <3>2
  <2>6. Cardinality(DOMAIN f \cup (Seeds(fm) \ DOMAIN f)) <= Cardinality(Registered)
    BY <2>1, <2>2, FS_Subset
  <2> QED
    BY <2>1, <2>3, <2>4, <2>5, <2>6, SlotsAre
<1>4. Loaded(f) = DOMAIN f
  BY <1>1, <1>3, PlacesDiffer, SlotsAre DEF Loaded
<1>5. Missing(f, fm) = Seeds(fm) \ DOMAIN f
  BY <1>4 DEF Missing
<1>6. Remembered(f, fm) = DOMAIN f \cup Seeds(fm)
  <2>1. Loaded(f) \ Missing(f, fm) = DOMAIN f
    BY <1>4, <1>5
  <2>2. \A id \in Missing(f, fm) :
          Place(id, Missing(f, fm)) < NUM_CAP - Cardinality(DOMAIN f)
    BY <1>2, <1>3, <1>5, PlacesDiffer, SlotsAre
  <2> QED
    BY <1>4, <1>5, <2>1, <2>2 DEF Remembered
<1>7. \A id : SeedValue(id) \in Int
  BY DEF SeedValue
<1>8. \A id \in DOMAIN f \cup Seeds(fm) :
        Seeded(f, fm)[id] = IF id \in DOMAIN f THEN f[id] ELSE SeedValue(id)
  BY <1>5 DEF Seeded
<1>9. DOMAIN Seeded(f, fm) = DOMAIN f \cup Seeds(fm)
      /\ Seeded(f, fm) = [id \in DOMAIN Seeded(f, fm) |-> Seeded(f, fm)[id]]
  BY DEF Seeded
<1>10. Seeded(f, fm) \in Flashes
  BY <1>1, <1>2, <1>7, <1>8, <1>9, FlashIs
<1> QED
  BY <1>6, <1>8, <1>9, <1>10

-----------------------------------------------------------------------------
(* THE UPDATES a task has to do.                                           *)

Wears == Gauges \ {FROTHER}
Flags == {Warning(g) : g \in Wears}

Updates == [do : {"inc", "dec", "tick", "warn", "set", "erase"}, id : Int,
            arg : Int, every : {1, 2, 5}]

Counts(u) == u.do = "inc" /\ u.id \in CountingRegisters /\ u.every = 1

HostUpdates ==
    {u \in Updates : u.do \in {"set", "erase"} /\ u.id \in HostIds /\ u.every = 1}
BrewUpdates ==
    {u \in Updates :
        \/ Counts(u)
        \/ u.do = "tick" /\ u.id \in CountingRegisters \cup {NoRegister}
        \/ u.do = "dec" /\ u.id \in Wears
        \/ u.do = "warn" /\ u.arg \in Wears /\ u.id = Warning(u.arg)}
CycleUpdates ==
    {u \in Updates :
        \/ Counts(u)
        \/ u.do = "set" /\ u.id \in Wears /\ u.arg = 100 /\ u.every = 1
        \/ u.do = "set" /\ u.id \in Flags /\ u.arg = 0 /\ u.every = 1}

(* The counters still to be counted, each of them once.                    *)
Incs(q)     == {q[i].id : i \in {j \in 1..Len(q) : q[j].do = "inc"}}
IncsOnce(q) == \A i, j \in 1..Len(q) :
                 q[i].do = "inc" /\ q[j].do = "inc" /\ q[i].id = q[j].id => i = j

(* What is done to a gauge is followed by what is done to its warning.     *)
Paired(q) ==
    \A i \in 1..Len(q) :
        /\ q[i].do # "inc" /\ q[i].id \in Wears =>
             /\ i < Len(q)
             /\ q[i+1].id = Warning(q[i].id) /\ q[i+1].every = q[i].every
             /\ q[i].do = "dec" => q[i+1].do = "warn"
             /\ q[i].do = "set" => q[i+1].do = "set"
        /\ q[i].do # "inc" /\ q[i].id \in Flags /\ i > 1 =>
             q[i-1].do # "inc" /\ q[i-1].id \in Wears

(* The tick is read before any gauge is looked at.                         *)
TickFirst(q) ==
    \A i, j \in 1..Len(q) : q[i].do = "tick" /\ q[j].do \in {"dec", "warn"} => i < j

Orderly(q) == IncsOnce(q) /\ Paired(q) /\ TickFirst(q)

LEMMA RegisterNumbers ==
    /\ Wears = {600, 610, 640} /\ Flags = {601, 611, 641} /\ NoRegister = 0
    /\ Gauges = {600, 610, 620, 640} /\ Warnings = {601, 611, 621, 641}
  BY DEF Wears, Flags, Warnings, Gauges, Warning, FROTHER, DESCALE, BU_CLEAN, FILTER,
     NoRegister

LEMMA RecipeNumbers ==
    ASSUME Steady, NEW s \in Selectors
    PROVE  s \in 0..10
<1>1. PICK f \in FamilyKeys : RecipeCategories(f, s) # {}
  BY DEF Steady
<1>2. PICK c \in Categories : s \in Recipes(f)[c]
  BY <1>1 DEF RecipeCategories
<1> QED
  BY <1>2 DEF Recipes, RecipeTable, FamilyKeys, Categories

LEMMA TotalNumbers ==
    ASSUME NEW f \in FamilyKeys
    PROVE  /\ stats(f).total \in {0, 213, 215} /\ stats(f).via_app \in {0, 221, 223}
           /\ stats(f).rinse \in 0..300 /\ stats(f).descale \in 0..300
           /\ stats(f).clean_coffee \in 0..300 /\ stats(f).filter_change \in 0..300
  BY DEF stats, Counters, FamilyKeys

LEMMA CycleNumbers ==
    ASSUME NEW f \in FamilyKeys, NEW k
    PROVE  CycleCounter(k, f) \in 0..300
  BY TotalNumbers DEF CycleCounter, NoRegister

LEMMA CupNumbers ==
    ASSUME Steady, NEW f \in FamilyKeys, NEW s \in Selectors
    PROVE  CupCounters(f, s) =
             (IF s \in RecipeMask(f) THEN {200 + s} ELSE {})
                 \cup ({stats(f).total, stats(f).via_app} \ {0})
  BY RecipeNumbers, TotalNumbers DEF CupCounters, RecipeCounter, NoRegister

LEMMA CountingNumbers ==
    ASSUME Steady
    PROVE  CountingRegisters \subseteq 1..300
<1> SUFFICES ASSUME NEW id \in CountingRegisters PROVE id \in 1..300
  OBVIOUS
<1>1. \/ id \in UNION {CupCounters(f, s) : f \in InUse, s \in Selectors}
      \/ id \in {CycleCounter(k, f) : k \in Kinds, f \in InUse} \ {NoRegister}
  BY DEF CountingRegisters
<1>2. ASSUME NEW f \in InUse, NEW s \in Selectors, id \in CupCounters(f, s)
      PROVE  id \in 1..300
  BY <1>2, StoreAssumption, CupNumbers, RecipeNumbers, TotalNumbers
<1>3. ASSUME NEW f \in InUse, NEW k \in Kinds, id = CycleCounter(k, f), id # NoRegister
      PROVE  id \in 1..300
  BY <1>3, StoreAssumption, CycleNumbers DEF NoRegister
<1> QED
  BY <1>1, <1>2, <1>3

LEMMA CountersCount ==
    ASSUME NEW f \in InUse
    PROVE  /\ \A s \in Selectors : CupCounters(f, s) \subseteq CountingRegisters
           /\ \A k \in Kinds : {CycleCounter(k, f)} \ {NoRegister} \subseteq CountingRegisters
  BY DEF CountingRegisters

LEMMA Numbers ==
    ASSUME Steady
    PROVE  /\ CountingRegisters \subseteq Registered /\ Gauges \subseteq Registered
           /\ Warnings \subseteq Registered /\ HostIds \subseteq Registered
           /\ CountingRegisters \cap (Gauges \cup Warnings) = {}
           /\ Service = CountingRegisters \cup Gauges \cup Warnings
           /\ \A f \in FamilyKeys : Gauges \cup Warnings \subseteq Seeds(f)
           /\ NoRegister \notin CountingRegisters
<1>1. \A f \in FamilyKeys : Gauges \cup Warnings \subseteq Seeds(f)
  BY DEF Seeds, Warnings
<1>2. Gauges \cup Warnings \subseteq Registered
  BY <1>1 DEF Registered, FamilyKeys
<1> QED
  BY <1>1, <1>2, CountingNumbers, RegisterNumbers DEF Registered, Service, Warnings

-----------------------------------------------------------------------------
(* Sequences of updates.                                                   *)

LEMMA Joined ==
    ASSUME NEW S, NEW a \in Seq(S), NEW b \in Seq(S)
    PROVE  /\ a \o b \in Seq(S) /\ Len(a \o b) = Len(a) + Len(b)
           /\ \A i \in 1..Len(a) : (a \o b)[i] = a[i]
           /\ \A i \in 1..Len(b) : (a \o b)[Len(a) + i] = b[i]
           /\ \A i \in 1..Len(a \o b) : i \in 1..Len(a)
                \/ (i - Len(a) \in 1..Len(b) /\ (a \o b)[i] = b[i - Len(a)])
  OBVIOUS

LEMMA JoinedIncs ==
    ASSUME NEW a \in Seq(Updates), NEW b \in Seq(Updates)
    PROVE  /\ Incs(a \o b) = Incs(a) \cup Incs(b)
           /\ IncsOnce(a) /\ IncsOnce(b) /\ Incs(a) \cap Incs(b) = {} => IncsOnce(a \o b)
<1> DEFINE c == a \o b
<1>1. /\ Len(c) = Len(a) + Len(b) /\ Len(a) \in Nat /\ Len(b) \in Nat
      /\ \A i \in 1..Len(a) : c[i] = a[i]
      /\ \A i \in 1..Len(b) : c[Len(a) + i] = b[i]
      /\ \A i \in 1..Len(c) : i \in 1..Len(a)
                \/ (i - Len(a) \in 1..Len(b) /\ c[i] = b[i - Len(a)])
  BY Joined
<1> HIDE DEF c
<1>2. Incs(c) \subseteq Incs(a) \cup Incs(b)
  <2> SUFFICES ASSUME NEW i \in 1..Len(c), c[i].do = "inc"
               PROVE  c[i].id \in Incs(a) \cup Incs(b)
    BY DEF Incs
  <2>1. CASE i \in 1..Len(a)
    BY <1>1, <2>1 DEF Incs
  <2>2. CASE i - Len(a) \in 1..Len(b) /\ c[i] = b[i - Len(a)]
    BY <2>2 DEF Incs
  <2> QED
    BY <1>1, <2>1, <2>2
<1>3. Incs(a) \subseteq Incs(c)
  BY <1>1 DEF Incs
<1>4. Incs(b) \subseteq Incs(c)
  <2> SUFFICES ASSUME NEW i \in 1..Len(b), b[i].do = "inc" PROVE b[i].id \in Incs(c)
    BY DEF Incs
  <2>1. Len(a) + i \in 1..Len(c) /\ c[Len(a) + i] = b[i]
    BY <1>1
  <2> QED
    BY <2>1 DEF Incs
<1>5. IncsOnce(a) /\ IncsOnce(b) /\ Incs(a) \cap Incs(b) = {} => IncsOnce(c)
  <2> SUFFICES ASSUME IncsOnce(a), IncsOnce(b), Incs(a) \cap Incs(b) = {},
                      NEW i \in 1..Len(c), NEW j \in 1..Len(c),
                      c[i].do = "inc", c[j].do = "inc", c[i].id = c[j].id
               PROVE  i = j
    BY DEF IncsOnce
  <2> DEFINE k == i - Len(a)
             l == j - Len(a)
  <2>0. /\ i \in 1..Len(a) => c[i] = a[i] /\ c[i].id \in Incs(a)
        /\ j \in 1..Len(a) => c[j] = a[j] /\ c[j].id \in Incs(a)
    BY <1>1 DEF Incs
  <2>5. i \notin 1..Len(a) => k \in 1..Len(b) /\ c[i] = b[k] /\ c[i].id \in Incs(b)
    <3>1. i \notin 1..Len(a) => k \in 1..Len(b) /\ c[i] = b[k]
      BY <1>1
    <3> HIDE DEF k
    <3> QED
      BY <3>1 DEF Incs
  <2>6. j \notin 1..Len(a) => l \in 1..Len(b) /\ c[j] = b[l] /\ c[j].id \in Incs(b)
    <3>1. j \notin 1..Len(a) => l \in 1..Len(b) /\ c[j] = b[l]
      BY <1>1
    <3> HIDE DEF l
    <3> QED
      BY <3>1 DEF Incs
  <2>1. CASE i \in 1..Len(a) /\ j \in 1..Len(a)
    BY <2>0, <2>1 DEF IncsOnce
  <2>2. CASE i \notin 1..Len(a) /\ j \notin 1..Len(a)
    <3>1. k = l
      <4> HIDE DEF k, l
      <4> QED
        BY <2>2, <2>5, <2>6 DEF IncsOnce
    <3> QED
      BY <1>1, <3>1
  <2>3. CASE i \in 1..Len(a) /\ j \notin 1..Len(a)
    BY <2>0, <2>3, <2>6
  <2>4. CASE i \notin 1..Len(a) /\ j \in 1..Len(a)
    BY <2>0, <2>4, <2>5
  <2> QED
    BY <2>1, <2>2, <2>3, <2>4
<1> QED
  BY <1>2, <1>3, <1>4, <1>5 DEF c

(* The rest of the updates, when the first is done.                        *)
LEMMA RestIsOrderly ==
    ASSUME NEW S \in SUBSET Updates, NEW q \in Seq(S), q # <<>>, Orderly(q)
    PROVE  /\ Tail(q) \in Seq(S) /\ Orderly(Tail(q)) /\ Head(q) = q[1] /\ Head(q) \in S
           /\ Incs(Tail(q)) = Incs(q) \ (IF Head(q).do = "inc" THEN {Head(q).id} ELSE {})
<1> DEFINE r == Tail(q)
<1>1. /\ r \in Seq(S) /\ Len(q) \in Nat \ {0} /\ Len(r) = Len(q) - 1
      /\ \A i \in 1..Len(r) : r[i] = q[i + 1] /\ i + 1 \in 1..Len(q)
      /\ Head(q) = q[1] /\ 1 \in 1..Len(q) /\ Head(q) \in S
  OBVIOUS
<1> HIDE DEF r
<1>2. IncsOnce(r)
  BY <1>1 DEF Orderly, IncsOnce
<1>3. Paired(r)
  <2> SUFFICES ASSUME NEW i \in 1..Len(r)
               PROVE  /\ r[i].do # "inc" /\ r[i].id \in Wears =>
                           /\ i < Len(r)
                           /\ r[i+1].id = Warning(r[i].id) /\ r[i+1].every = r[i].every
                           /\ r[i].do = "dec" => r[i+1].do = "warn"
                           /\ r[i].do = "set" => r[i+1].do = "set"
                      /\ r[i].do # "inc" /\ r[i].id \in Flags /\ i > 1 =>
                           r[i-1].do # "inc" /\ r[i-1].id \in Wears
    BY DEF Paired
  <2>1. i + 1 \in 1..Len(q) /\ r[i] = q[i + 1] /\ i + 1 > 1 /\ (i + 1) - 1 = i
    BY <1>1
  <2>2. i < Len(r) => r[i + 1] = q[(i + 1) + 1] /\ (i + 1) < Len(q)
    BY <1>1
  <2>3. i > 1 => r[i - 1] = q[i]
    BY <1>1
  <2>4. (i + 1) < Len(q) => i < Len(r)
    BY <1>1
  <2> HIDE DEF r
  <2> QED
    BY <2>1, <2>2, <2>3, <2>4 DEF Orderly, Paired
<1>4. TickFirst(r)
  <2> SUFFICES ASSUME NEW i \in 1..Len(r), NEW j \in 1..Len(r),
                      r[i].do = "tick", r[j].do \in {"dec", "warn"}
               PROVE  i < j
    BY DEF TickFirst
  <2>1. i + 1 \in 1..Len(q) /\ j + 1 \in 1..Len(q) /\ r[i] = q[i + 1] /\ r[j] = q[j + 1]
    BY <1>1
  <2>2. i + 1 < j + 1
    BY <2>1 DEF Orderly, TickFirst
  <2> QED
    BY <2>2
<1>5. Incs(q) = Incs(r) \cup (IF Head(q).do = "inc" THEN {Head(q).id} ELSE {})
  <2>1. \A i \in 1..Len(q) : i = 1 \/ (i - 1 \in 1..Len(r) /\ r[i - 1] = q[i])
    BY <1>1
  <2>2. Incs(q) \subseteq Incs(r) \cup (IF Head(q).do = "inc" THEN {Head(q).id} ELSE {})
    <3> SUFFICES ASSUME NEW i \in 1..Len(q), q[i].do = "inc"
                 PROVE  q[i].id \in Incs(r)
                            \cup (IF Head(q).do = "inc" THEN {Head(q).id} ELSE {})
      BY DEF Incs
    <3>1. CASE i = 1
      BY <1>1, <3>1
    <3>2. CASE i - 1 \in 1..Len(r) /\ r[i - 1] = q[i]
      BY <3>2 DEF Incs
    <3> QED
      BY <2>1, <3>1, <3>2
  <2>3. Incs(r) \subseteq Incs(q)
    BY <1>1 DEF Incs
  <2>4. Head(q).do = "inc" => Head(q).id \in Incs(q)
    BY <1>1 DEF Incs
  <2> QED
    BY <2>2, <2>3, <2>4
<1>6. Head(q).do = "inc" => Head(q).id \notin Incs(r)
  BY <1>1 DEF Incs, Orderly, IncsOnce
<1> QED
  BY <1>1, <1>2, <1>3, <1>4, <1>5, <1>6 DEF Orderly, r

-----------------------------------------------------------------------------
(* What a brew and a cycle have to write.                                  *)

LEMMA Bumped ==
    ASSUME NEW id \in CountingRegisters \cup {NoRegister}, id \in Int
    PROVE  /\ Bump(id) \in Seq({u \in Updates : Counts(u)})
           /\ Len(Bump(id)) <= 1 /\ Incs(Bump(id)) = {id} \ {NoRegister}
           /\ IncsOnce(Bump(id))
<1>1. CASE id = NoRegister
  BY <1>1 DEF Bump, Incs, IncsOnce
<1>2. CASE id # NoRegister
  <2> DEFINE u == Update("inc", id, 0, 1)
  <2>1. u \in {v \in Updates : Counts(v)} /\ u.do = "inc" /\ u.id = id
    BY <1>2 DEF Update, Updates, Counts
  <2>2. Bump(id) = <<u>>
    BY <1>2 DEF Bump
  <2> HIDE DEF u
  <2>3. Len(<<u>>) = 1 /\ <<u>>[1] = u /\ <<u>> \in Seq({v \in Updates : Counts(v)})
    BY <2>1
  <2>4. Incs(<<u>>) = {id}
    BY <2>1, <2>3 DEF Incs
  <2>5. IncsOnce(<<u>>)
    BY <2>3 DEF IncsOnce
  <2> QED
    BY <1>2, <2>2, <2>3, <2>4, <2>5
<1> QED
  BY <1>1, <1>2

(* The part of a charge that counts.                                       *)
Cups(f, s) ==
    (IF s \in RecipeMask(f) THEN Bump(RecipeCounter(s)) ELSE <<>>)
        \o Bump(stats(f).total) \o Bump(stats(f).via_app)

LEMMA CupsShape ==
    ASSUME Steady, NEW f \in InUse, NEW s \in Selectors
    PROVE  /\ Cups(f, s) \in Seq({u \in Updates : Counts(u)})
           /\ Incs(Cups(f, s)) = CupCounters(f, s)
           /\ IncsOnce(Cups(f, s))
<1> DEFINE a == IF s \in RecipeMask(f) THEN Bump(RecipeCounter(s)) ELSE <<>>
           b == Bump(stats(f).total)
           c == Bump(stats(f).via_app)
           C == {u \in Updates : Counts(u)}
<1>1. f \in FamilyKeys
  BY StoreAssumption
<1>2. /\ stats(f).total \in CountingRegisters \cup {NoRegister}
      /\ stats(f).via_app \in CountingRegisters \cup {NoRegister}
      /\ s \in RecipeMask(f) => RecipeCounter(s) \in CountingRegisters
  BY <1>1, CupNumbers, RecipeNumbers, CountersCount DEF RecipeCounter, NoRegister
<1>3. /\ stats(f).total \in {0, 213, 215} /\ stats(f).via_app \in {0, 221, 223}
      /\ RecipeCounter(s) \in 200..210
  BY <1>1, RecipeNumbers, TotalNumbers DEF RecipeCounter
<1>4. /\ b \in Seq(C) /\ Incs(b) = {stats(f).total} \ {0} /\ IncsOnce(b)
      /\ c \in Seq(C) /\ Incs(c) = {stats(f).via_app} \ {0} /\ IncsOnce(c)
  <2>1. stats(f).total \in Int /\ stats(f).via_app \in Int
    BY <1>3
  <2>2. b \in Seq(C) /\ Incs(b) = {stats(f).total} \ {0} /\ IncsOnce(b)
    BY <1>2, <2>1, Bumped DEF NoRegister
  <2>3. c \in Seq(C) /\ Incs(c) = {stats(f).via_app} \ {0} /\ IncsOnce(c)
    BY <1>2, <2>1, Bumped DEF NoRegister
  <2> QED
    BY <2>2, <2>3
<1>5. a \in Seq(C) /\ IncsOnce(a)
      /\ Incs(a) = (IF s \in RecipeMask(f) THEN {RecipeCounter(s)} ELSE {})
  <2>1. CASE s \in RecipeMask(f)
    BY <1>2, <1>3, <2>1, Bumped DEF NoRegister
  <2>2. CASE s \notin RecipeMask(f)
    <3>1. a = <<>> /\ <<>> \in Seq(C) /\ Len(<<>>) = 0
      BY <2>2
    <3>2. Incs(<<>>) = {} /\ IncsOnce(<<>>)
      BY DEF Incs, IncsOnce
    <3> QED
      BY <2>2, <3>1, <3>2
  <2> QED
    BY <2>1, <2>2
<1> HIDE DEF a, b, c
<1>6. \A q \in Seq(C) : q \in Seq(Updates)
  OBVIOUS
<1>7. a \o b \in Seq(C) /\ (a \o b) \o c \in Seq(C)
  BY <1>4, <1>5, Joined DEF C
<1>8. Incs(a \o b) = Incs(a) \cup Incs(b) /\ IncsOnce(a \o b)
  <2>1. Incs(a) \cap Incs(b) = {}
    BY <1>3, <1>4, <1>5
  <2> QED
    BY <2>1, <1>4, <1>5, <1>6, JoinedIncs
<1>9. Incs((a \o b) \o c) = Incs(a \o b) \cup Incs(c) /\ IncsOnce((a \o b) \o c)
  <2>1. Incs(a \o b) \cap Incs(c) = {}
    BY <1>3, <1>4, <1>5, <1>8
  <2> QED
    BY <2>1, <1>4, <1>6, <1>7, <1>8, JoinedIncs
<1>10. Cups(f, s) = (a \o b) \o c
  BY DEF Cups, a, b, c
<1>11. Incs((a \o b) \o c) = CupCounters(f, s)
  BY <1>1, <1>3, <1>4, <1>5, <1>8, <1>9, CupNumbers DEF RecipeCounter
<1> QED
  BY <1>7, <1>9, <1>10, <1>11

LEMMA TwoMore ==
    ASSUME NEW a \in Seq(BrewUpdates), NEW u \in BrewUpdates, NEW v \in BrewUpdates
    PROVE  LET b == a \o <<u, v>>
           IN  /\ b \in Seq(BrewUpdates) /\ Len(b) = Len(a) + 2
               /\ \A i \in 1..Len(a) : b[i] = a[i]
               /\ b[Len(a) + 1] = u /\ b[Len(a) + 2] = v
  OBVIOUS

LEMMA OneMore ==
    ASSUME NEW a \in Seq(BrewUpdates), NEW u \in BrewUpdates
    PROVE  LET b == a \o <<u>>
           IN  /\ b \in Seq(BrewUpdates) /\ Len(b) = Len(a) + 1
               /\ \A i \in 1..Len(a) : b[i] = a[i]
               /\ b[Len(a) + 1] = u
  OBVIOUS

LEMMA WearShape ==
    ASSUME Steady, NEW f \in InUse, NEW s \in Selectors
    PROVE  /\ Wear(f, s) \in Seq(BrewUpdates) /\ Orderly(Wear(f, s))
           /\ Incs(Wear(f, s)) = CupCounters(f, s)
<1> DEFINE a  == Cups(f, s)
           t  == Update("tick", stats(f).total, 0, 1)
           df == Update("dec", FILTER, 0, 1)
           wf == Update("warn", Warning(FILTER), FILTER, 1)
           du == Update("dec", BU_CLEAN, 0, 2)
           wu == Update("warn", Warning(BU_CLEAN), BU_CLEAN, 2)
           dd == Update("dec", DESCALE, 0, 5)
           wd == Update("warn", Warning(DESCALE), DESCALE, 5)
           b1 == a \o <<t>>
           b2 == b1 \o <<df, wf>>
           b3 == b2 \o <<du, wu>>
           b4 == b3 \o <<dd, wd>>
           n  == Len(a)
<1>1. /\ a \in Seq({u \in Updates : Counts(u)}) /\ Incs(a) = CupCounters(f, s)
      /\ IncsOnce(a)
  BY CupsShape
<1>2. Wear(f, s) = b4
  BY DEF Wear, Cups, Decay
<1>3. /\ t \in BrewUpdates /\ df \in BrewUpdates /\ wf \in BrewUpdates
      /\ du \in BrewUpdates /\ wu \in BrewUpdates /\ dd \in BrewUpdates
      /\ wd \in BrewUpdates
  <2>1. f \in FamilyKeys
    BY StoreAssumption
  <2>2. stats(f).total \in CountingRegisters \cup {NoRegister}
        /\ stats(f).total \in Int
    BY <2>1, CupNumbers, TotalNumbers, CountersCount DEF NoRegister
  <2> QED
    BY <2>2 DEF Update, Updates, BrewUpdates, Wears, Gauges, FROTHER, FILTER, BU_CLEAN,
       DESCALE, Warning
<1>4. /\ t.do = "tick" /\ df.do = "dec" /\ wf.do = "warn" /\ du.do = "dec"
      /\ wu.do = "warn" /\ dd.do = "dec" /\ wd.do = "warn"
      /\ df.id = 640 /\ wf.id = 641 /\ du.id = 610 /\ wu.id = 611 /\ dd.id = 600
      /\ wd.id = 601
      /\ df.every = wf.every /\ du.every = wu.every /\ dd.every = wd.every
      /\ t.id \in {0, 213, 215}
  BY StoreAssumption, TotalNumbers DEF Update, Warning, FILTER, BU_CLEAN, DESCALE
<1>5. a \in Seq(BrewUpdates) /\ (\A i \in 1..n : a[i].do = "inc") /\ n \in Nat
  <2>1. {u \in Updates : Counts(u)} \subseteq BrewUpdates
    BY DEF BrewUpdates
  <2> HIDE DEF a
  <2> QED
    BY <1>1, <2>1 DEF Counts
<1> HIDE DEF a, t, df, wf, du, wu, dd, wd
<1>6. /\ b1 \in Seq(BrewUpdates) /\ Len(b1) = n + 1 /\ b1[n + 1] = t
      /\ \A i \in 1..n : b1[i] = a[i]
  BY <1>3, <1>5, OneMore
<1> HIDE DEF b1
<1>7. /\ b2 \in Seq(BrewUpdates) /\ Len(b2) = n + 3 /\ b2[n + 2] = df /\ b2[n + 3] = wf
      /\ \A i \in 1..(n + 1) : b2[i] = b1[i]
  BY <1>3, <1>5, <1>6, TwoMore
<1> HIDE DEF b2
<1>8. /\ b3 \in Seq(BrewUpdates) /\ Len(b3) = n + 5 /\ b3[n + 4] = du /\ b3[n + 5] = wu
      /\ \A i \in 1..(n + 3) : b3[i] = b2[i]
  BY <1>3, <1>5, <1>7, TwoMore
<1> HIDE DEF b3
<1>9. /\ b4 \in Seq(BrewUpdates) /\ Len(b4) = n + 7 /\ b4[n + 6] = dd /\ b4[n + 7] = wd
      /\ \A i \in 1..(n + 5) : b4[i] = b3[i]
  BY <1>3, <1>5, <1>8, TwoMore
<1> HIDE DEF b4, n
<1>10. /\ \A i \in 1..n : b4[i] = a[i]
       /\ b4[n + 1] = t /\ b4[n + 2] = df /\ b4[n + 3] = wf /\ b4[n + 4] = du
       /\ b4[n + 5] = wu /\ b4[n + 6] = dd /\ b4[n + 7] = wd
  BY <1>5, <1>6, <1>7, <1>8, <1>9
<1>11. ASSUME NEW i \in 1..Len(b4)
       PROVE  \/ i \in 1..n /\ b4[i].do = "inc"
              \/ i = n + 1 /\ b4[i] = t
              \/ i = n + 2 /\ b4[i] = df
              \/ i = n + 3 /\ b4[i] = wf
              \/ i = n + 4 /\ b4[i] = du
              \/ i = n + 5 /\ b4[i] = wu
              \/ i = n + 6 /\ b4[i] = dd
              \/ i = n + 7 /\ b4[i] = wd
  <2>1. \/ i \in 1..n
        \/ i = n + 1 \/ i = n + 2 \/ i = n + 3 \/ i = n + 4 \/ i = n + 5 \/ i = n + 6
        \/ i = n + 7
    BY <1>5, <1>9
  <2> QED
    BY <1>5, <1>10, <2>1
<1>12. \A i \in 1..Len(b4) : b4[i].do = "inc" => i \in 1..n
  BY <1>4, <1>11
<1>13. IncsOnce(b4)
  BY <1>1, <1>10, <1>12 DEF IncsOnce, n
<1>14. Incs(b4) = Incs(a)
  <2>1. \A i \in 1..n : i \in 1..Len(b4)
    BY <1>5, <1>9
  <2>2. Incs(b4) \subseteq Incs(a)
    BY <1>10, <1>12 DEF Incs, n
  <2>3. Incs(a) \subseteq Incs(b4)
    BY <1>10, <2>1 DEF Incs, n
  <2> QED
    BY <2>2, <2>3
<1>15. TickFirst(b4)
  <2>1. \A i \in 1..Len(b4) : b4[i].do = "tick" => i = n + 1
    BY <1>4, <1>11
  <2>2. \A i \in 1..Len(b4) : b4[i].do \in {"dec", "warn"} =>
          i \in {n + 2, n + 3, n + 4, n + 5, n + 6, n + 7}
    BY <1>4, <1>11
  <2> QED
    BY <1>5, <2>1, <2>2 DEF TickFirst
<1>16. Paired(b4)
  <2>1. \A i \in 1..Len(b4) :
          /\ b4[i].do # "inc" /\ b4[i].id \in Wears => i \in {n + 2, n + 4, n + 6}
          /\ b4[i].do # "inc" /\ b4[i].id \in Flags => i \in {n + 3, n + 5, n + 7}
    <3>1. /\ t.id \notin Wears /\ df.id \notin Flags /\ du.id \notin Flags
          /\ dd.id \notin Flags /\ t.id \notin Flags /\ wf.id \notin Wears
          /\ wu.id \notin Wears /\ wd.id \notin Wears
      BY <1>4, RegisterNumbers
    <3> QED
      BY <1>11, <3>1
  <2>2. /\ n + 2 < Len(b4) /\ n + 4 < Len(b4) /\ n + 6 < Len(b4)
        /\ (n + 2) + 1 = n + 3 /\ (n + 4) + 1 = n + 5 /\ (n + 6) + 1 = n + 7
        /\ (n + 3) - 1 = n + 2 /\ (n + 5) - 1 = n + 4 /\ (n + 7) - 1 = n + 6
    BY <1>5, <1>9
  <2>3. /\ b4[n + 3].id = Warning(b4[n + 2].id) /\ b4[n + 5].id = Warning(b4[n + 4].id)
        /\ b4[n + 7].id = Warning(b4[n + 6].id)
    BY <1>4, <1>10 DEF Warning
  <2>4. /\ b4[n + 2].do = "dec" /\ b4[n + 4].do = "dec" /\ b4[n + 6].do = "dec"
        /\ b4[n + 2].id \in Wears /\ b4[n + 4].id \in Wears /\ b4[n + 6].id \in Wears
        /\ b4[n + 3].do = "warn" /\ b4[n + 5].do = "warn" /\ b4[n + 7].do = "warn"
        /\ b4[n + 3].every = b4[n + 2].every /\ b4[n + 5].every = b4[n + 4].every
        /\ b4[n + 7].every = b4[n + 6].every
    BY <1>4, <1>10, RegisterNumbers
  <2> SUFFICES ASSUME NEW i \in 1..Len(b4), b4[i].do # "inc"
               PROVE  /\ b4[i].id \in Wears =>
                           /\ i < Len(b4)
                           /\ b4[i+1].id = Warning(b4[i].id) /\ b4[i+1].every = b4[i].every
                           /\ b4[i].do = "dec" => b4[i+1].do = "warn"
                           /\ b4[i].do = "set" => b4[i+1].do = "set"
                      /\ b4[i].id \in Flags /\ i > 1 =>
                           b4[i-1].do # "inc" /\ b4[i-1].id \in Wears
    BY DEF Paired
  <2>5. CASE b4[i].id \in Wears
    <3>1. i \in {n + 2, n + 4, n + 6}
      BY <2>1, <2>5
    <3>2. i \notin {n + 3, n + 5, n + 7}
      BY <1>5, <3>1
    <3> QED
      BY <2>1, <2>2, <2>3, <2>4, <3>1, <3>2
  <2>6. CASE b4[i].id \notin Wears
    BY <2>1, <2>2, <2>4, <2>6
  <2> QED
    BY <2>5, <2>6
<1> QED
  BY <1>1, <1>2, <1>9, <1>13, <1>14, <1>15, <1>16 DEF Orderly

LEMMA ServicedShape ==
    ASSUME Steady, NEW f \in InUse, NEW k \in Kinds
    PROVE  /\ Serviced(f, k) \in Seq(CycleUpdates) /\ Orderly(Serviced(f, k))
           /\ Incs(Serviced(f, k)) = {CycleCounter(k, f)} \ {NoRegister}
           /\ Serviced(f, k) # <<>> /\ Head(Serviced(f, k)).do # "inc" =>
                Head(Serviced(f, k)).id \notin Flags
<1> DEFINE a == Bump(CycleCounter(k, f))
           g == CycleGauge(k)
           u == Update("set", g, 100, 1)
           v == Update("set", Warning(g), 0, 1)
           q == a \o <<u, v>>
           n == Len(a)
<1>1. /\ CycleCounter(k, f) \in CountingRegisters \cup {NoRegister}
      /\ CycleCounter(k, f) \in Int
  BY StoreAssumption, CycleNumbers, CountersCount
<1>2. /\ a \in Seq({w \in Updates : Counts(w)}) /\ n <= 1 /\ n \in Nat
      /\ Incs(a) = {CycleCounter(k, f)} \ {NoRegister} /\ IncsOnce(a)
  BY <1>1, Bumped
<1> HIDE DEF a
<1>3. a \in Seq(CycleUpdates) /\ \A i \in 1..n : a[i].do = "inc"
  BY <1>2 DEF CycleUpdates, Counts
<1>4. Orderly(a)
  BY <1>2, <1>3 DEF Orderly, Paired, TickFirst
<1>5. CASE g = NoRegister
  <2>1. a \o <<>> = a
    BY <1>3
  <2>2. Serviced(f, k) = a
    BY <1>5, <2>1 DEF Serviced, a
  <2>3. a # <<>> => Head(a).do = "inc"
    BY <1>2, <1>3
  <2> QED
    BY <1>2, <1>3, <1>4, <2>2, <2>3
<1>6. CASE g # NoRegister
  <2>1. g \in Wears
    BY <1>6 DEF CycleGauge, Wears, Gauges, DESCALE, BU_CLEAN, FILTER, FROTHER, NoRegister
  <2>2. /\ u.do = "set" /\ u.id = g /\ v.do = "set" /\ v.id = Warning(g)
        /\ u.every = v.every /\ g \in {600, 610, 640}
    BY <2>1, RegisterNumbers DEF Update
  <2>3. u \in CycleUpdates /\ v \in CycleUpdates
    BY <2>1, <2>2, RegisterNumbers DEF Update, Updates, CycleUpdates, Warning, Flags
  <2>4. Serviced(f, k) = q
    BY <1>6 DEF Serviced, a
  <2> HIDE DEF u, v, g
  <2>5. /\ q \in Seq(CycleUpdates) /\ Len(q) = n + 2
        /\ \A i \in 1..n : q[i] = a[i]
        /\ q[n + 1] = u /\ q[n + 2] = v
    BY <1>2, <1>3, <2>3
  <2> HIDE DEF q
  <2>6. \A i \in 1..Len(q) : i \in 1..n \/ i = n + 1 \/ i = n + 2
    BY <1>2, <2>5
  <2>7. \A i \in 1..Len(q) : q[i].do = "inc" => i \in 1..n
    BY <2>2, <2>5, <2>6
  <2>8. IncsOnce(q)
    BY <1>2, <2>5, <2>7 DEF IncsOnce
  <2>9. Incs(q) = Incs(a)
    <3>1. \A i \in 1..n : i \in 1..Len(q)
      BY <1>2, <2>5
    <3>2. Incs(q) \subseteq Incs(a)
      BY <2>5, <2>7 DEF Incs
    <3>3. Incs(a) \subseteq Incs(q)
      BY <2>5, <3>1 DEF Incs
    <3> QED
      BY <3>2, <3>3
  <2>10. TickFirst(q)
    BY <1>3, <2>2, <2>5, <2>6 DEF TickFirst
  <2>11. Paired(q)
    <3>1. \A i \in 1..Len(q) :
            /\ q[i].do # "inc" /\ q[i].id \in Wears => i = n + 1
            /\ q[i].do # "inc" /\ q[i].id \in Flags => i = n + 2
      BY <1>3, <2>2, <2>5, <2>6, RegisterNumbers DEF Warning
    <3>2. n + 1 < Len(q) /\ (n + 1) + 1 = n + 2 /\ (n + 2) - 1 = n + 1
      BY <1>2, <2>5
    <3> QED
      BY <2>1, <2>2, <2>5, <3>1, <3>2 DEF Paired
  <2>12. q # <<>> /\ Head(q).do # "inc" => Head(q).id \notin Flags
    <3>1. Head(q) = q[1] /\ 1 \in 1..Len(q)
      BY <1>2, <2>5
    <3>2. q[1].do = "inc" \/ q[1] = u
      BY <1>2, <1>3, <2>5, <3>1
    <3> QED
      BY <2>2, <3>1, <3>2, RegisterNumbers
  <2> QED
    BY <1>2, <2>4, <2>5, <2>8, <2>9, <2>10, <2>11, <2>12 DEF Orderly
<1> QED
  BY <1>5, <1>6

-----------------------------------------------------------------------------
(* THE INVARIANT.                                                          *)

Writing == {"find", "put_value", "persist"} \cup Adding
Workers == {"brew", "cycle"}

(* Where the tasks stand, and what they have to do there.                  *)
Shapes ==
    /\ family \in InUse
    /\ pc \in [Tasks -> Places] /\ pc["brew"] \notin {"name", "erase"}
    /\ pc["cycle"] \notin {"name", "erase"}
    /\ At("brew", "idle") \/ At("cycle", "idle")
    /\ batchOpen \in BOOLEAN /\ (batchOpen <=> ~At("brew", "idle"))
    /\ todo \in [Tasks -> Seq(Updates)]
    /\ todo["host"] \in Seq(HostUpdates) /\ todo["brew"] \in Seq(BrewUpdates)
    /\ todo["cycle"] \in Seq(CycleUpdates)
    /\ \A t \in Workers : Orderly(todo[t])
    /\ \A t \in Tasks : pc[t] \in {"idle", "name"} => todo[t] = <<>>
    /\ \A t \in Tasks : pc[t] \in Writing =>
                            todo[t] # <<>> /\ Work(t).do \notin {"tick", "erase"}
    /\ pc["host"] = "erase" => todo["host"] # <<>> /\ Work("host").do = "erase"
    /\ slot \in [Tasks -> Slots \cup {0}]

(* The app has one request at a time; when it is about a register of the   *)
(* machine, the machine is at rest.                                        *)
Apart ==
    todo["host"] # <<>> =>
        /\ Tail(todo["host"]) = <<>>
        /\ Work("host").id \in Service =>
              "edited" \in upsets /\ At("brew", "idle") /\ At("cycle", "idle")

(* Where a task writes the value of a register, or adds the register.      *)
Standing(t) ==
    /\ pc[t] = "put_value" =>
          slot[t] \in Slots /\ table[slot[t]].used /\ table[slot[t]].id = Work(t).id
    /\ pc[t] \in Adding =>
          slot[t] \in Slots /\ ~table[slot[t]].used /\ Work(t).id \notin Held
    /\ pc[t] \in {"put_new", "put_used"} => table[slot[t]].id = Work(t).id
    /\ pc[t] = "put_used" => table[slot[t]].value = value[t]

(* The table has one entry for a register.  A task that adds one adds it in *)
(* a free entry that no other task has found.                              *)
Entered ==
    /\ table \in Tables /\ \A s \in Slots : table[s].used => table[s].id \in Registered
    /\ Unique(table)
    /\ value \in [Tasks -> Int]
    /\ \A t \in Tasks : Standing(t)
    /\ \A t, u \in Tasks : pc[t] \in Adding /\ pc[u] \in Adding => t = u

(* A register that no task is about to write to the flash has one value    *)
(* there and in the table; what the brew did not write is committed.       *)
Untouched(id) ==
    \A t \in Tasks : pc[t] \in {"persist", "erase"} => Work(t).id # id

Agrees(id) == /\ id \in Held <=> id \in DOMAIN flash
              /\ id \in Held => Get(id) = flash[id]

Committed(id) == /\ id \in DOMAIN durable <=> id \in DOMAIN flash
                 /\ id \in DOMAIN flash => durable[id] = flash[id]

Mirrored ==
    /\ flash \in Flashes /\ durable \in Flashes
    /\ \A id \in Registered : Untouched(id) => Agrees(id)
    /\ \A t \in Tasks : pc[t] = "persist" =>
          Work(t).id \in Held /\ Get(Work(t).id) = value[t]
    /\ pc["host"] = "erase" => Work("host").id \notin Held
    /\ \A id \in Registered : (id \in Service => At("brew", "idle")) => Committed(id)

(* The gauges and their warnings are there from the first boot on.         *)
Present(ids) == Gauges \cup Warnings \subseteq ids

Equipped == Present(Held) /\ Present(DOMAIN flash) /\ Present(DOMAIN durable)

(* Whatever is stored, or about to be, is a value the register may have.   *)
SoundStore ==
    /\ wearTick \in Nat
    /\ \A id \in Held : Sound(id, Get(id))
    /\ \A id \in DOMAIN flash : Sound(id, flash[id])
    /\ \A id \in DOMAIN durable : Sound(id, durable[id])
    /\ \A t \in Tasks : pc[t] \in Writing => Sound(Work(t).id, value[t])

(* An update u, with the table T and the tick w: Applies and NewValue.      *)
AppliesIn(T, w, u) ==
    /\ w % u.every = 0
    /\ u.do = "dec"  => ReadIn(T, u.id) > 0
    /\ u.do = "warn" => ReadIn(T, u.arg) < WarnBelow(u.arg)

NewIn(T, u) ==
    CASE u.do = "inc"  -> ReadIn(T, u.id) + 1
      [] u.do = "dec"  -> ReadIn(T, u.id) - 1
      [] u.do = "warn" -> 1
      [] u.do = "set"  -> u.arg

(* What a task read when it began an update is still so when it writes.    *)
Intends(t) ==
    /\ pc[t] \in Writing \ {"persist"} =>
          AppliesIn(table, wearTick, Work(t)) /\ value[t] = NewIn(table, Work(t))
    /\ pc[t] = "persist" =>
          /\ wearTick % Work(t).every = 0
          /\ Work(t).do = "set" => value[t] = Work(t).arg
          /\ Work(t).do = "warn" =>
                value[t] = 1 /\ ReadIn(table, Work(t).arg) < WarnBelow(Work(t).arg)

Intended == \A t \in Tasks : Intends(t)

(* A counter has counted what it should, but for what is still to be done  *)
(* and, at most, one for each brew or cycle that power was taken from.     *)
Due(t, id) == /\ id \in Incs(todo[t])
              /\ ~(pc[t] = "persist" /\ Work(t).do = "inc" /\ Work(t).id = id)

Counted ==
    /\ owed \in [CountingRegisters -> Int] /\ interrupted \in Nat
    /\ \A id \in CountingRegisters :
          IF \E t \in Workers : Due(t, id)
          THEN Get(id) + 1 \in owed[id] - interrupted .. owed[id]
          ELSE Get(id) \in owed[id] - interrupted .. owed[id]

(* A loss of power now would cost a counter no more than one.              *)
Stands(f, id) == IF id \in DOMAIN f THEN f[id] ELSE 0

Behind ==
    \A id \in CountingRegisters :
        /\ Stands(flash, id) \in owed[id] - interrupted - 1 .. owed[id]
        /\ Stands(durable, id) \in owed[id] - interrupted - 1 .. owed[id]

(* A gauge and its warning fit, unless a task has changed the gauge and is *)
(* about to see to the warning.                                            *)
Right(g) == Get(Warning(g)) = IF Get(g) < WarnBelow(g) THEN 1 ELSE 0

Fixing(t, g) ==
    /\ todo[t] # <<>> /\ Work(t).do # "inc"
    /\ Work(t).id = Warning(g) \/ (Work(t).id = g /\ pc[t] = "persist")

Halfway(t, g) ==
    IF t = "brew"
    THEN /\ Get(Warning(g)) = 1 => Get(g) < WarnBelow(g)
         /\ wearTick % Work(t).every = 0 \/ Right(g)
    ELSE Get(g) = 100

Warned ==
    interrupted = 0 => \A g \in Wears :
        /\ Right(g) \/ \E t \in Workers : Fixing(t, g)
        /\ \A t \in Workers : Fixing(t, g) => Halfway(t, g)

-----------------------------------------------------------------------------
(* Where the tasks stand.                                                  *)

LEMMA UpdateKinds ==
    /\ HostUpdates \subseteq Updates /\ BrewUpdates \subseteq Updates
    /\ CycleUpdates \subseteq Updates
  BY DEF HostUpdates, BrewUpdates, CycleUpdates

LEMMA WorkIs ==
    ASSUME Steady, Shapes, NEW t \in Tasks, todo[t] # <<>>
    PROVE  /\ Work(t) = todo[t][1] /\ Work(t) \in Updates
           /\ t = "host" => Work(t) \in HostUpdates
           /\ t = "brew" => Work(t) \in BrewUpdates
           /\ t = "cycle" => Work(t) \in CycleUpdates
           /\ Work(t).do # "tick" =>
                Work(t).id \in Registered
                  /\ (t = "host" => Work(t).id \in HostIds)
                  /\ (t # "host" => Work(t).id \in Service)
<1>1. /\ t = "host" => Work(t) \in HostUpdates
      /\ t = "brew" => Work(t) \in BrewUpdates
      /\ t = "cycle" => Work(t) \in CycleUpdates
      /\ Work(t) = todo[t][1]
  BY DEF Shapes, Work, Tasks
<1>2. t = "host" \/ t = "brew" \/ t = "cycle"
  BY DEF Tasks
<1>3. Wears \subseteq Service /\ Flags \subseteq Service /\ CountingRegisters \subseteq Service
      /\ Service \subseteq Registered /\ HostIds \subseteq Registered
  BY Numbers, RegisterNumbers
<1>4. \A g \in Wears : Warning(g) \in Flags
  BY DEF Flags
<1> QED
  BY <1>1, <1>2, <1>3, <1>4, UpdateKinds
     DEF HostUpdates, BrewUpdates, CycleUpdates, Counts

(* While a brew or a cycle is at work the app leaves the machine alone.     *)
LEMMA HostAlone ==
    ASSUME Shapes, Apart, todo["host"] # <<>>, pc["brew"] # "idle" \/ pc["cycle"] # "idle"
    PROVE  Work("host").id \notin Service
  BY DEF Apart, At

(* Two tasks never work on the same register.                              *)
LEMMA WorkApart ==
    ASSUME Steady, Shapes, Apart, NEW t \in Tasks, NEW u \in Tasks, t # u,
           pc[t] \in Writing \cup {"erase"}, pc[u] \in Writing \cup {"erase"}
    PROVE  Work(t).id # Work(u).id
<1>1. todo[t] # <<>> /\ Work(t).do # "tick" /\ todo[u] # <<>> /\ Work(u).do # "tick"
  BY DEF Shapes, Tasks
<1>2. t = "host" \/ u = "host"
  BY DEF Shapes, Tasks, Writing, Adding, At
<1>3. pc["brew"] # "idle" \/ pc["cycle"] # "idle"
  BY DEF Tasks, Writing, Adding
<1>4. Work("host").id \notin Service
  BY <1>1, <1>2, <1>3, HostAlone
<1> QED
  BY <1>1, <1>2, <1>4, WorkIs

LEMMA HostWork ==
    ASSUME NEW u \in HostUpdates
    PROVE  <<u>> \in Seq(HostUpdates) /\ <<u>> \in Seq(Updates)
  BY UpdateKinds

LEMMA NoUpdates ==
    ASSUME NEW S
    PROVE  <<>> \in Seq(S) /\ Orderly(<<>>) /\ Incs(<<>>) = {}
  BY DEF Orderly, IncsOnce, Paired, TickFirst, Incs

LEMMA SeqWider ==
    ASSUME NEW S, NEW R, S \subseteq R, NEW q \in Seq(S)
    PROVE  q \in Seq(R)
  OBVIOUS

(* A task that has done an update goes on to the next.                     *)
LEMMA RestShapes ==
    ASSUME Steady, Shapes, NEW t \in Tasks, todo[t] # <<>>, Rest(t)
    PROVE  /\ todo' \in [Tasks -> Seq(Updates)]
           /\ todo'["host"] \in Seq(HostUpdates) /\ todo'["brew"] \in Seq(BrewUpdates)
           /\ todo'["cycle"] \in Seq(CycleUpdates)
           /\ \A u \in Workers : Orderly(todo'[u])
           /\ todo'[t] = Tail(todo[t]) /\ \A u \in Tasks \ {t} : todo'[u] = todo[u]
<1>1. todo'[t] = Tail(todo[t]) /\ \A u \in Tasks \ {t} : todo'[u] = todo[u]
  BY DEF Rest, Works, Shapes
<1>2. t = "host" => Tail(todo[t]) \in Seq(HostUpdates)
  BY DEF Shapes
<1>3. t = "brew" => Tail(todo[t]) \in Seq(BrewUpdates) /\ Orderly(Tail(todo[t]))
  BY UpdateKinds, RestIsOrderly DEF Shapes, Workers
<1>4. t = "cycle" => Tail(todo[t]) \in Seq(CycleUpdates) /\ Orderly(Tail(todo[t]))
  BY UpdateKinds, RestIsOrderly DEF Shapes, Workers
<1>5. Tail(todo[t]) \in Seq(Updates)
  BY <1>2, <1>3, <1>4, UpdateKinds, SeqWider DEF Tasks
<1>6. todo' \in [Tasks -> Seq(Updates)]
  BY <1>5 DEF Rest, Works, Shapes
<1> QED
  BY <1>1, <1>2, <1>3, <1>4, <1>6 DEF Shapes, Tasks, Workers

LEMMA ShapesInit == Steady /\ Init => Shapes
<1> SUFFICES ASSUME Steady, Init PROVE Shapes
  OBVIOUS
<1>1. \A t \in Tasks : todo[t] = <<>> /\ pc[t] = "idle"
  BY DEF Init, NoWork, Tasks
<1> QED
  BY <1>1, NoUpdates DEF Init, NoWork, Shapes, Tasks, Workers, At, Writing, Adding, Places

(* A task at rest is given its updates.                                    *)
LEMMA BeginShapes ==
    ASSUME Steady, Shapes, NEW t \in Tasks, NEW q \in Seq(Updates),
           t = "host" => q \in Seq(HostUpdates), t = "brew" => q \in Seq(BrewUpdates),
           t = "cycle" => q \in Seq(CycleUpdates), t # "host" => Orderly(q),
           Move(t, "idle", "next"), Works(t, q), family' = family, slot' = slot,
           t # "host" => At("brew", "idle") /\ At("cycle", "idle"),
           batchOpen' = IF t = "brew" THEN TRUE ELSE batchOpen
    PROVE  Shapes'
<1>1. todo'[t] = q /\ (\A u \in Tasks \ {t} : todo'[u] = todo[u])
      /\ todo' \in [Tasks -> Seq(Updates)]
  BY DEF Works, Shapes
<1>2. pc'[t] = "next" /\ (\A u \in Tasks \ {t} : pc'[u] = pc[u])
      /\ pc' \in [Tasks -> Places]
  BY DEF Move, Goto, Shapes, Places
<1> QED
  BY <1>1, <1>2 DEF Shapes, Tasks, Workers, At, Move, Writing, Adding, Work

(* A task moves on within an update, or from one to the next.              *)
LEMMA MoveShapes ==
    ASSUME Shapes, NEW t \in Tasks, NEW p \in Places,
           ~At(t, "idle"), p \notin {"idle", "name", "erase"} \cup Writing, Goto(t, p),
           family' = family, batchOpen' = batchOpen, slot' \in [Tasks -> Slots \cup {0}],
           /\ todo' \in [Tasks -> Seq(Updates)]
           /\ todo'["host"] \in Seq(HostUpdates) /\ todo'["brew"] \in Seq(BrewUpdates)
           /\ todo'["cycle"] \in Seq(CycleUpdates)
           /\ \A u \in Workers : Orderly(todo'[u])
           /\ \A u \in Tasks \ {t} : todo'[u] = todo[u]
    PROVE  Shapes'
<1>1. pc'[t] = p /\ (\A u \in Tasks \ {t} : pc'[u] = pc[u])
      /\ pc' \in [Tasks -> Places]
  BY DEF Goto, Shapes
<1> QED
  BY <1>1 DEF Shapes, Tasks, At, Work

LEMMA WriteShapes ==
    ASSUME Shapes, NEW t \in Tasks, NEW p \in Places,
           ~At(t, "idle"), p \in Writing, Goto(t, p), todo[t] # <<>>,
           Work(t).do \notin {"tick", "erase"},
           family' = family, batchOpen' = batchOpen, slot' \in [Tasks -> Slots \cup {0}],
           todo' = todo
    PROVE  Shapes'
<1>1. pc'[t] = p /\ (\A u \in Tasks \ {t} : pc'[u] = pc[u])
      /\ pc' \in [Tasks -> Places]
  BY DEF Goto, Shapes
<1> QED
  BY <1>1 DEF Shapes, Tasks, At, Work, Writing, Adding

LEMMA HostShapes ==
    ASSUME Steady, Shapes, HostWrites \/ HostErases \/ HostNames \/ PersistName
    PROVE  Shapes'
<1>1. \A id \in HostIds : id \in Int
  BY StoreAssumption
<1>2. ASSUME HostWrites PROVE Shapes'
  <2>1. PICK id \in HostIds, v \in HostValues : Works("host", <<Update("set", id, v, 1)>>)
    BY <1>2 DEF HostWrites
  <2> DEFINE u == Update("set", id, v, 1)
  <2>2. u \in HostUpdates
    BY <1>1 DEF Update, HostUpdates, Updates, Steady
  <2> HIDE DEF u
  <2>3. <<u>> \in Seq(HostUpdates) /\ <<u>> \in Seq(Updates)
    BY <2>2, HostWork
  <2>4. Works("host", <<u>>)
    BY <2>1 DEF u
  <2> QED
    BY <1>2, <2>3, <2>4, BeginShapes DEF HostWrites, Tasks
<1>3. ASSUME HostErases PROVE Shapes'
  <2>1. PICK id \in HostIds : Works("host", <<Update("erase", id, 0, 1)>>)
    BY <1>3 DEF HostErases
  <2> DEFINE u == Update("erase", id, 0, 1)
  <2>2. u \in HostUpdates
    BY <1>1 DEF Update, HostUpdates, Updates
  <2> HIDE DEF u
  <2>3. <<u>> \in Seq(HostUpdates) /\ <<u>> \in Seq(Updates)
    BY <2>2, HostWork
  <2>4. Works("host", <<u>>)
    BY <2>1 DEF u
  <2> QED
    BY <1>3, <2>3, <2>4, BeginShapes DEF HostErases, Tasks
<1>4. ASSUME HostNames PROVE Shapes'
  BY <1>4 DEF HostNames, Move, Goto, At, Shapes, local, Tasks, Places, Writing, Adding,
     Work
<1>5. ASSUME PersistName PROVE Shapes'
  BY <1>5 DEF PersistName, Move, Goto, At, Shapes, local, Tasks, Places, Writing,
     Adding, Work
<1> QED
  BY <1>2, <1>3, <1>4, <1>5

LEMMA ChargedShapes ==
    ASSUME Steady, Shapes, Calm', NEW s \in Selectors, BrewCharged(s)
    PROVE  Shapes'
<1>1. Wear(family, s) \in Seq(BrewUpdates) /\ Orderly(Wear(family, s))
  BY WearShape DEF Shapes
<1>2. Wear(family, s) \in Seq(Updates)
  BY <1>1, UpdateKinds, SeqWider
<1>3. batchOpen' = TRUE /\ At("cycle", "idle") /\ At("brew", "idle")
  <2>1. batchOpen' \in BOOLEAN /\ At("brew", "idle")
    BY DEF BrewCharged, Opens, Move
  <2>2. "refused" \notin Refused(batchOpen') /\ "overlap" \notin Overlaps("cycle")
    BY DEF BrewCharged, Upset, Calm
  <2> QED
    BY <2>1, <2>2 DEF Refused, Overlaps
<1> QED
  BY <1>1, <1>2, <1>3, BeginShapes DEF BrewCharged, Tasks

LEMMA ServicedShapes ==
    ASSUME Steady, Shapes, Calm', NEW k \in Kinds, CycleServiced(k)
    PROVE  Shapes'
<1>1. Serviced(family, k) \in Seq(CycleUpdates) /\ Orderly(Serviced(family, k))
  BY ServicedShape DEF Shapes
<1>2. Serviced(family, k) \in Seq(Updates)
  BY <1>1, UpdateKinds, SeqWider
<1>3. At("cycle", "idle") /\ At("brew", "idle")
  <2>1. "overlap" \notin Overlaps("brew") /\ At("cycle", "idle")
    BY DEF CycleServiced, Upset, Calm, Move
  <2> QED
    BY <2>1 DEF Overlaps
<1> QED
  BY <1>1, <1>2, <1>3, BeginShapes DEF CycleServiced, Tasks

LEMMA StepShapes ==
    ASSUME Steady, Shapes, Entered, NEW t \in Tasks, Step(t)
    PROVE  Shapes'
<1> USE DEF Places, Writing, Adding
<1>0. slot \in [Tasks -> Slots \cup {0}]
  BY DEF Shapes
<1>1. CASE Skip(t)
  BY <1>1, RestShapes DEF Skip, Pending, At, Shapes, Work, Tasks
<1>2. CASE Tick(t)
  BY <1>2, RestShapes DEF Tick, Pending, At, Shapes, Work, Tasks
<1>3. CASE Compute(t)
  <2>1. todo' = todo /\ slot' = slot /\ family' = family /\ batchOpen' = batchOpen
        /\ Goto(t, "find") /\ At(t, "next") /\ todo[t] # <<>>
        /\ Work(t).do \in {"inc", "dec", "warn", "set"}
    BY <1>3 DEF Compute, Pending
  <2> QED
    BY <2>1, <1>0, WriteShapes DEF At
<1>4. CASE Find(t)
  <2>1. todo[t] # <<>> /\ Work(t).do \notin {"tick", "erase"} /\ At(t, "find")
    BY <1>4 DEF Find, Shapes, At
  <2>2. slot' \in [Tasks -> Slots \cup {0}]
    <3> DEFINE fits == IF Has(Work(t).id) THEN Holders(Work(t).id) ELSE Free
    <3>1. fits \subseteq Slots
      BY DEF Holders, Free
    <3>2. slot' = [slot EXCEPT ![t] = IF fits = {} THEN 0 ELSE First(fits)]
      BY <1>4 DEF Find
    <3> HIDE DEF fits
    <3>3. fits # {} => First(fits) \in fits
      BY <3>1, FirstIn
    <3> QED
      BY <1>0, <3>1, <3>2, <3>3
  <2>3. PICK p \in {"put_value", "persist", "put_id"} : Goto(t, p)
    BY <1>4 DEF Find
  <2> QED
    BY <1>4, <2>1, <2>2, <2>3, WriteShapes DEF Find, At
<1>5. CASE PutId(t) \/ PutNew(t) \/ PutUsed(t) \/ PutValue(t)
  <2>1. todo[t] # <<>> /\ Work(t).do \notin {"tick", "erase"} /\ pc[t] # "idle"
        /\ todo' = todo /\ slot' = slot /\ family' = family /\ batchOpen' = batchOpen
    BY <1>5 DEF PutId, PutNew, PutUsed, PutValue, Move, At, Shapes, local
  <2>2. PICK p \in {"put_new", "put_used", "persist"} : Goto(t, p)
    BY <1>5 DEF PutId, PutNew, PutUsed, PutValue, Move
  <2> QED
    BY <1>0, <2>1, <2>2, WriteShapes DEF At
<1>6. CASE Persist(t)
  <2>1. todo[t] # <<>> /\ At(t, "persist") /\ Goto(t, "next") /\ Rest(t)
        /\ family' = family /\ batchOpen' = batchOpen
    BY <1>6 DEF Persist, Move, At, Shapes
  <2>2. slot' \in [Tasks -> Slots \cup {0}]
    BY <1>0, <1>6 DEF Persist
  <2> QED
    BY <2>1, <2>2, RestShapes, MoveShapes DEF At
<1>7. CASE Erase(t)
  <2>1. t = "host"
    BY <1>7, WorkIs DEF Erase, Pending, BrewUpdates, CycleUpdates, Counts, Tasks
  <2> QED
    BY <1>7, <2>1 DEF Erase, Pending, Goto, At, Shapes, local, Tasks, Work
<1>8. CASE EraseFlash(t)
  <2>1. t = "host" /\ At(t, "erase") /\ Goto(t, "next") /\ Rest(t) /\ todo[t] # <<>>
        /\ family' = family /\ batchOpen' = batchOpen /\ slot' = slot
    BY <1>8 DEF EraseFlash, Move, At, Shapes, Tasks
  <2> QED
    BY <1>0, <2>1, RestShapes, MoveShapes DEF At
<1>9. CASE Finish(t)
  BY <1>9 DEF Finish, Move, Goto, At, Shapes, local, Tasks, Work
<1> QED
  BY <1>1, <1>2, <1>3, <1>4, <1>5, <1>6, <1>7, <1>8, <1>9 DEF Step

LEMMA RebootShapes == ASSUME Steady, Shapes, Reboot PROVE Shapes'
<1>1. \A t \in Tasks : todo'[t] = <<>> /\ pc'[t] = "idle"
  BY DEF Reboot, NoWork, Tasks
<1> QED
  BY <1>1, NoUpdates
     DEF Reboot, NoWork, Shapes, Tasks, Workers, At, Writing, Adding, Places

LEMMA ShapesStep ==
    ASSUME Steady, Shapes, Entered, Calm', [Next]_vars
    PROVE  Shapes'
<1>1. CASE SwitchFamily
  BY <1>1 DEF SwitchFamily, Shapes, local, At, Work
<1>2. CASE UNCHANGED vars
  BY <1>2 DEF vars, Shapes, local, At, Work
<1> QED
  BY <1>1, <1>2, HostShapes, ChargedShapes, ServicedShapes, StepShapes, RebootShapes
     DEF Next

(* An upset is not forgotten.                                              *)
LEMMA UpsetsStay ==
    ASSUME [Next]_vars
    PROVE  /\ upsets \subseteq upsets'
           /\ upsets \subseteq UpsetKinds => upsets' \subseteq UpsetKinds
<1> USE DEF Upset, Refused, Overlaps, Races, Edits, Clashes, UpsetKinds
<1>1. CASE HostWrites \/ HostErases \/ HostNames \/ PersistName
  BY <1>1 DEF HostWrites, HostErases, HostNames, PersistName, ghost
<1>2. CASE \E s \in Selectors : BrewCharged(s)
  BY <1>2 DEF BrewCharged
<1>3. CASE \E k \in Kinds : CycleServiced(k)
  BY <1>3 DEF CycleServiced
<1>4. CASE SwitchFamily \/ Reboot \/ UNCHANGED vars
  BY <1>4 DEF SwitchFamily, Reboot, vars, ghost
<1>5. ASSUME NEW t \in Tasks, Step(t)
      PROVE  /\ upsets \subseteq upsets'
             /\ upsets \subseteq UpsetKinds => upsets' \subseteq UpsetKinds
  BY <1>5 DEF Step, Skip, Tick, Compute, Find, PutId, PutNew, PutUsed, PutValue, Persist,
     Erase, EraseFlash, Finish, ghost
<1> QED
  BY <1>1, <1>2, <1>3, <1>4, <1>5 DEF Next

LEMMA ApartInit == Steady /\ Init => Apart
  BY DEF Init, NoWork, Apart, Tasks

LEMMA ApartStep ==
    ASSUME Steady, Shapes, Apart, Calm', [Next]_vars
    PROVE  Apart'
<1>0. upsets \subseteq upsets' /\ "race" \notin upsets' /\ "host" \in Tasks
  BY UpsetsStay DEF Calm, Tasks
<1>1. ASSUME todo'["host"] = todo["host"],
             \A t \in Workers : pc[t] = "idle" => pc'[t] = "idle"
      PROVE  Apart'
  <2>1. Work("host")' = Work("host")
    BY <1>1 DEF Work
  <2> QED
    BY <1>0, <1>1, <2>1 DEF Apart, At, Workers
<1>2. ASSUME NEW id \in HostIds, NEW u, u.id = id, Works("host", <<u>>), Upset(Edits(id)),
             Move("host", "idle", "next")
      PROVE  Apart'
  <2>1. todo'["host"] = <<u>> /\ pc'["brew"] = pc["brew"] /\ pc'["cycle"] = pc["cycle"]
    BY <1>2 DEF Works, Move, Goto, Shapes, Tasks
  <2>2. Tail(<<u>>) = <<>> /\ Head(<<u>>) = u
    OBVIOUS
  <2>3. Work("host")' = u
    BY <2>1, <2>2 DEF Work
  <2>4. id \in Service => /\ At("brew", "idle") /\ At("cycle", "idle")
                          /\ "edited" \in upsets'
    BY <1>0, <1>2 DEF Upset, Edits
  <2> QED
    BY <1>2, <2>1, <2>2, <2>3, <2>4 DEF Apart, At
<1>3. CASE HostWrites
  <2>1. PICK id \in HostIds, v \in HostValues :
          Works("host", <<Update("set", id, v, 1)>>) /\ Upset(Edits(id))
    BY <1>3 DEF HostWrites
  <2>2. Update("set", id, v, 1).id = id
    BY DEF Update
  <2> QED
    BY <1>2, <1>3, <2>1, <2>2 DEF HostWrites
<1>4. CASE HostErases
  <2>1. PICK id \in HostIds :
          Works("host", <<Update("erase", id, 0, 1)>>) /\ Upset(Edits(id))
    BY <1>4 DEF HostErases
  <2>2. Update("erase", id, 0, 1).id = id
    BY DEF Update
  <2> QED
    BY <1>2, <1>4, <2>1, <2>2 DEF HostErases
<1>5. CASE HostNames \/ PersistName \/ SwitchFamily \/ UNCHANGED vars
  <2>1. todo' = todo /\ \A t \in Workers : pc'[t] = pc[t]
    BY <1>5 DEF HostNames, PersistName, SwitchFamily, vars, local, Move, Goto, Shapes,
       Tasks, Workers
  <2> QED
    BY <1>1, <2>1
<1>6. ASSUME NEW t \in Workers, todo'["host"] = todo["host"], Races \subseteq upsets'
      PROVE  Apart'
  <2>1. todo["host"] # <<>> => Work("host").id \notin Service
    BY <1>0, <1>6 DEF Races
  <2>2. Work("host")' = Work("host")
    BY <1>6 DEF Work
  <2> QED
    BY <1>6, <2>1, <2>2 DEF Apart
<1>7. CASE \E s \in Selectors : BrewCharged(s)
  <2>1. todo'["host"] = todo["host"] /\ Races \subseteq upsets'
    BY <1>7 DEF BrewCharged, Works, Shapes, Tasks, Upset
  <2> QED
    BY <1>6, <2>1 DEF Workers
<1>8. CASE \E k \in Kinds : CycleServiced(k)
  <2>1. todo'["host"] = todo["host"] /\ Races \subseteq upsets'
    BY <1>8 DEF CycleServiced, Works, Shapes, Tasks, Upset
  <2> QED
    BY <1>6, <2>1 DEF Workers
<1>9. CASE Step("host")
  <2>1. \A t \in Workers : pc'[t] = pc[t]
    BY <1>0, <1>9 DEF Step, Skip, Tick, Compute, Find, PutId, PutNew, PutUsed, PutValue,
       Persist, Erase, EraseFlash, Finish, Move, Goto, Shapes, Tasks, Workers
  <2>2. todo' = todo \/ Rest("host")
    BY <1>9 DEF Step, Skip, Tick, Compute, Find, PutId, PutNew, PutUsed, PutValue,
       Persist, Erase, EraseFlash, Finish, local
  <2>3. CASE todo' = todo
    BY <1>1, <2>1, <2>3
  <2>4. CASE Rest("host") /\ todo' # todo
    <3>1. todo["host"] # <<>>
      BY <1>0, <1>9, <2>4 DEF Step, Skip, Tick, Compute, Find, PutId, PutNew, PutUsed,
         PutValue, Persist, Erase, EraseFlash, Finish, local, Pending, Move, At, Shapes,
         Writing
    <3>2. todo'["host"] = <<>>
      BY <1>0, <2>4, <3>1 DEF Rest, Works, Shapes, Apart
    <3> QED
      BY <3>2 DEF Apart
  <2> QED
    BY <2>2, <2>3, <2>4
<1>10. ASSUME NEW t \in Workers, Step(t) PROVE Apart'
  <2>1. pc[t] # "idle" /\ t # "host" /\ t \in Tasks
    BY <1>10 DEF Step, Skip, Tick, Compute, Find, PutId, PutNew, PutUsed, PutValue,
       Persist, Erase, EraseFlash, Finish, Pending, Move, At, Workers, Tasks
  <2>2. todo'["host"] = todo["host"] /\ \A u \in Workers \ {t} : pc'[u] = pc[u]
    BY <1>0, <1>10, <2>1 DEF Step, Skip, Tick, Compute, Find, PutId, PutNew, PutUsed,
       PutValue, Persist, Erase, EraseFlash, Finish, Rest, Works, Move, Goto, Shapes,
       local, Tasks, Workers
  <2> QED
    BY <1>1, <2>1, <2>2
<1>11. CASE Reboot
  BY <1>11 DEF Reboot, NoWork, Apart, Tasks
<1> QED
  BY <1>3, <1>4, <1>5, <1>7, <1>8, <1>9, <1>10, <1>11 DEF Next, Tasks, Workers

-----------------------------------------------------------------------------
(* What a step does to the table.                                          *)

LEMMA Reads == \A id : Get(id) = ReadIn(table, id) /\ Get(id)' = ReadIn(table', id)
  BY DEF Get, Has, Holders, ReadIn

LEMMA HasIs == \A id \in Registered : Has(id) <=> id \in Held
  BY DEF Has, Holders, Held, HeldIn

LEMMA TableKept ==
    ASSUME table' = table
    PROVE  Held' = Held /\ \A id : Get(id)' = Get(id)
  BY Reads DEF Held

TableFine(T) ==
    /\ T \in Tables /\ \A s \in Slots : T[s].used => T[s].id \in Registered
    /\ Unique(T)

(* A write to an entry that is not used yet.                               *)
LEMMA PutEffect ==
    ASSUME Steady, Shapes, Entered, NEW t \in Tasks, PutId(t) \/ PutNew(t)
    PROVE  /\ TableFine(table')
           /\ Held' = Held /\ \A id \in Registered : Get(id)' = Get(id)
           /\ \A s \in Slots \ {slot[t]} : table'[s] = table[s]
           /\ ~table'[slot[t]].used /\ table'[slot[t]].id = Work(t).id
           /\ PutNew(t) => table'[slot[t]].value = value[t]
<1> DEFINE r == slot[t]
<1>1. /\ r \in Slots /\ ~table[r].used /\ table[r] \in Entries /\ table \in Tables
      /\ Unique(table) /\ value[t] \in Int
      /\ \A s \in Slots : table[s].used => table[s].id \in Registered
  BY DEF Entered, Standing, PutId, PutNew, Move, At, Adding, Tables
<1>2. Work(t).id \in Registered
  <2>1. todo[t] # <<>> /\ Work(t).do # "tick"
    BY DEF Shapes, PutId, PutNew, Move, At, Writing, Adding
  <2> QED
    BY <2>1, WorkIs
<1>3. PICK e \in Entries : /\ table' = [table EXCEPT ![r] = e] /\ ~e.used
                           /\ e.id = Work(t).id
                           /\ PutNew(t) => e.value = value[t]
  <2>1. CASE PutId(t)
    <3> DEFINE e == [table[r] EXCEPT !.id = Work(t).id]
    <3>1. e \in Entries /\ ~e.used /\ e.id = Work(t).id
      BY <1>1, <1>2 DEF Entries
    <3>2. table' = [table EXCEPT ![r] = e] /\ ~PutNew(t)
      BY <2>1 DEF PutId, PutNew, Writes, Move, At
    <3> QED
      BY <3>1, <3>2
  <2>2. CASE PutNew(t)
    <3> DEFINE e == [table[r] EXCEPT !.value = value[t]]
    <3>1. table[r].id = Work(t).id
      BY <2>2 DEF Entered, Standing, PutNew, Move, At
    <3>2. e \in Entries /\ ~e.used /\ e.id = Work(t).id /\ e.value = value[t]
      BY <1>1, <3>1 DEF Entries
    <3>3. table' = [table EXCEPT ![r] = e]
      BY <2>2 DEF PutNew, Writes
    <3> QED
      BY <3>2, <3>3
  <2> QED
    BY <2>1, <2>2
<1>4. /\ table' \in Tables /\ table'[r] = e /\ \A s \in Slots \ {r} : table'[s] = table[s]
  BY <1>1, <1>3 DEF Tables
<1>5. /\ Unique(table') /\ HeldIn(table') = HeldIn(table)
      /\ \A i \in Registered : ReadIn(table', i) = ReadIn(table, i)
  <2>1. ~table[r].used /\ ~table'[r].used
    BY <1>1, <1>3, <1>4
  <2> HIDE DEF r
  <2> QED
    BY <1>1, <1>4, <2>1, EntryFree
<1> QED
  BY <1>1, <1>3, <1>4, <1>5, Reads DEF Held, TableFine

(* The write that makes the value of a register what it is from now on.    *)
LEMMA StoreEffect ==
    ASSUME Steady, Shapes, Entered, NEW t \in Tasks, PutUsed(t) \/ PutValue(t)
    PROVE  /\ TableFine(table')
           /\ Held' = Held \cup {Work(t).id} /\ Get(Work(t).id)' = value[t]
           /\ \A id \in Registered \ {Work(t).id} : Get(id)' = Get(id)
           /\ \A s \in Slots \ {slot[t]} : table'[s] = table[s]
           /\ table'[slot[t]].used /\ table'[slot[t]].id = Work(t).id
<1> DEFINE r == slot[t]
<1>1. /\ r \in Slots /\ table[r] \in Entries /\ table \in Tables
      /\ Unique(table) /\ value[t] \in Int
      /\ \A s \in Slots : table[s].used => table[s].id \in Registered
  BY DEF Entered, Standing, PutUsed, PutValue, Move, At, Adding, Tables
<1>2. Work(t).id \in Registered
  <2>1. todo[t] # <<>> /\ Work(t).do # "tick"
    BY DEF Shapes, PutUsed, PutValue, Move, At, Writing, Adding
  <2> QED
    BY <2>1, WorkIs
<1>3. /\ \/ table[r].used /\ table[r].id = Work(t).id
         \/ ~table[r].used /\ Work(t).id \notin HeldIn(table)
      /\ \E e \in Entries : /\ table' = [table EXCEPT ![r] = e] /\ e.used
                            /\ e.id = Work(t).id /\ e.value = value[t]
  <2>1. CASE PutUsed(t)
    <3> DEFINE e == [table[r] EXCEPT !.used = TRUE]
    <3>1. /\ table[r].id = Work(t).id /\ table[r].value = value[t]
          /\ ~table[r].used /\ Work(t).id \notin HeldIn(table)
      BY <2>1 DEF Entered, Standing, PutUsed, Move, At, Adding, Held
    <3>2. e \in Entries /\ e.used /\ e.id = Work(t).id /\ e.value = value[t]
      BY <1>1, <3>1 DEF Entries
    <3>3. table' = [table EXCEPT ![r] = e]
      BY <2>1 DEF PutUsed, Writes
    <3> QED
      BY <3>1, <3>2, <3>3
  <2>2. CASE PutValue(t)
    <3> DEFINE e == [table[r] EXCEPT !.value = value[t]]
    <3>1. table[r].used /\ table[r].id = Work(t).id
      BY <2>2 DEF Entered, Standing, PutValue, Move, At
    <3>2. e \in Entries /\ e.used /\ e.id = Work(t).id /\ e.value = value[t]
      BY <1>1, <3>1 DEF Entries
    <3>3. table' = [table EXCEPT ![r] = e]
      BY <2>2 DEF PutValue, Writes
    <3> QED
      BY <3>1, <3>2, <3>3
  <2> QED
    BY <2>1, <2>2
<1>4. PICK e \in Entries : /\ table' = [table EXCEPT ![r] = e] /\ e.used
                           /\ e.id = Work(t).id /\ e.value = value[t]
  BY <1>3
<1>5. /\ table' \in Tables /\ table'[r] = e /\ \A s \in Slots \ {r} : table'[s] = table[s]
  BY <1>1, <1>4 DEF Tables
<1>6. /\ Unique(table') /\ HeldIn(table') = HeldIn(table) \cup {Work(t).id}
      /\ ReadIn(table', Work(t).id) = value[t]
      /\ \A i \in Registered \ {Work(t).id} : ReadIn(table', i) = ReadIn(table, i)
  <2> DEFINE id == Work(t).id
  <2>1. id \in Registered /\ table'[r].used /\ table'[r].id = id /\ table'[r].value = value[t]
        /\ (\/ table[r].used /\ table[r].id = id
            \/ ~table[r].used /\ id \notin HeldIn(table))
    BY <1>2, <1>3, <1>4, <1>5
  <2> HIDE DEF id
  <2>2. /\ Unique(table') /\ HeldIn(table') = HeldIn(table) \cup {id}
        /\ ReadIn(table', id) = table'[r].value
        /\ \A i \in Registered \ {id} : ReadIn(table', i) = ReadIn(table, i)
    BY <1>1, <1>5, <2>1, EntryWritten
  <2> QED
    BY <2>1, <2>2 DEF id
<1>7. Get(Work(t).id)' = value[t]
  <2>1. Work(t)' = Work(t)
    BY DEF PutUsed, PutValue, local, Work
  <2> QED
    BY <1>6, <2>1, Reads
<1> QED
  BY <1>1, <1>2, <1>4, <1>5, <1>6, <1>7, Reads DEF Held, TableFine

(* The first half of nivona_store_erase_num.                               *)
LEMMA EraseEffect ==
    ASSUME Steady, Shapes, Entered, NEW t \in Tasks, Erase(t)
    PROVE  /\ TableFine(table') /\ t = "host" /\ Work(t).id \in HostIds
           /\ Held' = Held \ {Work(t).id}
           /\ \A id \in Registered \ {Work(t).id} : Get(id)' = Get(id)
           /\ \A s \in Slots : table'[s] = table[s]
                \/ (table[s].used /\ table[s].id = Work(t).id /\ ~table'[s].used)
<1>1. t = "host" /\ Work(t).id \in HostIds /\ Work(t).id \in Registered
  BY WorkIs DEF Erase, Pending, BrewUpdates, CycleUpdates, Counts, Tasks
<1>2. table \in Tables /\ Unique(table)
      /\ \A s \in Slots : table[s].used => table[s].id \in Registered
  BY DEF Entered
<1>3. CASE Work(t).id \notin Held
  <2>1. table' = table
    BY <1>1, <1>3, HasIs DEF Erase
  <2> QED
    BY <1>1, <1>2, <1>3, <2>1, TableKept DEF TableFine
<1>4. CASE Work(t).id \in Held
  <2> DEFINE id == Work(t).id
             r == First(Holders(id))
             e == [table[r] EXCEPT !.used = FALSE, !.value = 0]
  <2>1. Has(id)
    BY <1>4, HasIs DEF Held, HeldIn
  <2>2. r \in Holders(id)
    BY <2>1, FirstIn DEF Has, Holders
  <2>3. r \in Slots /\ table[r].used /\ table[r].id = id
    BY <2>2 DEF Holders
  <2>4. table' = [table EXCEPT ![r].used = FALSE, ![r].value = 0]
    BY <2>1 DEF Erase
  <2> HIDE DEF id, r
  <2>5. e \in Entries /\ ~e.used
    <3>1. table[r] \in Entries
      BY <1>2, <2>3 DEF Tables
    <3>2. \A x \in Entries : [x EXCEPT !.used = FALSE] \in Entries
      BY DEF Entries
    <3>3. \A x \in Entries : [x EXCEPT !.value = 0] \in Entries /\
                             [x EXCEPT !.value = 0].used = x.used
      BY DEF Entries
    <3>4. e = [[table[r] EXCEPT !.used = FALSE] EXCEPT !.value = 0]
      BY <3>1 DEF Entries
    <3>5. ~[table[r] EXCEPT !.used = FALSE].used
      BY <3>1 DEF Entries
    <3> QED
      BY <3>1, <3>2, <3>3, <3>4, <3>5
  <2>6. table' = [table EXCEPT ![r] = e]
    BY <1>2, <2>3, <2>4 DEF Tables
  <2> HIDE DEF e
  <2>7. /\ table' \in Tables /\ table'[r] = e /\ \A s \in Slots \ {r} : table'[s] = table[s]
    BY <1>2, <2>3, <2>5, <2>6 DEF Tables
  <2>8. id \in Registered
    BY <1>1 DEF id
  <2>9. /\ Unique(table') /\ HeldIn(table') = HeldIn(table) \ {id}
        /\ \A i \in Registered \ {id} : ReadIn(table', i) = ReadIn(table, i)
    BY <1>2, <2>3, <2>5, <2>7, <2>8, EntryFreed
  <2>10. /\ TableFine(table') /\ Held' = Held \ {id}
         /\ \A i \in Registered \ {id} : Get(i)' = Get(i)
         /\ \A s \in Slots : table'[s] = table[s]
                \/ (table[s].used /\ table[s].id = id /\ ~table'[s].used)
    BY <1>2, <2>3, <2>5, <2>7, <2>9, Reads DEF TableFine, Held
  <2>11. id = Work(t).id
    BY DEF id
  <2> QED
    BY <1>1, <2>10, <2>11
<1> QED
  BY <1>3, <1>4

-----------------------------------------------------------------------------
(* The table, step by step.                                                *)

(* What a boot finds in the flash, and what it makes of it.                *)
LEMMA BootFine ==
    ASSUME Steady, NEW f \in Flashes, NEW fm \in InUse, NEW F, F = Seeded(f, fm)
    PROVE  /\ F \in Flashes /\ Present(DOMAIN F)
           /\ TableFine(Table(F, Remembered(f, fm)))
           /\ HeldIn(Table(F, Remembered(f, fm))) = DOMAIN F
           /\ \A id \in DOMAIN F : ReadIn(Table(F, Remembered(f, fm)), id) = F[id]
           /\ \A id \in DOMAIN f : id \in DOMAIN F /\ F[id] = f[id]
           /\ \A id \in DOMAIN F \ DOMAIN f : id \in Seeds(fm) /\ F[id] = SeedValue(id)
<1>1. fm \in FamilyKeys
  BY StoreAssumption
<1>2. /\ F \in Flashes /\ DOMAIN F = DOMAIN f \cup Seeds(fm)
      /\ \A id \in DOMAIN f : F[id] = f[id]
      /\ \A id \in Seeds(fm) \ DOMAIN f : F[id] = SeedValue(id)
      /\ Remembered(f, fm) = DOMAIN F
  BY <1>1, Booted
<1>3. Present(DOMAIN F)
  BY <1>1, <1>2, Numbers DEF Present
<1> QED
  BY <1>2, <1>3, TableLoaded DEF TableFine

LEMMA StoredFine ==
    ASSUME Steady
    PROVE  Stored \in Flashes
<1>1. DOMAIN Stored \subseteq Registered /\ \A id \in DOMAIN Stored : Stored[id] \in Int
  BY DEF Steady, Sound, Registered
<1> QED
  BY <1>1, FlashIs DEF Steady

(* What a loss of power leaves.                                            *)
LEMMA Survives ==
    ASSUME Steady, Mirrored, NEW lost \in SUBSET Uncommitted
    PROVE  /\ Survivor(lost) \in Flashes
           /\ \A id \in DOMAIN Survivor(lost) :
                \/ id \in DOMAIN flash /\ Survivor(lost)[id] = flash[id]
                \/ id \in DOMAIN durable /\ Survivor(lost)[id] = durable[id]
           /\ Equipped => Present(DOMAIN Survivor(lost))
           /\ \A id \in Registered : Committed(id) =>
                /\ id \in DOMAIN Survivor(lost) <=> id \in DOMAIN flash
                /\ id \in DOMAIN flash => Survivor(lost)[id] = flash[id]
<1> DEFINE f == Survivor(lost)
<1>1. /\ DOMAIN f = (DOMAIN flash \ lost) \cup (DOMAIN durable \cap lost)
      /\ f = [i \in DOMAIN f |-> f[i]]
      /\ \A i \in DOMAIN f : f[i] = IF i \in lost THEN durable[i] ELSE flash[i]
  BY DEF Survivor
<1> HIDE DEF f
<1>2. /\ DOMAIN flash \subseteq Registered /\ \A i \in DOMAIN flash : flash[i] \in Int
      /\ DOMAIN durable \subseteq Registered /\ \A i \in DOMAIN durable : durable[i] \in Int
      /\ Equipped => Present(DOMAIN flash) /\ Present(DOMAIN durable)
  BY FlashHas DEF Mirrored, Equipped
<1>3. \A i \in DOMAIN f : \/ i \in DOMAIN flash /\ f[i] = flash[i]
                          \/ i \in DOMAIN durable /\ f[i] = durable[i]
  BY <1>1
<1>4. f \in Flashes
  BY <1>1, <1>2, <1>3, FlashIs
<1>5. \A id : Committed(id) /\ id \in DOMAIN flash => id \notin Uncommitted
  BY DEF Committed, Uncommitted
<1>6. \A id : Committed(id) => (id \in DOMAIN f <=> id \in DOMAIN flash)
  BY <1>1 DEF Committed
<1>7. \A id : Committed(id) /\ id \in DOMAIN flash => f[id] = flash[id]
  BY <1>1, <1>5, <1>6
<1> QED
  BY <1>1, <1>2, <1>3, <1>4, <1>6, <1>7 DEF Present, f

LEMMA EnteredInit == Steady /\ Init => Entered
<1> SUFFICES ASSUME Steady, Init PROVE Entered
  OBVIOUS
<1>1. /\ TableFine(table) /\ Present(Held)
  <2>1. /\ flash = Seeded(Stored, family) /\ table = Table(flash, Remembered(Stored, family))
        /\ family \in InUse
    BY DEF Init
  <2>2. TableFine(table) /\ HeldIn(table) = DOMAIN flash /\ Present(DOMAIN flash)
    BY <2>1, BootFine, StoredFine
  <2> QED
    BY <2>2 DEF Held
<1>2. \A t \in Tasks : pc[t] = "idle" /\ value[t] = 0
  BY DEF Init, NoWork
<1>3. value \in [Tasks -> Int]
  <2>1. value = [t \in Tasks |-> 0]
    BY DEF Init, NoWork
  <2> QED
    BY <2>1
<1> QED
  BY <1>1, <1>2, <1>3 DEF Entered, TableFine, Standing, Adding

(* The table does not change, and the task that moves is not about to.     *)
LEMMA QuietEntered ==
    ASSUME Entered, table' = table, value' \in [Tasks -> Int], NEW t \in Tasks,
           pc'[t] \notin Adding \cup {"put_value"},
           \A u \in Tasks \ {t} : /\ pc'[u] = pc[u] /\ todo'[u] = todo[u]
                                  /\ slot'[u] = slot[u] /\ value'[u] = value[u]
    PROVE  Entered'
<1>1. Held' = Held
  BY TableKept
<1>2. \A u \in Tasks \ {t} : Standing(u)'
  BY <1>1 DEF Entered, Standing, Work
<1>3. Standing(t)'
  BY DEF Standing, Adding
<1> QED
  BY <1>1, <1>2, <1>3 DEF Entered, Unique

LEMMA FindEntered ==
    ASSUME Steady, Shapes, Entered, Calm', NEW t \in Tasks, Find(t)
    PROVE  Entered'
<1> DEFINE id == Work(t).id
<1>1. /\ todo[t] # <<>> /\ Work(t).do # "tick" /\ pc[t] \in Writing /\ id \in Registered
      /\ table' = table /\ Held' = Held /\ value' = value /\ todo' = todo
      /\ \A u \in Tasks \ {t} : pc'[u] = pc[u] /\ slot'[u] = slot[u]
  <2>1. todo[t] # <<>> /\ Work(t).do # "tick" /\ pc[t] \in Writing
    BY DEF Find, At, Shapes, Writing, Tasks
  <2>2. \A u \in Tasks \ {t} : pc'[u] = pc[u] /\ slot'[u] = slot[u]
    BY DEF Find, Goto, Shapes
  <2>3. table' = table /\ value' = value /\ todo' = todo
    BY DEF Find, stores
  <2>4. Work(t).id \in Registered
    BY <2>1, WorkIs
  <2>5. Held' = Held
    BY <2>3, TableKept
  <2> QED
    BY <2>1, <2>2, <2>3, <2>4, <2>5
<1>2. \A u \in Tasks \ {t} : Standing(u)'
  BY <1>1 DEF Entered, Standing, Work
<1>3. Work(t)' = Work(t)
  BY <1>1 DEF Work
<1>4. CASE Has(id)
  <2>1. pc'[t] = "put_value" /\ slot'[t] = First(Holders(id))
    BY <1>4 DEF Find, Goto, Shapes, Has
  <2>2. First(Holders(id)) \in Holders(id)
    BY <1>4, FirstIn DEF Has, Holders
  <2>3. Standing(t)'
    BY <1>1, <1>3, <2>1, <2>2 DEF Standing, Holders, Adding
  <2> QED
    BY <1>1, <1>2, <2>1, <2>3 DEF Entered, Unique, Adding
<1>5. CASE ~Has(id)
  <2>1. id \notin Held
    BY <1>1, <1>5, HasIs
  <2>2. Free # {}
    BY <1>1, <2>1, Room DEF Entered, Held, Free
  <2>3. pc'[t] = "put_id" /\ slot'[t] = First(Free)
    BY <1>5, <2>2 DEF Find, Goto, Shapes
  <2>4. First(Free) \in Free
    BY <2>2, FirstIn DEF Free
  <2>5. Standing(t)'
    BY <1>1, <1>3, <2>1, <2>3, <2>4 DEF Standing, Free, Adding
  <2>6. \A u \in Tasks \ {t} : pc'[u] \notin Adding
    <3>1. Clashes(t) \subseteq upsets' /\ "clash" \notin upsets'
      BY <1>5, <2>2 DEF Find, Upset, Calm
    <3>2. \A u \in Tasks \ {t} : pc[u] \notin Adding
      BY <3>1 DEF Clashes
    <3> QED
      BY <1>1, <3>2
  <2> QED
    BY <1>1, <1>2, <2>3, <2>5, <2>6 DEF Entered, Unique, Adding
<1> QED
  BY <1>4, <1>5

LEMMA PutEntered ==
    ASSUME Steady, Shapes, Entered, NEW t \in Tasks, PutId(t) \/ PutNew(t)
    PROVE  Entered'
<1>1. /\ pc[t] \in Adding /\ pc'[t] \in {"put_new", "put_used"}
      /\ value' = value /\ todo' = todo /\ slot' = slot /\ Work(t)' = Work(t)
      /\ (PutId(t) /\ pc'[t] = "put_new") \/ (PutNew(t) /\ pc'[t] = "put_used")
      /\ \A u \in Tasks \ {t} : pc'[u] = pc[u]
  BY DEF PutId, PutNew, Move, Goto, At, Shapes, local, Adding, Work
<1>2. /\ TableFine(table')
      /\ Held' = Held
      /\ \A s \in Slots \ {slot[t]} : table'[s] = table[s]
      /\ ~table'[slot[t]].used /\ table'[slot[t]].id = Work(t).id
      /\ PutNew(t) => table'[slot[t]].value = value[t]
  BY PutEffect
<1>3. slot[t] \in Slots /\ ~table[slot[t]].used /\ Work(t).id \notin Held
  BY <1>1 DEF Entered, Standing
<1>4. Standing(t)'
  BY <1>1, <1>2, <1>3 DEF Standing, Adding
<1>5. \A u \in Tasks \ {t} : pc[u] \notin Adding
  BY <1>1 DEF Entered
<1>6. \A u \in Tasks \ {t} : Standing(u)'
  BY <1>1, <1>2, <1>3, <1>5 DEF Standing, Entered, Work, Adding
<1>7. \A u, w \in Tasks : pc'[u] \in Adding /\ pc'[w] \in Adding => u = w
  BY <1>1, <1>5
<1> QED
  BY <1>1, <1>2, <1>4, <1>6, <1>7 DEF Entered, TableFine

LEMMA StoreEntered ==
    ASSUME Steady, Shapes, Apart, Entered, NEW t \in Tasks, PutUsed(t) \/ PutValue(t)
    PROVE  Entered'
<1>1. /\ pc[t] \in {"put_used", "put_value"} /\ pc'[t] = "persist"
      /\ value' = value /\ todo' = todo /\ slot' = slot
      /\ \A u \in Tasks \ {t} : pc'[u] = pc[u]
  BY DEF PutUsed, PutValue, Move, Goto, At, Shapes, local
<1>2. /\ TableFine(table')
      /\ Held' = Held \cup {Work(t).id}
      /\ \A s \in Slots \ {slot[t]} : table'[s] = table[s]
  BY StoreEffect
<1>3. Standing(t)'
  BY <1>1 DEF Standing, Adding
<1>4. ASSUME NEW u \in Tasks \ {t} PROVE Standing(u)'
  <2>1. pc[u] \in {"put_value"} \cup Adding =>
          Work(u).id # Work(t).id /\ slot[u] # slot[t]
    <3> SUFFICES ASSUME pc[u] \in {"put_value"} \cup Adding
                 PROVE  Work(u).id # Work(t).id /\ slot[u] # slot[t]
      OBVIOUS
    <3>1. Work(u).id # Work(t).id
      BY <1>1, WorkApart DEF Writing, Adding
    <3>2. table[slot[t]].id = Work(t).id /\ (pc[t] = "put_value" => table[slot[t]].used)
      BY <1>1 DEF Entered, Standing, Adding
    <3>3. pc[u] = "put_value" => table[slot[u]].id = Work(u).id
      BY DEF Entered, Standing
    <3>4. pc[u] \in Adding => pc[t] = "put_value" /\ ~table[slot[u]].used
      BY <1>1 DEF Entered, Standing, Adding
    <3> QED
      BY <3>1, <3>2, <3>3, <3>4
  <2> QED
    BY <1>1, <1>2, <2>1 DEF Standing, Entered, Work, Adding
<1>5. \A u, w \in Tasks : pc'[u] \in Adding /\ pc'[w] \in Adding => u = w
  BY <1>1 DEF Entered, Adding
<1> QED
  BY <1>1, <1>2, <1>3, <1>4, <1>5 DEF Entered, TableFine

LEMMA EraseEntered ==
    ASSUME Steady, Shapes, Apart, Entered, NEW t \in Tasks, Erase(t)
    PROVE  Entered'
<1>1. /\ todo[t] # <<>> /\ pc'[t] = "erase"
      /\ value' = value /\ todo' = todo /\ slot' = slot
      /\ \A u \in Tasks \ {t} : pc'[u] = pc[u]
  BY DEF Erase, Pending, Goto, At, Shapes, local
<1>2. /\ TableFine(table') /\ t = "host" /\ Work(t).id \in HostIds
      /\ Held' = Held \ {Work(t).id}
      /\ \A s \in Slots : table'[s] = table[s]
            \/ (table[s].used /\ table[s].id = Work(t).id /\ ~table'[s].used)
  BY EraseEffect
<1>3. Standing(t)'
  BY <1>1 DEF Standing, Adding
<1>4. ASSUME NEW u \in Tasks \ {t} PROVE Standing(u)'
  <2>1. pc[u] \in Writing => Work(u).id # Work(t).id
    <3> SUFFICES ASSUME pc[u] \in Writing PROVE Work(u).id # Work(t).id
      OBVIOUS
    <3>1. todo[u] # <<>> /\ Work(u).do # "tick"
      BY DEF Shapes
    <3>2. Work(u).id \in Service
      BY <1>2, <3>1, WorkIs
    <3>3. pc["brew"] # "idle" \/ pc["cycle"] # "idle"
      BY <1>2 DEF Tasks, Writing, Adding
    <3> QED
      BY <1>1, <1>2, <3>2, <3>3, HostAlone
  <2> QED
    BY <1>1, <1>2, <2>1 DEF Standing, Entered, Work, Adding, Writing
<1>5. \A u, w \in Tasks : pc'[u] \in Adding /\ pc'[w] \in Adding => u = w
  BY <1>1 DEF Entered, Adding
<1> QED
  BY <1>1, <1>2, <1>3, <1>4, <1>5 DEF Entered, TableFine

(* After a boot: what was found in the flash, and no task at work.         *)
LEMMA RebootFine ==
    ASSUME Steady, Shapes, Mirrored, Reboot
    PROVE  \E lost \in SUBSET Uncommitted :
             /\ TableFine(table') /\ Held' = DOMAIN flash' /\ Present(DOMAIN flash')
             /\ flash' \in Flashes /\ durable' = flash'
             /\ \A id \in DOMAIN flash' : Get(id)' = flash'[id]
             /\ \A id \in DOMAIN Survivor(lost) :
                  id \in DOMAIN flash' /\ flash'[id] = Survivor(lost)[id]
             /\ \A id \in DOMAIN flash' \ DOMAIN Survivor(lost) :
                  id \in Seeds(family) /\ flash'[id] = SeedValue(id)
<1>1. PICK lost \in SUBSET Uncommitted :
        LET found == Survivor(lost)
        IN  /\ flash' = Seeded(found, family)
            /\ durable' = Seeded(found, family)
            /\ table' = Table(Seeded(found, family), Remembered(found, family))
  BY DEF Reboot
<1> DEFINE found == Survivor(lost)
<1>2. found \in Flashes
  BY Survives
<1> HIDE DEF found
<1>3. /\ flash' = Seeded(found, family) /\ durable' = flash'
      /\ table' = Table(flash', Remembered(found, family))
  BY <1>1 DEF found
<1>4. /\ TableFine(table') /\ HeldIn(table') = DOMAIN flash' /\ Present(DOMAIN flash')
      /\ flash' \in Flashes
      /\ \A id \in DOMAIN flash' : ReadIn(table', id) = flash'[id]
      /\ \A id \in DOMAIN found : id \in DOMAIN flash' /\ flash'[id] = found[id]
      /\ \A id \in DOMAIN flash' \ DOMAIN found :
           id \in Seeds(family) /\ flash'[id] = SeedValue(id)
  BY <1>2, <1>3, BootFine DEF Shapes
<1> QED
  BY <1>3, <1>4, Reads DEF Held, found

LEMMA RebootEntered == ASSUME Steady, Shapes, Mirrored, Reboot PROVE Entered'
<1>1. /\ TableFine(table') /\ Present(Held')
  BY RebootFine
<1>2. \A t \in Tasks : pc'[t] = "idle" /\ value'[t] = 0
  BY DEF Reboot, NoWork
<1>3. value' = [t \in Tasks |-> 0]
  BY DEF Reboot, NoWork
<1> QED
  BY <1>1, <1>2, <1>3 DEF Entered, TableFine, Standing, Adding

LEMMA GetsInt ==
    ASSUME Entered, NEW id \in Registered
    PROVE  Get(id) \in Int
<1>1. CASE id \in Held
  <2>1. PICK s \in Slots : table[s].used /\ table[s].id = id
    BY <1>1 DEF Held, HeldIn
  <2>2. Get(id) = table[s].value
    BY <2>1, Reads, ReadsEntry DEF Entered
  <2> QED
    BY <2>2 DEF Entered, Tables, Entries
<1>2. CASE id \notin Held
  BY <1>2, Reads, ReadsNothing DEF Held
<1> QED
  BY <1>1, <1>2

LEMMA StepEntered ==
    ASSUME Steady, Shapes, Apart, Entered, Calm', NEW t \in Tasks, Step(t)
    PROVE  Entered'
<1>0. value \in [Tasks -> Int]
  BY DEF Entered
<1>1. CASE Skip(t)
  <2>1. /\ table' = table /\ value' = value /\ slot' = slot /\ pc' = pc /\ pc[t] = "next"
        /\ \A u \in Tasks \ {t} : todo'[u] = todo[u]
    BY <1>1 DEF Skip, stores, Pending, At, Rest, Works, Shapes
  <2> QED
    BY <1>0, <2>1, QuietEntered DEF Adding
<1>2. CASE Tick(t)
  <2>1. /\ table' = table /\ value' = value /\ slot' = slot /\ pc' = pc /\ pc[t] = "next"
        /\ \A u \in Tasks \ {t} : todo'[u] = todo[u]
    BY <1>2 DEF Tick, stores, Pending, At, Rest, Works, Shapes, local
  <2> QED
    BY <1>0, <2>1, QuietEntered DEF Adding
<1>3. CASE Compute(t)
  <2>1. /\ table' = table /\ todo' = todo /\ slot' = slot /\ pc'[t] = "find"
        /\ value' = [value EXCEPT ![t] = NewValue(Work(t))]
        /\ \A u \in Tasks \ {t} : pc'[u] = pc[u]
    BY <1>3 DEF Compute, stores, Goto, Shapes
  <2>2. NewValue(Work(t)) \in Int
    <3>1. /\ todo[t] # <<>> /\ Work(t).do \in {"inc", "dec", "warn", "set"}
          /\ Work(t).do # "tick"
      BY <1>3 DEF Compute, Pending
    <3>2. Work(t).arg \in Int /\ Work(t).id \in Registered
      BY <3>1, WorkIs DEF Updates
    <3>3. Get(Work(t).id) \in Int
      BY <3>2, GetsInt
    <3> QED
      BY <3>1, <3>2, <3>3 DEF NewValue
  <2>3. value' \in [Tasks -> Int] /\ \A u \in Tasks \ {t} : value'[u] = value[u]
    BY <1>0, <2>1, <2>2
  <2> QED
    BY <2>1, <2>3, QuietEntered DEF Adding
<1>4. CASE Persist(t)
  <2>1. /\ table' = table /\ pc'[t] = "next"
        /\ value' = [value EXCEPT ![t] = 0] /\ slot' = [slot EXCEPT ![t] = 0]
        /\ \A u \in Tasks \ {t} : pc'[u] = pc[u] /\ todo'[u] = todo[u]
    BY <1>4 DEF Persist, Move, Goto, Rest, Works, Shapes
  <2>2. /\ value' \in [Tasks -> Int]
        /\ \A u \in Tasks \ {t} : value'[u] = value[u] /\ slot'[u] = slot[u]
    BY <1>0, <2>1 DEF Shapes
  <2> QED
    BY <2>1, <2>2, QuietEntered DEF Adding
<1>5. CASE EraseFlash(t)
  <2>1. /\ table' = table /\ value' = value /\ slot' = slot /\ pc'[t] = "next"
        /\ \A u \in Tasks \ {t} : pc'[u] = pc[u] /\ todo'[u] = todo[u]
    BY <1>5 DEF EraseFlash, Move, Goto, Rest, Works, Shapes
  <2> QED
    BY <1>0, <2>1, QuietEntered DEF Adding
<1>6. CASE Finish(t)
  <2>1. /\ table' = table /\ value' = value /\ slot' = slot /\ pc'[t] = "idle"
        /\ todo' = todo /\ \A u \in Tasks \ {t} : pc'[u] = pc[u]
    BY <1>6 DEF Finish, Move, Goto, Shapes, local
  <2> QED
    BY <1>0, <2>1, QuietEntered DEF Adding
<1> QED
  BY <1>1, <1>2, <1>3, <1>4, <1>5, <1>6, FindEntered, PutEntered, StoreEntered,
     EraseEntered DEF Step

LEMMA EnteredStep ==
    ASSUME Steady, Shapes, Apart, Entered, Calm', Mirrored, [Next]_vars
    PROVE  Entered'
<1>1. ASSUME UNCHANGED <<table, value, slot, todo, pc>> PROVE Entered'
  <2>1. Held' = Held
    BY <1>1, TableKept
  <2> QED
    BY <1>1, <2>1 DEF Entered, Standing, Work, Unique
<1>2. ASSUME NEW t \in Tasks, NEW p \in {"next", "name", "idle"}, Goto(t, p),
             \A u \in Tasks \ {t} : todo'[u] = todo[u],
             UNCHANGED <<table, value, slot>>
      PROVE  Entered'
  <2>1. pc'[t] = p /\ \A u \in Tasks \ {t} : pc'[u] = pc[u]
    BY <1>2 DEF Goto, Shapes
  <2>2. value' \in [Tasks -> Int]
    BY <1>2 DEF Entered
  <2>3. pc'[t] \notin Adding \cup {"put_value"}
    BY <2>1 DEF Adding
  <2> QED
    BY <1>2, <2>1, <2>2, <2>3, QuietEntered
<1>3. CASE HostWrites \/ HostErases
  BY <1>2, <1>3 DEF HostWrites, HostErases, Move, Works, Shapes, Tasks, stores
<1>4. CASE HostNames \/ PersistName
  BY <1>2, <1>4 DEF HostNames, PersistName, Move, Shapes, Tasks, stores, local
<1>5. CASE \E s \in Selectors : BrewCharged(s)
  BY <1>2, <1>5 DEF BrewCharged, Move, Works, Shapes, Tasks, stores
<1>6. CASE \E k \in Kinds : CycleServiced(k)
  BY <1>2, <1>6 DEF CycleServiced, Move, Works, Shapes, Tasks, stores
<1>7. CASE SwitchFamily
  BY <1>1, <1>7 DEF SwitchFamily, stores, local
<1>8. CASE UNCHANGED vars
  BY <1>1, <1>8 DEF vars, local
<1> QED
  BY <1>3, <1>4, <1>5, <1>6, <1>7, <1>8, StepEntered, RebootEntered DEF Next

-----------------------------------------------------------------------------
(* The flash, step by step.                                                *)

LEMMA PutIs ==
    ASSUME NEW f \in Flashes, NEW id \in Registered, NEW v \in Int
    PROVE  /\ Put(f, id, v) \in Flashes /\ DOMAIN Put(f, id, v) = DOMAIN f \cup {id}
           /\ Put(f, id, v)[id] = v
           /\ \A i \in DOMAIN f \ {id} : Put(f, id, v)[i] = f[i]
<1>1. DOMAIN f \subseteq Registered /\ \A i \in DOMAIN f : f[i] \in Int
  BY FlashHas
<1>2. /\ DOMAIN Put(f, id, v) = DOMAIN f \cup {id}
      /\ Put(f, id, v) = [i \in DOMAIN Put(f, id, v) |-> Put(f, id, v)[i]]
      /\ Put(f, id, v)[id] = v
      /\ \A i \in DOMAIN f \ {id} : Put(f, id, v)[i] = f[i]
  BY DEF Put
<1>3. \A i \in DOMAIN Put(f, id, v) : Put(f, id, v)[i] \in Int
  BY <1>1, <1>2
<1> QED
  BY <1>1, <1>2, <1>3, FlashIs

LEMMA WithoutIs ==
    ASSUME NEW f \in Flashes, NEW id \in Registered
    PROVE  /\ Without(f, id) \in Flashes /\ DOMAIN Without(f, id) = DOMAIN f \ {id}
           /\ \A i \in DOMAIN f \ {id} : Without(f, id)[i] = f[i]
<1>1. DOMAIN f \subseteq Registered /\ \A i \in DOMAIN f : f[i] \in Int
  BY FlashHas
<1>2. /\ DOMAIN Without(f, id) = DOMAIN f \ {id}
      /\ Without(f, id) = [i \in DOMAIN Without(f, id) |-> Without(f, id)[i]]
      /\ \A i \in DOMAIN f \ {id} : Without(f, id)[i] = f[i]
  BY DEF Without
<1>3. \A i \in DOMAIN Without(f, id) : Without(f, id)[i] \in Int
  BY <1>1, <1>2
<1> QED
  BY <1>1, <1>2, <1>3, FlashIs

(* Where a task that has found the entry goes.                             *)
LEMMA FindGoes ==
    ASSUME Steady, Shapes, Entered, NEW t \in Tasks, Find(t)
    PROVE  pc'[t] \in {"put_value", "put_id"}
<1>1. todo[t] # <<>> /\ Work(t).do # "tick"
  BY DEF Find, At, Shapes, Writing
<1>2. Work(t).id \in Registered
  BY <1>1, WorkIs
<1>3. Has(Work(t).id) \/ Free # {}
  BY <1>2, HasIs, Room DEF Entered, Held, Free
<1> QED
  BY <1>3 DEF Find, Goto, Shapes

LEMMA MirroredInit == Steady /\ Init => Mirrored
<1> SUFFICES ASSUME Steady, Init PROVE Mirrored
  OBVIOUS
<1>1. /\ flash = Seeded(Stored, family) /\ table = Table(flash, Remembered(Stored, family))
      /\ family \in InUse /\ durable = flash
  BY DEF Init
<1>2. /\ flash \in Flashes /\ HeldIn(table) = DOMAIN flash
      /\ \A id \in DOMAIN flash : ReadIn(table, id) = flash[id]
  BY <1>1, BootFine, StoredFine
<1>3. \A id \in Registered : Agrees(id) /\ Committed(id)
  BY <1>1, <1>2, Reads DEF Agrees, Committed, Held
<1>4. \A t \in Tasks : pc[t] = "idle"
  BY DEF Init, NoWork
<1> QED
  BY <1>1, <1>2, <1>3, <1>4 DEF Mirrored, Tasks

(* Nothing is stored, and the task that moves is not about to.             *)
LEMMA QuietMirrored ==
    ASSUME Mirrored, Held' = Held, \A id \in Registered : Get(id)' = Get(id),
           flash' = flash, durable' = durable, NEW t \in Tasks,
           pc[t] \notin {"persist", "erase"}, pc'[t] \notin {"persist", "erase"},
           \A u \in Tasks \ {t} : /\ pc'[u] = pc[u] /\ todo'[u] = todo[u]
                                  /\ value'[u] = value[u],
           pc'["brew"] = "idle" => pc["brew"] = "idle"
    PROVE  Mirrored'
<1>1. \A id \in Registered : Untouched(id)' => Untouched(id)
  BY DEF Untouched, Work
<1>2. \A id \in Registered : Agrees(id) => Agrees(id)'
  BY DEF Agrees
<1>3. \A id \in Registered : Committed(id) => Committed(id)'
  BY DEF Committed
<1>4. \A u \in Tasks : pc'[u] \in {"persist", "erase"} =>
        /\ u # t /\ pc[u] = pc'[u] /\ Work(u)' = Work(u) /\ value'[u] = value[u]
  BY DEF Work
<1>5. \A u \in Tasks : pc'[u] = "persist" =>
        Work(u)'.id \in Held' /\ Get(Work(u).id)' = value'[u]
  <2> SUFFICES ASSUME NEW u \in Tasks, pc'[u] = "persist"
               PROVE  Work(u)'.id \in Held' /\ Get(Work(u).id)' = value'[u]
    OBVIOUS
  <2>1. Work(u).id \in Held /\ Get(Work(u).id) = value[u] /\ Work(u).id \in Registered
    BY <1>4 DEF Mirrored, Held, HeldIn
  <2>2. Get(Work(u).id)' = ReadIn(table', Work(u)'.id)
    BY Reads
  <2>3. ReadIn(table', Work(u).id) = ReadIn(table, Work(u).id)
    BY <2>1, Reads
  <2> QED
    BY <1>4, <2>1, <2>2, <2>3, Reads
<1>6. pc'["host"] = "erase" => Work("host")'.id \notin Held'
  BY <1>4 DEF Mirrored, Tasks
<1>7. \A id \in Registered : (id \in Service => At("brew", "idle")') => Committed(id)'
  BY <1>3 DEF Mirrored, At
<1> QED
  BY <1>1, <1>2, <1>5, <1>6, <1>7 DEF Mirrored

LEMMA StoreMirrored ==
    ASSUME Steady, Shapes, Apart, Entered, Mirrored,
           NEW t \in Tasks, PutUsed(t) \/ PutValue(t)
    PROVE  Mirrored'
<1> DEFINE id == Work(t).id
<1>1. /\ pc[t] \in Writing \ {"persist"} /\ pc'[t] = "persist"
      /\ value' = value /\ todo' = todo /\ flash' = flash /\ durable' = durable
      /\ \A u \in Tasks \ {t} : pc'[u] = pc[u]
  BY DEF PutUsed, PutValue, Move, Goto, At, Shapes, local, Writing, Adding
<1>2. /\ Held' = Held \cup {id} /\ Get(Work(t).id)' = value[t]
      /\ \A i \in Registered \ {id} : Get(i)' = Get(i)
  BY StoreEffect
<1>3. \A u \in Tasks : Work(u)' = Work(u)
  BY <1>1 DEF Work
<1>4. \A i \in Registered : Untouched(i)' => Untouched(i) /\ i # id
  BY <1>1, <1>3 DEF Untouched, Writing, Adding
<1>5. \A i \in Registered : Untouched(i)' => Agrees(i)'
  BY <1>1, <1>2, <1>4 DEF Agrees, Mirrored
<1>6. ASSUME NEW u \in Tasks, pc'[u] = "persist"
      PROVE  Work(u)'.id \in Held' /\ Get(Work(u).id)' = value'[u]
  <2>1. CASE u = t
    BY <1>1, <1>2, <1>3, <2>1
  <2>2. CASE u # t
    <3>1. pc[u] = "persist" /\ Work(u).id # id
      BY <1>1, <1>6, <2>2, WorkApart DEF Writing
    <3>2. Work(u).id \in Held /\ Get(Work(u).id) = value[u] /\ Work(u).id \in Registered
      BY <3>1 DEF Mirrored, Held, HeldIn
    <3>3. ReadIn(table', Work(u).id) = ReadIn(table, Work(u).id)
      BY <1>2, <3>1, <3>2, Reads
    <3> QED
      BY <1>1, <1>2, <1>3, <3>2, <3>3, Reads
  <2> QED
    BY <2>1, <2>2
<1>7. pc'["host"] = "erase" => Work("host")'.id \notin Held'
  <2> SUFFICES ASSUME pc'["host"] = "erase" PROVE Work("host")'.id \notin Held'
    OBVIOUS
  <2>1. "host" # t /\ pc["host"] = "erase" /\ "host" \in Tasks
    BY <1>1 DEF Tasks
  <2>2. Work("host").id # id
    BY <1>1, <2>1, WorkApart
  <2> QED
    BY <1>2, <1>3, <2>1, <2>2 DEF Mirrored
<1>8. \A i \in Registered : (i \in Service => At("brew", "idle")') => Committed(i)'
  <2>1. At("brew", "idle")' => At("brew", "idle")
    BY <1>1 DEF At, Tasks
  <2> QED
    BY <1>1, <2>1 DEF Mirrored, Committed
<1> QED
  BY <1>1, <1>5, <1>6, <1>7, <1>8 DEF Mirrored

(* A task that stores nothing more is done with its update.                *)
LEMMA FlashMirrored ==
    ASSUME Steady, Shapes, Entered, Mirrored, NEW t \in Tasks,
           pc[t] \in {"persist", "erase"}, pc'[t] = "next", table' = table,
           \A u \in Tasks \ {t} : /\ pc'[u] = pc[u] /\ todo'[u] = todo[u]
                                  /\ value'[u] = value[u],
           flash' \in Flashes, durable' \in Flashes, NEW id, id = Work(t).id,
           id \in Registered,
           Agrees(id)', (id \in Service => At("brew", "idle")) => Committed(id)',
           \A i \in Registered \ {id} : /\ i \in DOMAIN flash' <=> i \in DOMAIN flash
                                        /\ i \in DOMAIN flash => flash'[i] = flash[i],
           \A i \in Registered \ {id} :
             (i \in Service => At("brew", "idle")) =>
               /\ i \in DOMAIN durable' <=> i \in DOMAIN durable
               /\ i \in DOMAIN durable => durable'[i] = durable[i]
    PROVE  Mirrored'
<1>1. Held' = Held /\ \A i : Get(i)' = Get(i)
  BY TableKept
<1>2. \A u \in Tasks \ {t} : Work(u)' = Work(u)
  BY DEF Work
<1>3. \A i \in Registered \ {id} : Untouched(i)' => Untouched(i)
  BY <1>2 DEF Untouched
<1>4. \A i \in Registered \ {id} : Agrees(i) => Agrees(i)'
  BY <1>1 DEF Agrees
<1>5. \A i \in Registered : Untouched(i)' => Agrees(i)'
  BY <1>3, <1>4 DEF Mirrored
<1>6. At("brew", "idle")' => At("brew", "idle")
  BY DEF At, Tasks
<1>7. \A i \in Registered : (i \in Service => At("brew", "idle")') => Committed(i)'
  <2> SUFFICES ASSUME NEW i \in Registered, i \in Service => At("brew", "idle")'
               PROVE  Committed(i)'
    OBVIOUS
  <2>1. i \in Service => At("brew", "idle")
    BY <1>6
  <2>2. CASE i = id
    BY <2>1, <2>2
  <2>3. CASE i # id
    BY <2>1, <2>3 DEF Mirrored, Committed
  <2> QED
    BY <2>2, <2>3
<1>8. ASSUME NEW u \in Tasks, pc'[u] = "persist"
      PROVE  Work(u)'.id \in Held' /\ Get(Work(u).id)' = value'[u]
  <2>1. u # t /\ pc[u] = "persist" /\ value'[u] = value[u]
    BY <1>8
  <2>2. Work(u).id \in Held /\ Get(Work(u).id) = value[u]
    BY <2>1 DEF Mirrored
  <2> QED
    BY <1>1, <1>2, <2>1, <2>2, Reads
<1>9. pc'["host"] = "erase" => Work("host")'.id \notin Held'
  BY <1>1, <1>2 DEF Mirrored, Tasks
<1> QED
  BY <1>5, <1>7, <1>8, <1>9 DEF Mirrored

LEMMA PersistMirrored ==
    ASSUME Steady, Shapes, Entered, Mirrored, Calm', NEW t \in Tasks, Persist(t)
    PROVE  Mirrored'
<1>1. /\ pc[t] = "persist" /\ pc'[t] = "next" /\ table' = table
      /\ \A u \in Tasks \ {t} : /\ pc'[u] = pc[u] /\ todo'[u] = todo[u]
                                /\ value'[u] = value[u]
  BY DEF Persist, Move, At, Goto, Rest, Works, Shapes, Entered
<1>2. /\ Work(t).id \in Held /\ Get(Work(t).id) = value[t] /\ value[t] \in Int
      /\ Work(t).id \in Registered
  BY <1>1 DEF Mirrored, Entered, Held, HeldIn
<1>3. PICK id : id = Work(t).id
  OBVIOUS
<1>4. PICK v : v = value[t]
  OBVIOUS
<1>5. flash' = Put(flash, id, v) /\ durable' = IF t # "brew" THEN Put(durable, id, v)
                                                             ELSE durable
  <2>1. t = "brew" => batchOpen = TRUE
    BY <1>1 DEF Shapes, At
  <2>2. PICK open \in IF t = "brew" THEN {batchOpen} ELSE Opens :
          /\ flash' = IF open THEN Put(flash, id, v) ELSE flash
          /\ durable' = IF open /\ t # "brew" THEN Put(durable, id, v) ELSE durable
          /\ Refused(open) \subseteq upsets'
    BY <1>3, <1>4 DEF Persist, Upset
  <2>3. open \in BOOLEAN /\ "refused" \notin Refused(open)
    BY <2>1, <2>2 DEF Opens, Calm
  <2> QED
    BY <2>2, <2>3 DEF Refused
<1>6. /\ flash' \in Flashes /\ DOMAIN flash' = DOMAIN flash \cup {id} /\ flash'[id] = v
      /\ \A i \in DOMAIN flash \ {id} : flash'[i] = flash[i]
  <2>1. id \in Registered /\ v \in Int /\ flash \in Flashes
    BY <1>2, <1>3, <1>4 DEF Mirrored
  <2>2. flash' = Put(flash, id, v)
    BY <1>5
  <2>3. PICK f \in Flashes : f = flash
    BY <2>1
  <2>4. id \in Registered /\ v \in Int
    BY <2>1
  <2>5. /\ Put(f, id, v) \in Flashes /\ DOMAIN Put(f, id, v) = DOMAIN f \cup {id}
        /\ Put(f, id, v)[id] = v
        /\ \A i \in DOMAIN f \ {id} : Put(f, id, v)[i] = f[i]
    BY <2>4, PutIs
  <2> QED
    BY <2>2, <2>3, <2>5
<1>7. t # "brew" =>
      /\ durable' \in Flashes /\ DOMAIN durable' = DOMAIN durable \cup {id}
      /\ durable'[id] = v
      /\ \A i \in DOMAIN durable \ {id} : durable'[i] = durable[i]
  <2> SUFFICES ASSUME t # "brew"
               PROVE  /\ durable' \in Flashes /\ DOMAIN durable' = DOMAIN durable \cup {id}
                      /\ durable'[id] = v
                      /\ \A i \in DOMAIN durable \ {id} : durable'[i] = durable[i]
    OBVIOUS
  <2>1. id \in Registered /\ v \in Int /\ durable \in Flashes
    BY <1>2, <1>3, <1>4 DEF Mirrored
  <2>2. durable' = Put(durable, id, v)
    BY <1>5
  <2>3. PICK f \in Flashes : f = durable
    BY <2>1
  <2>4. id \in Registered /\ v \in Int
    BY <2>1
  <2>5. /\ Put(f, id, v) \in Flashes /\ DOMAIN Put(f, id, v) = DOMAIN f \cup {id}
        /\ Put(f, id, v)[id] = v
        /\ \A i \in DOMAIN f \ {id} : Put(f, id, v)[i] = f[i]
    BY <2>4, PutIs
  <2> QED
    BY <2>2, <2>3, <2>5
<1>8. t = "brew" => durable' = durable
  BY <1>5
<1>9. durable' \in Flashes
  BY <1>7, <1>8 DEF Mirrored
<1>10. Agrees(id)'
  <2>1. id \in Held' /\ Get(id)' = Get(id) /\ Get(id) = v
    BY <1>1, <1>2, <1>3, <1>4, TableKept
  <2> QED
    BY <1>6, <2>1 DEF Agrees
<1>11. (id \in Service => At("brew", "idle")) => Committed(id)'
  <2>1. t = "brew" => id \in Service /\ ~At("brew", "idle")
    <3>1. todo[t] # <<>> /\ Work(t).do # "tick"
      BY <1>1 DEF Shapes, Writing
    <3> QED
      BY <1>1, <1>3, <3>1, WorkIs DEF At
  <2> QED
    BY <1>6, <1>7, <2>1 DEF Committed
<1>12. \A i \in Registered \ {id} : /\ i \in DOMAIN flash' <=> i \in DOMAIN flash
                                    /\ i \in DOMAIN flash => flash'[i] = flash[i]
  BY <1>6
<1>13. \A i \in Registered \ {id} : /\ i \in DOMAIN durable' <=> i \in DOMAIN durable
                                    /\ i \in DOMAIN durable => durable'[i] = durable[i]
  BY <1>7, <1>8
<1> QED
  BY <1>1, <1>2, <1>3, <1>6, <1>9, <1>10, <1>11, <1>12, <1>13, FlashMirrored

LEMMA EraseMirrored ==
    ASSUME Steady, Shapes, Apart, Entered, Mirrored, NEW t \in Tasks, Erase(t)
    PROVE  Mirrored'
<1>1. /\ pc[t] = "next" /\ pc'[t] = "erase"
      /\ value' = value /\ todo' = todo /\ flash' = flash /\ durable' = durable
      /\ \A u \in Tasks \ {t} : pc'[u] = pc[u]
  BY DEF Erase, Pending, Goto, At, Shapes, local
<1>2. PICK id : id = Work(t).id
  OBVIOUS
<1>3. /\ t = "host" /\ id \in HostIds /\ Held' = Held \ {id}
      /\ \A i \in Registered \ {id} : Get(i)' = Get(i)
  BY <1>2, EraseEffect
<1>4. \A u \in Tasks : Work(u)' = Work(u)
  BY <1>1 DEF Work
<1>5. \A i \in Registered : Untouched(i)' => Untouched(i) /\ i # id
  BY <1>1, <1>2, <1>4 DEF Untouched
<1>6. \A i \in Registered : Untouched(i)' => Agrees(i)'
  BY <1>1, <1>3, <1>5 DEF Agrees, Mirrored
<1>7. ASSUME NEW u \in Tasks, pc'[u] = "persist"
      PROVE  Work(u)'.id \in Held' /\ Get(Work(u).id)' = value'[u]
  <2>1. pc[u] = "persist" /\ u # t
    BY <1>1, <1>7
  <2>2. Work(u).id \in Held /\ Get(Work(u).id) = value[u] /\ Work(u).id \in Registered
    BY <2>1 DEF Mirrored, Held, HeldIn
  <2>3. Work(u).id # id
    <3>1. todo[u] # <<>> /\ Work(u).do # "tick" /\ todo["host"] # <<>>
      BY <1>3, <2>1 DEF Shapes, Writing, Erase, Pending
    <3>2. Work(u).id \in Service
      BY <1>3, <2>1, <3>1, WorkIs
    <3>3. pc["brew"] # "idle" \/ pc["cycle"] # "idle"
      BY <1>3, <2>1 DEF Tasks
    <3> QED
      BY <1>2, <1>3, <3>1, <3>2, <3>3, HostAlone
  <2>4. ReadIn(table', Work(u).id) = ReadIn(table, Work(u).id)
    BY <1>3, <2>2, <2>3, Reads
  <2> QED
    BY <1>1, <1>3, <1>4, <2>2, <2>3, <2>4, Reads
<1>8. pc'["host"] = "erase" => Work("host")'.id \notin Held'
  BY <1>2, <1>3, <1>4 DEF Tasks
<1>9. \A i \in Registered : (i \in Service => At("brew", "idle")') => Committed(i)'
  <2>1. At("brew", "idle")' => At("brew", "idle")
    BY <1>1, <1>3 DEF At, Tasks
  <2> QED
    BY <1>1, <2>1 DEF Mirrored, Committed
<1> QED
  BY <1>1, <1>6, <1>7, <1>8, <1>9 DEF Mirrored

LEMMA EraseFlashMirrored ==
    ASSUME Steady, Shapes, Entered, Mirrored, Calm', NEW t \in Tasks, EraseFlash(t)
    PROVE  Mirrored'
<1>1. /\ pc[t] = "erase" /\ pc'[t] = "next" /\ table' = table /\ t = "host"
      /\ todo[t] # <<>> /\ Work(t).do = "erase"
      /\ \A u \in Tasks \ {t} : /\ pc'[u] = pc[u] /\ todo'[u] = todo[u]
                                /\ value'[u] = value[u]
  BY DEF EraseFlash, Move, At, Goto, Rest, Works, Shapes, Tasks
<1>2. PICK id : id = Work(t).id
  OBVIOUS
<1>3. id \in Registered /\ id \notin Held
  BY <1>1, <1>2, WorkIs DEF Mirrored
<1>4. flash' = Without(flash, id) /\ durable' = Without(durable, id)
  <2>1. PICK open \in Opens : /\ flash' = IF open THEN Without(flash, id) ELSE flash
                              /\ durable' = IF open THEN Without(durable, id) ELSE durable
                              /\ Refused(open) \subseteq upsets'
    BY <1>2 DEF EraseFlash, Upset
  <2>2. open \in BOOLEAN /\ "refused" \notin Refused(open)
    BY <2>1 DEF Opens, Calm
  <2> QED
    BY <2>1, <2>2 DEF Refused
<1>5. /\ flash' \in Flashes /\ DOMAIN flash' = DOMAIN flash \ {id}
      /\ \A i \in DOMAIN flash \ {id} : flash'[i] = flash[i]
      /\ durable' \in Flashes /\ DOMAIN durable' = DOMAIN durable \ {id}
      /\ \A i \in DOMAIN durable \ {id} : durable'[i] = durable[i]
  BY <1>3, <1>4, WithoutIs DEF Mirrored
<1>6. Agrees(id)' /\ Committed(id)'
  BY <1>1, <1>3, <1>5, TableKept DEF Agrees, Committed
<1> QED
  BY <1>1, <1>2, <1>3, <1>5, <1>6, FlashMirrored

LEMMA FinishMirrored ==
    ASSUME Steady, Shapes, Entered, Mirrored, NEW t \in Tasks, Finish(t)
    PROVE  Mirrored'
<1>1. /\ pc[t] = "next" /\ pc'[t] = "idle" /\ table' = table /\ value' = value
      /\ todo' = todo /\ flash' = flash
      /\ \A u \in Tasks \ {t} : pc'[u] = pc[u]
  BY DEF Finish, Move, At, Goto, Shapes, local
<1>2. Held' = Held /\ \A id : Get(id)' = Get(id)
  BY <1>1, TableKept
<1>3. CASE t # "brew"
  <2>1. durable' = durable /\ pc'["brew"] = pc["brew"]
    BY <1>1, <1>3 DEF Finish, Tasks
  <2> QED
    BY <1>1, <1>2, <2>1, QuietMirrored
<1>4. CASE t = "brew"
  <2>1. batchOpen = TRUE
    BY <1>1, <1>4 DEF Shapes, At
  <2>2. durable' = flash'
    BY <1>1, <1>4, <2>1 DEF Finish
  <2>3. \A i \in Registered : Committed(i)'
    BY <2>2 DEF Committed
  <2>4. \A u \in Tasks : Work(u)' = Work(u) /\ (pc'[u] \in {"persist", "erase"} =>
                            pc[u] = pc'[u])
    BY <1>1 DEF Work
  <2>5. \A i \in Registered : Untouched(i)' => Untouched(i)
    BY <1>1, <2>4 DEF Untouched
  <2>6. \A i \in Registered : Agrees(i) => Agrees(i)'
    BY <1>1, <1>2 DEF Agrees
  <2>7. \A u \in Tasks : pc'[u] = "persist" =>
          Work(u)'.id \in Held' /\ Get(Work(u).id)' = value'[u]
    BY <1>1, <1>2, <2>4, Reads DEF Mirrored
  <2>8. pc'["host"] = "erase" => Work("host")'.id \notin Held'
    BY <1>2, <2>4 DEF Mirrored, Tasks
  <2> QED
    BY <1>1, <2>2, <2>3, <2>5, <2>6, <2>7, <2>8 DEF Mirrored
<1> QED
  BY <1>3, <1>4

LEMMA RebootMirrored == ASSUME Steady, Shapes, Mirrored, Reboot PROVE Mirrored'
<1>1. /\ Held' = DOMAIN flash' /\ flash' \in Flashes /\ durable' = flash'
      /\ \A id \in DOMAIN flash' : Get(id)' = flash'[id]
  BY RebootFine
<1>2. \A t \in Tasks : pc'[t] = "idle"
  BY DEF Reboot, NoWork
<1>3. \A id \in Registered : Agrees(id)' /\ Committed(id)'
  BY <1>1 DEF Agrees, Committed
<1> QED
  BY <1>1, <1>2, <1>3 DEF Mirrored, Tasks

LEMMA MirroredStep ==
    ASSUME Steady, Shapes, Apart, Entered, Calm', Mirrored, [Next]_vars
    PROVE  Mirrored'
<1>1. ASSUME NEW t \in Tasks, pc[t] \notin {"persist", "erase"}, table' = table,
             flash' = flash, durable' = durable,
             NEW p \in Places \ {"persist", "erase"}, Goto(t, p),
             p = "idle" => t = "host",
             \A u \in Tasks \ {t} : todo'[u] = todo[u] /\ value'[u] = value[u]
      PROVE  Mirrored'
  <2>1. pc'[t] = p /\ \A u \in Tasks \ {t} : pc'[u] = pc[u]
    BY <1>1 DEF Goto, Shapes
  <2>2. Held' = Held /\ \A id \in Registered : Get(id)' = Get(id)
    BY <1>1, TableKept
  <2>3. pc'["brew"] = "idle" => pc["brew"] = "idle"
    BY <1>1, <2>1 DEF Tasks
  <2> QED
    BY <1>1, <2>1, <2>2, <2>3, QuietMirrored
<1>2. CASE HostWrites \/ HostErases
  <2>1. /\ table' = table /\ flash' = flash /\ durable' = durable /\ value' = value
        /\ pc["host"] = "idle" /\ Goto("host", "next")
        /\ \A u \in Tasks \ {"host"} : todo'[u] = todo[u]
    BY <1>2 DEF HostWrites, HostErases, Move, At, Works, Shapes, stores
  <2> QED
    BY <1>1, <2>1 DEF Tasks, Places
<1>3. CASE HostNames \/ PersistName
  <2>1. /\ table' = table /\ flash' = flash /\ durable' = durable /\ value' = value
        /\ todo' = todo /\ pc["host"] \in {"idle", "name"}
        /\ Goto("host", "name") \/ Goto("host", "idle")
    BY <1>3 DEF HostNames, PersistName, Move, At, stores, local
  <2> QED
    BY <1>1, <2>1 DEF Tasks, Places
<1>4. CASE \E s \in Selectors : BrewCharged(s)
  <2>1. /\ table' = table /\ flash' = flash /\ durable' = durable /\ value' = value
        /\ pc["brew"] = "idle" /\ Goto("brew", "next")
        /\ \A u \in Tasks \ {"brew"} : todo'[u] = todo[u]
    BY <1>4 DEF BrewCharged, Move, At, Works, Shapes, stores
  <2> QED
    BY <1>1, <2>1 DEF Tasks, Places
<1>5. CASE \E k \in Kinds : CycleServiced(k)
  <2>1. /\ table' = table /\ flash' = flash /\ durable' = durable /\ value' = value
        /\ pc["cycle"] = "idle" /\ Goto("cycle", "next")
        /\ \A u \in Tasks \ {"cycle"} : todo'[u] = todo[u]
    BY <1>5 DEF CycleServiced, Move, At, Works, Shapes, stores
  <2> QED
    BY <1>1, <2>1 DEF Tasks, Places
<1>6. CASE SwitchFamily \/ UNCHANGED vars
  <2>1. table' = table /\ flash' = flash /\ durable' = durable /\ value' = value
        /\ todo' = todo /\ pc' = pc
    BY <1>6 DEF SwitchFamily, vars, stores, local
  <2>2. Held' = Held /\ \A id : Get(id)' = Get(id)
    BY <2>1, TableKept
  <2>3. \A u \in Tasks : Work(u)' = Work(u)
    BY <2>1 DEF Work
  <2>4. \A id \in Registered : (Untouched(id)' <=> Untouched(id))
          /\ (Agrees(id) => Agrees(id)') /\ (Committed(id) => Committed(id)')
    BY <2>1, <2>2, <2>3 DEF Untouched, Agrees, Committed
  <2>5. \A u \in Tasks : pc'[u] = "persist" =>
          Work(u)'.id \in Held' /\ Get(Work(u).id)' = value'[u]
    BY <2>1, <2>2, <2>3, Reads DEF Mirrored
  <2>6. pc'["host"] = "erase" => Work("host")'.id \notin Held'
    BY <2>1, <2>2, <2>3 DEF Mirrored, Tasks
  <2> QED
    BY <2>1, <2>4, <2>5, <2>6 DEF Mirrored, At
<1>7. ASSUME NEW t \in Tasks, Step(t) PROVE Mirrored'
  <2>1. CASE Skip(t) \/ Tick(t)
    <3>1. /\ table' = table /\ flash' = flash /\ durable' = durable /\ value' = value
          /\ pc' = pc /\ pc[t] = "next"
          /\ \A u \in Tasks \ {t} : todo'[u] = todo[u]
      BY <2>1 DEF Skip, Tick, Pending, At, Rest, Works, Shapes, stores
    <3>2. Held' = Held /\ \A id \in Registered : Get(id)' = Get(id)
      BY <3>1, TableKept
    <3> QED
      BY <3>1, <3>2, QuietMirrored
  <2>2. CASE Compute(t)
    <3>1. /\ table' = table /\ flash' = flash /\ durable' = durable /\ todo' = todo
          /\ pc[t] = "next" /\ Goto(t, "find")
          /\ \A u \in Tasks \ {t} : value'[u] = value[u]
      BY <2>2 DEF Compute, Pending, At, Entered, stores
    <3> QED
      BY <1>1, <3>1 DEF Places
  <2>3. CASE Find(t)
    <3>1. /\ table' = table /\ flash' = flash /\ durable' = durable /\ todo' = todo
          /\ value' = value /\ pc[t] = "find"
          /\ \A u \in Tasks \ {t} : pc'[u] = pc[u]
      BY <2>3 DEF Find, At, Goto, Shapes, stores
    <3>2. pc'[t] \in {"put_value", "put_id"}
      BY <2>3, FindGoes
    <3>3. Held' = Held /\ \A id \in Registered : Get(id)' = Get(id)
      BY <3>1, TableKept
    <3>4. pc'["brew"] = "idle" => pc["brew"] = "idle"
      BY <3>1, <3>2 DEF Tasks
    <3> QED
      BY <3>1, <3>2, <3>3, <3>4, QuietMirrored
  <2>4. CASE PutId(t) \/ PutNew(t)
    <3>1. /\ flash' = flash /\ durable' = durable /\ todo' = todo /\ value' = value
          /\ pc[t] \in Adding /\ pc'[t] \in {"put_new", "put_used"}
          /\ \A u \in Tasks \ {t} : pc'[u] = pc[u]
      BY <2>4 DEF PutId, PutNew, Move, Goto, At, Shapes, local, Adding
    <3>2. Held' = Held /\ \A id \in Registered : Get(id)' = Get(id)
      BY <2>4, PutEffect
    <3>3. pc'["brew"] = "idle" => pc["brew"] = "idle"
      BY <3>1 DEF Tasks
    <3> QED
      BY <3>1, <3>2, <3>3, QuietMirrored DEF Adding
  <2> QED
    BY <1>7, <2>1, <2>2, <2>3, <2>4, StoreMirrored, PersistMirrored, EraseMirrored,
       EraseFlashMirrored, FinishMirrored DEF Step
<1> QED
  BY <1>2, <1>3, <1>4, <1>5, <1>6, <1>7, RebootMirrored DEF Next

-----------------------------------------------------------------------------
(* An app that leaves the machine alone takes nothing of it away.          *)

LEMMA HostOff ==
    ASSUME Apart, Untroubled, todo["host"] # <<>>
    PROVE  Work("host").id \notin Service
  BY DEF Apart, Untroubled

LEMMA EquippedInit == Steady /\ Init => Equipped
<1> SUFFICES ASSUME Steady, Init PROVE Equipped
  OBVIOUS
<1>1. /\ flash = Seeded(Stored, family) /\ table = Table(flash, Remembered(Stored, family))
      /\ family \in InUse /\ durable = flash
  BY DEF Init
<1>2. Present(DOMAIN flash) /\ HeldIn(table) = DOMAIN flash
  BY <1>1, BootFine, StoredFine
<1> QED
  BY <1>1, <1>2 DEF Equipped, Held

LEMMA EquippedStep ==
    ASSUME Steady, Shapes, Apart, Entered, Mirrored, Untroubled, Equipped, [Next]_vars
    PROVE  Equipped'
<1>0. Present(Held) /\ Present(DOMAIN flash) /\ Present(DOMAIN durable)
  BY DEF Equipped
<1>1. ASSUME table' = table, flash' = flash, durable' = durable PROVE Equipped'
  BY <1>0, <1>1, TableKept DEF Equipped
<1>2. ASSUME Present(Held'), Present(DOMAIN flash'), Present(DOMAIN durable')
      PROVE  Equipped'
  BY <1>2 DEF Equipped
<1>3. CASE HostWrites \/ HostErases \/ HostNames \/ PersistName \/ SwitchFamily
             \/ UNCHANGED vars
  BY <1>1, <1>3 DEF HostWrites, HostErases, HostNames, PersistName, SwitchFamily, vars,
     stores
<1>4. CASE \E s \in Selectors : BrewCharged(s)
  BY <1>1, <1>4 DEF BrewCharged, stores
<1>5. CASE \E k \in Kinds : CycleServiced(k)
  BY <1>1, <1>5 DEF CycleServiced, stores
<1>6. CASE Reboot
  BY <1>2, <1>6, RebootFine
<1>7. ASSUME NEW t \in Tasks, Step(t) PROVE Equipped'
  <2>1. CASE Skip(t) \/ Tick(t) \/ Compute(t) \/ Find(t)
    BY <1>1, <2>1 DEF Skip, Tick, Compute, Find, stores
  <2>2. CASE PutId(t) \/ PutNew(t)
    <3>1. Held' = Held
      BY <2>2, PutEffect
    <3>2. flash' = flash /\ durable' = durable
      BY <2>2 DEF PutId, PutNew
    <3> QED
      BY <1>0, <1>2, <3>1, <3>2
  <2>3. CASE PutUsed(t) \/ PutValue(t)
    <3>1. Held' = Held \cup {Work(t).id}
      BY <2>3, StoreEffect
    <3>2. flash' = flash /\ durable' = durable
      BY <2>3 DEF PutUsed, PutValue
    <3>3. Present(Held')
      BY <1>0, <3>1 DEF Present
    <3> QED
      BY <1>0, <1>2, <3>2, <3>3
  <2>4. CASE Persist(t)
    <3>1. Held' = Held
      BY <2>4, TableKept DEF Persist
    <3>2. DOMAIN flash \subseteq DOMAIN flash' /\ DOMAIN durable \subseteq DOMAIN durable'
      BY <2>4 DEF Persist, Put
    <3> QED
      BY <1>0, <1>2, <3>1, <3>2 DEF Present
  <2>5. CASE Erase(t) \/ EraseFlash(t)
    <3>1. t = "host" /\ todo["host"] # <<>>
      <4>1. CASE Erase(t)
        BY <4>1, EraseEffect DEF Erase, Pending
      <4>2. CASE EraseFlash(t)
        BY <4>2 DEF EraseFlash, Move, At, Shapes, Tasks
      <4> QED
        BY <2>5, <4>1, <4>2
    <3>2. Work(t).id \notin Gauges \cup Warnings
      BY <3>1, HostOff, Numbers
    <3>3. CASE Erase(t)
      <4>1. Held' = Held \ {Work(t).id}
        BY <3>3, EraseEffect
      <4>2. flash' = flash /\ durable' = durable
        BY <3>3 DEF Erase
      <4>3. Present(Held')
        BY <1>0, <3>2, <4>1 DEF Present
      <4> QED
        BY <1>0, <1>2, <4>2, <4>3
    <3>4. CASE EraseFlash(t)
      <4>1. Held' = Held
        BY <3>4, TableKept DEF EraseFlash
      <4>2. /\ DOMAIN flash \ {Work(t).id} \subseteq DOMAIN flash'
            /\ DOMAIN durable \ {Work(t).id} \subseteq DOMAIN durable'
        BY <3>4 DEF EraseFlash, Without
      <4> QED
        BY <1>0, <1>2, <3>2, <4>1, <4>2 DEF Present
    <3> QED
      BY <2>5, <3>3, <3>4
  <2>6. CASE Finish(t)
    <3>1. Held' = Held /\ flash' = flash /\ durable' \in {durable, flash}
      BY <2>6, TableKept DEF Finish
    <3> QED
      BY <1>0, <1>2, <3>1
  <2> QED
    BY <1>7, <2>1, <2>2, <2>3, <2>4, <2>5, <2>6 DEF Step
<1> QED
  BY <1>3, <1>4, <1>5, <1>6, <1>7 DEF Next

-----------------------------------------------------------------------------
(* What the registers hold.                                                *)

LEMMA SoundIs ==
    ASSUME Steady, NEW id, NEW v
    PROVE  /\ Sound(id, v) => v \in Int
           /\ id \in CountingRegisters /\ v \in Nat => Sound(id, v)
           /\ id \in CountingRegisters /\ Sound(id, v) => v \in Nat
           /\ id \in Gauges /\ v \in 0..100 => Sound(id, v)
           /\ id \in Gauges /\ Sound(id, v) => v \in 0..100
           /\ id \in Warnings /\ v \in {0, 1} => Sound(id, v)
           /\ id \in Warnings /\ Sound(id, v) => v \in {0, 1}
           /\ id \notin Service /\ v \in Int => Sound(id, v)
<1>1. /\ CountingRegisters \cap (Gauges \cup Warnings) = {} /\ Gauges \cap Warnings = {}
      /\ Service = CountingRegisters \cup Gauges \cup Warnings
  BY Numbers, RegisterNumbers
<1>2. Sound(id, v) <=> /\ v \in Int
                       /\ id \in CountingRegisters => v \in Nat
                       /\ id \in Gauges => v \in 0..100
                       /\ id \in Warnings => v \in {0, 1}
  BY DEF Sound, Warnings
<1> QED
  BY <1>1, <1>2

LEMMA SeedSound ==
    ASSUME Steady, NEW id
    PROVE  Sound(id, SeedValue(id))
<1>1. /\ CountingRegisters \cap (Gauges \cup Warnings) = {} /\ Gauges \cap Warnings = {}
  BY Numbers, RegisterNumbers
<1> QED
  BY <1>1 DEF SeedValue, Sound, Warnings

(* What a task is about to write.                                          *)
LEMMA NewSound ==
    ASSUME Steady, Shapes, Apart, Entered, SoundStore, Untroubled, NEW t \in Tasks,
           Compute(t)
    PROVE  Sound(Work(t).id, NewValue(Work(t)))
<1> DEFINE u == Work(t)
<1>1. /\ todo[t] # <<>> /\ u.do \in {"inc", "dec", "warn", "set"} /\ Applies(u)
  BY DEF Compute, Pending
<1>2. /\ u \in Updates /\ u.id \in Registered /\ t \in {"host", "brew", "cycle"}
      /\ t = "host" => u \in HostUpdates /\ u.id \in HostIds
      /\ t = "brew" => u \in BrewUpdates
      /\ t = "cycle" => u \in CycleUpdates
  BY <1>1, WorkIs DEF Tasks
<1>3. u.id \in Held => Sound(u.id, Get(u.id))
  BY DEF SoundStore
<1>4. u.id \notin Held => Get(u.id) = 0
  BY <1>2, Reads, ReadsNothing DEF Held
<1>5. Wears \subseteq Gauges /\ Flags \subseteq Warnings /\ \A g \in Wears : Warning(g) \in Flags
  BY RegisterNumbers DEF Flags
<1> HIDE DEF u
<1>6. CASE Counts(u)
  <2>1. NewValue(u) = Get(u.id) + 1 /\ u.id \in CountingRegisters
    BY <1>6 DEF NewValue, Counts
  <2>2. Get(u.id) \in Nat
    BY <1>3, <1>4, <2>1, SoundIs
  <2> QED
    BY <2>1, <2>2, SoundIs DEF u
<1>7. CASE u.do = "dec" /\ u.id \in Wears
  <2>1. NewValue(u) = Get(u.id) - 1 /\ Get(u.id) > 0
    BY <1>1, <1>7 DEF NewValue, Applies
  <2>2. Get(u.id) \in 0..100
    BY <1>3, <1>4, <1>5, <1>7, SoundIs
  <2>3. NewValue(u) \in 0..100
    BY <2>1, <2>2
  <2> QED
    BY <1>5, <1>7, <2>3, SoundIs DEF u
<1>8. CASE u.do = "warn" /\ u.arg \in Wears /\ u.id = Warning(u.arg)
  <2>1. NewValue(u) = 1 /\ u.id \in Warnings
    BY <1>5, <1>8 DEF NewValue
  <2> QED
    BY <2>1, SoundIs DEF u
<1>9. CASE u.do = "set"
  <2>1. NewValue(u) = u.arg /\ u.arg \in Int
    BY <1>2, <1>9 DEF NewValue, Updates
  <2>2. CASE t = "host"
    <3>1. u.id \notin Service
      BY <1>1, <2>2, HostOff DEF u
    <3> QED
      BY <2>1, <3>1, SoundIs DEF u
  <2>3. CASE u.id \in Wears /\ u.arg = 100
    BY <1>5, <2>1, <2>3, SoundIs DEF u
  <2>4. CASE u.id \in Flags /\ u.arg = 0
    BY <1>5, <2>1, <2>4, SoundIs DEF u
  <2> QED
    BY <1>2, <1>9, <2>2, <2>3, <2>4 DEF BrewUpdates, CycleUpdates, Counts
<1> QED
  BY <1>1, <1>2, <1>6, <1>7, <1>8, <1>9 DEF HostUpdates, BrewUpdates, CycleUpdates

LEMMA SoundInit == Steady /\ Init => SoundStore
<1> SUFFICES ASSUME Steady, Init PROVE SoundStore
  OBVIOUS
<1>1. /\ flash = Seeded(Stored, family) /\ table = Table(flash, Remembered(Stored, family))
      /\ family \in InUse /\ durable = flash /\ wearTick = 0
  BY DEF Init
<1>2. /\ HeldIn(table) = DOMAIN flash
      /\ \A id \in DOMAIN flash : ReadIn(table, id) = flash[id]
      /\ \A id \in DOMAIN Stored : flash[id] = Stored[id]
      /\ \A id \in DOMAIN flash \ DOMAIN Stored : flash[id] = SeedValue(id)
  BY <1>1, BootFine, StoredFine
<1>3. \A id \in DOMAIN Stored : Sound(id, Stored[id])
  BY DEF Steady
<1>4. \A id \in DOMAIN flash : Sound(id, flash[id])
  BY <1>2, <1>3, SeedSound
<1>5. \A t \in Tasks : pc[t] = "idle"
  BY DEF Init, NoWork
<1> QED
  BY <1>1, <1>2, <1>4, <1>5, Reads DEF SoundStore, Held, Writing, Adding

LEMMA QuietSound ==
    ASSUME SoundStore, Held' = Held, \A id \in Registered : Get(id)' = Get(id),
           flash' = flash, durable' \in {durable, flash}, wearTick' \in Nat,
           \A u \in Tasks : pc'[u] \in Writing =>
             pc[u] \in Writing /\ value'[u] = value[u] /\ Work(u)' = Work(u)
    PROVE  SoundStore'
<1>1. \A id \in Held' : Sound(id, Get(id)')
  BY DEF SoundStore, Held, HeldIn
<1>2. \A id \in Held' : Sound(id, Get(id))'
  BY <1>1 DEF Sound
<1>3. \A u \in Tasks : pc'[u] \in Writing => Sound(Work(u)'.id, value'[u])
  BY DEF SoundStore
<1>4. \A u \in Tasks : pc'[u] \in Writing => Sound(Work(u).id, value[u])'
  BY <1>3 DEF Sound
<1>5. /\ \A id \in DOMAIN flash' : Sound(id, flash'[id])
      /\ \A id \in DOMAIN durable' : Sound(id, durable'[id])
  BY DEF SoundStore
<1> QED
  BY <1>2, <1>4, <1>5 DEF SoundStore, Sound

(* A task changes one register in the table or in the flash to a value the *)
(* register may have, or takes one away.                                   *)
LEMMA OneSound ==
    ASSUME SoundStore, wearTick' = wearTick,
           \A i \in Held' : (i \in Held /\ Get(i)' = Get(i)) \/ Sound(i, Get(i)'),
           \A i \in DOMAIN flash' :
             (i \in DOMAIN flash /\ flash'[i] = flash[i]) \/ Sound(i, flash'[i]),
           \A i \in DOMAIN durable' :
             (i \in DOMAIN durable /\ durable'[i] = durable[i]) \/ Sound(i, durable'[i]),
           \A u \in Tasks : pc'[u] \in Writing =>
             \/ pc[u] \in Writing /\ value'[u] = value[u] /\ Work(u)' = Work(u)
             \/ Sound(Work(u)'.id, value'[u])
    PROVE  SoundStore'
<1>1. \A i \in Held' : Sound(i, Get(i)')
  BY DEF SoundStore
<1>2. \A i \in Held' : Sound(i, Get(i))'
  BY <1>1 DEF Sound
<1>3. \A u \in Tasks : pc'[u] \in Writing => Sound(Work(u)'.id, value'[u])
  BY DEF SoundStore
<1>4. \A u \in Tasks : pc'[u] \in Writing => Sound(Work(u).id, value[u])'
  BY <1>3 DEF Sound
<1>5. /\ \A i \in DOMAIN flash' : Sound(i, flash'[i])
      /\ \A i \in DOMAIN durable' : Sound(i, durable'[i])
  BY DEF SoundStore
<1> QED
  BY <1>2, <1>4, <1>5 DEF SoundStore, Sound

LEMMA StepSound ==
    ASSUME Steady, Shapes, Apart, Entered, Mirrored, Untroubled, SoundStore,
           NEW t \in Tasks, Step(t)
    PROVE  SoundStore'
<1>0. Held \subseteq Registered
  BY DEF Held, HeldIn
<1>1. CASE Skip(t) \/ Tick(t)
  <2>1. /\ table' = table /\ flash' = flash /\ durable' = durable /\ value' = value
        /\ pc' = pc /\ pc[t] = "next"
        /\ \A u \in Tasks \ {t} : todo'[u] = todo[u]
    BY <1>1 DEF Skip, Tick, Pending, At, Rest, Works, Shapes, stores
  <2>2. Held' = Held /\ \A id \in Registered : Get(id)' = Get(id)
    BY <2>1, TableKept
  <2>3. wearTick' \in Nat
    <3>1. CASE Skip(t)
      BY <3>1 DEF Skip, SoundStore
    <3>2. CASE Tick(t) /\ Work(t).id = NoRegister
      BY <3>2 DEF Tick, SoundStore
    <3>3. CASE Tick(t) /\ Work(t).id # NoRegister
      <4>1. Work(t).id \in CountingRegisters
        <5>1. todo[t] # <<>> /\ Work(t).do = "tick"
          BY <3>3 DEF Tick, Pending
        <5>2. /\ t = "host" => Work(t) \in HostUpdates
              /\ t = "brew" => Work(t) \in BrewUpdates
              /\ t = "cycle" => Work(t) \in CycleUpdates
          BY <5>1, WorkIs
        <5> QED
          BY <3>3, <5>1, <5>2
             DEF Tasks, HostUpdates, BrewUpdates, CycleUpdates, Counts
      <4>2. Work(t).id \in Registered
        BY <4>1, Numbers
      <4>3. Get(Work(t).id) \in Nat
        <5>1. CASE Work(t).id \in Held
          BY <4>1, <5>1, SoundIs DEF SoundStore
        <5>2. CASE Work(t).id \notin Held
          BY <4>2, <5>2, Reads, ReadsNothing DEF Held
        <5> QED
          BY <5>1, <5>2
      <4> QED
        BY <3>3, <4>3 DEF Tick
    <3> QED
      BY <1>1, <3>1, <3>2, <3>3
  <2>4. \A u \in Tasks : pc'[u] \in Writing =>
          pc[u] \in Writing /\ value'[u] = value[u] /\ Work(u)' = Work(u)
    BY <2>1 DEF Work, Writing, Adding
  <2> QED
    BY <2>1, <2>2, <2>3, <2>4, QuietSound
<1>2. CASE Compute(t)
  <2>1. /\ table' = table /\ flash' = flash /\ durable' = durable /\ todo' = todo
        /\ wearTick' = wearTick
        /\ value' = [value EXCEPT ![t] = NewValue(Work(t))]
        /\ \A u \in Tasks \ {t} : pc'[u] = pc[u]
        /\ todo[t] # <<>> /\ Work(t).do # "tick"
    BY <1>2 DEF Compute, Pending, Goto, Shapes, stores
  <2>2. Held' = Held /\ \A id : Get(id)' = Get(id)
    BY <2>1, TableKept
  <2>3. value'[t] = NewValue(Work(t)) /\ \A u \in Tasks \ {t} : value'[u] = value[u]
    BY <2>1 DEF Entered
  <2>4. \A u \in Tasks : Work(u)' = Work(u)
    BY <2>1 DEF Work
  <2>5. Sound(Work(t).id, NewValue(Work(t)))
    BY <1>2, NewSound
  <2>7. \A u \in Tasks : pc'[u] \in Writing =>
          \/ pc[u] \in Writing /\ value'[u] = value[u] /\ Work(u)' = Work(u)
          \/ Sound(Work(u)'.id, value'[u])
    BY <2>1, <2>3, <2>4, <2>5
  <2> QED
    BY <2>1, <2>2, <2>7, OneSound
<1>3. CASE Find(t) \/ PutId(t) \/ PutNew(t)
  <2>1. /\ flash' = flash /\ durable' = durable /\ todo' = todo
        /\ value' = value /\ pc[t] \in Writing /\ wearTick' = wearTick
        /\ \A u \in Tasks \ {t} : pc'[u] = pc[u]
    BY <1>3 DEF Find, PutId, PutNew, Move, At, Goto, Shapes, stores, local, Writing, Adding
  <2>2. Held' = Held /\ \A id \in Registered : Get(id)' = Get(id)
    <3>1. CASE Find(t)
      BY <3>1, TableKept DEF Find, stores
    <3> QED
      BY <1>3, <3>1, PutEffect
  <2>3. \A u \in Tasks : pc'[u] \in Writing =>
          pc[u] \in Writing /\ value'[u] = value[u] /\ Work(u)' = Work(u)
    BY <2>1 DEF Work
  <2> QED
    BY <2>1, <2>2, <2>3, QuietSound DEF SoundStore
<1>4. CASE PutUsed(t) \/ PutValue(t)
  <2>1. /\ flash' = flash /\ durable' = durable /\ todo' = todo
        /\ value' = value /\ pc[t] \in Writing /\ wearTick' = wearTick
        /\ \A u \in Tasks \ {t} : pc'[u] = pc[u]
    BY <1>4 DEF PutUsed, PutValue, Move, At, Goto, Shapes, local, Writing, Adding
  <2>2. PICK id : id = Work(t).id
    OBVIOUS
  <2>3. /\ Held' = Held \cup {id} /\ Get(id)' = value[t]
        /\ \A i \in Registered \ {id} : Get(i)' = Get(i)
    <3>1. /\ Held' = Held \cup {id} /\ Get(Work(t).id)' = value[t]
          /\ \A i \in Registered \ {id} : Get(i)' = Get(i)
      BY <1>4, <2>2, StoreEffect
    <3>2. Work(t)' = Work(t)
      BY <2>1 DEF Work
    <3>3. ReadIn(table', id) = value[t]
      BY <2>2, <3>1, <3>2, Reads
    <3> QED
      BY <3>1, <3>3, Reads
  <2>4. Sound(id, value[t])
    BY <2>1, <2>2 DEF SoundStore
  <2>6. \A i \in Held' : (i \in Held /\ Get(i)' = Get(i)) \/ Sound(i, Get(i)')
    BY <1>0, <2>3, <2>4
  <2>7. \A u \in Tasks : pc'[u] \in Writing =>
          pc[u] \in Writing /\ value'[u] = value[u] /\ Work(u)' = Work(u)
    BY <2>1 DEF Work
  <2> QED
    BY <2>1, <2>6, <2>7, OneSound
<1>5. CASE Persist(t)
  <2>1. /\ pc[t] = "persist" /\ pc'[t] = "next" /\ table' = table /\ wearTick' = wearTick
        /\ \A u \in Tasks \ {t} : /\ pc'[u] = pc[u] /\ todo'[u] = todo[u]
                                  /\ value'[u] = value[u]
    BY <1>5 DEF Persist, Move, At, Goto, Rest, Works, Shapes, Entered
  <2>2. PICK id, v : id = Work(t).id /\ v = value[t]
    OBVIOUS
  <2>3. /\ flash' \in {flash, Put(flash, id, v)}
        /\ durable' \in {durable, Put(durable, id, v)}
    BY <1>5, <2>2 DEF Persist
  <2>4. Sound(id, v)
    BY <2>1, <2>2 DEF SoundStore, Writing
  <2>6. Held' = Held /\ \A i : Get(i)' = Get(i)
    BY <2>1, TableKept
  <2>7. \A f : \A i \in DOMAIN Put(f, id, v) :
          (i \in DOMAIN f /\ Put(f, id, v)[i] = f[i]) \/ Sound(i, Put(f, id, v)[i])
    BY <2>4 DEF Put
  <2>8. \A i \in DOMAIN flash' :
             (i \in DOMAIN flash /\ flash'[i] = flash[i]) \/ Sound(i, flash'[i])
    BY <2>3, <2>7
  <2>9. \A i \in DOMAIN durable' :
             (i \in DOMAIN durable /\ durable'[i] = durable[i]) \/ Sound(i, durable'[i])
    BY <2>3, <2>7
  <2>10. \A u \in Tasks : pc'[u] \in Writing =>
          pc[u] \in Writing /\ value'[u] = value[u] /\ Work(u)' = Work(u)
    BY <2>1 DEF Work, Writing, Adding
  <2> QED
    BY <2>1, <2>6, <2>8, <2>9, <2>10, OneSound
<1>6. CASE Erase(t)
  <2>1. /\ pc'[t] = "erase" /\ wearTick' = wearTick
        /\ value' = value /\ todo' = todo /\ flash' = flash /\ durable' = durable
        /\ \A u \in Tasks \ {t} : pc'[u] = pc[u]
    BY <1>6 DEF Erase, Pending, Goto, At, Shapes, local
  <2>2. PICK id : id = Work(t).id
    OBVIOUS
  <2>3. /\ id \in HostIds /\ Held' = Held \ {id}
        /\ \A i \in Registered \ {id} : Get(i)' = Get(i)
    BY <1>6, <2>2, EraseEffect
  <2>5. \A i \in Held' : i \in Held /\ Get(i)' = Get(i)
    BY <1>0, <2>3
  <2>6. \A u \in Tasks : pc'[u] \in Writing =>
          pc[u] \in Writing /\ value'[u] = value[u] /\ Work(u)' = Work(u)
    BY <2>1 DEF Work, Writing, Adding
  <2> QED
    BY <2>1, <2>5, <2>6, OneSound
<1>7. CASE EraseFlash(t)
  <2>1. /\ pc'[t] = "next" /\ table' = table /\ wearTick' = wearTick /\ value' = value
        /\ \A u \in Tasks \ {t} : pc'[u] = pc[u] /\ todo'[u] = todo[u]
    BY <1>7 DEF EraseFlash, Move, At, Goto, Rest, Works, Shapes
  <2>2. PICK id : id = Work(t).id
    OBVIOUS
  <2>3. /\ flash' \in {flash, Without(flash, id)}
        /\ durable' \in {durable, Without(durable, id)}
    BY <1>7, <2>2 DEF EraseFlash
  <2>4. \A f : \A i \in DOMAIN Without(f, id) :
          i \in DOMAIN f /\ Without(f, id)[i] = f[i]
    BY DEF Without
  <2>5. Held' = Held /\ \A i : Get(i)' = Get(i)
    BY <2>1, TableKept
  <2>6. \A u \in Tasks : pc'[u] \in Writing =>
          pc[u] \in Writing /\ value'[u] = value[u] /\ Work(u)' = Work(u)
    BY <2>1 DEF Work, Writing, Adding
  <2>7. \A i \in DOMAIN flash' : i \in DOMAIN flash /\ flash'[i] = flash[i]
    BY <2>3, <2>4
  <2>8. \A i \in DOMAIN durable' : i \in DOMAIN durable /\ durable'[i] = durable[i]
    BY <2>3, <2>4
  <2> QED
    BY <2>1, <2>5, <2>6, <2>7, <2>8, OneSound
<1>8. CASE Finish(t)
  <2>1. /\ pc'[t] = "idle" /\ table' = table /\ value' = value /\ todo' = todo
        /\ flash' = flash /\ durable' \in {durable, flash} /\ wearTick' = wearTick
        /\ \A u \in Tasks \ {t} : pc'[u] = pc[u]
    BY <1>8 DEF Finish, Move, At, Goto, Shapes, local
  <2>2. Held' = Held /\ \A id \in Registered : Get(id)' = Get(id)
    BY <2>1, TableKept
  <2>3. \A u \in Tasks : pc'[u] \in Writing =>
          pc[u] \in Writing /\ value'[u] = value[u] /\ Work(u)' = Work(u)
    BY <2>1 DEF Work, Writing, Adding
  <2> QED
    BY <2>1, <2>2, <2>3, QuietSound DEF SoundStore
<1> QED
  BY <1>1, <1>2, <1>3, <1>4, <1>5, <1>6, <1>7, <1>8 DEF Step

LEMMA RebootSound == ASSUME Steady, Shapes, Mirrored, SoundStore, Reboot PROVE SoundStore'
<1>1. PICK lost \in SUBSET Uncommitted :
         /\ Held' = DOMAIN flash' /\ durable' = flash'
         /\ \A id \in DOMAIN flash' : Get(id)' = flash'[id]
         /\ \A id \in DOMAIN Survivor(lost) :
              id \in DOMAIN flash' /\ flash'[id] = Survivor(lost)[id]
         /\ \A id \in DOMAIN flash' \ DOMAIN Survivor(lost) :
              id \in Seeds(family) /\ flash'[id] = SeedValue(id)
  BY RebootFine
<1>2. \A id \in DOMAIN Survivor(lost) :
        \/ id \in DOMAIN flash /\ Survivor(lost)[id] = flash[id]
        \/ id \in DOMAIN durable /\ Survivor(lost)[id] = durable[id]
  BY Survives
<1>3. \A id \in DOMAIN flash' : Sound(id, flash'[id])
  BY <1>1, <1>2, SeedSound DEF SoundStore
<1>4. \A id \in DOMAIN flash' : Sound(id, flash[id])'
  BY <1>3 DEF Sound
<1>5. \A id \in Held' : Sound(id, Get(id))'
  BY <1>1, <1>3 DEF Sound
<1>6. /\ \A t \in Tasks : pc'[t] = "idle"
      /\ wearTick' = 0
  BY DEF Reboot, NoWork
<1> QED
  BY <1>1, <1>4, <1>5, <1>6 DEF SoundStore, Writing, Adding

LEMMA SoundStep ==
    ASSUME Steady, Shapes, Apart, Entered, Mirrored, Untroubled, SoundStore, [Next]_vars
    PROVE  SoundStore'
<1>1. ASSUME table' = table, flash' = flash, durable' = durable, value' = value,
             wearTick' = wearTick,
             NEW t \in Tasks, NEW p \in {"next", "name", "idle"}, Goto(t, p) \/ pc' = pc,
             pc[t] \notin Writing, \A u \in Tasks \ {t} : todo'[u] = todo[u]
      PROVE  SoundStore'
  <2>1. Held' = Held /\ \A id \in Registered : Get(id)' = Get(id)
    BY <1>1, TableKept
  <2>2. \A u \in Tasks : pc'[u] \in Writing =>
          pc[u] \in Writing /\ value'[u] = value[u] /\ Work(u)' = Work(u)
    BY <1>1 DEF Goto, Shapes, Work, Writing, Adding
  <2> QED
    BY <1>1, <2>1, <2>2, QuietSound DEF SoundStore
<1>2. CASE HostWrites \/ HostErases
  <2>1. /\ table' = table /\ flash' = flash /\ durable' = durable /\ value' = value
        /\ wearTick' = wearTick /\ pc["host"] \notin Writing /\ Goto("host", "next")
        /\ \A u \in Tasks \ {"host"} : todo'[u] = todo[u]
    BY <1>2 DEF HostWrites, HostErases, Move, At, Works, Shapes, stores, Writing, Adding
  <2> QED
    BY <1>1, <2>1 DEF Tasks
<1>3. CASE HostNames \/ PersistName
  <2>1. /\ table' = table /\ flash' = flash /\ durable' = durable /\ value' = value
        /\ todo' = todo /\ wearTick' = wearTick /\ pc["host"] \notin Writing
        /\ Goto("host", "name") \/ Goto("host", "idle")
    BY <1>3 DEF HostNames, PersistName, Move, At, stores, local, Writing, Adding
  <2> QED
    BY <1>1, <2>1 DEF Tasks
<1>4. CASE \E s \in Selectors : BrewCharged(s)
  <2>1. /\ table' = table /\ flash' = flash /\ durable' = durable /\ value' = value
        /\ wearTick' = wearTick /\ pc["brew"] \notin Writing /\ Goto("brew", "next")
        /\ \A u \in Tasks \ {"brew"} : todo'[u] = todo[u]
    BY <1>4 DEF BrewCharged, Move, At, Works, Shapes, stores, Writing, Adding
  <2> QED
    BY <1>1, <2>1 DEF Tasks
<1>5. CASE \E k \in Kinds : CycleServiced(k)
  <2>1. /\ table' = table /\ flash' = flash /\ durable' = durable /\ value' = value
        /\ wearTick' = wearTick /\ pc["cycle"] \notin Writing /\ Goto("cycle", "next")
        /\ \A u \in Tasks \ {"cycle"} : todo'[u] = todo[u]
    BY <1>5 DEF CycleServiced, Move, At, Works, Shapes, stores, Writing, Adding
  <2> QED
    BY <1>1, <2>1 DEF Tasks
<1>6. CASE SwitchFamily \/ UNCHANGED vars
  <2>1. /\ table' = table /\ flash' = flash /\ durable' = durable /\ value' = value
        /\ wearTick' = wearTick /\ todo' = todo /\ pc' = pc
    BY <1>6 DEF SwitchFamily, vars, stores, local
  <2>2. Held' = Held /\ \A id \in Registered : Get(id)' = Get(id)
    BY <2>1, TableKept
  <2>3. \A u \in Tasks : Work(u)' = Work(u)
    BY <2>1 DEF Work
  <2> QED
    BY <2>1, <2>2, <2>3, QuietSound DEF SoundStore
<1> QED
  BY <1>2, <1>3, <1>4, <1>5, <1>6, StepSound, RebootSound DEF Next

-----------------------------------------------------------------------------
(* What a task has read.                                                   *)

LEMMA EveryBrew == \A n \in Nat : n % 1 = 0
  OBVIOUS

LEMMA Meaning ==
    \A u : /\ Applies(u) <=> AppliesIn(table, wearTick, u)
           /\ NewValue(u) = NewIn(table, u)
<1> TAKE u
<1>1. Applies(u) <=> AppliesIn(table, wearTick, u)
  BY Reads DEF Applies, AppliesIn
<1>2. Get(u.id) = ReadIn(table, u.id)
  BY Reads
<1>3. NewValue(u) = NewIn(table, u)
  BY <1>2 DEF NewValue, NewIn
<1> QED
  BY <1>1, <1>3

(* What an update means depends on the registers it reads.                 *)
LEMMA SameMeaning ==
    ASSUME NEW T, NEW U, NEW w, NEW u,
           u.do \in {"inc", "dec"} => ReadIn(U, u.id) = ReadIn(T, u.id),
           u.do = "warn" => ReadIn(U, u.arg) = ReadIn(T, u.arg),
           u.do \in {"inc", "dec", "warn", "set"}
    PROVE  /\ AppliesIn(T, w, u) => AppliesIn(U, w, u)
           /\ NewIn(U, u) = NewIn(T, u)
<1>1. AppliesIn(T, w, u) => AppliesIn(U, w, u)
  BY DEF AppliesIn
<1>2. NewIn(U, u) = NewIn(T, u)
  BY DEF NewIn
<1> QED
  BY <1>1, <1>2

(* A step of a task leaves the others where they are ...                   *)
LEMMA StepLocal ==
    ASSUME Steady, Shapes, Entered, NEW t \in Tasks, Step(t), NEW u \in Tasks \ {t}
    PROVE  pc'[u] = pc[u] /\ todo'[u] = todo[u] /\ value'[u] = value[u]
<1>1. CASE Skip(t) \/ Tick(t) \/ Compute(t) \/ Find(t)
  BY <1>1 DEF Skip, Tick, Compute, Find, Rest, Works, Goto, Shapes, Entered, local
<1>2. CASE PutId(t) \/ PutNew(t) \/ PutUsed(t) \/ PutValue(t)
  BY <1>2 DEF PutId, PutNew, PutUsed, PutValue, Move, Goto, Shapes, local
<1>3. CASE Persist(t)
  BY <1>3 DEF Persist, Move, Goto, Rest, Works, Shapes, Entered
<1>4. CASE Erase(t) \/ EraseFlash(t) \/ Finish(t)
  BY <1>4 DEF Erase, EraseFlash, Finish, Move, Goto, Rest, Works, Shapes, local
<1> QED
  BY <1>1, <1>2, <1>3, <1>4 DEF Step

(* ... and changes the register it works on and no other.                  *)
LEMMA StepReads ==
    ASSUME Steady, Shapes, Entered, NEW t \in Tasks, Step(t), NEW id \in Registered,
           Work(t).id # id \/ ~(PutUsed(t) \/ PutValue(t) \/ Erase(t))
    PROVE  Get(id)' = Get(id)
<1>1. CASE table' = table
  BY <1>1, TableKept
<1>2. CASE Skip(t) \/ Tick(t) \/ Compute(t) \/ Find(t) \/ Persist(t) \/ EraseFlash(t)
             \/ Finish(t)
  <2>1. table' = table
    BY <1>2 DEF Skip, Tick, Compute, Find, Persist, EraseFlash, Finish, stores
  <2> QED
    BY <1>1, <2>1
<1>3. CASE PutId(t) \/ PutNew(t)
  BY <1>3, PutEffect
<1>4. CASE PutUsed(t) \/ PutValue(t)
  BY <1>4, StoreEffect
<1>5. CASE Erase(t)
  BY <1>5, EraseEffect
<1> QED
  BY <1>2, <1>3, <1>4, <1>5 DEF Step

(* The host task works for itself.                                         *)
LEMMA HostApart ==
    ASSUME Steady, Shapes, Apart, Entered, Untroubled, Step("host")
    PROVE  wearTick' = wearTick /\ \A id \in Service : Get(id)' = Get(id)
<1>0. "host" \in Tasks
  BY DEF Tasks
<1>1. todo["host"] # <<>> => Work("host") \in HostUpdates /\ Work("host").id \in HostIds
  BY <1>0, WorkIs DEF HostUpdates
<1>2. ~Tick("host")
  BY <1>1 DEF Tick, Pending, HostUpdates
<1>3. wearTick' = wearTick
  BY <1>2 DEF Step, Skip, Compute, Find, PutId, PutNew, PutUsed, PutValue, Persist,
     Erase, EraseFlash, Finish
<1>4. PutUsed("host") \/ PutValue("host") \/ Erase("host") => todo["host"] # <<>>
  BY <1>0 DEF PutUsed, PutValue, Erase, Pending, Move, At, Shapes, Writing, Adding
<1>5. Service \subseteq Registered
  BY Numbers, RegisterNumbers
<1>6. \A id \in Service : Get(id)' = Get(id)
  BY <1>0, <1>4, <1>5, StepReads, HostOff
<1> QED
  BY <1>3, <1>6

(* What the host task means does not depend on what others do.             *)
LEMMA HostIntends ==
    ASSUME Steady, Shapes, SoundStore, Intended, wearTick' \in Nat,
           pc'["host"] = pc["host"], todo'["host"] = todo["host"],
           value'["host"] = value["host"]
    PROVE  Intends("host")'
<1>0. "host" \in Tasks
  BY DEF Tasks
<1>1. Work("host")' = Work("host")
  BY DEF Work
<1>2. CASE pc["host"] \in Writing
  <2>1. todo["host"] # <<>> /\ Work("host").do \notin {"tick", "erase"}
    BY <1>0, <1>2 DEF Shapes
  <2>2. Work("host").do = "set" /\ Work("host").every = 1
    BY <1>0, <2>1, WorkIs DEF HostUpdates
  <2>3. wearTick' % 1 = 0
    BY EveryBrew
  <2>4. value["host"] = Work("host").arg
    BY <1>0, <1>2, <2>2 DEF Intended, Intends, NewIn
  <2> QED
    BY <1>1, <2>2, <2>3, <2>4 DEF Intends, AppliesIn, NewIn
<1>3. CASE pc["host"] \notin Writing
  BY <1>3 DEF Intends, Writing
<1> QED
  BY <1>2, <1>3

(* What a brew or a cycle means does not depend on what the host task does. *)
LEMMA WorkerIntends ==
    ASSUME Steady, Shapes, Entered, Intended, NEW t \in Workers,
           wearTick' = wearTick, \A id \in Service : Get(id)' = Get(id),
           pc'[t] = pc[t], todo'[t] = todo[t], value'[t] = value[t]
    PROVE  Intends(t)'
<1>0. t \in Tasks /\ t # "host"
  BY DEF Workers, Tasks
<1>1. CASE pc[t] \in Writing
  <2>1. todo[t] # <<>> /\ Work(t).do \notin {"tick", "erase"}
    BY <1>0, <1>1 DEF Shapes
  <2>2. PICK u : u = Work(t)
    OBVIOUS
  <2>3. Work(t)' = u
    BY <2>2 DEF Work
  <2>4. u \in Updates /\ u.id \in Service /\ (u.do = "warn" => u.arg \in Service)
    <3>1. Work(t) \in BrewUpdates \/ Work(t) \in CycleUpdates
      BY <1>0, <2>1, WorkIs DEF Tasks
    <3>2. Wears \subseteq Service
      BY Numbers, RegisterNumbers
    <3> QED
      BY <1>0, <2>1, <2>2, <3>1, <3>2, WorkIs DEF BrewUpdates, CycleUpdates, Counts
  <2>5. u.do \in {"inc", "dec", "warn", "set"}
    BY <2>1, <2>2, <2>4 DEF Updates
  <2>6. \A id \in Service : ReadIn(table', id) = ReadIn(table, id)
    BY Reads
  <2>7. /\ AppliesIn(table, wearTick, u) => AppliesIn(table', wearTick, u)
        /\ NewIn(table', u) = NewIn(table, u)
    BY <2>4, <2>5, <2>6, SameMeaning
  <2> QED
    BY <1>0, <1>1, <2>2, <2>3, <2>4, <2>6, <2>7 DEF Intended, Intends
<1>2. CASE pc[t] \notin Writing
  BY <1>2 DEF Intends, Writing
<1> QED
  BY <1>1, <1>2

(* The task itself.                                                        *)
LEMMA OwnIntends ==
    ASSUME Steady, Shapes, Entered, Intended, NEW t \in Tasks, Step(t)
    PROVE  Intends(t)'
<1>1. CASE pc'[t] \notin Writing
  BY <1>1 DEF Intends, Writing
<1>2. CASE Compute(t)
  <2>1. /\ table' = table /\ wearTick' = wearTick /\ todo' = todo /\ pc'[t] = "find"
        /\ value'[t] = NewValue(Work(t)) /\ Applies(Work(t))
    BY <1>2 DEF Compute, Goto, Shapes, Entered, stores
  <2>2. Work(t)' = Work(t)
    BY <2>1 DEF Work
  <2> QED
    BY <2>1, <2>2, Meaning DEF Intends
<1>3. CASE Find(t) \/ PutId(t) \/ PutNew(t)
  <2>1. /\ pc[t] \in Writing \ {"persist"} /\ pc'[t] # "persist"
        /\ todo' = todo /\ value' = value /\ wearTick' = wearTick
    <3>1. CASE Find(t)
      BY <3>1, FindGoes DEF Find, At, Writing
    <3>2. CASE PutId(t) \/ PutNew(t)
      BY <3>2 DEF PutId, PutNew, Move, At, Goto, Shapes, local, Writing, Adding
    <3> QED
      BY <1>3, <3>1, <3>2
  <2>2. todo[t] # <<>> /\ Work(t).do \notin {"tick", "erase"}
    BY <2>1 DEF Shapes
  <2>3. PICK u : u = Work(t)
    OBVIOUS
  <2>4. Work(t)' = u
    BY <2>1, <2>3 DEF Work
  <2>5. u \in Updates /\ u.id \in Registered /\ (u.do = "warn" => u.arg \in Registered)
    <3>1. Work(t) \in BrewUpdates \/ Work(t) \in CycleUpdates \/ Work(t) \in HostUpdates
      BY <2>2, WorkIs DEF Tasks
    <3>2. Wears \subseteq Registered
      BY Numbers, RegisterNumbers
    <3> QED
      BY <2>2, <2>3, <3>1, <3>2, WorkIs
         DEF BrewUpdates, CycleUpdates, HostUpdates, Counts
  <2>6. u.do \in {"inc", "dec", "warn", "set"}
    BY <2>2, <2>3, <2>5 DEF Updates
  <2>7. ~(PutUsed(t) \/ PutValue(t) \/ Erase(t))
    BY <1>3 DEF Find, PutId, PutNew, PutUsed, PutValue, Erase, Pending, Move, At
  <2>8. \A id \in Registered : ReadIn(table', id) = ReadIn(table, id)
    BY <2>7, StepReads, Reads
  <2>9. /\ AppliesIn(table, wearTick, u) => AppliesIn(table', wearTick, u)
        /\ NewIn(table', u) = NewIn(table, u)
    BY <2>5, <2>6, <2>8, SameMeaning
  <2> QED
    BY <2>1, <2>3, <2>4, <2>9 DEF Intended, Intends
<1>4. CASE PutUsed(t) \/ PutValue(t)
  <2>1. /\ pc[t] \in Writing \ {"persist"} /\ pc'[t] = "persist"
        /\ todo' = todo /\ value' = value /\ wearTick' = wearTick
    BY <1>4 DEF PutUsed, PutValue, Move, At, Goto, Shapes, local, Writing, Adding
  <2>2. todo[t] # <<>> /\ Work(t).do \notin {"tick", "erase"}
    BY <2>1 DEF Shapes
  <2>3. PICK u : u = Work(t)
    OBVIOUS
  <2>4. Work(t)' = u
    BY <2>1, <2>3 DEF Work
  <2>5. AppliesIn(table, wearTick, u) /\ value[t] = NewIn(table, u)
    BY <2>1, <2>3 DEF Intended, Intends
  <2>6. u.do = "warn" => ReadIn(table', u.arg) = ReadIn(table, u.arg)
    <3> SUFFICES ASSUME u.do = "warn"
                 PROVE  ReadIn(table', u.arg) = ReadIn(table, u.arg)
      OBVIOUS
    <3>1. u.arg \in Wears /\ u.id = Warning(u.arg)
      BY <2>2, <2>3, WorkIs DEF Tasks, HostUpdates, BrewUpdates, CycleUpdates, Counts
    <3>2. u.arg # u.id /\ u.arg \in Registered
      BY <3>1, RegisterNumbers, Numbers DEF Warning
    <3>3. Get(u.arg)' = Get(u.arg)
      BY <2>3, <3>2, StepReads
    <3> QED
      BY <3>3, Reads
  <2>7. wearTick % u.every = 0
    BY <2>5 DEF AppliesIn
  <2>8. u.do = "set" => value[t] = u.arg
    BY <2>5 DEF NewIn
  <2>9. u.do = "warn" => value[t] = 1 /\ ReadIn(table', u.arg) < WarnBelow(u.arg)
    BY <2>5, <2>6 DEF AppliesIn, NewIn
  <2> QED
    BY <2>1, <2>4, <2>7, <2>8, <2>9 DEF Intends
<1>5. CASE Skip(t) \/ Tick(t)
  BY <1>5, <1>1 DEF Skip, Tick, Pending, At, Writing, Adding
<1>6. CASE Persist(t) \/ Erase(t) \/ EraseFlash(t) \/ Finish(t)
  BY <1>6, <1>1
     DEF Persist, Erase, EraseFlash, Finish, Pending, Move, Goto, Shapes, Writing, Adding
<1> QED
  BY <1>2, <1>3, <1>4, <1>5, <1>6 DEF Step

(* A step of a task, for the others.                                       *)
LEMMA OthersIntend ==
    ASSUME Steady, Shapes, Apart, Entered, Mirrored, Untroubled, SoundStore,
           Intended, NEW t \in Tasks, Step(t),
           NEW u \in Tasks \ {t}
    PROVE  Intends(u)'
<1>1. pc'[u] = pc[u] /\ todo'[u] = todo[u] /\ value'[u] = value[u]
  BY StepLocal
<1>2. CASE u = "host"
  <2>1. wearTick' \in Nat
    BY StepSound DEF SoundStore
  <2> QED
    BY <1>1, <1>2, <2>1, HostIntends
<1>3. CASE u # "host" /\ t = "host"
  BY <1>1, <1>3, HostApart, WorkerIntends DEF Workers, Tasks
<1>4. CASE u # "host" /\ t # "host"
  <2>1. pc[t] # "idle"
    BY DEF Step, Skip, Tick, Compute, Find, PutId, PutNew, PutUsed, PutValue, Persist,
       Erase, EraseFlash, Finish, Pending, Move, At
  <2>2. pc[u] = "idle"
    BY <1>4, <2>1 DEF Shapes, At, Tasks
  <2> QED
    BY <1>1, <2>2 DEF Intends, Writing, Adding
<1> QED
  BY <1>2, <1>3, <1>4

LEMMA IntendedStep ==
    ASSUME Steady, Shapes, Apart, Entered, Mirrored, Untroubled, SoundStore,
           Intended, [Next]_vars
    PROVE  Intended'
<1>1. ASSUME table' = table, value' = value, wearTick' = wearTick,
             NEW t \in Tasks, pc'[t] \notin Writing,
             \A u \in Tasks \ {t} : todo'[u] = todo[u] /\ pc'[u] = pc[u]
      PROVE  Intended'
  <2>1. Intends(t)'
    BY <1>1 DEF Intends, Writing
  <2>2. \A u \in Tasks \ {t} : Work(u)' = Work(u)
    BY <1>1 DEF Work
  <2>3. \A u \in Tasks \ {t} : Intends(u)'
    BY <1>1, <2>2 DEF Intended, Intends
  <2> QED
    BY <2>1, <2>3 DEF Intended
<1>2. CASE HostWrites \/ HostErases
  <2>1. /\ table' = table /\ value' = value /\ wearTick' = wearTick
        /\ pc'["host"] = "next"
        /\ \A u \in Tasks \ {"host"} : todo'[u] = todo[u] /\ pc'[u] = pc[u]
    BY <1>2 DEF HostWrites, HostErases, Move, Goto, Works, Shapes, stores, Tasks
  <2> QED
    BY <1>1, <2>1 DEF Tasks, Writing, Adding
<1>3. CASE HostNames \/ PersistName
  <2>1. /\ table' = table /\ value' = value /\ wearTick' = wearTick
        /\ pc'["host"] \in {"name", "idle"}
        /\ \A u \in Tasks \ {"host"} : todo'[u] = todo[u] /\ pc'[u] = pc[u]
    BY <1>3 DEF HostNames, PersistName, Move, Goto, Shapes, stores, local, Tasks
  <2> QED
    BY <1>1, <2>1 DEF Tasks, Writing, Adding
<1>4. CASE \E s \in Selectors : BrewCharged(s)
  <2>1. /\ table' = table /\ value' = value /\ wearTick' = wearTick
        /\ pc'["brew"] = "next"
        /\ \A u \in Tasks \ {"brew"} : todo'[u] = todo[u] /\ pc'[u] = pc[u]
    BY <1>4 DEF BrewCharged, Move, Goto, Works, Shapes, stores, Tasks
  <2> QED
    BY <1>1, <2>1 DEF Tasks, Writing, Adding
<1>5. CASE \E k \in Kinds : CycleServiced(k)
  <2>1. /\ table' = table /\ value' = value /\ wearTick' = wearTick
        /\ pc'["cycle"] = "next"
        /\ \A u \in Tasks \ {"cycle"} : todo'[u] = todo[u] /\ pc'[u] = pc[u]
    BY <1>5 DEF CycleServiced, Move, Goto, Works, Shapes, stores, Tasks
  <2> QED
    BY <1>1, <2>1 DEF Tasks, Writing, Adding
<1>6. CASE SwitchFamily \/ UNCHANGED vars
  <2>1. table' = table /\ value' = value /\ wearTick' = wearTick /\ pc' = pc /\ todo' = todo
    BY <1>6 DEF SwitchFamily, vars, stores, local
  <2>2. \A u \in Tasks : Work(u)' = Work(u)
    BY <2>1 DEF Work
  <2> QED
    BY <2>1, <2>2 DEF Intended, Intends
<1>7. CASE \E t \in Tasks : Step(t)
  BY <1>7, OwnIntends, OthersIntend DEF Intended
<1>8. CASE Reboot
  BY <1>8 DEF Reboot, NoWork, Intended, Intends, Writing, Adding
<1> QED
  BY <1>2, <1>3, <1>4, <1>5, <1>6, <1>7, <1>8 DEF Next

-----------------------------------------------------------------------------
(* What has been counted.                                                  *)

LEMMA NoneDue ==
    ASSUME Shapes, NEW t \in Tasks, pc[t] = "idle", NEW id
    PROVE  todo[t] = <<>> /\ ~Due(t, id)
<1>1. todo[t] = <<>>
  BY DEF Shapes
<1> QED
  BY <1>1, NoUpdates DEF Due

LEMMA CountedInit == Steady /\ Init => Counted
<1> SUFFICES ASSUME Steady, Init PROVE Counted
  OBVIOUS
<1>1. Shapes /\ Entered
  BY ShapesInit, EnteredInit
<1>2. \A t \in Workers : pc[t] = "idle" /\ t \in Tasks
  BY DEF Init, NoWork, Workers, Tasks
<1>3. \A t \in Workers : \A id : ~Due(t, id)
  BY <1>1, <1>2, NoneDue
<1>4. owed = [i \in CountingRegisters |-> Get(i)] /\ interrupted = 0
  BY DEF Init
<1>5. \A i \in CountingRegisters : Get(i) \in Int
  BY <1>1, GetsInt, Numbers
<1> QED
  BY <1>3, <1>4, <1>5 DEF Counted

LEMMA SameCount ==
    ASSUME Counted, owed' = owed, interrupted' = interrupted,
           \A id \in CountingRegisters : /\ Get(id)' = Get(id)
                                         /\ \A t \in Workers : Due(t, id)' <=> Due(t, id)
    PROVE  Counted'
<1>1. owed' \in [CountingRegisters -> Int] /\ interrupted' \in Nat
  BY DEF Counted
<1>2. \A id \in CountingRegisters :
        IF \E t \in Workers : Due(t, id)'
        THEN Get(id)' + 1 \in owed'[id] - interrupted' .. owed'[id]
        ELSE Get(id)' \in owed'[id] - interrupted' .. owed'[id]
  BY DEF Counted
<1> QED
  BY <1>1, <1>2 DEF Counted

(* Brews and cycles stand where they stood.                                *)
LEMMA SameDue ==
    ASSUME \A t \in Workers : pc'[t] = pc[t] /\ todo'[t] = todo[t], NEW t \in Workers, NEW id
    PROVE  Due(t, id)' <=> Due(t, id)
  BY DEF Due, Work, Incs

LEMMA BegunCount ==
    ASSUME Steady, Shapes, Entered, Counted, NEW t \in Workers, NEW ids,
           pc["brew"] = "idle", pc["cycle"] = "idle", pc'[t] = "next", table' = table,
           \A u \in Workers \ {t} : pc'[u] = pc[u] /\ todo'[u] = todo[u],
           Incs(todo'[t]) = ids, ids \subseteq CountingRegisters, Owes(ids),
           interrupted' = interrupted
    PROVE  Counted'
<1>1. \A u \in Workers : \A id : ~Due(u, id)
  BY NoneDue DEF Workers, Tasks
<1>2. \A id : Get(id)' = Get(id)
  BY TableKept
<1>3. owed' = [id \in CountingRegisters |-> IF id \in ids THEN owed[id] + 1 ELSE owed[id]]
  BY DEF Owes
<1>4. \A id \in CountingRegisters : /\ Get(id) \in owed[id] - interrupted .. owed[id]
                                     /\ owed[id] \in Int /\ interrupted \in Nat
  BY <1>1 DEF Counted
<1>5. \A id : Due(t, id)' <=> id \in ids
  BY DEF Due, Incs
<1>6. \A u \in Workers \ {t} : \A id : Due(u, id)' <=> Due(u, id)
  BY DEF Due, Incs, Work
<1>7. \A id \in CountingRegisters :
        IF \E u \in Workers : Due(u, id)'
        THEN Get(id)' + 1 \in owed'[id] - interrupted' .. owed'[id]
        ELSE Get(id)' \in owed'[id] - interrupted' .. owed'[id]
  BY <1>1, <1>2, <1>3, <1>4, <1>5, <1>6
<1>8. owed' \in [CountingRegisters -> Int] /\ interrupted' \in Nat
  BY <1>3 DEF Counted
<1> QED
  BY <1>7, <1>8 DEF Counted

(* The first of the updates that are left.                                 *)
LEMMA WorkDone ==
    ASSUME Steady, Shapes, NEW t \in Workers, todo[t] # <<>>
    PROVE  /\ Incs(Tail(todo[t])) =
                Incs(todo[t]) \ (IF Work(t).do = "inc" THEN {Work(t).id} ELSE {})
           /\ Work(t).do = "inc" => Work(t).id \in Incs(todo[t])
           /\ Orderly(Tail(todo[t])) /\ Len(todo[t]) \in Nat /\ Len(todo[t]) >= 1
           /\ Len(Tail(todo[t])) = Len(todo[t]) - 1
           /\ Tail(todo[t]) # <<>> => Len(todo[t]) >= 2 /\ Head(Tail(todo[t])) = todo[t][2]
           /\ Work(t) = todo[t][1]
<1>1. PICK q : q = todo[t]
  OBVIOUS
<1>2. q \in Seq(Updates) /\ q # <<>> /\ Orderly(q)
  BY <1>1 DEF Shapes, Workers, Tasks
<1>3. Head(q) = Work(t)
  BY <1>1 DEF Work
<1>4. /\ Orderly(Tail(q)) /\ Head(q) = q[1]
      /\ Incs(Tail(q)) = Incs(q) \ (IF Head(q).do = "inc" THEN {Head(q).id} ELSE {})
  BY <1>2, RestIsOrderly
<1>5. /\ Len(q) \in Nat /\ Len(q) >= 1 /\ Len(Tail(q)) = Len(q) - 1
      /\ Tail(q) # <<>> => Len(q) >= 2 /\ Head(Tail(q)) = q[2]
  BY <1>2
<1>6. Head(q).do = "inc" => Head(q).id \in Incs(q)
  BY <1>4, <1>5 DEF Incs
<1> QED
  BY <1>1, <1>3, <1>4, <1>5, <1>6

(* A counter is counted when the task writes it to the table.              *)
LEMMA WorkerCounts ==
    ASSUME Steady, Shapes, Entered, Intended, Counted, NEW t \in Workers, Step(t)
    PROVE  Counted'
<1>0. t \in Tasks /\ t # "host" /\ CountingRegisters \subseteq Registered
  BY Numbers DEF Workers, Tasks
<1>1. owed' = owed /\ interrupted' = interrupted
  BY DEF Step, Skip, Tick, Compute, Find, PutId, PutNew, PutUsed, PutValue, Persist,
     Erase, EraseFlash, Finish, ghost, tally
<1>2. pc[t] # "idle"
  BY DEF Step, Skip, Tick, Compute, Find, PutId, PutNew, PutUsed, PutValue, Persist,
     Erase, EraseFlash, Finish, Pending, Move, At
<1>3. \A u \in Workers \ {t} : pc[u] = "idle" /\ pc'[u] = pc[u] /\ todo'[u] = todo[u]
                               /\ u \in Tasks
  BY <1>0, <1>2, StepLocal DEF Shapes, At, Workers, Tasks
<1>4. \A u \in Workers \ {t} : \A id : ~Due(u, id)
  BY <1>3, NoneDue
<1>5. \A u \in Workers \ {t} : \A id : Due(u, id)' <=> Due(u, id)
  BY <1>3 DEF Due, Work, Incs
<1>6. ASSUME \A id \in CountingRegisters : Get(id)' = Get(id) /\ (Due(t, id)' <=> Due(t, id))
      PROVE  Counted'
  BY <1>1, <1>5, <1>6, SameCount
<1>7. CASE Skip(t) \/ Tick(t)
  <2>1. /\ pc[t] = "next" /\ pc' = pc /\ todo[t] # <<>> /\ todo'[t] = Tail(todo[t])
        /\ Work(t).do # "inc"
    BY <1>0, <1>7 DEF Skip, Tick, Pending, At, Rest, Works, Shapes
  <2>2. Incs(todo'[t]) = Incs(todo[t])
    BY <1>0, <2>1, WorkDone
  <2>3. Incs(todo[t])' = Incs(todo'[t])
    BY DEF Incs
  <2>4. \A id : Due(t, id)' <=> Due(t, id)
    BY <2>1, <2>2, <2>3 DEF Due
  <2>5. \A id : Get(id)' = Get(id)
    BY <1>7, TableKept DEF Skip, Tick, stores
  <2> QED
    BY <1>6, <2>4, <2>5
<1>8. CASE Compute(t) \/ Find(t) \/ PutId(t) \/ PutNew(t)
  <2>1. pc[t] # "persist" /\ pc'[t] # "persist" /\ todo' = todo
    <3>1. CASE Find(t)
      BY <1>0, <3>1, FindGoes DEF Find, At
    <3>2. CASE Compute(t) \/ PutId(t) \/ PutNew(t)
      BY <1>0, <3>2 DEF Compute, PutId, PutNew, Pending, Move, At, Goto, Shapes, local
    <3> QED
      BY <1>8, <3>1, <3>2
  <2>2. \A id : Due(t, id)' <=> Due(t, id)
    BY <2>1 DEF Due, Incs
  <2>3. ~(PutUsed(t) \/ PutValue(t) \/ Erase(t))
    BY <1>8 DEF Compute, Find, PutId, PutNew, PutUsed, PutValue, Erase, Pending, Move, At
  <2> QED
    BY <1>0, <1>6, <2>2, <2>3, StepReads
<1>9. CASE PutUsed(t) \/ PutValue(t)
  <2>1. /\ pc[t] \in Writing \ {"persist"} /\ pc'[t] = "persist" /\ todo' = todo
    BY <1>0, <1>9 DEF PutUsed, PutValue, Move, At, Goto, Shapes, local, Writing, Adding
  <2>2. todo[t] # <<>> /\ Work(t).do \notin {"tick", "erase"}
    BY <1>0, <2>1 DEF Shapes
  <2>3. PICK u : u = Work(t)
    OBVIOUS
  <2>4. Work(t)' = u
    BY <2>1, <2>3 DEF Work
  <2>5. \A id \in Registered \ {u.id} : Get(id)' = Get(id)
    BY <1>0, <2>3, StepReads
  <2>6. \A id : id # u.id \/ u.do # "inc" => (Due(t, id)' <=> Due(t, id))
    BY <2>1, <2>3, <2>4 DEF Due, Incs
  <2>7. CASE u.do # "inc"
    <3>1. u.id \notin CountingRegisters
      <4>1. Work(t) \in BrewUpdates \/ Work(t) \in CycleUpdates
        BY <1>0, <2>2, WorkIs DEF Tasks
      <4>2. \A g \in Wears : g \in Gauges /\ Warning(g) \in Warnings
        BY RegisterNumbers DEF Wears, Warnings
      <4> QED
        BY <2>2, <2>3, <2>7, <4>1, <4>2, Numbers
           DEF BrewUpdates, CycleUpdates, Counts, Flags
    <3> QED
      BY <1>0, <1>6, <2>5, <2>6, <2>7, <3>1
  <2>8. CASE u.do = "inc"
    <3>1. Due(t, u.id) /\ ~Due(t, u.id)'
      <4>1. u.id \in Incs(todo[t])
        BY <1>0, <2>2, <2>3, <2>8, WorkDone
      <4> QED
        BY <2>1, <2>3, <2>4, <2>8, <4>1 DEF Due
    <3>2. value[t] = NewIn(table, u)
      BY <1>0, <2>1, <2>3 DEF Intended, Intends
    <3>3. value[t] = Get(u.id) + 1
      BY <2>8, <3>2, Reads DEF NewIn
    <3>4. Get(u.id)' = value[t]
      <4>1. Get(Work(t).id)' = value[t]
        BY <1>0, <1>9, StoreEffect
      <4>2. ReadIn(table', u.id) = value[t]
        BY <2>4, <4>1, Reads
      <4> QED
        BY <4>2, Reads
    <3>5. \A id : id # u.id =>
            ((\E w \in Workers : Due(w, id)') <=> (\E w \in Workers : Due(w, id)))
      BY <1>5, <2>6
    <3>6. ~\E w \in Workers : Due(w, u.id)'
      BY <1>4, <1>5, <3>1
    <3>7. \A id \in CountingRegisters :
            IF \E w \in Workers : Due(w, id)'
            THEN Get(id)' + 1 \in owed'[id] - interrupted' .. owed'[id]
            ELSE Get(id)' \in owed'[id] - interrupted' .. owed'[id]
      <4> SUFFICES ASSUME NEW id \in CountingRegisters
                   PROVE  IF \E w \in Workers : Due(w, id)'
                          THEN Get(id)' + 1 \in owed'[id] - interrupted' .. owed'[id]
                          ELSE Get(id)' \in owed'[id] - interrupted' .. owed'[id]
        OBVIOUS
      <4>1. CASE id = u.id
        BY <1>1, <3>1, <3>3, <3>4, <3>6, <4>1 DEF Counted
      <4>2. CASE id # u.id
        BY <1>0, <1>1, <2>5, <3>5, <4>2 DEF Counted
      <4> QED
        BY <4>1, <4>2
    <3>8. owed' \in [CountingRegisters -> Int] /\ interrupted' \in Nat
      BY <1>1 DEF Counted
    <3> QED
      BY <3>7, <3>8 DEF Counted
  <2> QED
    BY <2>7, <2>8
<1>10. CASE Persist(t)
  <2>1. /\ pc[t] = "persist" /\ pc'[t] = "next" /\ todo'[t] = Tail(todo[t])
        /\ table' = table
    BY <1>0, <1>10 DEF Persist, Move, At, Goto, Rest, Works, Shapes
  <2>2. todo[t] # <<>>
    BY <1>0, <2>1 DEF Shapes, Writing
  <2>3. Incs(todo'[t]) = Incs(todo[t]) \ (IF Work(t).do = "inc" THEN {Work(t).id} ELSE {})
    BY <1>0, <2>1, <2>2, WorkDone
  <2>4. Incs(todo[t])' = Incs(todo'[t])
    BY DEF Incs
  <2>5. \A id : Due(t, id)' <=> Due(t, id)
    BY <2>1, <2>3, <2>4 DEF Due
  <2> QED
    BY <1>6, <2>1, <2>5, TableKept
<1>11. CASE Finish(t)
  <2>1. pc[t] = "next" /\ pc'[t] = "idle" /\ todo' = todo /\ table' = table
    BY <1>0, <1>11 DEF Finish, Move, At, Goto, Shapes, local
  <2>2. \A id : Due(t, id)' <=> Due(t, id)
    BY <2>1 DEF Due, Incs
  <2> QED
    BY <1>6, <2>1, <2>2, TableKept
<1>12. ~Erase(t) /\ ~EraseFlash(t)
  BY <1>0, WorkIs
     DEF Erase, EraseFlash, Pending, Move, At, Shapes, BrewUpdates, CycleUpdates, Counts,
         Tasks
<1> QED
  BY <1>7, <1>8, <1>9, <1>10, <1>11, <1>12 DEF Step

LEMMA AllInt == Entered => \A id \in Registered : Get(id) \in Int
  BY GetsInt

(* A brew or a cycle is only begun when neither is at work.                *)
LEMMA BothAtRest ==
    ASSUME Calm', NEW s, NEW k, BrewCharged(s) \/ CycleServiced(k)
    PROVE  At("brew", "idle") /\ At("cycle", "idle")
  BY DEF BrewCharged, CycleServiced, Upset, Overlaps, Calm, Move

(* At rest a counter stands in the flash where it stands in the table.     *)
LEMMA StandsAtRest ==
    ASSUME Steady, Shapes, Apart, Entered, Mirrored, Untroubled,
           pc["brew"] = "idle", pc["cycle"] = "idle", NEW id \in CountingRegisters
    PROVE  Stands(flash, id) = Get(id) /\ Stands(durable, id) = Get(id)
<1>1. id \in Registered /\ id \in Service
  BY Numbers
<1>2. Untouched(id)
  <2> SUFFICES ASSUME NEW t \in Tasks, pc[t] \in {"persist", "erase"}
               PROVE  Work(t).id # id
    BY DEF Untouched
  <2>1. t = "host" /\ todo["host"] # <<>>
    BY DEF Shapes, Tasks, Writing
  <2> QED
    BY <1>1, <2>1, HostOff
<1>3. Agrees(id) /\ Committed(id)
  BY <1>1, <1>2 DEF Mirrored, At
<1>4. id \notin Held => Get(id) = 0
  BY <1>1, Reads, ReadsNothing DEF Held
<1> QED
  BY <1>3, <1>4 DEF Agrees, Committed, Stands

(* What a counter stands at after a boot: where it stood in the flash.     *)
LEMMA RebootStands ==
    ASSUME Steady, Shapes, Mirrored, Reboot, NEW id \in CountingRegisters
    PROVE  /\ Get(id)' \in {Stands(flash, id), Stands(durable, id)}
           /\ Stands(flash, id)' = Get(id)' /\ Stands(durable, id)' = Get(id)'
<1>1. id \in Registered /\ SeedValue(id) = 0
  BY Numbers DEF SeedValue
<1>2. PICK lost \in SUBSET Uncommitted :
         /\ Held' = DOMAIN flash' /\ durable' = flash'
         /\ \A i \in DOMAIN flash' : Get(i)' = flash'[i]
         /\ \A i \in DOMAIN Survivor(lost) :
              i \in DOMAIN flash' /\ flash'[i] = Survivor(lost)[i]
         /\ \A i \in DOMAIN flash' \ DOMAIN Survivor(lost) :
              i \in Seeds(family) /\ flash'[i] = SeedValue(i)
  BY RebootFine
<1>3. id \notin Held' => Get(id)' = 0
  <2>1. id \notin HeldIn(table') => ReadIn(table', id) = 0
    BY <1>1, ReadsNothing
  <2> QED
    BY <2>1, Reads DEF Held
<1>4. Get(id)' = Stands(flash', id)
  BY <1>2, <1>3 DEF Stands
<1>5. Stands(flash', id) = Stands(Survivor(lost), id)
  BY <1>1, <1>2 DEF Stands
<1>6. Stands(Survivor(lost), id) = IF id \in lost THEN Stands(durable, id)
                                                  ELSE Stands(flash, id)
  BY DEF Stands, Survivor
<1> QED
  BY <1>2, <1>4, <1>5, <1>6 DEF Stands

LEMMA RebootCounts ==
    ASSUME Steady, Shapes, Apart, Entered, Mirrored, Untroubled, Counted, Behind, Reboot
    PROVE  /\ interrupted' \in Nat /\ owed' = owed
           /\ \A id \in CountingRegisters :
                /\ Get(id)' \in owed[id] - interrupted' .. owed[id]
                /\ Stands(flash, id)' = Get(id)' /\ Stands(durable, id)' = Get(id)'
<1>1. /\ interrupted \in Nat /\ owed' = owed
      /\ interrupted' = IF At("brew", "idle") /\ At("cycle", "idle")
                        THEN interrupted ELSE interrupted + 1
  BY DEF Counted, Reboot
<1>2. \A id \in CountingRegisters : owed[id] \in Int
  BY DEF Counted
<1>3. CASE At("brew", "idle") /\ At("cycle", "idle")
  <2>1. \A t \in Workers : \A id : ~Due(t, id)
    BY <1>3, NoneDue DEF Workers, Tasks, At
  <2>2. \A id \in CountingRegisters : Get(id) \in owed[id] - interrupted .. owed[id]
    BY <2>1 DEF Counted
  <2>3. \A id \in CountingRegisters : Get(id)' = Get(id)
    BY <1>3, StandsAtRest, RebootStands DEF At
  <2> QED
    BY <1>1, <1>3, <2>2, <2>3, RebootStands
<1>4. CASE ~(At("brew", "idle") /\ At("cycle", "idle"))
  <2>1. interrupted' = interrupted + 1
    BY <1>1, <1>4
  <2>2. \A id \in CountingRegisters :
          Get(id)' \in owed[id] - interrupted - 1 .. owed[id]
    BY RebootStands DEF Behind
  <2>3. \A id \in CountingRegisters : Get(id)' \in owed[id] - interrupted' .. owed[id]
    BY <1>1, <1>2, <2>1, <2>2
  <2> QED
    BY <1>1, <2>3, RebootStands
<1> QED
  BY <1>3, <1>4

LEMMA BehindInit == Steady /\ Init => Behind
<1> SUFFICES ASSUME Steady, Init PROVE Behind
  OBVIOUS
<1>1. Shapes /\ Apart /\ Entered /\ Mirrored /\ Counted
  BY ShapesInit, ApartInit, EnteredInit, MirroredInit, CountedInit
<1>2. Untroubled /\ pc["brew"] = "idle" /\ pc["cycle"] = "idle"
  BY DEF Init, Untroubled, NoWork, Tasks
<1>3. \A t \in Workers : \A id : ~Due(t, id)
  BY <1>1, <1>2, NoneDue DEF Workers, Tasks
<1>4. \A id \in CountingRegisters : /\ Get(id) \in owed[id] - interrupted .. owed[id]
                                     /\ owed[id] \in Int /\ interrupted \in Nat
  BY <1>1, <1>3 DEF Counted
<1>5. \A id \in CountingRegisters : Stands(flash, id) = Get(id) /\ Stands(durable, id) = Get(id)
  BY <1>1, <1>2, StandsAtRest
<1> QED
  BY <1>4, <1>5 DEF Behind

LEMMA BehindStep ==
    ASSUME Steady, Shapes, Apart, Entered, Mirrored, Untroubled, Counted, Behind,
           Calm', [Next]_vars
    PROVE  Behind'
<1>0. /\ CountingRegisters \subseteq Registered /\ CountingRegisters \subseteq Service
      /\ interrupted \in Nat /\ \A id \in CountingRegisters : owed[id] \in Int
  BY Numbers DEF Counted
<1>1. ASSUME owed' = owed, interrupted' = interrupted,
             flash' = flash, durable' \in {durable, flash}
      PROVE  Behind'
  BY <1>1 DEF Behind
<1>2. ASSUME NEW ids, Owes(ids), interrupted' = interrupted, flash' = flash,
             durable' = durable, pc["brew"] = "idle", pc["cycle"] = "idle"
      PROVE  Behind'
  <2>1. \A t \in Workers : \A id : ~Due(t, id)
    BY <1>2, NoneDue DEF Workers, Tasks
  <2>2. \A id \in CountingRegisters :
          /\ Get(id) \in owed[id] - interrupted .. owed[id]
          /\ Stands(flash, id) = Get(id) /\ Stands(durable, id) = Get(id)
          /\ owed'[id] \in {owed[id], owed[id] + 1}
    BY <1>2, <2>1, StandsAtRest DEF Counted, Owes
  <2> QED
    BY <1>0, <1>2, <2>2 DEF Behind
<1>3. CASE HostWrites \/ HostErases \/ HostNames \/ PersistName \/ SwitchFamily
             \/ UNCHANGED vars
  BY <1>1, <1>3 DEF HostWrites, HostErases, HostNames, PersistName, SwitchFamily, vars,
     stores, ghost, tally
<1>4. ASSUME NEW s \in Selectors, BrewCharged(s) PROVE Behind'
  <2>1. pc["brew"] = "idle" /\ pc["cycle"] = "idle"
    BY <1>4, BothAtRest DEF At
  <2> QED
    BY <1>2, <1>4, <2>1 DEF BrewCharged, stores
<1>5. ASSUME NEW k \in Kinds, CycleServiced(k) PROVE Behind'
  <2>1. pc["brew"] = "idle" /\ pc["cycle"] = "idle"
    BY <1>5, BothAtRest DEF At
  <2> QED
    BY <1>2, <1>5, <2>1 DEF CycleServiced, stores
<1>6. CASE Reboot
  <2>1. /\ interrupted' \in Nat /\ owed' = owed
        /\ \A id \in CountingRegisters :
             /\ Get(id)' \in owed[id] - interrupted' .. owed[id]
             /\ Stands(flash, id)' = Get(id)' /\ Stands(durable, id)' = Get(id)'
    BY <1>6, RebootCounts
  <2>2. \A id \in CountingRegisters :
          /\ Stands(flash, id)' \in owed'[id] - interrupted' - 1 .. owed'[id]
          /\ Stands(durable, id)' \in owed'[id] - interrupted' - 1 .. owed'[id]
    BY <1>0, <2>1
  <2> QED
    BY <2>2 DEF Behind
<1>7. ASSUME NEW t \in Tasks, Step(t) PROVE Behind'
  <2>0. owed' = owed /\ interrupted' = interrupted
    BY <1>7 DEF Step, Skip, Tick, Compute, Find, PutId, PutNew, PutUsed, PutValue, Persist,
       Erase, EraseFlash, Finish, ghost, tally
  <2>1. CASE ~Persist(t) /\ ~EraseFlash(t)
    BY <1>1, <1>7, <2>0, <2>1 DEF Step, Skip, Tick, Compute, Find, PutId, PutNew, PutUsed,
       PutValue, Erase, Finish, stores
  <2>2. ASSUME NEW id \in CountingRegisters, Work(t).id = id, Persist(t)
        PROVE  value[t] \in owed[id] - interrupted - 1 .. owed[id]
    <3>1. pc[t] = "persist"
      BY <2>2 DEF Persist, Move, At
    <3>2. Get(id) = value[t]
      BY <2>2, <3>1 DEF Mirrored
    <3>3. \/ Get(id) \in owed[id] - interrupted .. owed[id]
          \/ Get(id) + 1 \in owed[id] - interrupted .. owed[id]
      BY DEF Counted
    <3>4. Get(id) \in Int
      BY <1>0, GetsInt
    <3> QED
      BY <1>0, <3>2, <3>3, <3>4
  <2>3. CASE Persist(t)
    <3>1. PICK open \in BOOLEAN :
            /\ flash' = IF open THEN Put(flash, Work(t).id, value[t]) ELSE flash
            /\ durable' = IF open /\ t # "brew" THEN Put(durable, Work(t).id, value[t])
                                                ELSE durable
      BY <2>3 DEF Persist, Opens, Shapes
    <3>2. \A f, i : Stands(Put(f, Work(t).id, value[t]), i) =
                      IF i = Work(t).id THEN value[t] ELSE Stands(f, i)
      BY DEF Stands, Put
    <3>3. \A i \in CountingRegisters :
            /\ Stands(flash', i) = Stands(flash, i)
                 \/ (i = Work(t).id /\ Stands(flash', i) = value[t])
            /\ Stands(durable', i) = Stands(durable, i)
                 \/ (i = Work(t).id /\ Stands(durable', i) = value[t])
      BY <3>1, <3>2
    <3>4. \A i \in CountingRegisters :
            /\ Stands(flash', i) \in owed[i] - interrupted - 1 .. owed[i]
            /\ Stands(durable', i) \in owed[i] - interrupted - 1 .. owed[i]
      BY <2>2, <2>3, <3>3 DEF Behind
    <3> QED
      BY <2>0, <3>4 DEF Behind, Stands
  <2>4. CASE EraseFlash(t)
    <3>1. t = "host" /\ todo["host"] # <<>>
      BY <2>4 DEF EraseFlash, Move, At, Shapes, Tasks
    <3>2. Work(t).id \notin CountingRegisters
      BY <1>0, <3>1, HostOff
    <3>3. \A f : \A i \in CountingRegisters : Stands(Without(f, Work(t).id), i) = Stands(f, i)
      BY <3>2 DEF Stands, Without
    <3>4. \A i \in CountingRegisters :
            Stands(flash', i) = Stands(flash, i) /\ Stands(durable', i) = Stands(durable, i)
      BY <2>4, <3>3 DEF EraseFlash
    <3>5. \A i \in CountingRegisters :
            /\ Stands(flash', i) \in owed[i] - interrupted - 1 .. owed[i]
            /\ Stands(durable', i) \in owed[i] - interrupted - 1 .. owed[i]
      BY <3>4 DEF Behind
    <3> QED
      BY <2>0, <3>5 DEF Behind, Stands
  <2> QED
    BY <2>1, <2>3, <2>4
<1> QED
  BY <1>3, <1>4, <1>5, <1>6, <1>7 DEF Next

LEMMA CountedStep ==
    ASSUME Steady, Shapes, Apart, Entered, Mirrored, Untroubled, SoundStore, Intended,
           Counted, Behind, Shapes', Calm', [Next]_vars
    PROVE  Counted'
<1>0. CountingRegisters \subseteq Registered /\ CountingRegisters \subseteq Service
      /\ family \in InUse /\ "host" \in Tasks
  BY Numbers DEF Shapes, Tasks
<1>1. ASSUME owed' = owed, interrupted' = interrupted,
             \A id \in CountingRegisters : Get(id)' = Get(id),
             \A u \in Workers : pc'[u] = pc[u] /\ todo'[u] = todo[u]
      PROVE  Counted'
  BY <1>1, SameDue, SameCount
<1>2. CASE HostWrites \/ HostErases \/ HostNames \/ PersistName
  <2>1. /\ table' = table /\ owed' = owed /\ interrupted' = interrupted
        /\ \A u \in Workers : todo'[u] = todo[u] /\ pc'[u] = pc[u]
    BY <1>2 DEF HostWrites, HostErases, HostNames, PersistName, Move, Goto, Works,
       Shapes, stores, local, ghost, tally, Tasks, Workers
  <2> QED
    BY <1>1, <2>1, TableKept
<1>3. CASE SwitchFamily \/ UNCHANGED vars
  <2>1. /\ table' = table /\ owed' = owed /\ interrupted' = interrupted
        /\ pc' = pc /\ todo' = todo
    BY <1>3 DEF SwitchFamily, vars, stores, local, ghost, tally
  <2> QED
    BY <1>1, <2>1, TableKept
<1>4. ASSUME NEW s \in Selectors, BrewCharged(s) PROVE Counted'
  <2>1. pc["brew"] = "idle" /\ pc["cycle"] = "idle"
    BY <1>4, BothAtRest DEF At
  <2>2. /\ pc'["brew"] = "next" /\ table' = table /\ todo'["brew"] = Wear(family, s)
        /\ \A u \in Workers \ {"brew"} : pc'[u] = pc[u] /\ todo'[u] = todo[u]
        /\ Owes(CupCounters(family, s)) /\ interrupted' = interrupted
    BY <1>4 DEF BrewCharged, Move, Goto, Works, Shapes, stores, Tasks, Workers
  <2>3. Incs(todo'["brew"]) = CupCounters(family, s)
        /\ CupCounters(family, s) \subseteq CountingRegisters
    BY <1>0, <2>2, WearShape, CountersCount
  <2>4. "brew" \in Workers
    BY DEF Workers
  <2> QED
    BY <2>1, <2>2, <2>3, <2>4, BegunCount
<1>5. ASSUME NEW k \in Kinds, CycleServiced(k) PROVE Counted'
  <2>1. pc["brew"] = "idle" /\ pc["cycle"] = "idle"
    BY <1>5, BothAtRest DEF At
  <2>2. /\ pc'["cycle"] = "next" /\ table' = table /\ todo'["cycle"] = Serviced(family, k)
        /\ \A u \in Workers \ {"cycle"} : pc'[u] = pc[u] /\ todo'[u] = todo[u]
        /\ Owes({CycleCounter(k, family)} \ {NoRegister}) /\ interrupted' = interrupted
    BY <1>5 DEF CycleServiced, Move, Goto, Works, Shapes, stores, Tasks, Workers
  <2>3. Incs(todo'["cycle"]) = {CycleCounter(k, family)} \ {NoRegister}
        /\ {CycleCounter(k, family)} \ {NoRegister} \subseteq CountingRegisters
    BY <1>0, <2>2, ServicedShape, CountersCount
  <2>4. "cycle" \in Workers
    BY DEF Workers
  <2> QED
    BY <2>1, <2>2, <2>3, <2>4, BegunCount
<1>6. CASE Step("host")
  <2>1. owed' = owed /\ interrupted' = interrupted
    BY <1>6 DEF Step, Skip, Tick, Compute, Find, PutId, PutNew, PutUsed, PutValue, Persist,
       Erase, EraseFlash, Finish, ghost, tally
  <2>2. \A u \in Workers : pc'[u] = pc[u] /\ todo'[u] = todo[u]
    BY <1>0, <1>6, StepLocal DEF Workers, Tasks
  <2> QED
    BY <1>0, <1>1, <1>6, <2>1, <2>2, HostApart
<1>7. CASE \E t \in Workers : Step(t)
  BY <1>7, WorkerCounts
<1>8. CASE Reboot
  <2>1. /\ \A t \in Workers : pc'[t] = "idle" /\ t \in Tasks
        /\ owed' = owed
    BY <1>8 DEF Reboot, NoWork, Workers, Tasks
  <2>2. \A t \in Workers : \A id : ~Due(t, id)'
    <3> SUFFICES ASSUME NEW t \in Workers, NEW id PROVE ~Due(t, id)'
      OBVIOUS
    <3>1. todo'[t] = <<>>
      BY <2>1 DEF Shapes
    <3>2. Incs(todo'[t]) = {}
      BY <3>1, NoUpdates
    <3>3. Incs(todo[t])' = Incs(todo'[t])
      BY DEF Incs
    <3> QED
      BY <3>2, <3>3 DEF Due
  <2>3. /\ interrupted' \in Nat /\ owed' \in [CountingRegisters -> Int]
        /\ \A id \in CountingRegisters : Get(id)' \in owed'[id] - interrupted' .. owed'[id]
    BY <1>8, RebootCounts DEF Counted
  <2> QED
    BY <2>2, <2>3 DEF Counted
<1> QED
  BY <1>2, <1>3, <1>4, <1>5, <1>6, <1>7, <1>8 DEF Next, Tasks, Workers

-----------------------------------------------------------------------------
(* What the machine warns of.                                              *)

LEMMA WearsApart ==
    /\ Wears \subseteq Gauges /\ Flags \subseteq Warnings /\ Wears \cap Flags = {}
    /\ \A g \in Wears : Warning(g) \in Flags /\ WarnBelow(g) \in 0..20
    /\ \A g, h \in Wears : Warning(g) = Warning(h) => g = h
  BY RegisterNumbers DEF Flags, Warning, WarnBelow

LEMMA RestFixesNothing ==
    ASSUME Shapes, NEW t \in Workers, pc[t] = "idle", NEW g
    PROVE  ~Fixing(t, g)
<1>1. todo[t] = <<>>
  BY DEF Shapes, Workers, Tasks
<1> QED
  BY <1>1 DEF Fixing

(* All the warnings fit.                                                   *)
LEMMA AllRight ==
    ASSUME \A g \in Wears : Right(g)',
           \A g \in Wears : Fixing("cycle", g)' => Get(g)' = 100
    PROVE  Warned'
<1>1. \A t \in Workers, g \in Wears : Fixing(t, g)' => Halfway(t, g)'
  <2> SUFFICES ASSUME NEW t \in Workers, NEW g \in Wears, Fixing(t, g)'
               PROVE  Halfway(t, g)'
    OBVIOUS
  <2>1. CASE t = "brew"
    <3>1. Right(g)'
      OBVIOUS
    <3>2. Get(Warning(g))' = 1 => Get(g)' < WarnBelow(g)
      BY <3>1 DEF Right
    <3> QED
      BY <2>1, <3>1, <3>2 DEF Halfway
  <2>2. CASE t = "cycle"
    BY <2>2 DEF Halfway
  <2> QED
    BY <2>1, <2>2 DEF Workers
<1> QED
  BY <1>1 DEF Warned

(* Nothing has changed for the gauges, their warnings and their tasks.     *)
LEMMA SameWarned ==
    ASSUME Warned, interrupted' = interrupted, wearTick' = wearTick,
           \A id \in Gauges \cup Warnings : Get(id)' = Get(id),
           \A t \in Workers : /\ todo'[t] = todo[t]
                              /\ pc'[t] = "persist" <=> pc[t] = "persist"
    PROVE  Warned'
<1>1. \A t \in Workers : Work(t)' = Work(t)
  BY DEF Work
<1>2. \A g \in Wears : Right(g)' <=> Right(g)
  BY WearsApart DEF Right
<1>3. \A t \in Workers, g \in Wears : Fixing(t, g)' <=> Fixing(t, g)
  BY <1>1 DEF Fixing
<1>4. \A t \in Workers, g \in Wears : Halfway(t, g) => Halfway(t, g)'
  BY <1>1, <1>2, WearsApart DEF Halfway
<1> QED
  BY <1>2, <1>3, <1>4 DEF Warned

LEMMA WarnedInit == Steady /\ WarnedRight /\ Init => Warned
<1> SUFFICES ASSUME Steady, WarnedRight, Init PROVE Warned
  OBVIOUS
<1>1. /\ flash = Seeded(Stored, family) /\ table = Table(flash, Remembered(Stored, family))
      /\ family \in InUse
  BY DEF Init
<1>2. /\ HeldIn(table) = DOMAIN flash /\ Present(DOMAIN flash)
      /\ \A id \in DOMAIN flash : ReadIn(table, id) = flash[id]
      /\ \A id \in DOMAIN Stored : flash[id] = Stored[id]
      /\ \A id \in DOMAIN flash \ DOMAIN Stored : flash[id] = SeedValue(id)
  BY <1>1, BootFine, StoredFine
<1>3. \A id \in Gauges \cup Warnings : Get(id) = Kept(id)
  BY <1>2, Reads DEF Kept, Present
<1>4. \A g \in Wears : Right(g)
  BY <1>3, WearsApart DEF WarnedRight, Right, Wears
<1>5. \A t \in Workers : pc[t] = "idle"
  BY DEF Init, NoWork, Workers, Tasks
<1>6. Shapes
  BY ShapesInit
<1>7. \A t \in Workers, g \in Wears : ~Fixing(t, g)
  BY <1>5, <1>6, RestFixesNothing
<1> QED
  BY <1>4, <1>7 DEF Warned

(* The next update, when one is done.                                      *)
LEMMA NextWork ==
    ASSUME Steady, Shapes, NEW t \in Workers, todo[t] # <<>>, todo'[t] = Tail(todo[t])
    PROVE  /\ Work(t).do \in {"dec", "set"} /\ Work(t).id \in Wears =>
                /\ todo'[t] # <<>> /\ Work(t)'.id = Warning(Work(t).id)
                /\ Work(t)'.every = Work(t).every /\ Work(t)'.do # "inc"
           /\ todo'[t] # <<>> /\ Work(t)'.do # "inc" /\ Work(t)'.id \in Flags =>
                Work(t).do # "inc" /\ Work(t).id \in Wears
<1>1. PICK q : q = todo[t]
  OBVIOUS
<1>2. q \in Seq(Updates) /\ Paired(q)
  BY <1>1 DEF Shapes, Orderly, Workers, Tasks
<1>3. /\ Len(q) \in Nat /\ Len(q) >= 1 /\ Len(Tail(q)) = Len(q) - 1
      /\ Tail(q) # <<>> => Len(q) >= 2 /\ Head(Tail(q)) = q[2]
      /\ Work(t) = q[1]
  BY <1>1, WorkDone
<1>4. Work(t)' = Head(Tail(q))
  BY <1>1 DEF Work
<1>5. Len(q) >= 2 => Tail(q) # <<>>
  <2> DEFINE r == Tail(q)
  <2>1. Len(r) = Len(q) - 1 /\ Len(q) \in Nat
    BY <1>3
  <2>2. Len(<<>>) = 0
    OBVIOUS
  <2> HIDE DEF r
  <2>3. Len(q) >= 2 => r # <<>>
    BY <2>1, <2>2
  <2> QED
    BY <2>3 DEF r
<1>6. q[1].do # "inc" /\ q[1].id \in Wears =>
        /\ 1 < Len(q)
        /\ q[1 + 1].id = Warning(q[1].id) /\ q[1 + 1].every = q[1].every
        /\ q[1].do = "dec" => q[1 + 1].do = "warn"
        /\ q[1].do = "set" => q[1 + 1].do = "set"
  BY <1>2, <1>3 DEF Paired
<1>7. Len(q) >= 2 /\ q[2].do # "inc" /\ q[2].id \in Flags =>
        q[2 - 1].do # "inc" /\ q[2 - 1].id \in Wears
  BY <1>2, <1>3 DEF Paired
<1> QED
  BY <1>1, <1>3, <1>4, <1>5, <1>6, <1>7

(* What a brew or a cycle can be doing.                                    *)
LEMMA WorkerKinds ==
    ASSUME Steady, Shapes, NEW t \in Workers, todo[t] # <<>>
    PROVE  /\ \/ Work(t).do = "inc" /\ Work(t).id \in CountingRegisters
              \/ t = "brew" /\ Work(t).do = "tick"
                    /\ Work(t).id \in CountingRegisters \cup {NoRegister}
              \/ t = "brew" /\ Work(t).do = "dec" /\ Work(t).id \in Wears
              \/ t = "brew" /\ Work(t).do = "warn" /\ Work(t).arg \in Wears
                    /\ Work(t).id = Warning(Work(t).arg)
              \/ t = "cycle" /\ Work(t).do = "set" /\ Work(t).id \in Wears
                    /\ Work(t).arg = 100
              \/ t = "cycle" /\ Work(t).do = "set" /\ Work(t).id \in Flags
                    /\ Work(t).arg = 0
           /\ (CountingRegisters \cup {NoRegister}) \cap (Wears \cup Flags) = {}
<1>1. /\ t = "brew" => Work(t) \in BrewUpdates
      /\ t = "cycle" => Work(t) \in CycleUpdates
      /\ t \in Tasks
  BY WorkIs DEF Workers, Tasks
<1>2. (CountingRegisters \cup {NoRegister}) \cap (Wears \cup Flags) = {}
  BY Numbers, RegisterNumbers
<1> QED
  BY <1>1, <1>2 DEF Workers, BrewUpdates, CycleUpdates, Counts

(* A task goes on to the next update without a write to the table.         *)
LEMMA PassedWarned ==
    ASSUME Steady, Shapes, Entered, Equipped, SoundStore, Intended, Warned,
           interrupted = 0, NEW t \in Workers, Skip(t) \/ Tick(t)
    PROVE  Warned'
<1>0. t \in Tasks /\ Gauges \cup Warnings \subseteq Held
      /\ \A u \in Workers \ {t} : u \in Tasks
  BY DEF Workers, Tasks, Equipped, Present
<1>1. /\ pc[t] = "next" /\ todo[t] # <<>> /\ Work(t).do \in {"dec", "warn", "tick"}
      /\ table' = table /\ pc' = pc
      /\ \A u \in Workers \ {t} : todo'[u] = todo[u]
  BY <1>0 DEF Skip, Tick, Pending, At, Rest, Works, Shapes, stores
<1>2. t = "brew"
  BY <1>1, WorkerKinds
<1>3. \A id : Get(id)' = Get(id)
  BY <1>1, TableKept
<1>4. pc["cycle"] = "idle" /\ "cycle" \in Tasks
  BY <1>1, <1>2 DEF Shapes, At, Tasks
<1>5. \A g : ~Fixing("cycle", g) /\ ~Fixing("cycle", g)'
  <2> SUFFICES ASSUME NEW g PROVE ~Fixing("cycle", g) /\ ~Fixing("cycle", g)'
    OBVIOUS
  <2>1. todo["cycle"] = <<>> /\ todo'["cycle"] = <<>>
    BY <1>1, <1>2, <1>4 DEF Shapes, Workers
  <2> QED
    BY <2>1 DEF Fixing
<1>6. \A g \in Wears : Right(g)
  <2> SUFFICES ASSUME NEW g \in Wears PROVE Right(g)
    OBVIOUS
  <2>1. CASE ~Fixing("brew", g)
    BY <1>5, <2>1 DEF Warned, Workers
  <2>2. CASE Fixing("brew", g)
    <3>1. Work("brew").id = Warning(g)
      BY <1>1, <1>2, <2>2 DEF Fixing
    <3>2. Work("brew").do = "warn" /\ Work("brew").arg = g
      BY <1>1, <1>2, <3>1, WorkerKinds, WearsApart
    <3>3. Halfway("brew", g)
      BY <2>2 DEF Warned, Workers
    <3>4. Skip(t) /\ ~Applies(Work(t))
      BY <1>2, <3>2 DEF Skip, Tick, Pending
    <3>5. wearTick % Work(t).every = 0 => ~(Get(g) < WarnBelow(g))
      BY <1>2, <3>2, <3>4 DEF Applies
    <3>6. Get(Warning(g)) \in {0, 1}
      BY <1>0, WearsApart, SoundIs DEF SoundStore
    <3> QED
      BY <1>2, <3>3, <3>5, <3>6 DEF Halfway, Right
  <2> QED
    BY <2>1, <2>2
<1>7. \A g \in Wears : Right(g)'
  BY <1>3, <1>6 DEF Right
<1> QED
  BY <1>5, <1>7, AllRight

(* A task writes to the table.                                             *)
LEMMA StoredWarned ==
    ASSUME Steady, Shapes, Entered, SoundStore, Intended, Warned,
           interrupted = 0, NEW t \in Workers, PutUsed(t) \/ PutValue(t)
    PROVE  Warned'
<1>0. t \in Tasks /\ Gauges \cup Warnings \subseteq Registered
  BY Numbers DEF Workers, Tasks
<1>1. /\ pc[t] \in Writing \ {"persist"} /\ pc'[t] = "persist" /\ todo' = todo
      /\ wearTick' = wearTick /\ \A u \in Tasks \ {t} : pc'[u] = pc[u]
  BY <1>0 DEF PutUsed, PutValue, Move, At, Goto, Shapes, local, Writing, Adding
<1>2. todo[t] # <<>> /\ Work(t).do \notin {"tick", "erase"}
  BY <1>0, <1>1 DEF Shapes
<1>3. PICK w : w = Work(t)
  OBVIOUS
<1>4. Work(t)' = w
  BY <1>1, <1>3 DEF Work
<1>5. Get(w.id)' = value[t] /\ \A id \in Registered \ {w.id} : Get(id)' = Get(id)
  <2>1. /\ Get(Work(t).id)' = value[t]
        /\ \A id \in Registered \ {w.id} : Get(id)' = Get(id)
    BY <1>0, <1>3, StoreEffect
  <2>2. ReadIn(table', w.id) = value[t]
    BY <1>4, <2>1, Reads
  <2> QED
    BY <2>1, <2>2, Reads
<1>6. /\ wearTick % w.every = 0 /\ value[t] = NewIn(table, w)
      /\ w.do = "warn" => Get(w.arg) < WarnBelow(w.arg)
  BY <1>0, <1>1, <1>3, Reads DEF Intended, Intends, AppliesIn
<1>7. \A u \in Workers \ {t} : \A g : ~Fixing(u, g) /\ ~Fixing(u, g)'
  <2> SUFFICES ASSUME NEW u \in Workers \ {t}, NEW g
               PROVE  ~Fixing(u, g) /\ ~Fixing(u, g)'
    OBVIOUS
  <2>1. pc[u] = "idle" /\ u \in Tasks
    BY <1>1 DEF Shapes, At, Workers, Tasks, Writing, Adding
  <2>2. todo[u] = <<>> /\ todo'[u] = <<>>
    BY <1>1, <2>1 DEF Shapes
  <2> QED
    BY <2>2 DEF Fixing
<1>9. \A g \in Wears : w.id # Warning(g) \/ w.do = "inc" => Right(g)
  BY <1>1, <1>3, <1>7 DEF Warned, Fixing
<1>10. \A g \in Wears : w.id # g /\ w.id # Warning(g) /\ Right(g) => Right(g)'
  BY <1>0, <1>5, WearsApart DEF Right
<1>11. CASE w.do = "inc"
  <2>1. w.id \notin Wears \cup Flags
    BY <1>2, <1>3, <1>11, WorkerKinds
  <2>2. \A g \in Wears : Right(g)'
    BY <1>9, <1>10, <1>11, <2>1, WearsApart
  <2>3. \A g : ~Fixing("cycle", g)'
    BY <1>4, <1>7, <1>11 DEF Fixing, Workers
  <2> QED
    BY <2>2, <2>3, AllRight
<1>12. ASSUME w.do \in {"dec", "set"}, w.id \in Wears
       PROVE  Warned'
  <2> DEFINE h == w.id
  <2>1. \A g \in Wears : Right(g)
    BY <1>9, <1>12, WearsApart
  <2>2. \A g \in Wears \ {h} : Right(g)'
    BY <1>10, <1>12, <2>1, WearsApart
  <2>3. Fixing(t, h)'
    BY <1>1, <1>2, <1>3, <1>4, <1>12 DEF Fixing
  <2>4. \A g \in Wears \ {h} : ~Fixing(t, g)'
    BY <1>4, <1>12, WearsApart DEF Fixing
  <2>5. Halfway(t, h)'
    <3>1. CASE t = "brew"
      <4>1. w.do = "dec"
        BY <1>2, <1>3, <1>12, <3>1, WorkerKinds
      <4>2. Get(h)' = Get(h) - 1 /\ Get(Warning(h))' = Get(Warning(h))
        <5>1. value[t] = Get(h) - 1
          BY <1>6, <4>1, Reads DEF NewIn
        <5>2. Warning(h) \in Registered \ {w.id}
          BY <1>0, <1>12, WearsApart
        <5> QED
          BY <1>5, <5>1, <5>2
      <4>3. Get(Warning(h)) = 1 => Get(h) < WarnBelow(h)
        BY <1>12, <2>1 DEF Right
      <4>4. Get(h) \in Int /\ WarnBelow(h) \in Int
        BY <1>0, <1>12, GetsInt, WearsApart
      <4>5. Get(Warning(h))' = 1 => Get(h)' < WarnBelow(h)
        BY <4>2, <4>3, <4>4
      <4> HIDE DEF h
      <4> QED
        BY <1>1, <1>4, <1>6, <3>1, <4>5 DEF Halfway
    <3>2. CASE t = "cycle"
      <4>1. w.do = "set" /\ w.arg = 100
        BY <1>2, <1>3, <1>12, <3>2, WorkerKinds, WearsApart
      <4>2. Get(h)' = 100
        BY <1>5, <1>6, <4>1 DEF NewIn
      <4> HIDE DEF h
      <4> QED
        BY <3>2, <4>2 DEF Halfway
    <3> QED
      BY <3>1, <3>2 DEF Workers
  <2>6. \A u \in Workers \ {t} : \A g : ~Fixing(u, g)'
    BY <1>7
  <2> HIDE DEF h
  <2> QED
    BY <2>2, <2>3, <2>4, <2>5, <2>6 DEF Warned
<1>13. ASSUME w.do \in {"warn", "set"}, NEW h \in Wears, w.id = Warning(h)
       PROVE  Warned'
  <2>1. \A g \in Wears \ {h} : Right(g)
    BY <1>9, <1>13, WearsApart
  <2>2. \A g \in Wears \ {h} : Right(g)'
    BY <1>10, <1>13, <2>1, WearsApart
  <2>3. Get(h)' = Get(h)
    BY <1>0, <1>5, <1>13, WearsApart
  <2>4. Fixing(t, h) /\ Halfway(t, h)
    BY <1>2, <1>3, <1>13 DEF Fixing, Warned
  <2>5. CASE t = "brew"
    <3>1. w.do = "warn" /\ w.arg = h
      BY <1>2, <1>3, <1>13, <2>5, WorkerKinds, WearsApart
    <3>2. Get(Warning(h))' = 1 /\ Get(h) < WarnBelow(h)
      BY <1>5, <1>6, <1>13, <3>1 DEF NewIn
    <3>3. Right(h)'
      BY <2>3, <3>2 DEF Right
    <3>4. \A g : ~Fixing("cycle", g)'
      BY <1>7, <2>5 DEF Workers
    <3> QED
      BY <2>2, <3>3, <3>4, AllRight
  <2>6. CASE t = "cycle"
    <3>1. w.do = "set" /\ w.arg = 0
      BY <1>2, <1>3, <1>13, <2>6, WorkerKinds, WearsApart
    <3>2. Get(Warning(h))' = 0 /\ Get(h) = 100
      BY <1>5, <1>6, <1>13, <2>4, <2>6, <3>1 DEF NewIn, Halfway
    <3>3. Right(h)'
      BY <2>3, <3>2, WearsApart DEF Right
    <3>4. \A g \in Wears : Fixing("cycle", g)' => g = h
      BY <1>4, <1>13, <2>6, WearsApart DEF Fixing
    <3>5. \A g \in Wears : Fixing("cycle", g)' => Get(g)' = 100
      BY <2>3, <3>2, <3>4
    <3> QED
      BY <2>2, <3>3, <3>5, AllRight
  <2> QED
    BY <2>5, <2>6 DEF Workers
<1>14. \/ w.do = "inc"
       \/ w.do \in {"dec", "set"} /\ w.id \in Wears
       \/ w.do \in {"warn", "set"} /\ \E h \in Wears : w.id = Warning(h)
  BY <1>2, <1>3, WorkerKinds DEF Flags
<1> QED
  BY <1>11, <1>12, <1>13, <1>14

(* A task writes to the flash and goes on to the next update.              *)
LEMMA PersistWarned ==
    ASSUME Steady, Shapes, Entered, Mirrored, SoundStore, Intended, Warned,
           interrupted = 0, NEW t \in Workers, Persist(t)
    PROVE  Warned'
<1>0. t \in Tasks /\ Gauges \cup Warnings \subseteq Registered
  BY Numbers DEF Workers, Tasks
<1>1. /\ pc[t] = "persist" /\ pc'[t] = "next" /\ todo'[t] = Tail(todo[t])
      /\ table' = table /\ wearTick' = wearTick
      /\ \A u \in Tasks \ {t} : pc'[u] = pc[u] /\ todo'[u] = todo[u]
  BY <1>0 DEF Persist, Move, At, Goto, Rest, Works, Shapes
<1>2. todo[t] # <<>> /\ Work(t).do \notin {"tick", "erase"}
  BY <1>0, <1>1 DEF Shapes, Writing
<1>3. PICK w : w = Work(t)
  OBVIOUS
<1>4. \A id : Get(id)' = Get(id)
  BY <1>1, TableKept
<1>5. \A u \in Workers \ {t} : \A g : ~Fixing(u, g) /\ ~Fixing(u, g)'
  <2> SUFFICES ASSUME NEW u \in Workers \ {t}, NEW g
               PROVE  ~Fixing(u, g) /\ ~Fixing(u, g)'
    OBVIOUS
  <2>1. pc[u] = "idle" /\ u \in Tasks
    BY <1>1 DEF Shapes, At, Workers, Tasks
  <2>2. todo[u] = <<>> /\ todo'[u] = <<>>
    BY <1>1, <2>1 DEF Shapes
  <2> QED
    BY <2>2 DEF Fixing
<1>6. /\ wearTick % w.every = 0 /\ Get(w.id) = value[t]
      /\ w.do = "set" => value[t] = w.arg
      /\ w.do = "warn" => value[t] = 1 /\ Get(w.arg) < WarnBelow(w.arg)
  BY <1>0, <1>1, <1>3, Reads DEF Intended, Intends, Mirrored
<1>7. \A g : Fixing(t, g) <=> w.do # "inc" /\ (w.id = Warning(g) \/ w.id = g)
  BY <1>1, <1>2, <1>3 DEF Fixing
<1>8. \A g \in Wears : ~Fixing(t, g) => Right(g)
  BY <1>5 DEF Warned
<1>9. /\ w.do \in {"dec", "set"} /\ w.id \in Wears =>
           /\ todo'[t] # <<>> /\ Work(t)'.id = Warning(w.id)
           /\ Work(t)'.every = w.every /\ Work(t)'.do # "inc"
      /\ todo'[t] # <<>> /\ Work(t)'.do # "inc" /\ Work(t)'.id \in Flags =>
           w.do # "inc" /\ w.id \in Wears
  BY <1>0, <1>1, <1>2, <1>3, NextWork
<1>11. \A g : Fixing(t, g)' <=>
         todo'[t] # <<>> /\ Work(t)'.do # "inc" /\ Work(t)'.id = Warning(g)
  BY <1>1 DEF Fixing
<1>12. \A g \in Wears : Right(g) => Right(g)'
  BY <1>4 DEF Right
<1>13. ASSUME \A g \in Wears : Right(g), w.do = "inc" \/ w.id \notin Wears
       PROVE  Warned'
  <2>1. \A g \in Wears : ~Fixing(t, g)'
    BY <1>9, <1>11, <1>13, WearsApart
  <2> QED
    BY <1>5, <1>12, <1>13, <2>1, AllRight DEF Workers
<1>14. CASE w.do = "inc"
  BY <1>7, <1>8, <1>13, <1>14
<1>15. ASSUME w.do \in {"dec", "set"}, w.id \in Wears
       PROVE  Warned'
  <2>1. PICK h \in Wears : h = w.id
    BY <1>15
  <2>2. \A g \in Wears \ {h} : Right(g)'
    BY <1>7, <1>8, <1>12, <2>1, WearsApart
  <2>3. Fixing(t, h) /\ Fixing(t, h)' /\ \A g \in Wears \ {h} : ~Fixing(t, g)'
    BY <1>7, <1>9, <1>11, <1>15, <2>1, WearsApart
  <2>4. Halfway(t, h)
    BY <2>3 DEF Warned
  <2>5. Halfway(t, h)'
    <3>1. Work(t)'.every = w.every
      BY <1>9, <1>15
    <3> QED
      BY <1>1, <1>4, <1>6, <2>4, <3>1 DEF Halfway
  <2> QED
    BY <1>5, <2>2, <2>3, <2>5 DEF Warned
<1>16. ASSUME w.do \in {"warn", "set"}, NEW h \in Wears, w.id = Warning(h)
       PROVE  Warned'
  <2>1. w.id \notin Wears
    BY <1>16, WearsApart
  <2>2. \A g \in Wears \ {h} : Right(g)
    BY <1>7, <1>8, <1>16, <2>1, WearsApart
  <2>3. Fixing(t, h) /\ Halfway(t, h)
    BY <1>7, <1>16 DEF Warned
  <2>4. CASE t = "brew"
    <3>1. w.do = "warn" /\ w.arg = h
      BY <1>2, <1>3, <1>16, <2>4, WorkerKinds, WearsApart
    <3>2. Right(h)
      BY <1>6, <1>16, <3>1 DEF Right
    <3> QED
      BY <1>13, <2>1, <2>2, <3>2
  <2>5. CASE t = "cycle"
    <3>1. w.do = "set" /\ w.arg = 0
      BY <1>2, <1>3, <1>16, <2>5, WorkerKinds, WearsApart
    <3>2. Get(Warning(h)) = 0 /\ Get(h) = 100
      BY <1>6, <1>16, <2>3, <2>5, <3>1 DEF Halfway
    <3>3. Right(h)
      BY <3>2, WearsApart DEF Right
    <3> QED
      BY <1>13, <2>1, <2>2, <3>3
  <2> QED
    BY <2>4, <2>5 DEF Workers
<1>17. \/ w.do = "inc"
       \/ w.do \in {"dec", "set"} /\ w.id \in Wears
       \/ w.do \in {"warn", "set"} /\ \E h \in Wears : w.id = Warning(h)
  BY <1>2, <1>3, WorkerKinds DEF Flags
<1> QED
  BY <1>14, <1>15, <1>16, <1>17

(* A register of which the flash is not being written and that is committed *)
(* is what it was after a boot.                                            *)
LEMMA RebootKeeps ==
    ASSUME Steady, Shapes, Mirrored, Reboot, NEW id \in Held, Untouched(id),
           id \in Service => At("brew", "idle")
    PROVE  id \in Held' /\ Get(id)' = Get(id)
<1>1. id \in Registered
  BY DEF Held, HeldIn
<1>2. Agrees(id) /\ Committed(id)
  BY <1>1 DEF Mirrored
<1>3. id \in DOMAIN flash /\ Get(id) = flash[id]
  BY <1>2 DEF Agrees
<1>4. PICK lost \in SUBSET Uncommitted :
         /\ Held' = DOMAIN flash'
         /\ \A i \in DOMAIN flash' : Get(i)' = flash'[i]
         /\ \A i \in DOMAIN Survivor(lost) :
              i \in DOMAIN flash' /\ flash'[i] = Survivor(lost)[i]
  BY RebootFine
<1>5. id \in DOMAIN Survivor(lost) /\ Survivor(lost)[id] = flash[id]
  BY <1>1, <1>2, <1>3, Survives
<1> QED
  BY <1>3, <1>4, <1>5

LEMMA RestRight ==
    ASSUME Shapes, Warned, interrupted = 0, pc["brew"] = "idle", pc["cycle"] = "idle"
    PROVE  \A g \in Wears : Right(g)
<1>1. \A t \in Workers : pc[t] = "idle"
  BY DEF Workers
<1>2. \A t \in Workers, g \in Wears : ~Fixing(t, g)
  BY <1>1, RestFixesNothing
<1> QED
  BY <1>2 DEF Warned

LEMMA RebootWarned ==
    ASSUME Steady, Shapes, Apart, Entered, Mirrored, Untroubled, Equipped, Counted,
           Warned, Reboot
    PROVE  Warned'
<1>1. /\ interrupted \in Nat
      /\ interrupted' = IF At("brew", "idle") /\ At("cycle", "idle")
                        THEN interrupted ELSE interrupted + 1
  BY DEF Reboot, Counted
<1>2. CASE interrupted' # 0
  BY <1>2 DEF Warned
<1>3. CASE interrupted' = 0
  <2>1. interrupted = 0 /\ pc["brew"] = "idle" /\ pc["cycle"] = "idle"
    BY <1>1, <1>3 DEF At
  <2>2. \A g \in Wears : Right(g)
    BY <2>1, RestRight
  <2>3. \A id \in Gauges \cup Warnings : id \in Held /\ Untouched(id)
    <3> SUFFICES ASSUME NEW id \in Gauges \cup Warnings PROVE id \in Held /\ Untouched(id)
      OBVIOUS
    <3>1. id \in Held /\ id \in Service
      BY Numbers DEF Equipped, Present
    <3>2. ASSUME NEW t \in Tasks, pc[t] \in {"persist", "erase"} PROVE Work(t).id # id
      <4>1. t = "host" /\ "host" \in Tasks
        BY <2>1, <3>2 DEF Tasks
      <4>2. todo["host"] # <<>>
        BY <3>2, <4>1 DEF Shapes, Writing
      <4> QED
        BY <3>1, <4>1, <4>2, HostOff
    <3> QED
      BY <3>1, <3>2 DEF Untouched
  <2>4. \A id \in Gauges \cup Warnings : Get(id)' = Get(id)
    BY <2>1, <2>3, RebootKeeps DEF At
  <2>5. \A g \in Wears : Right(g)'
    BY <2>2, <2>4, WearsApart DEF Right
  <2>6. \A g : ~Fixing("cycle", g)'
    <3>1. todo'["cycle"] = <<>>
      BY DEF Reboot, NoWork, Tasks
    <3> QED
      BY <3>1 DEF Fixing
  <2> QED
    BY <2>5, <2>6, AllRight
<1> QED
  BY <1>2, <1>3

(* A brew or a cycle begins.                                               *)
LEMMA BegunWarned ==
    ASSUME Shapes, Warned, interrupted' = interrupted, table' = table,
           pc["brew"] = "idle", pc["cycle"] = "idle",
           \A g \in Wears : ~Fixing("cycle", g)'
    PROVE  Warned'
<1>1. CASE interrupted # 0
  BY <1>1 DEF Warned
<1>2. CASE interrupted = 0
  <2>1. \A g \in Wears : Right(g)
    BY <1>2, RestRight
  <2>2. \A g \in Wears : Right(g)'
    BY <2>1, TableKept DEF Right
  <2> QED
    BY <2>2, AllRight
<1> QED
  BY <1>1, <1>2

LEMMA WorkerWarns ==
    ASSUME Steady, Shapes, Entered, Mirrored, Equipped, SoundStore, Intended, Warned,
           NEW t \in Workers, Step(t)
    PROVE  Warned'
<1>0. t \in Tasks /\ Gauges \cup Warnings \subseteq Registered
  BY Numbers DEF Workers, Tasks
<1>1. interrupted' = interrupted
  BY DEF Step, Skip, Tick, Compute, Find, PutId, PutNew, PutUsed, PutValue, Persist,
     Erase, EraseFlash, Finish, ghost, tally
<1>3. CASE interrupted # 0
  BY <1>1, <1>3 DEF Warned
<1>4. CASE interrupted = 0 /\ (Compute(t) \/ Find(t) \/ PutId(t) \/ PutNew(t) \/ Finish(t))
  <2>1. \A id \in Gauges \cup Warnings : Get(id)' = Get(id)
    <3>1. CASE table' = table
      BY <3>1, TableKept
    <3>2. CASE PutId(t) \/ PutNew(t)
      BY <1>0, <3>2, PutEffect
    <3> QED
      BY <1>4, <3>1, <3>2 DEF Compute, Find, Finish, stores
  <2>2. wearTick' = wearTick /\ todo' = todo
    BY <1>4 DEF Compute, Find, PutId, PutNew, Finish, local
  <2>3. pc[t] # "persist" /\ pc'[t] # "persist"
    <3>1. CASE Find(t)
      BY <1>0, <3>1, FindGoes DEF Find, At
    <3>2. CASE Compute(t) \/ PutId(t) \/ PutNew(t) \/ Finish(t)
      BY <1>0, <3>2 DEF Compute, PutId, PutNew, Finish, Pending, Move, At, Goto, Shapes
    <3> QED
      BY <1>4, <3>1, <3>2
  <2>4. \A u \in Workers : pc'[u] = "persist" <=> pc[u] = "persist"
    BY <1>0, <2>3, StepLocal DEF Workers, Tasks
  <2> QED
    BY <1>1, <2>1, <2>2, <2>4, SameWarned
<1>5. CASE interrupted = 0 /\ (Skip(t) \/ Tick(t))
  BY <1>1, <1>5, PassedWarned
<1>6. CASE interrupted = 0 /\ (PutUsed(t) \/ PutValue(t))
  BY <1>1, <1>6, StoredWarned
<1>7. CASE interrupted = 0 /\ Persist(t)
  BY <1>1, <1>7, PersistWarned
<1>8. ~Erase(t) /\ ~EraseFlash(t)
  BY <1>0, WorkIs
     DEF Erase, EraseFlash, Pending, Move, At, Shapes, BrewUpdates, CycleUpdates, Counts,
         Tasks, Workers
<1> QED
  BY <1>3, <1>4, <1>5, <1>6, <1>7, <1>8 DEF Step

LEMMA WarnedStep ==
    ASSUME Steady, Shapes, Apart, Entered, Mirrored, Untroubled, Equipped, SoundStore,
           Intended, Counted, Warned, Calm', [Next]_vars
    PROVE  Warned'
<1>0. Gauges \cup Warnings \subseteq Service /\ family \in InUse /\ "host" \in Tasks
  BY Numbers DEF Shapes, Tasks
<1>1. CASE HostWrites \/ HostErases \/ HostNames \/ PersistName \/ SwitchFamily
             \/ UNCHANGED vars
  <2>1. /\ table' = table /\ interrupted' = interrupted /\ wearTick' = wearTick
        /\ \A u \in Workers : todo'[u] = todo[u] /\ pc'[u] = pc[u]
    BY <1>1 DEF HostWrites, HostErases, HostNames, PersistName, SwitchFamily, vars, Move,
       Goto, Works, Shapes, stores, local, ghost, tally, Tasks, Workers
  <2> QED
    BY <2>1, TableKept, SameWarned
<1>2. ASSUME NEW s \in Selectors, BrewCharged(s) PROVE Warned'
  <2>1. pc["brew"] = "idle" /\ pc["cycle"] = "idle"
    BY <1>2, BothAtRest DEF At
  <2>2. table' = table /\ interrupted' = interrupted /\ todo'["cycle"] = todo["cycle"]
    BY <1>2 DEF BrewCharged, Works, Shapes, stores, Tasks
  <2>3. todo'["cycle"] = <<>>
    BY <2>1, <2>2 DEF Shapes, Tasks
  <2>4. \A g \in Wears : ~Fixing("cycle", g)'
    BY <2>3 DEF Fixing
  <2> QED
    BY <2>1, <2>2, <2>4, BegunWarned
<1>3. ASSUME NEW k \in Kinds, CycleServiced(k) PROVE Warned'
  <2>1. pc["brew"] = "idle" /\ pc["cycle"] = "idle"
    BY <1>3, BothAtRest DEF At
  <2>2. /\ table' = table /\ interrupted' = interrupted
        /\ todo'["cycle"] = Serviced(family, k) /\ pc'["cycle"] = "next"
    BY <1>3 DEF CycleServiced, Works, Move, Goto, Shapes, stores, Tasks
  <2>3. Work("cycle")' = Head(Serviced(family, k))
    BY <2>2 DEF Work
  <2>4. \A g \in Wears : ~Fixing("cycle", g)'
    BY <1>0, <2>2, <2>3, ServicedShape, WearsApart DEF Fixing
  <2> QED
    BY <2>1, <2>2, <2>4, BegunWarned
<1>4. CASE Step("host")
  <2>1. interrupted' = interrupted
    BY <1>4 DEF Step, Skip, Tick, Compute, Find, PutId, PutNew, PutUsed, PutValue, Persist,
       Erase, EraseFlash, Finish, ghost, tally
  <2>2. \A u \in Workers : pc'[u] = pc[u] /\ todo'[u] = todo[u]
    BY <1>0, <1>4, StepLocal DEF Workers, Tasks
  <2>3. wearTick' = wearTick /\ \A id \in Gauges \cup Warnings : Get(id)' = Get(id)
    BY <1>0, <1>4, HostApart
  <2> QED
    BY <2>1, <2>2, <2>3, SameWarned
<1>5. CASE \E t \in Workers : Step(t)
  BY <1>5, WorkerWarns
<1>6. CASE Reboot
  BY <1>6, RebootWarned
<1> QED
  BY <1>1, <1>2, <1>3, <1>4, <1>5, <1>6 DEF Next, Tasks, Workers

LEMMA IntendedInit == Steady /\ Init => Intended
  BY DEF Init, NoWork, Intended, Intends, Writing, Adding

-----------------------------------------------------------------------------
(* THE THEOREMS.                                                           *)

RegistersInv ==
    /\ upsets \subseteq UpsetKinds
    /\ Calm => Shapes /\ Apart /\ Entered /\ Mirrored
    /\ Untroubled => Equipped /\ SoundStore /\ Intended /\ Counted /\ Behind

(* As long as the tasks keep out of each other's way, every step keeps     *)
(* where they stand, the table, and the flash next to it; and as long as   *)
(* the app leaves the machine's registers alone too, the values stored and *)
(* about to be stored, and the counters.                                   *)
THEOREM StoreInvariance ==
    ASSUME Steady
    PROVE  Spec => []RegistersInv
<1>1. Init => RegistersInv
  <2> SUFFICES ASSUME Init PROVE RegistersInv
    OBVIOUS
  <2>1. upsets \subseteq UpsetKinds
    BY DEF Init
  <2> QED
    BY <2>1, ShapesInit, ApartInit, EnteredInit, MirroredInit, EquippedInit, SoundInit,
       IntendedInit, CountedInit, BehindInit DEF RegistersInv
<1>2. RegistersInv /\ [Next]_vars => RegistersInv'
  <2> SUFFICES ASSUME RegistersInv, [Next]_vars PROVE RegistersInv'
    OBVIOUS
  <2>1. upsets \subseteq upsets' /\ upsets' \subseteq UpsetKinds
    BY UpsetsStay DEF RegistersInv
  <2>2. (Calm' => Calm) /\ (Untroubled' => Untroubled /\ Calm')
    BY <2>1 DEF Calm, Untroubled
  <2>3. ASSUME Calm' PROVE (Shapes /\ Apart /\ Entered /\ Mirrored)'
    <3>1. Shapes /\ Apart /\ Entered /\ Mirrored
      BY <2>2, <2>3 DEF RegistersInv
    <3>2. Shapes'
      BY <2>3, <3>1, ShapesStep
    <3>3. Apart'
      BY <2>3, <3>1, ApartStep
    <3>4. Entered'
      BY <2>3, <3>1, EnteredStep
    <3>5. Mirrored'
      BY <2>3, <3>1, MirroredStep
    <3> QED
      BY <3>2, <3>3, <3>4, <3>5
  <2>4. ASSUME Untroubled' PROVE (Equipped /\ SoundStore /\ Intended /\ Counted /\ Behind)'
    <3>1. /\ Shapes /\ Apart /\ Entered /\ Mirrored
          /\ Equipped /\ SoundStore /\ Intended /\ Counted /\ Behind
          /\ Untroubled /\ Calm' /\ Shapes'
      BY <2>2, <2>3, <2>4 DEF RegistersInv, Calm, Untroubled
    <3>2. Equipped'
      BY <3>1, EquippedStep
    <3>3. SoundStore'
      BY <3>1, SoundStep
    <3>4. Intended'
      BY <3>1, IntendedStep
    <3>5. Counted'
      BY <3>1, CountedStep
    <3>6. Behind'
      BY <3>1, BehindStep
    <3> QED
      BY <3>2, <3>3, <3>4, <3>5, <3>6
  <2> QED
    BY <2>1, <2>3, <2>4 DEF RegistersInv
<1> QED
  BY <1>1, <1>2, PTL DEF Spec

(* What the invariant says of a store without upsets.                      *)
LEMMA Undisturbed ==
    ASSUME RegistersInv
    PROVE  /\ Calm => Shapes /\ Apart /\ Entered /\ Mirrored
           /\ Untroubled =>
                /\ Shapes /\ Apart /\ Entered /\ Mirrored
                /\ Equipped /\ SoundStore /\ Intended /\ Counted /\ Behind
  BY DEF RegistersInv, Calm, Untroubled

LEMMA RightTypes == Steady /\ RegistersInv /\ Untroubled => TypeOK
<1> SUFFICES ASSUME Steady, RegistersInv, Untroubled PROVE TypeOK
  OBVIOUS
<1>1. Shapes /\ Entered /\ Mirrored /\ Equipped /\ SoundStore /\ Counted
  BY Undisturbed
<1>2. \A g \in Gauges : Get(g) \in 0..100 /\ Get(Warning(g)) \in {0, 1}
  <2> SUFFICES ASSUME NEW g \in Gauges
               PROVE  Get(g) \in 0..100 /\ Get(Warning(g)) \in {0, 1}
    OBVIOUS
  <2>1. g \in Held /\ Warning(g) \in Held /\ Warning(g) \in Warnings
    BY <1>1 DEF Equipped, Present, Warnings
  <2> QED
    BY <1>1, <2>1, SoundIs DEF SoundStore
<1>3. /\ DOMAIN flash \subseteq Registered /\ \A i \in DOMAIN flash : flash[i] \in Int
      /\ DOMAIN durable \subseteq Registered
  BY <1>1, FlashHas DEF Mirrored
<1>4. upsets \subseteq UpsetKinds
  BY DEF RegistersInv
<1> QED
  BY <1>1, <1>2, <1>3, <1>4
     DEF TypeOK, Shapes, Entered, SoundStore, Counted, Tables, Entries

(* Every variable has its type until an upset: the numbers of the table    *)
(* and the flash are registers the firmware or the app knows, a gauge is a *)
(* percentage and a warning is a bit, whatever brews, cycles, writes to    *)
(* other registers, resets of them and losses of power there were.         *)
THEOREM TypeCorrect ==
    ASSUME Steady
    PROVE  Spec => [](Untroubled => TypeOK)
<1>1. RegistersInv => (Untroubled => TypeOK)
  BY RightTypes
<1> QED
  BY <1>1, StoreInvariance, PTL

(* Every charged brew (apply_wear_after_brew) and every finished cycle is  *)
(* counted exactly once in each register that counts it, next to an app    *)
(* that writes and resets registers of its own; of the losses of power,    *)
(* the ones at rest cost no count, and each of the others at most one.     *)
(* Until an upset, that is: a cycle that ends while a brew is charged, an  *)
(* nvs_open that fails, an app that writes the machine's registers, or two *)
(* tasks adding registers at once, may each lose a count, and the code     *)
(* prevents none of them.                                                  *)
THEOREM CupsAreCounted ==
    ASSUME Steady
    PROVE  Spec => []CountsEveryCup
<1>1. RegistersInv => CountsEveryCup
  <2> SUFFICES ASSUME RegistersInv, pc["brew"] = "idle", pc["cycle"] = "idle", Untroubled,
                      NEW id \in CountingRegisters
               PROVE  Get(id) \in owed[id] - interrupted .. owed[id]
    BY DEF CountsEveryCup, Settled, At
  <2>1. Shapes /\ Counted
    BY Undisturbed
  <2>2. \A t \in Workers : ~Due(t, id)
    BY <2>1, NoneDue DEF Workers, Tasks
  <2> QED
    BY <2>1, <2>2 DEF Counted
<1> QED
  BY <1>1, StoreInvariance, PTL

(* At rest the table and both views of the flash agree in every register:  *)
(* what is read over the air is what a restart brings back.  The app may   *)
(* have written the machine's own registers, between brews and cycles; but *)
(* an nvs_open that failed, an app that wrote them during a brew or a      *)
(* cycle, a cycle that ended while a brew was charged, and two tasks that  *)
(* added registers at once part the table from the flash for good.         *)
THEOREM FlashIsMemory ==
    ASSUME Steady
    PROVE  Spec => []MemoryIsFlash
<1>1. RegistersInv => MemoryIsFlash
  <2> SUFFICES ASSUME RegistersInv, AtRest, Calm PROVE MemoryIsFlash
    BY DEF MemoryIsFlash
  <2>1. Mirrored
    BY Undisturbed
  <2>2. \A t \in Tasks : pc[t] = "idle"
    BY DEF AtRest, Settled, At
  <2>3. \A id \in Registered : Agrees(id) /\ Committed(id)
    BY <2>1, <2>2 DEF Mirrored, Untouched, At, Tasks
  <2>4. DOMAIN flash \subseteq Registered
    BY <2>1, FlashHas DEF Mirrored
  <2>5. \A id \in Registered : Has(id) <=> id \in DOMAIN flash
    BY <2>3, HasIs DEF Agrees
  <2>6. \A id \in DOMAIN flash : Get(id) = flash[id] /\ durable[id] = flash[id]
    BY <2>3, <2>4 DEF Agrees, Committed
  <2> QED
    BY <2>5, <2>6 DEF MemoryIsFlash
<1> QED
  BY <1>1, StoreInvariance, PTL

(* A loss of power with no task at work takes no register away and changes *)
(* none: loading the flash and seeding the defaults bring back each value, *)
(* as long as the table and the flash have not been parted.                *)
THEOREM RebootsAreHarmless ==
    ASSUME Steady
    PROVE  Spec => SurvivesReboot
<1>1. RegistersInv /\ [Next]_vars =>
        [AtRest /\ Calm /\ losses' # losses =>
           \A id \in Registered : Has(id) => Has(id)' /\ Get(id)' = Get(id)]_vars
  <2> SUFFICES ASSUME RegistersInv, [Next]_vars, AtRest, Calm, losses' # losses,
                      NEW id \in Registered, Has(id)
               PROVE  Has(id)' /\ Get(id)' = Get(id)
    OBVIOUS
  <2>1. Shapes /\ Mirrored
    BY Undisturbed
  <2>2. Reboot
    BY DEF Next, HostWrites, HostErases, HostNames, PersistName, BrewCharged,
       CycleServiced, SwitchFamily, Step, Skip, Tick, Compute, Find, PutId, PutNew,
       PutUsed, PutValue, Persist, Erase, EraseFlash, Finish, vars
  <2>3. \A t \in Tasks : pc[t] = "idle"
    BY DEF AtRest, Settled, At
  <2>4. id \in Held /\ Untouched(id) /\ At("brew", "idle")
    BY <2>3, HasIs DEF Untouched, At, Tasks
  <2>5. id \in Held' /\ Get(id)' = Get(id)
    BY <2>1, <2>2, <2>4, RebootKeeps
  <2>6. Has(id)' <=> id \in Held'
    BY DEF Has, Holders, Held, HeldIn
  <2> QED
    BY <2>5, <2>6
<1> QED
  BY <1>1, StoreInvariance, PTL DEF Spec, SurvivesReboot

(* A gauge below its limit has its warning set and one above has it        *)
(* cleared, whenever neither a brew nor a cycle is at work: the brew's     *)
(* wear takes several gauges down, each followed by its warning, and a     *)
(* cycle sets both back.  Until an upset, or a loss of power between the   *)
(* two writes, after which the warning waits for the next brew or cycle.   *)
THEOREM WarningsAreRight ==
    ASSUME Steady, WarnedRight
    PROVE  Spec => []WarnsWhenLow
<1>1. Init => (Untroubled => Warned)
  BY WarnedInit
<1>2. RegistersInv /\ (Untroubled => Warned) /\ [Next]_vars => (Untroubled => Warned)'
  <2> SUFFICES ASSUME RegistersInv, Untroubled => Warned, [Next]_vars, Untroubled'
               PROVE  Warned'
    OBVIOUS
  <2>1. Untroubled /\ Calm'
    BY UpsetsStay DEF Untroubled, Calm
  <2>2. /\ Shapes /\ Apart /\ Entered /\ Mirrored
        /\ Equipped /\ SoundStore /\ Intended /\ Counted
    BY <2>1, Undisturbed
  <2> QED
    BY <2>1, <2>2, WarnedStep
<1>3. RegistersInv /\ (Untroubled => Warned) => WarnsWhenLow
  <2> SUFFICES ASSUME RegistersInv, Untroubled, Warned, interrupted = 0,
                      pc["brew"] = "idle", pc["cycle"] = "idle",
                      NEW g \in Gauges \ {FROTHER}
               PROVE  Get(Warning(g)) = IF Get(g) < WarnBelow(g) THEN 1 ELSE 0
    BY DEF WarnsWhenLow, Settled, At
  <2>1. Shapes
    BY Undisturbed
  <2>2. Right(g)
    BY <2>1, RestRight DEF Wears
  <2> QED
    BY <2>2 DEF Right
<1> QED
  BY <1>1, <1>2, <1>3, StoreInvariance, PTL DEF Spec
=============================================================================
