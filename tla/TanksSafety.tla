---------------------------- MODULE TanksSafety ----------------------------
(***************************************************************************)
(* What Tanks promises for any number of callers, tanks, parts and losses  *)
(* of power, whatever NVS refuses.                                         *)
(***************************************************************************)
EXTENDS Tanks, TLAPS

(* The mutex is held by a caller in the middle of a section, and by nobody *)
(* else.                                                                   *)
Held == \A c \in Callers : pc[c] \in {"adjust", "reset"} <=> lock = c

(* Where a caller stands whose persist() has yet to write the levels, and  *)
(* one whose persist() has yet to commit them.  After an erased namespace  *)
(* nothing is owed before the boot.                                        *)
Writes  == {"reset", "open", "write_levels", "erased"}
Commits == {"copy", "write_parts", "commit"}

(* A difference between memory and flash, or between flash and what is     *)
(* committed, is some caller's to put right.                               *)
Owed ==
    /\ level = levelBlob \/ missed \/ \E c \in Callers : pc[c] \in Writes
    /\ committed.levels = levelBlob \/ \E c \in Callers : pc[c] \in Commits

Inv == TypeOK /\ Held /\ NoLostUpdate /\ Owed

-----------------------------------------------------------------------------
LEMMA Clamped == ASSUME NEW v \in Int PROVE clamp8(v) \in 0..FULL
BY TanksAssumption DEF clamp8

LEMMA InputsAreInts ==
    ASSUME NEW v \in 0..FULL, NEW d \in Deltas
    PROVE  v + d \in Int
<1>1. d \in Int
  BY TanksAssumption
<1>2. v \in Int
  OBVIOUS
<1> QED BY <1>1, <1>2

LEMMA FactoryTyped ==
    FactoryLevels \in LevelSet /\ FactoryParts \in PartSet
BY TanksAssumption DEF FactoryLevels, FactoryParts, LevelSet, PartSet

(* A boot leaves nobody at work and memory, flash and commit the same.     *)
LEMMA BootRestores ==
    ASSUME TypeOK, NEW levels \in {levelBlob, committed.levels},
           NEW parts \in {partBlob, committed.parts}, Boot(levels, parts),
           losses' \in 0..MaxLosses
    PROVE  Inv'
<1>1. /\ level' \in LevelSet /\ present' \in PartSet
      /\ levelBlob' \in LevelSet \cup {NoBlob}
      /\ partBlob' \in PartSet \cup {NoBlob}
      /\ missed' \in BOOLEAN
      /\ level' = levelBlob' \/ missed'
  <2>1. /\ levels \in LevelSet \cup {NoBlob}
        /\ parts \in PartSet \cup {NoBlob}
    BY DEF TypeOK, Blobs
  <2>2. CASE Resume(levels, parts)
    BY <2>1, <2>2, FactoryTyped DEF Resume
  <2>3. CASE StartFresh(levels, parts)
    BY <2>1, <2>3, FactoryTyped DEF StartFresh
  <2> QED BY <2>2, <2>3 DEF Boot
<1>2. TypeOK'
  BY <1>1, FactoryTyped DEF Boot, TypeOK, Blobs, Jobs, Places
<1>3. Held' /\ NoLostUpdate'
  BY TanksAssumption DEF Boot, Held, NoLostUpdate
<1>4. Owed'
  BY <1>1 DEF Boot, Owed
<1> QED BY <1>2, <1>3, <1>4 DEF Inv

-----------------------------------------------------------------------------
LEMMA InitHolds == Init => Inv
<1> SUFFICES ASSUME Init PROVE Inv OBVIOUS
<1>1. TypeOK
  <2>1. /\ level \in LevelSet /\ present \in PartSet
        /\ levelBlob \in LevelSet \cup {NoBlob}
        /\ partBlob \in PartSet \cup {NoBlob}
        /\ committed \in Blobs
    BY FactoryTyped DEF Init, Blobs
  <2>2. job \in [Callers -> Jobs] /\ copy \in [Callers -> PartSet]
    <3>1. NoJob \in Jobs
      BY DEF Jobs
    <3> QED BY <3>1, FactoryTyped DEF Init
  <2>3. /\ lock \in Callers \cup {Nobody} /\ pc \in [Callers -> Places]
        /\ todo \in [Callers -> SUBSET (Tanks \cup Parts)]
        /\ missed \in BOOLEAN
    BY DEF Init, Places
  <2>4. losses \in 0..MaxLosses
    BY TanksAssumption DEF Init
  <2> QED BY <2>1, <2>2, <2>3, <2>4 DEF TypeOK
<1>2. Held /\ NoLostUpdate /\ Owed
  BY TanksAssumption DEF Init, Held, NoLostUpdate, Owed
<1> QED BY <1>1, <1>2 DEF Inv

LEMMA CallHolds ==
    ASSUME Inv, NEW c \in Callers, Call(c)
    PROVE  Inv'
<1> USE DEF Inv
<1>1. CASE \E t \in Tanks, v \in Levels : Set(c, t, v)
  <2>1. PICK t \in Tanks, v \in Levels : Set(c, t, v)
    BY <1>1
  <2>2. clamp8(v) \in 0..FULL
    BY Clamped, TanksAssumption
  <2>3. TypeOK'
    BY <2>1, <2>2
    DEF Set, Move, TypeOK, LevelSet, Places, memory, flash, local
  <2>4. Held' /\ NoLostUpdate' /\ Owed'
    BY <2>1, TanksAssumption
    DEF Set, Move, TypeOK, Held, NoLostUpdate, Owed, Writes, Commits, flash, local
  <2> QED BY <2>3, <2>4
<1>2. CASE \E p \in Parts, there \in BOOLEAN : SetPart(c, p, there)
  <2>1. PICK p \in Parts, there \in BOOLEAN : SetPart(c, p, there)
    BY <1>2
  <2>2. TypeOK'
    BY <2>1 DEF SetPart, Move, TypeOK, PartSet, Places, flash, local
  <2>3. Held' /\ NoLostUpdate' /\ Owed'
    BY <2>1, TanksAssumption
    DEF SetPart, Move, TypeOK, Held, NoLostUpdate, Owed, Writes, Commits, flash,
        local
  <2> QED BY <2>2, <2>3
<1>3. CASE \E t \in Tanks, d \in Deltas : AdjustRead(c, t, d)
  <2>1. PICK t \in Tanks, d \in Deltas : AdjustRead(c, t, d)
    BY <1>3
  <2>2. TypeOK'
    BY <2>1 DEF AdjustRead, Move, TypeOK, LevelSet, Jobs, Places, flash
  <2>3. Held' /\ NoLostUpdate' /\ Owed'
    BY <2>1, TanksAssumption
    DEF AdjustRead, Move, TypeOK, Held, NoLostUpdate, Owed, Writes, Commits, flash
  <2> QED BY <2>2, <2>3
<1>4. CASE Reset(c)
  <2>1. TypeOK'
    BY <1>4 DEF Reset, Move, TypeOK, Places, flash
  <2>2. Held' /\ NoLostUpdate' /\ Owed'
    BY <1>4, TanksAssumption
    DEF Reset, Move, TypeOK, Held, NoLostUpdate, Owed, Writes, Commits, flash
  <2> QED BY <2>1, <2>2
<1>5. CASE FactoryReset(c)
  <2>1. TypeOK'
    BY <1>5 DEF FactoryReset, Move, TypeOK, Blobs, Places, memory, local
  <2>2. Held' /\ NoLostUpdate' /\ Owed'
    BY <1>5, TanksAssumption
    DEF FactoryReset, Move, TypeOK, Blobs, Held, NoLostUpdate, Owed, Writes,
        Commits, memory, local
  <2> QED BY <2>1, <2>2
<1> QED BY <1>1, <1>2, <1>3, <1>4, <1>5 DEF Call

LEMMA SectionHolds ==
    ASSUME Inv, NEW c \in Callers, AdjustWrite(c) \/ ResetOne(c) \/ ResetDone(c)
    PROVE  Inv'
<1> USE DEF Inv
<1>1. CASE AdjustWrite(c)
  <2>1. job[c] # NoJob => job[c].was + job[c].delta \in Int
    <3>1. job[c] \in Jobs
      BY DEF TypeOK
    <3>2. job[c] # NoJob => job[c].was \in 0..FULL /\ job[c].delta \in Deltas
      BY <3>1 DEF Jobs
    <3> QED BY <3>2, InputsAreInts
  <2>2. clamp8(job[c].was + job[c].delta) \in 0..FULL
    <3>1. NoJob.was + NoJob.delta \in Int
      BY DEF NoJob
    <3> QED BY <2>1, <3>1, Clamped
  <2>3. TypeOK'
    BY <1>1, <2>2, TanksAssumption
    DEF AdjustWrite, Move, TypeOK, LevelSet, Jobs, Places, flash
  <2>4. Held' /\ NoLostUpdate' /\ Owed'
    BY <1>1, TanksAssumption
    DEF AdjustWrite, Move, TypeOK, Held, NoLostUpdate, Owed, Writes, Commits, flash
  <2> QED BY <2>3, <2>4
<1>2. CASE ResetOne(c)
  <2>1. TypeOK'
    BY <1>2, FactoryTyped
    DEF ResetOne, TypeOK, LevelSet, PartSet, flash
  <2>2. Held' /\ NoLostUpdate' /\ Owed'
    BY <1>2, TanksAssumption
    DEF ResetOne, TypeOK, Held, NoLostUpdate, Owed, Writes, Commits, flash
  <2> QED BY <2>1, <2>2
<1>3. CASE ResetDone(c)
  <2>1. TypeOK'
    BY <1>3 DEF ResetDone, Move, TypeOK, Places, flash, local
  <2>2. Held' /\ NoLostUpdate' /\ Owed'
    BY <1>3, TanksAssumption
    DEF ResetDone, Move, TypeOK, Held, NoLostUpdate, Owed, Writes, Commits, flash,
        local
  <2> QED BY <2>1, <2>2
<1> QED BY <1>1, <1>2, <1>3

LEMMA PersistHolds ==
    ASSUME Inv, NEW c \in Callers, Persist(c)
    PROVE  Inv'
<1> USE DEF Inv, Move, TypeOK
<1>1. CASE Open(c) \/ OpenFails(c)
  <2>1. TypeOK'
    BY <1>1 DEF Open, OpenFails, Places, memory, flash, local
  <2>2. Held' /\ NoLostUpdate' /\ Owed'
    BY <1>1
    DEF Open, OpenFails, Held, NoLostUpdate, Owed, Writes, Commits, memory, flash,
        local
  <2> QED BY <2>1, <2>2
<1>2. CASE WriteLevels(c) \/ WriteFails(c)
  <2>1. TypeOK'
    BY <1>2 DEF WriteLevels, WriteFails, Places, memory, local
  <2>2. Held' /\ NoLostUpdate' /\ Owed'
    BY <1>2
    DEF WriteLevels, WriteFails, Held, NoLostUpdate, Owed, Writes, Commits, memory,
        local
  <2> QED BY <2>1, <2>2
<1>3. CASE Copy(c) \/ WriteParts(c)
  <2>1. TypeOK'
    BY <1>3, FactoryTyped DEF Copy, WriteParts, Places, memory, flash
  <2>2. Held' /\ NoLostUpdate' /\ Owed'
    BY <1>3
    DEF Copy, WriteParts, Held, NoLostUpdate, Owed, Writes, Commits, memory, flash
  <2> QED BY <2>1, <2>2
<1>4. CASE Commit(c)
  <2>1. TypeOK'
    BY <1>4 DEF Commit, Blobs, Places, memory, local
  <2>2. Held' /\ NoLostUpdate' /\ Owed'
    BY <1>4 DEF Commit, Held, NoLostUpdate, Owed, Writes, Commits, memory, local
  <2> QED BY <2>1, <2>2
<1> QED BY <1>1, <1>2, <1>3, <1>4 DEF Persist

LEMMA StepHolds == Inv /\ [Next]_vars => Inv'
<1> SUFFICES ASSUME Inv, [Next]_vars PROVE Inv' OBVIOUS
<1>1. CASE \E c \in Callers : Call(c)
  BY <1>1, CallHolds
<1>2. CASE \E c \in Callers : AdjustWrite(c) \/ ResetOne(c) \/ ResetDone(c)
  BY <1>2, SectionHolds
<1>3. CASE \E c \in Callers : Persist(c)
  BY <1>3, PersistHolds
<1>4. CASE \E c \in Callers : Restart(c)
  BY <1>4, BootRestores DEF Restart, Inv, TypeOK
<1>5. CASE PowerLoss
  <2>1. losses' \in 0..MaxLosses
    BY <1>5, TanksAssumption DEF PowerLoss, Inv, TypeOK
  <2> QED BY <1>5, <2>1, BootRestores DEF PowerLoss, Inv
<1>6. CASE UNCHANGED vars
  BY <1>6
  DEF vars, memory, flash, local, Inv, TypeOK, Held, NoLostUpdate, Owed
<1> QED BY <1>1, <1>2, <1>3, <1>4, <1>5, <1>6 DEF Next

-----------------------------------------------------------------------------
(* The levels stay between empty and full, nobody works without the mutex, *)
(* and what flash lacks is on its way.                                     *)
THEOREM TanksHold == Spec => []Inv
<1> QED BY InitHolds, StepHolds, PTL DEF Spec

(* For any number of callers, and whatever NVS refuses, the levels of a    *)
(* machine at rest are the ones in flash unless the last persist failed.   *)
THEOREM LevelsSurvive == Spec => []LevelsKept
<1>1. Inv => LevelsKept
  BY DEF Inv, Owed, Writes, Commits, LevelsKept, AtRest
<1> QED BY <1>1, TanksHold, PTL

(* Nobody changes a tank between the read and the write of an adjustment.  *)
THEOREM AdjustmentsAreAtomic == Spec => []NoLostUpdate
<1>1. Inv => NoLostUpdate
  BY DEF Inv
<1> QED BY <1>1, TanksHold, PTL

(* Every level, in memory, in flash and in the blob committed last, stays  *)
(* between empty and full: no interleaving of refills, adjustments and     *)
(* restores takes a clamped value out of its range.                        *)
THEOREM LevelsInRange == Spec => []TypeOK
<1>1. Inv => TypeOK
  BY DEF Inv
<1> QED BY <1>1, TanksHold, PTL
=============================================================================
