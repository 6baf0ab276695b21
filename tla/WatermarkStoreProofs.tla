------------------------ MODULE WatermarkStoreProofs ------------------------
(***************************************************************************)
(* Proofs about the watermark store, for every set of paths and entries    *)
(* and every persistence policy.                                           *)
(***************************************************************************)
EXTENDS WatermarkStore, TLAPS

\* The map without an entry is a map; nothing unreadable is one.
LEMMA EmptyIsMap == Empty \in FileMap
BY DEF Empty, FileMap

\* No update since the last persist is within every bound.
LEMMA ZeroIsBounded == 0 \in 0..MaxUpdates
BY StoreAssumption

\* NewStore establishes the invariant whatever it finds at the path.
LEMMA NewStoreInv == Inv /\ NewStore => Inv'
<1> SUFFICES ASSUME Inv, NewStore PROVE Inv'
  OBVIOUS
<1> USE StoreAssumption, EmptyIsMap DEF Inv, TypeOK, Running, CleanMeansPersisted,
        BoundedLoss, NeverCorruptsItself, Durable
<1>1. CASE Load
  BY <1>1 DEF Load, Fresh
<1>2. CASE LoadAbsent
  BY <1>2 DEF LoadAbsent, Fresh
<1>3. CASE LoadReset
  BY <1>3 DEF LoadReset, Fresh
<1>4. CASE Refuse
  BY <1>4 DEF Refuse
<1>5. QED
  BY <1>1, <1>2, <1>3, <1>4 DEF NewStore

\* An update may leave the store dirty, but below the FlushEvery threshold
\* unless it goes on to persist.
LEMMA SetInv ==
    ASSUME NEW p \in Paths, NEW e \in Entries, Inv, Set(p, e)
    PROVE  Inv'
<1> USE StoreAssumption DEF Inv, Set
<1>1. TypeOK'
  <2>1. files' \in FileMap
    BY DEF TypeOK, FileMap
  <2>2. QED
    BY <2>1 DEF TypeOK
<1>2. BoundedLoss'
  BY DEF BoundedLoss, shouldPersistLocked, TypeOK, Running
<1>3. NeverCorruptsItself'
  BY DEF NeverCorruptsItself, Running
<1>4. QED
  BY <1>1, <1>2, <1>3 DEF CleanMeansPersisted, Running, TypeOK

\* Each system call of persistLocked, and each of its failures.
LEMMA PersistInv == Inv /\ persistLocked => Inv'
<1> SUFFICES ASSUME Inv, persistLocked PROVE Inv'
  OBVIOUS
<1> USE StoreAssumption DEF Inv, TypeOK, Running, CleanMeansPersisted,
        BoundedLoss, NeverCorruptsItself, Durable
<1>1. CASE WriteTmp
  BY <1>1 DEF WriteTmp
<1>2. CASE WriteTmpFails
  BY <1>2 DEF WriteTmpFails
<1>3. CASE Rename
  <2>1. /\ disk' = files' /\ files' = files /\ files \in FileMap
        /\ disk' # Absent /\ disk' # Corrupt
    BY <1>3 DEF Rename
  <2>2. TypeOK'
    BY <1>3, <2>1, ZeroIsBounded DEF Rename
  <2>3. Running /\ Durable' = files'
    BY <1>3, <2>1 DEF Rename
  <2>4. QED
    BY <1>3, <2>1, <2>2, <2>3 DEF Rename
<1>4. CASE RenameFails
  BY <1>4 DEF RenameFails
<1>5. QED
  BY <1>1, <1>2, <1>3, <1>4 DEF persistLocked

\* A process that is gone leaves nothing but the two files.
LEMMA GoneInv ==
    ASSUME Inv, Gone, tmp' \in FileMap \cup {Absent, Corrupt}
    PROVE  Inv'
<1>1. TypeOK'
  BY ZeroIsBounded, EmptyIsMap DEF Gone, Fresh, Inv, TypeOK
<1>2. status' = "down" /\ mu' = "free" /\ dirty' = FALSE /\ files' = Empty
      /\ updatesSinceFlush' = 0
  BY DEF Gone, Fresh
<1>3. Empty' = Empty /\ ~Running'
  BY <1>2 DEF Empty, Running
<1>4. QED
  BY <1>1, <1>2, <1>3 DEF Inv, CleanMeansPersisted, BoundedLoss, NeverCorruptsItself

\* The invariant is inductive.
LEMMA InvInductive == Inv /\ [Next]_vars => Inv'
<1> SUFFICES ASSUME Inv, [Next]_vars PROVE Inv'
  OBVIOUS
<1>1. CASE NewStore
  BY <1>1, NewStoreInv
<1>2. CASE \E p \in Paths, e \in Entries : Set(p, e)
  BY <1>2, SetInv
<1>3. CASE PeriodicFlush
  BY <1>3, StoreAssumption
     DEF PeriodicFlush, Flush, Inv, TypeOK, Running, CleanMeansPersisted,
         BoundedLoss, NeverCorruptsItself, Durable
<1>4. CASE FinalFlush
  BY <1>4, StoreAssumption
     DEF FinalFlush, Flush, Inv, TypeOK, Running, CleanMeansPersisted,
         BoundedLoss, NeverCorruptsItself, Durable
<1>5. CASE persistLocked
  BY <1>5, PersistInv
<1>6. CASE Exit
  <2>1. Gone /\ UNCHANGED tmp
    BY <1>6 DEF Exit
  <2>2. QED
    BY <2>1, GoneInv DEF Inv, TypeOK
<1>7. CASE Crash
  <2>1. tmp' \in FileMap \cup {Absent, Corrupt}
    BY <1>7 DEF Crash, Inv, TypeOK
  <2>2. QED
    BY <1>7, <2>1, GoneInv DEF Crash
<1>8. CASE Damage
  BY <1>8, StoreAssumption
     DEF Damage, Inv, TypeOK, Running, CleanMeansPersisted, BoundedLoss,
         NeverCorruptsItself
<1>9. CASE UNCHANGED vars
  BY <1>9
     DEF vars, Inv, TypeOK, Running, CleanMeansPersisted, BoundedLoss,
         NeverCorruptsItself, Durable
<1>10. QED
  BY <1>1, <1>2, <1>3, <1>4, <1>5, <1>6, <1>7, <1>8, <1>9 DEF Next

\* Before the first process there is nothing in memory that could be lost.
LEMMA InitInv == Init => Inv
<1> SUFFICES ASSUME Init PROVE Inv
  OBVIOUS
<1>1. TypeOK
  BY ZeroIsBounded, EmptyIsMap DEF Init, TypeOK
<1>2. ~Running
  BY DEF Init, Running
<1>3. QED
  BY <1>1, <1>2 DEF Init, Inv, CleanMeansPersisted, BoundedLoss, NeverCorruptsItself

\* Every reachable state of internal/state satisfies the inductive invariant:
\* in particular tmp holds the whole map whenever os.Rename is called.
THEOREM StoreInv == Spec => []Inv
<1>1. QED
  BY InitInv, InvInductive, PTL DEF Spec

\* Type correctness of the store, for every policy and every set of paths.
THEOREM StoreTypeCorrect == Spec => []TypeOK
<1>1. Inv => TypeOK
  BY DEF Inv
<1>2. QED
  BY <1>1, StoreInv, PTL

\* A store that is not dirty agrees with the file (Set, Flush, persistLocked).
THEOREM StoreClean == Spec => []CleanMeansPersisted
<1>1. Inv => CleanMeansPersisted
  BY DEF Inv
<1>2. QED
  BY <1>1, StoreInv, PTL

\* A crash takes back fewer than FlushEvery updates, none in the synchronous
\* mode, as long as the last persistLocked did not fail.
THEOREM StoreBoundedLoss == Spec => []BoundedLoss
<1>1. Inv => BoundedLoss
  BY DEF Inv
<1>2. QED
  BY <1>1, StoreInv, PTL

\* No failure of a system call and no crash of an earlier process makes the
\* file of a running store unreadable.
THEOREM StoreNeverCorrupts == Spec => []NeverCorruptsItself
<1>1. Inv => NeverCorruptsItself
  BY DEF Inv
<1>2. QED
  BY <1>1, StoreInv, PTL

\* A file that cannot be parsed leaves the path by the rename of
\* archiveCorruptWatermark only: no persistLocked of any process writes over
\* the evidence, since a process that runs has none (watermark.go:70-95).
THEOREM StoreCorruptIsArchived == Spec => CorruptIsArchived
<1> DEFINE Kept == disk = Corrupt /\ disk' # Corrupt => disk' = Absent
<1>1. ASSUME Inv, [Next]_vars PROVE Kept
  <2>1. CASE NewStore
    BY <2>1 DEF NewStore, Load, LoadAbsent, LoadReset, Refuse
  <2>2. CASE \E p \in Paths, e \in Entries : Set(p, e)
    BY <2>2 DEF Set
  <2>3. CASE PeriodicFlush \/ FinalFlush
    BY <2>3 DEF PeriodicFlush, FinalFlush, Flush
  <2>4. CASE Rename
    BY <1>1, <2>4 DEF Rename, Inv, NeverCorruptsItself
  <2>5. CASE WriteTmp \/ WriteTmpFails \/ RenameFails
    BY <2>5 DEF WriteTmp, WriteTmpFails, RenameFails
  <2>6. CASE Exit \/ Crash
    BY <2>6 DEF Exit, Crash, Gone
  <2>7. CASE Damage
    BY <2>7 DEF Damage
  <2>8. CASE UNCHANGED vars
    BY <2>8 DEF vars
  <2>9. QED
    BY <1>1, <2>1, <2>2, <2>3, <2>4, <2>5, <2>6, <2>7, <2>8 DEF Next, persistLocked
<1>2. QED
  BY <1>1, StoreInv, PTL DEF Spec, CorruptIsArchived
-----------------------------------------------------------------------------
\* Every step of the store is a step of DurableWatermarks, or changes nothing
\* of what it shows.
LEMMA StepRefines == Inv /\ Inv' /\ [Next]_vars => [Abstract!Next]_Abstract!vars
<1> SUFFICES ASSUME Inv, Inv', [Next]_vars
             PROVE  Abstract!Next \/ UNCHANGED <<Running, files, Durable>>
  BY DEF Abstract!vars
<1> USE StoreAssumption DEF Running, Durable
<1>1. CASE Load
  BY <1>1 DEF Load, Fresh, Abstract!Recover, Abstract!Next
<1>2. CASE LoadAbsent
  <2>1. Abstract!Recover
    BY <1>2, EmptyIsMap DEF LoadAbsent, Fresh, Abstract!Recover
  <2>2. QED
    BY <2>1 DEF Abstract!Next
<1>3. CASE LoadReset
  <2>1. Abstract!SetAside
    BY <1>3 DEF LoadReset, Fresh, Abstract!SetAside, Abstract!Empty, Empty
  <2>2. QED
    BY <2>1 DEF Abstract!Next
<1>4. CASE Refuse
  BY <1>4 DEF Refuse
<1>5. CASE \E p \in Paths, e \in Entries : Set(p, e)
  <2>1. Abstract!Update
    BY <1>5 DEF Set, Abstract!Update
  <2>2. QED
    BY <2>1 DEF Abstract!Next
<1>6. CASE PeriodicFlush
  BY <1>6 DEF PeriodicFlush, Flush
<1>7. CASE FinalFlush
  BY <1>7 DEF FinalFlush, Flush
<1>8. CASE WriteTmp \/ WriteTmpFails \/ RenameFails
  BY <1>8 DEF WriteTmp, WriteTmpFails, RenameFails
<1>9. CASE Rename
  <2>1. Abstract!Commit
    BY <1>9 DEF Rename, Inv, TypeOK, Abstract!Commit
  <2>2. QED
    BY <2>1 DEF Abstract!Next
<1>10. CASE Exit
  <2>1. CASE status = "exiting"
    <3>1. Abstract!Stop
      BY <1>10, <2>1 DEF Exit, Gone, Fresh, Abstract!Stop, Abstract!Empty, Empty
    <3>2. QED
      BY <3>1 DEF Abstract!Next
  <2>2. CASE status = "refused"
    BY <1>10, <2>2 DEF Exit, Gone, Fresh, Inv
  <2>3. QED
    BY <1>10, <2>1, <2>2 DEF Exit
<1>11. CASE Crash
  <2>1. Abstract!Stop
    BY <1>11 DEF Crash, Gone, Fresh, Abstract!Stop, Abstract!Empty, Empty
  <2>2. QED
    BY <2>1 DEF Abstract!Next
<1>12. CASE Damage
  <2>1. Abstract!Damage
    BY <1>12 DEF Damage, Abstract!Damage
  <2>2. QED
    BY <2>1 DEF Abstract!Next
<1>13. CASE UNCHANGED vars
  BY <1>13 DEF vars
<1>14. QED
  BY <1>1, <1>2, <1>3, <1>4, <1>5, <1>6, <1>7, <1>8, <1>9, <1>10, <1>11,
     <1>12, <1>13 DEF Next, NewStore, persistLocked

\* The initial states of the store are initial states of DurableWatermarks.
LEMMA InitRefines == Init => Abstract!Init
BY StoreAssumption DEF Init, Abstract!Init, Running, Durable, Abstract!Empty, Empty

\* The store implements DurableWatermarks: whatever fails and wherever the
\* process dies, the file holds one whole map that was in memory.
THEOREM StoreRefines == Spec => AbstractSpec
<1>1. QED
  BY InitRefines, StepRefines, StoreInv, PTL DEF Spec, AbstractSpec, Abstract!Spec
=============================================================================
