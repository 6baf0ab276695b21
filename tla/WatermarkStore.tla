--------------------------- MODULE WatermarkStore ---------------------------
(***************************************************************************)
(* internal/state: the store of per-file watermarks.  Set and Flush run    *)
(* under the store's mutex; persistLocked writes path.tmp and renames it   *)
(* over path, and each of its system calls may fail, or be the last thing  *)
(* the process does.  NewStore reads the file back in the next process.    *)
(*                                                                         *)
(* A file's content is the map it encodes, Absent, or Corrupt: a file      *)
(* whose bytes json.Unmarshal refuses (every proper prefix of the encoded  *)
(* object is refused, so a partial write reads back as Corrupt).           *)
(***************************************************************************)
EXTENDS Integers

CONSTANTS Paths,           \* the tailed files
          Entries,         \* the Entry values (offset, inode) the callers use
          NoEntry,         \* a path that is not a key of the map
          Absent,          \* the file does not exist
          Corrupt,         \* the file exists and cannot be parsed
          FlushInterval,   \* Options.FlushInterval (a duration: may be negative)
          FlushEvery,      \* Options.FlushEvery
          ResetOnCorrupt,  \* Options.ResetOnCorrupt
          MaxUpdates       \* bound: Sets since the last persist that succeeded

FileMap == [Paths -> Entries \cup {NoEntry}]
Empty == [p \in Paths |-> NoEntry]

ASSUME StoreAssumption ==
    /\ FlushInterval \in Int
    /\ FlushEvery \in Nat       \* validateState refuses a negative one
    /\ MaxUpdates \in Nat
    /\ ResetOnCorrupt \in BOOLEAN
    /\ Absent \notin FileMap
    /\ Corrupt \notin FileMap
    /\ Absent # Corrupt
    /\ NoEntry \notin Entries

VARIABLES
    status,             \* "down", "up", "exiting" (final Flush done), "refused"
    files,              \* Store.files
    dirty,              \* Store.dirty
    updatesSinceFlush,  \* Store.updatesSinceFlush
    mu,                 \* who holds Store.mu: "free", or the next call of
                        \* persistLocked its holder makes: "write", "rename"
    persistErr,         \* the last persistLocked of this process failed
    disk,               \* the file at Store.path
    tmp                 \* the file at Store.path + ".tmp"

vars == <<status, files, dirty, updatesSinceFlush, mu, persistErr, disk, tmp>>

Running == status \in {"up", "exiting"}

TypeOK == /\ status \in {"down", "up", "exiting", "refused"}
          /\ files \in FileMap
          /\ dirty \in BOOLEAN
          /\ updatesSinceFlush \in 0..MaxUpdates
          /\ mu \in {"free", "write", "rename"}
          /\ persistErr \in BOOLEAN
          /\ disk \in FileMap \cup {Absent, Corrupt}
          /\ tmp \in FileMap \cup {Absent, Corrupt}

Init == /\ status = "down"
        /\ files = Empty
        /\ dirty = FALSE
        /\ updatesSinceFlush = 0
        /\ mu = "free"
        /\ persistErr = FALSE
        /\ disk \in {Absent, Corrupt}
        /\ tmp = Absent
-----------------------------------------------------------------------------
\* A store in memory that holds the map m and has nothing to persist.
Fresh(m) == /\ files' = m
            /\ dirty' = FALSE
            /\ updatesSinceFlush' = 0
            /\ mu' = "free"
            /\ persistErr' = FALSE

\* load found a file it can parse.
Load == /\ status = "down"
        /\ disk \in FileMap
        /\ status' = "up"
        /\ Fresh(disk)
        /\ UNCHANGED <<disk, tmp>>

\* load found no file: an empty store.
LoadAbsent == /\ status = "down"
              /\ disk = Absent
              /\ status' = "up"
              /\ Fresh(Empty)
              /\ UNCHANGED <<disk, tmp>>

\* Faulty variant: the reset forgets to rename the corrupt file away.
LoadResetInPlace == /\ status = "down"
                    /\ disk = Corrupt
                    /\ ResetOnCorrupt
                    /\ status' = "up"
                    /\ Fresh(Empty)
                    /\ UNCHANGED <<disk, tmp>>

\* archiveCorruptWatermark renamed the file away: an empty store.
LoadReset == /\ status = "down"
             /\ disk = Corrupt
             /\ ResetOnCorrupt
             /\ status' = "up"
             /\ Fresh(Empty)
             /\ disk' = Absent
             /\ UNCHANGED tmp

\* NewStore returns an error and main exits: a file that cannot be parsed
\* and is not to be reset, a rename that fails, or a file that cannot be read.
Refuse == /\ status = "down"
          /\ status' = "refused"
          /\ UNCHANGED <<files, dirty, updatesSinceFlush, mu, persistErr, disk, tmp>>

NewStore == Load \/ LoadAbsent \/ LoadReset \/ Refuse
-----------------------------------------------------------------------------
\* Faulty variant: one update too late.
shouldPersistLate(n) == \/ FlushInterval = 0 /\ FlushEvery = 0
                        \/ FlushEvery > 0 /\ n > FlushEvery

shouldPersistLocked(n) == \/ FlushInterval = 0 /\ FlushEvery = 0
                          \/ FlushEvery > 0 /\ n >= FlushEvery

\* Faulty variant: Set does not take the mutex that persistLocked runs under.
SetUnlocked(p, e) == /\ Running
                     /\ updatesSinceFlush < MaxUpdates
                     /\ files' = [files EXCEPT ![p] = e]
                     /\ dirty' = TRUE
                     /\ updatesSinceFlush' = updatesSinceFlush + 1
                     /\ mu' = IF shouldPersistLocked(updatesSinceFlush + 1)
                              THEN "write" ELSE mu
                     /\ UNCHANGED <<status, persistErr, disk, tmp>>

\* The critical section of Set, up to the first system call of persistLocked.
Set(p, e) == /\ Running
             /\ mu = "free"
             /\ updatesSinceFlush < MaxUpdates
             /\ files' = [files EXCEPT ![p] = e]
             /\ dirty' = TRUE
             /\ updatesSinceFlush' = updatesSinceFlush + 1
             /\ mu' = IF shouldPersistLocked(updatesSinceFlush + 1)
                      THEN "write" ELSE "free"
             /\ UNCHANGED <<status, persistErr, disk, tmp>>

\* Flush up to the first system call of persistLocked.
Flush == /\ mu = "free"
         /\ mu' = IF dirty THEN "write" ELSE "free"
         /\ UNCHANGED <<files, dirty, updatesSinceFlush, persistErr, disk, tmp>>

\* Faulty variant: the periodic loop returns at its first error.
PeriodicFlushOnce == /\ Running
                     /\ FlushInterval > 0
                     /\ dirty
                     /\ ~persistErr
                     /\ Flush
                     /\ UNCHANGED status

\* A tick of RunPeriodicFlush (its last one may follow the final Flush).
PeriodicFlush == /\ Running
                 /\ FlushInterval > 0
                 /\ dirty
                 /\ Flush
                 /\ UNCHANGED status

\* main's deferred Flush on the way out.
FinalFlush == /\ status = "up"
              /\ Flush
              /\ status' = "exiting"
-----------------------------------------------------------------------------
\* os.WriteFile(tmp) wrote the whole encoded map.
WriteTmp == /\ mu = "write"
            /\ tmp' = files
            /\ mu' = "rename"
            /\ UNCHANGED <<status, files, dirty, updatesSinceFlush, persistErr, disk>>

\* os.MkdirAll failed, or os.WriteFile did, after truncating or writing part.
WriteTmpFails == /\ mu = "write"
                 /\ tmp' \in {tmp, Corrupt}
                 /\ mu' = "free"
                 /\ persistErr' = TRUE
                 /\ UNCHANGED <<status, files, dirty, updatesSinceFlush, disk>>

\* os.Rename replaced the file: persistLocked returns nil.
Rename == /\ mu = "rename"
          /\ disk' = tmp
          /\ tmp' = Absent
          /\ dirty' = FALSE
          /\ updatesSinceFlush' = 0
          /\ persistErr' = FALSE
          /\ mu' = "free"
          /\ UNCHANGED <<status, files>>

\* os.Rename failed: the store stays dirty.
RenameFails == /\ mu = "rename"
               /\ mu' = "free"
               /\ persistErr' = TRUE
               /\ UNCHANGED <<status, files, dirty, updatesSinceFlush, disk, tmp>>

persistLocked == WriteTmp \/ WriteTmpFails \/ Rename \/ RenameFails
-----------------------------------------------------------------------------
\* The process is gone, and with it the memory of the store.
Gone == /\ status' = "down"
        /\ Fresh(Empty)
        /\ UNCHANGED disk

\* The process ends after its final Flush, or after NewStore refused.
Exit == /\ status \in {"exiting", "refused"}
        /\ mu = "free"
        /\ Gone
        /\ UNCHANGED tmp

\* The process is killed, or leaves through os.Exit(1), which runs no deferred
\* call: at any point, so a write of tmp may be cut short.
Crash == /\ Running
         /\ Gone
         /\ tmp' \in IF mu = "write" THEN {tmp, Corrupt} ELSE {tmp}

\* The file is damaged while no process runs (a power loss: nothing is synced).
Damage == /\ status = "down"
          /\ disk # Absent
          /\ disk' = Corrupt
          /\ UNCHANGED <<status, files, dirty, updatesSinceFlush, mu, persistErr, tmp>>

Next == \/ NewStore
        \/ \E p \in Paths, e \in Entries : Set(p, e)
        \/ PeriodicFlush
        \/ FinalFlush
        \/ persistLocked
        \/ Exit
        \/ Crash
        \/ Damage

Spec == Init /\ [][Next]_vars

\* The store's own progress: a ticker that fires again and again gets the
\* mutex (Go's mutex does not starve a waiter), and persistLocked returns.  A
\* disk that recovers from its failures is the one assumption on the outside.
Fairness == /\ SF_vars(PeriodicFlush)
            /\ WF_vars(persistLocked)
            /\ SF_vars(WriteTmp)
            /\ SF_vars(Rename)

FairSpec == Spec /\ Fairness
-----------------------------------------------------------------------------
\* What the next process would load.
Durable == IF disk = Absent THEN Empty ELSE disk

\* A store that owes the disk nothing agrees with it: dirty is never cleared
\* for an update that a concurrent or a failed persistLocked did not write.
CleanMeansPersisted == Running /\ ~dirty => Durable = files

\* At the point where the mutex is free, and the last attempt to persist did
\* not fail, fewer than FlushEvery updates (none in the synchronous mode of
\* the zero Options) are in memory only: what a crash can take back.
BoundedLoss ==
    Running /\ mu = "free" /\ ~persistErr =>
        /\ FlushEvery > 0 => updatesSinceFlush < FlushEvery
        /\ FlushEvery = 0 /\ FlushInterval = 0 => Durable = files

\* While a process runs, no failure and no leftover path.tmp of an earlier
\* process makes the watermark file unreadable.
NeverCorruptsItself == Running => disk # Corrupt

\* A file that could not be parsed is only ever moved away by a new process;
\* no persist writes over the evidence.
CorruptIsArchived == [][disk = Corrupt /\ disk' # Corrupt => disk' = Absent]_vars

\* With a flush interval, a watermark does not stay in memory for ever: it is
\* persisted unless the process ends first.
EventuallyPersisted == FlushInterval > 0 => (dirty ~> (~dirty \/ ~Running))

\* The store keeps the promise of DurableWatermarks: a write of a temporary
\* file and a rename, each of which may fail or be cut short, together act as
\* one atomic commit of the whole map.
Abstract == INSTANCE DurableWatermarks
                WITH live <- Running, mem <- files, stable <- Durable,
                     Damaged <- Corrupt
AbstractSpec == Abstract!Spec
-----------------------------------------------------------------------------
(* The inductive invariant behind the safety properties above.             *)
Inv == /\ TypeOK
       \* only a running process holds the mutex or has anything to persist
       /\ ~Running => mu = "free" /\ ~dirty /\ files = Empty
       \* a mutex held across a system call is held to persist something
       /\ mu # "free" => dirty
       \* between the write and the rename, tmp is exactly the map in memory
       /\ mu = "rename" => tmp = files
       /\ ~dirty => updatesSinceFlush = 0
       /\ CleanMeansPersisted
       /\ BoundedLoss
       /\ NeverCorruptsItself
=============================================================================
