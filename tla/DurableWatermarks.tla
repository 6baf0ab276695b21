------------------------- MODULE DurableWatermarks -------------------------
(***************************************************************************)
(* What the watermark store promises: a map in memory that callers update  *)
(* and a stable copy that survives a crash.  The stable copy only ever     *)
(* changes in one step to the whole map that is in memory, so a restart    *)
(* resumes from a map the program really held, never from a mixture of two *)
(* or from half of one.  A stable copy damaged from outside is either      *)
(* refused at start or set aside, never read and never overwritten.        *)
(***************************************************************************)
CONSTANTS Paths,     \* the tailed files
          Entries,   \* the positions (offset, inode) a file can be at
          NoEntry,   \* a path without a watermark
          Damaged    \* a stable copy that cannot be read back

VARIABLES live,      \* a process holds the map in memory
          mem,       \* the map in memory
          stable     \* the copy that survives the process

vars == <<live, mem, stable>>

Maps == [Paths -> Entries \cup {NoEntry}]
Empty == [p \in Paths |-> NoEntry]

Init == /\ live = FALSE
        /\ mem = Empty
        /\ stable \in {Empty, Damaged}

\* A watermark moves, in memory only.
Update == /\ live
          /\ \E p \in Paths, e \in Entries : mem' = [mem EXCEPT ![p] = e]
          /\ UNCHANGED <<live, stable>>

\* The whole map becomes durable in one step.
Commit == /\ live
          /\ stable' = mem
          /\ UNCHANGED <<live, mem>>

\* The process ends, by choice or not; what was only in memory is gone.
Stop == /\ live
        /\ live' = FALSE
        /\ mem' = Empty
        /\ UNCHANGED stable

\* A new process starts from the stable copy.
Recover == /\ ~live
           /\ stable # Damaged
           /\ live' = TRUE
           /\ mem' = stable
           /\ UNCHANGED stable

\* A new process sets a damaged copy aside and starts from nothing.
SetAside == /\ ~live
            /\ stable = Damaged
            /\ live' = TRUE
            /\ mem' = Empty
            /\ stable' = Empty

\* Something outside the program damages the copy while no process runs.
Damage == /\ ~live
          /\ stable' = Damaged
          /\ UNCHANGED <<live, mem>>

Next == Update \/ Commit \/ Stop \/ Recover \/ SetAside \/ Damage

Spec == Init /\ [][Next]_vars
=============================================================================
