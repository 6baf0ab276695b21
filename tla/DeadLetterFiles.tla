--------------------------- MODULE DeadLetterFiles ---------------------------
(* Package deadletter: the directory of dead letter batches, written by     *)
(* WriteBatch and read by ListEntries for GET /deadletters.                 *)
(*                                                                          *)
(* One flush writes at a time (Pipeline!FlushExclusive); a request of the   *)
(* metrics server lists the directory at any moment. Every system call of   *)
(* WriteBatch is a step, may fail, and the process may crash between any    *)
(* two. The files a crash leaves are what the system calls made of them:    *)
(* the code never syncs, so a power loss is outside of the model.           *)
(* Abstractions: a batch file is the number of its whole lines; its name is *)
(* a fresh number (a time stamp and 32 random bits in the code); a metadata *)
(* file is empty, cut short or whole.                                       *)
EXTENDS Naturals

CONSTANTS
    MaxBatches,     \* calls of WriteBatch
    BatchLen,       \* payloads of a batch
    MaxFaults,      \* failing system calls
    MaxCrashes      \* crashes of the process

ASSUME BatchLenAssumption == BatchLen \in Nat \ {0}
ASSUME MaxBatchesAssumption == MaxBatches \in Nat

VARIABLES
    tmp,            \* batches whose .jsonl.tmp file exists
    jsonl,          \* batches whose .jsonl file exists
    lines,          \* the whole lines in a batch's file, under either name
    meta,           \* the .meta.json file of a batch
    wpc,            \* where WriteBatch stands, "idle" between two calls
    wb,             \* the batch it writes: calls so far
    acked,          \* batches WriteBatch returned a file name for
    refused,        \* batches WriteBatch returned an error for
    stuck,          \* refused batches whose file could not be removed
    lpc,            \* where ListEntries stands, "idle" between two requests
    ltodo,          \* the directory entries it has not visited
    lcur,           \* the entry it counts the lines of
    lout,           \* the entries it has collected, <<batch, event count>>
    lknown,         \* the batches acknowledged when it read the directory
    lquiet,         \* no call failed the request, no metadata was unfinished
    faults, crashes

disk == <<tmp, jsonl, lines, meta>>
writer == <<wpc, wb, acked, refused, stuck>>
lister == <<lpc, ltodo, lcur, lout, lknown>>
vars == <<disk, writer, lister, lquiet, faults, crashes>>

Batches == 1..MaxBatches
MetaFile == {"none", "empty", "part", "whole"}
Unfinished == {"empty", "part"}

\* Types of the directory, of WriteBatch and of ListEntries; a listing only
\* counts an entry that it still has to visit.
TypeOK ==
    /\ tmp \subseteq Batches /\ jsonl \subseteq Batches
    /\ lines \in [Batches -> 0..BatchLen]
    /\ meta \in [Batches -> MetaFile]
    /\ wpc \in {"down", "idle", "write", "meta", "metaopen"}
    /\ wb \in 0..MaxBatches
    /\ wpc \in {"write", "meta", "metaopen"} => wb \in Batches
    /\ acked \subseteq Batches /\ refused \subseteq Batches
    /\ stuck \subseteq refused
    /\ lpc \in {"idle", "scan", "count", "done", "failed"}
    /\ ltodo \subseteq Batches
    /\ lcur \in 0..MaxBatches
    /\ lpc = "count" => lcur \in ltodo
    /\ lout \subseteq Batches \X Nat
    /\ lknown \subseteq Batches
    /\ lquiet \in BOOLEAN
    /\ faults \in Nat /\ crashes \in Nat

Init ==
    /\ tmp = {} /\ jsonl = {}
    /\ lines = [b \in Batches |-> 0]
    /\ meta = [b \in Batches |-> "none"]
    /\ wpc = "down" /\ wb = 0
    /\ acked = {} /\ refused = {} /\ stuck = {}
    /\ lpc = "idle" /\ ltodo = {} /\ lcur = 0 /\ lout = {} /\ lknown = {}
    /\ lquiet = TRUE
    /\ faults = 0 /\ crashes = 0

\* A system call fails.
Fault == faults < MaxFaults /\ faults' = faults + 1

-----------------------------------------------------------------------------
(* WriteBatch *)

\* WriteBatch returns an error.
ReturnError ==
    /\ wpc' = "idle"
    /\ refused' = refused \cup {wb}
    /\ UNCHANGED <<wb, acked>>

\* MkdirAll, then OpenFile of a fresh name with O_EXCL.
OpenTmp ==
    /\ wpc = "idle" /\ wb < MaxBatches
    /\ wb' = wb + 1
    /\ \/ /\ tmp' = tmp \cup {wb'}
          /\ wpc' = "write"
          /\ UNCHANGED <<refused, faults>>
       \/ /\ Fault
          /\ wpc' = "idle"
          /\ refused' = refused \cup {wb'}
          /\ UNCHANGED tmp
    /\ UNCHANGED <<jsonl, lines, meta, acked, stuck, lister, crashes>>

\* Close and remove the tmp file and give up; the error of Remove is ignored,
\* so that the file may stay behind.
AbandonTmp ==
    /\ Fault
    /\ tmp' \in {tmp, tmp \ {wb}}
    /\ ReturnError
    /\ UNCHANGED <<jsonl, lines, meta, stuck>>

\* One turn of the loop: a payload and its newline.
WritePayload ==
    /\ wpc = "write" /\ lines[wb] < BatchLen
    /\ \/ /\ lines' = [lines EXCEPT ![wb] = @ + 1]
          /\ UNCHANGED <<tmp, jsonl, meta, writer, faults>>
       \/ AbandonTmp
    /\ UNCHANGED <<lister, crashes>>

\* A commit that does not wait for the last payload.
EarlyCommitTmp ==
    /\ wpc = "write" /\ lines[wb] + 1 >= BatchLen
    /\ tmp' = tmp \ {wb}
    /\ jsonl' = jsonl \cup {wb}
    /\ wpc' = "meta"
    /\ UNCHANGED <<lines, meta, wb, acked, refused, stuck, faults>>
    /\ UNCHANGED <<lister, crashes>>

\* Close, then Rename to the final name.
CommitTmp ==
    /\ wpc = "write" /\ lines[wb] = BatchLen
    /\ \/ /\ tmp' = tmp \ {wb}
          /\ jsonl' = jsonl \cup {wb}
          /\ wpc' = "meta"
          /\ UNCHANGED <<lines, meta, wb, acked, refused, stuck, faults>>
       \/ AbandonTmp
    /\ UNCHANGED <<lister, crashes>>

\* The batch file is left where it is after a failed writeMeta.
KeepBatch ==
    /\ UNCHANGED <<jsonl, stuck>>
    /\ ReturnError
    /\ UNCHANGED <<tmp, lines>>

\* writeMeta failed: remove the committed batch file and give up; again the
\* error of Remove is ignored.
DropBatch ==
    /\ \/ jsonl' = jsonl \ {wb} /\ UNCHANGED stuck
       \/ UNCHANGED jsonl /\ stuck' = stuck \cup {wb}
    /\ ReturnError
    /\ UNCHANGED <<tmp, lines>>

\* os.WriteFile first creates the file or cuts it to nothing.
CreateMeta ==
    /\ wpc = "meta"
    /\ \/ /\ meta' = [meta EXCEPT ![wb] = "empty"]
          /\ wpc' = "metaopen"
          /\ UNCHANGED <<tmp, jsonl, lines, wb, acked, refused, stuck, faults>>
       \/ /\ Fault
          /\ DropBatch
          /\ UNCHANGED meta
    /\ UNCHANGED <<lister, crashes>>

\* The error of the write is ignored.
LaxWriteMeta ==
    /\ wpc = "metaopen"
    /\ \E m \in MetaFile \ {"none"} : meta' = [meta EXCEPT ![wb] = m]
    /\ wpc' = "idle"
    /\ acked' = acked \cup {wb}
    /\ UNCHANGED <<tmp, jsonl, lines, wb, refused, stuck, faults, lister, crashes>>

\* Then it writes; a failed write leaves a part of the data or none, and
\* nothing removes the metadata file.
WriteMeta ==
    /\ wpc = "metaopen"
    /\ \/ /\ meta' = [meta EXCEPT ![wb] = "whole"]
          /\ wpc' = "idle"
          /\ acked' = acked \cup {wb}
          /\ UNCHANGED <<tmp, jsonl, lines, wb, refused, stuck, faults>>
       \/ /\ Fault
          /\ \E m \in Unfinished : meta' = [meta EXCEPT ![wb] = m]
          /\ DropBatch
    /\ UNCHANGED <<lister, crashes>>

-----------------------------------------------------------------------------
(* ListEntries *)

\* The names ListEntries visits: committed batches, neither tmp nor metadata.
CommittedFiles == jsonl

\* A request arrives and ReadDir takes the names.
ListStart ==
    /\ lpc = "idle" /\ wpc # "down"
    /\ \/ /\ lpc' = "scan"
          /\ ltodo' = CommittedFiles
          /\ UNCHANGED faults
       \/ /\ Fault
          /\ lpc' = "failed"
          /\ ltodo' = {}
    /\ lout' = {}
    /\ lcur' = 0
    /\ lknown' = acked
    /\ UNCHANGED <<disk, writer, crashes>>

\* The listing insists on a metadata file.
StrictEntryForFile ==
    /\ lpc = "scan"
    /\ \E b \in ltodo :
        \/ /\ meta[b] = "whole"
           /\ lout' = lout \cup {<<b, BatchLen>>}
           /\ ltodo' = ltodo \ {b}
           /\ UNCHANGED <<lpc, lcur>>
        \/ /\ meta[b] # "whole"
           /\ lpc' = "failed"
           /\ UNCHANGED <<ltodo, lcur, lout>>
    /\ UNCHANGED <<disk, writer, lknown, faults, crashes>>

\* entryForFile: the metadata if it can be read, an error if it does not
\* parse, otherwise, whatever kept ReadFile from it, a count of the batch
\* file's own lines.
EntryForFile ==
    /\ lpc = "scan"
    /\ \E b \in ltodo :
        \/ /\ meta[b] = "whole"
           /\ lout' = lout \cup {<<b, BatchLen>>}
           /\ ltodo' = ltodo \ {b}
           /\ UNCHANGED <<lpc, lcur, faults>>
        \/ /\ meta[b] \in Unfinished
           /\ lpc' = "failed"
           /\ UNCHANGED <<ltodo, lcur, lout, faults>>
        \/ /\ Fault \/ (meta[b] = "none" /\ UNCHANGED faults)
           /\ lpc' = "count"
           /\ lcur' = b
           /\ UNCHANGED <<ltodo, lout>>
    /\ UNCHANGED <<disk, writer, lknown, crashes>>

\* The newline at the end of the file counts as one more line.
UntrimmedLineCount(b) == lines[b] + 1

\* The newline at the end of the file is trimmed before the lines are split.
LineCount(b) == lines[b]

\* Info and countJSONLLines; either fails when the file is gone, and may fail
\* although it is there.
CountJSONLLines ==
    /\ lpc = "count"
    /\ \/ /\ lcur \in CommittedFiles
          /\ lout' = lout \cup {<<lcur, LineCount(lcur)>>}
          /\ ltodo' = ltodo \ {lcur}
          /\ lpc' = "scan"
          /\ UNCHANGED faults
       \/ /\ Fault \/ (lcur \notin CommittedFiles /\ UNCHANGED faults)
          /\ lpc' = "failed"
          /\ UNCHANGED <<ltodo, lout>>
    /\ UNCHANGED <<disk, writer, lcur, lknown, crashes>>

\* Every entry was read: the request is answered with 200.
ListDone ==
    /\ lpc = "scan" /\ ltodo = {}
    /\ lpc' = "done"
    /\ UNCHANGED <<disk, writer, ltodo, lcur, lout, lknown, faults, crashes>>

\* The handler's local variables are gone.
ForgetRequest ==
    /\ lpc' = "idle"
    /\ ltodo' = {} /\ lcur' = 0 /\ lout' = {} /\ lknown' = {}

\* The answer is on its way, 200 or 500; the next request may come.
ListAnswered ==
    /\ lpc \in {"done", "failed"}
    /\ ForgetRequest
    /\ UNCHANGED <<disk, writer, faults, crashes>>

-----------------------------------------------------------------------------
\* The process dies: the disk stays.
Crash ==
    /\ wpc # "down" /\ crashes < MaxCrashes
    /\ crashes' = crashes + 1
    /\ wpc' = "down"
    /\ ForgetRequest
    /\ UNCHANGED <<disk, wb, acked, refused, stuck, faults>>

\* ValidateDeadLetterAtStartup: the directory is made and a probe file is
\* written and removed; if that fails the forwarder does not start.
Restart ==
    /\ wpc = "down"
    /\ \/ wpc' = "idle" /\ UNCHANGED faults
       \/ Fault /\ UNCHANGED wpc
    /\ UNCHANGED <<disk, wb, acked, refused, stuck, lister, crashes>>

\* A WriteBatch is between its commit and its return, or one that never
\* returned properly has left an unfinished metadata file next to its batch.
MetaInDoubt == wpc \in {"meta", "metaopen"} \/ \E b \in jsonl : meta[b] \in Unfinished

\* What lquiet observes of a request; no code corresponds to it.
Observe ==
    lquiet' = /\ lpc = "idle" \/ lquiet
              /\ ~MetaInDoubt /\ ~MetaInDoubt'
              /\ ~(faults' # faults /\ lpc' = "failed")

Next ==
    /\ \/ OpenTmp \/ WritePayload \/ CommitTmp \/ CreateMeta \/ WriteMeta
       \/ ListStart \/ EntryForFile \/ CountJSONLLines \/ ListDone \/ ListAnswered
       \/ Crash \/ Restart
    /\ Observe

Spec == Init /\ [][Next]_vars
-----------------------------------------------------------------------------
\* A file that carries the final name holds the whole batch, whatever failed
\* and wherever the process died: the rename comes after the last payload
\* (writer.go:56-77).
CommittedWhole == \A b \in jsonl : lines[b] = BatchLen

\* What WriteBatch has acknowledged, and the pipeline has advanced its
\* watermarks past, is on disk with its metadata, and stays there through
\* later failures, listings and crashes (writer.go:39-93).
AckedKept == \A b \in acked : b \in jsonl /\ meta[b] = "whole"

\* A batch WriteBatch returned an error for is not committed, so that its
\* retry does not store it twice, unless the removal of its file failed too
\* (writer.go:88-91).
RefusedIsGone == \A b \in refused \ stuck : b \notin jsonl

\* A request answered with 200 lists every batch that was acknowledged when
\* it arrived, once and with its true number of events, although batches are
\* written, refused and removed meanwhile; a batch that crashed before its
\* metadata was begun is counted, not skipped (metadata.go:50-125).
ListingTrue ==
    lpc = "done" =>
        /\ \A b \in lknown : <<b, BatchLen>> \in lout
        /\ \A e \in lout : e[2] = BatchLen

\* A request is answered with 500 only if a system call of its own failed,
\* ReadDir or the stat or read of a batch that it counts, or if during it a
\* WriteBatch stood between its commit and its return, or had been cut off
\* while it wrote the metadata: tmp files, batches without metadata, metadata
\* that cannot be read and metadata without a batch never fail a listing
\* (metadata.go:50-125).
ListingFailsForCause == lpc = "failed" => ~lquiet
=============================================================================
