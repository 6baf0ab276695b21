------------------------ MODULE DeadLetterFilesProofs ------------------------
(* Proofs about DeadLetterFiles, for every number of batches, payloads,      *)
(* failing system calls and crashes.                                         *)
EXTENDS DeadLetterFiles, TLAPS

\* The batch that WriteBatch is working on is fresh: no name is used twice, it
\* is in doubt until the call returns, and it carries its final name exactly
\* from the rename on.
WriterInv ==
    /\ \A b \in tmp \cup jsonl \cup acked \cup refused : b <= wb
    /\ wpc \in {"write", "meta", "metaopen"} => wb \notin acked /\ wb \notin refused
    /\ wpc = "write" => wb \notin jsonl
    /\ wpc \in {"meta", "metaopen"} => wb \in jsonl

\* What a listing has still to visit and what it has collected cover what was
\* acknowledged; as long as nothing was in doubt, nothing it has still to
\* visit was removed.
ListerInv ==
    /\ lpc \in {"scan", "count", "done"} =>
           \A b \in lknown : b \in ltodo \/ <<b, BatchLen>> \in lout
    /\ \A e \in lout : e[2] = BatchLen
    /\ lpc = "done" => ltodo = {}
    /\ lpc \in {"scan", "count"} /\ lquiet => ltodo \subseteq jsonl /\ ~MetaInDoubt

DiskInv == CommittedWhole /\ AckedKept /\ RefusedIsGone

Inv == TypeOK /\ WriterInv /\ ListerInv /\ DiskInv /\ ListingFailsForCause

USE BatchLenAssumption, MaxBatchesAssumption DEF Batches, MetaFile, Unfinished

\* The invariant holds of an empty directory before the first start.
LEMMA InitInv == Init => Inv
BY DEF Init, Inv, TypeOK, WriterInv, ListerInv, DiskInv, CommittedWhole, AckedKept,
       RefusedIsGone, ListingFailsForCause

\* What the listing is told of doubts is a Boolean.
LEMMA QuietType == Observe => lquiet' \in BOOLEAN
BY DEF Observe

-----------------------------------------------------------------------------
(* The steps of WriteBatch leave the lister alone: what they may disturb of  *)
(* ListerInv and ListingFailsForCause is lquiet and the files to visit.      *)

\* A step that leaves a listing alone keeps its part of the invariant, if it
\* removes no committed file unless a batch is in doubt.
LEMMA ListerUntouched ==
    ASSUME Inv, Observe, UNCHANGED lister, MetaInDoubt \/ jsonl \subseteq jsonl'
    PROVE  ListerInv' /\ ListingFailsForCause'
BY DEF Inv, TypeOK, Observe, lister, ListerInv, ListingFailsForCause

\* The steps of WriteBatch up to the rename keep the invariant.
LEMMA OpenTmpInv == ASSUME Inv, OpenTmp, Observe PROVE Inv'
<1>1. wb' = wb + 1 /\ wb' \in Batches /\ wb \in Nat /\ wpc = "idle"
  BY DEF Inv, TypeOK, OpenTmp
<1>2. wb' \notin jsonl \cup acked \cup refused
  BY <1>1 DEF Inv, TypeOK, WriterInv
<1>3. UNCHANGED <<jsonl, lines, meta, acked, stuck>> /\ UNCHANGED lister /\ UNCHANGED crashes
  BY DEF OpenTmp
<1>4. \/ tmp' = tmp \cup {wb'} /\ wpc' = "write" /\ UNCHANGED <<refused, faults>>
      \/ Fault /\ wpc' = "idle" /\ refused' = refused \cup {wb'} /\ UNCHANGED tmp
  BY DEF OpenTmp
<1>5. /\ tmp' \subseteq tmp \cup {wb'} /\ refused \subseteq refused' /\ refused' \subseteq refused \cup {wb'}
      /\ wpc' \in {"idle", "write"}
      /\ wpc' = "write" => refused' = refused
  BY <1>4
<1>6. TypeOK'
  <2>1. faults' \in Nat
    BY <1>4 DEF Inv, TypeOK, Fault
  <2> QED BY <1>1, <1>3, <1>5, <2>1, QuietType DEF Inv, TypeOK, lister
<1>7. WriterInv'
  <2>1. \A b \in tmp' \cup jsonl' \cup acked' \cup refused' : b \in Batches /\ b <= wb'
    BY <1>1, <1>3, <1>5 DEF Inv, TypeOK, WriterInv
  <2> QED BY <1>2, <1>3, <1>5, <2>1 DEF WriterInv
<1>8. DiskInv'
  BY <1>2, <1>3, <1>5 DEF Inv, TypeOK, DiskInv, CommittedWhole, AckedKept, RefusedIsGone
<1>9. ListerInv' /\ ListingFailsForCause'
  BY <1>3, ListerUntouched
<1> QED BY <1>6, <1>7, <1>8, <1>9 DEF Inv

\* Giving up a tmp file touches no committed batch.
LEMMA AbandonTmpInv ==
    ASSUME Inv, wpc = "write", AbandonTmp, UNCHANGED <<lister, crashes>>, Observe PROVE Inv'
<1>1. TypeOK'
  BY QuietType DEF Inv, TypeOK, AbandonTmp, ReturnError, Fault, lister
<1>2. WriterInv'
  BY DEF Inv, TypeOK, WriterInv, AbandonTmp, ReturnError, Fault
<1>3. DiskInv'
  BY DEF Inv, TypeOK, WriterInv, DiskInv, CommittedWhole, AckedKept, RefusedIsGone,
         AbandonTmp, ReturnError, Fault
<1>4. ListerInv' /\ ListingFailsForCause'
  BY ListerUntouched DEF AbandonTmp
<1> QED BY <1>1, <1>2, <1>3, <1>4 DEF Inv

\* A payload goes to the batch that has no final name yet.
LEMMA WritePayloadInv == ASSUME Inv, WritePayload, Observe PROVE Inv'
<1>1. CASE AbandonTmp
  BY <1>1, AbandonTmpInv DEF WritePayload
<1>2. CASE lines' = [lines EXCEPT ![wb] = @ + 1] /\ UNCHANGED <<tmp, jsonl, meta, writer, faults>>
  <2>1. TypeOK'
    BY <1>2, QuietType DEF Inv, TypeOK, WritePayload, writer, lister
  <2>2. WriterInv'
    BY <1>2 DEF Inv, WriterInv, writer
  <2>3. DiskInv'
    BY <1>2 DEF Inv, TypeOK, WriterInv, DiskInv, CommittedWhole, AckedKept, RefusedIsGone,
                WritePayload, writer
  <2>4. ListerInv' /\ ListingFailsForCause'
    BY <1>2, ListerUntouched DEF WritePayload
  <2> QED BY <2>1, <2>2, <2>3, <2>4 DEF Inv
<1> QED BY <1>1, <1>2 DEF WritePayload

\* A batch gets its final name when all its lines are written.
LEMMA CommitTmpInv == ASSUME Inv, CommitTmp, Observe PROVE Inv'
<1>1. CASE AbandonTmp
  BY <1>1, AbandonTmpInv DEF CommitTmp
<1>2. CASE /\ tmp' = tmp \ {wb} /\ jsonl' = jsonl \cup {wb} /\ wpc' = "meta"
           /\ UNCHANGED <<lines, meta, wb, acked, refused, stuck, faults>>
  <2>1. TypeOK'
    BY <1>2, QuietType DEF Inv, TypeOK, CommitTmp, lister
  <2>2. WriterInv'
    BY <1>2 DEF Inv, TypeOK, WriterInv, CommitTmp
  <2>3. DiskInv'
    BY <1>2 DEF Inv, TypeOK, WriterInv, DiskInv, CommittedWhole, AckedKept, RefusedIsGone, CommitTmp
  <2>4. ListerInv' /\ ListingFailsForCause'
    BY <1>2, ListerUntouched DEF CommitTmp
  <2> QED BY <2>1, <2>2, <2>3, <2>4 DEF Inv
<1> QED BY <1>1, <1>2 DEF CommitTmp

-----------------------------------------------------------------------------
\* A failed writeMeta removes the batch, which was never acknowledged.
LEMMA DropBatchInv ==
    ASSUME Inv, wpc \in {"meta", "metaopen"}, Fault, DropBatch,
           meta' \in [Batches -> MetaFile], \A b \in Batches \ {wb} : meta'[b] = meta[b],
           UNCHANGED <<lister, crashes>>, Observe
    PROVE  Inv'
<1>1. TypeOK'
  <2>1. wb \in Batches /\ refused' = refused \cup {wb} /\ jsonl' \subseteq jsonl /\ stuck' \subseteq stuck \cup {wb}
    BY DEF Inv, TypeOK, DropBatch, ReturnError
  <2>2. jsonl' \subseteq Batches /\ refused' \subseteq Batches /\ stuck' \subseteq refused'
    BY <2>1 DEF Inv, TypeOK
  <2> QED BY <2>2, QuietType DEF Inv, TypeOK, DropBatch, ReturnError, Fault, lister
<1>2. WriterInv'
  BY DEF Inv, TypeOK, WriterInv, DropBatch, ReturnError
<1>3. DiskInv'
  BY DEF Inv, TypeOK, WriterInv, DiskInv, CommittedWhole, AckedKept, RefusedIsGone,
         DropBatch, ReturnError
<1>4. MetaInDoubt
  BY DEF MetaInDoubt
<1>5. ListerInv' /\ ListingFailsForCause'
  BY <1>4, ListerUntouched
<1> QED BY <1>1, <1>2, <1>3, <1>5 DEF Inv

\* From here on the metadata is in doubt.
LEMMA CreateMetaInv == ASSUME Inv, CreateMeta, Observe PROVE Inv'
<1>1. CASE Fault /\ DropBatch /\ UNCHANGED meta
  BY <1>1, DropBatchInv DEF Inv, TypeOK, CreateMeta
<1>2. CASE /\ meta' = [meta EXCEPT ![wb] = "empty"] /\ wpc' = "metaopen"
           /\ UNCHANGED <<tmp, jsonl, lines, wb, acked, refused, stuck, faults>>
  <2>1. TypeOK'
    BY <1>2, QuietType DEF Inv, TypeOK, CreateMeta, lister
  <2>2. WriterInv'
    BY <1>2 DEF Inv, TypeOK, WriterInv, CreateMeta
  <2>3. DiskInv'
    BY <1>2 DEF Inv, TypeOK, WriterInv, DiskInv, CommittedWhole, AckedKept, RefusedIsGone, CreateMeta
  <2>4. ListerInv' /\ ListingFailsForCause'
    BY <1>2, ListerUntouched DEF CreateMeta
  <2> QED BY <2>1, <2>2, <2>3, <2>4 DEF Inv
<1> QED BY <1>1, <1>2 DEF CreateMeta

\* The batch is acknowledged with its metadata, or removed.
LEMMA WriteMetaInv == ASSUME Inv, WriteMeta, Observe PROVE Inv'
<1>1. CASE Fault /\ (\E m \in Unfinished : meta' = [meta EXCEPT ![wb] = m]) /\ DropBatch
  <2>1. meta' \in [Batches -> MetaFile] /\ \A b \in Batches \ {wb} : meta'[b] = meta[b]
    BY <1>1 DEF Inv, TypeOK
  <2> QED BY <1>1, <2>1, DropBatchInv DEF WriteMeta
<1>2. CASE /\ meta' = [meta EXCEPT ![wb] = "whole"] /\ wpc' = "idle" /\ acked' = acked \cup {wb}
           /\ UNCHANGED <<tmp, jsonl, lines, wb, refused, stuck, faults>>
  <2>1. TypeOK'
    BY <1>2, QuietType DEF Inv, TypeOK, WriteMeta, lister
  <2>2. WriterInv'
    BY <1>2 DEF Inv, TypeOK, WriterInv, WriteMeta
  <2>3. DiskInv'
    BY <1>2 DEF Inv, TypeOK, WriterInv, DiskInv, CommittedWhole, AckedKept, RefusedIsGone, WriteMeta
  <2>4. ListerInv' /\ ListingFailsForCause'
    BY <1>2, ListerUntouched DEF WriteMeta
  <2> QED BY <2>1, <2>2, <2>3, <2>4 DEF Inv
<1> QED BY <1>1, <1>2 DEF WriteMeta

-----------------------------------------------------------------------------
\* The steps of a listing, the crash and the restart leave the disk alone.
LEMMA DiskUntouched ==
    ASSUME Inv, UNCHANGED <<disk, wb, acked, refused, stuck>>,
           wpc' = wpc \/ wpc' \in {"idle", "down"}
    PROVE  WriterInv' /\ DiskInv'
BY DEF Inv, WriterInv, DiskInv, CommittedWhole, AckedKept, RefusedIsGone, disk

\* A listing starts from what is committed, which includes what is acknowledged.
LEMMA ListStartInv == ASSUME Inv, ListStart, Observe PROVE Inv'
<1>1. TypeOK'
  <2>1. /\ lpc' \in {"scan", "failed"} /\ ltodo' \subseteq Batches /\ lcur' = 0
        /\ lout' = {} /\ lknown' = acked /\ UNCHANGED <<disk, writer, crashes>>
    BY DEF Inv, TypeOK, ListStart, CommittedFiles
  <2>2. faults' \in Nat
    BY DEF Inv, TypeOK, ListStart, Fault
  <2> QED BY <2>1, <2>2, QuietType DEF Inv, TypeOK, disk, writer
<1>2. ListerInv'
  BY DEF Inv, TypeOK, ListerInv, DiskInv, AckedKept, ListStart, CommittedFiles, Observe, disk, writer
<1>3. ListingFailsForCause'
  BY DEF Inv, TypeOK, ListingFailsForCause, ListStart, Fault, Observe
<1> QED BY <1>1, <1>2, <1>3, DiskUntouched DEF Inv, ListStart, writer

\* An entry is taken from whole metadata, refused or left to be counted.
LEMMA EntryForFileInv == ASSUME Inv, EntryForFile, Observe PROVE Inv'
<1>1. TypeOK'
  <2>1. PICK b \in ltodo :
            \/ lout' = lout \cup {<<b, BatchLen>>} /\ ltodo' = ltodo \ {b} /\ lpc' = "scan" /\ lcur' = lcur
            \/ UNCHANGED <<ltodo, lcur, lout>> /\ lpc' = "failed"
            \/ UNCHANGED <<ltodo, lout>> /\ lpc' = "count" /\ lcur' = b
    BY DEF EntryForFile
  <2>2. b \in Batches /\ <<b, BatchLen>> \in Batches \X Nat /\ b \in 0..MaxBatches
    BY DEF Inv, TypeOK
  <2>3. lout' \subseteq Batches \X Nat /\ ltodo' \subseteq Batches
    BY <2>1, <2>2 DEF Inv, TypeOK
  <2>4. lpc' \in {"scan", "count", "failed"} /\ lcur' \in 0..MaxBatches /\ (lpc' = "count" => lcur' \in ltodo')
    BY <2>1, <2>2 DEF Inv, TypeOK
  <2>5. faults' \in Nat
    BY DEF Inv, TypeOK, EntryForFile, Fault
  <2> QED BY <2>3, <2>4, <2>5, QuietType DEF Inv, TypeOK, EntryForFile, disk, writer
<1>2. MetaInDoubt' <=> MetaInDoubt
  BY DEF MetaInDoubt, EntryForFile, disk, writer
<1>3. ListerInv'
  <2>1. jsonl' = jsonl /\ lknown' = lknown /\ lpc = "scan" /\ (lquiet' => lquiet)
    BY DEF EntryForFile, Observe, disk
  <2>2. PICK b \in ltodo :
            \/ lout' = lout \cup {<<b, BatchLen>>} /\ ltodo' = ltodo \ {b} /\ lpc' = "scan"
            \/ UNCHANGED <<ltodo, lout>> /\ lpc' \in {"failed", "count"}
    BY DEF EntryForFile
  <2> QED BY <1>2, <2>1, <2>2 DEF Inv, ListerInv
<1>4. ListingFailsForCause'
  BY DEF Inv, TypeOK, ListerInv, ListingFailsForCause, EntryForFile, Fault, Observe, MetaInDoubt
<1> QED BY <1>1, <1>3, <1>4, DiskUntouched DEF Inv, EntryForFile, writer

\* A committed batch counts all of its lines.
LEMMA CountJSONLLinesInv == ASSUME Inv, CountJSONLLines, Observe PROVE Inv'
<1>1. TypeOK'
  <2>1. lcur \in Batches /\ lines[lcur] \in Nat
    BY DEF Inv, TypeOK, CountJSONLLines
  <2>2. /\ lout' \subseteq lout \cup {<<lcur, lines[lcur]>>} /\ ltodo' \subseteq ltodo
        /\ lpc' \in {"scan", "failed"} /\ UNCHANGED <<disk, writer, lcur, lknown, crashes>>
    BY DEF CountJSONLLines, LineCount
  <2>3. lout' \subseteq Batches \X Nat
    BY <2>1, <2>2 DEF Inv, TypeOK
  <2>4. faults' \in Nat
    BY DEF Inv, TypeOK, CountJSONLLines, Fault
  <2> QED BY <2>2, <2>3, <2>4, QuietType DEF Inv, TypeOK, disk, writer
<1>2. ListerInv'
  <2>1. MetaInDoubt' <=> MetaInDoubt
    BY DEF MetaInDoubt, CountJSONLLines, disk, writer
  <2>2. jsonl' = jsonl /\ lknown' = lknown /\ lpc = "count" /\ (lquiet' => lquiet)
    BY DEF CountJSONLLines, Observe, disk
  <2>3. \/ lout' = lout \cup {<<lcur, BatchLen>>} /\ ltodo' = ltodo \ {lcur} /\ lpc' = "scan"
        \/ UNCHANGED <<ltodo, lout>> /\ lpc' = "failed"
    BY DEF Inv, DiskInv, CommittedWhole, CommittedFiles, CountJSONLLines, LineCount
  <2> QED BY <2>1, <2>2, <2>3 DEF Inv, ListerInv
<1>3. ListingFailsForCause'
  BY DEF Inv, TypeOK, ListerInv, ListingFailsForCause, CommittedFiles, CountJSONLLines, Fault, Observe
<1> QED BY <1>1, <1>2, <1>3, DiskUntouched DEF Inv, CountJSONLLines, writer

\* The last entry was read.
LEMMA ListDoneInv == ASSUME Inv, ListDone, Observe PROVE Inv'
<1>1. TypeOK'
  BY QuietType DEF Inv, TypeOK, ListDone, disk, writer
<1>2. ListerInv' /\ ListingFailsForCause'
  BY DEF Inv, TypeOK, ListerInv, ListingFailsForCause, ListDone, disk, writer
<1> QED BY <1>1, <1>2, DiskUntouched DEF Inv, ListDone, writer

\* An answered request leaves nothing.
LEMMA ListAnsweredInv == ASSUME Inv, ListAnswered, Observe PROVE Inv'
<1>1. TypeOK'
  BY QuietType DEF Inv, TypeOK, ListAnswered, ForgetRequest, disk, writer
<1>2. ListerInv' /\ ListingFailsForCause'
  BY DEF ListerInv, ListingFailsForCause, ListAnswered, ForgetRequest
<1> QED BY <1>1, <1>2, DiskUntouched DEF Inv, ListAnswered, writer

\* A crash leaves the disk alone and ends the request.
LEMMA CrashInv == ASSUME Inv, Crash, Observe PROVE Inv'
<1>1. TypeOK'
  BY QuietType DEF Inv, TypeOK, Crash, ForgetRequest, disk
<1>2. ListerInv' /\ ListingFailsForCause'
  BY DEF ListerInv, ListingFailsForCause, Crash, ForgetRequest
<1> QED BY <1>1, <1>2, DiskUntouched DEF Inv, Crash

\* A restart writes nothing that stays.
LEMMA RestartInv == ASSUME Inv, Restart, Observe PROVE Inv'
<1>1. TypeOK'
  BY QuietType DEF Inv, TypeOK, Restart, Fault, disk, lister
<1>2. ListerInv' /\ ListingFailsForCause'
  BY ListerUntouched DEF Restart, disk
<1> QED BY <1>1, <1>2, DiskUntouched DEF Inv, Restart

\* Inv depends on the variables only.
LEMMA StutterInv == ASSUME Inv, UNCHANGED vars PROVE Inv'
BY DEF Inv, TypeOK, WriterInv, ListerInv, DiskInv, CommittedWhole, AckedKept, RefusedIsGone,
       ListingFailsForCause, MetaInDoubt, vars, disk, writer, lister

-----------------------------------------------------------------------------
\* The inductive invariant of the directory, its writer and its listing
\* (writer.go:39-93, metadata.go:50-125).
THEOREM DeadLetterInv == Spec => []Inv
<1>1. Inv /\ [Next]_vars => Inv'
  BY OpenTmpInv, WritePayloadInv, CommitTmpInv, CreateMetaInv, WriteMetaInv, ListStartInv,
     EntryForFileInv, CountJSONLLinesInv, ListDoneInv, ListAnsweredInv, CrashInv, RestartInv,
     StutterInv DEF Next
<1> QED BY InitInv, <1>1, PTL DEF Spec

\* Type correctness of the directory for every number and length of batches.
THEOREM DeadLetterTypeCorrect == Spec => []TypeOK
BY DeadLetterInv, PTL DEF Inv

\* A committed batch file is whole, whatever failed (writer.go:56-77).
THEOREM DeadLetterCommittedWhole == Spec => []CommittedWhole
<1>1. Inv => CommittedWhole BY DEF Inv, DiskInv
<1> QED BY <1>1, DeadLetterInv, PTL

\* An acknowledged batch stays, with its metadata (writer.go:39-93).
THEOREM DeadLetterAckedKept == Spec => []AckedKept
<1>1. Inv => AckedKept BY DEF Inv, DiskInv
<1> QED BY <1>1, DeadLetterInv, PTL

\* A refused batch is not stored, unless its removal failed (writer.go:88-91).
THEOREM DeadLetterRefusedIsGone == Spec => []RefusedIsGone
<1>1. Inv => RefusedIsGone BY DEF Inv, DiskInv
<1> QED BY <1>1, DeadLetterInv, PTL

\* A listing that succeeds is complete and true (metadata.go:50-125).
THEOREM DeadLetterListingTrue == Spec => []ListingTrue
<1>1. Inv => ListingTrue BY DEF Inv, ListerInv, ListingTrue
<1> QED BY <1>1, DeadLetterInv, PTL

\* A listing fails only if a system call of its own failed or while a batch is in
\* doubt (metadata.go:50-125).
THEOREM DeadLetterListingFails == Spec => []ListingFailsForCause
BY DeadLetterInv, PTL DEF Inv
=============================================================================
