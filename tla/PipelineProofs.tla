--------------------------- MODULE PipelineProofs ---------------------------
(***************************************************************************)
(* Proofs about the bookkeeping of the pipeline, for every number of lines,*)
(* every size of the records and every configuration: type correctness,    *)
(* one flush at a time, a bounded buffer.                                  *)
(***************************************************************************)
EXTENDS Pipeline, SequenceTheorems, TLAPS

\* The assumptions on the constants that bound something.
LEMMA Bounds == /\ N \in Nat /\ MaxBytes \in Nat /\ MaxAttempts \in Nat
                /\ SinkFaults \in Nat /\ DLQFaults \in Nat /\ StoreFaults \in Nat
                /\ Size \in [Lines -> Nat \ {0}]
BY PipelineAssumption

\* A step of Run's goroutine that touches nothing but its own place.
LEMMA MainStep ==
    ASSUME Inv, UNCHANGED <<inVars, bufVars, hibVars, job, outVars, envVars>>,
           MainOK', CurHeld', SyncFlushing' <=> SyncFlushing
    PROVE  Inv'
<1>1. InOK' /\ BufOK' /\ HibOK' /\ JobOK' /\ OutOK' /\ EnvOK'
  BY DEF Inv, TypeOK, InOK, BufOK, HibOK, JobOK, OutOK, EnvOK,
         inVars, bufVars, hibVars, outVars, envVars
<1>2. JobsCarry' /\ BufferBounded' /\ FlushExclusive'
  BY DEF Inv, JobsCarry, BufferBounded, FlushExclusive, bufVars
<1>3. QED
  BY <1>1, <1>2 DEF Inv, TypeOK

\* The ways in which Run's goroutine moves on keep a record in hand where one
\* is needed.
LEMMA FailMain == MainOK /\ Fail => MainOK' /\ CurHeld' /\ ~SyncFlushing'
BY DEF MainOK, Fail, CurHeld, SyncFlushing

\* The same when process has returned nil ...
LEMMA ProcessedMain == MainOK /\ Processed => MainOK' /\ CurHeld' /\ ~SyncFlushing'
BY DEF MainOK, Processed, CurHeld, SyncFlushing

\* ... and when Run returns.
LEMMA ReturnMain ==
    ASSUME MainOK, NEW e \in BOOLEAN, Return(e)
    PROVE  MainOK' /\ CurHeld' /\ ~SyncFlushing'
BY DEF MainOK, Return, CurHeld, SyncFlushing

\* A step inside flushItems.
LEMMA JobStep ==
    ASSUME Inv, UNCHANGED <<mainVars, inVars, bufVars>>,
           JobOK', JobsCarry', HibOK', OutOK', EnvOK',
           \A a \in Actors : job'[a].step = "none" <=> job[a].step = "none"
    PROVE  Inv'
<1>1. MainOK' /\ CurHeld' /\ InOK' /\ BufOK' /\ BufferBounded'
  BY DEF Inv, TypeOK, MainOK, CurHeld, InOK, BufOK, BufferBounded, mainVars, inVars, bufVars
<1>2. FlushExclusive'
  BY DEF Inv, FlushExclusive, SyncFlushing, mainVars, bufVars, Actors
<1>3. QED
  BY <1>1, <1>2 DEF Inv, TypeOK

\* flushItems moves to another of its steps: the batch stays.
LEMMA ToJob ==
    ASSUME JobOK, JobsCarry, NEW a \in Actors, job[a].step # "none",
           NEW l \in Steps \ {"backoff"}, To(a, l)
    PROVE  /\ JobOK' /\ JobsCarry'
           /\ \A c \in Actors : job'[c].step = "none" <=> job[c].step = "none"
<1>1. JobOK'
  BY DEF JobOK, Job, To, Steps
<1>2. JobsCarry' /\ \A c \in Actors : job'[c].step = "none" <=> job[c].step = "none"
  BY DEF JobOK, Job, To, Steps, JobsCarry
<1>3. QED
  BY <1>1, <1>2

\* flushItems returns with or without an error: the batch stays until the
\* caller has seen it.
LEMMA DoneJob ==
    ASSUME JobOK, JobsCarry, NEW a \in Actors, job[a].step # "none",
           NEW e \in BOOLEAN, Done(a, e)
    PROVE  /\ JobOK' /\ JobsCarry'
           /\ \A c \in Actors : job'[c].step = "none" <=> job[c].step = "none"
<1>1. JobOK'
  BY DEF JobOK, Job, Done, Steps
<1>2. JobsCarry' /\ \A c \in Actors : job'[c].step = "none" <=> job[c].step = "none"
  BY DEF JobOK, Job, Done, Steps, JobsCarry
<1>3. QED
  BY <1>1, <1>2

\* A call of flushItems starts with a batch that is not empty.
LEMMA StartJobOK ==
    ASSUME NEW b \in Batch, b # <<>>, JobOK, JobsCarry, NEW a \in Actors,
           job' = [job EXCEPT ![a] = StartJob(b)]
    PROVE  JobOK' /\ JobsCarry'
<1>1. StartJob(b) \in Job
  BY Bounds DEF StartJob, Job, Steps, LastAttempt
<1>2. JobOK'
  BY <1>1 DEF JobOK
<1>3. JobsCarry'
  BY DEF JobOK, JobsCarry, StartJob
<1>4. QED
  BY <1>2, <1>3

\* A call of flushItems is over.
LEMMA NoJobOK ==
    ASSUME JobOK, JobsCarry, NEW a \in Actors, job' = [job EXCEPT ![a] = NoJob]
    PROVE  JobOK' /\ JobsCarry'
<1>1. NoJob \in Job
  BY Bounds DEF NoJob, Job, Steps, LastAttempt, Batch
<1>2. JobOK'
  BY <1>1 DEF JobOK
<1>3. JobsCarry'
  BY DEF JobOK, JobsCarry, NoJob
<1>4. QED
  BY <1>2, <1>3

\* The smallest batches.
LEMMA EmptyBatch == <<>> \in Batch
BY DEF Batch

\* A batch of one record, as publishAndAdvance makes it.
LEMMA OneBatch == \A r \in Record : <<r>> \in Batch /\ <<r>> # <<>>
BY DEF Batch

\* The lines of a batch are lines of the file.
LEMMA LinesOfBatch == ASSUME NEW b \in Batch PROVE LinesOf(b) \subseteq Lines
<1> SUFFICES ASSUME NEW i \in DOMAIN b, NEW n \in b[i].first..b[i].last PROVE n \in Lines
  BY DEF LinesOf
<1>1. b[i] \in Record
  BY DEF Batch
<1>2. b[i].first \in 1..N /\ b[i].last \in 1..N
  BY <1>1 DEF Record, Lines
<1>3. QED
  BY <1>2, Bounds DEF Lines
-----------------------------------------------------------------------------
(* Steps of Run's goroutine that leave the rest alone.                     *)

\* Cases of the select of Run that only choose where to go.
LEMMA SelectMoves == Inv /\ (SelectDone \/ SelectClosed \/ SelectTick) => Inv'
<1> SUFFICES ASSUME Inv, SelectDone \/ SelectClosed \/ SelectTick PROVE Inv'
  OBVIOUS
<1> USE DEF Inv, TypeOK
<1>1. MainOK' /\ CurHeld' /\ (SyncFlushing' <=> SyncFlushing)
  BY DEF MainOK, CurHeld, SyncFlushing, SelectDone, SelectClosed, SelectTick,
         Shutdown, Await
<1>2. QED
  BY <1>1, MainStep DEF SelectDone, SelectClosed, SelectTick

\* Steps of enqueue that do not reach the buffer.
LEMMA EnqueueMoves ==
    Inv /\ (EnqueueHibernating \/ HibernateOver \/ HibernateCancelled \/ EnqueueSwap) => Inv'
<1>1. ASSUME Inv, EnqueueHibernating PROVE Inv'
  <2>1. MainOK' /\ CurHeld' /\ (SyncFlushing' <=> SyncFlushing)
    BY <1>1 DEF Inv, TypeOK, MainOK, CurHeld, SyncFlushing, EnqueueHibernating,
                Enqueueing, Goto
  <2>2. QED
    BY <1>1, <2>1, MainStep DEF EnqueueHibernating
<1>2. ASSUME Inv, HibernateOver PROVE Inv'
  <2>1. MainOK' /\ CurHeld' /\ (SyncFlushing' <=> SyncFlushing)
    BY <1>2 DEF Inv, TypeOK, MainOK, CurHeld, SyncFlushing, HibernateOver, Goto
  <2>2. QED
    BY <1>2, <2>1, MainStep DEF HibernateOver
<1>3. ASSUME Inv, HibernateCancelled PROVE Inv'
  <2>1. MainOK' /\ CurHeld' /\ (SyncFlushing' <=> SyncFlushing)
    BY <1>3, FailMain DEF Inv, TypeOK, SyncFlushing, HibernateCancelled
  <2>2. QED
    BY <1>3, <2>1, MainStep DEF HibernateCancelled
<1>4. ASSUME Inv, EnqueueSwap PROVE Inv'
  <2>1. MainOK' /\ CurHeld' /\ (SyncFlushing' <=> SyncFlushing)
    BY <1>4 DEF Inv, TypeOK, MainOK, CurHeld, SyncFlushing, EnqueueSwap, Enqueueing, Await
  <2>2. QED
    BY <1>4, <2>1, MainStep DEF EnqueueSwap
<1>5. QED
  BY <1>1, <1>2, <1>3, <1>4

\* waitForFlushLocked.
LEMMA WaitMoves ==
    Inv /\ (WaitStarts \/ WaitOver \/ WaitCancelled \/ WaitFailed \/ BigWaitOver) => Inv'
<1>1. ASSUME Inv, WaitStarts \/ WaitOver PROVE Inv'
  <2>1. MainOK' /\ CurHeld' /\ (SyncFlushing' <=> SyncFlushing)
    BY <1>1 DEF Inv, TypeOK, MainOK, CurHeld, SyncFlushing, WaitStarts, WaitOver, Goto
  <2>2. QED
    BY <1>1, <2>1, MainStep DEF WaitStarts, WaitOver
<1>2. ASSUME Inv, WaitCancelled \/ WaitFailed PROVE Inv'
  <2>1. MainOK' /\ CurHeld' /\ (SyncFlushing' <=> SyncFlushing)
    BY <1>2, FailMain DEF Inv, TypeOK, SyncFlushing, WaitCancelled, WaitFailed
  <2>2. QED
    BY <1>2, <2>1, MainStep DEF WaitCancelled, WaitFailed
<1>3. ASSUME Inv, BigWaitOver PROVE Inv'
  <2>1. MainOK' /\ CurHeld' /\ (SyncFlushing' <=> SyncFlushing)
    BY <1>3, ProcessedMain DEF Inv, TypeOK, SyncFlushing, BigWaitOver
  <2>2. QED
    BY <1>3, <2>1, MainStep DEF BigWaitOver
<1>4. QED
  BY <1>1, <1>2, <1>3

\* A rejected record, and the steps of the shutdown without a batch.
LEMMA StopMoves == Inv /\ (ProcessRejected \/ Stop \/ SyncFlushOver) => Inv'
<1>1. ASSUME Inv, ProcessRejected PROVE Inv'
  <2>1. MainOK' /\ CurHeld' /\ (SyncFlushing' <=> SyncFlushing)
    BY <1>1, FailMain DEF Inv, TypeOK, SyncFlushing, ProcessRejected
  <2>2. QED
    BY <1>1, <2>1, MainStep DEF ProcessRejected
<1>2. ASSUME Inv, Stop PROVE Inv'
  <2>1. MainOK' /\ CurHeld' /\ (SyncFlushing' <=> SyncFlushing)
    BY <1>2 DEF Inv, TypeOK, MainOK, CurHeld, SyncFlushing, Stop, Await, Return
  <2>2. QED
    BY <1>2, <2>1, MainStep DEF Stop
<1>3. ASSUME Inv, SyncFlushOver PROVE Inv'
  <2>1. MainOK' /\ CurHeld' /\ (SyncFlushing' <=> SyncFlushing)
    BY <1>3 DEF Inv, TypeOK, MainOK, CurHeld, SyncFlushing, SyncFlushOver, Goto, Return
  <2>2. QED
    BY <1>3, <2>1, MainStep DEF SyncFlushOver
<1>4. QED
  BY <1>1, <1>2, <1>3
-----------------------------------------------------------------------------
(* Steps of Run's goroutine through the parser and process.                *)

\* The parser and the record in hand: nothing is flushed meanwhile.
LEMMA ParserStep ==
    ASSUME Inv, UNCHANGED <<bufVars, hibVars, job, outVars, envVars>>,
           MainOK', CurHeld', InOK', ~SyncFlushing, ~SyncFlushing'
    PROVE  Inv'
<1>1. BufOK' /\ HibOK' /\ JobOK' /\ OutOK' /\ EnvOK'
  BY DEF Inv, TypeOK, BufOK, HibOK, JobOK, OutOK, EnvOK,
         bufVars, hibVars, outVars, envVars
<1>2. JobsCarry' /\ BufferBounded' /\ FlushExclusive'
  BY DEF Inv, JobsCarry, BufferBounded, FlushExclusive, bufVars
<1>3. QED
  BY <1>1, <1>2 DEF Inv, TypeOK

\* Feed emits a record or nothing, and keeps a record or nothing.
LEMMA FeedType ==
    ASSUME InOK, next <= N
    PROVE  /\ Feed(next).out \in Record \cup {NoRec}
           /\ Feed(next).buf \in Record \cup {NoRec}
<1>1. next \in Lines
  BY Bounds DEF InOK, Lines
<1>2. [first |-> next, last |-> next] \in Record
  BY <1>1 DEF Record
<1>3. pbuf # NoRec => [pbuf EXCEPT !.last = next] \in Record
  BY <1>1 DEF InOK, Record
<1>4. QED
  BY <1>2, <1>3 DEF Feed, InOK

\* Cases that feed or flush the parser.
LEMMA ParserMoves == Inv /\ (SelectIdle \/ SelectLine \/ ShutdownParser) => Inv'
<1>1. ASSUME Inv, SelectIdle PROVE Inv'
  <2>1. MainOK' /\ CurHeld' /\ InOK' /\ ~SyncFlushing /\ ~SyncFlushing'
    BY <1>1 DEF Inv, TypeOK, MainOK, InOK, CurHeld, SyncFlushing, SelectIdle, FlushParser
  <2>2. QED
    BY <1>1, <2>1, ParserStep DEF SelectIdle
<1>2. ASSUME Inv, SelectLine PROVE Inv'
  <2>1. next' \in 1..N + 1
    BY <1>2, Bounds DEF Inv, TypeOK, InOK, SelectLine
  <2>2. pbuf' \in Record \cup {NoRec} /\ cur' \in Record \cup {NoRec}
    BY <1>2, FeedType DEF Inv, TypeOK, SelectLine
  <2>3. MainOK' /\ CurHeld' /\ InOK' /\ ~SyncFlushing /\ ~SyncFlushing'
    BY <1>2, <2>1, <2>2 DEF Inv, TypeOK, MainOK, InOK, CurHeld, SyncFlushing, SelectLine
  <2>4. QED
    BY <1>2, <2>3, ParserStep DEF SelectLine
<1>3. ASSUME Inv, ShutdownParser PROVE Inv'
  <2>1. MainOK' /\ CurHeld' /\ InOK' /\ ~SyncFlushing /\ ~SyncFlushing'
    BY <1>3 DEF Inv, TypeOK, MainOK, InOK, CurHeld, SyncFlushing, ShutdownParser, FlushParser
  <2>2. QED
    BY <1>3, <2>1, ParserStep DEF ShutdownParser
<1>4. QED
  BY <1>1, <1>2, <1>3

\* A record in process is a record of the file.
LEMMA CurIsRecord == ASSUME MainOK, CurHeld, pc = "process"
                     PROVE  cur \in Record /\ cur.last \in 0..N
                            /\ cur.first..cur.last \subseteq Lines
<1>1. cur \in Record
  BY DEF MainOK, CurHeld
<1>2. QED
  BY <1>1, Bounds DEF Record, Lines

\* A record that is not published moves the watermark in Run's goroutine.
LEMMA DroppedMoves == Inv /\ (ProcessDropped \/ ProcessDroppedFails) => Inv'
<1> SUFFICES ASSUME Inv, ProcessDropped \/ ProcessDroppedFails PROVE Inv'
  OBVIOUS
<1>1. MainOK' /\ CurHeld' /\ ~SyncFlushing'
  BY FailMain, ProcessedMain DEF Inv, TypeOK, ProcessDropped, ProcessDroppedFails
<1>2. ~SyncFlushing
  BY DEF SyncFlushing, ProcessDropped, ProcessDroppedFails
<1>3. OutOK'
  BY CurIsRecord DEF Inv, TypeOK, OutOK, ProcessDropped, ProcessDroppedFails
<1>4. EnvOK'
  BY Bounds DEF Inv, TypeOK, EnvOK, ProcessDropped, ProcessDroppedFails, envVars
<1>5. UNCHANGED <<inVars, bufVars, hibVars, job>>
  BY DEF ProcessDropped, ProcessDroppedFails
<1>6. InOK' /\ BufOK' /\ HibOK' /\ JobOK'
  BY <1>5 DEF Inv, TypeOK, InOK, BufOK, HibOK, JobOK, inVars, bufVars, hibVars
<1>7. JobsCarry' /\ BufferBounded' /\ FlushExclusive'
  BY <1>1, <1>2, <1>5 DEF Inv, JobsCarry, BufferBounded, FlushExclusive, bufVars
<1>8. QED
  BY <1>1, <1>3, <1>4, <1>6, <1>7 DEF Inv, TypeOK

\* A step that leaves the parser, hibernation and the outside alone.
LEMMA BufferStep ==
    ASSUME Inv, UNCHANGED <<inVars, hibVars, outVars, envVars>>,
           MainOK', CurHeld', BufOK', BufferBounded', JobOK', JobsCarry', FlushExclusive'
    PROVE  Inv'
<1>1. InOK' /\ HibOK' /\ OutOK' /\ EnvOK'
  BY DEF Inv, TypeOK, InOK, HibOK, OutOK, EnvOK, inVars, hibVars, outVars, envVars
<1>2. QED
  BY <1>1 DEF Inv, TypeOK

\* Without batching a record starts a publish of its own.
LEMMA ProcessSyncInv == Inv /\ ProcessSync => Inv'
<1> SUFFICES ASSUME Inv, ProcessSync PROVE Inv'
  OBVIOUS
<1>1. cur \in Record
  BY CurIsRecord DEF Inv, TypeOK, ProcessSync
<1>2. <<cur>> \in Batch /\ <<cur>> # <<>>
  BY <1>1 DEF Batch
<1>3. JobOK' /\ JobsCarry'
  BY <1>2, StartJobOK DEF Inv, TypeOK, ProcessSync, Actors
<1>4. MainOK' /\ CurHeld'
  BY DEF Inv, TypeOK, MainOK, CurHeld, ProcessSync
<1>5. FlushExclusive'
  BY DEF Inv, TypeOK, JobOK, FlushExclusive, SyncFlushing, ProcessSync, bufVars, Actors
<1>6. BufOK' /\ BufferBounded'
  BY DEF Inv, TypeOK, BufOK, BufferBounded, ProcessSync, bufVars
<1>7. QED
  BY <1>3, <1>4, <1>5, <1>6, BufferStep DEF ProcessSync

\* A record is appended only where it fits.
LEMMA EnqueueAppendInv == Inv /\ EnqueueAppend => Inv'
<1> SUFFICES ASSUME Inv, EnqueueAppend PROVE Inv'
  OBVIOUS
<1>1. MainOK' /\ CurHeld' /\ ~SyncFlushing'
  BY ProcessedMain DEF Inv, TypeOK, EnqueueAppend
<1>2. cur \in Record /\ Size[cur.first] \in Nat \ {0}
  <2>1. cur \in Record
    BY CurIsRecord DEF Inv, TypeOK, EnqueueAppend, Enqueueing
  <2>2. QED
    BY <2>1, Bounds DEF Record
<1>3. BufOK'
  BY <1>2 DEF Inv, TypeOK, BufOK, EnqueueAppend, append, Batch
<1>4. BufferBounded'
  <2>1. active \in Seq(Record) /\ active' = Append(active, cur)
        /\ bytes \in Nat /\ bytes' = bytes + Size[cur.first]
    BY DEF Inv, TypeOK, BufOK, Batch, EnqueueAppend, append
  <2>2. bytes' # 0 /\ active' # <<>>
    BY <1>2, <2>1
  <2>3. MaxBytes > 0 => bytes' <= MaxBytes
    <3>1. Size[cur.first] <= MaxBytes \/ ~(MaxBytes > 0)
      BY <1>2, Bounds DEF EnqueueAppend, Oversized
    <3>2. bytes = 0 \/ bytes + Size[cur.first] <= MaxBytes \/ ~(MaxBytes > 0)
      BY <1>2, <2>1, Bounds DEF EnqueueAppend, Full
    <3>3. QED
      BY <1>2, <2>1, <3>1, <3>2
  <2>4. QED
    BY <2>2, <2>3 DEF BufferBounded
<1>5. JobOK' /\ JobsCarry'
  BY DEF Inv, TypeOK, JobOK, JobsCarry, EnqueueAppend
<1>6. FlushExclusive'
  BY <1>1 DEF Inv, FlushExclusive, SyncFlushing, EnqueueAppend, Enqueueing
<1>7. QED
  BY <1>1, <1>3, <1>4, <1>5, <1>6, BufferStep DEF EnqueueAppend
-----------------------------------------------------------------------------
(* Steps that hand a batch over or take the result of one.                 *)

\* StartFlush runs only when nothing is flushed, and keeps flushRunning exact.
LEMMA StartFlushJob ==
    ASSUME Inv, ~flushRunning, pc = "swap", pc' # "flushing", StartFlush
    PROVE  /\ JobOK' /\ JobsCarry' /\ FlushExclusive'
           /\ flushRunning' \in BOOLEAN /\ flushErr' \in BOOLEAN
<1>1. CASE active = <<>>
  BY <1>1 DEF Inv, TypeOK, BufOK, JobOK, JobsCarry, FlushExclusive, SyncFlushing, StartFlush
<1>2. CASE active # <<>>
  <2>1. drain("flush")
    BY <1>2 DEF StartFlush
  <2>2. JobOK' /\ JobsCarry'
    BY <1>2, <2>1, StartJobOK DEF Inv, TypeOK, BufOK, drain, Actors
  <2>3. job'["flush"].step = "publish"
    BY <2>1 DEF Inv, TypeOK, JobOK, drain, StartJob, Actors
  <2>4. FlushExclusive' /\ flushRunning' \in BOOLEAN /\ flushErr' \in BOOLEAN
    BY <2>1, <2>3 DEF FlushExclusive, SyncFlushing, drain
  <2>5. QED
    BY <2>2, <2>4
<1>3. QED
  BY <1>1, <1>2

\* The swap empties the buffer, or leaves the oversized record alone in it.
LEMMA SwapInv == Inv /\ Swap => Inv'
<1> SUFFICES ASSUME Inv, Swap PROVE Inv'
  OBVIOUS
<1>1. MainOK' /\ CurHeld' /\ pc' # "flushing"
  BY DEF Inv, TypeOK, MainOK, CurHeld, Swap, SwapTick, SwapRetry, SwapBig
<1>2. JobOK' /\ JobsCarry' /\ FlushExclusive' /\ flushRunning' \in BOOLEAN
      /\ flushErr' \in BOOLEAN
  BY <1>1, StartFlushJob DEF Swap
<1>3. (active' = <<>> /\ bytes' = 0) \/ (k = "big" /\ active' = <<cur>> /\ bytes' = Size[cur.first])
  BY DEF Swap, SwapTick, SwapRetry, SwapBig
<1>4. k = "big" => cur \in Record
  BY DEF Inv, TypeOK, MainOK, CurHeld
<1>5. k = "big" => Size[cur.first] \in Nat \ {0}
  BY <1>4, Bounds DEF Record
<1>6. BufOK'
  <2>1. active' \in Batch
    BY <1>3, <1>4, EmptyBatch, OneBatch
  <2>2. bytes' \in Nat
    BY <1>3, <1>5
  <2>3. QED
    BY <1>2, <2>1, <2>2 DEF BufOK
<1>7. BufferBounded'
  BY <1>3, <1>4, <1>5, Bounds DEF BufferBounded
<1>8. QED
  BY <1>1, <1>2, <1>6, <1>7, BufferStep DEF Swap

\* The flush of the shutdown starts only when no other runs.
LEMMA SyncFlushInv == Inv /\ SyncFlush => Inv'
<1> SUFFICES ASSUME Inv, SyncFlush PROVE Inv'
  OBVIOUS
<1>1. JobOK' /\ JobsCarry'
  BY StartJobOK DEF Inv, TypeOK, BufOK, SyncFlush, drain, Actors
<1>2. MainOK' /\ CurHeld'
  BY DEF Inv, TypeOK, MainOK, CurHeld, SyncFlush, Goto
<1>3. FlushExclusive'
  BY DEF Inv, TypeOK, JobOK, FlushExclusive, SyncFlushing, SyncFlush, drain, Goto, Actors
<1>4. BufOK' /\ BufferBounded'
  <2>1. active' = <<>> /\ bytes' = 0 /\ flushRunning' = TRUE /\ flushErr' = FALSE
    BY DEF SyncFlush, drain
  <2>2. BufOK'
    <3>1. bytes' \in Nat
      BY <2>1
    <3>2. QED
      BY <2>1, <3>1, EmptyBatch DEF BufOK
  <2>3. BufferBounded'
    BY <2>1, Bounds DEF BufferBounded
  <2>4. QED
    BY <2>2, <2>3
<1>5. QED
  BY <1>1, <1>2, <1>3, <1>4, BufferStep DEF SyncFlush

\* The hibernated batch is published outside the flusher.
LEMMA DrainHibernateInv == Inv /\ DrainHibernateBatch => Inv'
<1> SUFFICES ASSUME Inv, DrainHibernateBatch PROVE Inv'
  OBVIOUS
<1>1. JobOK' /\ JobsCarry'
  <2>1. CASE job' = job
    BY <2>1 DEF Inv, TypeOK, JobOK, JobsCarry
  <2>2. CASE job' # job
    BY <2>2, StartJobOK DEF Inv, TypeOK, HibOK, DrainHibernateBatch, Actors
  <2>3. QED
    BY <2>1, <2>2
<1>2. MainOK' /\ CurHeld' /\ ~SyncFlushing' /\ ~SyncFlushing
  BY DEF Inv, TypeOK, MainOK, CurHeld, SyncFlushing, DrainHibernateBatch, Return
<1>3. job'["flush"] = job["flush"]
  BY DEF Inv, TypeOK, JobOK, DrainHibernateBatch, Actors
<1>4. FlushExclusive'
  BY <1>2, <1>3 DEF Inv, FlushExclusive, DrainHibernateBatch, bufVars
<1>5. BufOK' /\ BufferBounded'
  BY DEF Inv, TypeOK, BufOK, BufferBounded, DrainHibernateBatch, bufVars
<1>6. QED
  BY <1>1, <1>2, <1>4, <1>5, BufferStep DEF DrainHibernateBatch

\* Run's goroutine takes the result of its own publish.
LEMMA FlushingDoneInv == Inv /\ FlushingDone => Inv'
<1> SUFFICES ASSUME Inv, FlushingDone PROVE Inv'
  OBVIOUS
<1>1. JobOK' /\ JobsCarry'
  BY NoJobOK DEF Inv, TypeOK, FlushingDone, Actors
<1>2. job["main"].err \in BOOLEAN
  BY DEF Inv, TypeOK, JobOK, Job, Actors
<1>3. job'["flush"] = job["flush"]
  BY DEF Inv, TypeOK, JobOK, FlushingDone, Actors
<1>4. UNCHANGED <<active, bytes>>
  BY DEF FlushingDone, bufVars
<1>5. CASE k = "single"
  <2>1. (Fail \/ Processed) /\ UNCHANGED bufVars
    BY <1>5 DEF FlushingDone
  <2>2. MainOK' /\ CurHeld' /\ ~SyncFlushing'
    BY <2>1, FailMain, ProcessedMain DEF Inv, TypeOK
  <2>3. FlushExclusive' /\ BufOK' /\ BufferBounded'
    BY <1>3, <1>5, <2>1, <2>2 DEF Inv, TypeOK, BufOK, BufferBounded, FlushExclusive,
       SyncFlushing, bufVars
  <2>4. QED
    BY <1>1, <2>2, <2>3, BufferStep DEF FlushingDone
<1>6. CASE k = "sync"
  <2>1. flushRunning' = FALSE /\ flushErr' = job["main"].err
        /\ (Return(TRUE) \/ Goto("swap"))
    BY <1>6 DEF FlushingDone
  <2>2. MainOK' /\ CurHeld' /\ ~SyncFlushing'
    BY <1>6, <2>1 DEF Inv, TypeOK, MainOK, CurHeld, SyncFlushing, Return, Goto
  <2>3. job["flush"].step = "none"
    BY <1>6 DEF Inv, FlushExclusive, SyncFlushing, FlushingDone
  <2>4. FlushExclusive'
    BY <1>3, <2>1, <2>2, <2>3 DEF FlushExclusive
  <2>5. BufOK' /\ BufferBounded'
    BY <1>2, <1>4, <2>1 DEF Inv, TypeOK, BufOK, BufferBounded
  <2>6. QED
    BY <1>1, <2>2, <2>4, <2>5, BufferStep DEF FlushingDone
<1>7. CASE k = "drain"
  <2>1. Return(job["main"].err) /\ UNCHANGED bufVars
    BY <1>7 DEF FlushingDone
  <2>2. MainOK' /\ CurHeld' /\ ~SyncFlushing'
    BY <1>2, <2>1, ReturnMain DEF Inv, TypeOK
  <2>3. FlushExclusive' /\ BufOK' /\ BufferBounded'
    BY <1>3, <1>7, <2>1, <2>2 DEF Inv, TypeOK, BufOK, BufferBounded, FlushExclusive,
       SyncFlushing, bufVars
  <2>4. QED
    BY <1>1, <2>2, <2>3, BufferStep DEF FlushingDone
<1>8. QED
  BY <1>5, <1>6, <1>7 DEF FlushingDone

\* runFlush is done: the flush in progress was this one and no other.
LEMMA FlushDoneInv == Inv /\ FlushDone => Inv'
<1> SUFFICES ASSUME Inv, FlushDone PROVE Inv'
  OBVIOUS
<1>1. JobOK' /\ JobsCarry'
  BY NoJobOK DEF Inv, TypeOK, FlushDone, Actors
<1>2. job["flush"].err \in BOOLEAN
  BY DEF Inv, TypeOK, JobOK, Job, Actors
<1>3. MainOK' /\ CurHeld'
  BY DEF Inv, TypeOK, MainOK, CurHeld, FlushDone, mainVars
<1>4. BufOK' /\ BufferBounded'
  BY <1>2 DEF Inv, TypeOK, BufOK, BufferBounded, FlushDone
<1>5. job'["flush"].step = "none"
  BY DEF Inv, TypeOK, JobOK, FlushDone, NoJob, Actors
<1>6. FlushExclusive'
  BY <1>5 DEF Inv, FlushExclusive, SyncFlushing, FlushDone, At, mainVars
<1>7. QED
  BY <1>1, <1>3, <1>4, <1>6, BufferStep DEF FlushDone
-----------------------------------------------------------------------------
(* The steps of flushItems, in any of the goroutines.                      *)

\* A call of flushItems that is somewhere is not nowhere.
LEMMA AtSome == \A a \in Actors, l \in Steps : At(a, l) => job[a].step # "none"
BY DEF At, Steps

\* The batch of a call of flushItems covers lines of the file only.
LEMMA JobBatch ==
    ASSUME Inv, NEW a \in Actors
    PROVE  /\ job[a].batch \in Batch
           /\ LinesOf(job[a].batch) \subseteq Lines
           /\ \A i \in DOMAIN job[a].batch : job[a].batch[i].last \in 0..N
<1>1. job[a].batch \in Batch
  BY DEF Inv, TypeOK, JobOK, Job
<1>2. ASSUME NEW i \in DOMAIN job[a].batch PROVE job[a].batch[i].last \in 0..N
  <2>1. job[a].batch[i] \in Record
    BY <1>1, <1>2 DEF Batch
  <2>2. QED
    BY <2>1, Bounds DEF Record, Lines
<1>3. QED
  BY <1>1, <1>2, LinesOfBatch

\* The delivery may stop anywhere in the batch.
LEMMA PrefixLines ==
    ASSUME NEW b \in Batch, NEW n \in 0..Len(b)
    PROVE  LinesOf(SubSeq(b, 1, n)) \subseteq Lines
<1>1. SubSeq(b, 1, n) \in Batch
  BY DEF Batch
<1>2. QED
  BY <1>1, LinesOfBatch

\* An attempt to publish, and what follows it.
LEMMA PublishInv ==
    ASSUME Inv, NEW a \in Actors, PublishOk(a) \/ PublishFails(a)
    PROVE  Inv'
<1>1. job[a].step = "publish"
  BY DEF PublishOk, PublishFails, At
<1>2. HibOK'
  BY DEF Inv, TypeOK, HibOK, PublishOk, PublishFails, hibVars
<1>3. EnvOK'
  BY Bounds DEF Inv, TypeOK, EnvOK, PublishOk, PublishFails, envVars
<1>4. delivered' \subseteq Lines
  BY JobBatch, PrefixLines DEF Inv, TypeOK, OutOK, PublishOk, PublishFails
<1>5. OutOK'
  BY <1>4 DEF Inv, TypeOK, OutOK, PublishOk, PublishFails
<1>6. CASE To(a, "advance") \/ To(a, "failed")
  <2>1. "advance" \in Steps \ {"backoff"} /\ "failed" \in Steps \ {"backoff"}
    BY DEF Steps
  <2>2. JobOK' /\ JobsCarry' /\ \A c \in Actors : job'[c].step = "none" <=> job[c].step = "none"
    BY <1>1, <1>6, <2>1, ToJob DEF Inv, TypeOK
  <2>3. QED
    BY <1>2, <1>3, <1>5, <2>2, JobStep DEF PublishOk, PublishFails
<1>7. CASE To(a, "backoff") /\ ~(MaxAttempts > 0 /\ job[a].attempt >= MaxAttempts)
  <2>1. JobOK'
    BY <1>7 DEF Inv, TypeOK, JobOK, Job, To, Steps
  <2>2. MaxAttempts = 0 \/ job[a].attempt < MaxAttempts
    <3>1. job[a].attempt \in 0..LastAttempt /\ LastAttempt \in Nat
      BY Bounds DEF Inv, TypeOK, JobOK, Job, LastAttempt
    <3>2. QED
      BY <1>7, <3>1, Bounds
  <2>3. JobsCarry' /\ \A c \in Actors : job'[c].step = "none" <=> job[c].step = "none"
    BY <1>1, <1>7, <2>2 DEF Inv, TypeOK, JobOK, Job, To, Steps, JobsCarry
  <2>4. QED
    BY <1>2, <1>3, <1>5, <2>1, <2>3, JobStep DEF PublishOk, PublishFails
<1>8. QED
  BY <1>6, <1>7 DEF PublishOk, PublishFails

\* A retry is never beyond the last attempt, because only an attempt before
\* the last backs off.
LEMMA BackoffOverInv ==
    ASSUME Inv, NEW a \in Actors, BackoffOver(a)
    PROVE  Inv'
<1>1. job[a].step = "backoff" /\ job[a] \in Job
  BY DEF Inv, TypeOK, JobOK, BackoffOver, At
<1>2. HibOK' /\ EnvOK' /\ OutOK'
  BY DEF Inv, TypeOK, HibOK, EnvOK, OutOK, BackoffOver, hibVars, envVars, outVars
<1>3. job[a].attempt >= 1 /\ (MaxAttempts = 0 \/ job[a].attempt < MaxAttempts)
      /\ job[a].batch # <<>>
  BY <1>1 DEF Inv, JobsCarry
<1> DEFINE t == IF MaxAttempts = 0 THEN job[a].attempt ELSE job[a].attempt + 1
<1>4. t \in 0..LastAttempt /\ t >= 1
  BY <1>1, <1>3, Bounds DEF Job, LastAttempt
<1>5. /\ job'[a].step = "publish" /\ job'[a].attempt = t /\ job'[a].batch = job[a].batch
      /\ job'[a].err = job[a].err
      /\ job'[a] = [job[a] EXCEPT !.step = "publish", !.attempt = t]
      /\ \A c \in Actors \ {a} : job'[c] = job[c]
      /\ DOMAIN job' = Actors
      /\ job' = [c \in Actors |-> job'[c]]
  BY <1>1 DEF Inv, TypeOK, JobOK, Job, BackoffOver
<1> HIDE DEF t
<1>6. job'[a] \in Job
  BY <1>1, <1>4, <1>5 DEF Job, Steps
<1>7. JobOK'
  BY <1>5, <1>6 DEF Inv, TypeOK, JobOK
<1>8. JobsCarry' /\ \A c \in Actors : job'[c].step = "none" <=> job[c].step = "none"
  <2>1. ASSUME NEW c \in Actors
        PROVE  /\ job'[c].step = "none" <=> job[c].step = "none"
               /\ job'[c].step # "none" =>
                      /\ job'[c].batch # <<>>
                      /\ job'[c].attempt >= 1
                      /\ job'[c].step = "backoff" =>
                             MaxAttempts = 0 \/ job'[c].attempt < MaxAttempts
    <3>1. CASE c = a
      BY <1>1, <1>3, <1>4, <1>5, <3>1
    <3>2. CASE c # a
      BY <1>5, <3>2 DEF Inv, JobsCarry
    <3>3. QED
      BY <3>1, <3>2
  <2>2. QED
    BY <2>1 DEF JobsCarry
<1>9. QED
  BY <1>2, <1>7, <1>8, JobStep DEF BackoffOver

\* advanceWatermarks, as a whole or up to the update that fails.
LEMMA AdvanceInv ==
    ASSUME Inv, NEW a \in Actors, job[a].step # "none",
           AdvanceFails(a) \/ \E l \in {"published", "counted"} : Advance(a, l)
    PROVE  Inv'
<1>1. HibOK'
  BY DEF Inv, TypeOK, HibOK, Advance, AdvanceFails, hibVars
<1>2. EnvOK'
  <2>1. storeFaults' \in 0..StoreFaults
    <3>1. \/ storeFaults' = storeFaults
          \/ storeFaults < StoreFaults /\ storeFaults' = storeFaults + 1
      BY DEF Advance, AdvanceFails, envVars
    <3>2. storeFaults \in 0..StoreFaults
      BY DEF Inv, TypeOK, EnvOK
    <3>3. QED
      BY <3>1, <3>2, Bounds
  <2>2. UNCHANGED <<cancelled, scrape, sinkFaults, dlqFaults>>
    BY DEF Advance, AdvanceFails, envVars
  <2>3. QED
    BY <2>1, <2>2 DEF Inv, TypeOK, EnvOK
<1>3. Len(job[a].batch) \in DOMAIN job[a].batch
  <2>1. job[a].batch \in Seq(Record) /\ job[a].batch # <<>>
    BY JobBatch DEF Batch, Inv, JobsCarry
  <2>2. QED
    BY <2>1
<1>4. wm' \in 0..N
  BY <1>3, JobBatch DEF Advance, AdvanceFails
<1>5. OutOK'
  BY <1>4 DEF Inv, TypeOK, OutOK, Advance, AdvanceFails
<1>6. JobOK' /\ JobsCarry' /\ \A c \in Actors : job'[c].step = "none" <=> job[c].step = "none"
  <2>1. {"published", "counted"} \subseteq Steps \ {"backoff"} /\ TRUE \in BOOLEAN
    BY DEF Steps
  <2>2. QED
    BY <2>1, ToJob, DoneJob DEF Inv, TypeOK, Advance, AdvanceFails
<1>7. QED
  BY <1>1, <1>2, <1>5, <1>6, JobStep DEF Advance, AdvanceFails

\* The branches of a batch that cannot be published.
LEMMA FailedInv ==
    ASSUME Inv, NEW a \in Actors,
           BackoffCancelled(a) \/ FailedSync(a) \/ FailedDeadLetter(a) \/ FailedDeadLetterFails(a)
    PROVE  Inv'
<1>1. job[a].step # "none"
  BY DEF At, BackoffCancelled, FailedSync, FailedDeadLetter, FailedDeadLetterFails
<1>2. HibOK'
  BY DEF Inv, TypeOK, HibOK, hibVars, BackoffCancelled, FailedSync, FailedDeadLetter,
         FailedDeadLetterFails
<1>3. EnvOK'
  <2>1. dlqFaults' \in 0..DLQFaults
    <3>1. dlqFaults' = dlqFaults \/ (dlqFaults < DLQFaults /\ dlqFaults' = dlqFaults + 1)
      BY DEF envVars, BackoffCancelled, FailedSync, FailedDeadLetter, FailedDeadLetterFails
    <3>2. dlqFaults \in 0..DLQFaults
      BY DEF Inv, TypeOK, EnvOK
    <3>3. QED
      BY <3>1, <3>2, Bounds
  <2>2. UNCHANGED <<cancelled, scrape, sinkFaults, storeFaults>>
    BY DEF envVars, BackoffCancelled, FailedSync, FailedDeadLetter, FailedDeadLetterFails
  <2>3. QED
    BY <2>1, <2>2 DEF Inv, TypeOK, EnvOK
<1>4. OutOK'
  BY JobBatch DEF Inv, TypeOK, OutOK, outVars, BackoffCancelled, FailedSync,
         FailedDeadLetter, FailedDeadLetterFails
<1>5. JobOK' /\ JobsCarry' /\ \A c \in Actors : job'[c].step = "none" <=> job[c].step = "none"
  <2>1. {"failed", "spilled"} \subseteq Steps \ {"backoff"} /\ TRUE \in BOOLEAN
    BY DEF Steps
  <2>2. QED
    BY <1>1, <2>1, ToJob, DoneJob DEF Inv, TypeOK, BackoffCancelled, FailedSync,
       FailedDeadLetter, FailedDeadLetterFails
<1>6. QED
  BY <1>2, <1>3, <1>4, <1>5, JobStep DEF BackoffCancelled, FailedSync, FailedDeadLetter,
     FailedDeadLetterFails

\* The branches that enter or leave hibernation.
LEMMA HibernateInv ==
    ASSUME Inv, NEW a \in Actors, exitHibernate(a) \/ FailedHibernates(a) \/ CountSpilled(a)
    PROVE  Inv'
<1>1. job[a].step # "none"
  BY DEF At, exitHibernate, FailedHibernates, CountSpilled
<1>2. HibOK'
  <2>1. HibOK /\ job[a].batch \in Batch
    BY JobBatch DEF Inv, TypeOK
  <2>2. CASE exitHibernate(a)
    <3>1. consecutiveDLQ' \in Nat
      BY <2>1, <2>2 DEF HibOK, hibVars, exitHibernate
    <3>2. hibernating' \in BOOLEAN /\ hibernateBatch' \in Batch /\ wake' = wake
      BY <2>1, <2>2, EmptyBatch DEF HibOK, hibVars, exitHibernate
    <3>3. QED
      BY <2>1, <3>1, <3>2 DEF HibOK
  <2>3. CASE FailedHibernates(a)
    BY <2>1, <2>3 DEF HibOK, FailedHibernates, enterHibernate
  <2>4. CASE CountSpilled(a)
    <3>1. consecutiveDLQ' \in Nat
      BY <2>1, <2>4 DEF HibOK, CountSpilled
    <3>2. hibernating' \in BOOLEAN /\ hibernateBatch' \in Batch
          /\ wake' \in {"off", "sleep", "flush", "leaving"}
      BY <2>1, <2>4 DEF HibOK, CountSpilled, enterHibernate
    <3>3. QED
      BY <3>1, <3>2 DEF HibOK
  <2>5. QED
    BY <2>2, <2>3, <2>4
<1>3. EnvOK' /\ OutOK'
  BY DEF Inv, TypeOK, EnvOK, envVars, OutOK, outVars, exitHibernate, FailedHibernates,
     CountSpilled
<1>4. JobOK' /\ JobsCarry' /\ \A c \in Actors : job'[c].step = "none" <=> job[c].step = "none"
  <2>1. Done(a, FALSE)
    BY DEF exitHibernate, FailedHibernates, CountSpilled
  <2>2. QED
    BY <1>1, <2>1, DoneJob DEF Inv, TypeOK
<1>5. QED
  BY <1>2, <1>3, <1>4, JobStep DEF exitHibernate, FailedHibernates, CountSpilled

\* Every step of flushItems keeps the invariant, in whichever goroutine.
LEMMA FlushItemsInv == ASSUME Inv, NEW a \in Actors, flushItems(a) PROVE Inv'
<1>1. CASE PublishOk(a) \/ PublishFails(a)
  BY <1>1, PublishInv
<1>2. CASE BackoffOver(a)
  BY <1>2, BackoffOverInv
<1>3. CASE AdvancePublished(a) \/ AdvancePublishedFails(a) \/ AdvanceSpilled(a)
           \/ AdvanceSpilledFails(a)
  <2>1. job[a].step # "none"
    BY <1>3 DEF AdvancePublished, AdvancePublishedFails, AdvanceSpilled,
       AdvanceSpilledFails, At
  <2>2. QED
    BY <1>3, <2>1, AdvanceInv DEF AdvancePublished, AdvancePublishedFails, AdvanceSpilled,
       AdvanceSpilledFails
<1>4. CASE BackoffCancelled(a) \/ FailedSync(a) \/ FailedDeadLetter(a)
           \/ FailedDeadLetterFails(a)
  BY <1>4, FailedInv
<1>5. CASE exitHibernate(a) \/ FailedHibernates(a) \/ CountSpilled(a)
  BY <1>5, HibernateInv
<1>6. QED
  BY <1>1, <1>2, <1>3, <1>4, <1>5 DEF flushItems
-----------------------------------------------------------------------------
(* The wake loop and the outside.                                          *)

\* A step that leaves Run's goroutine and the buffer alone.
LEMMA WakeStep ==
    ASSUME Inv, UNCHANGED <<mainVars, inVars, bufVars, outVars, envVars>>,
           HibOK', JobOK', JobsCarry', job'["flush"] = job["flush"]
    PROVE  Inv'
<1>1. MainOK' /\ CurHeld' /\ InOK' /\ BufOK' /\ BufferBounded'
  BY DEF Inv, TypeOK, MainOK, CurHeld, InOK, BufOK, BufferBounded, mainVars, inVars, bufVars
<1>2. OutOK' /\ EnvOK'
  BY DEF Inv, TypeOK, OutOK, EnvOK, outVars, envVars
<1>3. FlushExclusive'
  BY DEF Inv, FlushExclusive, SyncFlushing, mainVars, bufVars
<1>4. QED
  BY <1>1, <1>2, <1>3 DEF Inv, TypeOK

\* The wake loop publishes a hibernated batch, and never an empty one.
LEMMA WakeInv == Inv /\ WakeLoop => Inv'
<1> SUFFICES ASSUME Inv, WakeLoop PROVE Inv'
  OBVIOUS
<1>1. HibOK'
  BY DEF Inv, TypeOK, HibOK, WakeLoop, WakeTick, WakeCancelled, WakeDone, WakeLeaves
<1>2. UNCHANGED <<mainVars, inVars, bufVars, outVars, envVars>>
  BY DEF WakeLoop, WakeTick, WakeCancelled, WakeDone, WakeLeaves
<1>3. CASE job' = job
  <2>1. JobOK' /\ JobsCarry'
    BY <1>3 DEF Inv, TypeOK, JobOK, JobsCarry
  <2>2. QED
    BY <1>1, <1>2, <1>3, <2>1, WakeStep
<1>4. CASE hibernateBatch # <<>> /\ job' = [job EXCEPT !["wake"] = StartJob(hibernateBatch)]
  <2>1. JobOK' /\ JobsCarry'
    BY <1>4, StartJobOK DEF Inv, TypeOK, HibOK, Actors
  <2>2. job'["flush"] = job["flush"]
    BY <1>4 DEF Inv, TypeOK, JobOK, Actors
  <2>3. QED
    BY <1>1, <1>2, <2>1, <2>2, WakeStep
<1>5. CASE job' = [job EXCEPT !["wake"] = NoJob]
  <2>1. JobOK' /\ JobsCarry'
    BY <1>5, NoJobOK DEF Inv, TypeOK, Actors
  <2>2. job'["flush"] = job["flush"]
    BY <1>5 DEF Inv, TypeOK, JobOK, Actors
  <2>3. QED
    BY <1>1, <1>2, <2>1, <2>2, WakeStep
<1>6. QED
  BY <1>3, <1>4, <1>5 DEF WakeLoop, WakeTick, WakeCancelled, WakeDone, WakeLeaves

\* The cancel and the scrapes.
LEMMA OutsideInv == Inv /\ (Cancel \/ Scrape \/ activeBytes) => Inv'
<1> SUFFICES ASSUME Inv, Cancel \/ Scrape \/ activeBytes PROVE Inv'
  OBVIOUS
<1>1. UNCHANGED <<mainVars, inVars, bufVars, hibVars, job, outVars>>
  BY DEF Cancel, Scrape, activeBytes
<1>2. EnvOK'
  BY DEF Inv, TypeOK, EnvOK, Cancel, Scrape, activeBytes
<1>3. JobOK' /\ JobsCarry' /\ HibOK' /\ OutOK'
  BY <1>1 DEF Inv, TypeOK, JobOK, JobsCarry, HibOK, OutOK, hibVars, outVars
<1>4. QED
  BY <1>1, <1>2, <1>3, JobStep
-----------------------------------------------------------------------------
\* The invariant holds when Run starts.
LEMMA InitInv == Init => Inv
<1> SUFFICES ASSUME Init PROVE Inv
  OBVIOUS
<1>1. MainOK /\ CurHeld
  BY DEF Init, MainOK, CurHeld
<1>2. InOK
  BY Bounds DEF Init, InOK
<1>3. HibOK
  <2>1. consecutiveDLQ \in Nat
    BY DEF Init
  <2>2. QED
    BY <2>1, EmptyBatch DEF Init, HibOK
<1>4. BufOK
  <2>1. bytes \in Nat
    BY DEF Init
  <2>2. QED
    BY <2>1, EmptyBatch DEF Init, BufOK
<1>5. NoJob \in Job
  BY Bounds, EmptyBatch DEF NoJob, Job, LastAttempt
<1>6. JobOK
  BY <1>5 DEF Init, JobOK
<1>7. \A a \in Actors : job[a].step = "none"
  BY DEF Init, NoJob
<1>8. JobsCarry
  BY <1>7 DEF JobsCarry
<1>9. FlushExclusive
  BY <1>7 DEF Init, FlushExclusive, SyncFlushing, Actors
<1>10. BufferBounded
  BY Bounds DEF Init, BufferBounded
<1>11. OutOK
  BY Bounds DEF Init, OutOK
<1>12. EnvOK
  <2>1. sinkFaults \in 0..SinkFaults /\ dlqFaults \in 0..DLQFaults
        /\ storeFaults \in 0..StoreFaults
    BY Bounds DEF Init
  <2>2. QED
    BY <2>1 DEF Init, EnvOK
<1>13. QED
  BY <1>1, <1>2, <1>3, <1>4, <1>6, <1>8, <1>9, <1>10, <1>11, <1>12 DEF Inv, TypeOK

\* A stuttering step keeps it.
LEMMA StutterInv == Inv /\ UNCHANGED vars => Inv'
<1> SUFFICES ASSUME Inv, UNCHANGED vars PROVE Inv'
  OBVIOUS
<1>1. UNCHANGED <<mainVars, inVars, bufVars, hibVars, job, outVars, envVars>>
  BY DEF vars
<1>2. MainOK' /\ CurHeld' /\ (SyncFlushing' <=> SyncFlushing)
  BY <1>1 DEF Inv, TypeOK, MainOK, CurHeld, SyncFlushing, mainVars
<1>3. QED
  BY <1>1, <1>2, MainStep

\* Every step keeps it.
LEMMA InvInductive == Inv /\ [Next]_vars => Inv'
<1> SUFFICES ASSUME Inv, [Next]_vars PROVE Inv'
  OBVIOUS
<1>1. CASE Select \/ SelectClosed
  BY <1>1, SelectMoves, ParserMoves DEF Select
<1>2. CASE Process
  BY <1>2, DroppedMoves, StopMoves, ProcessSyncInv DEF Process
<1>3. CASE Enqueue
  BY <1>3, EnqueueMoves, EnqueueAppendInv DEF Enqueue
<1>4. CASE Flusher
  BY <1>4, WaitMoves, SwapInv DEF Flusher
<1>5. CASE Shutting
  BY <1>5, ParserMoves, StopMoves, SyncFlushInv, DrainHibernateInv, FlushingDoneInv DEF Shutting
<1>6. CASE FlushDone
  BY <1>6, FlushDoneInv
<1>7. CASE WakeLoop
  BY <1>7, WakeInv
<1>8. CASE \E a \in Actors : flushItems(a)
  BY <1>8, FlushItemsInv
<1>9. CASE Cancel \/ Scrape \/ activeBytes
  BY <1>9, OutsideInv
<1>10. CASE UNCHANGED vars
  BY <1>10, StutterInv
<1>11. QED
  BY <1>1, <1>2, <1>3, <1>4, <1>5, <1>6, <1>7, <1>8, <1>9, <1>10 DEF Next, Main

\* Inv holds in every state of the pipeline, whatever its configuration.
THEOREM PipelineInv == Spec => []Inv
BY InitInv, InvInductive, PTL DEF Spec

\* Every variable keeps its type; in particular no batch is attempted more
\* often than publish_retry allows.
THEOREM PipelineTypeCorrect == Spec => []TypeOK
BY PipelineInv, PTL DEF Inv

\* At most one goroutine publishes a batch taken from the buffer, and
\* f.flushRunning says whether one does.
THEOREM PipelineFlushExclusive == Spec => []FlushExclusive
BY PipelineInv, PTL DEF Inv

\* The buffer never holds more than max_bytes, unless one oversized record has
\* it to itself.
THEOREM PipelineBufferBounded == Spec => []BufferBounded
BY PipelineInv, PTL DEF Inv
=============================================================================
