------------------------------ MODULE Pipeline ------------------------------
(***************************************************************************)
(* internal/pipeline for one tailed file: the Run loop, the multiline      *)
(* parser, process, the publish buffer and its flusher, retries, hibernate *)
(* mode and dead letters.                                                  *)
(*                                                                         *)
(* Three goroutines run flushItems: "main" (Run itself: per record when    *)
(* batching is off, and at shutdown), "flush" (runFlush, started by a size *)
(* or timer trigger) and "wake" (runHibernateWakeLoop).  A step is what    *)
(* runs between two points where another goroutine can interfere: a        *)
(* release of f.mu or hibernateMu, a blocking select, a call of the sink,  *)
(* of the dead letter writer or of the watermark store.                    *)
(*                                                                         *)
(* Line n of the file ends at offset n, so a watermark is the number of    *)
(* the last line it covers.  A record is the range of lines it is made of. *)
(***************************************************************************)
EXTENDS Integers, Sequences

CONSTANTS
    N,               \* lines 1..N arrive from the watcher
    Multiline,       \* parser.type is multiline
    Starts,          \* the lines that match parser.start_pattern
    IdleFlush,       \* parser.flush_interval > 0
    Dropped,         \* records (by first line) filtered out or transform-skipped
    Unmarshalable,   \* records (by first line) marshalPublishPayload rejects
    Size,            \* payload bytes of the record that begins at a line
    BatchEnabled,    \* PublishBatchConfig.Enabled
    MaxBytes,        \* publish_batch.max_bytes, 0: no size trigger
    FlushTimer,      \* publish_batch.flush_interval > 0
    OnFlushFailure,  \* "hibernate" or "dead_letter"
    MaxAttempts,     \* attempts per batch, 0: retry until shutdown
    WakeEnabled,     \* hibernate.wake_enabled
    MaxConsecutive,  \* dead_letter.max_consecutive_batches
    SinkHonoursCtx,  \* the sink fails once its context is cancelled
    CanStop,         \* "cancel": SIGTERM or the watcher's error cancels runCtx;
                     \* "close": the lines channel closes; "never"
    Scraped,         \* the metrics endpoint is scraped
    SinkFaults,      \* bound: publish attempts the sink may fail
    DLQFaults,       \* bound: dead letter writes that may fail
    StoreFaults      \* bound: watermark updates whose persist may fail

Lines == 1..N
Actors == {"main", "flush", "wake"}
Record == [first : Lines, last : Lines]
NoRec == [first |-> 0, last |-> 0]

ASSUME PipelineAssumption ==
    /\ N \in Nat
    /\ Starts \subseteq Lines /\ Dropped \subseteq Lines /\ Unmarshalable \subseteq Lines
    /\ Size \in [Lines -> Nat \ {0}]
    /\ {Multiline, IdleFlush, BatchEnabled, FlushTimer, WakeEnabled,
        SinkHonoursCtx, Scraped} \subseteq BOOLEAN
    /\ {MaxBytes, MaxAttempts, SinkFaults, DLQFaults, StoreFaults} \subseteq Nat
    /\ MaxConsecutive \in Nat \ {0}
    /\ OnFlushFailure \in {"hibernate", "dead_letter"}
    /\ CanStop \in {"cancel", "close", "never"}
    /\ BatchEnabled <=> MaxBytes > 0 \/ FlushTimer

VARIABLES
    \* the goroutine of Run
    pc,              \* where it is
    k,               \* what it does after waitForFlushLocked or flushItems
    cur,             \* the record in process, NoRec if none
    stopping,        \* it is in shutdown
    err,             \* an error will be returned
    next,            \* the next line of the channel
    pbuf,            \* multilineParser.buffers: the open record, NoRec if none
    \* publishFlusher, guarded by f.mu
    active, bytes, flushRunning, flushErr,
    \* Pipeline, guarded by hibernateMu and dlqMu
    hibernating, hibernateBatch, wake, consecutiveDLQ,
    job,             \* the flushItems call each goroutine is in
    wm,              \* the watermark of the file in memory
    delivered, dlq,  \* lines the sink, the dead letter directory hold
    discarded,       \* lines of records that are not to be published
    \* the outside
    cancelled, scrape, sinkFaults, dlqFaults, storeFaults

mainVars == <<pc, k, cur, stopping, err>>
inVars == <<next, pbuf>>
bufVars == <<active, bytes, flushRunning, flushErr>>
hibVars == <<hibernating, hibernateBatch, wake, consecutiveDLQ>>
outVars == <<wm, delivered, dlq, discarded>>
envVars == <<cancelled, scrape, sinkFaults, dlqFaults, storeFaults>>
vars == <<mainVars, inVars, bufVars, hibVars, job, outVars, envVars>>

NoJob == [step |-> "none", batch |-> <<>>, attempt |-> 0, err |-> FALSE]
StartJob(b) == [step |-> "publish", batch |-> b, attempt |-> 1, err |-> FALSE]

Init ==
    /\ pc = "select" /\ k = "none" /\ cur = NoRec
    /\ stopping = FALSE /\ err = FALSE
    /\ next = 1 /\ pbuf = NoRec
    /\ active = <<>> /\ bytes = 0 /\ flushRunning = FALSE /\ flushErr = FALSE
    /\ hibernating = FALSE /\ hibernateBatch = <<>> /\ wake = "off"
    /\ consecutiveDLQ = 0
    /\ job = [a \in Actors |-> NoJob]
    /\ wm = 0 /\ delivered = {} /\ dlq = {} /\ discarded = {}
    /\ cancelled = FALSE /\ scrape = FALSE
    /\ sinkFaults = 0 /\ dlqFaults = 0 /\ storeFaults = 0

LinesOf(b) == UNION {r.first..r.last : r \in {b[i] : i \in DOMAIN b}}
-----------------------------------------------------------------------------
(* How the goroutine of Run moves on.                                      *)

\* An error ends Run through exitErr and shutdown, an error in shutdown at once.
Fail == /\ pc' = IF stopping THEN "returned" ELSE "shutdown"
        /\ stopping' = TRUE
        /\ err' = TRUE
        /\ k' = "none"
        /\ cur' = NoRec

\* process returned nil.
Processed == /\ pc' = IF stopping THEN "stop" ELSE "select"
             /\ k' = "none"
             /\ cur' = NoRec
             /\ UNCHANGED <<stopping, err>>

Goto(l) == pc' = l /\ UNCHANGED <<k, cur, stopping, err>>

\* Enter waitForFlushLocked, and then do what.
Await(what) == pc' = "swap" /\ k' = what /\ UNCHANGED <<cur, stopping, err>>

Shutdown == pc' = "shutdown" /\ stopping' = TRUE /\ UNCHANGED <<k, cur, err>>

Return(e) == /\ pc' = "returned"
             /\ err' = (err \/ e)
             /\ k' = "none"
             /\ UNCHANGED <<cur, stopping>>
-----------------------------------------------------------------------------
(* The select of Run.  Go chooses at random among the ready cases, so a    *)
(* cancelled context does not take precedence over the others.             *)

SelectDone == /\ pc = "select"
              /\ cancelled
              /\ Shutdown
              /\ UNCHANGED <<inVars, bufVars, hibVars, job, outVars, envVars>>

SelectClosed == /\ pc = "select"
                /\ CanStop = "close"
                /\ next > N
                /\ Shutdown
                /\ UNCHANGED <<inVars, bufVars, hibVars, job, outVars, envVars>>

\* Faulty variant: the timer only flushes a full buffer.
SelectTickFull == /\ pc = "select"
                  /\ BatchEnabled /\ FlushTimer
                  /\ ~hibernating
                  /\ bytes >= MaxBytes
                  /\ Await("tick")
                  /\ UNCHANGED <<inVars, bufVars, hibVars, job, outVars, envVars>>

\* flushPublishBuffer("timer"); without anything to flush it is a stutter.
SelectTick == /\ pc = "select"
              /\ BatchEnabled /\ FlushTimer
              /\ ~hibernating
              /\ active # <<>>
              /\ Await("tick")
              /\ UNCHANGED <<inVars, bufVars, hibVars, job, outVars, envVars>>

\* Faulty variant: the flushed buffer is not deleted.
FlushParserKeeps == /\ cur' = pbuf
                    /\ UNCHANGED pbuf
                    /\ pc' = "process"

\* parser.Flush of the one buffer, and process what it held.
FlushParser == /\ cur' = pbuf
               /\ pbuf' = NoRec
               /\ pc' = "process"

SelectIdle == /\ pc = "select"
              /\ IdleFlush
              /\ pbuf # NoRec
              /\ FlushParser
              /\ UNCHANGED <<k, stopping, err, next>>
              /\ UNCHANGED <<bufVars, hibVars, job, outVars, envVars>>

\* parser.Feed: the record it emits (NoRec: none) and the buffer it leaves.
Feed(n) ==
    LET whole == [first |-> n, last |-> n]
    IN  IF ~Multiline THEN [out |-> whole, buf |-> NoRec]
        ELSE IF n \in Starts THEN [out |-> pbuf, buf |-> whole]
        ELSE IF pbuf # NoRec THEN [out |-> NoRec, buf |-> [pbuf EXCEPT !.last = n]]
        ELSE [out |-> whole, buf |-> NoRec]

SelectLine == /\ pc = "select"
              /\ next <= N
              /\ next' = next + 1
              /\ pbuf' = Feed(next).buf
              /\ cur' = Feed(next).out
              /\ pc' = IF cur' = NoRec THEN "select" ELSE "process"
              /\ UNCHANGED <<k, stopping, err>>
              /\ UNCHANGED <<bufVars, hibVars, job, outVars, envVars>>
-----------------------------------------------------------------------------
(* process.                                                                *)

ProcessDropped == /\ pc = "process"
                  /\ cur.first \in Dropped
                  /\ wm' = cur.last
                  /\ discarded' = discarded \cup (cur.first..cur.last)
                  /\ Processed
                  /\ UNCHANGED <<inVars, bufVars, hibVars, job, delivered, dlq, envVars>>

\* Store.Set moved the watermark in memory and failed to persist it.
ProcessDroppedFails == /\ pc = "process"
                       /\ cur.first \in Dropped
                       /\ storeFaults < StoreFaults
                       /\ storeFaults' = storeFaults + 1
                       /\ wm' = cur.last
                       /\ discarded' = discarded \cup (cur.first..cur.last)
                       /\ Fail
                       /\ UNCHANGED <<inVars, bufVars, hibVars, job, delivered, dlq,
                                      cancelled, scrape, sinkFaults, dlqFaults>>

\* marshalPublishPayload cannot bring the record under max_publish_bytes.
ProcessRejected == /\ pc = "process"
                   /\ cur.first \in Unmarshalable \ Dropped
                   /\ Fail
                   /\ UNCHANGED <<inVars, bufVars, hibVars, job, outVars, envVars>>

Publishable(r) == r.first \notin Dropped \cup Unmarshalable

\* enqueuePublish without batching: publishAndAdvance in this goroutine.
ProcessSync == /\ pc = "process"
               /\ Publishable(cur)
               /\ ~BatchEnabled
               /\ job' = [job EXCEPT !["main"] = StartJob(<<cur>>)]
               /\ pc' = "flushing"
               /\ k' = "single"
               /\ UNCHANGED <<cur, stopping, err>>
               /\ UNCHANGED <<inVars, bufVars, hibVars, outVars, envVars>>
-----------------------------------------------------------------------------
(* publishFlusher.enqueue.  f.shuttingDown is only set after the last call *)
(* of enqueue, by the same goroutine, so its test there is never true.     *)

Enqueueing == pc = "process" /\ Publishable(cur) /\ BatchEnabled
Oversized(r) == MaxBytes > 0 /\ Size[r.first] > MaxBytes
\* Faulty variant: the limit is tested without the new item.
FullLate(r) == MaxBytes > 0 /\ bytes > MaxBytes
Full(r) == MaxBytes > 0 /\ bytes > 0 /\ bytes + Size[r.first] > MaxBytes

append(r) == /\ active' = Append(active, r)
             /\ bytes' = bytes + Size[r.first]

\* waitWhileHibernating is called, and stays, with f.mu held.
EnqueueHibernating == /\ Enqueueing
                      /\ hibernating
                      /\ Goto("hibwait")
                      /\ UNCHANGED <<inVars, bufVars, hibVars, job, outVars, envVars>>

HibernateOver == /\ pc = "hibwait"
                 /\ ~hibernating
                 /\ Goto("process")
                 /\ UNCHANGED <<inVars, bufVars, hibVars, job, outVars, envVars>>

\* Faulty variant: the wait for the end of hibernation ignores the context.
HibernateUncancelled == FALSE /\ UNCHANGED vars

\* The context is cancelled first: the record in process is given up.
HibernateCancelled == /\ pc = "hibwait"
                      /\ cancelled
                      /\ Fail
                      /\ UNCHANGED <<inVars, bufVars, hibVars, job, outVars, envVars>>

EnqueueSwap == /\ Enqueueing
               /\ ~hibernating
               /\ Oversized(cur) \/ Full(cur)
               /\ Await(IF Oversized(cur) THEN "big" ELSE "retry")
               /\ UNCHANGED <<inVars, bufVars, hibVars, job, outVars, envVars>>

EnqueueAppend == /\ Enqueueing
                 /\ ~hibernating
                 /\ ~Oversized(cur) /\ ~Full(cur)
                 /\ append(cur)
                 /\ Processed
                 /\ UNCHANGED <<inVars, flushRunning, flushErr, hibVars, job, outVars, envVars>>
-----------------------------------------------------------------------------
(* waitForFlushLocked and swapAndStartFlushLocked.  f.mu is free while     *)
(* the goroutine waits.                                                    *)

WaitStarts == /\ pc = "swap"
              /\ flushRunning
              /\ Goto("wait")
              /\ UNCHANGED <<inVars, bufVars, hibVars, job, outVars, envVars>>

WaitCancelled == /\ pc = "wait"
                 /\ cancelled
                 /\ Fail
                 /\ UNCHANGED <<inVars, bufVars, hibVars, job, outVars, envVars>>

WaitFailed == /\ pc = "wait"
              /\ ~flushRunning
              /\ flushErr
              /\ Fail
              /\ UNCHANGED <<inVars, bufVars, hibVars, job, outVars, envVars>>

WaitOver == /\ pc = "wait"
            /\ ~flushRunning
            /\ ~flushErr
            /\ Goto("swap")
            /\ UNCHANGED <<inVars, bufVars, hibVars, job, outVars, envVars>>

\* Hand the active buffer over to goroutine a.
drain(a) == /\ job' = [job EXCEPT ![a] = StartJob(active)]
            /\ flushRunning' = TRUE
            /\ flushErr' = FALSE

\* go f.runFlush(batch), unless there is nothing to flush.
StartFlush == IF active = <<>>
              THEN UNCHANGED <<job, flushRunning, flushErr>>
              ELSE drain("flush")

\* triggerFlush returns.
SwapTick == /\ k = "tick"
            /\ active' = <<>> /\ bytes' = 0
            /\ pc' = "select" /\ k' = "none"
            /\ UNCHANGED cur

\* Faulty variant: enqueue returns after the swap instead of trying again.
SwapNoRetry == /\ k = "retry"
               /\ active' = <<>> /\ bytes' = 0
               /\ pc' = (IF stopping THEN "stop" ELSE "select") /\ k' = "none"
               /\ cur' = NoRec

\* enqueue continues its loop with the same item.
SwapRetry == /\ k = "retry"
             /\ active' = <<>> /\ bytes' = 0
             /\ pc' = "process" /\ k' = "none"
             /\ UNCHANGED cur

\* The oversized item is alone in the buffer, and enqueue waits once more.
SwapBig == /\ k = "big"
           /\ active' = <<cur>> /\ bytes' = Size[cur.first]
           /\ pc' = "swap" /\ k' = "bigwait"
           /\ UNCHANGED cur

Swap == /\ pc = "swap"
        /\ ~flushRunning
        /\ StartFlush
        /\ SwapTick \/ SwapRetry \/ SwapBig
        /\ UNCHANGED <<stopping, err>>
        /\ UNCHANGED <<inVars, hibVars, outVars, envVars>>

BigWaitOver == /\ pc = "swap"
               /\ ~flushRunning
               /\ k = "bigwait"
               /\ Processed
               /\ UNCHANGED <<inVars, bufVars, hibVars, job, outVars, envVars>>
-----------------------------------------------------------------------------
(* Pipeline.shutdown: the parser's tail, the flusher, the hibernated batch.*)

ShutdownParser == /\ pc = "shutdown"
                  /\ IF pbuf = NoRec
                     THEN pc' = "stop" /\ UNCHANGED <<cur, pbuf>>
                     ELSE FlushParser
                  /\ UNCHANGED <<k, stopping, err, next>>
                  /\ UNCHANGED <<bufVars, hibVars, job, outVars, envVars>>

\* Faulty variant: shutdown does not flush the buffer.
StopUnflushed == /\ pc = "stop"
                 /\ Return(FALSE)
                 /\ UNCHANGED <<inVars, bufVars, hibVars, job, outVars, envVars>>

\* f.shutdown (absent without batching) waits for the flush in progress.
Stop == /\ pc = "stop"
        /\ IF BatchEnabled THEN Await("sync") ELSE Return(FALSE)
        /\ UNCHANGED <<inVars, bufVars, hibVars, job, outVars, envVars>>

\* Faulty variant: syncFlush does not wait for the flush in progress.
SyncFlushUnwaited == /\ pc = "swap"
                     /\ k = "sync"
                     /\ active # <<>>
                     /\ drain("main")
                     /\ active' = <<>> /\ bytes' = 0
                     /\ Goto("flushing")
                     /\ UNCHANGED <<inVars, hibVars, outVars, envVars>>

\* syncFlush publishes what is in the buffer in this goroutine.
SyncFlush == /\ pc = "swap"
             /\ ~flushRunning
             /\ k = "sync"
             /\ active # <<>>
             /\ drain("main")
             /\ active' = <<>> /\ bytes' = 0
             /\ Goto("flushing")
             /\ UNCHANGED <<inVars, hibVars, outVars, envVars>>

\* Nothing is left; f.shutdown returns the error of the last flush, if any.
SyncFlushOver == /\ pc = "swap"
                 /\ ~flushRunning
                 /\ k = "sync"
                 /\ active = <<>>
                 /\ IF flushErr THEN Return(TRUE) ELSE Goto("drain")
                 /\ UNCHANGED <<inVars, bufVars, hibVars, job, outVars, envVars>>

DrainHibernateBatch ==
    /\ pc = "drain"
    /\ IF hibernating /\ hibernateBatch # <<>>
       THEN /\ job' = [job EXCEPT !["main"] = StartJob(hibernateBatch)]
            /\ pc' = "flushing" /\ k' = "drain"
            /\ UNCHANGED <<cur, stopping, err>>
       ELSE Return(FALSE) /\ UNCHANGED job
    /\ UNCHANGED <<inVars, bufVars, hibVars, outVars, envVars>>

\* flushItems (or publishAndAdvance) returned to Run's goroutine.
FlushingDone ==
    LET e == job["main"].err
    IN  /\ pc = "flushing"
        /\ job["main"].step = "done"
        /\ job' = [job EXCEPT !["main"] = NoJob]
        /\ \/ /\ k = "single"
              /\ IF e THEN Fail ELSE Processed
              /\ UNCHANGED bufVars
           \/ /\ k = "sync"
              /\ flushRunning' = FALSE /\ flushErr' = e
              /\ UNCHANGED <<active, bytes>>
              /\ IF e THEN Return(TRUE) ELSE Goto("swap")
           \/ /\ k = "drain"
              /\ Return(e)
              /\ UNCHANGED bufVars
        /\ UNCHANGED <<inVars, hibVars, outVars, envVars>>
-----------------------------------------------------------------------------
(* flushItems and publishAndAdvance, in goroutine a.                       *)

At(a, l) == job[a].step = l
To(a, l) == job' = [job EXCEPT ![a].step = l]
Done(a, e) == job' = [job EXCEPT ![a].step = "done", ![a].err = e]

\* One attempt of publishBatchWithRetry.
PublishOk(a) == /\ At(a, "publish")
                /\ ~(cancelled /\ SinkHonoursCtx)
                /\ delivered' = delivered \cup LinesOf(job[a].batch)
                /\ To(a, "advance")
                /\ UNCHANGED <<mainVars, inVars, bufVars, hibVars, wm, dlq, discarded, envVars>>

\* Faulty variant: the error of one record in the batch is overlooked.
PublishFailsUnseen(a) ==
    /\ At(a, "publish")
    /\ sinkFaults < SinkFaults
    /\ sinkFaults' = sinkFaults + 1
    /\ To(a, "advance")
    /\ UNCHANGED <<mainVars, inVars, bufVars, hibVars, outVars,
                   cancelled, scrape, dlqFaults, storeFaults>>

\* The attempt fails or times out, perhaps after the batch got through, in part
\* or as a whole.
PublishFails(a) ==
    /\ At(a, "publish")
    /\ \/ /\ sinkFaults < SinkFaults
          /\ sinkFaults' = sinkFaults + 1
       \/ /\ cancelled /\ SinkHonoursCtx
          /\ UNCHANGED sinkFaults
    /\ \E n \in 0..Len(job[a].batch) :
          delivered' = delivered \cup LinesOf(SubSeq(job[a].batch, 1, n))
    /\ To(a, IF MaxAttempts > 0 /\ job[a].attempt >= MaxAttempts
             THEN "failed" ELSE "backoff")
    /\ UNCHANGED <<mainVars, inVars, bufVars, hibVars, wm, dlq, discarded,
                   cancelled, scrape, dlqFaults, storeFaults>>

\* The backoff is positive, so a context that is already done wins its select.
BackoffOver(a) ==
    /\ At(a, "backoff")
    /\ ~cancelled
    /\ job' = [job EXCEPT ![a].step = "publish",
                          ![a].attempt = IF MaxAttempts = 0 THEN @ ELSE @ + 1]
    /\ UNCHANGED <<mainVars, inVars, bufVars, hibVars, outVars, envVars>>

BackoffCancelled(a) ==
    /\ At(a, "backoff")
    /\ cancelled
    /\ To(a, "failed")
    /\ UNCHANGED <<mainVars, inVars, bufVars, hibVars, outVars, envVars>>

\* advanceWatermarks sets the watermark of every item in turn.
Advance(a, then) ==
    /\ wm' = job[a].batch[Len(job[a].batch)].last
    /\ To(a, then)
    /\ UNCHANGED <<mainVars, inVars, bufVars, hibVars, delivered, dlq, discarded, envVars>>

\* A Set in the middle moved the watermark and failed to persist it.
AdvanceFails(a) ==
    /\ storeFaults < StoreFaults
    /\ storeFaults' = storeFaults + 1
    /\ \E i \in DOMAIN job[a].batch : wm' = job[a].batch[i].last
    /\ Done(a, TRUE)
    /\ UNCHANGED <<mainVars, inVars, bufVars, hibVars, delivered, dlq, discarded,
                   cancelled, scrape, sinkFaults, dlqFaults>>

AdvancePublished(a) == At(a, "advance") /\ Advance(a, "published")
AdvancePublishedFails(a) == At(a, "advance") /\ AdvanceFails(a)

\* resetConsecutiveDLQ and exitHibernate (not part of publishAndAdvance).
exitHibernate(a) ==
    /\ At(a, "published")
    /\ Done(a, FALSE)
    /\ IF BatchEnabled
       THEN /\ consecutiveDLQ' = 0
            /\ hibernating' = FALSE
            /\ hibernateBatch' = IF hibernating THEN <<>> ELSE hibernateBatch
            /\ UNCHANGED wake
       ELSE UNCHANGED hibVars
    /\ UNCHANGED <<mainVars, inVars, bufVars, outVars, envVars>>

\* publishAndAdvance returns the error of the sink.
\* (Faulty variant: the error is logged and forgotten.)
FailedSyncIgnored(a) ==
    /\ At(a, "failed")
    /\ ~BatchEnabled
    /\ Done(a, FALSE)
    /\ UNCHANGED <<mainVars, inVars, bufVars, hibVars, outVars, envVars>>

FailedSync(a) ==
    /\ At(a, "failed")
    /\ ~BatchEnabled
    /\ Done(a, TRUE)
    /\ UNCHANGED <<mainVars, inVars, bufVars, hibVars, outVars, envVars>>

\* The wake loop is started unless one is still registered as running.
enterHibernate(b) ==
    /\ hibernating' = TRUE
    /\ hibernateBatch' = IF b # <<>> THEN b ELSE hibernateBatch
    /\ wake' = IF ~hibernating /\ WakeEnabled /\ wake = "off" THEN "sleep" ELSE wake

FailedHibernates(a) ==
    /\ At(a, "failed")
    /\ BatchEnabled /\ OnFlushFailure = "hibernate"
    /\ enterHibernate(job[a].batch)
    /\ Done(a, FALSE)
    /\ UNCHANGED <<mainVars, inVars, bufVars, consecutiveDLQ, outVars, envVars>>

\* deadletter.WriteBatch.
FailedDeadLetter(a) ==
    /\ At(a, "failed")
    /\ BatchEnabled /\ OnFlushFailure = "dead_letter"
    /\ dlq' = dlq \cup LinesOf(job[a].batch)
    /\ To(a, "spilled")
    /\ UNCHANGED <<mainVars, inVars, bufVars, hibVars, wm, delivered, discarded, envVars>>

FailedDeadLetterFails(a) ==
    /\ At(a, "failed")
    /\ BatchEnabled /\ OnFlushFailure = "dead_letter"
    /\ dlqFaults < DLQFaults
    /\ dlqFaults' = dlqFaults + 1
    /\ Done(a, TRUE)
    /\ UNCHANGED <<mainVars, inVars, bufVars, hibVars, outVars,
                   cancelled, scrape, sinkFaults, storeFaults>>

AdvanceSpilled(a) == At(a, "spilled") /\ Advance(a, "counted")
AdvanceSpilledFails(a) == At(a, "spilled") /\ AdvanceFails(a)

\* incrementConsecutiveDLQ, and hibernate without a batch at the limit.
CountSpilled(a) ==
    /\ At(a, "counted")
    /\ consecutiveDLQ' = consecutiveDLQ + 1
    /\ IF consecutiveDLQ' >= MaxConsecutive
       THEN enterHibernate(<<>>)
       ELSE UNCHANGED <<hibernating, hibernateBatch, wake>>
    /\ Done(a, FALSE)
    /\ UNCHANGED <<mainVars, inVars, bufVars, outVars, envVars>>

\* runFlush takes f.mu, which enqueue may be holding while it hibernates.
FlushDone ==
    /\ At("flush", "done")
    /\ pc # "hibwait"
    /\ flushRunning' = FALSE
    /\ flushErr' = job["flush"].err
    /\ job' = [job EXCEPT !["flush"] = NoJob]
    /\ UNCHANGED <<mainVars, inVars, active, bytes, hibVars, outVars, envVars>>
-----------------------------------------------------------------------------
(* runHibernateWakeLoop.  hibernateWakeRunning is TRUE unless wake is "off":*)
(* it is cleared by a deferred call after the loop has decided to return.  *)

\* Faulty variant: the retry goes through the flusher, and so needs f.mu.
WakeTickLocked == /\ wake = "sleep"
                  /\ pc # "hibwait"
                  /\ IF hibernating
                     THEN /\ hibernateBatch # <<>>
                          /\ job' = [job EXCEPT !["wake"] = StartJob(hibernateBatch)]
                          /\ wake' = "flush"
                     ELSE wake' = "leaving" /\ UNCHANGED job
                  /\ UNCHANGED <<hibernating, hibernateBatch, consecutiveDLQ>>
                  /\ UNCHANGED <<mainVars, inVars, bufVars, outVars, envVars>>

WakeTick == /\ wake = "sleep"
            /\ IF hibernating
               THEN /\ hibernateBatch # <<>>
                    /\ job' = [job EXCEPT !["wake"] = StartJob(hibernateBatch)]
                    /\ wake' = "flush"
               ELSE wake' = "leaving" /\ UNCHANGED job
            /\ UNCHANGED <<hibernating, hibernateBatch, consecutiveDLQ>>
            /\ UNCHANGED <<mainVars, inVars, bufVars, outVars, envVars>>

WakeCancelled == /\ wake = "sleep"
                 /\ cancelled
                 /\ wake' = "leaving"
                 /\ UNCHANGED <<hibernating, hibernateBatch, consecutiveDLQ>>
                 /\ UNCHANGED <<mainVars, inVars, bufVars, job, outVars, envVars>>

WakeDone == /\ wake = "flush"
            /\ At("wake", "done")
            /\ job' = [job EXCEPT !["wake"] = NoJob]
            /\ wake' = IF hibernating THEN "sleep" ELSE "leaving"
            /\ UNCHANGED <<hibernating, hibernateBatch, consecutiveDLQ>>
            /\ UNCHANGED <<mainVars, inVars, bufVars, outVars, envVars>>

WakeLeaves == /\ wake = "leaving"
              /\ wake' = "off"
              /\ UNCHANGED <<hibernating, hibernateBatch, consecutiveDLQ>>
              /\ UNCHANGED <<mainVars, inVars, bufVars, job, outVars, envVars>>
-----------------------------------------------------------------------------
(* The outside.                                                            *)

Cancel == /\ CanStop = "cancel"
          /\ ~cancelled
          /\ cancelled' = TRUE
          /\ UNCHANGED <<scrape, sinkFaults, dlqFaults, storeFaults>>
          /\ UNCHANGED <<mainVars, inVars, bufVars, hibVars, job, outVars>>

\* A scrape of the metrics endpoint calls PublishBufferActiveBytes ...
Scrape == /\ Scraped
          /\ ~scrape
          /\ scrape' = TRUE
          /\ UNCHANGED <<cancelled, sinkFaults, dlqFaults, storeFaults>>
          /\ UNCHANGED <<mainVars, inVars, bufVars, hibVars, job, outVars>>

\* ... which takes f.mu.
activeBytes == /\ scrape
               /\ pc # "hibwait"
               /\ scrape' = FALSE
               /\ UNCHANGED <<cancelled, sinkFaults, dlqFaults, storeFaults>>
               /\ UNCHANGED <<mainVars, inVars, bufVars, hibVars, job, outVars>>
-----------------------------------------------------------------------------
Select == SelectDone \/ SelectTick \/ SelectIdle \/ SelectLine

Process == ProcessDropped \/ ProcessDroppedFails \/ ProcessRejected \/ ProcessSync

Enqueue == \/ EnqueueHibernating \/ HibernateOver \/ HibernateCancelled
           \/ EnqueueSwap \/ EnqueueAppend

Flusher == \/ WaitStarts \/ WaitCancelled \/ WaitFailed \/ WaitOver
           \/ Swap \/ BigWaitOver

Shutting == \/ ShutdownParser \/ Stop \/ SyncFlush \/ SyncFlushOver
            \/ DrainHibernateBatch \/ FlushingDone

flushItems(a) ==
    \/ PublishOk(a) \/ PublishFails(a) \/ BackoffOver(a) \/ BackoffCancelled(a)
    \/ AdvancePublished(a) \/ AdvancePublishedFails(a) \/ exitHibernate(a)
    \/ FailedSync(a) \/ FailedHibernates(a)
    \/ FailedDeadLetter(a) \/ FailedDeadLetterFails(a)
    \/ AdvanceSpilled(a) \/ AdvanceSpilledFails(a) \/ CountSpilled(a)

Main == Select \/ Process \/ Enqueue \/ Flusher \/ Shutting
WakeLoop == WakeTick \/ WakeCancelled \/ WakeDone \/ WakeLeaves

Next == \/ Main
        \/ FlushDone
        \/ WakeLoop
        \/ \E a \in Actors : flushItems(a)
        \/ SelectClosed
        \/ Cancel \/ Scrape \/ activeBytes

Spec == Init /\ [][Next]_vars

\* Every goroutine that can run is scheduled, every sink call returns and every
\* ticker fires.  Nothing forces a cancel, a closed channel, a scrape or a fault.
Fairness == /\ WF_vars(Main)
            /\ WF_vars(FlushDone)
            /\ WF_vars(WakeLoop)
            /\ WF_vars(activeBytes)
            /\ \A a \in Actors : WF_vars(flushItems(a))

FairSpec == Spec /\ Fairness
-----------------------------------------------------------------------------
Batch == Seq(Record)
Steps == {"publish", "backoff", "failed", "advance", "published", "spilled",
          "counted", "done"}
LastAttempt == IF MaxAttempts = 0 THEN 1 ELSE MaxAttempts
Job == [step : Steps \cup {"none"}, batch : Batch, attempt : 0..LastAttempt,
        err : BOOLEAN]

MainOK == /\ pc \in {"select", "process", "hibwait", "swap", "wait", "flushing",
                     "shutdown", "stop", "drain", "returned"}
          /\ k \in {"none", "tick", "retry", "big", "bigwait", "sync", "drain", "single"}
          /\ cur \in Record \cup {NoRec}
          /\ stopping \in BOOLEAN /\ err \in BOOLEAN
InOK == /\ next \in 1..N + 1
        /\ pbuf \in Record \cup {NoRec}
BufOK == /\ active \in Batch
         /\ bytes \in Nat
         /\ flushRunning \in BOOLEAN /\ flushErr \in BOOLEAN
HibOK == /\ hibernating \in BOOLEAN
         /\ hibernateBatch \in Batch
         /\ wake \in {"off", "sleep", "flush", "leaving"}
         /\ consecutiveDLQ \in Nat
JobOK == job \in [Actors -> Job]
OutOK == /\ wm \in 0..N
         /\ delivered \subseteq Lines /\ dlq \subseteq Lines /\ discarded \subseteq Lines
EnvOK == /\ cancelled \in BOOLEAN /\ scrape \in BOOLEAN
         /\ sinkFaults \in 0..SinkFaults
         /\ dlqFaults \in 0..DLQFaults
         /\ storeFaults \in 0..StoreFaults

TypeOK == MainOK /\ InOK /\ BufOK /\ HibOK /\ JobOK /\ OutOK /\ EnvOK

\* Where the goroutine of Run has a record in hand, and nothing to come back to.
CurHeld == /\ pc \in {"process", "hibwait"} \/ k \in {"retry", "big"} => cur # NoRec
           /\ pc \in {"select", "process", "hibwait", "shutdown", "stop"} => k = "none"

\* A call of flushItems has something to publish, and counts its attempts.
JobsCarry == \A a \in Actors : job[a].step # "none" =>
                 /\ job[a].batch # <<>>
                 /\ job[a].attempt >= 1
                 /\ job[a].step = "backoff" =>
                        MaxAttempts = 0 \/ job[a].attempt < MaxAttempts

Settled == delivered \cup dlq \cup discarded

\* No dead letter write has failed.  A batch whose dead letter write fails is
\* given up, so the three properties below are stated for the other behaviours.
Spillable == dlqFaults = 0

\* At-least-once: every line at or before the watermark has been delivered,
\* dead-lettered or deliberately discarded.  A crash at any moment resumes
\* behind the watermark, so a line that violates this is lost.
WatermarkCovers == Spillable => 1..wm \subseteq Settled

\* The watermark of the file never moves back.
WatermarkMonotonic == [][wm' >= wm]_wm

\* f.flushRunning is exact: it is set while, and only while, one goroutine
\* publishes a batch taken from the buffer, so two never do.
SyncFlushing == pc = "flushing" /\ k = "sync"
FlushExclusive == /\ flushRunning <=> (job["flush"].step # "none" \/ SyncFlushing)
                  /\ ~(job["flush"].step # "none" /\ SyncFlushing)

\* The buffer holds at most max_bytes, unless one oversized record has it to
\* itself, and its byte counter is zero exactly when it is empty.
BufferBounded == /\ MaxBytes > 0 => bytes <= MaxBytes \/ Len(active) = 1
                 /\ bytes = 0 <=> active = <<>>

\* The inductive invariant behind TypeOK, FlushExclusive and BufferBounded.
Inv == TypeOK /\ CurHeld /\ JobsCarry /\ FlushExclusive /\ BufferBounded

\* The records on their way through the buffer to the sink, oldest first.  A batch
\* that hibernation put aside (hibernateBatch, and its retries by the wake loop and
\* by shutdown) has left this way: later ones overtake it.
Held(r) == IF r = NoRec THEN <<>> ELSE <<r>>
InMemory == job["flush"].batch
            \o (IF k \in {"sync", "single"} THEN job["main"].batch ELSE <<>>)
            \o active
            \o (IF k \in {"bigwait", "single"} THEN <<>> ELSE Held(cur))
            \o Held(pbuf)

\* Records that no hibernation puts aside reach the sink in file order: a batch in
\* flight is older than the buffer, the buffer than the record in process, that
\* than the parser's, through swaps, idle flushes and the shutdown
\* (publish_flusher.go:40-75, 139-175, pipeline.go:196-231).
InOrder == \A i, j \in DOMAIN InMemory :
               i < j => InMemory[i].last < InMemory[j].first

\* While Run has no error to report, a line that was taken from the channel is
\* settled or still in memory.
NothingVanishes ==
    Spillable /\ ~err /\ pc # "returned" =>
        1..next - 1 \subseteq Settled \cup LinesOf(InMemory) \cup LinesOf(hibernateBatch)
                                    \cup LinesOf(job["main"].batch)

\* Run returns nil only when everything it took from the channel is settled.
GracefulStop == Spillable /\ pc = "returned" /\ ~err => 1..next - 1 \subseteq Settled

\* Every line taken from the channel is settled in the end.
EventuallySettled == \A n \in Lines : next > n ~> n \in Settled

\* A cancelled context stops Run, wherever it is blocked.
CancelStops == cancelled ~> pc = "returned"

\* A scrape of the metrics endpoint is answered, also when enqueue waits out a
\* hibernation with the mutex that activeBytes needs (publish_flusher.go:44-52,
\* pipeline.go:103-108): the wake loop retries without that mutex, and frees
\* enqueue once the sink recovers.  Only a hibernation that has lost its wake loop
\* (see HibernateEnds) may keep the scrape waiting.
ScrapeAnswered == scrape ~> (~scrape \/ (hibernating /\ wake = "off"))

\* A forwarder that hibernates with wake_enabled resumes, given that the sink
\* recovers and the process is not told to stop.
HibernateEnds == hibernating ~> (~hibernating \/ cancelled \/ pc = "returned")
=============================================================================
