----------------------- MODULE PipelineDeliveryProofs -----------------------
(***************************************************************************)
(* Proofs about what the pipeline does with the lines it has taken from    *)
(* the channel: records stay in file order, none vanishes, and the         *)
(* watermark never passes a line that is not settled, nor moves back.      *)
(*                                                                         *)
(* A line taken from the channel is in one of four places, oldest first:   *)
(* in the batch that is being published, in the publish buffer, in the     *)
(* hand of Run's goroutine, or in the parser.                              *)
(***************************************************************************)
EXTENDS PipelineProofs

Recs(b) == {b[i] : i \in DOMAIN b}
Covered(S) == UNION {r.first..r.last : r \in S}

FlushBatch == job["flush"].batch
MainBatch == IF k \in {"sync", "single"} THEN job["main"].batch ELSE <<>>

Flight == Recs(FlushBatch) \cup Recs(MainBatch)
Buffered == Recs(active)
InHand == IF cur = NoRec \/ k \in {"bigwait", "single"} THEN {} ELSE {cur}
Open == IF pbuf = NoRec THEN {} ELSE {pbuf}
-----------------------------------------------------------------------------
(* Where Run's goroutine is, and what it holds there.                      *)

\* An error is only set on the way to the shutdown; in the shutdown nothing is
\* read, and the parser is emptied first.  A record is in hand only where the
\* code comes back to it.
Places ==
    /\ err => stopping
    /\ stopping => pc # "select" /\ k # "tick" /\ (pc = "shutdown" \/ pbuf = NoRec)
    /\ pc \in {"shutdown", "stop", "drain", "returned"} \/ k \in {"sync", "drain"} => stopping
    /\ cur # NoRec => pc \in {"process", "hibwait"} \/ k \in {"retry", "big", "bigwait", "single"}
    /\ pc \in {"swap", "wait"} => k \in {"tick", "retry", "big", "bigwait", "sync"}
    /\ pc = "flushing" => k \in {"single", "sync", "drain"}
    /\ pc = "drain" => k = "sync"
    /\ k = "single" => pc = "flushing"
    /\ pc = "returned" => k = "none"
    /\ Multiline \/ pbuf = NoRec

\* The flushItems call of Run's goroutine is there exactly while Run waits for
\* it.  Without batching there is no buffer and no other goroutine.  Run returns
\* without an error only after the buffer is empty and nothing is in flight.
JobPlaces ==
    /\ pc = "flushing" <=> job["main"].step # "none"
    /\ \A a \in Actors : job[a].step = "none" => job[a].batch = <<>>
    /\ pc = "drain" \/ k = "drain" => active = <<>> /\ job["flush"].step = "none"
    /\ pc = "returned" /\ ~err => active = <<>> /\ job["flush"].step = "none"
    /\ BatchEnabled \/ (active = <<>> /\ job["flush"].step = "none" /\ k \in {"none", "single"})
    /\ ~BatchEnabled \/ k # "single"

\* Places when Run starts.
LEMMA PlacesInit == Init => Places /\ JobPlaces
<1> SUFFICES ASSUME Init PROVE Places /\ JobPlaces
  OBVIOUS
<1>1. \A a \in Actors : job[a] = NoJob
  BY DEF Init
<1>2. \A a \in Actors : job[a].step = "none" /\ job[a].batch = <<>>
  BY <1>1 DEF NoJob
<1>3. Places
  BY DEF Init, Places
<1>4. JobPlaces
  BY <1>2 DEF Init, JobPlaces, Actors
<1> QED BY <1>3, <1>4

\* Places at a step of the select or of process.
LEMMA PlacesSelect ==
    ASSUME Inv, Places, Select \/ SelectClosed \/ Process PROVE Places'
<1> USE DEF Inv, TypeOK, MainOK, CurHeld, Places
<1>1. CASE SelectDone \/ SelectClosed
  BY <1>1 DEF SelectDone, SelectClosed, Shutdown, inVars
<1>2. CASE SelectTick
  BY <1>2 DEF SelectTick, Await, inVars
<1>3. CASE SelectIdle
  BY <1>3 DEF SelectIdle, FlushParser
<1>4. CASE SelectLine
  BY <1>4 DEF SelectLine, Feed
<1>5. CASE ProcessDropped
  BY <1>5 DEF ProcessDropped, Processed, inVars
<1>6. CASE ProcessDroppedFails \/ ProcessRejected
  BY <1>6 DEF ProcessDroppedFails, ProcessRejected, Fail, inVars
<1>7. CASE ProcessSync
  BY <1>7 DEF ProcessSync, inVars
<1> QED BY <1>1, <1>2, <1>3, <1>4, <1>5, <1>6, <1>7 DEF Select, Process

\* Places at a step of enqueue or of the flusher.
LEMMA PlacesEnqueue ==
    ASSUME Inv, Places, Enqueue \/ Flusher PROVE Places'
<1> USE DEF Inv, TypeOK, MainOK, CurHeld, Places
<1>1. CASE EnqueueHibernating \/ HibernateOver
  BY <1>1 DEF EnqueueHibernating, HibernateOver, Enqueueing, Goto, inVars
<1>2. CASE HibernateCancelled \/ WaitCancelled \/ WaitFailed
  BY <1>2 DEF HibernateCancelled, WaitCancelled, WaitFailed, Fail, inVars
<1>3. CASE EnqueueSwap
  BY <1>3 DEF EnqueueSwap, Enqueueing, Await, inVars
<1>4. CASE EnqueueAppend
  BY <1>4 DEF EnqueueAppend, Enqueueing, Processed, inVars
<1>5. CASE WaitStarts \/ WaitOver
  BY <1>5 DEF WaitStarts, WaitOver, Goto, inVars
<1>6. CASE Swap
  BY <1>6 DEF Swap, SwapTick, SwapRetry, SwapBig, inVars
<1>7. CASE BigWaitOver
  BY <1>7 DEF BigWaitOver, Processed, inVars
<1> QED BY <1>1, <1>2, <1>3, <1>4, <1>5, <1>6, <1>7 DEF Enqueue, Flusher

\* Places at a step of the shutdown.
LEMMA PlacesShutting ==
    ASSUME Inv, Places, Shutting PROVE Places'
<1> USE DEF Inv, TypeOK, MainOK, CurHeld, Places
<1>1. CASE ShutdownParser
  BY <1>1 DEF ShutdownParser, FlushParser
<1>2. CASE Stop
  BY <1>2 DEF Stop, Await, Return, inVars
<1>3. CASE SyncFlush
  BY <1>3 DEF SyncFlush, Goto, inVars
<1>4. CASE SyncFlushOver
  BY <1>4 DEF SyncFlushOver, Goto, Return, inVars
<1>5. CASE DrainHibernateBatch
  BY <1>5 DEF DrainHibernateBatch, Return, inVars
<1>6. CASE FlushingDone
  BY <1>6 DEF FlushingDone, Fail, Processed, Return, Goto, inVars
<1> QED BY <1>1, <1>2, <1>3, <1>4, <1>5, <1>6 DEF Shutting

\* Places is about Run's goroutine only.
LEMMA PlacesOther ==
    ASSUME Places, UNCHANGED <<mainVars, inVars>> PROVE Places'
BY DEF Places, mainVars, inVars

-----------------------------------------------------------------------------
(* The flushItems calls.                                                   *)

\* A call that starts or ends, and the others.
LEMMA JobSet ==
    ASSUME JobOK, NEW a \in Actors, NEW v, job' = [job EXCEPT ![a] = v]
    PROVE  job'[a] = v /\ \A c \in Actors \ {a} : job'[c] = job[c]
BY DEF JobOK

\* A step inside a call leaves every batch alone, and every other call.
LEMMA JobMoves ==
    ASSUME JobOK, NEW a \in Actors, flushItems(a)
    PROVE  /\ job[a].step # "none" /\ job'[a].step # "none"
           /\ \A c \in Actors : job'[c].batch = job[c].batch
           /\ \A c \in Actors \ {a} : job'[c] = job[c]
<1>1. job \in [Actors -> Job]
  BY DEF JobOK
<1>2. job[a].step # "none"
  BY DEF flushItems, PublishOk, PublishFails, BackoffOver, BackoffCancelled, AdvancePublished,
     AdvancePublishedFails, exitHibernate, FailedSync, FailedHibernates, FailedDeadLetter,
     FailedDeadLetterFails, AdvanceSpilled, AdvanceSpilledFails, CountSpilled, At
<1>3. ASSUME NEW l \in Steps, To(a, l)
      PROVE  /\ job'[a].step # "none"
             /\ \A c \in Actors : job'[c].batch = job[c].batch
             /\ \A c \in Actors \ {a} : job'[c] = job[c]
  BY <1>1, <1>3 DEF To, Job, Steps
<1>4. ASSUME NEW e \in BOOLEAN, Done(a, e)
      PROVE  /\ job'[a].step # "none"
             /\ \A c \in Actors : job'[c].batch = job[c].batch
             /\ \A c \in Actors \ {a} : job'[c] = job[c]
  BY <1>1, <1>4 DEF Done, Job
<1>5. ASSUME BackoffOver(a)
      PROVE  /\ job'[a].step # "none"
             /\ \A c \in Actors : job'[c].batch = job[c].batch
             /\ \A c \in Actors \ {a} : job'[c] = job[c]
  BY <1>1, <1>5 DEF BackoffOver, Job
<1>6. \/ BackoffOver(a)
      \/ \E l \in Steps : To(a, l)
      \/ \E e \in BOOLEAN : Done(a, e)
  <2>1. {"advance", "failed", "backoff", "published", "spilled", "counted"} \subseteq Steps
        /\ {TRUE, FALSE} \subseteq BOOLEAN
    BY DEF Steps
  <2> QED BY <2>1 DEF flushItems, PublishOk, PublishFails, BackoffCancelled, AdvancePublished,
     AdvancePublishedFails, exitHibernate, FailedSync, FailedHibernates, FailedDeadLetter,
     FailedDeadLetterFails, AdvanceSpilled, AdvanceSpilledFails, CountSpilled, Advance, AdvanceFails
<1> QED BY <1>2, <1>3, <1>4, <1>5, <1>6

\* A step inside a call leaves Run's goroutine and the buffer alone.
LEMMA FlushItemsAlone ==
    ASSUME NEW a \in Actors, flushItems(a) PROVE UNCHANGED <<mainVars, inVars, bufVars>>
BY DEF flushItems, PublishOk, PublishFails, BackoffOver, BackoffCancelled, AdvancePublished,
   AdvancePublishedFails, exitHibernate, FailedSync, FailedHibernates, FailedDeadLetter,
   FailedDeadLetterFails, AdvanceSpilled, AdvanceSpilledFails, CountSpilled, Advance, AdvanceFails

\* So do the wake loop and the outside.
LEMMA OthersAlone ==
    ASSUME FlushDone \/ WakeLoop \/ Cancel \/ Scrape \/ activeBytes
    PROVE  UNCHANGED <<mainVars, inVars, active, bytes>>
BY DEF FlushDone, WakeLoop, WakeTick, WakeCancelled, WakeDone, WakeLeaves, Cancel, Scrape,
   activeBytes, bufVars

\* A flush in progress makes Run wait.
LEMMA FlushIdle ==
    ASSUME Inv, ~flushRunning PROVE job["flush"].step = "none"
BY DEF Inv, FlushExclusive

\* The jobs at a step that starts and ends none.
LEMMA JobPlacesSame ==
    ASSUME JobPlaces, UNCHANGED job,
           pc' = "flushing" <=> pc = "flushing",
           pc' = "drain" \/ k' = "drain" => active' = <<>> /\ job["flush"].step = "none",
           pc' = "returned" /\ ~err' => active' = <<>> /\ job["flush"].step = "none",
           BatchEnabled \/ (active' = active /\ k' \in {"none", "single"}),
           k' = "single" => k = "single"
    PROVE  JobPlaces'
BY DEF JobPlaces

\* JobPlaces at a step of Run's goroutine that starts or ends no call.
LEMMA JobPlacesMain ==
    ASSUME Inv, Places, JobPlaces,
           Select \/ SelectClosed \/ ProcessDropped \/ ProcessDroppedFails \/ ProcessRejected
               \/ Enqueue \/ ShutdownParser \/ Stop \/ SyncFlushOver
               \/ WaitStarts \/ WaitCancelled \/ WaitFailed \/ WaitOver \/ BigWaitOver
    PROVE  JobPlaces'
<1> USE DEF Inv, TypeOK, MainOK, CurHeld
<1>1. CASE Select \/ SelectClosed
  BY <1>1, JobPlacesSame DEF Select, SelectDone, SelectClosed, SelectTick, SelectIdle, SelectLine,
     Shutdown, Await, FlushParser, JobPlaces, bufVars
<1>2. CASE ProcessDropped \/ ProcessDroppedFails \/ ProcessRejected
  BY <1>2, JobPlacesSame DEF ProcessDropped, ProcessDroppedFails, ProcessRejected, Processed, Fail,
     JobPlaces, bufVars
<1>3. CASE Enqueue
  BY <1>3, JobPlacesSame DEF Enqueue, EnqueueHibernating, HibernateOver, HibernateCancelled, EnqueueSwap,
     EnqueueAppend, Enqueueing, Goto, Fail, Await, Processed, JobPlaces, bufVars
<1>4. CASE ShutdownParser
  BY <1>4, JobPlacesSame DEF ShutdownParser, FlushParser, JobPlaces, bufVars
<1>5. CASE Stop
  BY <1>5, JobPlacesSame DEF Stop, Await, Return, JobPlaces, bufVars
<1>6. CASE SyncFlushOver
  BY <1>6, FlushIdle, JobPlacesSame DEF SyncFlushOver, Goto, Return, JobPlaces, bufVars
<1>7. CASE WaitStarts \/ WaitCancelled \/ WaitFailed \/ WaitOver \/ BigWaitOver
  BY <1>7, JobPlacesSame DEF WaitStarts, WaitCancelled, WaitFailed, WaitOver, BigWaitOver, Goto, Fail,
     Processed, JobPlaces, bufVars
<1> QED BY <1>1, <1>2, <1>3, <1>4, <1>5, <1>6, <1>7

\* JobPlaces at a step that starts a call of flushItems, or ends one.
LEMMA JobPlacesTurns ==
    ASSUME Inv, Places, JobPlaces,
           ProcessSync \/ Swap \/ SyncFlush \/ DrainHibernateBatch \/ FlushingDone
               \/ FlushDone \/ WakeLoop
    PROVE  JobPlaces'
<1> USE DEF Actors
<1>0. JobOK
  BY DEF Inv, TypeOK
<1>1. CASE ProcessSync
  <2>1. job'["main"] = StartJob(<<cur>>) /\ \A c \in Actors \ {"main"} : job'[c] = job[c]
    BY <1>0, <1>1, JobSet DEF ProcessSync
  <2> QED BY <1>1, <2>1 DEF ProcessSync, JobPlaces, StartJob, bufVars
<1>2. CASE Swap
  <2>1. CASE job' = job
    BY <1>2, <2>1 DEF Swap, SwapTick, SwapRetry, SwapBig, JobPlaces, Places
  <2>2. CASE job' = [job EXCEPT !["flush"] = StartJob(active)]
    <3>1. job'["flush"] = StartJob(active) /\ \A c \in Actors \ {"flush"} : job'[c] = job[c]
      BY <1>0, <2>2, JobSet
    <3> QED BY <1>2, <3>1 DEF Swap, SwapTick, SwapRetry, SwapBig, JobPlaces, Places, StartJob
  <2> QED BY <1>2, <2>1, <2>2 DEF Swap, StartFlush, drain
<1>3. CASE SyncFlush
  <2>1. job'["main"] = StartJob(active) /\ \A c \in Actors \ {"main"} : job'[c] = job[c]
    BY <1>0, <1>3, JobSet DEF SyncFlush, drain
  <2> QED BY <1>3, <2>1 DEF SyncFlush, Goto, JobPlaces, StartJob
<1>4. CASE DrainHibernateBatch
  <2>1. CASE job' = job /\ Return(FALSE)
    BY <1>4, <2>1, JobPlacesSame DEF DrainHibernateBatch, Return, JobPlaces, Places, bufVars
  <2>2. CASE job' = [job EXCEPT !["main"] = StartJob(hibernateBatch)] /\ pc' = "flushing" /\ k' = "drain"
    <3>1. job'["main"] = StartJob(hibernateBatch) /\ \A c \in Actors \ {"main"} : job'[c] = job[c]
      BY <1>0, <2>2, JobSet
    <3> QED BY <1>4, <2>2, <3>1 DEF DrainHibernateBatch, JobPlaces, Places, StartJob, bufVars
  <2> QED BY <1>4, <2>1, <2>2 DEF DrainHibernateBatch
<1>5. CASE FlushingDone
  <2>1. job'["main"] = NoJob /\ \A c \in Actors \ {"main"} : job'[c] = job[c]
    BY <1>0, <1>5, JobSet DEF FlushingDone
  <2>2. pc = "flushing" /\ UNCHANGED active /\ NoJob.step = "none" /\ NoJob.batch = <<>>
    BY <1>5 DEF FlushingDone, bufVars, NoJob
  <2>3. CASE k = "single"
    <3>1. pc' \in {"shutdown", "returned", "stop", "select"} /\ k' = "none" /\ ~BatchEnabled
      BY <1>5, <2>3 DEF FlushingDone, Fail, Processed, JobPlaces
    <3> QED BY <2>1, <2>2, <3>1 DEF JobPlaces
  <2>4. CASE k = "sync"
    <3>1. \/ pc' = "swap" /\ k' = k
          \/ pc' = "returned" /\ k' = "none" /\ err'
      BY <1>5, <2>4 DEF FlushingDone, Return, Goto
    <3> QED BY <2>1, <2>2, <2>4, <3>1 DEF JobPlaces
  <2>5. CASE k = "drain"
    <3>1. pc' = "returned" /\ k' = "none"
      BY <1>5, <2>5 DEF FlushingDone, Return
    <3> QED BY <2>1, <2>2, <2>5, <3>1 DEF JobPlaces
  <2> QED BY <1>5, <2>3, <2>4, <2>5 DEF FlushingDone
<1>6. CASE FlushDone
  <2>1. job'["flush"] = NoJob /\ \A c \in Actors \ {"flush"} : job'[c] = job[c]
    BY <1>0, <1>6, JobSet DEF FlushDone
  <2> QED BY <1>6, <2>1 DEF FlushDone, JobPlaces, NoJob, mainVars
<1>7. CASE WakeLoop
  <2>0. UNCHANGED <<mainVars, inVars, active, bytes>>
    BY <1>7, OthersAlone
  <2>1. CASE job' = job
    BY <2>0, <2>1 DEF JobPlaces, mainVars
  <2>2. CASE \E v \in {StartJob(hibernateBatch), NoJob} : job' = [job EXCEPT !["wake"] = v]
    <3>1. PICK v \in {StartJob(hibernateBatch), NoJob} : job' = [job EXCEPT !["wake"] = v]
      BY <2>2
    <3>2. job'["wake"] = v /\ \A c \in Actors \ {"wake"} : job'[c] = job[c]
      BY <1>0, <3>1, JobSet
    <3>3. v.step = "none" => v.batch = <<>>
      BY <3>1 DEF StartJob, NoJob
    <3> QED BY <2>0, <3>2, <3>3 DEF JobPlaces, mainVars
  <2> QED BY <1>7, <2>1, <2>2 DEF WakeLoop, WakeTick, WakeCancelled, WakeDone, WakeLeaves
<1> QED BY <1>1, <1>2, <1>3, <1>4, <1>5, <1>6, <1>7

\* Where Run's goroutine and the flushItems calls are, together.
PlacesInv == Inv /\ Places /\ JobPlaces

\* Every step keeps it.
LEMMA PlacesNext == ASSUME PlacesInv, [Next]_vars PROVE PlacesInv'
<1> USE DEF PlacesInv
<1>1. Inv'
  BY InvInductive
<1>2. CASE Select \/ SelectClosed \/ Process \/ Enqueue \/ Flusher \/ Shutting
  <2>1. Places'
    BY <1>2, PlacesSelect, PlacesEnqueue, PlacesShutting
  <2>2. JobPlaces'
    BY <1>2, JobPlacesMain, JobPlacesTurns DEF Process, Flusher, Shutting
  <2> QED BY <1>1, <2>1, <2>2
<1>3. CASE FlushDone \/ WakeLoop
  BY <1>1, <1>3, OthersAlone, PlacesOther, JobPlacesTurns
<1>4. CASE \E a \in Actors : flushItems(a)
  <2>1. PICK a \in Actors : flushItems(a)
    BY <1>4
  <2>2. UNCHANGED <<mainVars, inVars, bufVars>>
    BY <2>1, FlushItemsAlone
  <2>3. Places'
    BY <2>2, PlacesOther
  <2>4. \A c \in Actors : (job'[c].step = "none" <=> job[c].step = "none") /\ job'[c].batch = job[c].batch
    BY <2>1, JobMoves DEF Inv, TypeOK
  <2>5. JobPlaces'
    BY <2>2, <2>4 DEF JobPlaces, mainVars, bufVars, Actors
  <2> QED BY <1>1, <2>3, <2>5
<1>5. CASE Cancel \/ Scrape \/ activeBytes \/ UNCHANGED vars
  <2>1. UNCHANGED <<mainVars, inVars, active, job>>
    BY <1>5 DEF Cancel, Scrape, activeBytes, vars, bufVars
  <2>2. Places'
    BY <2>1, PlacesOther
  <2>3. JobPlaces'
    BY <2>1 DEF JobPlaces, mainVars
  <2> QED BY <1>1, <2>2, <2>3
<1> QED BY <1>2, <1>3, <1>4, <1>5 DEF Next, Main

\* Places and JobPlaces hold in every state, whatever the configuration.
THEOREM PipelinePlaces == Spec => []PlacesInv
<1>1. Init => PlacesInv
  BY InitInv, PlacesInit DEF PlacesInv
<1> QED BY <1>1, PlacesNext, PTL DEF Spec

-----------------------------------------------------------------------------
(* How the lines move through the four places.                             *)

\* The records of small batches.
LEMMA RecsOf ==
    /\ Recs(<<>>) = {}
    /\ \A r : Recs(<<r>>) = {r}
    /\ \A b \in Batch, r \in Record : Recs(Append(b, r)) = Recs(b) \cup {r}
<1>1. Recs(<<>>) = {} /\ \A r : Recs(<<r>>) = {r}
  BY DEF Recs
<1>2. ASSUME NEW b \in Seq(Record), NEW r \in Record PROVE Recs(Append(b, r)) = Recs(b) \cup {r}
  <2>1. /\ DOMAIN b = 1..Len(b) /\ DOMAIN Append(b, r) = 1..Len(b) + 1 /\ Len(b) \in Nat
        /\ Append(b, r)[Len(b) + 1] = r
        /\ \A i \in 1..Len(b) : Append(b, r)[i] = b[i]
    BY AppendProperties
  <2> QED BY <2>1 DEF Recs
<1> QED BY <1>1, <1>2 DEF Batch

\* Nothing moves.
Unmoved == UNCHANGED <<FlushBatch, MainBatch, active, InHand, Open, next>>

\* The record in hand is given up or discarded.
LetGo == InHand' = {} /\ UNCHANGED <<FlushBatch, MainBatch, active, Open, next>>

\* The parser's record comes to hand.
Taken == InHand = {} /\ InHand' = Open /\ Open' = {} /\ UNCHANGED <<FlushBatch, MainBatch, active, next>>

\* A line is read: it is a record, opens one, or belongs to the open one.
Line == [first |-> next, last |-> next]
Whole == Open = {} /\ InHand' = {Line} /\ Open' = {}
Opens == InHand' = Open /\ Open' = {Line}
Extends == /\ pbuf # NoRec /\ Open = {pbuf} /\ InHand' = {}
           /\ Open' = {[first |-> pbuf.first, last |-> next]}
ReadLine == /\ ~stopping /\ InHand = {} /\ next <= N /\ next' = next + 1
            /\ Whole \/ Opens \/ Extends
            /\ UNCHANGED <<FlushBatch, MainBatch, active>>

\* The record in hand is published alone.
Alone == /\ ~BatchEnabled /\ Flight = {} /\ active = <<>> /\ FlushBatch = <<>>
         /\ InHand = {cur} /\ cur \in Record /\ InHand' = {} /\ MainBatch' = <<cur>>
         /\ UNCHANGED <<FlushBatch, active, Open, next>>

\* The record in hand goes to the buffer.
Appended == /\ InHand = {cur} /\ cur \in Record /\ InHand' = {} /\ active' = Append(active, cur)
            /\ UNCHANGED <<FlushBatch, MainBatch, Open, next>>

\* The buffer is handed over for publishing, and left empty or with the record
\* in hand.
HandedOver == /\ Flight = {}
              /\ \/ FlushBatch' = active /\ MainBatch' = <<>>
                 \/ FlushBatch' = <<>> /\ MainBatch' = active
              /\ \/ active' = <<>> /\ UNCHANGED InHand
                 \/ InHand = {cur} /\ cur \in Record /\ active' = <<cur>> /\ InHand' = {}
              /\ UNCHANGED <<Open, next>>

\* What was in flight is done with.
Landed == /\ FlushBatch' = <<>> /\ MainBatch' = <<>>
          /\ UNCHANGED <<active, InHand, Open, next>>

\* Run's goroutine moves without a record, or with the same.
LEMMA MainUnmoved ==
    ASSUME PlacesInv,
           SelectDone \/ SelectClosed \/ SelectTick \/ EnqueueHibernating \/ HibernateOver
               \/ EnqueueSwap \/ WaitStarts \/ WaitOver \/ BigWaitOver \/ Stop \/ SyncFlushOver
    PROVE  Unmoved
<1> USE DEF PlacesInv, Inv, CurHeld, Places
<1>1. UNCHANGED <<active, job, pbuf, next>>
  BY DEF SelectDone, SelectClosed, SelectTick, EnqueueHibernating, HibernateOver, EnqueueSwap,
     WaitStarts, WaitOver, BigWaitOver, Stop, SyncFlushOver, inVars, bufVars
<1>2. InHand' = InHand
  BY DEF SelectDone, SelectClosed, SelectTick, EnqueueHibernating, HibernateOver, EnqueueSwap,
     WaitStarts, WaitOver, BigWaitOver, Stop, SyncFlushOver, Shutdown, Await, Goto, Processed,
     Return, Enqueueing, InHand
<1>3. job["main"].batch = <<>>
  BY DEF JobPlaces, Actors, SelectDone, SelectClosed, SelectTick, EnqueueHibernating, HibernateOver,
     EnqueueSwap, WaitStarts, WaitOver, BigWaitOver, Stop, SyncFlushOver, Enqueueing
<1> QED BY <1>1, <1>2, <1>3 DEF Unmoved, FlushBatch, MainBatch, Open

\* The record in hand is given up or discarded.
LEMMA MainLetsGo ==
    ASSUME PlacesInv,
           ProcessDropped \/ ProcessDroppedFails \/ ProcessRejected \/ HibernateCancelled
               \/ WaitCancelled \/ WaitFailed
    PROVE  LetGo
<1> USE DEF PlacesInv, Inv, CurHeld, Places
<1>1. UNCHANGED <<active, job, pbuf, next>>
  BY DEF ProcessDropped, ProcessDroppedFails, ProcessRejected, HibernateCancelled, WaitCancelled,
     WaitFailed, inVars, bufVars
<1>2. cur' = NoRec
  BY DEF ProcessDropped, ProcessDroppedFails, ProcessRejected, HibernateCancelled, WaitCancelled,
     WaitFailed, Fail, Processed
<1>3. job["main"].batch = <<>>
  BY DEF JobPlaces, Actors, ProcessDropped, ProcessDroppedFails, ProcessRejected, HibernateCancelled,
     WaitCancelled, WaitFailed
<1> QED BY <1>1, <1>2, <1>3 DEF LetGo, FlushBatch, MainBatch, InHand, Open

\* The parser is flushed.
LEMMA ParserTaken ==
    ASSUME PlacesInv, SelectIdle \/ (ShutdownParser /\ pbuf # NoRec) PROVE Taken
<1> USE DEF PlacesInv, Inv, CurHeld, Places
<1>1. UNCHANGED <<active, job, k, next>> /\ cur' = pbuf /\ pbuf' = NoRec /\ cur = NoRec /\ k = "none"
  BY DEF SelectIdle, ShutdownParser, FlushParser, bufVars
<1> QED BY <1>1 DEF Taken, FlushBatch, MainBatch, InHand, Open

\* Without an open record the shutdown goes on.
LEMMA ParserEmpty ==
    ASSUME PlacesInv, ShutdownParser, pbuf = NoRec PROVE Unmoved
BY DEF ShutdownParser, Unmoved, FlushBatch, MainBatch, InHand, Open, bufVars

\* A line is read.
LEMMA LineRead ==
    ASSUME PlacesInv, SelectLine PROVE ReadLine
<1> USE DEF PlacesInv, Inv, CurHeld, Places
<1>1. /\ UNCHANGED <<active, job, k>> /\ cur = NoRec /\ k = "none" /\ ~stopping
      /\ next <= N /\ next' = next + 1 /\ pbuf' = Feed(next).buf /\ cur' = Feed(next).out
  BY DEF SelectLine, bufVars
<1>2. next \in Nat /\ next # 0
  BY Bounds DEF TypeOK, InOK
<1>3. Line # NoRec
  BY <1>2 DEF Line, NoRec
<1>4. InHand = {} /\ UNCHANGED <<FlushBatch, MainBatch, active>>
  BY <1>1 DEF FlushBatch, MainBatch, InHand
<1>5. Whole \/ Opens \/ Extends
  <2>1. CASE ~Multiline
    <3>1. pbuf' = NoRec /\ cur' = Line /\ pbuf = NoRec
      BY <1>1, <2>1 DEF Feed, Line
    <3> QED BY <1>1, <1>3, <3>1 DEF Whole, InHand, Open
  <2>2. CASE Multiline /\ next \in Starts
    <3>1. pbuf' = Line /\ cur' = pbuf
      BY <1>1, <2>2 DEF Feed, Line
    <3> QED BY <1>1, <1>3, <3>1 DEF Opens, InHand, Open
  <2>3. CASE Multiline /\ next \notin Starts /\ pbuf # NoRec
    <3>1. cur' = NoRec /\ pbuf' = [pbuf EXCEPT !.last = next]
      BY <1>1, <2>3 DEF Feed
    <3>2. pbuf \in Record
      BY <2>3 DEF TypeOK, InOK
    <3>3. pbuf' = [first |-> pbuf.first, last |-> next]
      BY <3>1, <3>2 DEF Record
    <3>4. pbuf' # NoRec
      BY <1>2, <3>3 DEF NoRec
    <3> QED BY <1>1, <2>3, <3>1, <3>3, <3>4 DEF Extends, InHand, Open
  <2>4. CASE Multiline /\ next \notin Starts /\ pbuf = NoRec
    <3>1. pbuf' = NoRec /\ cur' = Line
      BY <1>1, <2>4 DEF Feed, Line
    <3> QED BY <1>1, <1>3, <2>4, <3>1 DEF Whole, InHand, Open
  <2> QED BY <2>1, <2>2, <2>3, <2>4
<1> QED BY <1>1, <1>4, <1>5 DEF ReadLine

\* Without batching the record in hand is published alone.
LEMMA SyncAlone ==
    ASSUME PlacesInv, ProcessSync PROVE Alone
<1> USE DEF PlacesInv, Inv, Actors
<1>1. cur \in Record /\ cur # NoRec
  BY CurIsRecord DEF TypeOK, CurHeld, ProcessSync
<1>2. pc = "process" /\ ~BatchEnabled /\ k = "none" /\ k' = "single" /\ UNCHANGED <<active, pbuf, next, cur>>
  BY DEF CurHeld, ProcessSync, bufVars, inVars
<1>3. job'["main"] = StartJob(<<cur>>) /\ job'["flush"] = job["flush"]
  BY JobSet DEF TypeOK, ProcessSync
<1>4. active = <<>> /\ FlushBatch = <<>> /\ MainBatch = <<>>
  BY <1>2 DEF JobPlaces, FlushBatch, MainBatch
<1>5. Flight = {}
  BY <1>4, RecsOf DEF Flight
<1>6. MainBatch' = <<cur>> /\ FlushBatch' = FlushBatch
  BY <1>2, <1>3 DEF MainBatch, FlushBatch, StartJob
<1>7. InHand = {cur} /\ InHand' = {} /\ Open' = Open
  BY <1>1, <1>2 DEF InHand, Open
<1> QED BY <1>1, <1>2, <1>4, <1>5, <1>6, <1>7 DEF Alone

\* enqueue appends the record in hand.
LEMMA EnqueueAppended ==
    ASSUME PlacesInv, EnqueueAppend PROVE Appended
<1> USE DEF PlacesInv, Inv, Actors
<1>1. cur \in Record /\ cur # NoRec
  BY CurIsRecord DEF TypeOK, CurHeld, EnqueueAppend, Enqueueing
<1>2. /\ pc = "process" /\ k = "none" /\ k' = "none" /\ cur' = NoRec
      /\ UNCHANGED <<pbuf, next, job>> /\ active' = Append(active, cur)
  BY DEF CurHeld, EnqueueAppend, Enqueueing, Processed, append, inVars
<1> QED BY <1>1, <1>2 DEF Appended, InHand, Open, FlushBatch, MainBatch

\* The swap hands the buffer to the goroutine that flushes.
LEMMA SwapHandsOver ==
    ASSUME PlacesInv, Swap PROVE HandedOver
<1> USE DEF PlacesInv, Inv, Actors
<1>1. pc = "swap" /\ ~flushRunning /\ k \in {"tick", "retry", "big"} /\ UNCHANGED <<pbuf, next, cur>>
  BY DEF Swap, SwapTick, SwapRetry, SwapBig, inVars
<1>2. FlushBatch = <<>> /\ MainBatch = <<>> /\ job["main"].batch = <<>>
  BY <1>1, FlushIdle DEF JobPlaces, FlushBatch, MainBatch
<1>3. FlushBatch' = active /\ job'["main"] = job["main"]
  <2>1. CASE active = <<>>
    BY <1>2, <2>1 DEF Swap, StartFlush, FlushBatch
  <2>2. CASE active # <<>>
    <3>1. job'["flush"] = StartJob(active) /\ job'["main"] = job["main"]
      BY <2>2, JobSet DEF Swap, StartFlush, drain, TypeOK
    <3> QED BY <3>1 DEF FlushBatch, StartJob
  <2> QED BY <2>1, <2>2
<1>4. MainBatch' = <<>>
  BY <1>1, <1>2, <1>3 DEF MainBatch, Swap, SwapTick, SwapRetry, SwapBig
<1>5. \/ active' = <<>> /\ UNCHANGED InHand
      \/ InHand = {cur} /\ cur \in Record /\ active' = <<cur>> /\ InHand' = {}
  <2>1. CASE SwapTick \/ SwapRetry
    BY <1>1, <2>1 DEF SwapTick, SwapRetry, InHand
  <2>2. CASE SwapBig
    <3>1. cur # NoRec /\ cur \in Record
      BY <2>2 DEF SwapBig, CurHeld, TypeOK, MainOK
    <3> QED BY <2>2, <3>1 DEF SwapBig, InHand
  <2> QED BY <2>1, <2>2 DEF Swap
<1>6. Flight = {}
  BY <1>2, RecsOf DEF Flight
<1> QED BY <1>1, <1>3, <1>4, <1>5, <1>6 DEF HandedOver, Open

\* The shutdown hands it to Run's own goroutine.
LEMMA SyncFlushHandsOver ==
    ASSUME PlacesInv, SyncFlush PROVE HandedOver
<1> USE DEF PlacesInv, Inv, Actors
<1>1. /\ pc = "swap" /\ ~flushRunning /\ k = "sync" /\ k' = "sync" /\ active' = <<>>
      /\ UNCHANGED <<pbuf, next, cur>>
  BY DEF SyncFlush, Goto, inVars
<1>2. FlushBatch = <<>> /\ MainBatch = <<>>
  BY <1>1, FlushIdle DEF JobPlaces, FlushBatch, MainBatch
<1>3. job'["main"] = StartJob(active) /\ job'["flush"] = job["flush"]
  BY JobSet DEF TypeOK, SyncFlush, drain
<1>4. FlushBatch' = <<>> /\ MainBatch' = active
  BY <1>1, <1>2, <1>3 DEF FlushBatch, MainBatch, StartJob
<1>5. Flight = {}
  BY <1>2, RecsOf DEF Flight
<1> QED BY <1>1, <1>4, <1>5 DEF HandedOver, Open, InHand

\* The hibernated batch is none of the four places.
LEMMA DrainUnmoved ==
    ASSUME PlacesInv, DrainHibernateBatch PROVE Unmoved
<1> USE DEF PlacesInv, Inv, Actors
<1>1. k = "sync" /\ k' \in {"drain", "none"} /\ UNCHANGED <<active, pbuf, next, cur>>
  BY DEF DrainHibernateBatch, Places, Return, inVars, bufVars
<1>2. job'["flush"] = job["flush"]
  BY JobSet DEF TypeOK, DrainHibernateBatch
<1>3. MainBatch = <<>> /\ MainBatch' = <<>>
  BY <1>1 DEF DrainHibernateBatch, JobPlaces, MainBatch
<1> QED BY <1>1, <1>2, <1>3 DEF Unmoved, FlushBatch, Open, InHand

\* Run's goroutine takes the result of its own publish.
LEMMA FlushingLands ==
    ASSUME PlacesInv, FlushingDone
    PROVE  /\ k \in {"sync", "single"} => Landed /\ FlushBatch = <<>>
           /\ k = "drain" => Unmoved
<1> USE DEF PlacesInv, Inv, Actors
<1>1. pc = "flushing" /\ UNCHANGED <<active, pbuf, next>>
  BY DEF FlushingDone, inVars, bufVars
<1>2. job'["main"] = NoJob /\ job'["flush"] = job["flush"]
  BY JobSet DEF TypeOK, FlushingDone
<1>3. MainBatch' = <<>>
  BY <1>2 DEF MainBatch, NoJob
<1>4. CASE k = "sync"
  <2>1. FlushBatch = <<>>
    BY <1>1, <1>4 DEF FlushExclusive, SyncFlushing, JobPlaces, FlushBatch
  <2>2. UNCHANGED InHand
    BY <1>4 DEF FlushingDone, Return, Goto, InHand, Places
  <2> QED BY <1>1, <1>2, <1>3, <1>4, <2>1, <2>2 DEF Landed, FlushBatch, Open
<1>5. CASE k = "single"
  <2>1. FlushBatch = <<>>
    BY <1>5 DEF JobPlaces, FlushBatch
  <2>2. UNCHANGED InHand
    BY <1>5 DEF FlushingDone, Fail, Processed, InHand
  <2> QED BY <1>1, <1>2, <1>3, <1>5, <2>1, <2>2 DEF Landed, FlushBatch, Open
<1>6. CASE k = "drain"
  <2>1. UNCHANGED InHand
    BY <1>6 DEF FlushingDone, Return, InHand, Places
  <2>2. MainBatch = <<>>
    BY <1>6 DEF MainBatch
  <2> QED BY <1>1, <1>2, <1>3, <1>6, <2>1, <2>2 DEF Unmoved, FlushBatch, Open
<1> QED BY <1>4, <1>5, <1>6

\* The flush in progress is over.
LEMMA FlushLands ==
    ASSUME PlacesInv, FlushDone PROVE Landed /\ MainBatch = <<>>
<1> USE DEF PlacesInv, Inv, Actors
<1>1. job["flush"].step = "done" /\ UNCHANGED <<mainVars, inVars, active>>
  BY DEF FlushDone, At
<1>2. job'["flush"] = NoJob /\ job'["main"] = job["main"]
  BY JobSet DEF TypeOK, FlushDone
<1>3. MainBatch = <<>>
  BY <1>1 DEF MainBatch, JobPlaces, FlushExclusive, SyncFlushing
<1>4. MainBatch' = <<>> /\ FlushBatch' = <<>>
  BY <1>1, <1>2, <1>3 DEF MainBatch, FlushBatch, NoJob, mainVars
<1> QED BY <1>1, <1>3, <1>4 DEF Landed, Open, InHand, mainVars, inVars

\* The others touch none of the four places.
LEMMA OthersUnmoved ==
    ASSUME PlacesInv,
           WakeLoop \/ (\E a \in Actors : flushItems(a)) \/ Cancel \/ Scrape \/ activeBytes
               \/ UNCHANGED vars
    PROVE  Unmoved
<1> USE DEF PlacesInv, Inv, Actors
<1>1. UNCHANGED <<mainVars, inVars, active>>
  BY OthersAlone, FlushItemsAlone DEF vars, bufVars
<1>2. \A c \in {"main", "flush"} : job'[c].batch = job[c].batch
  <2>1. CASE \E a \in Actors : flushItems(a)
    BY <2>1, JobMoves DEF TypeOK
  <2>2. CASE WakeLoop
    BY <2>2, JobSet DEF TypeOK, WakeLoop, WakeTick, WakeCancelled, WakeDone, WakeLeaves
  <2>3. CASE Cancel \/ Scrape \/ activeBytes \/ UNCHANGED vars
    BY <2>3 DEF Cancel, Scrape, activeBytes, vars
  <2> QED BY <2>1, <2>2, <2>3
<1> QED BY <1>1, <1>2 DEF Unmoved, FlushBatch, MainBatch, InHand, Open, mainVars, inVars

\* Every step moves the lines in one of these ways.
Moves == Unmoved \/ LetGo \/ Taken \/ ReadLine \/ Alone \/ Appended \/ HandedOver \/ Landed

\* There is no other.
LEMMA NextMoves == ASSUME PlacesInv, [Next]_vars PROVE Moves
<1> USE DEF Moves
<1>1. CASE Select \/ SelectClosed
  BY <1>1, MainUnmoved, ParserTaken, LineRead DEF Select
<1>2. CASE Process
  BY <1>2, MainLetsGo, SyncAlone DEF Process
<1>3. CASE Enqueue
  BY <1>3, MainUnmoved, MainLetsGo, EnqueueAppended DEF Enqueue
<1>4. CASE Flusher
  BY <1>4, MainUnmoved, MainLetsGo, SwapHandsOver DEF Flusher
<1>5. CASE Shutting
  <2>1. CASE FlushingDone
    <3>1. k \in {"sync", "single", "drain"}
      BY <2>1 DEF FlushingDone
    <3> QED BY <2>1, <3>1, FlushingLands
  <2> QED BY <1>5, <2>1, MainUnmoved, ParserTaken, ParserEmpty, SyncFlushHandsOver, DrainUnmoved DEF Shutting
<1>6. CASE FlushDone
  BY <1>6, FlushLands
<1>7. CASE WakeLoop \/ (\E a \in Actors : flushItems(a)) \/ Cancel \/ Scrape \/ activeBytes
           \/ UNCHANGED vars
  BY <1>7, OthersUnmoved
<1> QED BY <1>1, <1>2, <1>3, <1>4, <1>5, <1>6, <1>7 DEF Next, Main

-----------------------------------------------------------------------------
(* File order.                                                             *)

Sorted(b) == \A i, j \in DOMAIN b : i < j => b[i].last < b[j].first
Before(S, T) == \A r \in S, t \in T : r.last < t.first

\* Each place is older than the next one, and all are older than what is still
\* in the channel.
Ordered ==
    /\ Sorted(FlushBatch) /\ Sorted(MainBatch) /\ Sorted(active)
    /\ FlushBatch = <<>> \/ MainBatch = <<>>
    /\ Before(Flight, Buffered) /\ Before(Flight, InHand) /\ Before(Flight, Open)
    /\ Before(Buffered, InHand) /\ Before(Buffered, Open) /\ Before(InHand, Open)
    /\ \A r \in Flight \cup Buffered \cup InHand \cup Open : r.first <= r.last /\ r.last < next

\* What is in the four places are records of the file.
LEMMA PlacesHoldRecords ==
    ASSUME Inv
    PROVE  /\ FlushBatch \in Batch /\ MainBatch \in Batch /\ active \in Batch
           /\ Flight \cup Buffered \cup InHand \cup Open \subseteq Record
           /\ \A r \in Record : r.first \in 1..N /\ r.last \in 1..N /\ r.first \in Int /\ r.last \in Int
           /\ next \in 1..N + 1 /\ next \in Int
<1> USE DEF Inv, TypeOK
<1>1. FlushBatch \in Batch /\ MainBatch \in Batch /\ active \in Batch
  BY JobBatch, EmptyBatch DEF FlushBatch, MainBatch, BufOK, Actors
<1>2. ASSUME NEW b \in Batch PROVE Recs(b) \subseteq Record
  BY DEF Recs, Batch
<1>3. Flight \cup Buffered \subseteq Record
  BY <1>1, <1>2 DEF Flight, Buffered
<1>4. InHand \cup Open \subseteq Record
  BY DEF MainOK, InOK, InHand, Open
<1>5. \A r \in Record : r.first \in 1..N /\ r.last \in 1..N
  BY DEF Record, Lines
<1>6. next \in 1..N + 1
  BY DEF InOK
<1> QED BY <1>1, <1>3, <1>4, <1>5, <1>6, Bounds

\* Short batches are sorted, and so is one that a later record is appended to.
LEMMA SortedSmall ==
    /\ Sorted(<<>>)
    /\ \A r : Sorted(<<r>>)
    /\ \A b \in Batch, r \in Record : Sorted(b) /\ Before(Recs(b), {r}) => Sorted(Append(b, r))
<1>1. Sorted(<<>>) /\ \A r : Sorted(<<r>>)
  BY DEF Sorted
<1>2. ASSUME NEW b \in Seq(Record), NEW r \in Record, Sorted(b), Before(Recs(b), {r})
      PROVE  Sorted(Append(b, r))
  <2>1. /\ DOMAIN b = 1..Len(b) /\ DOMAIN Append(b, r) = 1..Len(b) + 1 /\ Len(b) \in Nat
        /\ Append(b, r)[Len(b) + 1] = r
        /\ \A i \in 1..Len(b) : Append(b, r)[i] = b[i]
    BY AppendProperties
  <2>2. \A i \in 1..Len(b) : b[i].last < r.first
    BY <1>2, <2>1 DEF Before, Recs
  <2> DEFINE c == Append(b, r)
  <2>3. ASSUME NEW i \in DOMAIN c, NEW j \in DOMAIN c, i < j PROVE c[i].last < c[j].first
    <3>1. i \in 1..Len(b) /\ c[i] = b[i]
      BY <2>1, <2>3
    <3>2. CASE j \in 1..Len(b)
      BY <1>2, <2>1, <2>3, <3>1, <3>2 DEF Sorted
    <3>3. CASE j = Len(b) + 1
      BY <2>1, <2>2, <3>1, <3>3
    <3> QED BY <2>1, <3>2, <3>3
  <2> QED BY <2>3 DEF Sorted
<1> QED BY <1>1, <1>2 DEF Batch

\* The records of the places that are empty or have one record.
LEMMA PlaceRecs ==
    /\ FlushBatch = <<>> => Flight = Recs(MainBatch)
    /\ MainBatch = <<>> => Flight = Recs(FlushBatch)
    /\ FlushBatch' = <<>> => Flight' = Recs(MainBatch')
    /\ MainBatch' = <<>> => Flight' = Recs(FlushBatch')
BY RecsOf DEF Flight

\* Every step keeps the order.
LEMMA OrderedNext ==
    ASSUME Inv, Inv', Ordered, Moves PROVE Ordered'
<1>1. /\ FlushBatch \in Batch /\ MainBatch \in Batch /\ active \in Batch
      /\ Flight \cup Buffered \cup InHand \cup Open \subseteq Record
      /\ \A r \in Record : r.first \in Int /\ r.last \in Int
      /\ next \in Int
  BY PlacesHoldRecords
<1>2. CASE Unmoved
  BY <1>2 DEF Unmoved, Ordered, Flight, Buffered
<1>3. CASE LetGo
  <2>1. UNCHANGED <<Flight, Buffered>>
    BY <1>3 DEF LetGo, Flight, Buffered
  <2> QED BY <1>3, <2>1 DEF LetGo, Ordered, Before
<1>4. CASE Taken
  <2>1. UNCHANGED <<Flight, Buffered>>
    BY <1>4 DEF Taken, Flight, Buffered
  <2> QED BY <1>4, <2>1 DEF Taken, Ordered, Before
<1>5. CASE ReadLine
  <2>1. UNCHANGED <<Flight, Buffered>>
    BY <1>5 DEF ReadLine, Flight, Buffered
  <2>2. Line.first = next /\ Line.last = next
    BY DEF Line
  <2>3. \A r \in Flight \cup Buffered \cup InHand \cup Open : r.last < next /\ r.last < next'
    BY <1>1, <1>5 DEF ReadLine, Ordered
  <2>4. next' = next + 1 /\ next < next' /\ next <= next
    BY <1>1, <1>5 DEF ReadLine
  <2>5. CASE Whole
    BY <1>5, <2>1, <2>2, <2>3, <2>4, <2>5 DEF ReadLine, Whole, Ordered, Before
  <2>6. CASE Opens
    BY <1>5, <2>1, <2>2, <2>3, <2>4, <2>6 DEF ReadLine, Opens, Ordered, Before
  <2>7. CASE Extends
    <3> DEFINE r == [first |-> pbuf.first, last |-> next]
    <3>1. r.first = pbuf.first /\ r.last = next /\ Open' = {r} /\ Open = {pbuf}
      BY <2>7 DEF Extends
    <3>2. r.first <= r.last
      BY <1>1, <3>1 DEF Ordered
    <3> HIDE DEF r
    <3> QED BY <1>5, <2>1, <2>3, <2>4, <2>7, <3>1, <3>2 DEF ReadLine, Extends, Ordered, Before
  <2> QED BY <1>5, <2>5, <2>6, <2>7 DEF ReadLine
<1>6. CASE Alone
  <2>1. Flight' = {cur} /\ UNCHANGED Buffered /\ Buffered = {}
    BY <1>6, PlaceRecs, RecsOf DEF Alone, Buffered
  <2>2. Sorted(MainBatch')
    BY <1>6, SortedSmall DEF Alone
  <2> QED BY <1>6, <2>1, <2>2 DEF Alone, Ordered, Before
<1>7. CASE Appended
  <2>1. UNCHANGED Flight /\ Buffered' = Buffered \cup {cur}
    BY <1>1, <1>7, RecsOf DEF Appended, Flight, Buffered
  <2>2. Sorted(active')
    BY <1>1, <1>7, SortedSmall DEF Appended, Ordered, Buffered
  <2> QED BY <1>7, <2>1, <2>2 DEF Appended, Ordered, Before
<1>8. CASE HandedOver
  <2>1. Flight' = Buffered /\ Flight = {} /\ Sorted(FlushBatch') /\ Sorted(MainBatch')
        /\ (FlushBatch' = <<>> \/ MainBatch' = <<>>)
    BY <1>8, PlaceRecs, SortedSmall DEF HandedOver, Buffered, Ordered
  <2>2. Buffered' \subseteq InHand /\ InHand' \subseteq InHand /\ Sorted(active')
        /\ (Buffered' = {} \/ InHand' = {})
    BY <1>8, RecsOf, SortedSmall DEF HandedOver, Buffered
  <2> QED BY <1>8, <2>1, <2>2 DEF HandedOver, Ordered, Before
<1>9. CASE Landed
  <2>1. Flight' = {} /\ UNCHANGED Buffered
    BY <1>9, PlaceRecs, RecsOf DEF Landed, Buffered
  <2> QED BY <1>9, <2>1, SortedSmall DEF Landed, Ordered, Before
<1> QED BY <1>2, <1>3, <1>4, <1>5, <1>6, <1>7, <1>8, <1>9 DEF Moves

\* The order holds at the start.
LEMMA OrderedInit == Init => Ordered
<1> SUFFICES ASSUME Init PROVE Ordered
  OBVIOUS
<1>1. FlushBatch = <<>> /\ MainBatch = <<>> /\ active = <<>> /\ InHand = {} /\ Open = {}
  BY DEF Init, FlushBatch, MainBatch, InHand, Open, NoJob, Actors
<1>2. Flight = {} /\ Buffered = {}
  BY <1>1, RecsOf DEF Flight, Buffered
<1> QED BY <1>1, <1>2, SortedSmall DEF Ordered, Before

\* In every configuration the records on their way through the buffer are in
\* order; a batch that hibernation put aside has left that way.
THEOREM PipelineOrdered == Spec => [](PlacesInv /\ Ordered)
<1>1. Init => PlacesInv /\ Ordered
  BY InitInv, PlacesInit, OrderedInit DEF PlacesInv
<1>2. PlacesInv /\ Ordered /\ [Next]_vars => (PlacesInv /\ Ordered)'
  BY PlacesNext, NextMoves, OrderedNext DEF PlacesInv
<1> QED BY <1>1, <1>2, PTL DEF Spec

\* A sorted batch before a sorted batch is a sorted batch.
LEMMA SortedConcat ==
    ASSUME NEW s \in Batch, NEW t \in Batch, Sorted(s), Sorted(t), Before(Recs(s), Recs(t))
    PROVE  s \o t \in Batch /\ Sorted(s \o t) /\ Recs(s \o t) = Recs(s) \cup Recs(t)
<1>1. s \in Seq(Record) /\ t \in Seq(Record)
  BY DEF Batch
<1> DEFINE u == s \o t
<1>2. /\ u \in Seq(Record) /\ Len(u) = Len(s) + Len(t) /\ Len(s) \in Nat /\ Len(t) \in Nat
      /\ \A i \in 1..Len(s) + Len(t) : u[i] = IF i <= Len(s) THEN s[i] ELSE t[i - Len(s)]
  BY <1>1, ConcatProperties
<1> HIDE DEF u
<1>3. /\ DOMAIN s = 1..Len(s) /\ DOMAIN t = 1..Len(t) /\ DOMAIN u = 1..Len(s) + Len(t)
  BY <1>1, <1>2
<1>4. \A i \in 1..Len(s) : i \in DOMAIN u /\ u[i] = s[i]
  BY <1>2, <1>3
<1>5. \A i \in 1..Len(t) : i + Len(s) \in DOMAIN u /\ u[i + Len(s)] = t[i]
  <2> TAKE i \in 1..Len(t)
  <2>1. i + Len(s) \in 1..Len(s) + Len(t) /\ ~(i + Len(s) <= Len(s)) /\ i + Len(s) - Len(s) = i
    BY <1>2
  <2> QED BY <1>2, <1>3, <2>1
<1>6. \A i \in DOMAIN u : \/ i \in 1..Len(s)
                          \/ i > Len(s) /\ i - Len(s) \in 1..Len(t) /\ u[i] = t[i - Len(s)]
  BY <1>2, <1>3
<1>7. Recs(u) = Recs(s) \cup Recs(t)
  <2>1. ASSUME NEW i \in DOMAIN u PROVE u[i] \in Recs(s) \cup Recs(t)
    BY <1>3, <1>4, <1>6 DEF Recs
  <2>2. ASSUME NEW i \in DOMAIN s PROVE s[i] \in Recs(u)
    BY <1>3, <1>4 DEF Recs
  <2>3. ASSUME NEW i \in DOMAIN t PROVE t[i] \in Recs(u)
    <3>1. i + Len(s) \in DOMAIN u /\ u[i + Len(s)] = t[i]
      BY <1>3, <1>5
    <3> QED BY <3>1, Zenon DEF Recs
  <2> QED BY <2>1, <2>2, <2>3 DEF Recs
<1>8. ASSUME NEW i \in DOMAIN u, NEW j \in DOMAIN u, i < j PROVE u[i].last < u[j].first
  <2>0. i \in Int /\ j \in Int /\ Len(s) \in Int
    BY <1>2, <1>3
  <2>1. CASE j \in 1..Len(s)
    <3>1. i \in 1..Len(s)
      BY <1>3, <1>8, <2>0, <2>1
    <3> QED BY <1>3, <1>4, <1>8, <2>1, <3>1 DEF Sorted
  <2>2. CASE j > Len(s) /\ j - Len(s) \in 1..Len(t) /\ u[j] = t[j - Len(s)]
    <3>1. CASE i \in 1..Len(s)
      BY <1>3, <1>4, <2>2, <3>1 DEF Before, Recs
    <3>2. CASE i > Len(s) /\ i - Len(s) \in 1..Len(t) /\ u[i] = t[i - Len(s)]
      <4>1. i - Len(s) < j - Len(s)
        BY <1>8, <2>0
      <4> QED BY <1>3, <2>2, <3>2, <4>1 DEF Sorted
    <3> QED BY <1>6, <3>1, <3>2
  <2> QED BY <1>6, <2>1, <2>2
<1> QED BY <1>2, <1>7, <1>8 DEF u, Sorted, Batch

\* The four places in a row are the records in memory.
LEMMA MemoryInOrder == ASSUME Inv, Ordered PROVE InOrder /\ Recs(InMemory) = Flight \cup Buffered \cup InHand \cup Open
<1> DEFINE hand == IF k \in {"bigwait", "single"} THEN <<>> ELSE Held(cur)
<1>1. FlushBatch \in Batch /\ MainBatch \in Batch /\ active \in Batch
  BY PlacesHoldRecords
<1>2. hand \in Batch /\ Sorted(hand) /\ Recs(hand) = InHand
  BY RecsOf, SortedSmall, EmptyBatch, OneBatch DEF Held, InHand, Inv, TypeOK, MainOK
<1>3. Held(pbuf) \in Batch /\ Sorted(Held(pbuf)) /\ Recs(Held(pbuf)) = Open
  BY RecsOf, SortedSmall, EmptyBatch, OneBatch DEF Held, Open, Inv, TypeOK, InOK
<1> HIDE DEF hand
<1> DEFINE b1 == FlushBatch \o MainBatch
           b2 == b1 \o active
           b3 == b2 \o hand
           b4 == b3 \o Held(pbuf)
<1>4. b1 \in Batch /\ Sorted(b1) /\ Recs(b1) = Flight
  BY <1>1, SortedConcat, RecsOf DEF Ordered, Flight, Before
<1> HIDE DEF b1
<1>5. b2 \in Batch /\ Sorted(b2) /\ Recs(b2) = Flight \cup Buffered
  BY <1>1, <1>4, SortedConcat DEF Ordered, Buffered
<1> HIDE DEF b2
<1>6. b3 \in Batch /\ Sorted(b3) /\ Recs(b3) = Flight \cup Buffered \cup InHand
  <2>1. Before(Recs(b2), Recs(hand))
    BY <1>2, <1>5 DEF Ordered, Before
  <2> QED BY <1>2, <1>5, <2>1, SortedConcat
<1> HIDE DEF b3
<1>7. b4 \in Batch /\ Sorted(b4) /\ Recs(b4) = Flight \cup Buffered \cup InHand \cup Open
  <2>1. Before(Recs(b3), Recs(Held(pbuf)))
    BY <1>3, <1>6 DEF Ordered, Before
  <2> QED BY <1>3, <1>6, <2>1, SortedConcat
<1>8. InMemory = b4
  BY Zenon DEF InMemory, b1, b2, b3, b4, hand, FlushBatch, MainBatch
<1> HIDE DEF b4
<1> QED BY <1>7, <1>8 DEF InOrder, Sorted

-----------------------------------------------------------------------------
(* Configurations in which no batch is put aside.                          *)

\* Without batching there is nothing to put aside; with dead letters a batch
\* that fails is written out; and a batch that is retried without limit, in a
\* process that nothing cancels, does not fail.  Otherwise hibernation keeps a
\* batch aside while later ones overtake it.
NoHold == \/ ~BatchEnabled
          \/ OnFlushFailure = "dead_letter"
          \/ MaxAttempts = 0 /\ CanStop # "cancel"

\* No batch is put aside, so the wake loop has none to publish.
NothingHeld ==
    /\ hibernateBatch = <<>> /\ job["wake"].step = "none" /\ k # "drain"
    /\ cancelled => CanStop = "cancel"
    /\ \A a \in Actors : job[a].step = "failed" => ~BatchEnabled \/ OnFlushFailure = "dead_letter"

\* What a step inside flushItems makes of its call.
LEMMA JobTo ==
    ASSUME JobOK, NEW a \in Actors, NEW l, To(a, l)
    PROVE  job'[a].step = l /\ job'[a].err = job[a].err
BY DEF JobOK, Job, To

\* The same when it is done.
LEMMA JobDone ==
    ASSUME JobOK, NEW a \in Actors, NEW e, Done(a, e)
    PROVE  job'[a].step = "done" /\ job'[a].err = e
BY DEF JobOK, Job, Done

\* The steps inside flushItems as they follow each other.
LEMMA JobOrder ==
    ASSUME JobOK, NEW a \in Actors, flushItems(a)
    PROVE  \/ job[a].step = "publish" /\ job'[a].step \in {"advance", "failed", "backoff"}
           \/ job[a].step = "backoff" /\ job'[a].step \in {"publish", "failed"}
           \/ job[a].step = "advance" /\ job'[a].step \in {"published", "done"}
           \/ job[a].step = "published" /\ job'[a].step = "done"
           \/ job[a].step = "failed" /\ job'[a].step \in {"spilled", "done"}
           \/ job[a].step = "spilled" /\ job'[a].step \in {"counted", "done"}
           \/ job[a].step = "counted" /\ job'[a].step = "done"
<1>1. CASE PublishOk(a) \/ PublishFails(a)
  BY <1>1, JobTo DEF PublishOk, PublishFails, At
<1>2. CASE BackoffOver(a)
  BY <1>2 DEF BackoffOver, At, JobOK, Job
<1>3. CASE BackoffCancelled(a)
  BY <1>3, JobTo DEF BackoffCancelled, At
<1>4. CASE AdvancePublished(a) \/ AdvanceSpilled(a)
  BY <1>4, JobTo DEF AdvancePublished, AdvanceSpilled, Advance, At
<1>5. CASE AdvancePublishedFails(a) \/ AdvanceSpilledFails(a)
  BY <1>5, JobDone DEF AdvancePublishedFails, AdvanceSpilledFails, AdvanceFails, At
<1>6. CASE exitHibernate(a) \/ FailedSync(a) \/ FailedHibernates(a) \/ CountSpilled(a)
           \/ FailedDeadLetterFails(a)
  BY <1>6, JobDone DEF exitHibernate, FailedSync, FailedHibernates, CountSpilled,
     FailedDeadLetterFails, At
<1>7. CASE FailedDeadLetter(a)
  BY <1>7, JobTo DEF FailedDeadLetter, At
<1> QED BY <1>1, <1>2, <1>3, <1>4, <1>5, <1>6, <1>7 DEF flushItems

\* Nothing is put aside at the start ...
LEMMA NothingHeldInit == Init => NothingHeld
<1> SUFFICES ASSUME Init PROVE NothingHeld
  OBVIOUS
<1>1. \A a \in Actors : job[a].step = "none"
  BY DEF Init, NoJob
<1> QED BY <1>1 DEF Init, NothingHeld, Actors

\* ... nor by any step.
LEMMA NothingHeldNext ==
    ASSUME NoHold, PlacesInv, NothingHeld, [Next]_vars PROVE NothingHeld'
<1> USE DEF Actors
<1>0. JobOK /\ HibOK
  BY DEF PlacesInv, Inv, TypeOK
<1>1. ASSUME UNCHANGED <<hibVars, envVars>>, k' # "drain",
             \/ UNCHANGED job
             \/ \E a \in {"main", "flush"} : \E b : job' = [job EXCEPT ![a] = StartJob(b)]
             \/ \E a \in {"main", "flush"} : job' = [job EXCEPT ![a] = NoJob]
      PROVE  NothingHeld'
  <2>1. CASE UNCHANGED job
    BY <1>1, <2>1 DEF NothingHeld, hibVars, envVars
  <2>2. CASE \E a \in {"main", "flush"} : \E v : /\ job' = [job EXCEPT ![a] = v]
                                                 /\ v.step \in {"publish", "none"}
    <3>0. PICK a \in {"main", "flush"} : \E v : job' = [job EXCEPT ![a] = v] /\ v.step \in {"publish", "none"}
      BY <2>2
    <3>1. PICK v : job' = [job EXCEPT ![a] = v] /\ v.step \in {"publish", "none"}
      BY <3>0
    <3>2. job'[a] = v /\ \A c \in Actors \ {a} : job'[c] = job[c]
      BY <1>0, <3>1, JobSet
    <3> QED BY <1>1, <3>1, <3>2 DEF NothingHeld, hibVars, envVars
  <2>3. NoJob.step = "none" /\ \A b : StartJob(b).step = "publish"
    BY DEF NoJob, StartJob
  <2> QED BY <1>1, <2>1, <2>2, <2>3
<1>2. CASE Select \/ SelectClosed
  BY <1>1, <1>2 DEF NothingHeld, Select, SelectDone, SelectClosed, SelectTick, SelectIdle, SelectLine,
     Shutdown, Await
<1>3. CASE ProcessRejected \/ ProcessDropped \/ ProcessSync
  BY <1>1, <1>3 DEF NothingHeld, ProcessRejected, ProcessDropped, ProcessSync, Fail, Processed
<1>4. CASE ProcessDroppedFails
  BY <1>4 DEF NothingHeld, ProcessDroppedFails, Fail, hibVars
<1>5. CASE Enqueue
  BY <1>1, <1>5 DEF NothingHeld, Enqueue, EnqueueHibernating, HibernateOver, HibernateCancelled,
     EnqueueSwap, EnqueueAppend, Goto, Fail, Await, Processed
<1>6. CASE Flusher
  BY <1>1, <1>6 DEF NothingHeld, Flusher, WaitStarts, WaitCancelled, WaitFailed, WaitOver, BigWaitOver,
     Swap, SwapTick, SwapRetry, SwapBig, StartFlush, drain, Goto, Fail, Processed
<1>7. CASE ShutdownParser \/ Stop \/ SyncFlush \/ SyncFlushOver
  BY <1>1, <1>7 DEF NothingHeld, ShutdownParser, Stop, SyncFlush, SyncFlushOver, drain, Goto, Await, Return
<1>8. CASE DrainHibernateBatch
  BY <1>1, <1>8 DEF NothingHeld, DrainHibernateBatch, Return
<1>9. CASE FlushingDone
  BY <1>1, <1>9 DEF NothingHeld, FlushingDone, Fail, Processed, Return, Goto
<1>10. CASE FlushDone
  BY <1>1, <1>10 DEF NothingHeld, FlushDone, mainVars
<1>11. CASE WakeLoop
  <2>1. UNCHANGED <<job, hibernateBatch, mainVars, envVars>>
    BY <1>11 DEF NothingHeld, WakeLoop, WakeTick, WakeCancelled, WakeDone, WakeLeaves, At
  <2> QED BY <2>1 DEF NothingHeld, mainVars, envVars
<1>12. CASE \E a \in Actors : flushItems(a)
  <2>1. PICK a \in Actors : flushItems(a)
    BY <1>12
  <2>2. a # "wake" /\ job'["wake"].step = "none" /\ \A c \in Actors \ {a} : job'[c] = job[c]
    BY <1>0, <2>1, JobMoves DEF NothingHeld
  <2>3. UNCHANGED <<mainVars, cancelled>>
    BY <2>1, FlushItemsAlone DEF flushItems, PublishOk, PublishFails, BackoffOver, BackoffCancelled,
       AdvancePublished, AdvancePublishedFails, exitHibernate, FailedSync, FailedHibernates,
       FailedDeadLetter, FailedDeadLetterFails, AdvanceSpilled, AdvanceSpilledFails, CountSpilled,
       Advance, AdvanceFails, envVars
  <2>4. hibernateBatch' = <<>>
    <3>1. CASE exitHibernate(a)
      BY <3>1 DEF NothingHeld, exitHibernate, hibVars
    <3>2. CASE CountSpilled(a)
      BY <3>2 DEF NothingHeld, CountSpilled, enterHibernate
    <3>3. CASE ~exitHibernate(a) /\ ~CountSpilled(a)
      <4>1. ~FailedHibernates(a)
        BY DEF NothingHeld, FailedHibernates, At
      <4> QED BY <2>1, <3>3, <4>1 DEF NothingHeld, flushItems, PublishOk, PublishFails, BackoffOver,
         BackoffCancelled, AdvancePublished, AdvancePublishedFails, FailedSync, FailedDeadLetter,
         FailedDeadLetterFails, AdvanceSpilled, AdvanceSpilledFails, Advance, AdvanceFails, hibVars
    <3> QED BY <3>1, <3>2, <3>3
  <2>5. job'[a].step = "failed" => ~BatchEnabled \/ OnFlushFailure = "dead_letter"
    <3>1. job'[a].step = "failed" => MaxAttempts > 0 \/ cancelled
      <4>1. CASE PublishFails(a)
        BY <1>0, <4>1, JobTo DEF PublishFails
      <4>2. CASE BackoffCancelled(a)
        BY <4>2 DEF BackoffCancelled
      <4>3. CASE PublishOk(a)
        BY <1>0, <4>3, JobTo DEF PublishOk
      <4>4. CASE BackoffOver(a)
        BY <1>0, <4>4 DEF BackoffOver, JobOK, Job
      <4>5. CASE job[a].step \notin {"publish", "backoff"}
        BY <1>0, <2>1, <4>5, JobOrder
      <4>6. job[a].step \in {"publish", "backoff"} =>
                PublishFails(a) \/ BackoffCancelled(a) \/ PublishOk(a) \/ BackoffOver(a)
        BY <2>1 DEF flushItems, AdvancePublished, AdvancePublishedFails, exitHibernate, FailedSync,
           FailedHibernates, FailedDeadLetter, FailedDeadLetterFails, AdvanceSpilled,
           AdvanceSpilledFails, CountSpilled, At
      <4> QED BY <4>1, <4>2, <4>3, <4>4, <4>5, <4>6
    <3> QED BY <3>1, Bounds DEF NoHold, NothingHeld
  <2> QED BY <2>2, <2>3, <2>4, <2>5 DEF NothingHeld, mainVars
<1>13. CASE Cancel \/ Scrape \/ activeBytes \/ UNCHANGED vars
  BY <1>13 DEF NothingHeld, Cancel, Scrape, activeBytes, vars, mainVars, hibVars, envVars
<1> QED BY <1>2, <1>3, <1>4, <1>5, <1>6, <1>7, <1>8, <1>9, <1>10, <1>11, <1>12, <1>13
   DEF Next, Main, Process, Shutting

\* Where no batch is put aside, records reach the sink in file order: no goroutine
\* publishes a batch that left this order, and of the places on the way a batch in
\* flight is older than the buffer, the buffer than the record in process, that
\* than the parser's (publish_flusher.go:40-75, 139-175, pipeline.go:196-231).
THEOREM PipelineInOrder ==
    ASSUME NoHold
    PROVE  Spec => [](InOrder /\ hibernateBatch = <<>> /\ job["wake"].step = "none" /\ k # "drain")
<1> DEFINE I == PlacesInv /\ Ordered /\ NothingHeld
<1>1. Init => I
  BY InitInv, PlacesInit, OrderedInit, NothingHeldInit DEF PlacesInv
<1>2. I /\ [Next]_vars => I'
  BY PlacesNext, NextMoves, OrderedNext, NothingHeldNext DEF PlacesInv
<1>3. I => InOrder /\ hibernateBatch = <<>> /\ job["wake"].step = "none" /\ k # "drain"
  BY MemoryInOrder DEF PlacesInv, NothingHeld
<1> QED BY <1>1, <1>2, <1>3, PTL DEF Spec

-----------------------------------------------------------------------------
(* The watermark.                                                          *)

\* With batching, a record that is filtered out moves the watermark at once,
\* past the records still in the buffer.
PassOver == BatchEnabled => Dropped = {}

\* Whether what is in flight has not yet moved the watermark.
Pending == \E a \in {"flush", "main"} :
               job[a].step \in {"publish", "backoff", "failed", "advance", "spilled"}

\* The watermark is behind everything in memory that has still to move it.
Ahead == /\ wm < next
         /\ \A r \in Buffered \cup InHand \cup Open : wm < r.first
         /\ Pending => \A r \in Flight : wm < r.first

\* Only one goroutine has something in flight, and that is all there is.
LEMMA SoleFlight ==
    ASSUME PlacesInv, NothingHeld, NEW a \in Actors, job[a].step # "none"
    PROVE  /\ a \in {"flush", "main"}
           /\ \A c \in Actors \ {a} : job[c].step = "none"
           /\ Flight = Recs(job[a].batch)
<1> USE DEF PlacesInv, Actors
<1>1. a \in {"flush", "main"}
  BY DEF NothingHeld
<1>2. CASE a = "main"
  <2>1. pc = "flushing" /\ k \in {"sync", "single"}
    BY <1>2 DEF JobPlaces, Places, NothingHeld
  <2>2. job["flush"].step = "none"
    BY <1>2, <2>1 DEF JobPlaces, Inv, FlushExclusive, SyncFlushing
  <2>3. FlushBatch = <<>> /\ MainBatch = job["main"].batch
    BY <2>1, <2>2 DEF JobPlaces, FlushBatch, MainBatch
  <2> QED BY <1>2, <2>2, <2>3, PlaceRecs DEF NothingHeld
<1>3. CASE a = "flush"
  <2>1. job["main"].step = "none"
    BY <1>3 DEF JobPlaces, Places, NothingHeld, Inv, FlushExclusive, SyncFlushing
  <2>2. MainBatch = <<>> /\ FlushBatch = job["flush"].batch
    BY <2>1 DEF JobPlaces, FlushBatch, MainBatch
  <2> QED BY <1>3, <2>1, <2>2, PlaceRecs DEF NothingHeld
<1> QED BY <1>1, <1>2, <1>3

\* A record is discarded: without batching there is nothing before it.
Discards == /\ LetGo /\ InHand = {cur} /\ cur \in Record /\ Flight = {} /\ Buffered = {}
            /\ wm' = cur.last /\ discarded' = discarded \cup (cur.first..cur.last)
            /\ UNCHANGED job

\* What is in flight moves the watermark, to the end of one of its records.
Advances(a, r) == /\ job[a].step \in {"advance", "spilled"} /\ r \in Flight /\ wm' = r.last
                  /\ Unmoved /\ ~Pending'
                  /\ Flight = Recs(job[a].batch)

\* A dropped record is discarded in this sense.
LEMMA DroppedDiscards ==
    ASSUME PassOver, PlacesInv, ProcessDropped \/ ProcessDroppedFails PROVE Discards
<1> USE DEF PlacesInv, Inv
<1>1. LetGo
  BY MainLetsGo
<1>2. cur \in Record /\ cur # NoRec /\ k = "none"
  BY CurIsRecord DEF TypeOK, CurHeld, ProcessDropped, ProcessDroppedFails
<1>3. ~BatchEnabled
  BY DEF PassOver, ProcessDropped, ProcessDroppedFails
<1>4. active = <<>> /\ FlushBatch = <<>> /\ MainBatch = <<>>
  BY <1>2, <1>3 DEF JobPlaces, FlushBatch, MainBatch, Actors
<1>5. Flight = {} /\ Buffered = {}
  BY <1>4, RecsOf DEF Flight, Buffered
<1>6. InHand = {cur}
  BY <1>2 DEF InHand
<1> QED BY <1>1, <1>2, <1>5, <1>6 DEF Discards, ProcessDropped, ProcessDroppedFails

\* advanceWatermarks moves the watermark in this sense.
LEMMA AdvanceAdvances ==
    ASSUME PlacesInv, NothingHeld, NEW a \in Actors,
           AdvancePublished(a) \/ AdvancePublishedFails(a) \/ AdvanceSpilled(a) \/ AdvanceSpilledFails(a)
    PROVE  \E r \in Flight : Advances(a, r)
<1>0. flushItems(a) /\ JobOK /\ Inv
  BY DEF flushItems, PlacesInv, Inv, TypeOK
<1>1. job[a].step \in {"advance", "spilled"}
  BY DEF AdvancePublished, AdvancePublishedFails, AdvanceSpilled, AdvanceSpilledFails, At
<1>2. Flight = Recs(job[a].batch) /\ \A c \in Actors \ {a} : job[c].step = "none"
  BY <1>1, SoleFlight
<1>3. Unmoved
  BY <1>0, OthersUnmoved
<1>4. job'[a].step \in {"published", "counted", "done"} /\ \A c \in Actors \ {a} : job'[c] = job[c]
  BY <1>0, <1>1, JobOrder, JobMoves
<1>5. ~Pending'
  BY <1>2, <1>4 DEF Pending, Actors
<1>6. \E i \in DOMAIN job[a].batch : wm' = job[a].batch[i].last
  <2>1. Len(job[a].batch) \in DOMAIN job[a].batch
    <3>1. job[a].batch \in Seq(Record) /\ job[a].batch # <<>>
      BY <1>0, <1>1, JobBatch DEF Inv, JobsCarry, Batch
    <3> QED BY <3>1
  <2> QED BY <2>1 DEF AdvancePublished, AdvancePublishedFails, AdvanceSpilled, AdvanceSpilledFails,
     Advance, AdvanceFails
<1>7. \E r \in Flight : wm' = r.last
  BY <1>2, <1>6 DEF Recs
<1> QED BY <1>1, <1>2, <1>3, <1>5, <1>7 DEF Advances

\* The watermark moves in these two ways only, and a batch is still to move it
\* only if it was before or has just been made up.
LEMMA WatermarkMoves ==
    ASSUME PassOver, PlacesInv, NothingHeld, [Next]_vars
    PROVE  \/ Discards
           \/ \E a \in Actors : \E r \in Flight : Advances(a, r)
           \/ /\ UNCHANGED wm
              /\ (Pending' => Pending) \/ Alone \/ HandedOver
<1>0. JobOK
  BY DEF PlacesInv, Inv, TypeOK
<1>1. CASE ProcessDropped \/ ProcessDroppedFails
  BY <1>1, DroppedDiscards
<1>2. CASE ProcessSync
  BY <1>2, SyncAlone DEF ProcessSync, outVars
<1>3. CASE Swap \/ SyncFlush
  BY <1>3, SwapHandsOver, SyncFlushHandsOver DEF Swap, SyncFlush, outVars
<1>4. CASE Select \/ SelectClosed \/ ProcessRejected \/ Enqueue
  <2>1. UNCHANGED <<wm, job>>
    BY <1>4 DEF Select, SelectDone, SelectClosed, SelectTick, SelectIdle, SelectLine, ProcessRejected,
       Enqueue, EnqueueHibernating, HibernateOver, HibernateCancelled, EnqueueSwap, EnqueueAppend, outVars
  <2> QED BY <2>1 DEF Pending
<1>5. CASE WaitStarts \/ WaitCancelled \/ WaitFailed \/ WaitOver \/ BigWaitOver \/ ShutdownParser \/ Stop
           \/ SyncFlushOver \/ DrainHibernateBatch
  <2>1. UNCHANGED <<wm, job>>
    BY <1>5 DEF NothingHeld, WaitStarts, WaitCancelled, WaitFailed, WaitOver, BigWaitOver, ShutdownParser,
       Stop, SyncFlushOver, DrainHibernateBatch, outVars
  <2> QED BY <2>1 DEF Pending
<1>6. CASE FlushingDone \/ FlushDone
  <2>1. UNCHANGED wm /\ \E a \in {"main", "flush"} : job' = [job EXCEPT ![a] = NoJob]
    BY <1>6 DEF FlushingDone, FlushDone, outVars
  <2>2. \A c \in {"main", "flush"} : job'[c] = NoJob \/ job'[c] = job[c]
    BY <1>0, <2>1, JobSet DEF Actors
  <2>3. NoJob.step = "none"
    BY DEF NoJob
  <2> QED BY <2>1, <2>2, <2>3 DEF Pending
<1>7. CASE WakeLoop \/ Cancel \/ Scrape \/ activeBytes \/ UNCHANGED vars
  <2>1. UNCHANGED <<wm, job>>
    BY <1>7 DEF NothingHeld, WakeLoop, WakeTick, WakeCancelled, WakeDone, WakeLeaves, At, Cancel, Scrape,
       activeBytes, vars, outVars
  <2> QED BY <2>1 DEF Pending
<1>8. CASE \E a \in Actors : flushItems(a)
  <2>1. PICK a \in Actors : flushItems(a)
    BY <1>8
  <2>2. CASE AdvancePublished(a) \/ AdvancePublishedFails(a) \/ AdvanceSpilled(a) \/ AdvanceSpilledFails(a)
    BY <2>2, AdvanceAdvances
  <2>3. CASE ~(AdvancePublished(a) \/ AdvancePublishedFails(a) \/ AdvanceSpilled(a) \/ AdvanceSpilledFails(a))
    <3>1. UNCHANGED wm
      BY <2>1, <2>3 DEF flushItems, PublishOk, PublishFails, BackoffOver, BackoffCancelled, exitHibernate,
         FailedSync, FailedHibernates, FailedDeadLetter, FailedDeadLetterFails, CountSpilled, outVars
    <3>2. Pending' => Pending
      <4>1. \A c \in Actors \ {a} : job'[c] = job[c]
        BY <1>0, <2>1, JobMoves
      <4> QED BY <1>0, <2>1, <4>1, JobOrder DEF Pending, Actors
    <3> QED BY <3>1, <3>2
  <2> QED BY <2>2, <2>3
<1> QED BY <1>1, <1>2, <1>3, <1>4, <1>5, <1>6, <1>7, <1>8 DEF Next, Main, Process, Flusher, Shutting

\* The watermark stays behind what has still to move it, and does not go back.
LEMMA AheadNext ==
    ASSUME PassOver, PlacesInv, Ordered, NothingHeld, Ahead, [Next]_vars
    PROVE  Ahead' /\ wm' >= wm
<1>1. /\ Flight \cup Buffered \cup InHand \cup Open \subseteq Record
      /\ \A r \in Record : r.first \in Int /\ r.last \in Int
      /\ next \in Int /\ wm \in Int /\ active \in Batch
  BY PlacesHoldRecords, Bounds DEF PlacesInv, Inv, TypeOK, OutOK
<1>2. CASE Discards
  <2>1. UNCHANGED <<Flight, Buffered>>
    BY <1>2 DEF Discards, LetGo, Flight, Buffered
  <2>2. wm' > wm /\ wm' < next' /\ \A r \in Open' : wm' < r.first
    BY <1>1, <1>2 DEF Discards, LetGo, Ordered, Before, Ahead
  <2>3. wm' >= wm
    BY <1>1, <1>2, <2>2 DEF Discards
  <2> QED BY <1>2, <2>1, <2>2, <2>3 DEF Discards, LetGo, Ahead
<1>3. CASE \E a \in Actors : \E r \in Flight : Advances(a, r)
  <2>1. PICK a \in Actors, r \in Flight : Advances(a, r)
    BY <1>3
  <2>2. r.first <= r.last /\ r.last < next /\ wm < r.first
    <3>1. Pending
      <4>1. a \in {"flush", "main"}
        BY <2>1, SoleFlight DEF Advances
      <4> QED BY <2>1, <4>1 DEF Advances, Pending
    <3> QED BY <2>1, <3>1 DEF Ahead, Ordered
  <2>3. wm' = r.last /\ wm' >= wm /\ wm' < next
    BY <1>1, <2>1, <2>2 DEF Advances
  <2>4. UNCHANGED <<Buffered, InHand, Open, next>> /\ ~Pending'
    BY <2>1 DEF Advances, Unmoved, Buffered
  <2>5. \A t \in Buffered \cup InHand \cup Open : r.last < t.first
    BY <2>1 DEF Ordered, Before
  <2> QED BY <2>3, <2>4, <2>5 DEF Ahead
<1>4. CASE UNCHANGED wm /\ ((Pending' => Pending) \/ Alone \/ HandedOver)
  <2>0. wm' >= wm
    BY <1>1, <1>4
  <2>1. CASE Alone
    <3>1. Flight' = {cur} /\ UNCHANGED Buffered
      BY <2>1, PlaceRecs, RecsOf DEF Alone, Buffered
    <3> QED BY <1>4, <2>0, <2>1, <3>1 DEF Alone, Ahead
  <2>2. CASE HandedOver
    <3>1. Flight' = Buffered /\ Buffered' \subseteq InHand /\ InHand' \subseteq InHand
      BY <2>2, PlaceRecs, RecsOf DEF HandedOver, Buffered
    <3> QED BY <1>4, <2>0, <2>2, <3>1 DEF HandedOver, Ahead
  <2>3. CASE Pending' => Pending
    <3>1. Moves
      BY NextMoves
    <3>2. CASE Unmoved
      BY <1>4, <2>0, <2>3, <3>2 DEF Unmoved, Ahead, Flight, Buffered
    <3>3. CASE LetGo \/ Taken
      <4>1. UNCHANGED <<Flight, Buffered>>
        BY <3>3 DEF LetGo, Taken, Flight, Buffered
      <4> QED BY <1>4, <2>0, <2>3, <3>3, <4>1 DEF LetGo, Taken, Ahead
    <3>4. CASE ReadLine
      <4>1. UNCHANGED <<Flight, Buffered>> /\ next' = next + 1
        BY <3>4 DEF ReadLine, Flight, Buffered
      <4>2. \A r \in InHand' \cup Open' : wm < r.first
        <5>1. Line.first = next /\ [first |-> pbuf.first, last |-> next].first = pbuf.first
          BY DEF Line
        <5>2. Open = {pbuf} => wm < pbuf.first
          BY DEF Ahead
        <5> QED BY <3>4, <5>1, <5>2 DEF ReadLine, Whole, Opens, Extends, Ahead
      <4>3. wm < next'
        BY <1>1, <4>1 DEF Ahead
      <4> QED BY <1>4, <2>0, <2>3, <4>1, <4>2, <4>3 DEF Ahead
    <3>5. CASE Appended
      <4>1. UNCHANGED Flight /\ Buffered' = Buffered \cup {cur}
        BY <1>1, <3>5, RecsOf DEF Appended, Flight, Buffered
      <4> QED BY <1>4, <2>0, <2>3, <3>5, <4>1 DEF Appended, Ahead
    <3>6. CASE Landed
      <4>1. Flight' = {} /\ UNCHANGED Buffered
        BY <3>6, PlaceRecs, RecsOf DEF Landed, Buffered
      <4> QED BY <1>4, <2>0, <3>6, <4>1 DEF Landed, Ahead
    <3> QED BY <2>1, <2>2, <3>1, <3>2, <3>3, <3>4, <3>5, <3>6 DEF Moves
  <2> QED BY <1>4, <2>1, <2>2, <2>3
<1> QED BY <1>2, <1>3, <1>4, WatermarkMoves

\* The watermark is behind everything at the start.
LEMMA AheadInit == Init => Ahead
<1> SUFFICES ASSUME Init PROVE Ahead
  OBVIOUS
<1>1. FlushBatch = <<>> /\ MainBatch = <<>> /\ active = <<>> /\ InHand = {} /\ Open = {}
  BY DEF Init, FlushBatch, MainBatch, InHand, Open, NoJob, Actors
<1>2. Flight = {} /\ Buffered = {} /\ wm < next
  BY <1>1, RecsOf DEF Flight, Buffered, Init
<1> QED BY <1>1, <1>2 DEF Ahead

\* The watermark of the file never moves back, as long as no batch is put aside
\* and no record is filtered out past the buffer (advanceWatermarks in
\* pipeline.go, the skip in process).
THEOREM PipelineWatermarkMonotonic ==
    ASSUME NoHold, PassOver PROVE Spec => WatermarkMonotonic
<1> DEFINE I == PlacesInv /\ Ordered /\ NothingHeld /\ Ahead
<1>1. Init => I
  BY InitInv, PlacesInit, OrderedInit, NothingHeldInit, AheadInit DEF PlacesInv
<1>2. I /\ [Next]_vars => I' /\ [wm' >= wm]_wm
  BY PlacesNext, NextMoves, OrderedNext, NothingHeldNext, AheadNext DEF PlacesInv
<1> QED BY <1>1, <1>2, PTL DEF Spec, WatermarkMonotonic

-----------------------------------------------------------------------------
(* No line is lost.                                                        *)

\* The lines of a set of records, piece by piece.
LEMMA CoveredIs ==
    /\ Covered({}) = {}
    /\ \A r : Covered({r}) = r.first..r.last
    /\ \A S, T : Covered(S \cup T) = Covered(S) \cup Covered(T)
    /\ \A S : \A r \in S : r.first..r.last \subseteq Covered(S)
<1>1. Covered({}) = {} /\ \A S : \A r \in S : r.first..r.last \subseteq Covered(S)
  BY DEF Covered
<1>2. \A r : Covered({r}) = r.first..r.last
  BY DEF Covered
<1>3. \A S, T : Covered(S \cup T) = Covered(S) \cup Covered(T)
  BY DEF Covered
<1> QED BY <1>1, <1>2, <1>3

\* The lines of a batch are those of its records.
LEMMA LinesCovered == \A b : LinesOf(b) = Covered(Recs(b))
BY DEF LinesOf, Covered, Recs

\* Every line before n is in G or belongs to a record of S.
Reach(G, n, S) == 1..n - 1 \subseteq G \cup Covered(S)

\* Every line that was read before a record is settled, or in a place ahead of
\* it; until there is an error, so is every line that was read.
Gapless ==
    /\ \A r \in Flight : Reach(Settled, r.first, Flight)
    /\ \A r \in Buffered \cup InHand : Reach(Settled, r.first, Flight \cup Buffered)
    /\ \A r \in Open : Reach(Settled, r.first, Flight \cup Buffered \cup InHand)
    /\ ~err => Reach(Settled, next, Flight \cup Buffered \cup InHand \cup Open)

\* The call of flushItems in goroutine a has got its batch out.
Answered(a) == \/ job[a].step \in {"advance", "published", "spilled", "counted"}
               \/ job[a].step = "done" /\ (~job[a].err \/ BatchEnabled)

\* Then its lines are settled.
Kept == \A a \in Actors : Answered(a) => Covered(Recs(job[a].batch)) \subseteq Settled

\* No dead letter write has failed, and the multiline parser has not been
\* flushed past a record that an error made Run give up.
Trusted == Spillable /\ (Multiline => ~err)

\* What is settled stays settled, and an error or a lost batch is not forgotten.
LEMMA SettledGrows ==
    ASSUME TypeOK, [Next]_vars PROVE Settled \subseteq Settled' /\ (err => err') /\ (Trusted' => Trusted)
<1>1. (Settled \subseteq Settled' /\ (err => err') /\ (Spillable' => Spillable)) =>
          Settled \subseteq Settled' /\ (err => err') /\ (Trusted' => Trusted)
  BY DEF Trusted
<1> SUFFICES Settled \subseteq Settled' /\ (err => err') /\ (Spillable' => Spillable)
  BY <1>1
<1> USE DEF Settled, Spillable
<1>2. CASE Select \/ SelectClosed \/ ProcessRejected \/ ProcessSync \/ Enqueue
  BY <1>2 DEF Select, SelectDone, SelectClosed, SelectTick, SelectIdle, SelectLine, ProcessRejected,
     ProcessSync, Enqueue, EnqueueHibernating, HibernateOver, HibernateCancelled, EnqueueSwap,
     EnqueueAppend, Shutdown, Await, Fail, Goto, Processed, outVars, envVars
<1>3. CASE ProcessDropped \/ ProcessDroppedFails
  BY <1>3 DEF ProcessDropped, ProcessDroppedFails, Fail, Processed, envVars
<1>4. CASE Flusher
  BY <1>4 DEF Flusher, WaitStarts, WaitCancelled, WaitFailed, WaitOver, Swap, BigWaitOver, Goto, Fail,
     Processed, outVars, envVars
<1>5. CASE Shutting
  BY <1>5 DEF Shutting, ShutdownParser, Stop, SyncFlush, SyncFlushOver, DrainHibernateBatch, FlushingDone,
     Await, Return, Goto, Fail, Processed, outVars, envVars
<1>6. CASE FlushDone \/ WakeLoop \/ Cancel \/ Scrape \/ activeBytes \/ UNCHANGED vars
  BY <1>6 DEF FlushDone, WakeLoop, WakeTick, WakeCancelled, WakeDone, WakeLeaves, Cancel, Scrape,
     activeBytes, vars, mainVars, outVars, envVars
<1>7. CASE \E a \in Actors : flushItems(a)
  <2>1. PICK a \in Actors : flushItems(a)
    BY <1>7
  <2>2. UNCHANGED err
    BY <2>1, FlushItemsAlone DEF mainVars
  <2>3. Settled \subseteq Settled'
    BY <2>1 DEF flushItems, PublishOk, PublishFails, BackoffOver, BackoffCancelled, AdvancePublished,
       AdvancePublishedFails, exitHibernate, FailedSync, FailedHibernates, FailedDeadLetter,
       FailedDeadLetterFails, AdvanceSpilled, AdvanceSpilledFails, CountSpilled, Advance, AdvanceFails,
       outVars
  <2>4. UNCHANGED dlqFaults \/ dlqFaults' = dlqFaults + 1
    BY <2>1 DEF flushItems, PublishOk, PublishFails, BackoffOver, BackoffCancelled, AdvancePublished,
       AdvancePublishedFails, exitHibernate, FailedSync, FailedHibernates, FailedDeadLetter,
       FailedDeadLetterFails, AdvanceSpilled, AdvanceSpilledFails, CountSpilled, Advance, AdvanceFails,
       envVars
  <2>5. dlqFaults \in Nat
    BY Bounds DEF TypeOK, EnvOK
  <2> QED BY <2>2, <2>3, <2>4, <2>5
<1> QED BY <1>2, <1>3, <1>4, <1>5, <1>6, <1>7 DEF Next, Main, Process

\* Only a batch that got out is answered.
LEMMA KeptNext ==
    ASSUME PlacesInv, NothingHeld, Kept, Spillable', [Next]_vars PROVE Kept'
<1>0. JobOK /\ TypeOK /\ Settled \subseteq Settled'
  BY SettledGrows DEF PlacesInv, Inv, TypeOK
<1>1. ASSUME \/ UNCHANGED job
             \/ \E a \in Actors : \E b : job' = [job EXCEPT ![a] = StartJob(b)]
             \/ \E a \in Actors : job' = [job EXCEPT ![a] = NoJob]
      PROVE  Kept'
  <2>1. CASE UNCHANGED job
    BY <1>0, <2>1 DEF Kept, Answered
  <2>2. CASE \E a \in Actors : \E v : /\ job' = [job EXCEPT ![a] = v]
                                      /\ v.step \in {"publish", "none"}
    <3>0. PICK a \in Actors : \E v : job' = [job EXCEPT ![a] = v] /\ v.step \in {"publish", "none"}
      BY <2>2
    <3>1. PICK v : job' = [job EXCEPT ![a] = v] /\ v.step \in {"publish", "none"}
      BY <3>0
    <3>2. job'[a] = v /\ \A c \in Actors \ {a} : job'[c] = job[c]
      BY <1>0, <3>1, JobSet
    <3> QED BY <1>0, <3>1, <3>2 DEF Kept, Answered
  <2>3. NoJob.step = "none" /\ \A b : StartJob(b).step = "publish"
    BY DEF NoJob, StartJob
  <2> QED BY <1>1, <2>1, <2>2, <2>3
<1>2. CASE Select \/ SelectClosed \/ Process \/ Enqueue
  BY <1>1, <1>2 DEF Select, SelectDone, SelectClosed, SelectTick, SelectIdle, SelectLine, Process,
     ProcessDropped, ProcessDroppedFails, ProcessRejected, ProcessSync, Enqueue, EnqueueHibernating,
     HibernateOver, HibernateCancelled, EnqueueSwap, EnqueueAppend, Actors
<1>3. CASE Flusher
  BY <1>1, <1>3 DEF Flusher, WaitStarts, WaitCancelled, WaitFailed, WaitOver, Swap, BigWaitOver,
     StartFlush, drain, Actors
<1>4. CASE Shutting
  BY <1>1, <1>4 DEF Shutting, ShutdownParser, Stop, SyncFlush, SyncFlushOver, DrainHibernateBatch,
     FlushingDone, drain, Actors
<1>5. CASE FlushDone \/ WakeLoop \/ Cancel \/ Scrape \/ activeBytes \/ UNCHANGED vars
  BY <1>1, <1>5 DEF FlushDone, WakeLoop, WakeTick, WakeCancelled, WakeDone, WakeLeaves, Cancel, Scrape,
     activeBytes, vars, Actors
<1>6. CASE \E a \in Actors : flushItems(a)
  <2>1. PICK a \in Actors : flushItems(a)
    BY <1>6
  <2>2. /\ \A c \in Actors : job'[c].batch = job[c].batch
        /\ \A c \in Actors \ {a} : job'[c] = job[c]
    BY <1>0, <2>1, JobMoves
  <2>3. ASSUME Answered(a)' PROVE Covered(Recs(job[a].batch)) \subseteq Settled'
    <3>1. CASE job[a].step \in {"advance", "published", "spilled", "counted"}
      BY <1>0, <3>1 DEF Kept, Answered
    <3>2. CASE PublishOk(a)
      BY <3>2, LinesCovered DEF PublishOk, Settled
    <3>3. CASE FailedDeadLetter(a)
      BY <3>3, LinesCovered DEF FailedDeadLetter, Settled
    <3>4. CASE PublishFails(a)
      <4>1. job'[a].step \in {"failed", "backoff"}
        BY <1>0, <3>4, JobTo DEF PublishFails
      <4> QED BY <2>3, <4>1 DEF Answered
    <3>5. CASE job[a].step = "backoff"
      <4>1. job'[a].step \in {"publish", "failed"}
        BY <1>0, <2>1, <3>5, JobOrder
      <4> QED BY <2>3, <4>1 DEF Answered
    <3>6. CASE FailedSync(a)
      <4>1. job'[a].step = "done" /\ job'[a].err = TRUE /\ ~BatchEnabled
        BY <1>0, <3>6, JobDone DEF FailedSync
      <4> QED BY <2>3, <4>1 DEF Answered
    <3>7. ~FailedHibernates(a)
      BY DEF NothingHeld, FailedHibernates, At
    <3>8. ~FailedDeadLetterFails(a)
      <4>1. dlqFaults \in Nat
        BY <1>0, Bounds DEF TypeOK, EnvOK
      <4>2. dlqFaults' = 0
        BY DEF Spillable
      <4>3. FailedDeadLetterFails(a) => dlqFaults' = dlqFaults + 1
        BY DEF FailedDeadLetterFails
      <4> QED BY <4>1, <4>2, <4>3
    <3>9. \/ job[a].step \in {"advance", "published", "spilled", "counted", "backoff"}
          \/ PublishOk(a) \/ PublishFails(a) \/ FailedDeadLetter(a) \/ FailedSync(a)
      BY <2>1, <3>7, <3>8 DEF flushItems, BackoffOver, BackoffCancelled, AdvancePublished,
         AdvancePublishedFails, exitHibernate, AdvanceSpilled, AdvanceSpilledFails, CountSpilled, At
    <3> QED BY <3>1, <3>2, <3>3, <3>4, <3>5, <3>6, <3>9
  <2>4. ASSUME NEW c \in Actors \ {a}, Answered(c)' PROVE Covered(Recs(job[c].batch)) \subseteq Settled'
    <3>1. Answered(c)
      BY <2>2, <2>4 DEF Answered
    <3> QED BY <1>0, <3>1 DEF Kept
  <2> QED BY <2>2, <2>3, <2>4 DEF Kept
<1> QED BY <1>2, <1>3, <1>4, <1>5, <1>6 DEF Next, Main

\* Run lets go of a record that is settled, or reports an error.
LetGoKept == LetGo /\ (Covered(InHand) \subseteq Settled' \/ err')

\* What was in flight is settled, or it was the only record beside the parser's
\* and Run reports an error.
LandedKept == /\ Landed
              /\ \/ Covered(Flight) \subseteq Settled'
                 \/ err' /\ Buffered = {} /\ InHand = {}

\* How the lines move, with what becomes of those that leave memory.
MovesKept == \/ Unmoved \/ Taken \/ ReadLine \/ Alone \/ Appended \/ HandedOver
             \/ LetGoKept \/ LandedKept

\* A record is let go of in this sense.
LEMMA LetGoIsKept ==
    ASSUME PlacesInv,
           ProcessDropped \/ ProcessDroppedFails \/ ProcessRejected \/ HibernateCancelled
               \/ WaitCancelled \/ WaitFailed
    PROVE  LetGoKept
<1>1. LetGo
  BY MainLetsGo
<1>2. CASE ProcessDropped
  <2>1. Covered(InHand) \subseteq cur.first..cur.last
    BY CoveredIs DEF InHand
  <2> QED BY <1>1, <1>2, <2>1 DEF LetGoKept, ProcessDropped, Settled
<1>3. CASE ProcessDroppedFails \/ ProcessRejected \/ HibernateCancelled \/ WaitCancelled \/ WaitFailed
  BY <1>1, <1>3 DEF LetGoKept, ProcessDroppedFails, ProcessRejected, HibernateCancelled, WaitCancelled,
     WaitFailed, Fail
<1> QED BY <1>2, <1>3

\* A publish ends in this sense.
LEMMA LandedIsKept ==
    ASSUME PlacesInv, NothingHeld, Kept, FlushingDone \/ FlushDone, Settled \subseteq Settled'
    PROVE  LandedKept
<1> USE DEF PlacesInv, Inv, Actors
<1>1. CASE FlushDone
  <2>1. job["flush"].step = "done" /\ BatchEnabled
    BY <1>1 DEF FlushDone, At, JobPlaces
  <2>2. Landed /\ Flight = Recs(job["flush"].batch)
    BY <1>1, FlushLands, PlaceRecs DEF FlushBatch
  <2> QED BY <2>1, <2>2 DEF LandedKept, Kept, Answered
<1>2. CASE FlushingDone
  <2>1. job["main"].step = "done" /\ k \in {"sync", "single"}
    BY <1>2 DEF FlushingDone, NothingHeld
  <2>2. Landed /\ Flight = Recs(job["main"].batch)
    BY <1>2, <2>1, FlushingLands, PlaceRecs DEF MainBatch
  <2>3. CASE BatchEnabled \/ ~job["main"].err
    BY <2>1, <2>2, <2>3 DEF LandedKept, Kept, Answered
  <2>4. CASE ~BatchEnabled /\ job["main"].err
    <3>1. active = <<>> /\ k = "single"
      BY <2>1, <2>4 DEF JobPlaces
    <3>2. Buffered = {} /\ InHand = {}
      BY <3>1, RecsOf DEF Buffered, InHand
    <3>3. err'
      BY <1>2, <2>4, <3>1 DEF FlushingDone, Fail
    <3> QED BY <2>2, <3>2, <3>3 DEF LandedKept
  <2> QED BY <2>3, <2>4
<1> QED BY <1>1, <1>2

\* Every step moves the lines in one of these ways.
LEMMA NextMovesKept ==
    ASSUME PlacesInv, NothingHeld, Kept, [Next]_vars PROVE MovesKept
<1> USE DEF MovesKept
<1>0. Settled \subseteq Settled'
  BY SettledGrows DEF PlacesInv, Inv
<1>1. CASE Select \/ SelectClosed
  BY <1>1, MainUnmoved, ParserTaken, LineRead DEF Select
<1>2. CASE Process
  BY <1>2, LetGoIsKept, SyncAlone DEF Process
<1>3. CASE Enqueue
  BY <1>3, MainUnmoved, LetGoIsKept, EnqueueAppended DEF Enqueue
<1>4. CASE Flusher
  BY <1>4, MainUnmoved, LetGoIsKept, SwapHandsOver DEF Flusher
<1>5. CASE Shutting
  BY <1>0, <1>5, LandedIsKept, MainUnmoved, ParserTaken, ParserEmpty, SyncFlushHandsOver, DrainUnmoved
     DEF Shutting
<1>6. CASE FlushDone
  BY <1>0, <1>6, LandedIsKept
<1>7. CASE WakeLoop \/ (\E a \in Actors : flushItems(a)) \/ Cancel \/ Scrape \/ activeBytes
           \/ UNCHANGED vars
  BY <1>7, OthersUnmoved
<1> QED BY <1>1, <1>2, <1>3, <1>4, <1>5, <1>6, <1>7 DEF Next, Main

\* Lines that are settled, or in a place that is still there, stay reached.
LEMMA ReachKept ==
    ASSUME NEW G, NEW H, NEW n, NEW S, NEW T, Reach(G, n, S), G \subseteq H,
           Covered(S) \subseteq H \cup Covered(T)
    PROVE  Reach(H, n, T)
BY DEF Reach

\* So do they when the records only change places.
LEMMA ReachMore ==
    ASSUME NEW G, NEW H, NEW n, NEW S, NEW T, Reach(G, n, S), G \subseteq H, S \subseteq T
    PROVE  Reach(H, n, T)
<1>1. Covered(S) \subseteq Covered(T)
  BY DEF Covered
<1> QED BY <1>1, ReachKept

\* No step leaves a gap.
LEMMA GaplessNext ==
    ASSUME PlacesInv, PlacesInv', Ordered, Gapless, MovesKept, Trusted',
           Settled \subseteq Settled', err => err'
    PROVE  Gapless'
<1>1. CASE Unmoved
  <2>1. UNCHANGED <<Flight, Buffered, InHand, Open, next>>
    BY <1>1 DEF Unmoved, Flight, Buffered
  <2> QED BY <2>1, ReachMore DEF Gapless
<1>2. CASE Taken
  <2>1. UNCHANGED <<Flight, Buffered, next>> /\ InHand = {} /\ InHand' = Open /\ Open' = {}
    BY <1>2 DEF Taken, Flight, Buffered
  <2> QED BY <2>1, ReachMore DEF Gapless
<1>3. CASE Alone
  <2>1. Flight = {} /\ Buffered = {} /\ Flight' = InHand /\ Buffered' = {} /\ InHand' = {}
        /\ UNCHANGED <<Open, next>>
    BY <1>3, PlaceRecs, RecsOf DEF Alone, Buffered
  <2>2. \A r \in InHand : Reach(Settled', r.first, InHand)
    BY <2>1, ReachMore DEF Gapless
  <2> QED BY <2>1, <2>2, ReachMore DEF Gapless
<1>4. CASE Appended
  <2>1. UNCHANGED <<Flight, Open, next>> /\ Buffered' = Buffered \cup InHand /\ InHand' = {}
    <3>1. active \in Batch
      BY PlacesHoldRecords DEF PlacesInv
    <3> QED BY <1>4, <3>1, RecsOf DEF Appended, Flight, Buffered
  <2> QED BY <2>1, ReachMore DEF Gapless
<1>5. CASE HandedOver
  <2>1. Flight = {} /\ Flight' = Buffered /\ Buffered' \cup InHand' = InHand /\ UNCHANGED <<Open, next>>
    BY <1>5, PlaceRecs, RecsOf DEF HandedOver, Buffered
  <2>2. /\ \A r \in Flight' : Reach(Settled', r.first, Flight')
        /\ \A r \in Buffered' \cup InHand' : Reach(Settled', r.first, Flight' \cup Buffered')
    BY <2>1, ReachMore DEF Gapless
  <2>3. Flight \cup Buffered \cup InHand = Flight' \cup Buffered' \cup InHand'
    BY <2>1
  <2> QED BY <2>1, <2>2, <2>3, ReachMore DEF Gapless
<1>6. CASE LetGoKept
  <2>1. UNCHANGED <<Flight, Buffered, Open, next>> /\ InHand' = {}
    BY <1>6 DEF LetGoKept, LetGo, Flight, Buffered
  <2>2. /\ \A r \in Flight' : Reach(Settled', r.first, Flight')
        /\ \A r \in Buffered' \cup InHand' : Reach(Settled', r.first, Flight' \cup Buffered')
    BY <2>1, ReachMore DEF Gapless
  <2>3. CASE Covered(InHand) \subseteq Settled'
    <3>1. ASSUME NEW n, NEW S, Reach(Settled, n, Flight \cup Buffered \cup InHand \cup S)
          PROVE  Reach(Settled', n, Flight \cup Buffered \cup S)
      <4>1. Covered(Flight \cup Buffered \cup InHand \cup S)
                \subseteq Settled' \cup Covered(Flight \cup Buffered \cup S)
        BY <2>3, CoveredIs
      <4> QED BY <3>1, <4>1, ReachKept
    <3>2. \A r \in Open : Reach(Settled', r.first, Flight \cup Buffered \cup {})
      BY <3>1 DEF Gapless
    <3>3. ~err => Reach(Settled', next, Flight \cup Buffered \cup Open)
      BY <3>1 DEF Gapless
    <3> QED BY <2>1, <2>2, <3>2, <3>3 DEF Gapless
  <2>4. CASE err'
    <3>1. Open' = {}
      BY <2>4 DEF Trusted, PlacesInv, Places, Open
    <3> QED BY <2>2, <2>4, <3>1 DEF Gapless
  <2> QED BY <1>6, <2>3, <2>4 DEF LetGoKept
<1>7. CASE LandedKept
  <2>1. UNCHANGED <<Buffered, InHand, Open, next>> /\ Flight' = {}
    BY <1>7, PlaceRecs, RecsOf DEF LandedKept, Landed, Buffered
  <2>2. CASE Covered(Flight) \subseteq Settled'
    <3>1. ASSUME NEW n, NEW S, Reach(Settled, n, Flight \cup S)
          PROVE  Reach(Settled', n, S)
      <4>1. Covered(Flight \cup S) \subseteq Settled' \cup Covered(S)
        BY <2>2, CoveredIs
      <4> QED BY <3>1, <4>1, ReachKept
    <3>2. \A r \in Buffered \cup InHand : Reach(Settled', r.first, Buffered)
      BY <3>1 DEF Gapless
    <3>3. \A r \in Open : Reach(Settled', r.first, Buffered \cup InHand)
      BY <3>1 DEF Gapless
    <3>4. ~err => Reach(Settled', next, Buffered \cup InHand \cup Open)
      BY <3>1 DEF Gapless
    <3> QED BY <2>1, <3>2, <3>3, <3>4 DEF Gapless
  <2>3. CASE err' /\ Buffered = {} /\ InHand = {}
    <3>1. Open' = {}
      BY <2>3 DEF Trusted, PlacesInv, Places, Open
    <3> QED BY <2>1, <2>3, <3>1 DEF Gapless
  <2> QED BY <1>7, <2>2, <2>3 DEF LandedKept
<1>8. CASE ReadLine
  <2>1. /\ UNCHANGED <<Flight, Buffered>> /\ InHand = {} /\ next' = next + 1 /\ ~err
        /\ next \in Int /\ next >= 1
    BY <1>8, PlacesHoldRecords DEF ReadLine, Flight, Buffered, PlacesInv, Places
  <2>2. Reach(Settled, next, Flight \cup Buffered \cup Open)
    BY <2>1 DEF Gapless
  <2>3. ASSUME NEW S, Covered(Open) \subseteq Covered(S), next \in Covered(S)
        PROVE  Reach(Settled', next', Flight \cup Buffered \cup S)
    <3>0. \A T : Covered(Flight \cup Buffered \cup T) = Covered(Flight \cup Buffered) \cup Covered(T)
      BY CoveredIs
    <3>1. Covered(Flight \cup Buffered \cup Open) \subseteq Covered(Flight \cup Buffered \cup S)
      BY <2>3, <3>0
    <3>2. next \in Covered(Flight \cup Buffered \cup S)
      BY <2>3, CoveredIs
    <3>3. Reach(Settled', next, Flight \cup Buffered \cup S)
      BY <2>2, <3>1, ReachKept
    <3>4. 1..next' - 1 = (1..next - 1) \cup {next}
      BY <2>1
    <3> QED BY <3>2, <3>3, <3>4 DEF Reach
  <2>4. /\ \A r \in Flight' : Reach(Settled', r.first, Flight')
        /\ \A r \in Buffered' : Reach(Settled', r.first, Flight' \cup Buffered')
    BY <2>1, ReachMore DEF Gapless
  <2>5. Line.first = next /\ next \in Covered({Line}) /\ \A S : next \in Covered(S \cup {Line})
    <3>1. Line.first = next /\ Line.last = next
      BY DEF Line
    <3>2. Covered({Line}) = next..next
      BY <3>1, CoveredIs
    <3> QED BY <2>1, <3>1, <3>2, CoveredIs
  <2>6. CASE Whole
    <3>1. Open = {} /\ InHand' = {Line} /\ Open' = {}
      BY <2>6 DEF Whole
    <3>2. Reach(Settled', next', Flight \cup Buffered \cup {Line})
      BY <2>3, <2>5, <3>1, CoveredIs
    <3>3. Reach(Settled', Line.first, Flight \cup Buffered)
      BY <2>2, <2>5, <3>1, ReachMore
    <3> QED BY <2>1, <2>4, <3>1, <3>2, <3>3 DEF Gapless
  <2>7. CASE Opens
    <3>1. InHand' = Open /\ Open' = {Line}
      BY <2>7 DEF Opens
    <3>2. Reach(Settled', next', Flight \cup Buffered \cup (Open \cup {Line}))
      <4>1. Covered(Open) \subseteq Covered(Open \cup {Line})
        BY CoveredIs
      <4> QED BY <2>3, <2>5, <4>1
    <3>3. Reach(Settled', Line.first, Flight \cup Buffered \cup Open)
      BY <2>2, <2>5, ReachMore
    <3>4. \A r \in Open : Reach(Settled', r.first, Flight \cup Buffered)
      BY <2>1, ReachMore DEF Gapless
    <3>5. Flight \cup Buffered \cup (Open \cup {Line}) = Flight \cup Buffered \cup Open \cup {Line}
      OBVIOUS
    <3> QED BY <2>1, <2>4, <3>1, <3>2, <3>3, <3>4, <3>5 DEF Gapless
  <2>8. CASE Extends
    <3> DEFINE r == [first |-> pbuf.first, last |-> next]
    <3>1. r.first = pbuf.first /\ r.last = next /\ Open' = {r} /\ Open = {pbuf} /\ InHand' = {}
      BY <2>8 DEF Extends
    <3> HIDE DEF r
    <3>2. pbuf.first \in Int /\ pbuf.last \in Int /\ pbuf.first <= pbuf.last /\ pbuf.last < next
      BY <3>1, PlacesHoldRecords DEF Ordered, PlacesInv
    <3>3. pbuf.first..pbuf.last \subseteq pbuf.first..next /\ next \in pbuf.first..next
      BY <2>1, <3>2
    <3>4. Covered(Open) \subseteq Covered({r}) /\ next \in Covered({r})
      BY <3>1, <3>3, CoveredIs
    <3>5. Reach(Settled', next', Flight \cup Buffered \cup {r})
      BY <2>3, <3>4
    <3>6. Reach(Settled', r.first, Flight \cup Buffered)
      BY <2>1, <3>1, ReachMore DEF Gapless
    <3> QED BY <2>1, <2>4, <3>1, <3>5, <3>6 DEF Gapless
  <2> QED BY <1>8, <2>6, <2>7, <2>8 DEF ReadLine
<1> QED BY <1>1, <1>2, <1>3, <1>4, <1>5, <1>6, <1>7, <1>8 DEF MovesKept

\* The watermark stands on settled lines only.
Grounded == 1..wm \subseteq Settled

\* What a batch or a skipped record moves the watermark over is settled.
LEMMA GroundedNext ==
    ASSUME PassOver, PlacesInv, Ordered, NothingHeld, Gapless, Kept, Grounded, [Next]_vars
    PROVE  Grounded'
<1>1. /\ Settled \subseteq Settled'
      /\ Flight \cup Buffered \cup InHand \cup Open \subseteq Record
      /\ \A r \in Record : r.first \in Int /\ r.last \in Int /\ r.first >= 1
  BY SettledGrows, PlacesHoldRecords DEF PlacesInv, Inv
<1>2. ASSUME NEW r \in Record, 1..r.first - 1 \subseteq Settled', r.first..r.last \subseteq Settled',
             wm' = r.last
      PROVE  Grounded'
  <2>1. 1..r.last \subseteq (1..r.first - 1) \cup (r.first..r.last)
    BY <1>1
  <2> QED BY <1>2, <2>1 DEF Grounded
<1>3. CASE Discards
  <2>1. InHand = {cur} /\ cur \in Record /\ Flight \cup Buffered = {} /\ wm' = cur.last
        /\ discarded' = discarded \cup (cur.first..cur.last)
    BY <1>3 DEF Discards
  <2>2. cur.first..cur.last \subseteq Settled'
    BY <2>1 DEF Settled
  <2>3. Reach(Settled, cur.first, {})
    BY <2>1 DEF Gapless
  <2>4. 1..cur.first - 1 \subseteq Settled'
    BY <1>1, <2>3, CoveredIs DEF Reach
  <2> QED BY <1>2, <2>1, <2>2, <2>4
<1>4. CASE \E a \in Actors : \E r \in Flight : Advances(a, r)
  <2>1. PICK a \in Actors, r \in Flight : Advances(a, r)
    BY <1>4
  <2>2. Covered(Flight) \subseteq Settled'
    BY <1>1, <2>1 DEF Advances, Kept, Answered
  <2>3. r.first..r.last \subseteq Settled'
    BY <2>1, <2>2, CoveredIs
  <2>4. Reach(Settled, r.first, Flight)
    BY <2>1 DEF Gapless
  <2>5. 1..r.first - 1 \subseteq Settled'
    BY <1>1, <2>2, <2>4 DEF Reach
  <2>6. r \in Record /\ wm' = r.last
    BY <1>1, <2>1 DEF Advances
  <2> QED BY <1>2, <2>3, <2>5, <2>6
<1>5. CASE UNCHANGED wm
  BY <1>1, <1>5 DEF Grounded
<1> QED BY <1>3, <1>4, <1>5, WatermarkMoves

\* The inductive invariant: in order, without a gap, and with a watermark on
\* settled lines.
DeliveryInv == /\ PlacesInv /\ Ordered /\ NothingHeld
               /\ Trusted => Gapless /\ Kept /\ (PassOver => Grounded)

\* It holds at the start.
LEMMA DeliveryInit == Init => DeliveryInv
<1> SUFFICES ASSUME Init PROVE DeliveryInv
  OBVIOUS
<1>1. PlacesInv /\ Ordered /\ NothingHeld
  BY InitInv, PlacesInit, OrderedInit, NothingHeldInit DEF PlacesInv
<1>2. FlushBatch = <<>> /\ MainBatch = <<>> /\ active = <<>> /\ InHand = {} /\ Open = {}
  BY DEF Init, FlushBatch, MainBatch, InHand, Open, NoJob, Actors
<1>3. Flight = {} /\ Buffered = {} /\ next = 1
  BY <1>2, RecsOf DEF Flight, Buffered, Init
<1>4. Gapless
  BY <1>2, <1>3 DEF Gapless, Reach
<1>5. \A a \in Actors : job[a].step = "none"
  BY DEF Init, NoJob
<1>6. Kept
  BY <1>5 DEF Kept, Answered
<1>7. Grounded
  BY DEF Init, Grounded
<1> QED BY <1>1, <1>4, <1>6, <1>7 DEF DeliveryInv

\* Every step keeps it.
LEMMA DeliveryNext == ASSUME NoHold, DeliveryInv, [Next]_vars PROVE DeliveryInv'
<1> USE DEF DeliveryInv
<1>1. PlacesInv' /\ Ordered' /\ NothingHeld'
  BY PlacesNext, NextMoves, OrderedNext, NothingHeldNext DEF PlacesInv
<1>2. ASSUME Trusted' PROVE (Gapless /\ Kept /\ (PassOver => Grounded))'
  <2>1. Settled \subseteq Settled' /\ (err => err') /\ Trusted
    BY <1>2, SettledGrows DEF PlacesInv, Inv
  <2>2. Kept'
    BY <1>2, <2>1, KeptNext DEF Trusted
  <2>3. MovesKept
    BY <2>1, NextMovesKept
  <2>4. Gapless'
    BY <1>1, <1>2, <2>1, <2>3, GaplessNext
  <2>5. PassOver => Grounded'
    BY <2>1, GroundedNext
  <2>6. PassOver' = PassOver
    BY DEF PassOver
  <2> QED BY <2>2, <2>4, <2>5, <2>6
<1> QED BY <1>1, <1>2

\* The invariant holds in every state, if no batch is put aside.
THEOREM PipelineDelivery == ASSUME NoHold PROVE Spec => []DeliveryInv
<1>1. DeliveryInv /\ [Next]_vars => DeliveryInv'
  BY DeliveryNext
<1> QED BY <1>1, DeliveryInit, PTL DEF Spec

\* While Run has no error to report, a line that was taken from the channel is
\* settled or still in memory (Run, process, enqueue and flushItems), if no
\* batch is put aside.
THEOREM PipelineNothingVanishes == ASSUME NoHold PROVE Spec => []NothingVanishes
<1>1. DeliveryInv => NothingVanishes
  <2> SUFFICES ASSUME DeliveryInv, Spillable, ~err
               PROVE  1..next - 1 \subseteq Settled \cup LinesOf(InMemory)
    BY DEF NothingVanishes
  <2>1. Reach(Settled, next, Flight \cup Buffered \cup InHand \cup Open)
    BY DEF DeliveryInv, Trusted, Gapless
  <2>2. Recs(InMemory) = Flight \cup Buffered \cup InHand \cup Open
    BY MemoryInOrder DEF DeliveryInv, PlacesInv
  <2>3. LinesOf(InMemory) = Covered(Flight \cup Buffered \cup InHand \cup Open)
    BY <2>2, LinesCovered
  <2> QED BY <2>1, <2>3 DEF Reach
<1> QED BY <1>1, PipelineDelivery, PTL

\* Run returns nil only when everything it took from the channel is settled
\* (shutdown in pipeline.go, f.shutdown in flusher.go), if no batch is put aside.
THEOREM PipelineGracefulStop == ASSUME NoHold PROVE Spec => []GracefulStop
<1>1. DeliveryInv => GracefulStop
  <2> SUFFICES ASSUME DeliveryInv, Spillable, pc = "returned", ~err
               PROVE  1..next - 1 \subseteq Settled
    BY DEF GracefulStop
  <2>1. k = "none" /\ cur = NoRec /\ pbuf = NoRec /\ active = <<>> /\ job["flush"].batch = <<>>
    BY DEF DeliveryInv, PlacesInv, Places, JobPlaces, Actors
  <2>2. Flight = {} /\ Buffered = {} /\ InHand = {} /\ Open = {}
    BY <2>1, RecsOf DEF Flight, FlushBatch, MainBatch, Buffered, InHand, Open
  <2>3. Flight \cup Buffered \cup InHand \cup Open = {}
    BY <2>2
  <2>4. Reach(Settled, next, {})
    BY <2>3 DEF DeliveryInv, Trusted, Gapless
  <2> QED BY <2>4, CoveredIs DEF Reach
<1> QED BY <1>1, PipelineDelivery, PTL

\* At-least-once, with either parser: until Run has an error to report every
\* line at or before the watermark is settled.
THEOREM PipelineWatermarkCoversRunning ==
    ASSUME NoHold, PassOver PROVE Spec => []((Multiline => ~err) => WatermarkCovers)
<1>1. DeliveryInv => ((Multiline => ~err) => WatermarkCovers)
  BY DEF DeliveryInv, Trusted, WatermarkCovers, Grounded
<1> QED BY <1>1, PipelineDelivery, PTL

\* At-least-once with the line parser: every line at or before the watermark is
\* settled, in every state and after an error too, so that a crash at any moment
\* loses nothing (advanceWatermarks after publish or dead letter).
THEOREM PipelineWatermarkCovers ==
    ASSUME NoHold, PassOver, ~Multiline PROVE Spec => []WatermarkCovers
<1>1. DeliveryInv => WatermarkCovers
  BY DEF DeliveryInv, Trusted, WatermarkCovers, Grounded
<1> QED BY <1>1, PipelineDelivery, PTL

-----------------------------------------------------------------------------
(* Configurations in which Run has no error to report.                     *)

\* Every publish is retried until it succeeds, nothing cancels the process, and
\* neither the watermark store nor the encoder fails.
Steady == /\ MaxAttempts = 0 /\ CanStop # "cancel"
          /\ StoreFaults = 0 /\ Unmarshalable \subseteq Dropped

\* Then there is never an error, in Run or in a flush.
Untroubled ==
    /\ ~err /\ ~flushErr /\ ~cancelled
    /\ \A a \in Actors : ~job[a].err /\ job[a].step # "failed"

\* No error at the start ...
LEMMA UntroubledInit == Init => Untroubled
<1> SUFFICES ASSUME Init PROVE Untroubled
  OBVIOUS
<1>1. \A a \in Actors : job[a] = NoJob
  BY DEF Init
<1>2. \A a \in Actors : job[a].step = "none" /\ job[a].err = FALSE
  BY <1>1 DEF NoJob
<1> QED BY <1>2 DEF Init, Untroubled

\* ... nor at any step.
LEMMA UntroubledNext ==
    ASSUME Steady, Inv, Untroubled, [Next]_vars PROVE Untroubled'
<1>0. JobOK /\ StoreFaults = 0 /\ storeFaults \in Nat
  BY Bounds DEF Inv, TypeOK, EnvOK, Steady
<1>1. ASSUME ~err', ~flushErr', UNCHANGED cancelled,
             \/ UNCHANGED job
             \/ \E a \in Actors : \E b : job' = [job EXCEPT ![a] = StartJob(b)]
             \/ \E a \in Actors : job' = [job EXCEPT ![a] = NoJob]
      PROVE  Untroubled'
  <2>1. CASE UNCHANGED job
    BY <1>1, <2>1 DEF Untroubled
  <2>2. CASE \E a \in Actors : \E v : /\ job' = [job EXCEPT ![a] = v]
                                      /\ v.step # "failed" /\ v.err = FALSE
    <3>0. PICK a \in Actors : \E v : job' = [job EXCEPT ![a] = v] /\ v.step # "failed" /\ v.err = FALSE
      BY <2>2
    <3>1. PICK v : job' = [job EXCEPT ![a] = v] /\ v.step # "failed" /\ v.err = FALSE
      BY <3>0
    <3>2. job'[a] = v /\ \A c \in Actors \ {a} : job'[c] = job[c]
      BY <1>0, <3>1, JobSet
    <3> QED BY <1>1, <3>1, <3>2 DEF Untroubled
  <2>3. /\ NoJob.step # "failed" /\ NoJob.err = FALSE
        /\ \A b : StartJob(b).step # "failed" /\ StartJob(b).err = FALSE
    BY DEF NoJob, StartJob
  <2> QED BY <1>1, <2>1, <2>2, <2>3
<1>2. CASE Select \/ SelectClosed \/ ProcessDropped \/ ProcessSync
  BY <1>1, <1>2 DEF Untroubled, Select, SelectDone, SelectClosed, SelectTick, SelectIdle, SelectLine,
     ProcessDropped, ProcessSync, Shutdown, Await, Processed, Actors, bufVars, envVars
<1>3. ~ProcessDroppedFails /\ ~ProcessRejected
  BY <1>0 DEF ProcessDroppedFails, ProcessRejected, Steady
<1>4. CASE Enqueue
  BY <1>1, <1>4 DEF Untroubled, Enqueue, EnqueueHibernating, HibernateOver, HibernateCancelled,
     EnqueueSwap, EnqueueAppend, Goto, Await, Processed, bufVars, envVars
<1>5. CASE Flusher
  BY <1>1, <1>5 DEF Untroubled, Flusher, WaitStarts, WaitCancelled, WaitFailed, WaitOver, BigWaitOver,
     Swap, StartFlush, drain, Goto, Processed, Actors, bufVars, envVars
<1>6. CASE ShutdownParser \/ Stop \/ SyncFlush \/ SyncFlushOver \/ DrainHibernateBatch
  BY <1>1, <1>6 DEF Untroubled, ShutdownParser, Stop, SyncFlush, SyncFlushOver, DrainHibernateBatch,
     drain, Goto, Await, Return, Actors, bufVars, envVars
<1>7. CASE FlushingDone
  <2>1. ~job["main"].err
    BY DEF Untroubled, Actors
  <2> QED BY <1>1, <1>7, <2>1 DEF Untroubled, FlushingDone, Processed, Return, Goto, Actors, bufVars, envVars
<1>8. CASE FlushDone
  <2>1. ~job["flush"].err
    BY DEF Untroubled, Actors
  <2> QED BY <1>1, <1>8, <2>1 DEF Untroubled, FlushDone, Actors, mainVars, envVars
<1>9. CASE WakeLoop \/ Scrape \/ activeBytes \/ UNCHANGED vars
  BY <1>1, <1>9 DEF Untroubled, WakeLoop, WakeTick, WakeCancelled, WakeDone, WakeLeaves, Scrape,
     activeBytes, Actors, vars, mainVars, bufVars, envVars
<1>10. ~Cancel
  BY DEF Cancel, Steady
<1>11. CASE \E a \in Actors : flushItems(a)
  <2>1. PICK a \in Actors : flushItems(a)
    BY <1>11
  <2>2. UNCHANGED <<mainVars, bufVars>> /\ \A c \in Actors \ {a} : job'[c] = job[c]
    BY <1>0, <2>1, FlushItemsAlone, JobMoves
  <2>3. UNCHANGED cancelled
    BY <2>1 DEF flushItems, PublishOk, PublishFails, BackoffOver, BackoffCancelled, AdvancePublished,
       AdvancePublishedFails, exitHibernate, FailedSync, FailedHibernates, FailedDeadLetter,
       FailedDeadLetterFails, AdvanceSpilled, AdvanceSpilledFails, CountSpilled, Advance, AdvanceFails,
       envVars
  <2>4. ~job[a].err /\ job[a].step # "failed"
    BY DEF Untroubled
  <2>5. ~job'[a].err /\ job'[a].step # "failed"
    <3>1. CASE PublishOk(a) \/ AdvancePublished(a) \/ AdvanceSpilled(a)
      BY <1>0, <2>4, <3>1, JobTo DEF PublishOk, AdvancePublished, AdvanceSpilled, Advance
    <3>2. CASE PublishFails(a)
      <4>1. To(a, "backoff")
        BY <3>2 DEF PublishFails, Steady
      <4> QED BY <1>0, <2>4, <4>1, JobTo
    <3>3. CASE BackoffOver(a)
      BY <1>0, <2>4, <3>3 DEF BackoffOver, JobOK, Job
    <3>4. CASE exitHibernate(a) \/ CountSpilled(a)
      BY <1>0, <3>4, JobDone DEF exitHibernate, CountSpilled
    <3>5. ~BackoffCancelled(a)
      BY DEF BackoffCancelled, Untroubled
    <3>6. ~AdvancePublishedFails(a) /\ ~AdvanceSpilledFails(a)
      <4>1. ~(storeFaults < StoreFaults)
        BY <1>0
      <4> QED BY <4>1 DEF AdvancePublishedFails, AdvanceSpilledFails, AdvanceFails
    <3>7. ~FailedSync(a) /\ ~FailedHibernates(a) /\ ~FailedDeadLetter(a) /\ ~FailedDeadLetterFails(a)
      BY <2>4 DEF FailedSync, FailedHibernates, FailedDeadLetter, FailedDeadLetterFails, At
    <3> QED BY <2>1, <3>1, <3>2, <3>3, <3>4, <3>5, <3>6, <3>7 DEF flushItems
  <2> QED BY <2>2, <2>3, <2>5 DEF Untroubled, mainVars, bufVars
<1> QED BY <1>2, <1>3, <1>4, <1>5, <1>6, <1>7, <1>8, <1>9, <1>10, <1>11 DEF Next, Main, Process, Shutting

\* At-least-once with either parser where publishes are retried until they
\* succeed: Run never has an error to report, so no record is given up and every
\* line at or before the watermark is settled (publishBatchWithRetry).
THEOREM PipelineWatermarkCoversSteady ==
    ASSUME Steady, PassOver PROVE Spec => [](~err /\ WatermarkCovers)
<1>1. NoHold
  BY DEF Steady, NoHold
<1>2. Inv /\ Untroubled /\ [Next]_vars => Untroubled'
  BY UntroubledNext
<1>3. Spec => []DeliveryInv
  BY <1>1, PipelineDelivery
<1>4. DeliveryInv => Inv
  BY DEF DeliveryInv, PlacesInv
<1>5. Spec => []Untroubled
  BY <1>2, <1>3, <1>4, UntroubledInit, PTL DEF Spec
<1>6. DeliveryInv /\ Untroubled => ~err /\ WatermarkCovers
  BY DEF DeliveryInv, Trusted, WatermarkCovers, Grounded, Untroubled
<1> QED BY <1>3, <1>5, <1>6, PTL
=============================================================================
