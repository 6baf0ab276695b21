--------------------------- MODULE LifecycleProofs ---------------------------
(* Proofs about Lifecycle, with or without the ATC and batching, and for any  *)
(* number of signals.                                                         *)
EXTENDS Lifecycle, SequenceTheorems, TLAPS

Early == DOMAIN After \cup {"start"}
Opened == {"checkSink", "deadLetter", "metrics", "listen", "pipeline", "start"}
Middle == {"select", "cancelRunners", "decide"}
Closing == {"shutdownMetrics", "deferred", "closeSink", "flush", "closeLog"}

HasReturned(g) == IF g = "returned" THEN 1 ELSE 0

\* Each goroutine sends one value when it returns, and runner.Wait has received
\* or will receive it.
Counted == received + Len(errCh) = HasReturned(watcher) + HasReturned(pipe)

\* An error is noted, or still on its way to runner.Wait, and only an error is;
\* what Wait returns tells whether there was one.
Noted == /\ failure => first \/ \E i \in 1..Len(errCh) : errCh[i] = "error"
         /\ \A i \in 1..Len(errCh) : errCh[i] = "error" => failure
         /\ runnerDone # "none" => received = 2
         /\ runnerDone = "nil" => ~first

\* How far main has come, and what it may have opened, closed and told the ATC.
Phases == /\ pc \in Early => watcher = "off" /\ pipe = "off"
          /\ pc \in Opened => sinkOpen
          /\ pc \in Early \cup {"register"} => ~registered /\ ~deregisterOnce
          /\ pc \in {"cancelRunners", "decide"} \cup Closing => deregisterOnce
          /\ pc \in Closing \/ exit = "ok" \/ ~linesOpen => runnerDone = "nil"

\* Whoever was deregistered is not listed, unless the DELETE failed.
Listed == /\ deregisterOnce /\ registered => deregisterFailed
          /\ registered => ATCEnabled

\* What the final Flush wrote is still all there is, but for what Run left behind.
Flushed == pc = "closeLog" => ~dirty \/ flushFailed \/ late

Inv == /\ TypeOK /\ Counted /\ Noted /\ Phases /\ Listed /\ Flushed
       /\ pipe = "running" => sinkOpen
       /\ NotLeftRegistered /\ DeregisterFirst /\ FlushedAtExit
-----------------------------------------------------------------------------
(* What Wait knows when it is over.                                           *)

\* When runner.Wait has returned, both goroutines have; when it returned nil,
\* neither of them with an error.
LEMMA WaitIsOver ==
    ASSUME Inv, runnerDone # "none"
    PROVE  /\ watcher = "returned" /\ pipe = "returned"
           /\ runnerDone = "nil" => ~failure
<1>1. received = 2 /\ Len(errCh) \in Nat
  BY DEF Inv, TypeOK, Noted
<1>2. watcher = "returned" /\ pipe = "returned" /\ Len(errCh) = 0
  BY <1>1 DEF Inv, Counted, HasReturned
<1>3. runnerDone = "nil" => ~failure
  BY <1>2 DEF Inv, Noted
<1> QED BY <1>2, <1>3
-----------------------------------------------------------------------------
(* One lemma per action or group of actions.                                  *)

\* Init establishes the invariant.
LEMMA InitInv == Init => Inv
<1> SUFFICES ASSUME Init PROVE Inv
  OBVIOUS
<1> USE DEF Init
<1>1. TypeOK
  BY DEF TypeOK, Early, After
<1>2. Counted /\ Noted
  BY DEF Counted, Noted, HasReturned
<1>3. Phases /\ Listed
  BY DEF Phases, Listed, Early, Opened, Closing, After
<1> QED BY <1>1, <1>2, <1>3 DEF Inv, NotLeftRegistered, DeregisterFirst, FlushedAtExit, Flushed

\* A step of the start: the sink is open from its construction on.
LEMMA StartupStepInv == Inv /\ StartupStep => Inv'
<1> SUFFICES ASSUME Inv, StartupStep PROVE Inv'
  OBVIOUS
<1> USE DEF StartupStep, Goto, ctxVars, runVars, waitVars, atcVars, markVars
<1>0. sinkOpen' <=> sinkOpen \/ pc = "sink"
  BY Zenon
<1>1. /\ pc \in DOMAIN After /\ pc' \in Early \ {"loadConfig"}
      /\ pc' \in Opened => pc = "sink" \/ pc \in Opened
      /\ pc' # "closeLog"
  BY DEF After, Early, Opened
<1>2. TypeOK' /\ Counted' /\ Noted'
  BY <1>1 DEF Inv, TypeOK, Counted, Noted, HasReturned, Early, After
<1>3. Phases'
  BY <1>0, <1>1 DEF Inv, Phases, Early, Opened, Closing, TypeOK, After
<1> QED BY <1>0, <1>1, <1>2, <1>3 DEF Inv, Listed, NotLeftRegistered, DeregisterFirst, FlushedAtExit, Flushed

\* A check that fails ends a process that the ATC does not know.
LEMMA StartupFailsInv == Inv /\ StartupFails => Inv'
<1> SUFFICES ASSUME Inv, StartupFails PROVE Inv'
  OBVIOUS
<1> USE DEF StartupFails, Exit, ctxVars, runVars, waitVars, atcVars, openVars, markVars
<1>1. TypeOK' /\ Counted' /\ Noted'
  BY DEF Inv, TypeOK, Counted, Noted, HasReturned
<1>2. Phases'
  BY DEF Inv, Phases, Early, Opened, Closing, TypeOK, After
<1>3. ~registered
  BY DEF Inv, Phases, Early
<1> QED BY <1>1, <1>2, <1>3 DEF Inv, Listed, NotLeftRegistered, DeregisterFirst, FlushedAtExit, Flushed

\* The goroutines start when the sink is open.
LEMMA StartRunnersInv == Inv /\ StartRunners => Inv'
<1> SUFFICES ASSUME Inv, StartRunners PROVE Inv'
  OBVIOUS
<1> USE DEF StartRunners, Goto, ctxVars, waitVars, atcVars, openVars, markVars
<1>0. watcher = "off" /\ pipe = "off" /\ sinkOpen
  BY DEF Inv, Phases, Early, Opened
<1>1. TypeOK' /\ Counted' /\ Noted'
  BY <1>0 DEF Inv, TypeOK, Counted, Noted, HasReturned
<1>2. Phases'
  BY DEF Inv, Phases, Early, Opened, Closing, TypeOK, After
<1> QED BY <1>0, <1>1, <1>2 DEF Inv, Listed, NotLeftRegistered, DeregisterFirst, FlushedAtExit, Flushed

\* The registration comes before any deregistration.
LEMMA RegisterInv == Inv /\ Register => Inv'
<1> SUFFICES ASSUME Inv, Register PROVE Inv'
  OBVIOUS
<1> USE DEF Register, Goto, ctxVars, runVars, waitVars, openVars, markVars
<1>0. ~deregisterOnce /\ (registered' => ATCEnabled)
  BY DEF Inv, Phases
<1>1. TypeOK' /\ Counted' /\ Noted'
  BY DEF Inv, TypeOK, Counted, Noted, HasReturned, Middle
<1>2. Phases'
  BY DEF Inv, Phases, Early, Opened, Closing, TypeOK, After
<1>3. NotLeftRegistered'
  BY DEF Inv, TypeOK, NotLeftRegistered
<1> QED BY <1>0, <1>1, <1>2, <1>3 DEF Inv, Listed, DeregisterFirst, FlushedAtExit, Flushed

\* A goroutine returns once, and the value it sends is counted.
LEMMA ReturnsInv ==
    ASSUME Inv, NEW e \in {"nil", "canceled", "error"}, Returns(e), Alive,
           UNCHANGED <<mainVars, ctxVars, waitVars, atcVars, openVars, markVars>>,
           \/ watcher \in {"starting", "running"} /\ watcher' = "returned" /\ pipe' = pipe
           \/ pipe = "running" /\ pipe' = "returned" /\ watcher' = watcher
    PROVE  Inv'
<1> USE DEF mainVars, ctxVars, waitVars, atcVars, openVars, markVars
<1>1. errCh' = Append(errCh, e) /\ (failure' <=> failure \/ e = "error")
  BY Zenon DEF Returns
<1>2. /\ errCh' \in Seq({"nil", "canceled", "error"}) /\ Len(errCh') = Len(errCh) + 1
      /\ \A i \in 1..Len(errCh) : errCh'[i] = errCh[i]
      /\ errCh'[Len(errCh) + 1] = e /\ Len(errCh) \in Nat
  BY <1>1 DEF Inv, TypeOK
<1>3. TypeOK' /\ Counted'
  BY <1>2 DEF Inv, TypeOK, Counted, HasReturned
<1>4. Noted'
  BY <1>1, <1>2 DEF Inv, TypeOK, Noted
<1>5. Phases'
  BY DEF Inv, Phases, TypeOK
<1> QED BY <1>1, <1>3, <1>4, <1>5
        DEF Inv, Listed, NotLeftRegistered, DeregisterFirst, FlushedAtExit, Flushed

\* The steps of the goroutines.
LEMMA GoroutinesInv == Inv /\ Goroutines => Inv'
<1> SUFFICES ASSUME Inv, Goroutines PROVE Inv'
  OBVIOUS
<1>1. Alive /\ UNCHANGED <<mainVars, ctxVars, waitVars, atcVars, openVars>>
  BY DEF Goroutines
<1>2. CASE WatcherStarts
  <2> USE DEF mainVars, ctxVars, waitVars, atcVars, openVars, markVars
  <2>1. TypeOK' /\ Counted' /\ Noted'
    BY <1>1, <1>2 DEF WatcherStarts, Inv, TypeOK, Counted, Noted, HasReturned
  <2>2. Phases'
    BY <1>1, <1>2 DEF WatcherStarts, Inv, Phases, TypeOK
  <2> QED BY <1>1, <1>2, <2>1, <2>2 DEF WatcherStarts, Inv, Listed, NotLeftRegistered,
                                        DeregisterFirst, FlushedAtExit, Flushed
<1>3. CASE PipeAdvances \/ PeriodicFlush \/ BackgroundStarts \/ BackgroundEnds
  <2> USE DEF mainVars, ctxVars, waitVars, atcVars, openVars, runVars
  <2>1. UNCHANGED <<mainVars, ctxVars, waitVars, atcVars, openVars, runVars>>
    BY <1>1, <1>3 DEF PipeAdvances, PeriodicFlush, BackgroundStarts, BackgroundEnds
  <2>2. TypeOK' /\ Counted' /\ Noted' /\ Phases' /\ Listed'
    BY <2>1 DEF Inv, TypeOK, Counted, Noted, HasReturned, Phases, Listed
  <2>3. Flushed'
    <3> SUFFICES ASSUME pc = "closeLog" PROVE ~dirty' \/ flushFailed' \/ late'
      BY <2>1 DEF Flushed
    <3>1. ~PipeAdvances
      BY WaitIsOver DEF Inv, Phases, Closing, PipeAdvances
    <3>2. CASE PeriodicFlush
      BY <3>2 DEF PeriodicFlush
    <3>3. CASE BackgroundStarts
      BY <3>3 DEF BackgroundStarts, Inv, Flushed
    <3>4. CASE BackgroundEnds
      <4>1. \/ late' = (late \/ pc = "closeLog")
            \/ UNCHANGED <<dirty, late>>
        BY <3>4, Zenon DEF BackgroundEnds
      <4>2. flushFailed' = flushFailed
        BY <3>4 DEF BackgroundEnds
      <4>3. CASE late' = (late \/ pc = "closeLog")
        BY <4>3, Zenon
      <4>4. CASE UNCHANGED <<dirty, late>>
        BY <4>2, <4>4 DEF Inv, Flushed
      <4> QED BY <4>1, <4>3, <4>4
    <3> QED BY <1>3, <3>1, <3>2, <3>3, <3>4
  <2> QED BY <1>1, <2>1, <2>2, <2>3 DEF Inv, Alive, NotLeftRegistered, DeregisterFirst,
                                        FlushedAtExit
<1>4. ASSUME NEW e \in {"canceled", "error"}, WatcherReturns(e) PROVE Inv'
  BY <1>1, <1>4, ReturnsInv DEF WatcherReturns
<1>5. ASSUME NEW e \in {"nil", "canceled", "error"}, PipeReturns(e) PROVE Inv'
  BY <1>1, <1>5, ReturnsInv DEF PipeReturns
<1> QED BY <1>2, <1>3, <1>4, <1>5 DEF Goroutines

\* runner.Wait receives a value: an error among those that are left is either
\* this one or still in the channel.
LEMMA WaitInv == Inv /\ Wait => Inv'
<1> SUFFICES ASSUME Inv, Wait PROVE Inv'
  OBVIOUS
<1> USE DEF mainVars, atcVars, openVars, markVars
<1>0. (first' <=> first \/ IsError) /\ (cancelled' <=> cancelled \/ IsError)
  BY Zenon DEF Wait, Receive
<1>1. /\ errCh # <<>> /\ errCh' = Tail(errCh) /\ received < 2 /\ received' = received + 1
      /\ runnerDone' = IF received + 1 < 2 THEN "none"
                       ELSE IF first \/ IsError THEN "error" ELSE "nil"
      /\ UNCHANGED <<pc, exit, failure, watcher, pipe, signals, signalled, atcVars,
                     openVars, markVars>>
      /\ Alive /\ pc \notin Early
  BY DEF Wait, Receive, Early
<1>2. /\ errCh' \in Seq({"nil", "canceled", "error"}) /\ Len(errCh') = Len(errCh) - 1
      /\ Len(errCh) \in Nat /\ Len(errCh) >= 1 /\ Head(errCh) = errCh[1]
      /\ \A i \in 1..Len(errCh') : errCh'[i] = errCh[i + 1]
  BY <1>1 DEF Inv, TypeOK
<1>3. IsError <=> errCh[1] = "error"
  BY <1>1, <1>2 DEF IsError
<1>4. TypeOK' /\ Counted'
  BY <1>1, <1>2 DEF Inv, TypeOK, Counted, HasReturned
<1>5. Noted'
  <2>1. ASSUME failure' PROVE first' \/ \E i \in 1..Len(errCh') : errCh'[i] = "error"
    <3>1. first \/ \E i \in 1..Len(errCh) : errCh[i] = "error"
      BY <1>1, <2>1 DEF Inv, Noted
    <3>2. ASSUME NEW i \in 1..Len(errCh), errCh[i] = "error"
          PROVE  first' \/ \E j \in 1..Len(errCh') : errCh'[j] = "error"
      <4>1. CASE i = 1
        BY <4>1, <3>2, <1>0, <1>3
      <4>2. CASE i # 1
        <5>1. i - 1 \in 1..Len(errCh') /\ errCh'[i - 1] = errCh[i]
          BY <4>2, <1>2
        <5> QED BY <5>1, <3>2
      <4> QED BY <4>1, <4>2
    <3> QED BY <3>1, <3>2, <1>0
  <2>2. \A i \in 1..Len(errCh') : errCh'[i] = "error" => failure'
    BY <1>1, <1>2 DEF Inv, Noted
  <2>3. /\ runnerDone' # "none" => received' = 2
        /\ runnerDone' = "nil" => ~first'
    BY <1>0, <1>1 DEF Inv, TypeOK
  <2> QED BY <2>1, <2>2, <2>3 DEF Noted
<1>6. runnerDone = "none"
  BY <1>1 DEF Inv, Noted
<1>7. Phases'
  BY <1>1, <1>6 DEF Inv, Phases, TypeOK, Alive
<1>8. DeregisterFirst'
  BY <1>0, <1>1, <1>2, <1>3 DEF Inv, DeregisterFirst, Noted
<1> QED BY <1>1, <1>4, <1>5, <1>7, <1>8 DEF Inv, Listed, NotLeftRegistered, FlushedAtExit, Flushed

\* deregisterFromATC leaves nobody listed for whom the DELETE succeeded.
LEMMA DeregisterLeaves ==
    ASSUME Inv, deregisterFromATC
    PROVE  deregisterOnce' /\ Listed'
BY DEF Inv, deregisterFromATC, Listed

\* What main does after the registration, up to its decision.
LEMMA MiddleInv == Inv /\ (SelectRunners \/ SelectSignal \/ CancelRunners) => Inv'
<1> SUFFICES ASSUME Inv, SelectRunners \/ SelectSignal \/ CancelRunners PROVE Inv'
  OBVIOUS
<1> USE DEF Goto, ctxVars, runVars, waitVars, openVars, markVars
<1>1. /\ pc \in Middle /\ pc' \in {"cancelRunners", "decide"}
      /\ UNCHANGED <<exit, runVars, waitVars, openVars, markVars>>
  BY DEF SelectRunners, SelectSignal, CancelRunners, Middle, atcVars
<1>2. deregisterOnce' /\ Listed'
  <2>1. CASE CancelRunners
    BY <2>1 DEF CancelRunners, atcVars, Inv, Phases, Listed
  <2>2. CASE SelectRunners \/ SelectSignal
    BY <2>2, DeregisterLeaves DEF SelectRunners, SelectSignal
  <2> QED BY <2>1, <2>2
<1>3. exit = "none"
  BY <1>1 DEF Inv, TypeOK, Middle
<1>4. TypeOK' /\ Counted' /\ Noted'
  BY <1>1, <1>3 DEF Inv, TypeOK, Counted, Noted, HasReturned, Middle
<1>5. Phases'
  BY <1>1, <1>2, <1>3 DEF Inv, Phases, Early, Opened, Closing, After
<1> QED BY <1>1, <1>2, <1>3, <1>4, <1>5
        DEF Inv, NotLeftRegistered, DeregisterFirst, FlushedAtExit, Flushed

\* The decision: an error exits, deregistered; otherwise the lines are closed
\* when nobody sends any more.
LEMMA DecideInv == Inv /\ Decide => Inv'
<1> SUFFICES ASSUME Inv, Decide PROVE Inv'
  OBVIOUS
<1> USE DEF Decide, Goto, Exit, ctxVars, runVars, waitVars, atcVars, markVars
<1>1. deregisterOnce /\ runnerDone \in {"nil", "error"} /\ exit = "none"
  BY DEF Inv, Phases, TypeOK
<1>2. \/ pc' = "exited" /\ exit' = "failed" /\ linesOpen' = linesOpen
      \/ pc' = "shutdownMetrics" /\ exit' = exit /\ runnerDone = "nil"
  BY <1>1
<1>3. TypeOK' /\ Counted' /\ Noted'
  BY <1>1, <1>2 DEF Inv, TypeOK, Counted, Noted, HasReturned, Closing
<1>4. Phases'
  BY <1>1, <1>2 DEF Inv, Phases, Early, Opened, Closing, After
<1>5. NotLeftRegistered' /\ FlushedAtExit' /\ Flushed'
  BY <1>1, <1>2 DEF Inv, Listed, NotLeftRegistered, FlushedAtExit, Flushed
<1> QED BY <1>3, <1>4, <1>5 DEF Inv, Listed, DeregisterFirst

\* The deferred calls run when Run has returned, the sink closed after it.
LEMMA ClosingInv == Inv /\ (ShutdownMetrics \/ Deferred \/ CloseSink \/ FinalFlush \/ CloseLog) => Inv'
<1> SUFFICES ASSUME Inv, ShutdownMetrics \/ Deferred \/ CloseSink \/ FinalFlush \/ CloseLog
             PROVE  Inv'
  OBVIOUS
<1> USE DEF Goto, Exit, ctxVars, runVars, waitVars, openVars, markVars
<1>1. /\ pc \in Closing /\ pc' \in Closing \cup {"exited"}
      /\ UNCHANGED <<runVars, waitVars, linesOpen>>
      /\ \/ pc' \in Closing /\ exit' = exit
         \/ pc' = "exited" /\ exit' = "ok"
  BY DEF ShutdownMetrics, Deferred, CloseSink, FinalFlush, CloseLog, Closing
<1>2. exit = "none" /\ runnerDone = "nil" /\ deregisterOnce /\ pipe = "returned"
  BY <1>1, WaitIsOver DEF Inv, Phases, TypeOK, Closing
<1>3. deregisterOnce' /\ Listed'
  <2>1. CASE Deferred
    BY <2>1, DeregisterLeaves DEF Deferred
  <2>2. CASE ~Deferred
    <3>1. UNCHANGED atcVars
      BY <2>2 DEF ShutdownMetrics, CloseSink, FinalFlush, CloseLog
    <3> QED BY <3>1, <1>2 DEF atcVars, Inv, Listed
  <2> QED BY <2>1, <2>2
<1>4. TypeOK' /\ Counted' /\ Noted'
  BY <1>1, <1>2 DEF Inv, TypeOK, Counted, Noted, HasReturned, Closing
<1>5. Phases'
  BY <1>1, <1>2, <1>3 DEF Inv, Phases, Early, Opened, Closing, After
<1>6. FlushedAtExit' /\ Flushed'
  <2>1. CASE CloseLog
    BY <2>1 DEF CloseLog, Inv, Flushed, FlushedAtExit
  <2>2. CASE FinalFlush
    BY <1>2, <2>2 DEF FinalFlush, Flushed, FlushedAtExit
  <2>3. CASE ShutdownMetrics \/ Deferred \/ CloseSink
    BY <1>2, <2>3 DEF ShutdownMetrics, Deferred, CloseSink, Flushed, FlushedAtExit
  <2> QED BY <2>1, <2>2, <2>3
<1>7. NotLeftRegistered' /\ DeregisterFirst'
  BY <1>1, <1>2, <1>3 DEF Listed, NotLeftRegistered, DeregisterFirst
<1> QED BY <1>1, <1>2, <1>3, <1>4, <1>5, <1>6, <1>7 DEF Inv

\* A signal is noted, or kills a process that tells the ATC nothing any more.
LEMMA SignalInv == Inv /\ Signal => Inv'
<1> SUFFICES ASSUME Inv, Signal PROVE Inv'
  OBVIOUS
<1> USE DEF Signal, Exit, runVars, waitVars, atcVars, openVars, markVars
<1>1. exit = "none" /\ \/ pc' = pc /\ exit' = exit
                       \/ pc' = "exited" /\ exit' = "killed"
  BY DEF Alive
<1>2. TypeOK' /\ Counted' /\ Noted'
  BY <1>1 DEF Inv, TypeOK, Counted, Noted, HasReturned
<1>3. Phases'
  BY <1>1 DEF Inv, Phases, Early, Opened, Closing, After
<1> QED BY <1>1, <1>2, <1>3 DEF Inv, Listed, NotLeftRegistered, DeregisterFirst, FlushedAtExit, Flushed
-----------------------------------------------------------------------------
\* The invariant of the process: every value a goroutine returns is counted, an
\* error is noted or on its way, and main closes and exits only in the order of
\* its phases (main.go:195-256, runner.go:15-30).
THEOREM LifecycleInv == FairSpec => []Inv
<1>1. ASSUME Inv, UNCHANGED vars PROVE Inv'
  <2> USE <1>1 DEF vars, mainVars, ctxVars, runVars, waitVars, atcVars, openVars, markVars
  <2>1. TypeOK' /\ Counted' /\ Noted'
    BY DEF Inv, TypeOK, Counted, Noted, HasReturned
  <2>2. Phases' /\ Listed'
    BY DEF Inv, Phases, Listed
  <2> QED BY <2>1, <2>2 DEF Inv, NotLeftRegistered, DeregisterFirst, FlushedAtExit, Flushed
<1>2. Inv /\ [Next]_vars => Inv'
  BY <1>1, StartupStepInv, StartupFailsInv, StartRunnersInv, RegisterInv, GoroutinesInv,
     WaitInv, MiddleInv, DecideInv, ClosingInv, SignalInv DEF Next, Main
<1> QED BY <1>2, InitInv, PTL DEF FairSpec

\* Type correctness of main, runner.Wait and the goroutines.
THEOREM LifecycleTypeCorrect == FairSpec => []TypeOK
<1>1. Inv => TypeOK
  BY DEF Inv
<1> QED BY <1>1, LifecycleInv, PTL

\* The lines channel and the sink outlive the goroutines that use them
\* (main.go:71-75, main.go:256).
THEOREM LifecycleTornDownLast == FairSpec => []TornDownLast
<1>1. ASSUME Inv PROVE TornDownLast
  <2>1. ~linesOpen => watcher = "returned"
    BY <1>1, WaitIsOver DEF Inv, Phases
  <2> QED BY <1>1, <2>1 DEF Inv, TornDownLast
<1> QED BY <1>1, LifecycleInv, PTL

\* Status 0 means that both goroutines returned and none failed (main.go:240-254).
THEOREM LifecycleExitStatus == FairSpec => []ExitStatus
<1>1. ASSUME Inv PROVE ExitStatus
  BY <1>1, WaitIsOver DEF Inv, Phases, ExitStatus
<1> QED BY <1>1, LifecycleInv, PTL

\* Whoever ends with a status was deregistered, unless the DELETE failed
\* (main.go:96-114, main.go:241, main.go:248).
THEOREM LifecycleNotLeftRegistered == FairSpec => []NotLeftRegistered
<1>1. Inv => NotLeftRegistered
  BY DEF Inv
<1> QED BY <1>1, LifecycleInv, PTL

\* The DELETE comes before the cancel, unless a goroutine failed (main.go:246-249).
THEOREM LifecycleDeregisterFirst == FairSpec => []DeregisterFirst
<1>1. Inv => DeregisterFirst
  BY DEF Inv
<1> QED BY <1>1, LifecycleInv, PTL

\* Status 0 means that every watermark is on disk, unless the final Flush failed or
\* Run left a goroutine behind that moved one after it: neither Run is left to
\* move a watermark between the final Flush and the exit (main.go:58-64, 234-257).
THEOREM LifecycleFlushedAtExit == FairSpec => []FlushedAtExit
<1>1. Inv => FlushedAtExit
  BY DEF Inv
<1> QED BY <1>1, LifecycleInv, PTL
=============================================================================
