------------------------------ MODULE Lifecycle ------------------------------
(***************************************************************************)
(* cmd/log-forwarder and internal/runner: the start of the process, the    *)
(* goroutines of the watcher and the pipeline, runner.Wait, signals, the   *)
(* registration with the ATC, and the end of the process.                  *)
(*                                                                         *)
(* os.Exit(1) ends the process at once; the deferred calls of main run     *)
(* only when it returns, the last one first.  The watcher and the pipeline *)
(* are what they are to main: goroutines that return nil, context.Canceled *)
(* or an error, and that a cancelled runCtx makes return.                  *)
(***************************************************************************)
EXTENDS Integers, Sequences

CONSTANTS
    ATCEnabled,      \* atc.enabled
    Batching,        \* the pipeline has a flusher, and so background goroutines
    MaxSignals       \* bound: SIGINT or SIGTERM received

ASSUME LifecycleAssumption == /\ {ATCEnabled, Batching} \subseteq BOOLEAN
                              /\ MaxSignals \in Nat

VARIABLES
    pc,              \* where main is
    exit,            \* "none", or how the process ended
    signals,         \* signals received
    signalled,       \* signalCtx is done
    cancelled,       \* runCtx is done
    watcher, pipe,   \* the goroutines: "off", "starting", "running", "returned"
    background,      \* a runFlush or a wake loop is in flushItems
    errCh,           \* what the goroutines returned
    failure,         \* one of them returned an error
    received, first, \* runner.Wait: values received, an error among them
    runnerDone,      \* "none", or what runner.Wait returned
    registered,      \* the ATC lists this process
    deregisterOnce, deregisterFailed,
    linesOpen, sinkOpen,
    flusher,         \* RunPeriodicFlush runs
    dirty,           \* watermarks in memory that are not on disk
    flushFailed,     \* the final Flush failed
    late             \* a goroutine that Run left behind moved a watermark after
                     \* the final Flush

mainVars == <<pc, exit>>
ctxVars == <<signals, signalled, cancelled>>
runVars == <<watcher, pipe, errCh, failure>>
waitVars == <<received, first, runnerDone>>
atcVars == <<registered, deregisterOnce, deregisterFailed>>
openVars == <<linesOpen, sinkOpen, flusher>>
markVars == <<background, dirty, flushFailed, late>>
vars == <<mainVars, ctxVars, runVars, waitVars, atcVars, openVars, markVars>>

\* The checks of the start, in order, each followed by the next.
After == [loadConfig |-> "logger", logger |-> "NewStore", NewStore |-> "sink",
          sink |-> "checkSink", checkSink |-> "deadLetter", deadLetter |-> "metrics",
          metrics |-> "listen", listen |-> "pipeline", pipeline |-> "start"]
Unnotified == {"loadConfig", "logger", "NewStore", "sink", "checkSink", "deadLetter"}

Init == /\ pc = "loadConfig" /\ exit = "none"
        /\ signals = 0 /\ signalled = FALSE /\ cancelled = FALSE
        /\ watcher = "off" /\ pipe = "off" /\ errCh = <<>> /\ failure = FALSE
        /\ received = 0 /\ first = FALSE /\ runnerDone = "none"
        /\ registered = FALSE /\ deregisterOnce = FALSE /\ deregisterFailed = FALSE
        /\ linesOpen = TRUE /\ sinkOpen = FALSE /\ flusher = FALSE
        /\ background = FALSE /\ dirty = FALSE /\ flushFailed = FALSE /\ late = FALSE

Alive == exit = "none"
Exit(code) == pc' = "exited" /\ exit' = code
Goto(l) == pc' = l /\ UNCHANGED exit
-----------------------------------------------------------------------------
(* main, up to its select.                                                 *)

StartupStep == /\ pc \in DOMAIN After
               /\ Goto(After[pc])
               /\ sinkOpen' = (sinkOpen \/ pc = "sink")
               /\ flusher' = (flusher \/ pc = "listen")
               /\ UNCHANGED <<ctxVars, runVars, waitVars, atcVars, linesOpen, markVars>>

\* Every check that fails refuses to start.
StartupFails == /\ pc \in DOMAIN After
                /\ Exit("failed")
                /\ UNCHANGED <<ctxVars, runVars, waitVars, atcVars, openVars, markVars>>

StartRunners == /\ pc = "start"
                /\ Goto("register")
                /\ watcher' = "starting" /\ pipe' = "running"
                /\ UNCHANGED <<errCh, failure, ctxVars, waitVars, atcVars, openVars,
                               markVars>>

\* PUT; a request that fails or times out may have reached the ATC.  Then
\* runner.Wait is started.
Register == /\ pc = "register"
            /\ Goto("select")
            /\ registered' \in (IF ATCEnabled THEN BOOLEAN ELSE {FALSE})
            /\ UNCHANGED <<deregisterOnce, deregisterFailed, ctxVars, runVars, waitVars,
                           openVars, markVars>>
-----------------------------------------------------------------------------
(* The goroutines.  None of their steps touches main or runner.Wait.        *)

Returns(e) == errCh' = Append(errCh, e) /\ failure' = (failure \/ e = "error")

\* The directories are watched and the first scan is over.
WatcherStarts == /\ watcher = "starting"
                 /\ watcher' = "running"
                 /\ UNCHANGED <<pipe, errCh, failure, markVars>>

\* Only its start can fail; later errors of a scan are logged.
WatcherReturns(e) == /\ \/ watcher = "starting" /\ e = "error"
                        \/ watcher \in {"starting", "running"} /\ cancelled /\ e = "canceled"
                     /\ watcher' = "returned"
                     /\ Returns(e)
                     /\ UNCHANGED <<pipe, markVars>>

\* A cancelled Run flushes and returns nil, or the error that stopped it.
PipeReturns(e) == /\ pipe = "running"
                  /\ e \in {"nil", "canceled"} => cancelled
                  /\ pipe' = "returned"
                  /\ Returns(e)
                  /\ UNCHANGED <<watcher, markVars>>

\* Run moves a watermark.
PipeAdvances == /\ pipe = "running"
                /\ dirty' = TRUE
                /\ UNCHANGED <<runVars, background, flushFailed, late>>

BackgroundStarts == /\ pipe = "running" /\ Batching
                    /\ background' = TRUE
                    /\ UNCHANGED <<runVars, dirty, flushFailed, late>>

\* A flush in the background ends, perhaps after it has moved watermarks.
\* Nobody waits for one that Run has left behind.
BackgroundEnds == /\ background
                  /\ background' = FALSE
                  /\ \/ dirty' = TRUE /\ late' = (late \/ pc = "closeLog")
                     \/ UNCHANGED <<dirty, late>>
                  /\ UNCHANGED <<runVars, flushFailed>>

\* A tick of RunPeriodicFlush that persists; one that fails changes nothing.
PeriodicFlush == /\ flusher
                 /\ dirty
                 /\ dirty' = FALSE
                 /\ UNCHANGED <<runVars, background, flushFailed, late>>

Goroutines == /\ Alive
              /\ \/ WatcherStarts \/ PipeAdvances \/ PeriodicFlush
                 \/ BackgroundStarts \/ BackgroundEnds
                 \/ \E e \in {"canceled", "error"} : WatcherReturns(e)
                 \/ \E e \in {"nil", "canceled", "error"} : PipeReturns(e)
              /\ UNCHANGED <<mainVars, ctxVars, waitVars, atcVars, openVars>>
-----------------------------------------------------------------------------
(* runner.Wait, which main starts after the registration.                  *)

Receive(n, error) == /\ Alive /\ pc \notin DOMAIN After \cup {"start", "register"}
                     /\ received < 2 /\ errCh # <<>>
                     /\ errCh' = Tail(errCh)
                     /\ received' = n
                     /\ first' = error
                     /\ runnerDone' = IF n < 2 THEN "none"
                                      ELSE IF error THEN "error" ELSE "nil"
                     /\ UNCHANGED <<mainVars, signals, signalled, watcher, pipe, failure,
                                    atcVars, openVars, markVars>>

IsError == errCh # <<>> /\ Head(errCh) = "error"

\* Faulty variant: the first error is noted and nobody is told.
WaitNoCancel == /\ Receive(received + 1, first \/ IsError)
                /\ UNCHANGED cancelled

\* Faulty variant: the first value ends the wait.
WaitOne == /\ Receive(2, IsError)
           /\ cancelled' = (cancelled \/ IsError)

\* Faulty variant: the last value decides.
WaitLast == /\ Receive(received + 1, IsError)
            /\ cancelled' = (cancelled \/ IsError)

\* The first error that is not context.Canceled cancels the other goroutine.
Wait == /\ Receive(received + 1, first \/ IsError)
        /\ cancelled' = (cancelled \/ IsError)
-----------------------------------------------------------------------------
(* The select of main and what follows.                                    *)

\* The first call sends a DELETE, which may fail on the way or on the way back.
deregisterFromATC ==
    /\ deregisterOnce' = TRUE
    /\ IF ATCEnabled /\ ~deregisterOnce
       THEN \/ registered' = FALSE /\ UNCHANGED deregisterFailed
            \/ registered' \in {registered, FALSE} /\ deregisterFailed' = TRUE
       ELSE UNCHANGED <<registered, deregisterFailed>>

\* Faulty variant: only a signal deregisters.
SelectRunnersSilent == /\ pc = "select"
                       /\ runnerDone # "none"
                       /\ Goto("decide")
                       /\ UNCHANGED <<ctxVars, runVars, waitVars, atcVars, openVars,
                                      markVars>>

SelectRunners == /\ pc = "select"
                 /\ runnerDone # "none"
                 /\ deregisterFromATC
                 /\ Goto("decide")
                 /\ UNCHANGED <<ctxVars, runVars, waitVars, openVars, markVars>>

SelectSignal == /\ pc = "select"
                /\ signalled
                /\ deregisterFromATC
                /\ Goto("cancelRunners")
                /\ UNCHANGED <<ctxVars, runVars, waitVars, openVars, markVars>>

CancelRunners == /\ pc = "cancelRunners"
                 /\ cancelled' = TRUE
                 /\ Goto("decide")
                 /\ UNCHANGED <<signals, signalled, runVars, waitVars, atcVars, openVars,
                                markVars>>

\* Faulty variant: after a signal main does not wait for runner.Wait.
DecideUnwaited == /\ pc = "decide"
                  /\ IF runnerDone = "error"
                     THEN Exit("failed") /\ UNCHANGED linesOpen
                     ELSE Goto("shutdownMetrics") /\ linesOpen' = FALSE
                  /\ UNCHANGED <<ctxVars, runVars, waitVars, atcVars, sinkOpen, flusher,
                                 markVars>>

\* os.Exit(1) after an error; otherwise close(lines), and main returns.
Decide == /\ pc = "decide"
          /\ runnerDone # "none"
          /\ IF runnerDone = "error"
             THEN Exit("failed") /\ UNCHANGED linesOpen
             ELSE Goto("shutdownMetrics") /\ linesOpen' = FALSE
          /\ UNCHANGED <<ctxVars, runVars, waitVars, atcVars, sinkOpen, flusher, markVars>>

\* The metrics server is given five seconds.
ShutdownMetrics == /\ pc = "shutdownMetrics"
                   /\ Goto("deferred")
                   /\ UNCHANGED <<ctxVars, runVars, waitVars, atcVars, openVars, markVars>>

\* deregisterFromATC once more, runCancel, and stop of the signals.
Deferred == /\ pc = "deferred"
            /\ deregisterFromATC
            /\ cancelled' = TRUE
            /\ Goto("closeSink")
            /\ UNCHANGED <<signals, signalled, runVars, waitVars, openVars, markVars>>

CloseSink == /\ pc = "closeSink"
             /\ sinkOpen' = FALSE
             /\ Goto("flush")
             /\ UNCHANGED <<ctxVars, runVars, waitVars, atcVars, linesOpen, flusher,
                            markVars>>

\* flushCancel and the final Flush, which may fail; what Run has left behind in
\* the background still runs.
FinalFlush == /\ pc = "flush"
              /\ flusher' = FALSE
              /\ \/ dirty' = FALSE /\ UNCHANGED flushFailed
                 \/ flushFailed' = TRUE /\ UNCHANGED dirty
              /\ Goto("closeLog")
              /\ UNCHANGED <<ctxVars, runVars, waitVars, atcVars, linesOpen, sinkOpen,
                             background, late>>

\* logCloser.Close, the last deferred call; main has returned.
CloseLog == /\ pc = "closeLog"
            /\ Exit("ok")
            /\ UNCHANGED <<ctxVars, runVars, waitVars, atcVars, openVars, markVars>>

\* Without signal.NotifyContext, before it and after stop, a signal kills.
Signal == /\ Alive
          /\ signals < MaxSignals
          /\ signals' = signals + 1
          /\ IF pc \in Unnotified \cup {"closeSink", "flush", "closeLog"}
             THEN Exit("killed") /\ UNCHANGED signalled
             ELSE signalled' = TRUE /\ UNCHANGED <<pc, exit>>
          /\ UNCHANGED <<cancelled, runVars, waitVars, atcVars, openVars, markVars>>
-----------------------------------------------------------------------------
Main == \/ StartupStep \/ StartRunners \/ Register
        \/ SelectRunners \/ SelectSignal \/ CancelRunners \/ Decide
        \/ ShutdownMetrics \/ Deferred \/ CloseSink \/ FinalFlush
        \/ CloseLog

Next == Main \/ StartupFails \/ Signal \/ Goroutines \/ Wait

\* main and runner.Wait are scheduled, and a cancelled goroutine returns, as the
\* runs about the watcher and the pipeline show.
Fairness == /\ WF_vars(Main)
            /\ WF_vars(Wait)
            /\ WF_vars(Goroutines /\ cancelled /\ watcher # watcher' /\ watcher' = "returned")
            /\ WF_vars(Goroutines /\ cancelled /\ pipe # pipe' /\ pipe' = "returned")

FairSpec == Init /\ [][Next]_vars /\ Fairness
-----------------------------------------------------------------------------
TypeOK == /\ pc \in DOMAIN After
                    \cup {"start", "register", "select", "cancelRunners", "decide"}
                    \cup {"shutdownMetrics", "deferred", "closeSink", "flush"}
                    \cup {"closeLog", "exited"}
          /\ exit \in {"none", "ok", "failed", "killed"}
          /\ (pc = "exited") <=> (exit # "none")
          /\ {watcher, pipe} \subseteq {"off", "starting", "running", "returned"}
          /\ errCh \in Seq({"nil", "canceled", "error"})
          /\ received \in 0..2
          /\ runnerDone \in {"none", "nil", "error"}

\* main closes the lines channel, on which the watcher sends, and the sink, to
\* which the pipeline publishes, only when neither goroutine runs any more.
TornDownLast == /\ watcher \in {"starting", "running"} => linesOpen
                /\ pipe = "running" => sinkOpen

\* A process that exits with status 0 has every watermark on disk, unless the
\* final Flush failed or a goroutine that Run left behind moved one after it:
\* the flush comes when neither Run can move a watermark any more, whoever was
\* cancelled in which order (main.go:58-64, 234-257).
FlushedAtExit == exit = "ok" => ~dirty \/ flushFailed \/ late

\* The ATC is told of the end of every process it may know of: on a signal and
\* after an error, however the registration went.
NotLeftRegistered == exit \in {"ok", "failed"} => ~registered \/ deregisterFailed

\* The DELETE to the ATC comes before the runners are cancelled, unless one of
\* them failed: then runner.Wait has cancelled already.
DeregisterFirst == cancelled => deregisterOnce \/ failure

\* The exit status is 0 only when both goroutines have returned, and neither
\* with an error, whichever was first.
ExitStatus == exit = "ok" => ~failure /\ watcher = "returned" /\ pipe = "returned"

\* A signal ends the process, even one that arrives during the registration,
\* and an error of one goroutine ends the other (the cancel of runner.Wait) and
\* the process with status 1, in whatever order they come.
ProcessEnds == /\ signalled ~> exit # "none"
               /\ failure ~> exit \in {"failed", "killed"}
=============================================================================
