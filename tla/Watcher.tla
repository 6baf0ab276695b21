------------------------------ MODULE Watcher ------------------------------
(***************************************************************************)
(* internal/watcher tailing one path: the Run loop, scan and tailFile, the *)
(* reading of new lines and their hand-over to the pipeline's channel, with*)
(* the application that writes and rotates the file, a pipeline that       *)
(* commits what it takes from the channel, and restarts.                   *)
(*                                                                         *)
(* A file is known by its inode.  Inode numbers are given out in order and *)
(* not used again.  Every line of a file has three bytes: two of text and  *)
(* a newline, so byte b of a file belongs to the text unless b % 3 = 0.    *)
(***************************************************************************)
EXTENDS Integers, Sequences

CONSTANTS MaxInode,    \* bound: files the path refers to, one after the other
          MaxLines,    \* bound: lines written to each file
          BufferSize,  \* pipeline.buffer_size: capacity of the lines channel
          OnFull,      \* the values of pipeline.on_full: "block", "drop" or both
          Stops,       \* bytes of a line after which a write may stop, 0: whole lines
          CanCancel,   \* runCtx may be cancelled
          MaxFaults    \* bound: crashes, and scans that miss a path that exists

Inodes == 1..MaxInode
LineBytes == 3

ASSUME WatcherAssumption ==
    /\ MaxInode \in Nat \ {0} /\ MaxLines \in Nat /\ BufferSize \in Nat \ {0}
    /\ OnFull \subseteq {"block", "drop"} /\ OnFull # {}
    /\ Stops \subseteq 0..LineBytes - 1
    /\ CanCancel \in BOOLEAN /\ MaxFaults \in Nat

VARIABLES
    \* the file system: the file at the path (0: there is none), all files
    path, inodes, size,
    \* the goroutine of Watcher.Run
    wpc,        \* where it is
    inode,      \* fileState.inode: what os.Stat said (0: nothing is open)
    file,       \* the file that os.Open gave, which reads go to
    offset,     \* fileState.offset
    event,      \* the LineEvent to send
    \* the channel, the pipeline behind it, the stored watermark
    lines, stopped, watermark,
    \* what happened to the text of each file
    got, dropped, givenUp,
    onFull,     \* Watcher.onFull, of the configuration
    cancelled, faults

fsVars == <<path, inodes, size>>
tailVars == <<inode, file, offset>>
pipeVars == <<stopped, watermark, got>>
lossVars == <<dropped, givenUp, onFull>>
vars == <<fsVars, wpc, tailVars, event, lines, pipeVars, lossVars, cancelled, faults>>

\* An event carries the bytes from + 1 .. to of a file, and the inode it is
\* attributed to.
Event == [file : Inodes, inode : Inodes, from : 0..LineBytes * MaxLines,
          to : 0..LineBytes * MaxLines]
NoEvent == [file |-> 0, inode |-> 0, from |-> 0, to |-> 0]
NoEntry == [inode |-> 0, offset |-> 0]

Text(e) == {<<e.file, b>> : b \in {x \in e.from + 1..e.to : x % LineBytes # 0}}

Init == /\ path = 1 /\ inodes = 1 /\ size = [i \in Inodes |-> 0]
        /\ wpc = "stat" /\ inode = 0 /\ file = 0 /\ offset = 0
        /\ event = NoEvent
        /\ lines = <<>> /\ stopped = FALSE /\ watermark = NoEntry
        /\ got = {} /\ dropped = {} /\ givenUp = {}
        /\ onFull \in OnFull
        /\ cancelled = FALSE /\ faults = 0
-----------------------------------------------------------------------------
(* The application: it appends, and rotates by renaming the file away and  *)
(* creating a new one.  It may still hold the renamed file for a while.    *)

Write(i, n) == /\ i \in {inodes} \cup {x \in Inodes : x = path}
               /\ size[i] + n <= LineBytes * MaxLines
               /\ size[i] \div LineBytes = (size[i] + n - 1) \div LineBytes
               /\ (size[i] + n) % LineBytes \in Stops
               /\ size' = [size EXCEPT ![i] = @ + n]
               /\ UNCHANGED <<path, inodes, wpc, tailVars, event, lines, pipeVars,
                              lossVars, cancelled, faults>>

RenameAway == /\ path # 0
              /\ inodes < MaxInode
              /\ path' = 0
              /\ UNCHANGED <<inodes, size, wpc, tailVars, event, lines, pipeVars,
                             lossVars, cancelled, faults>>

Create == /\ path = 0
          /\ inodes < MaxInode
          /\ inodes' = inodes + 1
          /\ path' = inodes + 1
          /\ UNCHANGED <<size, wpc, tailVars, event, lines, pipeVars,
                         lossVars, cancelled, faults>>
-----------------------------------------------------------------------------
(* The select of Watcher.Run.  Go chooses at random among the ready cases: *)
(* a tick or a file event may still win over a cancelled context.          *)

SelectScan == /\ wpc = "select"
              /\ wpc' = "stat"
              /\ UNCHANGED <<fsVars, tailVars, event, lines, pipeVars,
                             lossVars, cancelled, faults>>

\* closeAll, and Run returns.
SelectDone == /\ wpc = "select"
              /\ cancelled
              /\ wpc' = "returned"
              /\ inode' = 0 /\ file' = 0 /\ offset' = 0
              /\ UNCHANGED <<fsVars, event, lines, pipeVars, lossVars, cancelled, faults>>
-----------------------------------------------------------------------------
(* scan and tailFile.                                                      *)

\* The glob finds nothing, or os.Stat of the match fails, because the path is
\* gone or for another cause: the tail of a path not seen is closed.
ScanGone == /\ wpc = "stat"
            /\ path = 0 \/ faults < MaxFaults
            /\ faults' = faults + (IF path = 0 THEN 0 ELSE 1)
            /\ wpc' = "select"
            /\ inode' = 0 /\ file' = 0 /\ offset' = 0
            /\ UNCHANGED <<fsVars, event, lines, pipeVars, lossVars, cancelled>>

\* scan has seen the file, but the second os.Stat, in fileInode, fails: nothing is
\* closed.
TailGone == /\ wpc = "stat"
            /\ wpc' = "select"
            /\ UNCHANGED <<fsVars, tailVars, event, lines, pipeVars,
                           lossVars, cancelled, faults>>

\* fileInode says it is the file that is open already.
TailSame == /\ wpc = "stat"
            /\ path # 0
            /\ path = inode
            /\ wpc' = "read"
            /\ UNCHANGED <<fsVars, tailVars, event, lines, pipeVars,
                           lossVars, cancelled, faults>>

\* fileInode says it is another one: what was open is closed as it is.
TailOther == /\ wpc = "stat"
             /\ path # 0
             /\ path # inode
             /\ inode' = path /\ file' = 0 /\ offset' = 0
             /\ wpc' = "open"
             /\ UNCHANGED <<fsVars, event, lines, pipeVars, lossVars, cancelled, faults>>

\* Faulty variant: the stored offset is used without comparing inodes.
initialOffsetAnyInode(i) == watermark.offset

\* Faulty variant: a file without a watermark is tailed from its end.
initialOffsetAtEnd(i) == IF watermark.inode = i THEN watermark.offset ELSE size[i]

initialOffset(i) == IF watermark.inode = i THEN watermark.offset ELSE 0

\* os.Open gives whatever file is at the path by now.
Open == /\ wpc = "open"
        /\ path # 0
        /\ file' = path
        /\ offset' = initialOffset(inode)
        /\ wpc' = "read"
        /\ UNCHANGED <<fsVars, inode, event, lines, pipeVars, lossVars, cancelled, faults>>

\* os.Open, Seek or Stat fails: the file is gone, or cannot be opened now.
OpenFails == /\ wpc = "open"
             /\ inode' = 0
             /\ wpc' = "select"
             /\ UNCHANGED <<fsVars, file, offset, event, lines, pipeVars,
                            lossVars, cancelled, faults>>
-----------------------------------------------------------------------------
(* readNewLines: one round of its loop per action.                         *)

\* ReadBytes returns the bytes up to the next newline, or up to end of file.
LineEnd == LET newline == LineBytes * (offset \div LineBytes + 1)
           IN  IF newline <= size[file] THEN newline ELSE size[file]

\* After a read that met the end of the file, readNewLines returns.
AfterRead(to) == IF to % LineBytes = 0 THEN "read" ELSE "select"

ReadLine ==
    LET e == [file |-> file, inode |-> inode, from |-> offset, to |-> LineEnd]
    IN  /\ wpc = "read"
        /\ offset < size[file]
        /\ offset' = LineEnd
        /\ IF Text(e) # {}
           THEN event' = e /\ wpc' = "send"
           ELSE UNCHANGED event /\ wpc' = AfterRead(LineEnd)
        /\ UNCHANGED <<fsVars, inode, file, lines, pipeVars, lossVars, cancelled, faults>>

ReadEOF == /\ wpc = "read"
           /\ offset >= size[file]
           /\ wpc' = "select"
           /\ UNCHANGED <<fsVars, tailVars, event, lines, pipeVars,
                          lossVars, cancelled, faults>>

\* ReadBytes fails before it has read a byte: the next scan tries again.
ReadFails == /\ wpc = "read"
             /\ wpc' = "select"
             /\ UNCHANGED <<fsVars, tailVars, event, lines, pipeVars,
                            lossVars, cancelled, faults>>

\* sendLineEvent.
Send == /\ wpc = "send"
        /\ Len(lines) < BufferSize
        /\ lines' = Append(lines, event)
        /\ event' = NoEvent
        /\ wpc' = AfterRead(event.to)
        /\ UNCHANGED <<fsVars, tailVars, pipeVars, lossVars, cancelled, faults>>

SendDrops == /\ wpc = "send"
             /\ onFull = "drop"
             /\ Len(lines) = BufferSize
             /\ dropped' = dropped \cup Text(event)
             /\ event' = NoEvent
             /\ wpc' = AfterRead(event.to)
             /\ UNCHANGED <<fsVars, tailVars, lines, pipeVars, givenUp, onFull,
                            cancelled, faults>>

\* Faulty variant: the send does not listen to the context.
SendUncancelled == FALSE /\ UNCHANGED vars

\* Faulty variant: the send gives up on a full channel without a cancel.
SendGivesUp == /\ wpc = "send"
               /\ onFull = "block"
               /\ Len(lines) = BufferSize
               /\ event' = NoEvent
               /\ wpc' = "select"
               /\ UNCHANGED <<fsVars, tailVars, lines, pipeVars, lossVars,
                              cancelled, faults>>

\* The context is cancelled: the select may take that case even if there is
\* room, and readNewLines returns with the offset already behind the line.
SendCancelled == /\ wpc = "send"
                 /\ onFull = "block"
                 /\ cancelled
                 /\ givenUp' = givenUp \cup Text(event)
                 /\ event' = NoEvent
                 /\ wpc' = "select"
                 /\ UNCHANGED <<fsVars, tailVars, lines, pipeVars, dropped, onFull,
                                cancelled, faults>>
-----------------------------------------------------------------------------
(* The pipeline, as far as the watcher is concerned: it takes an event and *)
(* commits it, and after a cancel it stops at some point.                  *)

Consume == /\ ~stopped
           /\ lines # <<>>
           /\ lines' = Tail(lines)
           /\ got' = got \cup Text(Head(lines))
           /\ watermark' = [inode |-> Head(lines).inode, offset |-> Head(lines).to]
           /\ UNCHANGED <<fsVars, wpc, tailVars, event, stopped, lossVars,
                          cancelled, faults>>

StopConsuming == /\ cancelled
                 /\ ~stopped
                 /\ stopped' = TRUE
                 /\ UNCHANGED <<fsVars, wpc, tailVars, event, lines, watermark, got,
                                lossVars, cancelled, faults>>

Cancel == /\ CanCancel
          /\ ~cancelled
          /\ cancelled' = TRUE
          /\ UNCHANGED <<fsVars, wpc, tailVars, event, lines, pipeVars, lossVars, faults>>

\* A new process: nothing but the files and the stored watermark remains.
Restart == /\ wpc' = "stat" /\ inode' = 0 /\ file' = 0 /\ offset' = 0
           /\ event' = NoEvent /\ lines' = <<>>
           /\ stopped' = FALSE /\ cancelled' = FALSE
           /\ UNCHANGED <<fsVars, watermark, got, lossVars>>

Crash == /\ faults < MaxFaults
         /\ faults' = faults + 1
         /\ Restart
-----------------------------------------------------------------------------
Tailer == \/ SelectScan \/ SelectDone \/ ScanGone \/ TailGone \/ TailSame \/ TailOther
          \/ Open \/ OpenFails \/ ReadLine \/ ReadEOF \/ ReadFails
          \/ Send \/ SendDrops \/ SendCancelled

Next == \/ Tailer
        \/ Consume \/ StopConsuming
        \/ \E i \in Inodes, n \in 1..LineBytes : Write(i, n)
        \/ RenameAway \/ Create
        \/ Cancel \/ Crash

Spec == Init /\ [][Next]_vars

\* The poll ticker keeps firing and the pipeline keeps taking events; a select
\* that is ready again and again takes each of its ready cases.  A file that
\* exists is found, opened and read in the end, after any number of errors.
Fairness == /\ WF_vars(Tailer) /\ WF_vars(Consume) /\ SF_vars(SelectDone)
            /\ SF_vars(TailSame \/ TailOther) /\ SF_vars(Open) /\ SF_vars(ReadLine)

FairSpec == Spec /\ Fairness
-----------------------------------------------------------------------------
TypeOK == /\ path \in 0..MaxInode /\ inodes \in Inodes
          /\ size \in [Inodes -> 0..LineBytes * MaxLines]
          /\ wpc \in {"select", "stat", "open", "read", "send", "returned"}
          /\ inode \in 0..MaxInode /\ file \in 0..MaxInode
          /\ offset \in 0..LineBytes * MaxLines
          /\ event \in Event \cup {NoEvent}
          /\ lines \in Seq(Event) /\ Len(lines) <= BufferSize
          /\ watermark \in [inode : 0..MaxInode, offset : 0..LineBytes * MaxLines]
          /\ {stopped, cancelled} \subseteq BOOLEAN
          /\ faults \in 0..MaxFaults

TextUpTo(i, b) == {<<i, x>> : x \in {y \in 1..b : y % LineBytes # 0}}

\* Text that is not coming, by on_full: drop or because a cancel won the send.
Forgone == dropped \cup givenUp

\* A restart that resumes the file at the path skips only text that the
\* pipeline committed, text counted as dropped, or a line whose send gave way
\* to a cancel.
ResumeCovers == watermark.inode = path /\ path # 0 =>
                    TextUpTo(path, watermark.offset) \subseteq got \cup Forgone

\* What the tail has read of the file it reads is committed, on its way, counted
\* as dropped, or given up by a cancelled send.
Pending == (UNION {Text(lines[i]) : i \in DOMAIN lines})
           \cup (IF event = NoEvent THEN {} ELSE Text(event))
ReadAccounted == file # 0 /\ file = inode =>
                     TextUpTo(file, offset) \subseteq got \cup Forgone \cup Pending

\* The channel has no gap: when an event of the file its inode names is committed,
\* and with it the watermark, the text of that file before the event's end has
\* been committed or forgone, or came with the event or before it.  A tail that is
\* closed and opened again behind its own events repeats text and leaves none out.
ChannelComplete ==
    \A k \in DOMAIN lines : lines[k].file = lines[k].inode =>
        TextUpTo(lines[k].file, lines[k].to) \subseteq
            got \cup Forgone \cup UNION {Text(lines[j]) : j \in 1..k}

\* A line that a stable file holds is committed in the end, across rotations and
\* crashes, unless on_full drops it or the run is cancelled.
EventuallyCommitted ==
    \A b \in {x \in 1..LineBytes * MaxLines : x % LineBytes # 0} :
        (path = MaxInode /\ size[MaxInode] >= b) ~>
            (<<MaxInode, b>> \in got \cup Forgone \/ cancelled)

\* Run returns after a cancel, even if the pipeline has left the channel full;
\* a crash may come first.
CancelReturns == cancelled ~> (wpc = "returned" \/ ~cancelled)
=============================================================================
