---------------------------- MODULE WatcherProofs ----------------------------
(* Proofs about Watcher, for every number of files, lines, crashes and failed *)
(* stats, every capacity of the channel, either on_full policy and every way  *)
(* of writing a line in pieces.                                               *)
EXTENDS Watcher, SequenceTheorems, TLAPS

Done == got \cup Forgone

\* The text of the first k events of the channel.
Sent(k) == UNION {Text(lines[j]) : j \in 1..k}

\* What the goroutine of Run holds at each place.
Places == /\ wpc \in {"open", "read", "send"} => inode # 0
          /\ inode # 0 /\ wpc # "open" => file # 0
          /\ wpc = "open" => file = 0
          /\ wpc = "send" <=> event # NoEvent
          /\ wpc = "send" => event.file = file /\ event.inode = inode /\ event.to = offset

\* Files are used in order: the path has the newest one or none, and a file was
\* opened when it was as new as the inode that was noted, or newer.
Files == /\ path \in {0, inodes}
         /\ inode <= inodes /\ file <= inodes /\ watermark.inode <= inodes
         /\ file # 0 => inode <= file
         /\ \A k \in DOMAIN lines : lines[k].inode <= lines[k].file /\ lines[k].file <= inodes

\* The stored watermark of the newest file covers only text that is done with.
WatermarkTrue == watermark.inode = inodes => TextUpTo(inodes, watermark.offset) \subseteq Done

\* So will the watermark of each event in the channel when it is committed.
LinesTrue == \A k \in DOMAIN lines : lines[k].file = lines[k].inode =>
                 TextUpTo(lines[k].file, lines[k].to) \subseteq Done \cup Sent(k)

Inv == /\ TypeOK /\ Places /\ Files
       /\ WatermarkTrue /\ LinesTrue /\ ReadAccounted
-----------------------------------------------------------------------------
(* Text.                                                                      *)

\* Text up to a later offset is text up to the earlier one and what lies between.
LEMMA TextSplit ==
    ASSUME NEW e, NEW a \in Int, e.from = a, e.to \in Int, a <= e.to
    PROVE  TextUpTo(e.file, e.to) \subseteq TextUpTo(e.file, a) \cup Text(e)
BY DEF TextUpTo, Text

\* Nothing lies before the start of a file.
LEMMA TextNone == \A i : TextUpTo(i, 0) = {}
BY DEF TextUpTo

\* What is done with, on its way and sent stays what it is.
LEMMA TextStays ==
    ASSUME UNCHANGED <<lines, event, got, dropped, givenUp>>
    PROVE  Done' = Done /\ Pending' = Pending /\ \A k : Sent(k)' = Sent(k)
BY DEF Done, Forgone, Pending, Sent

\* The properties of a channel that nobody touched, in a file system that did
\* not change either.
LEMMA ChannelStays ==
    ASSUME Inv, UNCHANGED <<lines, event, got, dropped, givenUp, watermark, inodes>>
    PROVE  WatermarkTrue' /\ LinesTrue'
<1>1. Done' = Done /\ \A k : Sent(k)' = Sent(k)
  BY TextStays
<1> QED BY <1>1 DEF Inv, WatermarkTrue, LinesTrue
-----------------------------------------------------------------------------
\* Init establishes the invariant.
LEMMA InitInv == Init => Inv
<1> SUFFICES ASSUME Init PROVE Inv
  OBVIOUS
<1> USE WatcherAssumption DEF Init, NoEvent, NoEntry
<1>1. TypeOK
  <2>1. LineBytes * MaxLines \in Nat /\ 1 \in Inodes /\ 0 \in 0..MaxInode
    BY DEF LineBytes, Inodes
  <2>2. /\ lines \in Seq(Event) /\ Len(lines) <= BufferSize
        /\ watermark \in [inode : 0..MaxInode, offset : 0..LineBytes * MaxLines]
        /\ size \in [Inodes -> 0..LineBytes * MaxLines]
    BY <2>1
  <2>3. {stopped, cancelled} \subseteq BOOLEAN
    BY Zenon
  <2> QED BY <2>1, <2>2, <2>3 DEF TypeOK, Inodes
<1>2. Places /\ Files /\ LinesTrue
  BY DEF Places, Files, LinesTrue
<1>3. WatermarkTrue /\ ReadAccounted
  BY TextNone DEF WatermarkTrue, ReadAccounted
<1> QED BY <1>1, <1>2, <1>3 DEF Inv

\* The steps of Run that move no event: scan, opening and closing, the end of a
\* read.
TailStep == \/ SelectScan \/ SelectDone \/ ScanGone \/ TailGone \/ TailSame \/ TailOther
            \/ Open \/ OpenFails \/ ReadEOF \/ ReadFails

\* They leave the channel and what is behind it alone.  A file is opened at the
\* watermark of the newest inode, or at its start.
LEMMA TailStepInv == Inv /\ TailStep => Inv'
<1> SUFFICES ASSUME Inv, TailStep PROVE Inv'
  OBVIOUS
<1> USE DEF fsVars, tailVars, pipeVars, lossVars
<1> DEFINE Rest == UNCHANGED <<path, inodes, size, event, lines, stopped, watermark, got,
                               dropped, givenUp, onFull, cancelled>>
<1>0. MaxFaults \in Nat /\ faults \in 0..MaxFaults
  BY WatcherAssumption DEF Inv, TypeOK
<1>1. Rest /\ faults' \in 0..MaxFaults
      /\ wpc # "send" /\ wpc' \in {"select", "stat", "open", "read", "returned"}
  BY <1>0 DEF TailStep, SelectScan, SelectDone, ScanGone, TailGone, TailSame, TailOther, Open,
         OpenFails, ReadEOF, ReadFails
<1>2. \/ UNCHANGED tailVars /\ wpc' # "open" /\ wpc # "open"
         /\ (wpc' = "read" => inode # 0)
      \/ inode' = 0 /\ file' = 0 /\ offset' = 0 /\ wpc' = "select"
      \/ inode' = 0 /\ file' = 0 /\ offset' = 0 /\ wpc' = "returned"
      \/ wpc = "open" /\ inode' = 0 /\ wpc' = "select" /\ file' = 0 /\ offset' = offset
      \/ /\ path # 0 /\ path # inode /\ wpc' = "open" /\ wpc # "returned"
         /\ inode' = path /\ file' = 0 /\ offset' = 0
      \/ /\ wpc = "open" /\ path # 0 /\ file' = path /\ offset' = initialOffset(inode)
         /\ inode' = inode /\ wpc' = "read"
  BY DEF TailStep, SelectScan, SelectDone, ScanGone, TailGone, TailSame, TailOther, Open,
         OpenFails, ReadEOF, ReadFails, Inv, Places
<1>3. TypeOK'
  <2>1. initialOffset(inode) \in 0..LineBytes * MaxLines /\ 0 \in 0..LineBytes * MaxLines
    BY WatcherAssumption DEF Inv, TypeOK, initialOffset, LineBytes
  <2>2. inode' \in 0..MaxInode /\ file' \in 0..MaxInode /\ offset' \in 0..LineBytes * MaxLines
    BY <1>2, <2>1, WatcherAssumption DEF Inv, TypeOK
  <2> QED BY <1>1, <2>2 DEF Inv, TypeOK
<1>4. Places'
  BY <1>1, <1>2 DEF Inv, Places
<1>5. Files'
  BY <1>1, <1>2 DEF Inv, TypeOK, Files, Inodes
<1>6. WatermarkTrue' /\ LinesTrue'
  BY <1>1, ChannelStays
<1>7. ReadAccounted'
  <2>1. Done' = Done /\ Pending' = Pending
    BY <1>1, TextStays
  <2>2. CASE UNCHANGED tailVars
    BY <2>1, <2>2 DEF Inv, ReadAccounted, Done, Forgone
  <2>3. CASE file' = 0
    BY <2>3 DEF ReadAccounted
  <2>4. CASE wpc = "open" /\ path # 0 /\ file' = path /\ offset' = initialOffset(inode)
             /\ inode' = inode
    <3> SUFFICES ASSUME path = inode
                 PROVE  TextUpTo(path, offset') \subseteq Done'
      BY <2>4 DEF ReadAccounted, Done, Forgone
    <3>1. path = inodes
      BY <2>4 DEF Inv, Files
    <3>2. CASE watermark.inode = inode
      BY <2>1, <2>4, <3>1, <3>2 DEF Inv, WatermarkTrue, initialOffset
    <3>3. CASE watermark.inode # inode
      BY <2>1, <2>4, <3>3, TextNone DEF initialOffset
    <3> QED BY <3>2, <3>3
  <2> QED BY <1>2, <2>2, <2>3, <2>4
<1> QED BY <1>3, <1>4, <1>5, <1>6, <1>7 DEF Inv

\* What is on its way is the channel and the event in hand.
LEMMA PendingIs ==
    ASSUME Inv
    PROVE  /\ wpc = "send" => Pending = Sent(Len(lines)) \cup Text(event)
           /\ wpc # "send" => Pending = Sent(Len(lines))
<1>1. DOMAIN lines = 1..Len(lines)
  BY DEF Inv, TypeOK
<1>2. wpc = "send" <=> event # NoEvent
  BY DEF Inv, Places
<1>3. Sent(Len(lines)) = UNION {Text(lines[i]) : i \in DOMAIN lines}
  BY <1>1 DEF Sent
<1>4. Pending = Sent(Len(lines)) \cup (IF event = NoEvent THEN {} ELSE Text(event))
  BY <1>3, Zenon DEF Pending
<1> QED BY <1>2, <1>4

\* An event in the channel is of a file that exists.
LEMMA EventFiles ==
    ASSUME Inv, NEW k \in DOMAIN lines
    PROVE  /\ lines[k].inode \in Nat \ {0} /\ lines[k].file \in Nat \ {0}
           /\ lines[k].inode <= inodes /\ inodes \in Nat
<1>1. lines[k] \in Event
  BY DEF Inv, TypeOK
<1>2. lines[k].inode \in Inodes /\ lines[k].file \in Inodes /\ inodes \in Inodes
  BY <1>1 DEF Inv, TypeOK, Event
<1>3. Inodes \subseteq Nat \ {0}
  BY WatcherAssumption DEF Inodes
<1>4. lines[k].inode <= lines[k].file /\ lines[k].file <= inodes
  BY DEF Inv, Files
<1>5. /\ lines[k].inode \in Nat \ {0} /\ lines[k].file \in Nat \ {0}
      /\ inodes \in Nat \ {0}
  BY <1>2, <1>3, Zenon
<1> QED BY <1>4, <1>5

\* A line ends behind the offset and inside the file.
LEMMA LineEndType ==
    ASSUME Inv, file # 0, offset < size[file]
    PROVE  /\ LineEnd \in 0..LineBytes * MaxLines
           /\ offset < LineEnd
<1>1. /\ size[file] \in 0..LineBytes * MaxLines /\ offset \in Nat
      /\ LineBytes * MaxLines \in Nat
  BY WatcherAssumption DEF Inv, TypeOK, Inodes, LineBytes
<1>2. LineBytes * (offset \div LineBytes + 1) \in Nat
      /\ offset < LineBytes * (offset \div LineBytes + 1)
  BY <1>1 DEF LineBytes
<1> QED BY <1>1, <1>2 DEF LineEnd

\* A read adds the text it passes to what is on its way.
LEMMA ReadLineInv == Inv /\ ReadLine => Inv'
<1> SUFFICES ASSUME Inv, ReadLine PROVE Inv'
  OBVIOUS
<1> USE DEF fsVars, pipeVars, lossVars
<1> DEFINE e == [file |-> file, inode |-> inode, from |-> offset, to |-> LineEnd]
<1>1. /\ wpc = "read" /\ offset < size[file] /\ offset' = LineEnd
      /\ \/ Text(e) # {} /\ event' = e /\ wpc' = "send"
         \/ Text(e) = {} /\ event' = event /\ wpc' \in {"read", "select"}
      /\ UNCHANGED <<path, inodes, size, inode, file, lines, stopped, watermark, got,
                     dropped, givenUp, onFull, cancelled, faults>>
  BY DEF ReadLine, AfterRead
<1>2. file # 0 /\ inode # 0 /\ event = NoEvent
  BY <1>1 DEF Inv, Places
<1>3. LineEnd \in 0..LineBytes * MaxLines /\ offset < LineEnd
      /\ offset \in 0..LineBytes * MaxLines
  BY <1>1, <1>2, LineEndType DEF Inv, TypeOK
<1>4. e \in Event /\ e # NoEvent
  BY <1>2, <1>3 DEF Inv, TypeOK, Event, Inodes, NoEvent
<1> HIDE DEF e
<1>5. e.file = file /\ e.inode = inode /\ e.from = offset /\ e.to = LineEnd
  BY DEF e
<1>6. TypeOK'
  BY <1>1, <1>3, <1>4 DEF Inv, TypeOK
<1>7. Places'
  BY <1>1, <1>2, <1>4, <1>5 DEF Inv, Places
<1>8. Files'
  BY <1>1 DEF Inv, Files
<1>9. Done' = Done /\ \A k : Sent(k)' = Sent(k)
  BY <1>1 DEF Done, Forgone, Sent
<1>10. WatermarkTrue' /\ LinesTrue'
  BY <1>1, <1>9 DEF Inv, WatermarkTrue, LinesTrue
<1>11. ReadAccounted'
  <2> SUFFICES ASSUME file = inode
               PROVE  TextUpTo(file, LineEnd) \subseteq Done' \cup Pending'
    BY <1>1 DEF ReadAccounted, Done, Forgone
  <2>1. TextUpTo(file, LineEnd) \subseteq TextUpTo(file, offset) \cup Text(e)
    BY <1>3, <1>5, TextSplit
  <2>2. TextUpTo(file, offset) \subseteq Done \cup Pending
    BY <1>2 DEF Inv, ReadAccounted, Done, Forgone
  <2>3. Pending \cup Text(e) \subseteq Pending'
    <3> DEFINE L == UNION {Text(lines[i]) : i \in DOMAIN lines}
    <3>1. Pending = L
      BY <1>2 DEF Pending
    <3>2. Pending' = L \cup (IF event' = NoEvent THEN {} ELSE Text(event'))
      <4>1. lines' = lines
        BY <1>1
      <4> QED BY <4>1 DEF Pending
    <3> HIDE DEF L
    <3> QED BY <1>1, <1>4, <3>1, <3>2
  <2> QED BY <1>9, <2>1, <2>2, <2>3
<1> QED BY <1>6, <1>7, <1>8, <1>10, <1>11 DEF Inv

\* A send appends the event, whose watermark the text before it supports.
LEMMA SendInv == Inv /\ Send => Inv'
<1> SUFFICES ASSUME Inv, Send PROVE Inv'
  OBVIOUS
<1> USE DEF fsVars, tailVars, pipeVars, lossVars
<1>1. /\ wpc = "send" /\ Len(lines) < BufferSize /\ lines' = Append(lines, event)
      /\ event' = NoEvent /\ wpc' \in {"read", "select"}
      /\ UNCHANGED <<path, inodes, size, inode, file, offset, stopped, watermark, got,
                     dropped, givenUp, onFull, cancelled, faults>>
  BY DEF Send, AfterRead
<1>2. /\ event \in Event /\ event.file = file /\ event.inode = inode /\ event.to = offset
      /\ file # 0 /\ inode # 0
  BY <1>1 DEF Inv, TypeOK, Places
<1>0. PICK n \in Nat : n = Len(lines)
  BY DEF Inv, TypeOK
<1>3. /\ lines' \in Seq(Event) /\ Len(lines') = n + 1
      /\ \A k \in DOMAIN lines : lines'[k] = lines[k]
      /\ lines'[n + 1] = event
      /\ DOMAIN lines = 1..n /\ DOMAIN lines' = DOMAIN lines \cup {n + 1}
  BY <1>0, <1>1, <1>2 DEF Inv, TypeOK
<1>4. /\ \A k \in DOMAIN lines : Sent(k)' = Sent(k)
      /\ Sent(n + 1)' = Sent(n) \cup Text(event)
  <2>1. \A k \in DOMAIN lines : Sent(k)' = Sent(k)
    BY <1>3 DEF Sent
  <2>2. 1..(n + 1) = 1..n \cup {n + 1}
    BY <1>3
  <2>3. Sent(n + 1)' = UNION {Text(lines'[j]) : j \in 1..(n + 1)}
    BY DEF Sent
  <2>4. UNION {Text(lines'[j]) : j \in 1..(n + 1)} = Sent(n) \cup Text(event)
    BY <1>3, <2>2 DEF Sent
  <2> QED BY <2>1, <2>3, <2>4
<1>5. Done' = Done
  BY <1>1 DEF Done, Forgone
<1>6. TypeOK'
  BY <1>0, <1>1, <1>3, WatcherAssumption DEF Inv, TypeOK
<1>7. Places'
  BY <1>1 DEF Inv, Places
<1>8. Files'
  BY <1>1, <1>2, <1>3 DEF Inv, Files
<1>9. Pending = Sent(n) \cup Text(event)
  BY <1>0, <1>1, PendingIs
<1>10. Inv /\ TypeOK' /\ Places' => Pending' = Pending
  BY <1>1, <1>3, <1>4, <1>9 DEF Pending, Sent, TypeOK
<1>11. ReadAccounted' /\ WatermarkTrue'
  BY <1>1, <1>5, <1>6, <1>7, <1>10 DEF Inv, ReadAccounted, WatermarkTrue, Done, Forgone
<1>12. LinesTrue'
  <2> SUFFICES ASSUME NEW k \in DOMAIN lines', lines'[k].file = lines'[k].inode
               PROVE  TextUpTo(lines'[k].file, lines'[k].to) \subseteq Done \cup Sent(k)'
    BY <1>5 DEF LinesTrue
  <2>1. CASE k \in DOMAIN lines
    BY <1>3, <1>4, <2>1 DEF Inv, LinesTrue
  <2>2. CASE k = n + 1
    BY <1>2, <1>3, <1>4, <1>9, <2>2 DEF Inv, ReadAccounted, Done, Forgone
  <2> QED BY <1>3, <2>1, <2>2
<1> QED BY <1>6, <1>7, <1>8, <1>11, <1>12 DEF Inv

\* A send that is dropped or gives way to a cancel accounts for its text.
LEMMA ForgoInv == Inv /\ (SendDrops \/ SendCancelled) => Inv'
<1> SUFFICES ASSUME Inv, SendDrops \/ SendCancelled PROVE Inv'
  OBVIOUS
<1> USE DEF fsVars, tailVars, pipeVars, lossVars
<1>1. /\ wpc = "send" /\ event' = NoEvent /\ wpc' \in {"read", "select"}
      /\ dropped' \cup givenUp' = dropped \cup givenUp \cup Text(event)
      /\ UNCHANGED <<path, inodes, size, inode, file, offset, lines, stopped, watermark,
                     got, cancelled, faults>>
  BY DEF SendDrops, SendCancelled, AfterRead
<1>2. Done' = Done \cup Text(event) /\ \A k : Sent(k)' = Sent(k)
  BY <1>1 DEF Done, Forgone, Sent
<1>3. TypeOK'
  BY <1>1 DEF Inv, TypeOK
<1>4. Places' /\ Files'
  BY <1>1 DEF Inv, Places, Files
<1>5. WatermarkTrue' /\ LinesTrue'
  BY <1>1, <1>2 DEF Inv, WatermarkTrue, LinesTrue
<1>6. Done \cup Pending \subseteq Done' \cup Pending'
  <2>1. Pending = Sent(Len(lines)) \cup Text(event)
    BY <1>1, PendingIs
  <2>2. Pending' = Sent(Len(lines))
    <3>1. Sent(Len(lines)) = UNION {Text(lines[i]) : i \in DOMAIN lines}
      <4>1. DOMAIN lines = 1..Len(lines)
        BY DEF Inv, TypeOK
      <4> QED BY <4>1 DEF Sent
    <3>2. lines' = lines /\ event' = NoEvent
      BY <1>1
    <3> QED BY <3>1, <3>2 DEF Pending
  <2> QED BY <1>2, <2>1, <2>2
<1>7. ReadAccounted'
  BY <1>1, <1>6 DEF Inv, ReadAccounted, Done, Forgone
<1> QED BY <1>3, <1>4, <1>5, <1>7 DEF Inv

\* The first event of the channel becomes the watermark, and its text is done.
LEMMA ConsumeInv == Inv /\ Consume => Inv'
<1> SUFFICES ASSUME Inv, Consume PROVE Inv'
  OBVIOUS
<1> USE DEF fsVars, tailVars, pipeVars, lossVars
<1>1. /\ lines # <<>> /\ lines' = Tail(lines) /\ got' = got \cup Text(lines[1])
      /\ watermark' = [inode |-> lines[1].inode, offset |-> lines[1].to]
      /\ UNCHANGED <<path, inodes, size, wpc, inode, file, offset, event, stopped,
                     dropped, givenUp, onFull, cancelled, faults>>
  BY DEF Consume, Inv, TypeOK
<1>2. /\ lines' \in Seq(Event) /\ Len(lines') = Len(lines) - 1
      /\ Len(lines) \in Nat \ {0} /\ 1 \in DOMAIN lines /\ lines[1] \in Event
      /\ DOMAIN lines' = 1..(Len(lines) - 1) /\ DOMAIN lines = 1..Len(lines)
      /\ \A k \in DOMAIN lines' : k + 1 \in DOMAIN lines /\ lines'[k] = lines[k + 1]
  BY <1>1 DEF Inv, TypeOK
<1>3. Done' = Done \cup Text(lines[1])
  BY <1>1 DEF Done, Forgone
<1>4. \A k \in DOMAIN lines' : Sent(k + 1) \subseteq Text(lines[1]) \cup Sent(k)'
  <2> SUFFICES ASSUME NEW k \in DOMAIN lines', NEW j \in 1..(k + 1)
               PROVE  Text(lines[j]) \subseteq Text(lines[1]) \cup Sent(k)'
    BY DEF Sent
  <2>1. CASE j = 1
    BY <2>1
  <2>2. CASE j # 1
    <3>1. j - 1 \in 1..k /\ j - 1 \in DOMAIN lines'
      BY <1>2, <2>2
    <3>2. lines'[j - 1] = lines[j]
      BY <1>2, <3>1
    <3>3. Text(lines'[j - 1]) \subseteq Sent(k)'
      BY <3>1 DEF Sent
    <3> QED BY <3>2, <3>3
  <2> QED BY <2>1, <2>2
<1>5. TypeOK'
  <2>1. watermark' \in [inode : 0..MaxInode, offset : 0..LineBytes * MaxLines]
    BY <1>1, <1>2 DEF Event, Inodes
  <2> QED BY <1>1, <1>2, <2>1, WatcherAssumption DEF Inv, TypeOK
<1>6. Places'
  BY <1>1 DEF Inv, Places
<1>7. Files'
  <2>1. lines[1].inode <= inodes
    BY <1>2, EventFiles
  <2> QED BY <1>1, <1>2, <2>1 DEF Inv, Files
<1>8. WatermarkTrue'
  <2> SUFFICES ASSUME lines[1].inode = inodes
               PROVE  TextUpTo(inodes, lines[1].to) \subseteq Done'
    BY <1>1 DEF WatermarkTrue
  <2>1. lines[1].file = inodes
    BY <1>2, EventFiles DEF Inv, Files
  <2>2. TextUpTo(inodes, lines[1].to) \subseteq Done \cup Sent(1)
    BY <1>2, <2>1 DEF Inv, LinesTrue
  <2>3. Sent(1) = Text(lines[1])
    BY DEF Sent
  <2> QED BY <1>3, <2>2, <2>3
<1>9. LinesTrue'
  <2> SUFFICES ASSUME NEW k \in DOMAIN lines', lines'[k].file = lines'[k].inode
               PROVE  TextUpTo(lines'[k].file, lines'[k].to) \subseteq Done' \cup Sent(k)'
    BY DEF LinesTrue
  <2>1. TextUpTo(lines'[k].file, lines'[k].to) \subseteq Done \cup Sent(k + 1)
    BY <1>2 DEF Inv, LinesTrue
  <2> QED BY <1>3, <1>4, <2>1
<1>10. Pending \subseteq Done' \cup Pending'
  <2> SUFFICES ASSUME NEW t \in Pending PROVE t \in Done' \cup Pending'
    OBVIOUS
  <2>1. CASE event # NoEvent /\ t \in Text(event)
    BY <1>1, <2>1 DEF Pending
  <2>2. ASSUME NEW j \in DOMAIN lines, t \in Text(lines[j])
        PROVE  t \in Done' \cup Pending'
    <3>1. CASE j = 1
      BY <1>3, <2>2, <3>1
    <3>2. CASE j # 1
      <4>1. j - 1 \in DOMAIN lines' /\ lines'[j - 1] = lines[j]
        BY <1>2, <3>2
      <4> QED BY <2>2, <4>1 DEF Pending
    <3> QED BY <3>1, <3>2
  <2> QED BY <2>1, <2>2 DEF Pending
<1>11. ReadAccounted'
  BY <1>1, <1>3, <1>10 DEF Inv, ReadAccounted, Done, Forgone
<1> QED BY <1>5, <1>6, <1>7, <1>8, <1>9, <1>11 DEF Inv

\* The application writes, renames and creates: a new file is newer than every
\* one the watcher knows.
LEMMA ApplicationInv ==
    ASSUME Inv, RenameAway \/ Create \/ \E i \in Inodes, n \in 1..LineBytes : Write(i, n)
    PROVE  Inv'
<1> USE DEF tailVars, pipeVars, lossVars
<1>1. UNCHANGED <<wpc, inode, file, offset, event, lines, stopped, watermark, got, dropped,
                  givenUp, onFull, cancelled, faults>>
  BY DEF RenameAway, Create, Write
<1>2. /\ \/ UNCHANGED <<path, inodes>>
         \/ path' = 0 /\ inodes' = inodes
         \/ path' = inodes + 1 /\ inodes' = inodes + 1 /\ inodes < MaxInode
      /\ size' \in [Inodes -> 0..LineBytes * MaxLines]
  <2>1. CASE RenameAway \/ Create
    BY <2>1 DEF RenameAway, Create, Inv, TypeOK
  <2>2. ASSUME NEW i \in Inodes, NEW n \in 1..LineBytes, Write(i, n)
        PROVE  UNCHANGED <<path, inodes>> /\ size' \in [Inodes -> 0..LineBytes * MaxLines]
    <3>1. n \in 1..3 /\ size[i] \in Nat
      BY WatcherAssumption DEF LineBytes, Inv, TypeOK
    <3>2. size[i] + n \in 0..LineBytes * MaxLines
      BY <2>2, <3>1, WatcherAssumption DEF Write, LineBytes
    <3> QED BY <2>2, <3>2 DEF Write, Inv, TypeOK
  <2> QED BY <2>1, <2>2
<1>3. TypeOK'
  <2>1. path' \in 0..MaxInode /\ inodes' \in Inodes
    <3>1. MaxInode \in Nat /\ inodes \in 1..MaxInode /\ path \in 0..MaxInode
      BY WatcherAssumption DEF Inv, TypeOK, Inodes
    <3> QED BY <1>2, <3>1 DEF Inodes
  <2> QED BY <1>1, <1>2, <2>1 DEF Inv, TypeOK
<1>4. Places'
  BY <1>1 DEF Inv, Places
<1>5. \A k \in DOMAIN lines : /\ lines[k].inode \in Nat \ {0} /\ lines[k].inode <= inodes
                              /\ lines[k].file \in Nat \ {0}
  BY EventFiles
<1>6. Files'
  BY <1>1, <1>2, <1>5 DEF Inv, TypeOK, Files, Inodes
<1>7. /\ Done' = Done /\ Pending' = Pending /\ \A k : Sent(k)' = Sent(k)
  BY <1>1, TextStays
<1>8. WatermarkTrue'
  BY <1>1, <1>2, <1>7 DEF Inv, TypeOK, Files, WatermarkTrue, Inodes
<1>9. LinesTrue'
  BY <1>1, <1>7 DEF Inv, LinesTrue
<1>10. ReadAccounted'
  BY <1>1, <1>7 DEF Inv, ReadAccounted, Done, Forgone
<1> QED BY <1>3, <1>4, <1>6, <1>8, <1>9, <1>10 DEF Inv

\* A cancel and the end of the pipeline move nothing.
LEMMA CancelInv == Inv /\ (StopConsuming \/ Cancel) => Inv'
<1> SUFFICES ASSUME Inv, StopConsuming \/ Cancel PROVE Inv'
  OBVIOUS
<1> USE DEF fsVars, tailVars, pipeVars, lossVars
<1>1. /\ UNCHANGED <<path, inodes, size, wpc, inode, file, offset, event, lines, watermark,
                     got, dropped, givenUp, faults>>
      /\ stopped' \in {stopped, TRUE} /\ cancelled' \in {cancelled, TRUE}
  BY DEF StopConsuming, Cancel
<1>2. TypeOK'
  BY <1>1 DEF Inv, TypeOK
<1>3. Places' /\ Files'
  BY <1>1 DEF Inv, Places, Files
<1>4. WatermarkTrue' /\ LinesTrue'
  BY <1>1, ChannelStays
<1>5. ReadAccounted'
  BY <1>1, TextStays DEF Inv, ReadAccounted, Done, Forgone
<1> QED BY <1>2, <1>3, <1>4, <1>5 DEF Inv

\* A crash loses the channel and the event; the watermark does not cover them.
LEMMA CrashInv == Inv /\ Crash => Inv'
<1> SUFFICES ASSUME Inv, Crash PROVE Inv'
  OBVIOUS
<1> USE DEF fsVars, tailVars, pipeVars, lossVars
<1>1. /\ wpc' = "stat" /\ inode' = 0 /\ file' = 0 /\ offset' = 0 /\ event' = NoEvent
      /\ lines' = <<>> /\ stopped' = FALSE /\ cancelled' = FALSE
      /\ faults' = faults + 1 /\ faults < MaxFaults
      /\ UNCHANGED <<path, inodes, size, watermark, got, dropped, givenUp>>
  BY DEF Crash, Restart
<1>2. TypeOK'
  <2>1. lines' \in Seq(Event) /\ Len(lines') = 0 /\ 0 \in 0..LineBytes * MaxLines
        /\ 0 \in 0..MaxInode /\ faults' \in 0..MaxFaults
    BY <1>1, WatcherAssumption DEF LineBytes, Inv, TypeOK
  <2>2. {stopped', cancelled'} \subseteq BOOLEAN
    BY <1>1, Zenon
  <2>3. Len(lines') <= BufferSize
    BY <2>1, WatcherAssumption
  <2> QED BY <1>1, <2>1, <2>2, <2>3 DEF Inv, TypeOK
<1>3. Places' /\ Files' /\ LinesTrue'
  BY <1>1 DEF Inv, TypeOK, Places, Files, LinesTrue, Inodes
<1>4. WatermarkTrue' /\ ReadAccounted'
  BY <1>1 DEF Inv, WatermarkTrue, ReadAccounted, Done, Forgone
<1> QED BY <1>2, <1>3, <1>4 DEF Inv
-----------------------------------------------------------------------------
\* The invariant of the tail: what has been read is accounted for, in order, and
\* every watermark in the channel or in the store is true when it is used
\* (watcher.go:166-341).
THEOREM WatcherInv == Spec => []Inv
<1>1. ASSUME Inv, UNCHANGED vars PROVE Inv'
  <2> USE <1>1 DEF vars, fsVars, tailVars, pipeVars, lossVars
  <2>1. TypeOK' /\ Places' /\ Files'
    BY DEF Inv, TypeOK, Places, Files
  <2>2. WatermarkTrue' /\ LinesTrue'
    BY ChannelStays
  <2>3. ReadAccounted'
    BY TextStays DEF Inv, ReadAccounted, Done, Forgone
  <2> QED BY <2>1, <2>2, <2>3 DEF Inv
<1>2. Inv /\ [Next]_vars => Inv'
  BY <1>1, TailStepInv, ReadLineInv, SendInv, ForgoInv, ConsumeInv, ApplicationInv, CancelInv,
     CrashInv DEF Next, Tailer, TailStep
<1> QED BY <1>2, InitInv, PTL DEF Spec

\* Type correctness of the tail, its channel and the stored watermark.
THEOREM WatcherTypeCorrect == Spec => []TypeOK
<1>1. Inv => TypeOK
  BY DEF Inv
<1> QED BY <1>1, WatcherInv, PTL

\* A restart skips only text that was committed, dropped and counted, or given
\* up by a cancelled send (watcher.go:263-272).
THEOREM WatcherResumeCovers == Spec => []ResumeCovers
<1>1. Inv => ResumeCovers
  BY DEF Inv, Files, WatermarkTrue, ResumeCovers, Done
<1> QED BY <1>1, WatcherInv, PTL

\* What the tail has read is accounted for (watcher.go:274-341).
THEOREM WatcherReadAccounted == Spec => []ReadAccounted
<1>1. Inv => ReadAccounted
  BY DEF Inv
<1> QED BY <1>1, WatcherInv, PTL

\* The watermark of an event in the channel has no gap behind it when it is
\* committed, however often the tail was closed and opened again (watcher.go:166-341).
THEOREM WatcherChannelComplete == Spec => []ChannelComplete
<1>1. Inv => ChannelComplete
  BY DEF Inv, LinesTrue, ChannelComplete, Done, Sent
<1> QED BY <1>1, WatcherInv, PTL
=============================================================================
