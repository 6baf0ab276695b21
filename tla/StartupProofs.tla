---------------------------- MODULE StartupProofs ----------------------------
(* Proofs about the start of the forwarder, for every set of configurations *)
(* that a file can give and every working directory.                        *)
EXTENDS Startup, SequenceTheorems, TLAPS

-----------------------------------------------------------------------------
(* Durations.                                                               *)

\* A duration that parses is a number of tenths of a second.
LEMMA ParseDurationType ==
    ASSUME NEW d, Parses(d) PROVE ParseDuration[d] \in Int
<1>1. d \in {"-1s", "0", "0s", "100ms", "1s", "30s", "1m"}
  BY DEF Parses, ParseDuration
<1>2. ParseDuration[d] = CASE d = "-1s" -> -10 [] d \in {"0", "0s"} -> 0 [] d = "100ms" -> 1
                           [] d = "1s" -> 10 [] d = "30s" -> 300 [] d = "1m" -> 600
  BY <1>1 DEF ParseDuration
<1>3. d = "-1s" \/ d \in {"0", "0s"} \/ d = "100ms" \/ d = "1s" \/ d = "30s" \/ d = "1m"
  BY <1>1
<1> QED BY <1>2, <1>3

\* The durations of Default().
LEMMA SomeDurations ==
    /\ Parses("1s") /\ ParseDuration["1s"] = 10
    /\ Parses("30s") /\ Parses("100ms")
    /\ ~Parses("")
BY DEF Parses, ParseDuration

\* So is one with a default.
LEMMA DurationType ==
    ASSUME NEW d, NEW n \in Int PROVE DurationOr(d, n) \in Int
BY ParseDurationType DEF DurationOr

-----------------------------------------------------------------------------
(* Paths.                                                                   *)

\* A file below a directory is inside it.
LEMMA BelowIsInside ==
    ASSUME NEW d \in Seq(Names), NEW r \in Seq(Names)
    PROVE  pathInside(d, d \o r)
<1>1. d \o r \in Seq(Names) /\ Len(d \o r) = Len(d) + Len(r) /\ Len(d) \in Nat /\ Len(r) \in Nat
  BY ConcatProperties
<1>2. \A i \in 1 .. Len(d) : (d \o r)[i] = d[i] /\ d[i] \in Names
  BY <1>1, ConcatProperties
<1>3. SubSeq(d, 1, Len(d)) = SubSeq(d \o r, 1, Len(d))
  <2> DEFINE s == SubSeq(d, 1, Len(d))
             t == SubSeq(d \o r, 1, Len(d))
  <2>1. /\ s \in Seq(Names) /\ Len(s) = Len(d)
        /\ \A i \in 1 .. Len(d) : s[i] = d[i]
    BY <1>1, <1>2, SubSeqProperties
  <2>2. /\ t \in Seq(Names) /\ Len(t) = Len(d)
        /\ \A i \in 1 .. Len(d) : t[i] = (d \o r)[i]
    BY <1>1, <1>2, SubSeqProperties
  <2> HIDE DEF s, t
  <2> QED BY <1>1, <1>2, <2>1, <2>2, SeqEqual
<1> QED BY <1>1, <1>3 DEF pathInside, IsPrefix

\* All but the last element.
LEMMA FrontElements ==
    ASSUME NEW s \in Seq(Names), s # <<>>
    PROVE  /\ Front(s) \in Seq(Names) /\ Len(Front(s)) = Len(s) - 1
           /\ \A i \in 1 .. Len(s) - 1 : Front(s)[i] = s[i]
<1>1. Len(s) \in Nat \ {0}
  BY EmptySeq
<1>2. PICK n \in Nat : n = Len(s) - 1
  BY <1>1
<1>3. \A i \in 1 .. n : s[i] \in Names
  BY <1>1, <1>2, ElementOfSeq
<1>4. /\ SubSeq(s, 1, n) \in Seq(Names)
      /\ Len(SubSeq(s, 1, n)) = IF 1 <= n THEN n - 1 + 1 ELSE 0
      /\ \A i \in 1 .. n - 1 + 1 : SubSeq(s, 1, n)[i] = s[1 + i - 1]
  BY <1>3, SubSeqProperties
<1>5. Len(SubSeq(s, 1, n)) = n /\ \A i \in 1 .. n : SubSeq(s, 1, n)[i] = s[i]
  BY <1>4
<1> QED BY <1>2, <1>4, <1>5 DEF Front

\* The directory of a file below a directory.
LEMMA FrontBelow ==
    ASSUME NEW d \in Seq(Names), NEW r \in Seq(Names), r # <<>>
    PROVE  Front(d \o r) = d \o Front(r) /\ Front(r) \in Seq(Names) /\ d \o r # <<>>
<1>1. Len(d) \in Nat /\ Len(r) \in Nat \ {0} /\ Len(d \o r) = Len(d) + Len(r) /\ d \o r \in Seq(Names)
  BY ConcatProperties, EmptySeq
<1> DEFINE s == Front(d \o r)
           t == Front(r)
           u == d \o t
<1>2. \A i \in 1 .. Len(d) + Len(r) : (d \o r)[i] = IF i <= Len(d) THEN d[i] ELSE r[i - Len(d)]
  BY ConcatProperties
<1>3. t \in Seq(Names) /\ Len(t) = Len(r) - 1 /\ \A i \in 1 .. Len(r) - 1 : t[i] = r[i]
  BY FrontElements
<1>4. /\ s \in Seq(Names) /\ Len(s) = Len(d) + Len(r) - 1
      /\ \A i \in 1 .. Len(d) + Len(r) - 1 : s[i] = (d \o r)[i]
  <2>1. PICK w \in Seq(Names) : w = d \o r
    BY <1>1
  <2>2. w # <<>> /\ Len(w) = Len(d) + Len(r)
    BY <1>1, <2>1, EmptySeq
  <2>3. Front(w) \in Seq(Names) /\ Len(Front(w)) = Len(w) - 1 /\ \A i \in 1 .. Len(w) - 1 : Front(w)[i] = w[i]
    BY <2>2, FrontElements
  <2> QED BY <2>1, <2>2, <2>3
<1> HIDE DEF t
<1>5. /\ u \in Seq(Names) /\ Len(u) = Len(d) + Len(r) - 1
      /\ \A i \in 1 .. Len(d) + Len(r) - 1 : u[i] = IF i <= Len(d) THEN d[i] ELSE t[i - Len(d)]
  <2>1. /\ u \in Seq(Names) /\ Len(u) = Len(d) + Len(t)
        /\ \A i \in 1 .. Len(d) + Len(t) : u[i] = IF i <= Len(d) THEN d[i] ELSE t[i - Len(d)]
    BY <1>3, ConcatProperties
  <2>2. Len(d) + Len(t) = Len(d) + Len(r) - 1
    BY <1>1, <1>3
  <2> HIDE DEF u
  <2> QED BY <2>1, <2>2
<1> HIDE DEF s, u
<1>6. ASSUME NEW i \in 1 .. Len(s) PROVE s[i] = u[i]
  <2>1. i \in 1 .. Len(d) + Len(r) - 1 /\ i \in 1 .. Len(d) + Len(r)
    BY <1>1, <1>4
  <2>2. CASE i <= Len(d)
    BY <1>2, <1>4, <1>5, <2>1, <2>2
  <2>3. CASE ~(i <= Len(d))
    <3>1. i - Len(d) \in 1 .. Len(r) - 1
      BY <1>1, <2>1, <2>3
    <3> QED BY <1>2, <1>3, <1>4, <1>5, <2>1, <2>3, <3>1
  <2> QED BY <2>2, <2>3
<1>7. s = u
  BY <1>4, <1>5, <1>6, SeqEqual
<1>8. d \o r # <<>>
  BY <1>1, EmptySeq
<1> QED BY <1>3, <1>7, <1>8 DEF s, t, u

\* The element after the directory.
LEMMA NextElement ==
    ASSUME NEW d \in Seq(Names), NEW r \in Seq(Names), r # <<>>
    PROVE  Len(d \o r) = Len(d) + Len(r) /\ (d \o r)[Len(d) + 1] = r[1]
<1>1. /\ Len(d \o r) = Len(d) + Len(r) /\ Len(d) \in Nat /\ Len(r) \in Nat \ {0}
      /\ \A i \in 1 .. Len(d) + Len(r) : (d \o r)[i] = IF i <= Len(d) THEN d[i] ELSE r[i - Len(d)]
  BY ConcatProperties, EmptySeq
<1> QED BY <1>1

\* The last element of a path that ends in one element.
LEMMA LastOfOne ==
    ASSUME NEW d \in Seq(Names), NEW r \in Seq(Names), Len(r) = 1
    PROVE  Last(d \o r) = r[1] /\ <<r[1]>> = r
<1>1. r # <<>>
  BY EmptySeq
<1>2. Len(d \o r) = Len(d) + 1 /\ (d \o r)[Len(d) + 1] = r[1]
  BY <1>1, NextElement
<1>3. <<r[1]>> = r
  OBVIOUS
<1> QED BY <1>2, <1>3 DEF Last

\* A path with neither no element nor one has several.
LEMMA SeveralElements ==
    ASSUME NEW r \in Seq(Names), r # <<>>, Len(r) # 1 PROVE Len(r) > 1
<1>1. PICK n \in Nat : n = Len(r)
  OBVIOUS
<1>2. n # 0 /\ n # 1
  BY <1>1, EmptySeq
<1>3. n > 1
  BY <1>2
<1> QED BY <1>1, <1>3

-----------------------------------------------------------------------------
(* Default().                                                               *)

\* Its sections, field by field as far as the others need them.
LEMMA DefaultSections ==
    /\ Default.watch.sources = {} /\ Default.watch.paths = {Wd}
    /\ Default.watch.patterns = {LogFiles} /\ Default.watch.poll = "1s"
    /\ Default.state.path = <<>> /\ Default.state.flushInterval = "" /\ Default.state.flushEvery = 0
    /\ Default.sink.type = "kafka" /\ Default.sink.file = <<>> /\ Default.sink.http = None
    /\ Default.sink.kafka.brokers # {} /\ Default.sink.kafka.topic = "logs"
    /\ Default.sink.kafka.connectTimeout = "" /\ Default.sink.kafka.protocol = ""
    /\ Default.parser.type = "line"
    /\ Default.transform.type = "delimiter" /\ Default.transform.onError = "wrap"
    /\ Default.filter.rules = {}
    /\ Default.timestamp.field = "" /\ Default.timestamp.format = ""
    /\ Default.timestamp.timezone = "" /\ Default.timestamp.output = ""
    /\ Default.logging.level = "info" /\ Default.logging.format = "text"
    /\ Default.logging.file = <<>> /\ Default.logging.statusInterval = "30s"
    /\ Default.metrics.enabled = FALSE /\ Default.atc.enabled = FALSE
<1> DEFINE watch == [sources |-> {}, paths |-> {Wd}, patterns |-> {LogFiles}, poll |-> "1s"]
           state == [path |-> <<>>, flushInterval |-> "", flushEvery |-> 0]
           kafka == [brokers |-> {"localhost"}, topic |-> "logs", connectTimeout |-> "",
                     protocol |-> "", tls |-> None, sasl |-> None]
           sink == [type |-> "kafka", file |-> <<>>, http |-> None, kafka |-> kafka]
           parser == [type |-> "line", startPattern |-> "", flushInterval |-> ""]
           transform == [type |-> "delimiter", pattern |-> "", onError |-> "wrap"]
           filter == [match |-> "", onMissing |-> "", rules |-> {}]
           timestamp == [field |-> "", format |-> "", timezone |-> "", output |-> ""]
           logging == [level |-> "info", format |-> "text", file |-> <<>>, statusInterval |-> "30s"]
           metrics == [enabled |-> FALSE, port |-> 0, path |-> "", readyPath |-> "",
                       threshold |-> 0, sinkCheckTimeout |-> ""]
           atc == [enabled |-> FALSE, url |-> "", timeout |-> ""]
<1>1. /\ Default.watch = watch /\ Default.state = state /\ Default.sink = sink
      /\ Default.parser = parser /\ Default.transform = transform /\ Default.filter = filter
      /\ Default.timestamp = timestamp /\ Default.logging = logging
      /\ Default.metrics = metrics /\ Default.atc = atc
  BY SMT DEF Default
<1>2. watch.sources = {} /\ watch.paths = {Wd} /\ watch.patterns = {LogFiles} /\ watch.poll = "1s"
  OBVIOUS
<1>3. state.path = <<>> /\ state.flushInterval = "" /\ state.flushEvery = 0
  OBVIOUS
<1>4. sink.type = "kafka" /\ sink.file = <<>> /\ sink.http = None /\ sink.kafka = kafka
  OBVIOUS
<1>5. /\ parser.type = "line" /\ transform.type = "delimiter" /\ transform.onError = "wrap" /\ filter.rules = {}
      /\ timestamp.field = "" /\ timestamp.format = "" /\ timestamp.timezone = "" /\ timestamp.output = ""
  OBVIOUS
<1>6. logging.level = "info" /\ logging.format = "text" /\ logging.file = <<>> /\ logging.statusInterval = "30s"
  OBVIOUS
<1>7. metrics.enabled = FALSE /\ atc.enabled = FALSE
  OBVIOUS
<1>8. kafka.brokers # {} /\ kafka.topic = "logs" /\ kafka.connectTimeout = "" /\ kafka.protocol = ""
  OBVIOUS
<1> HIDE DEF watch, state, kafka, sink, parser, transform, filter, timestamp, logging, metrics, atc
<1> QED BY <1>1, <1>2, <1>3, <1>4, <1>5, <1>6, <1>7, <1>8

\* The Kafka section is there.
LEMMA DefaultKafka == Default.sink.kafka # None
BY ConfigAssumption

\* The enrichers.
LEMMA DefaultEnrichers == \A e \in Default.enrichers : e.type = "host"
<1>1. Default.enrichers = {[type |-> "host", fields |-> {}]}
  BY SMT DEF Default
<1> QED BY <1>1

\* The pipeline's section.
LEMMA DefaultPipeline ==
    LET p == Default.pipeline
        b == p.batch
    IN  /\ p.bufferSize \in Nat \ {0} /\ p.onFull = "block" /\ p.maxPublishBytes \in Nat
        /\ p.publishTimeout = "" /\ p.initialBackoff = "" /\ p.maxBackoff = "" /\ p.maxAttempts = 0
        /\ b.maxBytes \in Nat /\ b.flushInterval = "100ms" /\ b.onFlushFailure = "" /\ b.maxAttempts = 0
        /\ b.wakeEnabled = FALSE /\ b.wakeInterval = "" /\ b.deadLetterPath = <<>> /\ b.maxConsecutive = 0
<1> DEFINE batch == [maxBytes |-> 1048576, flushInterval |-> "100ms", onFlushFailure |-> "",
                     maxAttempts |-> 0, wakeEnabled |-> FALSE, wakeInterval |-> "",
                     deadLetterPath |-> <<>>, maxConsecutive |-> 0]
           pipeline == [bufferSize |-> 1024, onFull |-> "block", publishTimeout |-> "",
                        initialBackoff |-> "", maxBackoff |-> "", maxAttempts |-> 0,
                        maxPublishBytes |-> 1048576, batch |-> batch]
<1>1. Default.pipeline = pipeline
  BY SMT DEF Default
<1>2. /\ pipeline.bufferSize \in Nat \ {0} /\ pipeline.onFull = "block" /\ pipeline.maxPublishBytes \in Nat
      /\ pipeline.publishTimeout = "" /\ pipeline.initialBackoff = "" /\ pipeline.maxBackoff = ""
      /\ pipeline.maxAttempts = 0 /\ pipeline.batch = batch
  BY SMT
<1>3. /\ batch.maxBytes \in Nat /\ batch.flushInterval = "100ms" /\ batch.onFlushFailure = ""
      /\ batch.maxAttempts = 0 /\ batch.wakeInterval = "" /\ batch.deadLetterPath = <<>>
      /\ batch.maxConsecutive = 0
  BY SMT
<1>4. batch.wakeEnabled = FALSE
  BY SMT
<1> HIDE DEF batch, pipeline
<1> QED BY <1>1, <1>2, <1>3, <1>4

\* The numbers among them.
LEMMA DefaultNumbers ==
    /\ Default.state.flushEvery = 0
    /\ Default.pipeline.bufferSize \in Nat \ {0} /\ Default.pipeline.maxPublishBytes \in Nat
    /\ Default.pipeline.maxAttempts = 0
    /\ Default.pipeline.batch.maxBytes \in Nat /\ Default.pipeline.batch.maxAttempts = 0
    /\ Default.pipeline.batch.maxConsecutive = 0
BY DefaultSections, DefaultPipeline, Zenon

\* The directory that Default() watches, and the file of its watermarks.
LEMMA DefaultPaths ==
    /\ Entries(Default) = {[path |-> Wd, patterns |-> {LogFiles}]}
    /\ StatePath(Default) = Wd \o <<".log-forwarder", "watermarks.json">>
    /\ StatePath(Default) \in Seq(Names)
    /\ Last(StatePath(Default)) = "watermarks.json"
<1>1. Default.watch.sources = {} /\ Default.watch.paths = {Wd} /\ Default.watch.patterns = {LogFiles}
  BY DefaultSections
<1>2. Entries(Default) = {[path |-> Wd, patterns |-> {LogFiles}]}
  BY <1>1 DEF Entries
<1>3. StatePath(Default) = Wd \o <<".log-forwarder", "watermarks.json">>
  BY DefaultSections DEF StatePath
<1> DEFINE u == <<".log-forwarder", "watermarks.json">>
<1>4. u \in Seq(Names) /\ Len(u) = 2 /\ u[2] = "watermarks.json"
  BY SetupAssumption
<1> HIDE DEF u
<1>5. Wd \in Seq(Names) /\ Len(Wd) \in Nat
  BY SetupAssumption
<1>6. /\ Wd \o u \in Seq(Names) /\ Len(Wd \o u) = Len(Wd) + Len(u)
      /\ \A i \in 1 .. Len(Wd) + Len(u) : (Wd \o u)[i] = IF i <= Len(Wd) THEN Wd[i] ELSE u[i - Len(Wd)]
  BY <1>4, <1>5, ConcatProperties
<1>7. (Wd \o u)[Len(Wd) + 2] = "watermarks.json" /\ Len(Wd \o u) = Len(Wd) + 2
  BY <1>4, <1>5, <1>6
<1>8. StatePath(Default) = Wd \o u
  BY <1>3 DEF u
<1> QED BY <1>2, <1>3, <1>6, <1>7, <1>8 DEF Last

\* Default() has the types of a configuration.
LEMMA DefaultType == ConfigType(Default)
<1>1. Matched(<<"app.log">>)
  BY SetupAssumption DEF Matched, Last
<1>2. LogFiles.matches = {<<"app.log">>}
  BY DEF LogFiles
<1>3. ASSUME NEW e \in Entries(Default)
      PROVE  e.path \in Seq(Names) /\ \A p \in e.patterns : \A r \in p.matches : Matched(r)
  <2>1. e.path = Wd /\ e.patterns = {LogFiles}
    BY DefaultPaths
  <2> QED BY <1>1, <1>2, <2>1, SetupAssumption
<1>4. {StatePath(Default), Default.sink.file, Default.logging.file,
       Default.pipeline.batch.deadLetterPath} \subseteq Seq(Names)
  <2>1. Default.sink.file = <<>> /\ Default.logging.file = <<>> /\ Default.pipeline.batch.deadLetterPath = <<>>
    BY DefaultSections, DefaultPipeline
  <2>2. <<>> \in Seq(Names)
    OBVIOUS
  <2> QED BY <2>1, <2>2, DefaultPaths
<1>5. {Default.metrics.enabled, Default.atc.enabled, Default.pipeline.batch.wakeEnabled} \subseteq BOOLEAN
  <2>1. Default.metrics.enabled = FALSE /\ Default.atc.enabled = FALSE /\ Default.pipeline.batch.wakeEnabled = FALSE
    BY DefaultSections, DefaultPipeline
  <2> QED BY <2>1, Zenon
<1>6. {Default.state.flushEvery, Default.pipeline.bufferSize, Default.pipeline.maxAttempts,
       Default.pipeline.maxPublishBytes, Default.pipeline.batch.maxBytes,
       Default.pipeline.batch.maxAttempts, Default.pipeline.batch.maxConsecutive} \subseteq Int
  <2>1. Default.state.flushEvery \in Int
    BY DefaultNumbers
  <2>2. /\ Default.pipeline.bufferSize \in Int /\ Default.pipeline.maxAttempts \in Int
        /\ Default.pipeline.maxPublishBytes \in Int /\ Default.pipeline.batch.maxBytes \in Int
        /\ Default.pipeline.batch.maxAttempts \in Int /\ Default.pipeline.batch.maxConsecutive \in Int
    BY DefaultNumbers
  <2> QED BY <2>1, <2>2, Zenon
<1> QED BY <1>3, <1>4, <1>5, <1>6 DEF ConfigType

\* Default() would pass Validate, which main does not call without a file.
LEMMA DefaultValid == Validate(Default)
<1> USE DEF Optional
<1>1. validateWatch(Default)
  BY SomeDurations, DefaultSections DEF validateWatch
<1>2. validateSink(Default)
  <2>1. SecurityProtocol(Default.sink.kafka) = "PLAINTEXT"
    BY DefaultSections DEF SecurityProtocol
  <2>2. KafkaValid(Default.sink.kafka)
    BY <2>1, DefaultSections DEF KafkaValid, validateTLS, validateSASL
  <2>3. Default.sink.kafka # None
    BY DefaultKafka
  <2> QED BY <2>2, <2>3, DefaultSections DEF validateSink, SinkType
<1>3. validateParser(Default) /\ validateTransform(Default)
  BY DefaultSections DEF validateParser, ParserType, validateTransform
<1>4. validateTimestamp(Default) /\ validateEnrichers(Default) /\ validateFilter(Default)
  BY DefaultEnrichers, DefaultSections DEF validateTimestamp, TimestampEnabled, validateEnrichers, validateFilter, FilterEnabled
<1>5. validatePipeline(Default)
  <2> DEFINE p == Default.pipeline
             b == p.batch
  <2>0. /\ p.bufferSize \in Nat \ {0} /\ p.onFull = "block" /\ p.maxPublishBytes \in Nat
        /\ p.publishTimeout = "" /\ p.initialBackoff = "" /\ p.maxBackoff = "" /\ p.maxAttempts = 0
        /\ b.maxBytes \in Nat /\ b.flushInterval = "100ms" /\ b.onFlushFailure = "" /\ b.maxAttempts = 0
        /\ b.wakeInterval = ""
    BY DefaultPipeline
  <2>1. ~b.wakeEnabled
    BY DefaultPipeline
  <2>2. validateDeadLetter(Default, b)
    BY <2>0 DEF validateDeadLetter, OnFlushFailure
  <2>3. validateHibernate(b)
    BY <2>0, <2>1, SomeDurations DEF validateHibernate
  <2>4. validateBackoff(p)
    <3>1. DurationOr(p.maxBackoff, 300) = 300 /\ DurationOr(p.initialBackoff, 10) = 10
      BY <2>0, SomeDurations DEF DurationOr
    <3>2. DurationOr(p.maxBackoff, 300) >= DurationOr(p.initialBackoff, 10)
      <4> HIDE DEF p
      <4> QED BY <3>1
    <3> QED BY <2>0, <3>2, Zenon DEF validateBackoff
  <2>5. /\ p.bufferSize > 0 /\ p.onFull \in {"block", "drop"} /\ Optional(p.publishTimeout)
        /\ p.maxAttempts >= 0 /\ p.maxPublishBytes >= 0
        /\ b.maxBytes >= 0 /\ b.maxAttempts >= 0 /\ Optional(b.flushInterval)
    <3>1. p.bufferSize > 0 /\ p.maxAttempts >= 0 /\ p.maxPublishBytes >= 0 /\ b.maxBytes >= 0 /\ b.maxAttempts >= 0
      BY DefaultNumbers
    <3>2. Parses(b.flushInterval)
      BY <2>0, SomeDurations
    <3> QED BY <2>0, <3>1, <3>2, Zenon
  <2> QED BY <2>2, <2>3, <2>4, <2>5, Zenon DEF validatePipeline
<1>6. validateLogging(Default)
  BY SomeDurations, DefaultSections DEF validateLogging, ToLower
<1>7. validateMetrics(Default) /\ validateATC(Default)
  <2>1. Default.metrics.enabled = FALSE /\ Default.atc.enabled = FALSE
    BY DefaultSections
  <2>2. validateMetrics(Default)
    BY <2>1, Zenon DEF validateMetrics
  <2>3. validateATC(Default)
    BY <2>1, Zenon DEF validateATC
  <2> QED BY <2>2, <2>3
<1>8. validateState(Default)
  <2>1. <<"watermarks.json">> \notin LogFiles.matches
    BY DEF LogFiles
  <2>2. ASSUME NEW e \in Entries(Default)
        PROVE  ~logFileMatchesWatchPattern(StatePath(Default), e.path, e.patterns)
    <3>1. e = [path |-> Wd, patterns |-> {LogFiles}]
      BY DefaultPaths
    <3>2. e.patterns = {LogFiles}
      BY <3>1
    <3> QED BY <2>1, <3>2, DefaultPaths DEF logFileMatchesWatchPattern
  <2>3. Unmatched(Default, StatePath(Default))
    BY <2>2 DEF Unmatched
  <2>4. Default.state.flushEvery = 0 /\ Default.state.flushInterval = ""
    BY DefaultSections
  <2>5. Default.state.flushEvery >= 0
    BY DefaultNumbers
  <2> QED BY <2>3, <2>4, <2>5, Zenon DEF validateState
<1> QED BY <1>1, <1>2, <1>3, <1>4, <1>5, <1>6, <1>7, <1>8 DEF Validate

-----------------------------------------------------------------------------
(* What Validate makes sure of.                                             *)

\* The fixed endpoints and the two paths of the configuration, in order.
LEMMA RegisteredPaths ==
    ASSUME NEW c
    PROVE  LET paths == Registered(c)
           IN  \/ /\ c.pipeline.batch.deadLetterPath = <<>> /\ Len(paths) = 3 /\ DOMAIN paths = 1 .. 3
                  /\ paths[1] = "/health" /\ paths[2] = ReadyPath(c) /\ paths[3] = MetricsPath(c)
               \/ /\ c.pipeline.batch.deadLetterPath # <<>> /\ Len(paths) = 4 /\ DOMAIN paths = 1 .. 4
                  /\ paths[1] = "/health" /\ paths[2] = ReadyPath(c)
                  /\ paths[3] = "/deadletters" /\ paths[4] = MetricsPath(c)
<1>1. CASE c.pipeline.batch.deadLetterPath = <<>>
  <2>1. Registered(c) = <<"/health", ReadyPath(c), MetricsPath(c)>>
    BY <1>1 DEF Registered
  <2> QED BY <1>1, <2>1
<1>2. CASE c.pipeline.batch.deadLetterPath # <<>>
  <2>1. Registered(c) = <<"/health", ReadyPath(c), "/deadletters", MetricsPath(c)>>
    BY <1>2 DEF Registered
  <2> QED BY <1>2, <2>1
<1> QED BY <1>1, <1>2

\* The mux panics for one of the two configured paths only, or for both: Validate
\* has seen that they are not equal.
LEMMA MuxPanicsForCause ==
    ASSUME NEW c, Validate(c), c.metrics.enabled, MuxPanics(Registered(c))
    PROVE  PathsClash(c)
<1>1. ReadyPath(c) # MetricsPath(c)
  BY DEF Validate, validateMetrics
<1> DEFINE r == ReadyPath(c)
           m == MetricsPath(c)
           h == "/health"
           l == "/deadletters"
           dead == c.pipeline.batch.deadLetterPath # <<>>
           paths == Registered(c)
<1>2. \/ /\ ~dead /\ DOMAIN paths = 1 .. 3 /\ paths[1] = h /\ paths[2] = r /\ paths[3] = m
      \/ /\ dead /\ DOMAIN paths = 1 .. 4 /\ paths[1] = h /\ paths[2] = r /\ paths[3] = l /\ paths[4] = m
  BY RegisteredPaths
<1>3. \/ \E i \in DOMAIN paths : paths[i] \in Unparsable
      \/ \E i, j \in DOMAIN paths : i # j /\ Conflict(paths[i], paths[j])
  BY DEF MuxPanics, ToSet
<1>4. Fixed(c) = IF dead THEN {h, l} ELSE {h}
  BY DEF Fixed
<1>5. h \notin Unparsable /\ l \notin Unparsable /\ ~Conflict(h, l) /\ ~Conflict(l, h)
  BY SetupAssumption DEF Conflict
<1>6. \A p, q : Conflict(p, q) => Conflict(q, p)
  <2>1. \A p, q : {p, q} = {q, p}
    OBVIOUS
  <2> QED BY <2>1 DEF Conflict
<1>7. r # m /\ (Conflict(r, m) => {r, m} \in Conflicting)
  BY <1>1 DEF Conflict
<1>8. (\/ {r, m} \cap Unparsable # {}
       \/ \E p \in {r, m} : \E q \in Fixed(c) : Conflict(p, q)
       \/ {r, m} \in Conflicting) => PathsClash(c)
  BY DEF PathsClash
<1> HIDE DEF r, m, h, l, dead, paths
<1>9. CASE /\ ~dead /\ DOMAIN paths = 1 .. 3 /\ paths[1] = h /\ paths[2] = r /\ paths[3] = m
  <2>1. \A i \in DOMAIN paths : i = 1 \/ i = 2 \/ i = 3
    BY <1>9
  <2>2. CASE \E i \in DOMAIN paths : paths[i] \in Unparsable
    BY <1>5, <1>8, <1>9, <2>1, <2>2
  <2>3. ASSUME NEW i \in DOMAIN paths, NEW k \in DOMAIN paths, i # k, Conflict(paths[i], paths[k])
        PROVE  Conflict(r, h) \/ Conflict(m, h) \/ Conflict(r, m)
    BY <1>6, <1>9, <2>1, <2>3
  <2>4. h \in Fixed(c)
    BY <1>4
  <2> QED BY <1>3, <1>7, <1>8, <2>2, <2>3, <2>4
<1>10. CASE /\ dead /\ DOMAIN paths = 1 .. 4
            /\ paths[1] = h /\ paths[2] = r /\ paths[3] = l /\ paths[4] = m
  <2>1. \A i \in DOMAIN paths : i = 1 \/ i = 2 \/ i = 3 \/ i = 4
    BY <1>10
  <2>2. CASE \E i \in DOMAIN paths : paths[i] \in Unparsable
    BY <1>5, <1>8, <1>10, <2>1, <2>2
  <2>3. ASSUME NEW i \in DOMAIN paths, NEW k \in DOMAIN paths, i # k, Conflict(paths[i], paths[k])
        PROVE  Conflict(r, h) \/ Conflict(m, h) \/ Conflict(r, l) \/ Conflict(m, l) \/ Conflict(r, m)
    BY <1>5, <1>6, <1>10, <2>1, <2>3
  <2>4. h \in Fixed(c) /\ l \in Fixed(c)
    BY <1>4, <1>10
  <2> QED BY <1>3, <1>7, <1>8, <2>2, <2>3, <2>4
<1> QED BY <1>2, <1>9, <1>10

\* Of the tickers only the watcher's can have an interval that is not positive.
LEMMA TickersPanicForCause ==
    ASSUME NEW c, ~(\A i \in Tickers(c) : i > 0) PROVE PollInterval(c) <= 0
<1>1. ~(PollInterval(c) > 0)
  BY DEF Tickers
<1>2. PollInterval(c) \in Int
  BY DurationType DEF PollInterval
<1> QED BY <1>1, <1>2

\* No channel has a buffer of a size above the limit.
LEMMA LinesPanicForCause ==
    ASSUME NEW c, ConfigType(c), ~(c.pipeline.bufferSize <= MaxChan) PROVE c.pipeline.bufferSize > MaxChan
<1>1. c.pipeline.bufferSize \in Int /\ MaxChan \in Nat
  BY SetupAssumption, Zenon DEF ConfigType
<1> QED BY <1>1

\* The dead letter directory is there when it is needed.
LEMMA DeadLetterPathGiven ==
    ASSUME NEW c, Validate(c), OnFlushFailure(c.pipeline.batch) = "dead_letter"
    PROVE  c.pipeline.batch.deadLetterPath # <<>> /\ Unwatched(c, c.pipeline.batch.deadLetterPath)
BY DEF Validate, validatePipeline, validateDeadLetter

\* The constructors fail for a regular expression of the transformer only.
LEMMA ConstructsUnlessRegex ==
    ASSUME NEW c, Validate(c), ~Constructs(c)
    PROVE  c.transform.type = "regex" /\ c.transform.pattern = "bad"
BY DEF Validate, validateParser, validateTimestamp, validateFilter, FilterEnabled, Constructs

\* The check of the sink fails by itself for a timeout or its request only.
LEMMA SinkCheckForCause ==
    ASSUME NEW c, SinkType(c) # "file",
           ~(SinkConnectTimeout(c) > 0 /\ (SinkType(c) = "http-noauth" => Sendable(c.sink.http)))
    PROVE  \/ SinkType(c) = "http-noauth" /\ ~Sendable(c.sink.http)
           \/ SinkType(c) # "file" /\ SinkConnectTimeout(c) <= 0
<1>1. SinkConnectTimeout(c) \in Int
  BY DurationType DEF SinkConnectTimeout
<1> QED BY <1>1

-----------------------------------------------------------------------------
(* The inductive invariant.                                                 *)

\* Every pattern can be matched, as the first scan has found.
GlobsOK(c) == \A e \in Entries(c) : \A p \in e.patterns : Globbable(e.path, p)

\* The configuration, and how far the start has come.
StartType == /\ \/ given = TRUE /\ cfg \in Setups
                \/ given = FALSE /\ cfg = Default
             /\ pc \in Steps \cup Ends
             /\ faulted \in BOOLEAN

\* What each step of the start leaves for the ones after it: Validate has
\* passed (for Default it would have), unless the file could not even be read;
\* the endpoints are registered and the port is bound once metrics are up.
StartInv ==
    /\ StartType
    /\ faulted => pc = "failed"
    /\ pc \notin {"loadConfig", "refused"} => faulted \/ Validate(cfg)
    /\ pc \in {"listen", "pipeline", "scan", "ticker", "running"} /\ cfg.metrics.enabled
           => routes = ToSet(Registered(cfg))
    /\ pc \in {"pipeline", "scan", "ticker", "running"} /\ cfg.metrics.enabled => port = Port(cfg)
    /\ pc \in {"ticker", "running"} => GlobsOK(cfg)
    /\ PanicsForCause
    /\ RefusedLateForCause

\* Every configuration that a start can have is well typed.
LEMMA TypedConfig == ASSUME StartType PROVE ConfigType(cfg)
BY SetupAssumption, DefaultType DEF StartType

\* The start begins with nothing done.
LEMMA InitInv == Init => StartInv
<1> SUFFICES ASSUME Init PROVE StartInv
  OBVIOUS
<1>1. pc = "loadConfig" /\ faulted = FALSE
  BY DEF Init
<1>2. faulted \in BOOLEAN
  BY <1>1, Zenon
<1>3. \/ given = TRUE /\ cfg \in Setups
      \/ given = FALSE /\ cfg = Default
  BY Zenon DEF Init
<1>4. pc \in Steps \cup Ends
  BY <1>1 DEF Steps
<1>5. StartType
  BY <1>2, <1>3, <1>4, Zenon DEF StartType
<1>6. PanicsForCause /\ RefusedLateForCause
  BY <1>1 DEF PanicsForCause, RefusedLateForCause
<1> QED BY <1>1, <1>5, <1>6 DEF StartInv

\* A step that asks nothing and does not end the start keeps what is known, if
\* it passes on what it has checked.
LEMMA StepOn ==
    ASSUME StartInv, NEW from \in Steps \ {"loadConfig"}, NEW to \in Steps \cup {"running"},
           pc = from, pc' = to, to # "loadConfig",
           UNCHANGED <<cfg, given, faulted, routes, port>>,
           to \in {"pipeline", "scan", "ticker", "running"} => from \in {"pipeline", "scan", "ticker"},
           to = "listen" => FALSE,
           to \in {"ticker", "running"} => GlobsOK(cfg)
    PROVE  StartInv'
<1>1. StartType' /\ (faulted => pc = "failed")' /\ Validate(cfg)'
  BY DEF StartInv, StartType, Steps, Ends
<1>2. /\ (pc \in {"listen", "pipeline", "scan", "ticker", "running"} /\ cfg.metrics.enabled
               => routes = ToSet(Registered(cfg)))'
      /\ (pc \in {"pipeline", "scan", "ticker", "running"} /\ cfg.metrics.enabled => port = Port(cfg))'
  BY DEF StartInv
<1>3. (pc \in {"ticker", "running"} => GlobsOK(cfg))'
  BY DEF GlobsOK
<1>4. PanicsForCause' /\ RefusedLateForCause'
  BY DEF Steps, PanicsForCause, RefusedLateForCause
<1> QED BY <1>1, <1>2, <1>3, <1>4 DEF StartInv

\* So does the end of a start that has a cause.
LEMMA StepEnds ==
    ASSUME StartInv, pc \in Steps \ {"loadConfig"}, pc' \in {"failed", "panicked"},
           UNCHANGED <<cfg, given, faulted>>, PanicsForCause', RefusedLateForCause'
    PROVE  StartInv'
<1>1. StartType' /\ (faulted => pc = "failed")' /\ Validate(cfg)'
  BY DEF StartInv, StartType, Steps, Ends
<1> QED BY <1>1 DEF StartInv

\* Every step of the start keeps the invariant.
LEMMA NextInv == ASSUME StartInv, [Next]_vars PROVE StartInv'
<1>0. pc \in Steps /\ pc # "loadConfig" => Validate(cfg)
  BY DEF StartInv, Steps
<1>1. CASE loadConfig
  <2>1. UNCHANGED <<cfg, given, faulted>> /\ faulted = FALSE
        /\ ((pc' = "logger" /\ (given => Validate(cfg))) \/ pc' = "refused")
    BY <1>1 DEF loadConfig, Step, StartInv, StartType
  <2>2. (given => Validate(cfg)) => Validate(cfg)
    BY DefaultValid DEF StartInv, StartType
  <2>3. StartType'
    BY <2>1 DEF StartInv, StartType, Steps, Ends
  <2>4. PanicsForCause' /\ RefusedLateForCause'
    BY <2>1 DEF PanicsForCause, RefusedLateForCause
  <2>5. pc' = "logger" => Validate(cfg')
    BY <2>1, <2>2
  <2> QED BY <2>1, <2>3, <2>4, <2>5 DEF StartInv
<1>2. CASE newLogger
  BY <1>2, StepOn DEF newLogger, Step, Steps
<1>3. CASE NewStore
  BY <1>3, StepOn DEF NewStore, Step, Steps
<1>4. CASE newSink
  <2>1. pc' = "failed" => SinkType(cfg) = "kafka" /\ ~buildDialer(cfg.sink.kafka)
    BY <1>4 DEF newSink, Step
  <2>2. CASE pc' = "failed"
    <3>1. PanicsForCause' /\ RefusedLateForCause'
      BY <1>4, <2>1, <2>2 DEF newSink, Step, PanicsForCause, RefusedLateForCause
    <3> QED BY <1>4, <2>2, <3>1, StepEnds DEF newSink, Step, Steps
  <2>3. CASE pc' = "checkSink"
    BY <1>4, <2>3, StepOn DEF newSink, Step, Steps
  <2> QED BY <1>4, <2>2, <2>3 DEF newSink, Step
<1>5. CASE checkSinkAtStartup
  <2>1. CASE pc' = "failed"
    <3>1. \/ SinkType(cfg) = "http-noauth" /\ ~Sendable(cfg.sink.http)
          \/ SinkType(cfg) # "file" /\ SinkConnectTimeout(cfg) <= 0
      BY <1>5, <2>1, SinkCheckForCause DEF checkSinkAtStartup, Step
    <3>2. PanicsForCause' /\ RefusedLateForCause'
      BY <1>5, <2>1, <3>1 DEF checkSinkAtStartup, Step, PanicsForCause, RefusedLateForCause
    <3> QED BY <1>5, <2>1, <3>2, StepEnds DEF checkSinkAtStartup, Step, Steps
  <2>2. CASE pc' = "deadLetter"
    BY <1>5, <2>2, StepOn DEF checkSinkAtStartup, Step, Steps
  <2> QED BY <1>5, <2>1, <2>2 DEF checkSinkAtStartup, Step
<1>6. CASE ValidateDeadLetterAtStartup
  <2>1. pc' = "lines"
    BY <1>0, <1>6, DeadLetterPathGiven DEF ValidateDeadLetterAtStartup, Step, Steps
  <2> QED BY <1>6, <2>1, StepOn DEF ValidateDeadLetterAtStartup, Step, Steps
<1>7. CASE newMetrics
  <2>0. pc = "metrics" /\ UNCHANGED <<cfg, given, faulted, port>> /\ Validate(cfg)
    BY <1>0, <1>7 DEF newMetrics, Steps
  <2>1. CASE pc' = "panicked"
    <3>1. cfg.metrics.enabled /\ PathsClash(cfg)
      BY <1>7, <2>0, <2>1, MuxPanicsForCause DEF newMetrics
    <3>2. PanicsForCause' /\ RefusedLateForCause'
      BY <2>0, <2>1, <3>1 DEF PanicsForCause, RefusedLateForCause
    <3> QED BY <2>0, <2>1, <3>2, StepEnds DEF Steps
  <2>2. CASE pc' = "listen" /\ (cfg.metrics.enabled => routes' = ToSet(Registered(cfg)))
    <3>1. StartType' /\ (faulted => pc = "failed")' /\ Validate(cfg)'
      BY <2>0, <2>2 DEF StartInv, StartType, Steps, Ends
    <3>2. PanicsForCause' /\ RefusedLateForCause'
      BY <2>2 DEF PanicsForCause, RefusedLateForCause
    <3> QED BY <2>0, <2>2, <3>1, <3>2 DEF StartInv
  <2> QED BY <1>7, <2>1, <2>2 DEF newMetrics
<1>8. CASE Start
  <2>1. pc = "listen" /\ pc' = "pipeline" /\ UNCHANGED <<cfg, given, faulted, routes>>
        /\ (cfg.metrics.enabled => port' = Port(cfg))
    BY <1>8 DEF Start
  <2>2. StartType' /\ (faulted => pc = "failed")' /\ Validate(cfg)'
    BY <1>0, <2>1 DEF StartInv, StartType, Steps, Ends
  <2>3. PanicsForCause' /\ RefusedLateForCause'
    BY <2>1 DEF PanicsForCause, RefusedLateForCause
  <2> QED BY <2>1, <2>2, <2>3 DEF StartInv
<1>9. CASE newPipeline
  <2>1. CASE pc' = "failed"
    <3>1. cfg.transform.type = "regex" /\ cfg.transform.pattern = "bad"
      BY <1>0, <1>9, <2>1, ConstructsUnlessRegex DEF newPipeline, Step, Steps
    <3>2. PanicsForCause' /\ RefusedLateForCause'
      BY <1>9, <2>1, <3>1 DEF newPipeline, Step, PanicsForCause, RefusedLateForCause
    <3> QED BY <1>9, <2>1, <3>2, StepEnds DEF newPipeline, Step, Steps
  <2>2. CASE pc' = "scan"
    BY <1>9, <2>2, StepOn DEF newPipeline, Step, Steps
  <2> QED BY <1>9, <2>1, <2>2 DEF newPipeline, Step
<1>10. CASE Scan
  <2>1. CASE pc' = "failed"
    <3>1. \E e \in Entries(cfg) : \E p \in e.patterns : ~Globbable(e.path, p)
      BY <1>10, <2>1 DEF Scan, Step
    <3>2. PanicsForCause' /\ RefusedLateForCause'
      BY <1>10, <2>1, <3>1 DEF Scan, Step, PanicsForCause, RefusedLateForCause
    <3> QED BY <1>10, <2>1, <3>2, StepEnds DEF Scan, Step, Steps
  <2>2. CASE pc' = "ticker" /\ GlobsOK(cfg)
    BY <1>10, <2>2, StepOn DEF Scan, Step, Steps
  <2> QED BY <1>10, <2>1, <2>2 DEF Scan, Step, GlobsOK
<1>11. CASE NewTicker
  <2>1. CASE pc' = "panicked"
    <3>1. PollInterval(cfg) <= 0
      BY <1>11, <2>1, TickersPanicForCause DEF NewTicker, Step
    <3>2. PanicsForCause' /\ RefusedLateForCause'
      BY <1>11, <2>1, <3>1 DEF NewTicker, Step, PanicsForCause, RefusedLateForCause
    <3> QED BY <1>11, <2>1, <3>2, StepEnds DEF NewTicker, Step, Steps
  <2>2. CASE pc' = "running"
    <3>1. GlobsOK(cfg)
      BY <1>11 DEF NewTicker, Step, StartInv
    <3> QED BY <1>11, <2>2, <3>1, StepOn DEF NewTicker, Step, Steps
  <2> QED BY <1>11, <2>1, <2>2 DEF NewTicker, Step
<1>12. CASE OutsideFails
  <2>1. faulted' = TRUE /\ pc' = "failed" /\ UNCHANGED <<cfg, given>>
    BY <1>12 DEF OutsideFails
  <2>2. StartType'
    BY <2>1 DEF StartInv, StartType, Ends
  <2>3. PanicsForCause' /\ RefusedLateForCause'
    BY <2>1 DEF PanicsForCause, RefusedLateForCause
  <2> QED BY <2>1, <2>2, <2>3 DEF StartInv
<1>13. CASE makeLines
  <2>1. CASE pc' = "panicked"
    <3>1. cfg.pipeline.bufferSize > MaxChan
      BY <1>13, <2>1, TypedConfig, LinesPanicForCause DEF makeLines, Step, StartInv
    <3>2. PanicsForCause' /\ RefusedLateForCause'
      BY <1>13, <2>1, <3>1 DEF makeLines, Step, PanicsForCause, RefusedLateForCause
    <3> QED BY <1>13, <2>1, <3>2, StepEnds DEF makeLines, Step, Steps
  <2>2. CASE pc' = "metrics"
    BY <1>13, <2>2, StepOn DEF makeLines, Step, Steps
  <2> QED BY <1>13, <2>1, <2>2 DEF makeLines, Step
<1>14. CASE UNCHANGED vars
  BY <1>14 DEF vars, StartInv, StartType, GlobsOK, PanicsForCause, RefusedLateForCause
<1> QED BY <1>1, <1>2, <1>3, <1>4, <1>5, <1>6, <1>7, <1>8, <1>9, <1>10, <1>11, <1>12, <1>13, <1>14 DEF Next

\* The inductive invariant holds of every start.
THEOREM StartupInv == Spec => []StartInv
BY InitInv, NextInv, PTL DEF Spec

-----------------------------------------------------------------------------
(* The properties.                                                          *)

\* A start panics for the poll interval, the size of the buffer or the paths of
\* the metrics server only: Validate keeps every other configuration from it
\* (config/config.go:186, main.go:120, metrics/metrics.go:135-143).
THEOREM StartupPanicsForCause == Spec => []PanicsForCause
<1>1. StartInv => PanicsForCause
  BY DEF StartInv
<1> QED BY <1>1, StartupInv, PTL

\* What Validate accepts fails later for an answer of the outside, a regular
\* expression of the transformer, a glob or the settings of the sink; no other
\* section that passed is refused by what is built from it
\* (config/config.go:189-220 against main.go:39-189).
THEOREM StartupRefusedLate == Spec => []RefusedLateForCause
<1>1. StartInv => RefusedLateForCause
  BY DEF StartInv
<1> QED BY <1>1, StartupInv, PTL

\* The health and readiness endpoints are registered.
LEMMA Endpoints ==
    ASSUME NEW c PROVE {"/health", ReadyPath(c)} \subseteq ToSet(Registered(c))
<1> DEFINE paths == Registered(c)
<1>1. 1 \in DOMAIN paths /\ 2 \in DOMAIN paths /\ paths[1] = "/health" /\ paths[2] = ReadyPath(c)
  BY RegisteredPaths
<1> HIDE DEF paths
<1>2. {"/health", ReadyPath(c)} \subseteq ToSet(paths)
  BY <1>1 DEF ToSet
<1> QED BY <1>2 DEF paths

\* A forwarder that registers with the ATC serves the endpoints the ATC asks,
\* on the port of the registration (config/atc.go:42-68, main.go:222-237).
THEOREM StartupATCReachable == Spec => []ATCReachable
<1>1. StartInv => ATCReachable
  <2> SUFFICES ASSUME StartInv, Running, cfg.atc.enabled
               PROVE  {"/health", ReadyPath(cfg)} \subseteq routes /\ port = Port(cfg)
    BY DEF ATCReachable
  <2>1. pc = "running"
    BY DEF Running
  <2>2. Validate(cfg)
    BY <2>1 DEF StartInv
  <2>3. cfg.metrics.enabled
    BY <2>2 DEF Validate, validateATC
  <2>4. routes = ToSet(Registered(cfg)) /\ port = Port(cfg)
    BY <2>1, <2>3 DEF StartInv
  <2> QED BY <2>4, Endpoints
<1> QED BY <1>1, StartupInv, PTL

\* Every configuration that comes to run satisfies the assumptions under which
\* the modules of the store, the watcher, the pipeline and the record are
\* proved (config/pipeline.go:162-252, config/state.go:45-56).
THEOREM StartupModelsApply == Spec => []ModelsApply
<1>1. StartInv => ModelsApply
  <2> SUFFICES ASSUME StartInv, pc = "running" PROVE ModelsApply
    BY DEF ModelsApply, Running
  <2>1. Validate(cfg)
    BY DEF StartInv
  <2>2. ConfigType(cfg)
    BY TypedConfig DEF StartInv
  <2> DEFINE p == cfg.pipeline
             b == p.batch
  <2>3. /\ cfg.state.flushEvery \in Int /\ p.bufferSize \in Int /\ p.maxAttempts \in Int
        /\ p.maxPublishBytes \in Int /\ b.maxBytes \in Int /\ b.maxAttempts \in Int
        /\ b.maxConsecutive \in Int
    BY <2>2, Zenon DEF ConfigType
  <2>4. cfg.state.flushEvery >= 0 /\ cfg.transform.onError \in {"skip", "wrap"}
    BY <2>1 DEF Validate, validateState, validateTransform
  <2>5. /\ p.bufferSize > 0 /\ p.onFull \in {"block", "drop"}
        /\ p.maxAttempts >= 0 /\ p.maxPublishBytes >= 0
        /\ b.maxBytes >= 0 /\ b.maxAttempts >= 0
        /\ validateDeadLetter(cfg, b) /\ validateHibernate(b)
    BY <2>1 DEF Validate, validatePipeline
  <2>6. /\ OnFlushFailure(b) \in {"hibernate", "dead_letter"}
        /\ OnFlushFailure(b) = "dead_letter" => b.deadLetterPath # <<>>
        /\ b.wakeEnabled => WakeInterval(b) > 0
    BY <2>5 DEF validateDeadLetter, validateHibernate
  <2> HIDE DEF p, b
  <2>7. cfg.state.flushEvery \in Nat /\ b.maxBytes \in Nat /\ p.maxPublishBytes \in Nat
    BY <2>3, <2>4, <2>5
  <2>8. MaxConsecutive(b) > 0
    BY <2>3 DEF MaxConsecutive
  <2>9. MaxAttempts(p) \in Nat
    BY <2>3, <2>5 DEF MaxAttempts, b
  <2> QED BY <2>4, <2>5, <2>6, <2>7, <2>8, <2>9 DEF ModelsApply, p, b
<1> QED BY <1>1, StartupInv, PTL

\* A path outside every watched directory is not one that a pattern reaches
\* downwards.
LEMMA UnwatchedNotBelow ==
    ASSUME NEW c, ConfigType(c), NEW e \in Entries(c), NEW r \in Seq(Names), Unwatched(c, e.path \o r)
    PROVE  FALSE
BY BelowIsInside DEF Unwatched, ConfigType

\* A pattern of one element that matches the file of the watermarks is one that
\* validateState refuses.
LEMMA MatchedNotState ==
    ASSUME NEW c, ConfigType(c), GlobsOK(c), Unmatched(c, StatePath(c)),
           NEW e \in Entries(c), NEW p \in e.patterns, NEW r \in p.matches,
           StatePath(c) = e.path \o r, Len(r) = 1
    PROVE  FALSE
<1>1. e.path \in Seq(Names) /\ r \in Seq(Names) /\ p.ok
  BY DEF ConfigType, Matched, GlobsOK, Globbable
<1>2. Last(e.path \o r) = r[1] /\ <<r[1]>> = r
  BY <1>1, LastOfOne
<1>3. pathInside(e.path, StatePath(c)) /\ <<Last(StatePath(c))>> \in p.matches
  BY <1>1, <1>2, BelowIsInside
<1> QED BY <1>1, <1>3 DEF Unmatched, logFileMatchesWatchPattern

\* A forwarder that runs tails a file of its own only through a watch path with
\* metacharacters or a pattern with several elements, which Validate does not
\* resolve (config/logging.go:63-117, config/state.go:45-56,
\* config/sink.go:95-131 against watcher/watcher.go:169-179).
THEOREM StartupNoSelfTail == Spec => []NoSelfTail
<1>1. StartInv => NoSelfTail
  <2> SUFFICES ASSUME StartInv, pc = "running",
                      NEW e \in Entries(cfg), NEW p \in e.patterns, NEW r \in p.matches,
                      e.path \notin DOMAIN Globs, Own(cfg, Join(e.path, r))
               PROVE  Len(r) > 1 /\ (Head(r) = ".." \/ Join(e.path, r) = StatePath(cfg))
    BY DEF NoSelfTail, Running, Dirs
  <2>1. Validate(cfg) /\ GlobsOK(cfg) /\ ConfigType(cfg)
    BY TypedConfig DEF StartInv
  <2>2. /\ e.path \in Seq(Names) /\ r \in Seq(Names) /\ r # <<>> /\ Last(r) # ".."
        /\ Len(r) \in Nat \ {0}
    BY <2>1, EmptySeq DEF ConfigType, Matched
  <2>3. CASE Head(r) = ".."
    <3>1. Len(r) # 1
      BY <2>2, <2>3 DEF Last
    <3>2. Len(r) > 1
      BY <2>2, <3>1, SeveralElements
    <3> QED BY <2>3, <3>2
  <2>4. CASE Head(r) # ".."
    <3>1. Join(e.path, r) = e.path \o r
      BY <2>4 DEF Join
    <3>2. /\ e.path \o r # <<>> /\ Front(e.path \o r) = e.path \o Front(r)
          /\ Front(r) \in Seq(Names)
      BY <2>2, FrontBelow
    <3>3. e.path \o r # cfg.logging.file
      <4>1. cfg.logging.file # <<>> => Unwatched(cfg, cfg.logging.file)
        BY <2>1 DEF Validate, validateLogging
      <4> QED BY <2>1, <2>2, <3>2, <4>1, UnwatchedNotBelow
    <3>4. ~(SinkType(cfg) = "file" /\ e.path \o r = cfg.sink.file)
      <4>1. SinkType(cfg) = "file" => Unwatched(cfg, cfg.sink.file)
        BY <2>1 DEF Validate, validateSink, validateSinkFilePath
      <4> QED BY <2>1, <2>2, <4>1, UnwatchedNotBelow
    <3>5. ~(/\ OnFlushFailure(cfg.pipeline.batch) = "dead_letter"
            /\ Front(e.path \o r) = cfg.pipeline.batch.deadLetterPath)
      <4>1. OnFlushFailure(cfg.pipeline.batch) = "dead_letter"
                => Unwatched(cfg, cfg.pipeline.batch.deadLetterPath)
        BY <2>1, DeadLetterPathGiven
      <4> QED BY <2>1, <3>2, <4>1, UnwatchedNotBelow
    <3>6. e.path \o r = StatePath(cfg)
      BY <3>1, <3>3, <3>4, <3>5 DEF Own
    <3>7. Unmatched(cfg, StatePath(cfg))
      BY <2>1 DEF Validate, validateState
    <3>8. Len(r) # 1
      BY <2>1, <3>6, <3>7, MatchedNotState
    <3>9. Len(r) > 1
      BY <2>2, <3>8, SeveralElements
    <3> QED BY <3>1, <3>6, <3>9
  <2> QED BY <2>3, <2>4
<1> QED BY <1>1, StartupInv, PTL
=============================================================================
