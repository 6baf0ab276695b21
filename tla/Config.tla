------------------------------- MODULE Config -------------------------------
(***************************************************************************)
(* internal/config: the configuration as it is after Load has unmarshalled *)
(* the YAML file over Default(), its accessors with their defaults, and    *)
(* Validate.                                                               *)
(*                                                                         *)
(* Data is abstracted to what validation and start-up tell apart.  A       *)
(* duration is one of a few strings.  A path is the sequence of its        *)
(* elements, absolute and clean, which is what filepath.Abs gives; << >>   *)
(* is a path that is not set.  A glob pattern is the set of relative paths *)
(* it matches, or malformed.  Lists whose order Validate does not see are  *)
(* sets.  A regular expression, URL, HTTP method, file name or credential  *)
(* is "" when it is not set, and "bad" when what it is used for refuses it.*)
(***************************************************************************)
EXTENDS Integers, Sequences, SequencesExt

CONSTANTS Wd,     \* the working directory, a path
          Globs,  \* the watch paths with metacharacters: what they match, as a pattern
          None    \* a section, given as a pointer, that is nil

\* time.ParseDuration, in tenths of a second; what is not in its domain does
\* not parse.
ParseDuration == [d \in {"-1s", "0", "0s", "100ms", "1s", "30s", "1m"} |->
                     CASE d = "-1s" -> -10 [] d \in {"0", "0s"} -> 0 [] d = "100ms" -> 1
                       [] d = "1s" -> 10 [] d = "30s" -> 300 [] d = "1m" -> 600]

Parses(d) == d \in DOMAIN ParseDuration
Optional(d) == d = "" \/ Parses(d)
DurationOr(d, default) == IF Parses(d) THEN ParseDuration[d] ELSE default
-----------------------------------------------------------------------------
(* Accessors.                                                              *)

\* Sources as they are, or every path with the shared patterns.
Entries(c) == IF c.watch.sources # {} THEN c.watch.sources
              ELSE {[path |-> p, patterns |-> c.watch.patterns] : p \in c.watch.paths}

StatePath(c) == IF c.state.path # <<>> THEN c.state.path
                ELSE Wd \o <<".log-forwarder", "watermarks.json">>

PollInterval(c) == DurationOr(c.watch.poll, 0)
StateFlushInterval(c) == DurationOr(c.state.flushInterval, 10)

BatchFlushInterval(b) == DurationOr(b.flushInterval, IF b.flushInterval = "" /\ b.maxBytes > 0 THEN 1 ELSE 0)
BatchEnabled(b) == b.maxBytes > 0 \/ BatchFlushInterval(b) > 0

OnFlushFailure(b) == IF b.onFlushFailure = "" THEN "hibernate" ELSE b.onFlushFailure
MaxConsecutive(b) == IF b.maxConsecutive <= 0 THEN 3 ELSE b.maxConsecutive
MaxAttempts(p) == IF p.batch.maxAttempts > 0 THEN p.batch.maxAttempts ELSE p.maxAttempts
WakeInterval(b) == DurationOr(b.wakeInterval, 6000)

ParserType(c) == IF c.parser.type = "" THEN "line" ELSE c.parser.type
SinkType(c) == IF c.sink.type = "" THEN "kafka" ELSE c.sink.type
SecurityProtocol(k) == IF k.protocol = "" THEN "PLAINTEXT" ELSE k.protocol

\* The Kafka section decides whenever there is one, and Default() has one.
SinkConnectTimeout(c) ==
    IF c.sink.kafka # None THEN DurationOr(c.sink.kafka.connectTimeout, 100)
    ELSE IF c.sink.http # None THEN DurationOr(c.sink.http.timeout, 300)
    ELSE 100

\* A path of the metrics server; "health" stands for one without its slash.
HTTPPath(p, default) == IF p = "" THEN default ELSE IF p = "health" THEN "/health" ELSE p
MetricsPath(c) == HTTPPath(c.metrics.path, "/metrics")
ReadyPath(c) == HTTPPath(c.metrics.readyPath, "/ready")
Port(c) == IF c.metrics.port = 0 THEN 8080 ELSE c.metrics.port
-----------------------------------------------------------------------------
(* Validation, section by section.                                         *)

pathInside(dir, path) == IsPrefix(dir, path)

logFileMatchesWatchPattern(path, dir, patterns) ==
    pathInside(dir, path) /\ \E p \in patterns : p.ok /\ <<Last(path)>> \in p.matches

\* A file whose name no pattern of a watched directory around it matches.
Unmatched(c, path) ==
    \A e \in Entries(c) : ~logFileMatchesWatchPattern(path, e.path, e.patterns)

\* A file or directory outside every watched directory.
Unwatched(c, path) == \A e \in Entries(c) : ~pathInside(e.path, path)

validateWatch(c) ==
    /\ IF c.watch.sources # {}
       THEN \A s \in c.watch.sources : s.path # <<>> /\ s.patterns # {}
       ELSE c.watch.paths # {} /\ c.watch.patterns # {}
    /\ Parses(c.watch.poll)

validateTLS(k) ==
    SecurityProtocol(k) \in {"SSL", "SASL_SSL"} =>
        /\ k.tls # None
        /\ (k.tls.cert = "") = (k.tls.key = "")
        /\ k.tls.ca # "" \/ k.tls.skipVerify \/ k.tls.cert # ""

validateSASL(k) ==
    SecurityProtocol(k) \in {"SASL_PLAINTEXT", "SASL_SSL"} =>
        /\ k.sasl # None
        /\ CASE k.sasl.mechanism \in {"PLAIN", "SCRAM-SHA-256", "SCRAM-SHA-512"} ->
                    k.sasl.username # "" /\ k.sasl.password # ""
             [] k.sasl.mechanism = "GSSAPI" -> k.sasl.keytab # "" /\ k.sasl.principal # ""
             [] k.sasl.mechanism = "OAUTHBEARER" -> k.sasl.token # ""
             [] OTHER -> FALSE

KafkaValid(k) ==
    /\ k.brokers # {} /\ k.topic # ""
    /\ Optional(k.connectTimeout)
    /\ SecurityProtocol(k) \in {"PLAINTEXT", "SSL", "SASL_PLAINTEXT", "SASL_SSL"}
    /\ validateTLS(k)
    /\ validateSASL(k)

validateSinkFilePath(c, path) == Unwatched(c, path) /\ path # c.logging.file

validateSink(c) ==
    CASE SinkType(c) = "kafka" -> c.sink.kafka # None /\ KafkaValid(c.sink.kafka)
      [] SinkType(c) = "file" -> c.sink.file # <<>> /\ validateSinkFilePath(c, c.sink.file)
      [] SinkType(c) = "http-noauth" -> /\ c.sink.http # None
                                        /\ c.sink.http.url \notin {"", "bad"}
                                        /\ Optional(c.sink.http.timeout)
      [] OTHER -> FALSE

\* Faulty variant: the start pattern is only required.
validateParserUncompiled(c) ==
    /\ ParserType(c) \in {"line", "multiline"}
    /\ ParserType(c) = "multiline" => c.parser.startPattern # "" /\ Optional(c.parser.flushInterval)

validateParser(c) ==
    /\ ParserType(c) \in {"line", "multiline"}
    /\ ParserType(c) = "multiline" => /\ c.parser.startPattern \notin {"", "bad"}
                                      /\ Optional(c.parser.flushInterval)

validateTransform(c) ==
    /\ c.transform.type \in {"delimiter", "tab", "regex"}
    /\ c.transform.type = "regex" => c.transform.pattern # ""
    /\ c.transform.onError \in {"skip", "wrap"}

TimestampEnabled(t) == t.field # "" \/ t.format # "" \/ t.timezone # "" \/ t.output # ""

validateTimestamp(c) ==
    TimestampEnabled(c.timestamp) =>
        /\ c.timestamp.output \in {"", "rfc3339nano"}
        /\ c.timestamp.format # "bad" /\ c.timestamp.timezone # "bad"

validateEnrichers(c) == \A e \in c.enrichers : \/ e.type = "host"
                                               \/ e.type = "static" /\ e.fields # {}

validateOnMissing(m) == m \in {"", "drop", "pass"}

fieldRuleValid(r) == /\ r.field # ""
                     /\ validateOnMissing(r.onMissing)
                     /\ \/ r.op \in {"eq", "neq"} /\ r.value # ""
                        \/ r.op \in {"in", "not_in"} /\ r.values # {}

\* Rules of a compound are field rules here; the code lets them nest.
validateFilterRule(r) ==
    \/ r.type = "field" /\ fieldRuleValid(r)
    \/ /\ r.type = "compound" /\ r.rules # {}
       /\ r.match \in {"", "all", "any"}
       /\ \A s \in r.rules : s.type = "field" /\ fieldRuleValid(s)

FilterEnabled(f) == f.rules # {}

validateFilter(c) ==
    FilterEnabled(c.filter) => /\ validateOnMissing(c.filter.onMissing)
                               /\ c.filter.match \in {"", "all", "any"}
                               /\ \A r \in c.filter.rules : validateFilterRule(r)

validateBackoff(p) == /\ Optional(p.initialBackoff) /\ Optional(p.maxBackoff)
                      /\ DurationOr(p.maxBackoff, 300) >= DurationOr(p.initialBackoff, 10)

validateDeadLetter(c, b) ==
    \/ OnFlushFailure(b) = "hibernate"
    \/ /\ OnFlushFailure(b) = "dead_letter"
       /\ b.deadLetterPath # <<>> /\ b.maxConsecutive >= 0
       /\ Unwatched(c, b.deadLetterPath)

\* Faulty variant: the wake interval is only parsed.
validateHibernateParsed(b) == Optional(b.wakeInterval)

validateHibernate(b) == /\ Optional(b.wakeInterval)
                        /\ b.wakeEnabled => WakeInterval(b) > 0

validatePipeline(c) ==
    LET p == c.pipeline
        b == p.batch
    IN  /\ p.bufferSize > 0
        /\ p.onFull \in {"block", "drop"}
        /\ Optional(p.publishTimeout)
        /\ validateBackoff(p)
        /\ p.maxAttempts >= 0 /\ p.maxPublishBytes >= 0
        /\ b.maxBytes >= 0 /\ b.maxAttempts >= 0 /\ Optional(b.flushInterval)
        /\ validateDeadLetter(c, b)
        /\ validateHibernate(b)

ToLower(s) == CASE s = "DEBUG" -> "debug" [] s = "JSON" -> "json" [] OTHER -> s

validateLogging(c) ==
    /\ ToLower(c.logging.level) \in {"", "debug", "info", "warn", "error"}
    /\ ToLower(c.logging.format) \in {"", "text", "json"}
    /\ Optional(c.logging.statusInterval)
    /\ c.logging.file # <<>> => Unwatched(c, c.logging.file)

MaxPort == 65535

\* The threshold is given in tenths.
validateMetrics(c) ==
    c.metrics.enabled =>
        /\ c.metrics.port \in 0..MaxPort
        /\ MetricsPath(c) # "/" /\ ReadyPath(c) # "/"
        /\ ReadyPath(c) # MetricsPath(c)
        /\ c.metrics.threshold \in 0..10
        /\ Optional(c.metrics.sinkCheckTimeout)

\* Faulty variant: registration without a server to reach.
validateATCAlone(c) == c.atc.enabled => c.atc.url \in {"", "ok"} /\ Optional(c.atc.timeout)

\* A URL that does not parse or lacks a scheme of HTTP, a host or a path is not "ok".
validateATC(c) == c.atc.enabled => /\ c.metrics.enabled
                                   /\ c.atc.url \in {"", "ok"}
                                   /\ Optional(c.atc.timeout)

validateState(c) == /\ c.state.flushEvery >= 0
                    /\ Optional(c.state.flushInterval)
                    /\ Unmatched(c, StatePath(c))

Validate(c) ==
    /\ validateWatch(c) /\ validateSink(c) /\ validateParser(c) /\ validateTransform(c)
    /\ validateTimestamp(c) /\ validateEnrichers(c) /\ validateFilter(c)
    /\ validatePipeline(c) /\ validateLogging(c) /\ validateMetrics(c)
    /\ validateATC(c) /\ validateState(c)
-----------------------------------------------------------------------------
\* The files of a directory that "*.log*" stands for.
LogFiles == [ok |-> TRUE, matches |-> {<<"app.log">>}]

Default ==
    [watch |-> [sources |-> {}, paths |-> {Wd}, patterns |-> {LogFiles}, poll |-> "1s"],
     state |-> [path |-> <<>>, flushInterval |-> "", flushEvery |-> 0],
     sink |-> [type |-> "kafka", file |-> <<>>, http |-> None,
               kafka |-> [brokers |-> {"localhost"}, topic |-> "logs", connectTimeout |-> "",
                          protocol |-> "", tls |-> None, sasl |-> None]],
     parser |-> [type |-> "line", startPattern |-> "", flushInterval |-> ""],
     transform |-> [type |-> "delimiter", pattern |-> "", onError |-> "wrap"],
     enrichers |-> {[type |-> "host", fields |-> {}]},
     filter |-> [match |-> "", onMissing |-> "", rules |-> {}],
     timestamp |-> [field |-> "", format |-> "", timezone |-> "", output |-> ""],
     pipeline |-> [bufferSize |-> 1024, onFull |-> "block", publishTimeout |-> "",
                   initialBackoff |-> "", maxBackoff |-> "", maxAttempts |-> 0,
                   maxPublishBytes |-> 1048576,
                   batch |-> [maxBytes |-> 1048576, flushInterval |-> "100ms",
                              onFlushFailure |-> "", maxAttempts |-> 0,
                              wakeEnabled |-> FALSE, wakeInterval |-> "",
                              deadLetterPath |-> <<>>, maxConsecutive |-> 0]],
     logging |-> [level |-> "info", format |-> "text", file |-> <<>>,
                  statusInterval |-> "30s"],
     metrics |-> [enabled |-> FALSE, port |-> 0, path |-> "", readyPath |-> "",
                  threshold |-> 0, sinkCheckTimeout |-> ""],
     atc |-> [enabled |-> FALSE, url |-> "", timeout |-> ""]]

\* A section that is there is not nil.
ASSUME ConfigAssumption == Default.sink.kafka # None
=============================================================================
