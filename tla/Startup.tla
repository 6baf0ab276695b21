------------------------------ MODULE Startup ------------------------------
(***************************************************************************)
(* cmd/log-forwarder from loadConfig to the first steps of Watcher.Run:    *)
(* what the constructors and checks of the start make of a configuration   *)
(* that Validate let pass.                                                 *)
(*                                                                         *)
(* A start is one goroutine.  At every step that asks something of the     *)
(* outside (a file, a directory, a port, the sink, the host name) the      *)
(* answer may be an error.                                                 *)
(***************************************************************************)
EXTENDS Config

CONSTANTS Names,        \* the elements of paths
          Setups,       \* configurations that a file, unmarshalled over Default, gives
          MaxChan,      \* the longest buffer of a channel that make can be asked for
          Unparsable,   \* paths that http.ServeMux cannot parse as patterns
          Conflicting   \* pairs of different paths that it does not accept together

\* What a glob pattern matches are files (the watcher passes over directories):
\* a path that is not empty and does not end in "..".
Matched(r) == r \in Seq(Names) /\ r # <<>> /\ Last(r) # ".."

\* The Go types of the fields whose type decides something.
ConfigType(c) ==
    /\ \A e \in Entries(c) : /\ e.path \in Seq(Names)
                             /\ \A p \in e.patterns : \A r \in p.matches : Matched(r)
    /\ {StatePath(c), c.sink.file, c.logging.file, c.pipeline.batch.deadLetterPath} \subseteq Seq(Names)
    /\ {c.metrics.enabled, c.atc.enabled, c.pipeline.batch.wakeEnabled} \subseteq BOOLEAN
    /\ {c.state.flushEvery, c.pipeline.bufferSize, c.pipeline.maxAttempts, c.pipeline.maxPublishBytes,
        c.pipeline.batch.maxBytes, c.pipeline.batch.maxAttempts, c.pipeline.batch.maxConsecutive} \subseteq Int

ASSUME SetupAssumption ==
    /\ {"app.log", ".log-forwarder", "watermarks.json"} \subseteq Names   \* of Default()
    /\ Wd \in Seq(Names)
    /\ MaxChan \in Nat
    /\ {"/health", "/deadletters"} \cap Unparsable = {}
    /\ {"/health", "/deadletters"} \notin Conflicting
    /\ \A c \in Setups : ConfigType(c)

VARIABLES
    cfg,      \* the configuration
    given,    \* a file was named on the command line
    pc,       \* the next step, or how the start ended
    faulted,  \* the outside has answered with an error
    routes,   \* the paths registered with the HTTP mux
    port      \* the port the metrics server listens on, 0 if none

vars == <<cfg, given, pc, faulted, routes, port>>

Ends == {"refused", "failed", "panicked", "running"}
Steps == {"loadConfig", "logger", "NewStore", "sink", "checkSink", "deadLetter",
          "lines", "metrics", "listen", "pipeline", "scan", "ticker"}

Init == /\ \/ given = TRUE /\ cfg \in Setups
           \/ given = FALSE /\ cfg = Default
        /\ pc = "loadConfig" /\ faulted = FALSE /\ routes = {} /\ port = 0

\* One step of the start that touches neither the mux nor the port.
Step(from, ok, to, end) == /\ pc = from
                           /\ pc' = IF ok THEN to ELSE end
                           /\ UNCHANGED <<cfg, given, faulted, routes, port>>

\* Without a file, Default() is used as it is.
loadConfig == Step("loadConfig", given => Validate(cfg), "logger", "refused")

newLogger == Step("logger", TRUE, "NewStore", "failed")

NewStore == Step("NewStore", TRUE, "sink", "failed")
-----------------------------------------------------------------------------
(* The sink.                                                               *)

\* buildDialer; what validateTLS and validateSASL require is there, but one
\* mechanism that they accept is not implemented, and two take only a user name
\* and a password that SASLprep can prepare.
buildDialer(k) == SecurityProtocol(k) \in {"SASL_PLAINTEXT", "SASL_SSL"} =>
    /\ k.sasl.mechanism # "GSSAPI"
    /\ k.sasl.mechanism \in {"SCRAM-SHA-256", "SCRAM-SHA-512"} =>
           "bad" \notin {k.sasl.username, k.sasl.password}

newSink == Step("sink", SinkType(cfg) = "kafka" => buildDialer(cfg.sink.kafka),
                "checkSink", "failed")

\* A request that net/http sends: with a method that is a token, and a URL with
\* a host and a scheme of HTTP ("partial" stands for one without).
Sendable(h) == h.method # "bad" /\ h.url # "partial"

\* Check of the file sink ignores its context; the others need time.
checkSinkAtStartup ==
    Step("checkSink", \/ SinkType(cfg) = "file"
                      \/ /\ SinkConnectTimeout(cfg) > 0
                         /\ SinkType(cfg) = "http-noauth" => Sendable(cfg.sink.http),
         "deadLetter", "failed")

ValidateDeadLetterAtStartup ==
    Step("deadLetter", OnFlushFailure(cfg.pipeline.batch) = "dead_letter" =>
                           cfg.pipeline.batch.deadLetterPath # <<>>,
         "lines", "failed")

\* make(chan watcher.LineEvent, buffer_size).
makeLines == Step("lines", cfg.pipeline.bufferSize <= MaxChan, "metrics", "panicked")
-----------------------------------------------------------------------------
(* The metrics server.                                                     *)

\* The paths registered, in order.  /deadletters is there whenever a path of
\* dead letters is configured, whatever on_flush_failure says.
Registered(c) ==
    IF c.pipeline.batch.deadLetterPath = <<>>
    THEN <<"/health", ReadyPath(c), MetricsPath(c)>>
    ELSE <<"/health", ReadyPath(c), "/deadletters", MetricsPath(c)>>

\* http.ServeMux refuses the second of two patterns that are equal, or that
\* overlap while neither is more specific, such as /{x} and /{y}.
Conflict(p, q) == p = q \/ {p, q} \in Conflicting

\* It panics on a pattern that it refuses or cannot parse.
MuxPanics(paths) == \/ ToSet(paths) \cap Unparsable # {}
                    \/ \E i, j \in DOMAIN paths : i # j /\ Conflict(paths[i], paths[j])

newMetrics ==
    /\ pc = "metrics"
    /\ IF ~cfg.metrics.enabled THEN pc' = "listen" /\ UNCHANGED routes
       ELSE IF MuxPanics(Registered(cfg)) THEN pc' = "panicked" /\ UNCHANGED routes
       ELSE pc' = "listen" /\ routes' = ToSet(Registered(cfg))
    /\ UNCHANGED <<cfg, given, faulted, port>>

\* Collector.Start: the port is bound before the forwarder goes on.
Start == /\ pc = "listen"
         /\ pc' = "pipeline"
         /\ port' = IF cfg.metrics.enabled THEN Port(cfg) ELSE 0
         /\ UNCHANGED <<cfg, given, faulted, routes>>
-----------------------------------------------------------------------------
(* pipeline.New and the start of Watcher.Run.                              *)

\* The factories of parser, transformer, timestamp normalizer and filter.
Constructs(c) == /\ ParserType(c) = "multiline" => c.parser.startPattern # "bad"
                 /\ c.transform.type = "regex" => c.transform.pattern # "bad"
                 /\ TimestampEnabled(c.timestamp) => c.timestamp.timezone # "bad"
                 /\ c.filter.rules # {} => c.filter.match \in {"", "all", "any"}

newPipeline == Step("pipeline", Constructs(cfg), "scan", "failed")

\* filepath.Glob of a watch path joined with a pattern; the metacharacters of
\* both count.
Globbable(path, p) == p.ok /\ (path \in DOMAIN Globs => Globs[path].ok)

\* The first scan; a glob that is malformed ends Run.
Scan == Step("scan", \A e \in Entries(cfg) : \A p \in e.patterns : Globbable(e.path, p),
             "ticker", "failed")

StatusInterval(c) == IF c.logging.statusInterval = "" THEN 0
                     ELSE DurationOr(c.logging.statusInterval, 300)

\* Faulty variant: the batch timer is started whenever batches are.
UnguardedTickers(c) ==
    {PollInterval(c)}
    \cup {i \in {StateFlushInterval(c), StatusInterval(c)} : i > 0}
    \cup (IF BatchEnabled(c.pipeline.batch) THEN {BatchFlushInterval(c.pipeline.batch)} ELSE {})

\* The intervals of the tickers that Watcher.Run, RunPeriodicFlush, logStatus
\* and Pipeline.Run start; all but the first look at theirs before.
Tickers(c) ==
    {PollInterval(c)}
    \cup {i \in {StateFlushInterval(c), StatusInterval(c)} : i > 0}
    \cup {i \in {BatchFlushInterval(c.pipeline.batch)} : i > 0 /\ BatchEnabled(c.pipeline.batch)}

\* time.NewTicker panics unless its interval is positive.
NewTicker == Step("ticker", \A i \in Tickers(cfg) : i > 0, "running", "panicked")

\* The steps that ask something of the outside, for this configuration.
Asks(c) == {"NewStore", "sink", "checkSink", "pipeline", "scan"}
           \cup (IF given THEN {"loadConfig"} ELSE {})
           \cup (IF c.logging.file # <<>> THEN {"logger"} ELSE {})
           \cup (IF OnFlushFailure(c.pipeline.batch) = "dead_letter" THEN {"deadLetter"} ELSE {})
           \cup (IF c.metrics.enabled THEN {"metrics", "listen"} ELSE {})

OutsideFails == /\ pc \in Asks(cfg)
                /\ faulted' = TRUE
                /\ pc' = "failed"
                /\ UNCHANGED <<cfg, given, routes, port>>

Next == \/ loadConfig \/ newLogger \/ NewStore \/ newSink \/ checkSinkAtStartup
        \/ ValidateDeadLetterAtStartup \/ makeLines \/ newMetrics \/ Start \/ newPipeline
        \/ Scan \/ NewTicker \/ OutsideFails

Spec == Init /\ [][Next]_vars
-----------------------------------------------------------------------------
Running == pc = "running"

\* The directories that a watch path stands for when it is part of a glob.
Dirs(path) == IF path \in DOMAIN Globs THEN Globs[path].matches ELSE {path}

\* filepath.Join of a directory and a match: ".." leads out of it.
Join(dir, rel) == IF Head(rel) = ".." THEN Front(dir) \o Tail(rel) ELSE dir \o rel

\* The files that this process writes and must not read as logs, under the names
\* it writes them by; a dead letter is written into its directory, not below it.
Own(c, path) == \/ path = c.logging.file
                \/ SinkType(c) = "file" /\ path = c.sink.file
                \/ path = StatePath(c)
                \/ /\ OnFlushFailure(c.pipeline.batch) = "dead_letter"
                   /\ path # <<>> /\ Front(path) = c.pipeline.batch.deadLetterPath

\* A forwarder that runs does not tail a file that it writes: its log, its sink
\* file, its dead letters, its watermarks.  What escapes Validate is a watch path
\* with metacharacters, which it compares as if it had none, and a pattern with
\* more than a file name: any such for the watermarks, one with ".." for the rest
\* (config/logging.go:63-117, config/state.go:45-56, config/sink.go:95-131
\* against watcher/watcher.go:169-179).
NoSelfTail ==
    Running => \A e \in Entries(cfg) : \A d \in Dirs(e.path) :
               \A p \in e.patterns : \A r \in p.matches :
                   Own(cfg, Join(d, r)) =>
                       \/ e.path \in DOMAIN Globs
                       \/ Len(r) > 1 /\ (Head(r) = ".." \/ Join(d, r) = StatePath(cfg))

\* The endpoints that are always served under the same path.
Fixed(c) == IF c.pipeline.batch.deadLetterPath = <<>> THEN {"/health"}
            ELSE {"/health", "/deadletters"}

\* Validate compares the two paths of the metrics server that are configured with
\* each other, as strings: one may still be malformed or clash with a fixed
\* endpoint, and the two may overlap as patterns.
PathsClash(c) ==
    LET own == {ReadyPath(c), MetricsPath(c)}
    IN  \/ own \cap Unparsable # {}
        \/ \E p \in own : \E q \in Fixed(c) : Conflict(p, q)
        \/ own \in Conflicting

\* Validate keeps every configuration from a panic of the start, but for three: a
\* poll interval that is not positive, a buffer_size that no channel can have, and
\* paths of a metrics server that clash (config/config.go:186,
\* config/pipeline.go:174-175, config/metrics.go against main.go:120,
\* watcher/watcher.go:118 and metrics/metrics.go:135-143).
PanicsForCause ==
    pc = "panicked" => \/ PollInterval(cfg) <= 0
                       \/ cfg.pipeline.bufferSize > MaxChan
                       \/ cfg.metrics.enabled /\ PathsClash(cfg)

\* A configuration that Validate accepted is refused later only for what the
\* outside answers, for a regular expression of the transformer, for a glob that
\* is malformed, or in the sink's own settings: credentials, an HTTP method or
\* URL, a timeout.  No other section that passed is refused by what is built from
\* it (config/config.go:189-220 against main.go:39-189).
RefusedLateForCause ==
    pc = "failed" =>
        \/ faulted
        \/ cfg.transform.type = "regex" /\ cfg.transform.pattern = "bad"
        \/ \E e \in Entries(cfg) : \E p \in e.patterns : ~Globbable(e.path, p)
        \/ SinkType(cfg) = "kafka" /\ ~buildDialer(cfg.sink.kafka)
        \/ SinkType(cfg) = "http-noauth" /\ ~Sendable(cfg.sink.http)
        \/ SinkType(cfg) # "file" /\ SinkConnectTimeout(cfg) <= 0

\* What the other modules assume of their constants holds of every configuration
\* that runs: StoreAssumption, WatcherAssumption and PipelineAssumption, with the
\* wake loop's interval and a limit of the payload as Record has it
\* (config/pipeline.go:162-252).
ModelsApply ==
    Running => LET p == cfg.pipeline
                   b == p.batch
               IN  /\ cfg.state.flushEvery \in Nat
                   /\ p.bufferSize > 0 /\ p.onFull \in {"block", "drop"}
                   /\ MaxAttempts(p) \in Nat /\ b.maxBytes \in Nat /\ MaxConsecutive(b) > 0
                   /\ OnFlushFailure(b) \in {"hibernate", "dead_letter"}
                   /\ OnFlushFailure(b) = "dead_letter" => b.deadLetterPath # <<>>
                   /\ b.wakeEnabled => WakeInterval(b) > 0
                   /\ p.maxPublishBytes \in Nat
                   /\ cfg.transform.onError \in {"skip", "wrap"}

\* A forwarder that registers with the ATC serves what the ATC will ask for, on
\* the port of its registration (config/atc.go:42-68, main.go:222-237).
ATCReachable == Running /\ cfg.atc.enabled =>
                    /\ {"/health", ReadyPath(cfg)} \subseteq routes
                    /\ port = Port(cfg)
=============================================================================
