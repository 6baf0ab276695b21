----------------------------- MODULE MCStartup -----------------------------
(* Startup with configurations of which at most two sections differ from    *)
(* Default(), each over what its validation and its use tell apart.         *)
EXTENDS Startup

WorkingDirectory == <<"app">>
FileNames == {"..", "*", "[", "app", "sub", "var", "opt", ".log-forwarder",
              "app.log", "self.log", "out.json", "watermarks.json", "batch"}

LogDirs == {<<"app">>, <<"app", "sub">>, <<"var">>, <<"opt">>}
Glob(paths) == [ok |-> TRUE, matches |-> paths]
Star == Glob({<<n>> : n \in {"app.log", "self.log", "out.json", "watermarks.json", "batch"}})
Nested == Glob({<<"sub", n>> : n \in {"self.log", "out.json", "watermarks.json", "batch"}})
Upwards == Glob({<<"..", "var", n>> : n \in {"self.log", "out.json", "watermarks.json", "batch"}})
Malformed == [ok |-> FALSE, matches |-> {}]

\* The watch path /* stands for every directory of the root, and /[ for none.
Metacharacters == <<"*">> :> Glob({<<"app">>, <<"var">>, <<"opt">>}) @@ <<"[">> :> Malformed
ChanLimit == 4096
BadPaths == {"/{"}
Clashes == {{"/{x}", "/{y}"}, {"/health", "/he%61lth"}}

Durations == {"", "bad", "-1s", "0", "0s", "1s"}
\* The values of section s that have field f set to one of a set.
With(s, f, values) == {[Default[s] EXCEPT ![f] = v] : v \in values}
Source(path, patterns) == [path |-> path, patterns |-> patterns]

Watches ==
    {[Default.watch EXCEPT !.paths = d, !.patterns = p] :
        d \in {{}, {<<"app">>}, {<<"app">>, <<"var">>}, {<<"*">>}, {<<"[">>}},
        p \in {{}, {LogFiles}, {Star}, {Nested}, {LogFiles, Upwards}, {Malformed}}}
    \cup With("watch", "poll", Durations)
    \cup With("watch", "sources", {{Source(<<"var">>, {Star}), Source(<<"app">>, {LogFiles})},
                                   {Source(<<"app", "sub">>, {Star})},
                                   {Source(<<>>, {Star})}, {Source(<<"app">>, {})}})

States == With("state", "path", {d \o <<"watermarks.json">> : d \in LogDirs})
          \cup With("state", "flushInterval", Durations)
          \cup With("state", "flushEvery", {-1, 3})

TLS(ca, cert, key, skip) == [ca |-> ca, cert |-> cert, key |-> key, skipVerify |-> skip]
SASL(mechanism, username, password, keytab, token) ==
    [mechanism |-> mechanism, username |-> username, password |-> password,
     keytab |-> keytab, principal |-> keytab, token |-> token]
Kafka(f, values) == {[Default.sink EXCEPT !.kafka[f] = v] : v \in values}
Secure(protocol, tls, sasl) ==
    [Default.sink EXCEPT !.kafka.protocol = protocol, !.kafka.tls = tls, !.kafka.sasl = sasl]
CAs == TLS("ca", "", "", FALSE)
Sinks ==
    With("sink", "type", {"", "unknown", "http-noauth"}) \cup With("sink", "kafka", {None})
    \cup Kafka("brokers", {{}}) \cup Kafka("topic", {""}) \cup Kafka("protocol", {"PLAINTEXT", "bad"})
    \cup Kafka("connectTimeout", Durations)
    \cup {Secure("SSL", t, None) : t \in {None, CAs, TLS("", "", "", FALSE), TLS("", "c", "", FALSE),
                                          TLS("", "c", "k", FALSE), TLS("", "", "", TRUE)}}
    \cup {Secure("SASL_PLAINTEXT", None, s) :
             s \in {None, SASL("", "u", "p", "", ""), SASL("PLAIN", "u", "p", "", ""),
                    SASL("PLAIN", "u", "", "", ""), SASL("SCRAM-SHA-256", "", "p", "", ""),
                    SASL("PLAIN", "u", "bad", "", ""), SASL("SCRAM-SHA-256", "u", "bad", "", ""),
                    SASL("SCRAM-SHA-512", "u", "p", "", ""), SASL("GSSAPI", "", "", "k", ""),
                    SASL("GSSAPI", "", "", "", ""), SASL("OAUTHBEARER", "", "", "", "t"),
                    SASL("OAUTHBEARER", "", "", "", "")}}
    \cup {Secure("SASL_SSL", t, SASL("PLAIN", "u", "p", "", "")) : t \in {None, CAs}}
    \cup {[Default.sink EXCEPT !.type = "file", !.file = f] :
             f \in {<<>>, <<"var", "self.log">>} \cup {d \o <<"out.json">> : d \in LogDirs}}
    \cup {[Default.sink EXCEPT !.type = "http-noauth", !.kafka = k, !.http = [url |-> u, method |-> m, timeout |-> t]] :
             k \in {None, Default.sink.kafka}, u \in {"", "bad", "partial", "ok"},
             m \in {"", "bad"}, t \in {"", "bad", "0s", "1s"}}

Parsers == {[type |-> t, startPattern |-> p, flushInterval |-> d] :
               t \in {"", "multiline", "unknown"}, p \in {"", "bad", "ok"}, d \in {"", "bad", "-1s"}}

Transforms == {[type |-> t, pattern |-> p, onError |-> e] :
                  t \in {"", "tab", "regex", "unknown"}, p \in {"", "bad", "ok"}, e \in {"", "skip"}}

Timestamps == With("timestamp", "format", {"bad", "ok"})
              \cup With("timestamp", "timezone", {"bad", "UTC"})
              \cup With("timestamp", "output", {"unix", "rfc3339nano"})

EnricherSets == {{}} \cup {{[type |-> t, fields |-> f]} : t \in {"", "host", "static"}, f \in {{}, {"env"}}}

Rule(op, value, values) == [type |-> "field", field |-> "level", op |-> op, value |-> value,
                            values |-> values, onMissing |-> ""]
Compound(match, rules) == [type |-> "compound", match |-> match, rules |-> rules]
Rules == {Rule("eq", "x", {}), Rule("eq", "", {}), Rule("in", "", {"x"}), Rule("in", "x", {}),
          Rule("like", "x", {}), [Rule("eq", "x", {}) EXCEPT !.onMissing = "keep"],
          Compound("any", {Rule("eq", "x", {})}), Compound("any", {}), Compound("some", {Rule("eq", "x", {})})}
Filters == {[match |-> m, onMissing |-> "", rules |-> {r}] : m \in {"", "any", "some"}, r \in Rules}
           \cup With("filter", "match", {"some"})

Batch(f, values) == {[Default.pipeline EXCEPT !.batch[f] = v] : v \in values}
Pipelines ==
    With("pipeline", "bufferSize", {-1, 0, 1, ChanLimit + 1}) \cup With("pipeline", "onFull", {"", "drop"})
    \cup With("pipeline", "publishTimeout", {"bad", "-1s"}) \cup With("pipeline", "maxAttempts", {-1, 2})
    \cup {[Default.pipeline EXCEPT !.initialBackoff = i, !.maxBackoff = m] :
             i \in {"", "bad", "1m"}, m \in {"", "bad", "1s"}}
    \cup With("pipeline", "maxPublishBytes", {-1, 0})
    \cup {[Default.pipeline EXCEPT !.batch.maxBytes = m, !.batch.flushInterval = f] :
             m \in {-1, 0, 1}, f \in Durations}
    \cup Batch("maxAttempts", {-1, 2})
    \cup {[Default.pipeline EXCEPT !.batch.wakeEnabled = e, !.batch.wakeInterval = w] :
             e \in BOOLEAN, w \in Durations}
    \cup Batch("maxConsecutive", {-1, 1})
DeadLetters == {[Default.pipeline EXCEPT !.batch.onFlushFailure = o, !.batch.deadLetterPath = d,
                                         !.batch.maxConsecutive = m] :
                   o \in {"", "dead_letter", "retry"}, d \in {<<>>} \cup LogDirs, m \in {-1, 1}}

Loggings == With("logging", "level", {"", "DEBUG", "loud"}) \cup With("logging", "format", {"JSON", "xml"})
            \cup With("logging", "statusInterval", {"0", "bad"})
            \cup With("logging", "file", {d \o <<"self.log">> : d \in LogDirs})

Serving == [Default.metrics EXCEPT !.enabled = TRUE]
MetricsSections ==
    {[Serving EXCEPT !.path = p, !.readyPath = r] :
        p \in {"", "/", "/health", "health", "/deadletters", "/live", "/{", "/{x}"},
        r \in {"", "/", "/metrics", "/health", "/deadletters", "/live", "/he%61lth", "/{y}"}}
    \cup {Default.metrics} \cup {[Serving EXCEPT !.port = p] : p \in {-1, 9090, 65536}}
    \cup {[Serving EXCEPT !.threshold = t] : t \in {-1, 10, 11}}
    \cup {[Serving EXCEPT !.sinkCheckTimeout = t] : t \in {"0", "bad", "-1s"}}

ATCs == {[enabled |-> e, url |-> u, timeout |-> t] :
            e \in BOOLEAN, u \in {"", "bad", "ok"}, t \in {"", "bad", "1s"}}

\* The configurations that differ from Default in two sections.
Pairs(s, xs, t, ys) == {[Default EXCEPT ![s] = x, ![t] = y] : x \in xs, y \in ys}

\* The sections whose validation or use looks at both, and the others in passing.
TwoSections ==
    UNION {Pairs("watch", Watches, "state", States), Pairs("watch", Watches, "sink", Sinks),
           Pairs("watch", Watches, "pipeline", DeadLetters), Pairs("watch", Watches, "logging", Loggings),
           Pairs("sink", Sinks, "logging", Loggings), Pairs("pipeline", DeadLetters, "metrics", MetricsSections),
           Pairs("pipeline", Pipelines, "enrichers", EnricherSets),
           Pairs("metrics", MetricsSections, "atc", ATCs), Pairs("parser", Parsers, "filter", Filters),
           Pairs("transform", Transforms, "timestamp", Timestamps)}
=============================================================================
