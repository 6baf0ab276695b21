------------------------------- MODULE Record -------------------------------
(* Pipeline.process on one parsed event, up to the payload it enqueues:     *)
(* transform, timestamp normalisation, filter, enrichers and the cut to     *)
(* max_publish_bytes.                                                       *)
(*                                                                          *)
(* A record is a function from some field names to values. A value stands   *)
(* for a string; what is told apart of it is its identity, its value under  *)
(* case folding, its runes and bytes, and whether it parses as a time. The  *)
(* encoder (encoding/json) is the length of what it produces: JsonBytes of  *)
(* a record, CutBytes of a record with one field cut to k runes.            *)
EXTENDS Integers, Sequences

CONSTANTS
    Fields,             \* field names
    Values,             \* strings
    Empty,              \* the empty string
    Path, Now, Processing, Hostname, Failure,
                        \* the event's path, the time of processing and its
                        \* marker, the host name, an error message
    Static,             \* the fields of the static enricher
    IndexField(_),      \* field_i
    Fold(_),            \* strings.EqualFold compares these
    IsTime(_), Utc(_),  \* a string some layout parses; the time it names
    Runes(_), Raw(_),   \* its runes and its bytes
    JsonBytes(_), CutBytes(_, _, _),
    Lines,              \* events: [text, parts, matches, groups]
    Setups              \* configurations of the record's path

\* Field names the code itself writes.
Reserved == {"_raw", "_path", "_error", "hostname", "timestamp", "timestamp_raw", "timestamp_source"}

IsRecord(r) == DOMAIN r \subseteq Fields /\ \A f \in DOMAIN r : r[f] \in Values

\* The rules and filters that Config!validateFilter accepts.
Missing == {"", "drop", "pass"}
Matches == {"", "all", "any"}
FieldRules == [type : {"field"}, field : Fields, op : {"eq", "neq", "in", "not_in"},
               values : SUBSET Values, ignoreCase : BOOLEAN, onMissing : Missing]
CompoundRules == [type : {"compound"}, match : Matches, rules : SUBSET FieldRules]
FilterConfigs == [match : Matches, onMissing : Missing, rules : SUBSET (FieldRules \cup CompoundRules)]

ASSUME NamesAssumption ==
    /\ Reserved \subseteq Fields
    /\ {Empty, Path, Now, Processing, Hostname, Failure} \subseteq Values
    /\ IsRecord(Static)
    /\ \A l \in Lines : \A i \in 0 .. Len(l.parts) - 1 : IndexField(i) \in Fields
ASSUME ValueAssumption ==
    /\ \A v \in Values : Runes(v) \in Nat /\ Raw(v) \in Nat /\ Utc(v) \in Values
    /\ ~IsTime(Empty)
ASSUME LineAssumption ==
    \A l \in Lines : l.text \in Values /\ l.parts \in Seq(Values) /\ IsRecord(l.groups)
ASSUME SetupAssumption ==
    Setups \subseteq [transform : {"delimiter", "regex"}, columns : Seq(Fields),
                      onError : {"skip", "wrap"}, stamp : Fields \cup {""}, filter : FilterConfigs,
                      enrichers : Seq({"host", "static"}), maxBytes : Nat, primary : Fields]

VARIABLES
    cfg,        \* the configuration, chosen once
    line,       \* the event
    pc,         \* the stage of process
    rec,        \* the record
    chain,      \* the enrichers still to apply
    todo,       \* the fields marshalPublishPayload may still cut
    low, high,  \* the interval of the binary search
    best,       \* the runes of the best payload so far, -1 for none
    out         \* what process came to: [kind, field, keep]

vars == <<cfg, line, pc, rec, chain, todo, low, high, best, out>>
search == <<todo, low, high, best>>

\* The record with field f set to v, and with every field of s set.
Put(r, f, v) == [g \in DOMAIN r \cup {f} |-> IF g = f THEN v ELSE r[g]]
PutAll(r, s) == [g \in DOMAIN r \cup DOMAIN s |-> IF g \in DOMAIN s THEN s[g] ELSE r[g]]

NoRecord == [f \in {} |-> Empty]
None == [kind |-> "none", field |-> "", keep |-> 0]
\* process returns with the watermark set and nothing to publish, or an error.
Commit == [kind |-> "commit", field |-> "", keep |-> 0]
Error == [kind |-> "error", field |-> "", keep |-> 0]
\* A payload: the whole record, or the record with one field cut.
Whole == [kind |-> "whole", field |-> "", keep |-> 0]
Cut(f, k) == [kind |-> "cut", field |-> f, keep |-> k]

Init ==
    /\ cfg \in Setups
    /\ line \in Lines
    /\ pc = "transform"
    /\ rec = NoRecord
    /\ chain = cfg.enrichers
    /\ todo = <<>> /\ low = 0 /\ high = 0 /\ best = -1
    /\ out = None

-----------------------------------------------------------------------------
(* Transform *)

\* The name of part i, counted from 0.
PartName(cols, i) ==
    IF i < Len(cols) THEN cols[i + 1] ELSE IndexField(i)

\* The delimiter transformer: named columns first, the rest by position; of
\* two parts with the same name the later one stays. A blank line is an error.
DelimiterTransform(l, cols) ==
    LET part == 0 .. Len(l.parts) - 1
        last(f) == CHOOSE i \in part :
                        /\ PartName(cols, i) = f
                        /\ \A j \in part : PartName(cols, j) = f => j <= i
    IN  [f \in {PartName(cols, i) : i \in part} |-> l.parts[last(f) + 1]]

TransformFails(l, type) ==
    \/ type = "regex" /\ ~l.matches
    \/ type = "delimiter" /\ l.parts = <<>>

\* The regex transformer: the named groups of a line that matches.
RegexTransform(l) == l.groups

Transformed(l) == IF cfg.transform = "regex" THEN RegexTransform(l)
                  ELSE DelimiterTransform(l, cfg.columns)

\* A line that cannot be transformed is wrapped or skipped; _path is set last.
Transform ==
    /\ pc = "transform"
    /\ LET fails == TransformFails(line, cfg.transform)
       IN  \/ /\ fails /\ cfg.onError = "skip"
              /\ pc' = "done"
              /\ out' = Commit
              /\ UNCHANGED rec
           \/ /\ fails /\ cfg.onError = "wrap"
              /\ rec' = Put(Put(Put(NoRecord, "_raw", line.text), "_error", Failure), "_path", Path)
              /\ pc' = "normalize"
              /\ UNCHANGED out
           \/ /\ ~fails
              /\ rec' = Put(Transformed(line), "_path", Path)
              /\ pc' = "normalize"
              /\ UNCHANGED out
    /\ UNCHANGED <<cfg, line, chain, search>>

-----------------------------------------------------------------------------
(* Normalizer.Normalize *)

\* applyFallback: the processing time, with the original text beside it.
ApplyFallback(r, f, original) ==
    LET stamped == Put(r, f, Now)
        kept == IF original = Empty THEN stamped ELSE Put(stamped, "timestamp_raw", original)
    IN  Put(kept, "timestamp_source", Processing)

Normalized(r, f) ==
    IF f \notin DOMAIN r THEN ApplyFallback(r, f, Empty)
    ELSE IF ~IsTime(r[f]) THEN ApplyFallback(r, f, r[f])
    ELSE Put(r, f, Utc(r[f]))

Normalize ==
    /\ pc = "normalize"
    /\ rec' = IF cfg.stamp = "" THEN rec ELSE Normalized(rec, cfg.stamp)
    /\ pc' = "filter"
    /\ UNCHANGED <<cfg, line, chain, search, out>>

-----------------------------------------------------------------------------
(* filter.New and Predicate.Match *)

\* A rule without an on_missing of its own passes what lacks the field.
LenientFieldMatch(rule, onMissing, r) ==
    LET equal(v, w) == IF rule.ignoreCase THEN Fold(v) = Fold(w) ELSE v = w
        found == \E v \in rule.values : equal(r[rule.field], v)
    IN  IF rule.field \notin DOMAIN r THEN rule.onMissing # "drop"
        ELSE IF rule.op \in {"eq", "in"} THEN found ELSE ~found

\* fieldPredicate.Match with the on_missing of the rule or of the filter.
FieldMatch(rule, onMissing, r) ==
    LET default == IF onMissing = "" THEN "drop" ELSE onMissing
        missing == IF rule.onMissing = "" THEN default ELSE rule.onMissing
        equal(v, w) == IF rule.ignoreCase THEN Fold(v) = Fold(w) ELSE v = w
        found == \E v \in rule.values : equal(r[rule.field], v)
    IN  IF rule.field \notin DOMAIN r THEN missing = "pass"
        ELSE IF rule.op \in {"eq", "in"} THEN found ELSE ~found

\* compoundPredicate.Match, of field rules.
CompoundMatch(match, rules, onMissing, r) ==
    IF match = "any"
    THEN \E rule \in rules : FieldMatch(rule, onMissing, r)
    ELSE \A rule \in rules : FieldMatch(rule, onMissing, r)

\* A rule of the filter: a field rule, or a compound of field rules.
RuleMatch(rule, onMissing, r) ==
    IF rule.type = "field" THEN FieldMatch(rule, onMissing, r)
    ELSE CompoundMatch(rule.match, rule.rules, onMissing, r)

\* An empty filter passes everything.
Match(filter, r) ==
    \/ filter.rules = {}
    \/ IF filter.match = "any"
       THEN \E rule \in filter.rules : RuleMatch(rule, filter.onMissing, r)
       ELSE \A rule \in filter.rules : RuleMatch(rule, filter.onMissing, r)

\* A filtered record only moves the watermark.
Filter ==
    /\ pc = "filter"
    /\ \/ /\ Match(cfg.filter, rec)
          /\ pc' = "enrich"
          /\ UNCHANGED out
       \/ /\ ~Match(cfg.filter, rec)
          /\ pc' = "done"
          /\ out' = Commit
    /\ UNCHANGED <<cfg, line, rec, chain, search>>

-----------------------------------------------------------------------------
(* enrich.Apply *)

HostEnricher(r) == Put(r, "hostname", Hostname)
StaticEnricher(r) == PutAll(r, Static)

\* The enrichers in the order of the configuration; each overwrites the fields
\* that it sets.
Enrich ==
    /\ pc = "enrich"
    /\ \/ /\ chain # <<>>
          /\ rec' = IF Head(chain) = "host" THEN HostEnricher(rec) ELSE StaticEnricher(rec)
          /\ chain' = Tail(chain)
          /\ UNCHANGED pc
       \/ /\ chain = <<>>
          /\ pc' = "marshal"
          /\ UNCHANGED <<rec, chain>>
    /\ UNCHANGED <<cfg, line, search, out>>

-----------------------------------------------------------------------------
(* marshalPublishPayload *)

\* largestStringField: one of the longest strings outside skip, in bytes; the
\* order of the map decides among equals. None if they are all empty.
LargestStringFields(r, skip) ==
    {f \in DOMAIN r \ skip : /\ Raw(r[f]) > 0
                             /\ \A g \in DOMAIN r \ skip : Raw(r[g]) <= Raw(r[f])}

\* The longest field goes first.
LargestFirst(r, primary) ==
    LET largest == LargestStringFields(r, {})
    IN  IF largest = {} THEN {<<primary>>} ELSE {<<f, primary>> : f \in largest}

\* The fields to cut, in the order they are tried.
CutOrders(r, primary) ==
    LET raws == IF "_raw" \in DOMAIN r /\ primary # "_raw" THEN <<"_raw">> ELSE <<>>
        first == <<primary>> \o raws
        largest == LargestStringFields(r, {primary, "_raw"})
    IN  IF largest = {} THEN {first} ELSE {Append(first, f) : f \in largest}

Marshal ==
    /\ pc = "marshal"
    /\ \/ /\ cfg.maxBytes = 0 \/ JsonBytes(rec) <= cfg.maxBytes
          /\ out' = Whole
          /\ pc' = "done"
          /\ UNCHANGED todo
       \/ /\ cfg.maxBytes > 0 /\ JsonBytes(rec) > cfg.maxBytes
          /\ todo' \in CutOrders(rec, cfg.primary)
          /\ pc' = "next"
          /\ UNCHANGED out
    /\ UNCHANGED <<cfg, line, rec, chain, low, high, best>>

\* truncateStringField enters its search.
StartSearch(f) ==
    /\ low' = 0 /\ high' = Runes(rec[f]) /\ best' = -1
    /\ pc' = "search"

\* The next field to cut: fields the record lacks are passed over; when none
\* is left process returns an error.
NextField ==
    /\ pc = "next"
    /\ \/ /\ todo = <<>>
          /\ out' = Error
          /\ pc' = "done"
          /\ UNCHANGED search
       \/ /\ todo # <<>> /\ Head(todo) \notin DOMAIN rec
          /\ todo' = Tail(todo)
          /\ UNCHANGED <<pc, low, high, best, out>>
       \/ /\ todo # <<>> /\ Head(todo) \in DOMAIN rec
          /\ StartSearch(Head(todo))
          /\ UNCHANGED <<todo, out>>
    /\ UNCHANGED <<cfg, line, rec, chain>>

\* A payload may exceed the limit by a byte.
LooselyFits(f, k) == CutBytes(rec, f, k) <= cfg.maxBytes + 1

\* The record with f cut to k runes and the suffix is not too long.
Fits(f, k) == CutBytes(rec, f, k) <= cfg.maxBytes

\* A search that does not move past the middle.
StandingSearchStep ==
    /\ pc = "search" /\ low <= high
    /\ LET mid == (low + high) \div 2
       IN  IF Fits(Head(todo), mid)
           THEN best' = mid /\ low' = mid /\ UNCHANGED high
           ELSE high' = mid - 1 /\ UNCHANGED <<best, low>>
    /\ UNCHANGED <<cfg, line, pc, rec, chain, todo, out>>

\* A search that is content with the first prefix that fits.
ContentSearchStep ==
    /\ pc = "search" /\ low <= high
    /\ LET mid == (low + high) \div 2
       IN  IF Fits(Head(todo), mid)
           THEN best' = mid /\ low' = high + 1 /\ UNCHANGED high
           ELSE high' = mid - 1 /\ UNCHANGED <<best, low>>
    /\ UNCHANGED <<cfg, line, pc, rec, chain, todo, out>>

\* One turn of the binary search.
SearchStep ==
    /\ pc = "search" /\ low <= high
    /\ LET mid == (low + high) \div 2
       IN  IF Fits(Head(todo), mid)
           THEN best' = mid /\ low' = mid + 1 /\ UNCHANGED high
           ELSE high' = mid - 1 /\ UNCHANGED <<best, low>>
    /\ UNCHANGED <<cfg, line, pc, rec, chain, todo, out>>

\* The search is over: the best payload; else the suffix alone is tried once
\* more; else the next field.
SearchEnd ==
    /\ pc = "search" /\ low > high
    /\ LET keep == IF best >= 0 THEN best ELSE 0
       IN  \/ /\ best >= 0 \/ Fits(Head(todo), keep)
              /\ out' = Cut(Head(todo), keep)
              /\ pc' = "done"
              /\ UNCHANGED todo
           \/ /\ ~(best >= 0 \/ Fits(Head(todo), keep))
              /\ todo' = Tail(todo)
              /\ pc' = "next"
              /\ UNCHANGED out
    /\ UNCHANGED <<cfg, line, rec, chain, low, high, best>>

Next == Transform \/ Normalize \/ Filter \/ Enrich \/ Marshal \/ NextField \/ SearchStep \/ SearchEnd

Spec == Init /\ [][Next]_vars
FairSpec == Spec /\ WF_vars(Next)
-----------------------------------------------------------------------------
Stages == {"transform", "normalize", "filter", "enrich", "marshal", "next", "search", "done"}
SearchType == low \in Nat /\ high \in Nat \cup {-1} /\ best \in Nat \cup {-1}
OutType == /\ out.kind \in {"none", "commit", "error", "whole", "cut"}
           /\ out.field \in Fields \cup {""} /\ out.keep \in Nat

\* Types of the record, of the search and of what process came to.
TypeOK ==
    /\ cfg \in Setups /\ line \in Lines /\ pc \in Stages
    /\ IsRecord(rec)
    /\ chain \in Seq({"host", "static"})
    /\ todo \in Seq(Fields)
    /\ SearchType
    /\ OutType

\* No payload is longer than max_publish_bytes, whatever the encoder makes of
\* the text: the limit holds for what is published, not for what was read
\* (truncate.go:13-98).
PayloadFits ==
    cfg.maxBytes > 0 =>
        /\ out.kind = "whole" => JsonBytes(rec) <= cfg.maxBytes
        /\ out.kind = "cut" => CutBytes(rec, out.field, out.keep) <= cfg.maxBytes

\* A cut keeps as much of the text as fits: the binary search over runes ends
\* at the longest prefix, although a rune takes one to six bytes in the
\* payload (truncate.go:62-81).
CutIsLongest ==
    out.kind = "cut" =>
        \A k \in 0 .. Runes(rec[out.field]) : k > out.keep => ~(CutBytes(rec, out.field, k) <= cfg.maxBytes)

\* The field could be cut so far that the record fits.
CanCut(f) == f \in DOMAIN rec /\ CutBytes(rec, f, 0) <= cfg.maxBytes

\* The configured field is cut if that can help, then _raw, and another field
\* only if neither can; process returns an error, which ends Run, only if no
\* field it would cut can help (truncate.go:22-46).
CutInOrder ==
    /\ out.kind = "cut" /\ out.field # cfg.primary => ~CanCut(cfg.primary)
    /\ out.kind = "cut" /\ out.field \notin {cfg.primary, "_raw"} => ~CanCut("_raw")
    /\ out.kind = "error" => /\ ~CanCut(cfg.primary) /\ ~CanCut("_raw")
                             /\ LET largest == LargestStringFields(rec, {cfg.primary, "_raw"})
                                IN  largest = {} \/ \E f \in largest : ~CanCut(f)

\* The rule, and the filter, that decide the opposite: every comparison
\* negated, all for any, pass for drop.
OppositeMissing(m) == CASE m = "drop" -> "pass" [] m = "pass" -> "drop" [] OTHER -> ""
OppositeMatch(m) == IF m = "any" THEN "all" ELSE "any"
OppositeField(rule) ==
    [rule EXCEPT !.op = CASE @ = "eq" -> "neq" [] @ = "neq" -> "eq" [] @ = "in" -> "not_in" [] OTHER -> "in",
                 !.onMissing = OppositeMissing(@)]
OppositeRule(rule) ==
    IF rule.type = "field" THEN OppositeField(rule)
    ELSE [rule EXCEPT !.match = OppositeMatch(@), !.rules = {OppositeField(q) : q \in @}]
Opposite(filter) ==
    [match |-> OppositeMatch(filter.match),
     onMissing |-> IF filter.onMissing = "pass" THEN "drop" ELSE "pass",
     rules |-> {OppositeRule(q) : q \in filter.rules}]

\* A filter and its opposite never agree on a record: what decides is the
\* rules as they are nested, with the filter's on_missing, or drop, for every
\* rule that has none (filter.go:30-77, field.go:23-64).
FilterIsDual ==
    pc = "filter" /\ cfg.filter.rules # {} => (Match(cfg.filter, rec) <=> ~Match(Opposite(cfg.filter), rec))

\* process returns: the search ends for every text and every limit.
ProcessReturns == <>(pc = "done")
=============================================================================
