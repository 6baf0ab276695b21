------------------------------ MODULE MCRecord ------------------------------
(* Record with a handful of strings whose runes take one, three or six      *)
(* bytes in the payload.                                                    *)
EXTENDS Record, FiniteSetsExt, Functions, TLC

MCFields == Reserved \cup {"message", "level", "field_0", "field_1", "field_2"}

\* name |-> <<fold, bytes of each rune, bytes of each rune in the payload>>
Strings ==
    [empty  |-> <<"empty",  <<>>,            <<>>>>,
     info   |-> <<"info",   <<1>>,           <<1>>>>,
     INFO   |-> <<"info",   <<1>>,           <<1>>>>,
     plain  |-> <<"plain",  <<1, 1, 1, 1, 1>>, <<1, 1, 1, 1, 1>>>>,
     wide   |-> <<"wide",   <<3, 1, 3>>,     <<3, 1, 3>>>>,
     quotes |-> <<"quotes", <<1, 1, 1>>,     <<2, 6, 2>>>>,
     time   |-> <<"time",   <<1>>,           <<1>>>>,
     now    |-> <<"now",    <<1>>,           <<1>>>>,
     host   |-> <<"host",   <<1>>,           <<1>>>>]
MCValues == DOMAIN Strings

Total(s) == FoldFunction(LAMBDA a, b : a + b, 0, s)
Encoded(v, k) == Total(SubSeq(Strings[v][3], 1, k))
MCFold(v) == Strings[v][1]
MCRunes(v) == Len(Strings[v][2])
MCRaw(v) == Total(Strings[v][2])
MCIsTime(v) == v = "time"
MCUtc(v) == "now"
MCIndexField(i) == CASE i = 0 -> "field_0" [] i = 1 -> "field_1" [] OTHER -> "field_2"

\* Braces, and for each field its name and its text; the suffix and the
\* metadata of a cut are three bytes.
MCJsonBytes(r) == 2 + FoldSet(LAMBDA f, n : n + 1 + Encoded(r[f], MCRunes(r[f])), 0, DOMAIN r)
MCCutBytes(r, f, k) == MCJsonBytes(r) - Encoded(r[f], MCRunes(r[f])) + Encoded(r[f], k) + 3

MCStatic == ("hostname" :> "wide") @@ ("level" :> "INFO") @@ ("message" :> "plain")

\* Lines of up to three parts; the regular expression names two groups.
Texts == {"empty", "info", "plain", "wide", "quotes", "time"}
MCLines ==
    {[text |-> "quotes", parts |-> p, matches |-> TRUE,
      groups |-> ("timestamp" :> p[1]) @@ ("message" :> p[2])] : p \in Texts \X Texts}
    \cup {[text |-> t, parts |-> <<>>, matches |-> FALSE, groups |-> NoRecord] : t \in Texts}
    \cup {[text |-> "wide", parts |-> p, matches |-> TRUE,
           groups |-> ("message" :> p[3])] : p \in {"info", "time"} \X {"INFO", "plain"} \X Texts}

Rule(f, op, vs, fold, missing) ==
    [type |-> "field", field |-> f, op |-> op, values |-> vs, ignoreCase |-> fold, onMissing |-> missing]
NoFilter == [match |-> "", onMissing |-> "", rules |-> {}]
Filters ==
    {NoFilter}
    \cup [match : {"all", "any"}, onMissing : {"", "pass"},
          rules : {{Rule("level", "eq", {"info"}, TRUE, "")},
                   {Rule("level", "not_in", {"INFO", "plain"}, FALSE, ""),
                    [type |-> "compound", match |-> "any",
                     rules |-> {Rule("message", "neq", {"plain"}, FALSE, "drop"),
                                Rule("hostname", "in", {"host"}, FALSE, "")}]}}]

\* The filter and the limit do not meet: each is varied with the other off.
Shapes ==
    [transform : {"delimiter"}, columns : {<<>>, <<"level", "message">>, <<"timestamp", "level">>}]
    \cup [transform : {"regex"}, columns : {<<>>}]
MCSetups ==
    {s @@ c : s \in Shapes, c \in
        [onError : {"skip", "wrap"}, stamp : {"", "timestamp", "level"}, filter : Filters,
         enrichers : {<<>>}, maxBytes : {0}, primary : {"message"}]
        \cup
        [onError : {"wrap"}, stamp : {"", "timestamp"}, filter : {NoFilter},
         enrichers : {<<"host">>, <<"static", "host">>}, maxBytes : {12, 14, 15, 17, 20}, primary : {"message", "_raw"}]}
=============================================================================
