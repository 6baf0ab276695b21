---------------------------- MODULE RecordProofs ----------------------------
(* Proofs about Record, for every set of strings, fields, filters, lines and *)
(* limits, and for every encoder.                                            *)
EXTENDS Record, SequenceTheorems, WellFoundedInduction, TLAPS

-----------------------------------------------------------------------------
(* Records.                                                                  *)

\* Put keeps a record a record.
LEMMA PutIsRecord ==
    ASSUME NEW r, IsRecord(r), NEW f \in Fields, NEW v \in Values
    PROVE  IsRecord(Put(r, f, v))
BY DEF IsRecord, Put

\* So does PutAll.
LEMMA PutAllIsRecord ==
    ASSUME NEW r, IsRecord(r), NEW s, IsRecord(s)
    PROVE  IsRecord(PutAll(r, s))
BY DEF IsRecord, PutAll

\* A set of naturals that is not empty has a least element.
LEMMA Least ==
    ASSUME NEW T, T \subseteq Nat, T # {}
    PROVE  \E x \in T : \A y \in T : x <= y
<1>1. PICK x \in T : \A y \in T : <<y, x>> \notin OpToRel(<, Nat)
  BY WFMin, NatLessThanWellFounded
<1>2. \A y \in T : ~(y < x)
  BY <1>1 DEF OpToRel
<1> QED BY <1>2

\* A set of indices that is not empty has a last one.
LEMMA Greatest ==
    ASSUME NEW n \in Nat, NEW P, P \subseteq 0 .. n - 1, P # {}
    PROVE  \E i \in P : \A j \in P : j <= i
<1> DEFINE T == {n - i : i \in P}
<1>1. T \subseteq Nat /\ T # {}
  OBVIOUS
<1>2. PICK x \in T : \A y \in T : x <= y
  <2> HIDE DEF T
  <2> QED BY <1>1, Least
<1>3. PICK i \in P : x = n - i
  OBVIOUS
<1>4. \A j \in P : n - j \in T
  OBVIOUS
<1>5. \A j \in P : n - i <= n - j
  BY <1>2, <1>3, <1>4
<1> QED BY <1>5

\* Every name that a part carries is carried by a last part.
LEMMA DelimiterIsRecord ==
    ASSUME NEW l \in Lines, NEW cols \in Seq(Fields)
    PROVE  IsRecord(DelimiterTransform(l, cols))
<1> DEFINE part == 0 .. Len(l.parts) - 1
           Last(f) == CHOOSE i \in part : /\ PartName(cols, i) = f
                                          /\ \A j \in part : PartName(cols, j) = f => j <= i
           Names == {PartName(cols, i) : i \in part}
<1>1. l.parts \in Seq(Values) /\ Len(l.parts) \in Nat
  BY LineAssumption
<1>2. \A i \in part : PartName(cols, i) \in Fields
  BY <1>1, NamesAssumption DEF PartName
<1>3. ASSUME NEW f \in Names
      PROVE  Last(f) \in part
  <2> DEFINE P == {j \in part : PartName(cols, j) = f}
  <2>1. P \subseteq 0 .. Len(l.parts) - 1 /\ P # {}
    OBVIOUS
  <2>2. PICK i \in P : \A j \in P : j <= i
    <3> HIDE DEF P
    <3> QED BY <1>1, <2>1, Greatest
  <2>3. i \in part /\ PartName(cols, i) = f /\ \A j \in part : PartName(cols, j) = f => j <= i
    BY <2>2
  <2> HIDE DEF part, P
  <2> QED BY <2>3
<1>4. \A f \in Names : Last(f) + 1 \in 1 .. Len(l.parts)
  <2> HIDE DEF Last, Names
  <2> QED BY <1>1, <1>3
<1>5. \A f \in Names : l.parts[Last(f) + 1] \in Values
  <2> HIDE DEF Last, Names
  <2> QED BY <1>1, <1>4
<1>6. DelimiterTransform(l, cols) = [f \in Names |-> l.parts[Last(f) + 1]]
  BY DEF DelimiterTransform
<1>7. Names \subseteq Fields
  BY <1>2
<1> HIDE DEF Names, Last, part
<1> QED BY <1>5, <1>6, <1>7 DEF IsRecord

\* Either transformer gives a record.
LEMMA TransformedIsRecord ==
    ASSUME cfg \in Setups, line \in Lines PROVE IsRecord(Transformed(line))
<1>1. cfg.columns \in Seq(Fields)
  BY SetupAssumption
<1> QED BY <1>1, DelimiterIsRecord, LineAssumption DEF Transformed, RegexTransform

\* Normalisation of a field gives a record, with or without the fallback.
LEMMA NormalizedIsRecord ==
    ASSUME NEW r, IsRecord(r), NEW f \in Fields PROVE IsRecord(Normalized(r, f))
<1>1. "timestamp_raw" \in Fields /\ "timestamp_source" \in Fields /\ Now \in Values /\ Processing \in Values /\ Empty \in Values
  BY NamesAssumption DEF Reserved
<1>2. ASSUME NEW v \in Values PROVE IsRecord(ApplyFallback(r, f, v))
  BY <1>1, PutIsRecord DEF ApplyFallback
<1>3. f \in DOMAIN r => r[f] \in Values /\ Utc(r[f]) \in Values
  BY ValueAssumption DEF IsRecord
<1> QED BY <1>1, <1>2, <1>3, PutIsRecord DEF Normalized

-----------------------------------------------------------------------------
(* The search of truncateStringField.                                        *)

\* What is known of a binary search over the runes of f: it has tried the last
\* prefix below low, which fits, and the first one above high, which does not.
SearchAt(f) ==
    /\ f \in DOMAIN rec
    /\ low <= high + 1 /\ high <= Runes(rec[f]) /\ best = low - 1
    /\ best >= 0 => Fits(f, best)
    /\ high < Runes(rec[f]) => ~Fits(f, high + 1)

SearchInv == pc = "search" => todo # <<>> /\ SearchAt(Head(todo))

\* What process has come to: nothing before it is done; a payload that fits,
\* and of a cut one rune more would not.
OutInv ==
    /\ pc # "done" => out = None
    /\ out.kind = "whole" => cfg.maxBytes = 0 \/ JsonBytes(rec) <= cfg.maxBytes
    /\ out.kind = "cut" =>
           /\ out.field \in DOMAIN rec
           /\ Fits(out.field, out.keep)
           /\ out.keep < Runes(rec[out.field]) => ~Fits(out.field, out.keep + 1)

Inv == TypeOK /\ SearchInv /\ OutInv

\* The fields of the outcomes that carry no field of the record.
LEMMA Outcomes ==
    /\ None.kind = "none" /\ None.field = "" /\ None.keep = 0
    /\ Commit.kind = "commit" /\ Commit.field = "" /\ Commit.keep = 0
    /\ Error.kind = "error" /\ Error.field = "" /\ Error.keep = 0
    /\ Whole.kind = "whole" /\ Whole.field = "" /\ Whole.keep = 0
BY DEF None, Commit, Error, Whole

\* They are well typed.
LEMMA PlainOutType ==
    ASSUME out = None \/ out = Commit \/ out = Error \/ out = Whole
    PROVE  OutType
<1>1. out.kind = "none" \/ out.kind = "commit" \/ out.kind = "error" \/ out.kind = "whole"
  BY Outcomes
<1>2. out.field = ""
  BY Outcomes
<1>3. out.keep = 0
  BY Outcomes
<1>4. out.keep \in Nat
  BY <1>3
<1> QED BY <1>1, <1>2, <1>4 DEF OutType

\* The same of the next state.
LEMMA PlainOutTypeNext ==
    ASSUME out' = None \/ out' = Commit \/ out' = Error \/ out' = Whole
    PROVE  OutType'
<1>1. out'.kind = "none" \/ out'.kind = "commit" \/ out'.kind = "error" \/ out'.kind = "whole"
  BY Outcomes
<1>2. out'.field = ""
  BY Outcomes
<1>3. out'.keep = 0
  BY Outcomes
<1>4. out'.keep \in Nat
  BY <1>3
<1> QED BY <1>1, <1>2, <1>4 DEF OutType

\* A cut is well typed.
LEMMA CutOutTypeNext ==
    ASSUME NEW f \in Fields, NEW k \in Nat, out'.kind = "cut", out'.field = f, out'.keep = k
    PROVE  OutType'
BY DEF OutType

\* Nothing has come out yet when process begins.
LEMMA InitInv == Init => Inv
<1> SUFFICES ASSUME Init PROVE Inv
  OBVIOUS
<1>1. cfg.enrichers \in Seq({"host", "static"})
  BY SetupAssumption DEF Init
<1>2. IsRecord(NoRecord)
  BY DEF IsRecord, NoRecord
<1>3. SearchType /\ todo \in Seq(Fields)
  BY DEF Init, SearchType
<1>5. OutType
  BY PlainOutType DEF Init
<1>6. OutInv
  BY Outcomes DEF Init, OutInv
<1>4. TypeOK
  BY <1>1, <1>2, <1>3, <1>5 DEF Init, TypeOK, Stages
<1> QED BY <1>4, <1>6 DEF Init, Inv, SearchInv

\* The stages before the payload touch neither the search nor the outcome,
\* unless they end with it.
LEMMA StageInv ==
    ASSUME Inv, pc \in {"transform", "normalize", "filter", "enrich"},
           IsRecord(rec'), chain' \in Seq({"host", "static"}), UNCHANGED <<cfg, line, search>>,
           \/ pc' \in {"normalize", "filter", "enrich", "marshal"} /\ UNCHANGED out
           \/ pc' = "done" /\ out' = Commit
    PROVE  Inv'
<1>1. out' = None \/ (out' = Commit /\ pc' = "done")
  BY DEF Inv, OutInv
<1>2. OutType'
  BY <1>1, PlainOutTypeNext
<1>5. OutInv'
  BY <1>1, Outcomes DEF OutInv
<1>3. SearchType' /\ todo' \in Seq(Fields)
  BY DEF Inv, TypeOK, SearchType, search
<1>4. TypeOK'
  BY <1>2, <1>3 DEF Inv, TypeOK, Stages
<1> QED BY <1>4, <1>5 DEF Inv, SearchInv

\* The record begins as what the transformer made, or as the wrapped line.
LEMMA TransformInv == ASSUME Inv, Transform PROVE Inv'
<1>1. cfg \in Setups /\ line \in Lines /\ line.text \in Values
  BY LineAssumption DEF Inv, TypeOK
<1>2. {"_raw", "_path", "_error"} \subseteq Fields /\ Path \in Values /\ Failure \in Values
  BY NamesAssumption DEF Reserved
<1>3. IsRecord(Put(Transformed(line), "_path", Path))
  BY <1>1, <1>2, TransformedIsRecord, PutIsRecord
<1>4. IsRecord(NoRecord)
  BY DEF IsRecord, NoRecord
<1>5. IsRecord(Put(Put(Put(NoRecord, "_raw", line.text), "_error", Failure), "_path", Path))
  BY <1>1, <1>2, <1>4, PutIsRecord
<1>6. IsRecord(rec')
  BY <1>3, <1>5 DEF Transform, Inv, TypeOK
<1>7. /\ pc = "transform" /\ UNCHANGED <<cfg, line, chain, search>>
      /\ \/ pc' = "normalize" /\ UNCHANGED out
         \/ pc' = "done" /\ out' = Commit
  BY DEF Transform
<1>8. chain' \in Seq({"host", "static"})
  BY <1>7 DEF Inv, TypeOK
<1> QED BY <1>6, <1>7, <1>8, StageInv

\* Normalize changes the record only.
LEMMA NormalizeInv == ASSUME Inv, Normalize PROVE Inv'
<1>1. cfg.stamp \in Fields \cup {""}
  BY SetupAssumption DEF Inv, TypeOK
<1>2. IsRecord(rec')
  BY <1>1, NormalizedIsRecord DEF Normalize, Inv, TypeOK
<1>3. chain' \in Seq({"host", "static"})
  BY DEF Normalize, Inv, TypeOK
<1> QED BY <1>2, <1>3, StageInv DEF Normalize

\* Filter changes nothing but the stage, and commits what it drops.
LEMMA FilterInv == ASSUME Inv, Filter PROVE Inv'
<1>1. IsRecord(rec') /\ chain' \in Seq({"host", "static"})
  BY DEF Filter, Inv, TypeOK
<1> QED BY <1>1, StageInv DEF Filter

\* Each enricher keeps the record a record and shortens the chain.
LEMMA EnrichInv == ASSUME Inv, Enrich PROVE Inv'
<1>1. chain' \in Seq({"host", "static"})
  BY HeadTailProperties DEF Enrich, Inv, TypeOK
<1>2. IsRecord(HostEnricher(rec)) /\ IsRecord(StaticEnricher(rec))
  BY NamesAssumption, PutIsRecord, PutAllIsRecord
     DEF HostEnricher, StaticEnricher, Reserved, Inv, TypeOK
<1>3. IsRecord(rec')
  BY <1>2 DEF Enrich, Inv, TypeOK
<1>4. /\ pc = "enrich" /\ UNCHANGED <<cfg, line, search, out>>
      /\ pc' \in {"enrich", "marshal"}
  BY DEF Enrich
<1> QED BY <1>1, <1>3, <1>4, StageInv

\* The order of the cuts is a sequence of fields.
LEMMA CutOrdersType ==
    ASSUME NEW r, IsRecord(r), NEW f \in Fields, NEW s \in CutOrders(r, f)
    PROVE  s \in Seq(Fields)
<1> DEFINE raws == IF "_raw" \in DOMAIN r /\ f # "_raw" THEN <<"_raw">> ELSE <<>>
<1>1. raws \in Seq(Fields) /\ <<f>> \in Seq(Fields)
  BY NamesAssumption DEF Reserved
<1>2. <<f>> \o raws \in Seq(Fields)
  <2> HIDE DEF raws
  <2> QED BY <1>1
<1>3. \A g \in LargestStringFields(r, {f, "_raw"}) : g \in Fields
  BY DEF LargestStringFields, IsRecord
<1>4. \/ s = <<f>> \o raws
      \/ \E g \in LargestStringFields(r, {f, "_raw"}) : s = Append(<<f>> \o raws, g)
  BY DEF CutOrders
<1> DEFINE first == <<f>> \o raws
<1> HIDE DEF raws, first
<1>5. first \in Seq(Fields) /\ \A g \in Fields : Append(first, g) \in Seq(Fields)
  <2>1. first \in Seq(Fields)
    BY <1>2 DEF first
  <2> QED BY <2>1, AppendProperties
<1> QED BY <1>3, <1>4, <1>5 DEF first

\* Marshal publishes a whole record only if it fits.
LEMMA MarshalInv == ASSUME Inv, Marshal PROVE Inv'
<1>1. todo' \in Seq(Fields)
  BY CutOrdersType, SetupAssumption DEF Marshal, Inv, TypeOK
<1>2. (out' = None /\ pc' = "next") \/ (out' = Whole /\ pc' = "done")
  BY DEF Inv, OutInv, Marshal
<1>3. OutType'
  BY <1>2, PlainOutTypeNext
<1>4. OutInv'
  <2>1. out' = Whole => cfg.maxBytes = 0 \/ JsonBytes(rec) <= cfg.maxBytes
    BY Outcomes DEF Marshal, Inv, OutInv
  <2> QED BY <1>2, <2>1, Outcomes DEF Marshal, OutInv
<1>5. SearchType'
  BY DEF Inv, TypeOK, Marshal, SearchType
<1>6. TypeOK'
  BY <1>1, <1>2, <1>3, <1>5 DEF Inv, TypeOK, Stages, Marshal
<1> QED BY <1>2, <1>4, <1>6 DEF Inv, SearchInv

\* A search starts with nothing known of its interval.
LEMMA NextFieldInv == ASSUME Inv, NextField PROVE Inv'
<1>0. UNCHANGED <<cfg, line, rec, chain>> /\ pc = "next" /\ out = None
  BY DEF Inv, OutInv, NextField
<1>1. CASE out' = Error /\ pc' = "done" /\ UNCHANGED search
  <2>1. OutType'
    BY <1>1, PlainOutTypeNext
  <2>3. OutInv'
    BY <1>1, Outcomes DEF OutInv
  <2>2. SearchType' /\ todo' \in Seq(Fields)
    BY <1>1 DEF Inv, TypeOK, SearchType, search
  <2> QED BY <1>0, <1>1, <2>1, <2>2, <2>3 DEF Inv, TypeOK, Stages, SearchInv
<1>2. CASE todo # <<>> /\ todo' = Tail(todo) /\ UNCHANGED <<pc, low, high, best, out>>
  <2>1. todo' \in Seq(Fields)
    BY <1>2, HeadTailProperties DEF Inv, TypeOK
  <2>2. OutInv' /\ SearchType'
    BY <1>0, <1>2, Outcomes DEF Inv, TypeOK, OutInv, SearchType
  <2>3. OutType'
    BY <1>0, <1>2, PlainOutTypeNext
  <2> QED BY <1>0, <1>2, <2>1, <2>2, <2>3 DEF Inv, TypeOK, Stages, SearchInv
<1>3. CASE /\ todo # <<>> /\ Head(todo) \in DOMAIN rec /\ StartSearch(Head(todo))
           /\ UNCHANGED <<todo, out>>
  <2>1. Runes(rec[Head(todo)]) \in Nat
    BY <1>3, ValueAssumption DEF Inv, TypeOK, IsRecord
  <2>2. SearchType'
    BY <1>3, <2>1 DEF StartSearch, SearchType
  <2>3. SearchInv'
    BY <1>0, <1>3, <2>1 DEF SearchInv, SearchAt, StartSearch
  <2>4. OutType' /\ OutInv'
    BY <1>0, <1>3 DEF Inv, TypeOK, OutType, OutInv, StartSearch, None
  <2>5. TypeOK'
    BY <1>0, <1>3, <2>2, <2>4 DEF Inv, TypeOK, Stages, StartSearch
  <2> QED BY <2>3, <2>4, <2>5 DEF Inv
<1> QED BY <1>1, <1>2, <1>3 DEF NextField

\* One turn of the loop halves the interval and keeps what is known of it.
LEMMA SearchStepInv == ASSUME Inv, SearchStep PROVE Inv'
<1> DEFINE f == Head(todo)
           mid == (low + high) \div 2
<1>1. /\ pc = "search" /\ low <= high /\ todo # <<>> /\ SearchAt(f) /\ out = None
      /\ UNCHANGED <<cfg, line, pc, rec, chain, todo, out>>
  BY DEF Inv, SearchInv, OutInv, SearchStep
<1>2. low \in Nat /\ high \in Nat /\ best \in Nat \cup {-1}
  BY <1>1 DEF Inv, TypeOK, SearchType
<1>3. Runes(rec[f]) \in Nat
  BY <1>1, ValueAssumption DEF Inv, TypeOK, IsRecord, SearchAt
<1>4. mid \in Nat /\ low <= mid /\ mid <= high
  BY <1>1, <1>2
<1>5. \/ Fits(f, mid) /\ best' = mid /\ low' = mid + 1 /\ high' = high
      \/ ~Fits(f, mid) /\ high' = mid - 1 /\ best' = best /\ low' = low
  BY DEF SearchStep
<1> HIDE DEF mid
<1>6. SearchType'
  BY <1>2, <1>4, <1>5 DEF SearchType
<1>7. SearchAt(f)'
  <2>1. CASE Fits(f, mid) /\ best' = mid /\ low' = mid + 1 /\ high' = high
    BY <1>1, <1>2, <1>3, <1>4, <2>1 DEF SearchAt, Fits
  <2>2. CASE ~Fits(f, mid) /\ high' = mid - 1 /\ best' = best /\ low' = low
    BY <1>1, <1>2, <1>3, <1>4, <2>2 DEF SearchAt, Fits
  <2> QED BY <1>5, <2>1, <2>2
<1>8. OutType' /\ OutInv'
  BY <1>1 DEF OutType, OutInv, None
<1>9. TypeOK'
  BY <1>1, <1>6, <1>8 DEF Inv, TypeOK
<1> QED BY <1>1, <1>7, <1>8, <1>9 DEF Inv, SearchInv

\* At the end of the search best is the last prefix that fits.
LEMMA SearchEndInv == ASSUME Inv, SearchEnd PROVE Inv'
<1> DEFINE f == Head(todo)
           keep == IF best >= 0 THEN best ELSE 0
<1>1. /\ pc = "search" /\ low > high /\ todo # <<>> /\ SearchAt(f) /\ out = None
      /\ UNCHANGED <<cfg, line, rec, chain, low, high, best>>
  BY DEF Inv, SearchInv, OutInv, SearchEnd
<1>2. Runes(rec[f]) \in Nat
  BY <1>1, ValueAssumption DEF Inv, TypeOK, IsRecord, SearchAt
<1>3. f \in Fields
  BY <1>1, HeadTailProperties DEF Inv, TypeOK
<1>4. best = high /\ best \in Nat \cup {-1}
  BY <1>1 DEF Inv, TypeOK, SearchType, SearchAt
<1>5. SearchType'
  BY <1>1 DEF Inv, TypeOK, SearchType
<1>6. CASE /\ best >= 0 \/ Fits(f, keep)
           /\ out' = Cut(f, keep) /\ pc' = "done" /\ UNCHANGED todo
  <2>1. best >= 0 /\ keep = best
    BY <1>1, <1>2, <1>4, <1>6 DEF SearchAt
  <2>2. out'.kind = "cut" /\ out'.field = f /\ out'.keep = best
    BY <1>6, <2>1 DEF Cut
  <2>3. OutType'
    <3>1. best \in Nat
      BY <1>4, <2>1
    <3> HIDE DEF f, keep
    <3> QED BY <1>3, <2>2, <3>1, CutOutTypeNext
  <2>4. Fits(f, best) /\ (best < Runes(rec[f]) => ~Fits(f, best + 1)) /\ f \in DOMAIN rec
    BY <1>1, <1>4, <2>1 DEF SearchAt
  <2>5. OutInv'
    <3> HIDE DEF f
    <3> QED BY <1>1, <1>6, <2>2, <2>4 DEF OutInv, Fits
  <2>6. TypeOK'
    BY <1>1, <1>5, <1>6, <2>3 DEF Inv, TypeOK, Stages
  <2> QED BY <1>6, <2>5, <2>6 DEF Inv, SearchInv
<1>7. CASE todo' = Tail(todo) /\ pc' = "next" /\ UNCHANGED out
  <2>1. todo' \in Seq(Fields)
    BY <1>1, <1>7, HeadTailProperties DEF Inv, TypeOK
  <2>2. OutType' /\ OutInv'
    BY <1>1, <1>7 DEF OutType, OutInv, None
  <2> QED BY <1>1, <1>5, <1>7, <2>1, <2>2 DEF Inv, TypeOK, Stages, SearchInv
<1> QED BY <1>6, <1>7 DEF SearchEnd

\* Inv depends on the variables only.
LEMMA StutterInv == ASSUME Inv, UNCHANGED vars PROVE Inv'
BY DEF Inv, TypeOK, SearchType, OutType, SearchInv, SearchAt, OutInv, Fits, vars

\* The inductive invariant of process.
THEOREM RecordInv == Spec => []Inv
<1>1. Inv /\ [Next]_vars => Inv'
  BY TransformInv, NormalizeInv, FilterInv, EnrichInv, MarshalInv, NextFieldInv, SearchStepInv,
     SearchEndInv, StutterInv DEF Next
<1> QED BY InitInv, <1>1, PTL DEF Spec

\* Type correctness: whatever the line, what is filtered, enriched and cut is
\* a record of strings (pipeline.go:232-305).
THEOREM RecordTypeCorrect == Spec => []TypeOK
BY RecordInv, PTL DEF Inv

\* No payload exceeds max_publish_bytes, whatever the encoder does
\* (truncate.go:13-98).
THEOREM RecordPayloadFits == Spec => []PayloadFits
<1>1. Inv => PayloadFits
  BY DEF Inv, OutInv, PayloadFits, Fits
<1> QED BY <1>1, RecordInv, PTL

\* When the search has found nothing the suffix alone does not fit either: the
\* last attempt of truncateStringField never succeeds, since the search has
\* tried the empty prefix (truncate.go:83-97).
LastAttemptFutile ==
    pc = "search" /\ low > high /\ best < 0 => ~(CutBytes(rec, Head(todo), 0) <= cfg.maxBytes)

\* The attempt after the search never succeeds (truncate.go:83-97).
THEOREM RecordLastAttemptFutile == Spec => []LastAttemptFutile
<1>1. ASSUME Inv PROVE LastAttemptFutile
  <2> SUFFICES ASSUME pc = "search", low > high, best < 0
               PROVE  ~Fits(Head(todo), 0)
    BY DEF LastAttemptFutile, Fits
  <2>1. SearchAt(Head(todo)) /\ SearchType /\ rec[Head(todo)] \in Values
    BY <1>1 DEF Inv, TypeOK, SearchInv, SearchAt, IsRecord
  <2>2. high = -1
    BY <2>1 DEF SearchAt, SearchType
  <2> QED BY <2>1, <2>2, ValueAssumption DEF SearchAt
<1> QED BY <1>1, RecordInv, PTL

\* What encoding/json does to a longer prefix: the payload grows with it.
EncoderMonotone ==
    \A r, f : IsRecord(r) /\ f \in DOMAIN r =>
        \A k \in 0 .. Runes(r[f]) :
            CutBytes(r, f, k) \in Nat /\ \A j \in 0 .. k : CutBytes(r, f, j) <= CutBytes(r, f, k)

\* A cut keeps the longest prefix that fits, for every encoder that makes no
\* longer prefix shorter (truncate.go:62-81).
THEOREM RecordCutIsLongest ==
    ASSUME EncoderMonotone
    PROVE  Spec => []CutIsLongest
<1>1. ASSUME Inv PROVE CutIsLongest
  <2> DEFINE f == out.field
             m == out.keep
  <2> SUFFICES ASSUME out.kind = "cut", NEW k \in 0 .. Runes(rec[f]), k > m
               PROVE  ~(CutBytes(rec, f, k) <= cfg.maxBytes)
    BY DEF CutIsLongest
  <2>1. IsRecord(rec) /\ f \in DOMAIN rec /\ m \in Nat /\ cfg.maxBytes \in Nat
    BY <1>1, SetupAssumption DEF Inv, TypeOK, OutType, OutInv
  <2>2. Runes(rec[f]) \in Nat
    BY <2>1, ValueAssumption DEF IsRecord
  <2>3. m < Runes(rec[f]) => ~Fits(f, m + 1)
    BY <1>1 DEF Inv, OutInv
  <2> HIDE DEF f, m
  <2>4. m + 1 \in 0 .. k /\ k \in 0 .. Runes(rec[f]) /\ m + 1 \in 0 .. Runes(rec[f])
    BY <2>1, <2>2
  <2>5. ~(CutBytes(rec, f, m + 1) <= cfg.maxBytes)
    BY <2>1, <2>2, <2>3, <2>4 DEF Fits
  <2>6. /\ CutBytes(rec, f, k) \in Nat /\ CutBytes(rec, f, m + 1) \in Nat
        /\ CutBytes(rec, f, m + 1) <= CutBytes(rec, f, k)
    BY <2>1, <2>4 DEF EncoderMonotone
  <2> QED BY <2>1, <2>5, <2>6
<1> QED BY <1>1, RecordInv, PTL

-----------------------------------------------------------------------------
(* The order in which fields are cut.                                        *)

\* An order begins with the configured field, has _raw next if the record has
\* it, and ends with a longest other field if there is one.
Ordered(o, r, p) ==
    /\ o \in Seq(Fields) /\ Len(o) \in Nat \ {0} /\ o[1] = p
    /\ "_raw" \in DOMAIN r /\ p # "_raw" => Len(o) >= 2 /\ o[2] = "_raw"
    /\ \/ LargestStringFields(r, {p, "_raw"}) = {}
       \/ o[Len(o)] \in LargestStringFields(r, {p, "_raw"})

\* So do the orders of marshalPublishPayload.
LEMMA OrderShape ==
    ASSUME NEW r, IsRecord(r), NEW p \in Fields, NEW o \in CutOrders(r, p)
    PROVE  Ordered(o, r, p)
<1> DEFINE largest == LargestStringFields(r, {p, "_raw"})
           two == "_raw" \in DOMAIN r /\ p # "_raw"
           first == <<p>> \o (IF two THEN <<"_raw">> ELSE <<>>)
<1>1. o \in Seq(Fields)
  BY CutOrdersType
<1>2. /\ first \in Seq(Fields) /\ Len(first) = (IF two THEN 2 ELSE 1) /\ first[1] = p
      /\ two => first[2] = "_raw"
  <2>1. CASE two
    BY <2>1, NamesAssumption DEF Reserved
  <2>2. CASE ~two
    BY <2>2
  <2> QED BY <2>1, <2>2
<1>3. \/ largest = {} /\ o = first
      \/ \E f \in largest : o = Append(first, f)
  BY DEF CutOrders
<1>4. largest \subseteq Fields
  BY DEF LargestStringFields, IsRecord
<1> HIDE DEF largest, first
<1>5. CASE largest = {} /\ o = first
  <2>1. Len(o) \in Nat \ {0} /\ o[1] = p /\ (two => Len(o) >= 2 /\ o[2] = "_raw")
    BY <1>2, <1>5
  <2> QED BY <1>1, <1>5, <2>1 DEF Ordered, largest
<1>6. CASE \E f \in largest : o = Append(first, f)
  <2>1. PICK f \in largest : o = Append(first, f)
    BY <1>6
  <2>2. f \in Fields
    BY <1>4
  <2>3. /\ Len(o) = Len(first) + 1 /\ o[Len(o)] = f
        /\ \A i \in 1 .. Len(first) : o[i] = first[i]
    BY <1>2, <2>1, <2>2
  <2>4. o[1] = p /\ (two => o[2] = "_raw") /\ Len(o) \in Nat \ {0} /\ (two => Len(o) >= 2)
    BY <1>2, <2>3
  <2> QED BY <1>1, <2>1, <2>3, <2>4 DEF Ordered, largest
<1> QED BY <1>3, <1>5, <1>6

\* Of the order o the first n fields have been tried, in vain.
TriedInVain(o, n) == \A i \in 1 .. n : ~CanCut(o[i])

\* What is left of the order o when n of its fields have been tried.
Left(o, n) == Len(todo) = Len(o) - n /\ \A i \in 1 .. Len(todo) : todo[i] = o[n + i]

\* The fields are tried in one order; the field that was cut is the first that
\* could be, and an error means that none could.
OrderInv ==
    /\ pc \in {"next", "search"} =>
           \E o \in CutOrders(rec, cfg.primary) : \E n \in 0 .. Len(o) : TriedInVain(o, n) /\ Left(o, n)
    /\ out.kind = "cut" =>
           \E o \in CutOrders(rec, cfg.primary) :
               \E n \in 1 .. Len(o) : TriedInVain(o, n - 1) /\ out.field = o[n]
    /\ out.kind = "error" =>
           \E o \in CutOrders(rec, cfg.primary) : TriedInVain(o, Len(o))

\* The head of what is left cannot be cut, and is passed over.
LEMMA OrderPasses ==
    ASSUME Inv, OrderInv, pc \in {"next", "search"}, todo # <<>>, ~CanCut(Head(todo)),
           todo' = Tail(todo), UNCHANGED <<rec, cfg, out>>
    PROVE  OrderInv'
<1>0. cfg.primary \in Fields /\ IsRecord(rec)
  BY SetupAssumption DEF Inv, TypeOK
<1>1. PICK o \in CutOrders(rec, cfg.primary) : \E n \in 0 .. Len(o) : TriedInVain(o, n) /\ Left(o, n)
  BY DEF OrderInv
<1>2. PICK n \in 0 .. Len(o) : TriedInVain(o, n) /\ Left(o, n)
  BY <1>1
<1>3. Len(o) \in Nat
  BY <1>0, OrderShape DEF Ordered
<1>4. todo \in Seq(Fields) /\ Len(todo) \in Nat \ {0} /\ Head(todo) = todo[1]
  BY DEF Inv, TypeOK
<1>5. Len(todo') = Len(todo) - 1 /\ \A i \in 1 .. Len(todo') : todo'[i] = todo[i + 1]
  BY <1>4, HeadTailProperties
<1>6. n + 1 \in 0 .. Len(o) /\ o[n + 1] = Head(todo)
  BY <1>2, <1>3, <1>4 DEF Left
<1>7. PICK m \in 0 .. Len(o) : m = n + 1
  BY <1>6
<1>8. TriedInVain(o, m)
  BY <1>2, <1>6, <1>7 DEF TriedInVain
<1>9. Len(todo') = Len(o) - m /\ \A i \in 1 .. Len(todo') : todo'[i] = o[m + i]
  BY <1>2, <1>3, <1>4, <1>5, <1>7 DEF Left
<1>10. out' = None /\ rec' = rec /\ cfg' = cfg
  BY DEF Inv, OutInv
<1>11. TriedInVain(o, m)' /\ Left(o, m)'
  BY <1>8, <1>9, <1>10 DEF TriedInVain, Left, CanCut
<1> QED BY <1>10, <1>11, Outcomes DEF OrderInv

\* Every step keeps to the order.
LEMMA OrderStep == ASSUME Inv, OrderInv, [Next]_vars PROVE OrderInv'
<1>0. cfg.primary \in Fields /\ IsRecord(rec) /\ todo \in Seq(Fields)
  BY SetupAssumption DEF Inv, TypeOK
<1>1. ((pc # "done" /\ out' = out) \/ out' = Commit) /\ pc' \notin {"next", "search"} => OrderInv'
  BY Outcomes DEF OrderInv, Inv, OutInv
<1>2. CASE Transform
  BY <1>1, <1>2 DEF Transform
<1>3. CASE Normalize
  BY <1>1, <1>3 DEF Normalize
<1>4. CASE Filter
  BY <1>1, <1>4 DEF Filter
<1>5. CASE Enrich
  BY <1>1, <1>5 DEF Enrich
<1>6. CASE Marshal
  <2>1. out = None /\ UNCHANGED <<cfg, rec>>
    BY <1>6 DEF Marshal, Inv, OutInv
  <2>2. CASE out' = Whole /\ pc' = "done"
    BY <2>2, Outcomes DEF OrderInv
  <2>3. CASE pc' = "next" /\ UNCHANGED out /\ todo' \in CutOrders(rec, cfg.primary)
    <3>1. Len(todo') \in Nat
      BY <1>0, <2>3, OrderShape DEF Ordered
    <3>2. PICK o \in CutOrders(rec, cfg.primary) : o = todo'
      BY <2>3
    <3>3. 0 \in 0 .. Len(o) /\ TriedInVain(o, 0)' /\ Left(o, 0)'
      BY <3>1, <3>2 DEF TriedInVain, Left
    <3> QED BY <2>1, <2>3, <3>3, Outcomes DEF OrderInv
  <2> QED BY <1>6, <2>2, <2>3 DEF Marshal
<1>7. CASE NextField
  <2>1. out = None /\ UNCHANGED <<cfg, rec>> /\ pc = "next"
    BY <1>7 DEF NextField, Inv, OutInv
  <2>2. CASE todo = <<>> /\ out' = Error /\ pc' = "done"
    <3>1. PICK o \in CutOrders(rec, cfg.primary) : \E n \in 0 .. Len(o) : TriedInVain(o, n) /\ Left(o, n)
      BY <2>1 DEF OrderInv
    <3>2. Len(o) \in Nat
      BY <1>0, OrderShape DEF Ordered
    <3>3. TriedInVain(o, Len(o))
      BY <2>2, <3>1, <3>2 DEF Left
    <3>4. \A i \in 1 .. Len(o) : ~CanCut(o[i])'
      BY <2>1, <3>3 DEF TriedInVain, CanCut
    <3> QED BY <2>1, <2>2, <3>4, Outcomes DEF OrderInv, TriedInVain
  <2>3. CASE todo # <<>> /\ Head(todo) \notin DOMAIN rec /\ todo' = Tail(todo) /\ UNCHANGED <<pc, out>>
    BY <2>1, <2>3, OrderPasses DEF CanCut
  <2>4. CASE pc' = "search" /\ UNCHANGED <<todo, out>>
    BY <2>1, <2>4, Outcomes DEF OrderInv, TriedInVain, Left, CanCut
  <2> QED BY <1>7, <2>2, <2>3, <2>4 DEF NextField, StartSearch
<1>8. CASE SearchStep
  <2>1. out = None /\ UNCHANGED <<cfg, rec, pc, todo, out>>
    BY <1>8 DEF SearchStep, Inv, OutInv
  <2> QED BY <2>1 DEF OrderInv, TriedInVain, Left, CanCut
<1>9. CASE SearchEnd
  <2> DEFINE keep == IF best >= 0 THEN best ELSE 0
  <2>1. out = None /\ pc = "search" /\ todo # <<>> /\ UNCHANGED <<cfg, rec>> /\ best \in Nat \cup {-1}
    BY <1>9 DEF SearchEnd, Inv, OutInv, SearchInv, TypeOK, SearchType
  <2>2. CASE out' = Cut(Head(todo), keep) /\ pc' = "done"
    <3>1. PICK o \in CutOrders(rec, cfg.primary) : \E n \in 0 .. Len(o) : TriedInVain(o, n) /\ Left(o, n)
      BY <2>1 DEF OrderInv
    <3>2. PICK n \in 0 .. Len(o) : TriedInVain(o, n) /\ Left(o, n)
      BY <3>1
    <3>3. Len(o) \in Nat /\ Len(todo) \in Nat \ {0} /\ Head(todo) = todo[1]
      BY <1>0, <2>1, OrderShape DEF Ordered
    <3>4. PICK m \in 1 .. Len(o) : m = n + 1
      BY <3>2, <3>3 DEF Left
    <3>5. o[m] = Head(todo) /\ n = m - 1
      BY <3>2, <3>3, <3>4 DEF Left
    <3>6. out'.kind = "cut" /\ out'.field = o[m]
      BY <2>2, <3>5 DEF Cut
    <3>7. TriedInVain(o, m - 1)'
      BY <2>1, <3>2, <3>5 DEF TriedInVain, CanCut
    <3> QED BY <2>1, <2>2, <3>6, <3>7 DEF OrderInv
  <2>3. CASE /\ ~(best >= 0 \/ Fits(Head(todo), keep))
             /\ todo' = Tail(todo) /\ UNCHANGED out
    <3>1. ~CanCut(Head(todo))
      BY <2>1, <2>3 DEF CanCut, Fits
    <3> QED BY <2>1, <2>3, <3>1, OrderPasses
  <2> QED BY <1>9, <2>2, <2>3 DEF SearchEnd
<1>10. CASE UNCHANGED vars
  BY <1>10 DEF OrderInv, TriedInVain, Left, CanCut, vars
<1> QED BY <1>2, <1>3, <1>4, <1>5, <1>6, <1>7, <1>8, <1>9, <1>10 DEF Next

\* The configured field, then _raw, then the longest other one; an error only
\* when none of them can be cut so far that the record fits, for every record,
\* every limit and every encoder (truncate.go:22-46).
THEOREM RecordCutInOrder == Spec => []CutInOrder
<1>1. Init => OrderInv
  BY Outcomes DEF Init, OrderInv
<1>2. Spec => []OrderInv
  BY <1>1, OrderStep, RecordInv, PTL DEF Spec
<1>3. ASSUME Inv, OrderInv PROVE CutInOrder
  <2> DEFINE p == cfg.primary
             largest == LargestStringFields(rec, {p, "_raw"})
  <2>0. p \in Fields /\ IsRecord(rec)
    BY <1>3, SetupAssumption DEF Inv, TypeOK
  <2>1. ASSUME out.kind = "cut"
        PROVE  /\ out.field # p => ~CanCut(p)
               /\ out.field \notin {p, "_raw"} => ~CanCut("_raw")
    <3>1. PICK o \in CutOrders(rec, p) :
              \E n \in 1 .. Len(o) : TriedInVain(o, n - 1) /\ out.field = o[n]
      BY <1>3, <2>1 DEF OrderInv
    <3>2. PICK n \in 1 .. Len(o) : TriedInVain(o, n - 1) /\ out.field = o[n]
      BY <3>1
    <3>3. /\ Len(o) \in Nat \ {0} /\ o[1] = p
          /\ "_raw" \in DOMAIN rec /\ p # "_raw" => Len(o) >= 2 /\ o[2] = "_raw"
      <4>1. Ordered(o, rec, p)
        BY <2>0, OrderShape
      <4> QED BY <4>1 DEF Ordered
    <3> HIDE DEF p
    <3>4. out.field # p => ~CanCut(p)
      BY <3>2, <3>3 DEF TriedInVain
    <3>5. ASSUME out.field \notin {p, "_raw"} PROVE ~CanCut("_raw")
      <4>1. CASE "_raw" \notin DOMAIN rec
        BY <4>1 DEF CanCut
      <4>2. CASE p = "_raw"
        BY <3>4, <3>5, <4>2
      <4>3. CASE "_raw" \in DOMAIN rec /\ p # "_raw"
        BY <3>2, <3>3, <3>5, <4>3 DEF TriedInVain
      <4> QED BY <4>1, <4>2, <4>3
    <3> QED BY <3>4, <3>5
  <2>2. ASSUME out.kind = "error"
        PROVE  ~CanCut(p) /\ ~CanCut("_raw") /\ (largest = {} \/ \E f \in largest : ~CanCut(f))
    <3>1. PICK o \in CutOrders(rec, p) : TriedInVain(o, Len(o))
      BY <1>3, <2>2 DEF OrderInv
    <3>2. /\ Len(o) \in Nat \ {0} /\ o[1] = p
          /\ "_raw" \in DOMAIN rec /\ p # "_raw" => Len(o) >= 2 /\ o[2] = "_raw"
          /\ largest = {} \/ o[Len(o)] \in largest
      <4>1. Ordered(o, rec, p)
        BY <2>0, OrderShape
      <4> QED BY <4>1 DEF Ordered
    <3> HIDE DEF p, largest
    <3>3. ~CanCut(p) /\ ~CanCut(o[Len(o)])
      BY <3>1, <3>2 DEF TriedInVain
    <3>4. "_raw" \in DOMAIN rec => ~CanCut("_raw")
      BY <3>1, <3>2, <3>3 DEF TriedInVain
    <3> QED BY <3>2, <3>3, <3>4 DEF CanCut
  <2> QED BY <2>1, <2>2 DEF CutInOrder
<1> QED BY <1>2, <1>3, RecordInv, PTL

-----------------------------------------------------------------------------
(* A filter and its opposite.                                                *)

\* A field rule and its opposite, each under the on_missing of its filter.
LEMMA FieldDual ==
    ASSUME NEW rule \in FieldRules, NEW m \in Missing, NEW r
    PROVE  FieldMatch(OppositeField(rule), IF m = "pass" THEN "drop" ELSE "pass", r)
               <=> ~FieldMatch(rule, m, r)
<1> DEFINE opp == OppositeField(rule)
<1>1. /\ opp.field = rule.field /\ opp.values = rule.values /\ opp.ignoreCase = rule.ignoreCase
      /\ opp.onMissing = OppositeMissing(rule.onMissing)
      /\ rule.op = "eq" => opp.op = "neq"
      /\ rule.op = "neq" => opp.op = "eq"
      /\ rule.op = "in" => opp.op = "not_in"
      /\ rule.op = "not_in" => opp.op = "in"
  BY DEF OppositeField, FieldRules
<1>2. rule.op \in {"eq", "neq", "in", "not_in"} /\ rule.onMissing \in Missing
  BY DEF FieldRules
<1> HIDE DEF opp
<1>3. CASE rule.field \notin DOMAIN r
  BY <1>1, <1>2, <1>3 DEF FieldMatch, OppositeMissing, Missing, opp
<1>4. CASE rule.field \in DOMAIN r
  BY <1>1, <1>2, <1>4 DEF FieldMatch, opp
<1> QED BY <1>3, <1>4

\* A compound and its opposite.
LEMMA CompoundDual ==
    ASSUME NEW rules, rules \subseteq FieldRules, NEW m \in Missing, NEW c \in Matches, NEW r
    PROVE  CompoundMatch(OppositeMatch(c), {OppositeField(q) : q \in rules},
                         IF m = "pass" THEN "drop" ELSE "pass", r)
               <=> ~CompoundMatch(c, rules, m, r)
<1> DEFINE n == IF m = "pass" THEN "drop" ELSE "pass"
<1>1. \A q \in rules : FieldMatch(OppositeField(q), n, r) <=> ~FieldMatch(q, m, r)
  BY FieldDual
<1>2. OppositeMatch(c) = "any" <=> c # "any"
  BY DEF OppositeMatch
<1> HIDE DEF n
<1>3. CompoundMatch(OppositeMatch(c), {OppositeField(q) : q \in rules}, n, r)
          <=> ~CompoundMatch(c, rules, m, r)
  BY <1>1, <1>2 DEF CompoundMatch
<1> QED BY <1>3 DEF n

\* A rule of a filter and its opposite.
LEMMA RuleDual ==
    ASSUME NEW rule \in FieldRules \cup CompoundRules, NEW m \in Missing, NEW r
    PROVE  RuleMatch(OppositeRule(rule), IF m = "pass" THEN "drop" ELSE "pass", r)
               <=> ~RuleMatch(rule, m, r)
<1>1. CASE rule \in FieldRules
  <2>1. rule.type = "field" /\ OppositeRule(rule) = OppositeField(rule)
    BY <1>1 DEF FieldRules, OppositeRule
  <2>2. OppositeField(rule).type = "field"
    BY <1>1, <2>1 DEF FieldRules, OppositeField
  <2> QED BY <1>1, <2>1, <2>2, FieldDual DEF RuleMatch
<1>2. CASE rule \in CompoundRules
  <2>1. rule.type = "compound" /\ rule.rules \subseteq FieldRules /\ rule.match \in Matches
    BY <1>2 DEF CompoundRules
  <2>2. /\ OppositeRule(rule).type = "compound"
        /\ OppositeRule(rule).match = OppositeMatch(rule.match)
        /\ OppositeRule(rule).rules = {OppositeField(q) : q \in rule.rules}
    BY <1>2, <2>1 DEF CompoundRules, OppositeRule
  <2> DEFINE n == IF m = "pass" THEN "drop" ELSE "pass"
  <2>3. RuleMatch(rule, m, r) <=> CompoundMatch(rule.match, rule.rules, m, r)
    BY <2>1 DEF RuleMatch
  <2>4. RuleMatch(OppositeRule(rule), n, r)
            <=> CompoundMatch(OppositeMatch(rule.match), {OppositeField(q) : q \in rule.rules}, n, r)
    <3> HIDE DEF n
    <3> QED BY <2>2 DEF RuleMatch
  <2>5. CompoundMatch(OppositeMatch(rule.match), {OppositeField(q) : q \in rule.rules}, n, r)
            <=> ~CompoundMatch(rule.match, rule.rules, m, r)
    BY <2>1, CompoundDual
  <2> QED BY <2>3, <2>4, <2>5
<1> QED BY <1>1, <1>2

\* A filter and its opposite never agree, whatever the rules and the record
\* (filter.go:30-77, field.go:23-64).
THEOREM RecordFilterIsDual == Spec => []FilterIsDual
<1>1. ASSUME Inv PROVE FilterIsDual
  <2> DEFINE flt == cfg.filter
             n == IF flt.onMissing = "pass" THEN "drop" ELSE "pass"
  <2> SUFFICES ASSUME flt.rules # {} PROVE Match(flt, rec) <=> ~Match(Opposite(flt), rec)
    BY DEF FilterIsDual
  <2>1. flt \in FilterConfigs
    BY <1>1, SetupAssumption DEF Inv, TypeOK
  <2>2. /\ flt.onMissing \in Missing
        /\ flt.rules \subseteq FieldRules \cup CompoundRules
    BY <2>1 DEF FilterConfigs
  <2>3. /\ Opposite(flt).match = OppositeMatch(flt.match)
        /\ Opposite(flt).onMissing = n
        /\ Opposite(flt).rules = {OppositeRule(q) : q \in flt.rules}
    BY DEF Opposite
  <2>4. \A q \in flt.rules : RuleMatch(OppositeRule(q), n, rec) <=> ~RuleMatch(q, flt.onMissing, rec)
    BY <2>2, RuleDual
  <2>5. OppositeMatch(flt.match) = "any" <=> flt.match # "any"
    BY DEF OppositeMatch
  <2> HIDE DEF flt, n
  <2>6. Opposite(flt).rules # {}
    BY <2>3
  <2> QED BY <2>3, <2>4, <2>5, <2>6 DEF Match
<1> QED BY <1>1, RecordInv, PTL
=============================================================================
