------------------------ MODULE ScrapeVerdict_proofs ------------------------
(***************************************************************************)
(* From the series a target serves to the verdict on them, for every       *)
(* number of series, every labelling and every page in the text format:    *)
(* what zombies_zero and respawn_within_sla judge, proved from what the    *)
(* parsers hold (Scrape_proofs) and from the format (ExpositionAssumption).*)
(***************************************************************************)
EXTENDS Scrape_proofs, FiniteSetTheorems, FunctionTheorems, WellFoundedInduction

-----------------------------------------------------------------------------
(* The least and the greatest of a set of numbers *)

LEMMA LeastExists ==
  ASSUME NEW S \in SUBSET Nat, S # {}
  PROVE  \E x \in S : \A y \in S : x <= y
<1> DEFINE R == OpToRel(<, Nat)
<1>1. IsWellFoundedOn(R, Nat)
  BY NatLessThanWellFounded
<1>2. \A x, y \in Nat : <<x, y>> \in R <=> x < y
  BY DEF OpToRel
<1> HIDE DEF R
<1>3. PICK x \in S : \A y \in S : <<y, x>> \notin R
  BY <1>1, WFMin
<1>4. \A y \in S : x \in Nat /\ y \in Nat /\ ~(y < x)
  BY <1>2, <1>3
<1>5. \A y \in S : x <= y
  BY <1>4
<1>6. QED BY <1>5

LEMMA MinIsLeast ==
  ASSUME NEW S \in SUBSET Nat, S # {}
  PROVE  Min(S) \in S /\ \A y \in S : Min(S) <= y
BY LeastExists DEF Min

LEMMA MaxIsGreatest ==
  ASSUME NEW S, NEW n \in Nat, S \subseteq 1..n, S # {}
  PROVE  Max(S) \in S /\ \A y \in S : y <= Max(S)
<1> DEFINE T == {n - y : y \in S}
<1>1. T \in SUBSET Nat /\ T # {}
  <2>1. \A y \in S : n - y \in Nat
    OBVIOUS
  <2>2. QED BY <2>1
<1>2. PICK t \in T : \A u \in T : t <= u
  BY <1>1, LeastExists
<1>3. PICK x \in S : t = n - x
  BY <1>2
<1>4. \A y \in S : n - x <= n - y
  BY <1>2, <1>3
<1>5. \A y \in S : x >= y
  BY <1>4
<1>6. QED BY <1>5 DEF Max

LEMMA LargestBoundary ==
  /\ Max(Boundaries) \in Boundaries /\ \A b \in Boundaries : b <= Max(Boundaries)
  /\ Boundaries \subseteq Nat
BY ExpositionAssumption DEF Max

LEMMA LeIsLe == "le" \in EndsInLe /\ "le" \in Keys
BY ExpositionAssumption

-----------------------------------------------------------------------------
(* The labels of a bucket: those of its series, and le *)

Behind(labels, le) == Append(labels, [key |-> "le", value |-> le])

LEMMA BehindShape ==
  ASSUME NEW labels \in Labels, NEW le \in Boundaries
  PROVE  /\ Len(labels) \in Nat /\ DOMAIN labels = 1..Len(labels)
         /\ DOMAIN Behind(labels, le) = (DOMAIN labels) \cup {Len(labels) + 1}
         /\ \A k \in DOMAIN labels : Behind(labels, le)[k] = labels[k]
         /\ Behind(labels, le)[Len(labels) + 1] = [key |-> "le", value |-> le]
<1>1. labels \in Seq([key : Keys, value : LabelValues])
  BY DEF Labels
<1>2. [key |-> "le", value |-> le] \in [key : Keys, value : LabelValues]
  <2>1. le \in LabelValues
    BY DEF LabelValues
  <2>2. "le" \in Keys
    BY LeIsLe
  <2>3. QED BY <2>1, <2>2
<1>3. Len(labels) \in Nat /\ DOMAIN labels = 1..Len(labels)
  BY <1>1
<1>4. /\ Len(Behind(labels, le)) = Len(labels) + 1
      /\ DOMAIN Behind(labels, le) = 1..(Len(labels) + 1)
      /\ \A k \in 1..Len(labels) : Behind(labels, le)[k] = labels[k]
      /\ Behind(labels, le)[Len(labels) + 1] = [key |-> "le", value |-> le]
  BY <1>1, <1>2 DEF Behind
<1>5. QED BY <1>3, <1>4

\* A label of the series whose key ends in le goes first.
LEMMA LabelOfBucket ==
  ASSUME NEW labels \in Labels, NEW le \in Boundaries
  PROVE  extractLabel(Behind(labels, le)) =
           IF \E k \in DOMAIN labels : labels[k].key \in EndsInLe
           THEN extractLabel(labels) ELSE le
<1> DEFINE hits == {k \in DOMAIN labels : labels[k].key \in EndsInLe}
           all == {k \in DOMAIN Behind(labels, le) : Behind(labels, le)[k].key \in EndsInLe}
           n == Len(labels) + 1
<1>1. n \in Nat /\ hits \subseteq 1..(n - 1) /\ hits \in SUBSET Nat
  BY BehindShape
<1>2. all = hits \cup {n}
  <2>1. /\ DOMAIN Behind(labels, le) = (DOMAIN labels) \cup {n}
        /\ \A k \in DOMAIN labels : Behind(labels, le)[k] = labels[k]
        /\ Behind(labels, le)[n] = [key |-> "le", value |-> le]
    BY BehindShape
  <2>2. Behind(labels, le)[n].key \in EndsInLe
    BY <2>1, LeIsLe
  <2>3. QED BY <2>1, <2>2
<1>3. all # {} /\ all \in SUBSET Nat
  BY <1>1, <1>2
<1>4. Min(all) \in all /\ \A y \in all : Min(all) <= y
  BY <1>3, MinIsLeast
<1>5. extractLabel(Behind(labels, le)) = Behind(labels, le)[Min(all)].value
  BY <1>3 DEF extractLabel
<1>6. CASE hits = {}
  <2>1. Min(all) = n
    BY <1>2, <1>4, <1>6
  <2>2. Behind(labels, le)[n].value = le
    <3>1. Behind(labels, le)[n] = [key |-> "le", value |-> le]
      BY BehindShape
    <3>2. QED BY <3>1
  <2>3. QED BY <1>5, <1>6, <2>1, <2>2
<1>7. CASE hits # {}
  <2>1. Min(hits) \in hits /\ \A y \in hits : Min(hits) <= y
    BY <1>1, <1>7, MinIsLeast
  <2>2. Min(hits) \in Nat /\ Min(all) \in Nat /\ Min(hits) < n
    BY <1>1, <1>3, <1>4, <2>1
  <2>3. Min(all) # n
    <3>1. Min(all) <= Min(hits)
      BY <1>2, <1>4, <2>1
    <3>2. n \in Nat
      BY <1>1
    <3> HIDE DEF all, hits, n
    <3>3. QED BY <2>2, <3>1, <3>2
  <2>4. Min(all) \in hits
    BY <1>2, <1>4, <2>3
  <2>5. Min(all) <= Min(hits) /\ Min(hits) <= Min(all)
    BY <1>2, <1>4, <2>1, <2>4
  <2>6. Min(all) = Min(hits)
    BY <2>2, <2>5
  <2>7. Behind(labels, le)[Min(hits)] = labels[Min(hits)]
    BY <2>1, BehindShape
  <2>8. extractLabel(labels) = labels[Min(hits)].value
    BY <1>7 DEF extractLabel
  <2>9. QED BY <1>5, <1>7, <2>6, <2>7, <2>8
<1>8. QED BY <1>6, <1>7

\* le itself has no brace.
LEMMA BracesOfBucket ==
  ASSUME NEW labels \in Labels, NEW le \in Boundaries
  PROVE  (\E k \in DOMAIN Behind(labels, le) : Behind(labels, le)[k].value = Braced)
           <=> \E k \in DOMAIN labels : labels[k].value = Braced
<1>1. le # Braced
  BY ScrapeAssumption
<1>2. Behind(labels, le)[Len(labels) + 1] = [key |-> "le", value |-> le]
  BY BehindShape
<1>3. Behind(labels, le)[Len(labels) + 1].value = le
  BY <1>2
<1>4. /\ DOMAIN Behind(labels, le) = (DOMAIN labels) \cup {Len(labels) + 1}
      /\ \A k \in DOMAIN labels : Behind(labels, le)[k] = labels[k]
  BY BehindShape
<1>5. QED BY <1>1, <1>3, <1>4

-----------------------------------------------------------------------------
(* The samples of a page, by the series they are of *)

Readable(labels) == \A k \in DOMAIN labels : labels[k].value # Braced

LEMMA ThePage ==
  ASSUME export \in Exports
  PROVE  /\ export.check \in Checks
         /\ DOMAIN page = 1..Len(page) /\ Len(page) \in Nat
         /\ \A k \in DOMAIN page : page[k] \in Lines /\ export.owner[k] \in {Nobody} \cup Series
         /\ \A s \in Series : s \in Shown <=> Readable(export.series[s].labels)
         /\ Shown \subseteq Series
<1>1. export.check \in Checks /\ page \in Seq(Lines)
  BY ScrapeAssumption DEF page
<1>2. export.owner \in [DOMAIN page -> {Nobody} \cup Series]
  BY ExpositionAssumption DEF page, Series
<1>3. DOMAIN page = 1..Len(page) /\ Len(page) \in Nat /\ \A k \in DOMAIN page : page[k] \in Lines
  BY <1>1
<1>4. \A k \in DOMAIN page : export.owner[k] \in {Nobody} \cup Series
  BY <1>2
<1>5. /\ Shown \subseteq Series
      /\ \A s \in Series : s \in Shown <=> Readable(export.series[s].labels)
  BY DEF Shown, Readable
<1>6. QED BY <1>1, <1>3, <1>4, <1>5

\* A line that is of no series is no sample.
LEMMA SamplesAreOwned ==
  ASSUME export \in Exports, NEW k \in DOMAIN page,
         NEW name \in {"metric", "metric_bucket", "metric_count"}, Sample(page[k], name)
  PROVE  /\ export.owner[k] \in Series /\ k \in LinesOf(export, export.owner[k])
         /\ page[k].name = name /\ Readable(page[k].labels)
         /\ Field(page[k]) = page[k].value /\ page[k].value # Junk
<1>1. /\ page[k].name = name /\ Readable(page[k].labels)
      /\ Field(page[k]) = page[k].value /\ page[k].value # Junk
  BY DEF Sample, Named, Field, Readable
<1>2. export.owner[k] # Nobody
  <2>1. ASSUME export.owner[k] = Nobody PROVE FALSE
    <3>1. k \in LinesOf(export, Nobody)
      BY <2>1 DEF LinesOf, page
    <3>2. page[k].name = "metric_more" \/ page[k].value = Junk
      BY <3>1, ExpositionAssumption DEF page
    <3>3. QED BY <1>1, <3>2
  <2>2. QED BY <2>1
<1>3. export.owner[k] \in Series
  BY <1>2, ThePage
<1>4. k \in LinesOf(export, export.owner[k])
  BY DEF LinesOf, page
<1>5. QED BY <1>1, <1>3, <1>4

LEMMA TheGauges ==
  ASSUME export \in Exports, zombies
  PROVE  /\ DOMAIN export.series = 1..Len(export.series) /\ Len(export.series) \in Nat
         /\ \A s \in Series : export.series[s] \in Gauges
         /\ ShowsGauge(export)
<1>1. export.series \in Seq(Gauges) /\ ShowsGauge(export)
  BY ExpositionAssumption DEF zombies
<1>2. QED BY <1>1 DEF Series

LEMMA TheHistograms ==
  ASSUME export \in Exports, ~zombies
  PROVE  /\ Series = 1..Len(export.series) /\ Len(export.series) \in Nat
         /\ \A s \in Series : export.series[s] \in Histograms
         /\ ShowsHistogram(export, Boundaries)
<1>1. export.check = "respawn_within_sla"
  BY ScrapeAssumption DEF zombies, Checks
<1>2. export.series \in Seq(Histograms) /\ ShowsHistogram(export, Boundaries)
  BY <1>1, ExpositionAssumption
<1>3. QED BY <1>2 DEF Series

LEMMA HistogramShape ==
  ASSUME NEW h \in Histograms
  PROVE  /\ h.labels \in Labels /\ h.count \in Nat
         /\ \A le \in Boundaries : h.within[le] \in Nat /\ h.within[le] <= h.count
         /\ h.within[Max(Boundaries)] = h.count
<1>1. /\ h.labels \in Labels /\ h.count \in Nat /\ h.within \in [Boundaries -> Nat]
      /\ \A a, b \in Boundaries : a <= b => h.within[a] <= h.within[b]
      /\ h.within[Max(Boundaries)] = h.count
  BY DEF Histograms
<1>2. QED BY <1>1, LargestBoundary

\* The lines of a histogram.
LEMMA LinesOfHistogram ==
  ASSUME export \in Exports, ~zombies, NEW s \in Series
  PROVE  LET h == export.series[s] IN
         /\ \A k \in LinesOf(export, s) :
              \/ \E le \in Boundaries : page[k] = BucketLine(h, le)
              \/ page[k] = SumLine(h) \/ page[k] = CountLine(h)
         /\ \A le \in Boundaries : \E k \in LinesOf(export, s) : page[k] = BucketLine(h, le)
         /\ \E k \in LinesOf(export, s) : page[k] = CountLine(h)
<1> DEFINE h == export.series[s]
<1>1. {page[k] : k \in LinesOf(export, s)} =
        {BucketLine(h, le) : le \in Boundaries} \cup {SumLine(h), CountLine(h)}
  BY TheHistograms DEF ShowsHistogram, Series, page
<1> HIDE DEF h
<1>2. \A k \in LinesOf(export, s) :
        page[k] \in {BucketLine(h, le) : le \in Boundaries} \cup {SumLine(h), CountLine(h)}
  BY <1>1
<1>3. \A line \in {BucketLine(h, le) : le \in Boundaries} \cup {SumLine(h), CountLine(h)} :
        \E k \in LinesOf(export, s) : page[k] = line
  BY <1>1
<1>4. QED BY <1>2, <1>3 DEF h

LEMMA LineShapes ==
  ASSUME NEW h, NEW le
  PROVE  /\ BucketLine(h, le).name = "metric_bucket"
         /\ BucketLine(h, le).labels = Behind(h.labels, le)
         /\ BucketLine(h, le).value = h.within[le]
         /\ SumLine(h).name = "metric_sum"
         /\ CountLine(h).name = "metric_count"
         /\ CountLine(h).labels = h.labels
         /\ CountLine(h).value = h.count
BY DEF BucketLine, SumLine, CountLine, Line, Behind

LEMMA ReadableBucket ==
  ASSUME NEW labels \in Labels, NEW le \in Boundaries
  PROVE  Readable(Behind(labels, le)) <=> Readable(labels)
BY BracesOfBucket DEF Readable

\* What a line has to be for it to be a sample.
LEMMA SampleIs ==
  ASSUME NEW line, NEW name, line.name = name, line.value \in Nat, Readable(line.labels)
  PROVE  Sample(line, name) /\ Field(line) = line.value
BY ScrapeAssumption DEF Sample, Named, Field, Readable

\* The usable counts are those of the readable series.
LEMMA CountSamples ==
  ASSUME export \in Exports, ~zombies, NEW k \in DOMAIN page
  PROVE  LET s == export.owner[k] IN
         /\ Sample(page[k], "metric_count") <=>
              s \in Shown /\ page[k] = CountLine(export.series[s])
         /\ Sample(page[k], "metric_count") => Field(page[k]) = export.series[s].count
<1> DEFINE s == export.owner[k]
           h == export.series[s]
<1>1. ASSUME Sample(page[k], "metric_count")
      PROVE  s \in Shown /\ page[k] = CountLine(h) /\ Field(page[k]) = h.count
  <2>1. /\ s \in Series /\ k \in LinesOf(export, s)
        /\ page[k].name = "metric_count" /\ Readable(page[k].labels)
        /\ Field(page[k]) = page[k].value
    BY <1>1, SamplesAreOwned
  <2>2. \/ \E le \in Boundaries : page[k] = BucketLine(h, le)
        \/ page[k] = SumLine(h) \/ page[k] = CountLine(h)
    BY <2>1, LinesOfHistogram
  <2> HIDE DEF s, h
  <2>3. page[k] = CountLine(h)
    BY <2>1, <2>2, LineShapes
  <2>4. Readable(h.labels) /\ Field(page[k]) = h.count
    BY <2>1, <2>3, LineShapes
  <2>5. s \in Shown
    BY <2>1, <2>4, ThePage DEF h
  <2>6. QED BY <2>3, <2>4, <2>5
<1>2. ASSUME s \in Shown, page[k] = CountLine(h)
      PROVE  Sample(page[k], "metric_count")
  <2>1. s \in Series /\ Readable(h.labels) /\ h \in Histograms
    BY <1>2, ThePage, TheHistograms
  <2> HIDE DEF s, h
  <2>2. h.count \in Nat
    BY <2>1, HistogramShape
  <2>3. /\ page[k].name = "metric_count" /\ page[k].value \in Nat
        /\ Readable(page[k].labels)
    BY <1>2, <2>1, <2>2, LineShapes
  <2>4. QED BY <2>3, SampleIs
<1>3. QED BY <1>1, <1>2

\* The same of the buckets, whatever label stands for le.
LEMMA BucketSamples ==
  ASSUME export \in Exports, ~zombies, NEW k \in DOMAIN page
  PROVE  LET s == export.owner[k] IN
         Sample(page[k], "metric_bucket") <=>
           s \in Shown /\ \E le \in Boundaries : page[k] = BucketLine(export.series[s], le)
<1> DEFINE s == export.owner[k]
           h == export.series[s]
<1>1. ASSUME Sample(page[k], "metric_bucket")
      PROVE  s \in Shown /\ \E le \in Boundaries : page[k] = BucketLine(h, le)
  <2>1. /\ s \in Series /\ k \in LinesOf(export, s)
        /\ page[k].name = "metric_bucket" /\ Readable(page[k].labels)
    BY <1>1, SamplesAreOwned
  <2>2. \/ \E le \in Boundaries : page[k] = BucketLine(h, le)
        \/ page[k] = SumLine(h) \/ page[k] = CountLine(h)
    BY <2>1, LinesOfHistogram
  <2>3. h \in Histograms
    BY <2>1, TheHistograms
  <2> HIDE DEF s, h
  <2>4. PICK le \in Boundaries : page[k] = BucketLine(h, le)
    BY <2>1, <2>2, LineShapes
  <2>5. h.labels \in Labels
    BY <2>3, HistogramShape
  <2>6. Readable(h.labels)
    BY <2>1, <2>4, <2>5, LineShapes, ReadableBucket
  <2>7. s \in Shown
    BY <2>1, <2>6, ThePage DEF h
  <2>8. QED BY <2>4, <2>7
<1>2. ASSUME s \in Shown, NEW le \in Boundaries, page[k] = BucketLine(h, le)
      PROVE  Sample(page[k], "metric_bucket")
  <2>1. s \in Series /\ Readable(h.labels) /\ h \in Histograms
    BY <1>2, ThePage, TheHistograms
  <2> HIDE DEF s, h
  <2>2. h.labels \in Labels /\ h.within[le] \in Nat
    BY <2>1, HistogramShape
  <2>3. /\ page[k].name = "metric_bucket" /\ page[k].value \in Nat
        /\ Readable(page[k].labels)
    BY <1>2, <2>1, <2>2, LineShapes, ReadableBucket
  <2>4. QED BY <2>3, SampleIs
<1>3. QED BY <1>1, <1>2

\* A bucket line of a readable series gives its value under its label.
LEMMA BucketOf ==
  ASSUME export \in Exports, ~zombies, NEW k \in DOMAIN page,
         NEW s \in Shown, s = export.owner[k],
         NEW le \in Boundaries, page[k] = BucketLine(export.series[s], le)
  PROVE  LET h == export.series[s] IN
         /\ Sample(page[k], "metric_bucket") /\ Field(page[k]) = h.within[le]
         /\ extractLabel(page[k].labels) =
              IF s \in Shadowed THEN extractLabel(h.labels) ELSE le
<1> DEFINE h == export.series[s]
<1>1. Sample(page[k], "metric_bucket")
  BY BucketSamples
<1>2. Field(page[k]) = page[k].value
  BY <1>1, SamplesAreOwned
<1>3. page[k].value = h.within[le] /\ page[k].labels = Behind(h.labels, le)
  BY LineShapes
<1>4. s \in Series /\ h.labels \in Labels
  BY ThePage, TheHistograms, HistogramShape
<1>5. s \in Shadowed <=> \E j \in DOMAIN h.labels : h.labels[j].key \in EndsInLe
  BY <1>4 DEF Shadowed
<1>6. extractLabel(Behind(h.labels, le)) =
        IF s \in Shadowed THEN extractLabel(h.labels) ELSE le
  BY <1>4, <1>5, LabelOfBucket
<1>7. QED BY <1>1, <1>2, <1>3, <1>6

-----------------------------------------------------------------------------
(* The last of a kind of line is of the last readable series *)

LEMMA LastOwner ==
  ASSUME export \in Exports, ~zombies, NEW K \in SUBSET DOMAIN page, K # {},
         \A k \in K : export.owner[k] \in Shown,
         \A s \in Shown : \E k \in K : export.owner[k] = s
  PROVE  /\ Max(K) \in K /\ \A k \in K : k <= Max(K)
         /\ Shown # {} /\ Max(Shown) \in Shown
         /\ export.owner[Max(K)] = Max(Shown)
<1>1. Max(K) \in K /\ \A k \in K : k <= Max(K)
  BY ThePage, MaxIsGreatest
<1>2. Shown # {}
  OBVIOUS
<1>3. Max(Shown) \in Shown /\ \A s \in Shown : s <= Max(Shown)
  BY <1>2, ThePage, TheHistograms, MaxIsGreatest
<1>4. PICK k \in K : export.owner[k] = Max(Shown)
  BY <1>3
<1>5. Shown \subseteq Nat /\ Nobody \notin Shown
  BY ThePage, TheHistograms DEF Nobody
<1>6. Max(Shown) <= export.owner[Max(K)]
  <2>1. CASE k = Max(K)
    BY <1>3, <1>4, <1>5, <2>1
  <2>2. CASE k < Max(K)
    <3>1. \A i, j \in DOMAIN page :
            i < j /\ Nobody \notin {export.owner[i], export.owner[j]}
              => export.owner[i] <= export.owner[j]
      BY TheHistograms DEF ShowsHistogram, InOrder, page
    <3>2. Nobody \notin {export.owner[k], export.owner[Max(K)]}
      BY <1>1, <1>5
    <3>3. export.owner[k] <= export.owner[Max(K)]
      BY <1>1, <2>2, <3>1, <3>2
    <3>4. QED BY <1>4, <3>3
  <2>3. k <= Max(K) /\ k \in Nat /\ Max(K) \in Nat
    BY <1>1, ThePage
  <2>4. QED BY <2>1, <2>2, <2>3
<1>7. export.owner[Max(K)] <= Max(Shown) /\ export.owner[Max(K)] \in Nat
  BY <1>1, <1>3, <1>5
<1>8. Max(Shown) \in Nat
  BY <1>3, <1>5
<1>9. export.owner[Max(K)] = Max(Shown)
  BY <1>6, <1>7, <1>8
<1>10. QED BY <1>1, <1>2, <1>3, <1>9

\* The count of the page is that of its last readable series.
LEMMA LastCount ==
  ASSUME export \in Exports, ~zombies, CountLines(Len(page)) # {}
  PROVE  /\ Shown # {} /\ Max(Shown) \in Shown
         /\ LastValue(CountLines(Len(page))) = export.series[Max(Shown)].count
<1> DEFINE K == CountLines(Len(page))
<1>1. K \in SUBSET DOMAIN page /\ \A k \in DOMAIN page : k \in K <=> Sample(page[k], "metric_count")
  BY ThePage DEF CountLines
<1>2. \A k \in K : export.owner[k] \in Shown /\ page[k] = CountLine(export.series[export.owner[k]])
  BY <1>1, CountSamples
<1>3. ASSUME NEW s \in Shown PROVE \E k \in K : export.owner[k] = s
  <2>1. PICK k \in LinesOf(export, s) : page[k] = CountLine(export.series[s])
    BY ThePage, LinesOfHistogram
  <2>2. k \in DOMAIN page /\ export.owner[k] = s
    BY DEF LinesOf, page
  <2>3. QED BY <1>1, <2>1, <2>2, CountSamples
<1> HIDE DEF K
<1>4. /\ Max(K) \in K /\ Shown # {} /\ Max(Shown) \in Shown
      /\ export.owner[Max(K)] = Max(Shown)
  BY <1>1, <1>2, <1>3, LastOwner DEF K
<1>5. Field(page[Max(K)]) = export.series[Max(Shown)].count
  BY <1>1, <1>4, CountSamples
<1>6. LastValue(K) = Field(page[Max(K)])
  BY <1>4 DEF LastValue
<1>7. QED BY <1>4, <1>5, <1>6 DEF K

\* Without a label in its place, le finds the bucket of the last readable
\* series.
LEMMA LastBucket ==
  ASSUME export \in Exports, ~zombies, Shown # {}, Shadowed = {}, NEW le \in Boundaries
  PROVE  LastValue(BucketLines(le, Len(page))) = export.series[Max(Shown)].within[le]
<1> DEFINE K == BucketLines(le, Len(page))
<1>1. K \in SUBSET DOMAIN page
      /\ \A k \in DOMAIN page : k \in K <=> /\ Sample(page[k], "metric_bucket")
                                           /\ extractLabel(page[k].labels) = le
  BY ThePage DEF BucketLines, BucketSample
<1>2. ASSUME NEW k \in K
      PROVE  /\ export.owner[k] \in Shown
             /\ Field(page[k]) = export.series[export.owner[k]].within[le]
  <2>1. k \in DOMAIN page /\ Sample(page[k], "metric_bucket") /\ extractLabel(page[k].labels) = le
    BY <1>1
  <2>2. PICK b \in Boundaries : page[k] = BucketLine(export.series[export.owner[k]], b)
    BY <2>1, BucketSamples
  <2>3. export.owner[k] \in Shown
    BY <2>1, BucketSamples
  <2>4. QED BY <2>1, <2>2, <2>3, BucketOf
<1>3. ASSUME NEW s \in Shown PROVE \E k \in K : export.owner[k] = s
  <2>1. PICK k \in LinesOf(export, s) : page[k] = BucketLine(export.series[s], le)
    BY ThePage, LinesOfHistogram
  <2>2. k \in DOMAIN page /\ export.owner[k] = s
    BY DEF LinesOf, page
  <2>3. QED BY <1>1, <2>1, <2>2, BucketOf
<1>4. K # {}
  BY <1>3
<1> HIDE DEF K
<1>5. Max(K) \in K /\ export.owner[Max(K)] = Max(Shown)
  BY <1>1, <1>2, <1>3, <1>4, LastOwner
<1>6. Field(page[Max(K)]) = export.series[Max(Shown)].within[le]
  BY <1>2, <1>5
<1>7. QED BY <1>4, <1>6 DEF LastValue, K

-----------------------------------------------------------------------------
(* What is invariant beyond IInv: the sum, counted in units, one for each  *)
(* zombie on a line, and the verdict on it.                                *)

Units(n) ==
  UNION {{k} \X (1..Field(page[k])) : k \in {j \in 1..n : Sample(page[j], "metric")}}

Summed == zombies => /\ IsFiniteSet(Units(next - 1))
                     /\ total = Cardinality(Units(next - 1))

MetricVerdict ==
  zombies /\ verdict \in Judged =>
    /\ found /\ next - 1 = Len(page)
    /\ verdict = "breach" <=> total > limits.threshold

More == export \in Exports /\ Summed /\ MetricVerdict

\* One line more, and as many units more as it says.
LEMMA UnitsGrow ==
  ASSUME NEW n \in Nat, IsFiniteSet(Units(n)),
         Sample(page[n + 1], "metric") => Field(page[n + 1]) \in Nat
  PROVE  /\ IsFiniteSet(Units(n + 1))
         /\ Cardinality(Units(n + 1)) =
              Cardinality(Units(n)) +
                IF Sample(page[n + 1], "metric") THEN Field(page[n + 1]) ELSE 0
<1> DEFINE lines(m) == {j \in 1..m : Sample(page[j], "metric")}
           units(k) == {k} \X (1..Field(page[k]))
<1>1. 1..(n + 1) = (1..n) \cup {n + 1}
  OBVIOUS
<1>2. \A m : Units(m) = UNION {units(k) : k \in lines(m)}
  BY DEF Units
<1>3. Cardinality(Units(n)) \in Nat
  BY FS_CardinalityType
<1>4. CASE ~Sample(page[n + 1], "metric")
  <2>1. lines(n + 1) = lines(n)
    BY <1>1, <1>4
  <2>2. Units(n + 1) = Units(n)
    BY <1>2, <2>1
  <2>3. QED BY <1>3, <1>4, <2>2
<1>5. CASE Sample(page[n + 1], "metric")
  <2> DEFINE v == Field(page[n + 1])
             new == units(n + 1)
  <2>1. lines(n + 1) = lines(n) \cup {n + 1}
    BY <1>1, <1>5
  <2>2. Units(n + 1) = Units(n) \cup new
    <3> HIDE DEF lines, units
    <3>1. UNION {units(k) : k \in lines(n) \cup {n + 1}}
            = (UNION {units(k) : k \in lines(n)}) \cup units(n + 1)
      OBVIOUS
    <3>2. QED BY <1>2, <2>1, <3>1
  <2>3. IsFiniteSet(new) /\ Cardinality(new) = v
    <3>1. v \in Nat
      BY <1>5
    <3>2. IsFiniteSet(1..v) /\ Cardinality(1..v) = v
      BY <3>1, FS_Interval
    <3>3. IsFiniteSet({n + 1}) /\ Cardinality({n + 1}) = 1
      BY FS_Singleton
    <3> HIDE DEF v
    <3>4. /\ IsFiniteSet({n + 1} \X (1..v))
          /\ Cardinality({n + 1} \X (1..v)) = Cardinality({n + 1}) * Cardinality(1..v)
      BY <3>2, <3>3, FS_Product
    <3>5. 1 * v = v
      BY <3>1
    <3>6. QED BY <3>2, <3>3, <3>4, <3>5 DEF v
  <2>4. Units(n) \cap new = {}
    BY DEF Units
  <2> HIDE DEF new, v
  <2>5. /\ IsFiniteSet(Units(n) \cup new)
        /\ Cardinality(Units(n) \cup new) =
             Cardinality(Units(n)) + Cardinality(new) - Cardinality({})
    BY <2>3, <2>4, FS_Union
  <2>6. Cardinality({}) = 0
    BY FS_EmptySet
  <2>7. v \in Nat
    BY <1>5 DEF v
  <2>8. Cardinality(Units(n)) + v - 0 = Cardinality(Units(n)) + v
    BY <1>3, <2>7
  <2>9. QED BY <1>5, <2>2, <2>3, <2>5, <2>6, <2>8 DEF v
<1>6. QED BY <1>4, <1>5

LEMMA SameUnits ==
  ASSUME export' = export
  PROVE  \A n : Units(n)' = Units(n)
BY SamePage DEF Units, Field, Sample, Named

LEMMA MoreInit == Init => More
<1> SUFFICES ASSUME Init PROVE More
  OBVIOUS
<1>1. Units(next - 1) = {}
  BY DEF Init, Units
<1>2. Summed
  BY <1>1, FS_EmptySet DEF Init, Summed
<1>3. QED BY <1>2 DEF Init, More, MetricVerdict, Judged

\* The steps that leave the sum alone.
LEMMA SameSum ==
  ASSUME Summed, UNCHANGED <<export, next, total>>
  PROVE  Summed'
BY SameUnits, SamePage DEF Summed

LEMMA MoreNext == IInv /\ More /\ [Next]_vars => More'
<1> SUFFICES ASSUME IInv, More, [Next]_vars PROVE More'
  OBVIOUS
<1>1. export' = export /\ limits' = limits
  BY DEF Next, evaluate, ReadParams, FetchFails, Fetch, ParseMetricLine, ParseHistogramLine,
         JudgeMetric, JudgeHistogram, EndRun, Terminated, vars, block
<1>2. page' = page /\ (zombies' <=> zombies) /\ export' \in Exports
  BY <1>1, SamePage DEF More
<1>3. CASE ReadParams
  <2>1. verdict' \notin Judged /\ UNCHANGED <<export, next, total>>
    BY <1>3 DEF ReadParams, Ends, IInv, VerdictAtEnd, Judged, block, parseVars
  <2>2. QED BY <1>2, <2>1, SameSum DEF More, MetricVerdict
<1>4. CASE FetchFails \/ Fetch
  <2>1. verdict' \notin Judged /\ UNCHANGED <<export, next, total>>
    BY <1>4 DEF FetchFails, Fetch, Fails, Ends, IInv, VerdictAtEnd, Judged, block, parseVars
  <2>2. QED BY <1>2, <2>1, SameSum DEF More, MetricVerdict
<1>5. CASE ParseMetricLine
  <2>1. verdict' \notin Judged /\ pc' = pc /\ pc = "parsing" /\ zombies
    BY <1>5 DEF ParseMetricLine, IInv, VerdictAtEnd, Judged
  <2>2. Summed'
    <3>1. /\ next - 1 \in Nat /\ (next - 1) + 1 = next /\ next' - 1 = next
          /\ page[next] \in Lines
      BY <1>5, NextLine DEF ParseMetricLine, IInv
    <3>2. Sample(page[next], "metric") => Field(page[next]) \in Nat
      BY <3>1, FieldIsValue
    <3>3. IsFiniteSet(Units(next - 1)) /\ total = Cardinality(Units(next - 1))
      BY <2>1 DEF More, Summed
    <3>4. /\ IsFiniteSet(Units(next))
          /\ Cardinality(Units(next)) =
               total + IF Sample(page[next], "metric") THEN Field(page[next]) ELSE 0
      BY <3>1, <3>2, <3>3, UnitsGrow
    <3>5. total' = total + IF Sample(page[next], "metric") THEN Field(page[next]) ELSE 0
      <4>1. total \in Nat
        BY DEF IInv, TypeOK
      <4>2. /\ Sample(page[next], "metric") => total' = total + Field(page[next])
            /\ ~Sample(page[next], "metric") => total' = total
        BY <1>5 DEF ParseMetricLine
      <4>3. QED BY <4>1, <4>2
    <3>6. total' = Cardinality(Units(next' - 1)) /\ IsFiniteSet(Units(next' - 1))
      BY <3>1, <3>4, <3>5
    <3>7. QED BY <1>1, <3>6, SameUnits DEF Summed
  <2>3. QED BY <1>2, <2>1, <2>2 DEF More, MetricVerdict
<1>6. CASE ParseHistogramLine
  <2>1. verdict' \notin Judged /\ pc' = pc /\ pc = "parsing" /\ ~zombies
    BY <1>6 DEF ParseHistogramLine, IInv, VerdictAtEnd, Judged
  <2>2. QED BY <1>1, <1>2, <2>1 DEF More, MetricVerdict, Summed
<1>7. CASE JudgeMetric
  <2>1. UNCHANGED <<export, limits, next, total, found>> /\ zombies /\ next > Len(page)
    BY <1>7 DEF JudgeMetric, block, parseVars
  <2>2. next - 1 = Len(page)
    <3>1. page \in Seq(Lines) /\ next \in 1..(Len(page) + 1)
      BY DEF IInv, TypeOK
    <3>2. Len(page) \in Nat
      BY <3>1
    <3>3. QED BY <2>1, <3>1, <3>2
  <2>3. verdict' \in Judged =>
          found /\ (verdict' = "breach" <=> total > limits.threshold)
    BY <1>7 DEF JudgeMetric, Fails, Ends, Judged
  <2>4. Summed'
    BY <2>1, SameSum DEF More
  <2>5. QED BY <1>1, <1>2, <2>1, <2>2, <2>3, <2>4 DEF More, MetricVerdict
<1>8. CASE JudgeHistogram
  <2>1. UNCHANGED <<export, next, total>> /\ ~zombies /\ pc = "parsing"
    BY <1>8 DEF JudgeHistogram, block, parseVars
  <2>2. QED BY <1>1, <1>2, <2>1, SameSum DEF More, MetricVerdict
<1>9. CASE EndRun \/ UNCHANGED vars
  <2>1. UNCHANGED <<export, limits, pc, next, total, found, verdict>>
    BY <1>9 DEF EndRun, vars, block, parseVars
  <2>2. QED BY <1>2, <2>1, SameSum DEF More, MetricVerdict
<1>10. QED BY <1>3, <1>4, <1>5, <1>6, <1>7, <1>8, <1>9 DEF Next, evaluate, Terminated

\* What the verdicts rest on, in every state of every round.
THEOREM MoreHolds == Spec => [](IInv /\ More)
<1>1. IInv /\ More /\ [Next]_vars => (IInv /\ More)'
  BY InvNext, MoreNext
<1>2. Init => IInv /\ More
  BY InvInit, MoreInit
<1>3. QED BY <1>1, <1>2, PTL DEF Spec

-----------------------------------------------------------------------------
(* The verdicts, from the series *)

LEMMA RatioOf ==
  ASSUME IInv
  PROVE  /\ limits.num \in Int /\ limits.den \in Nat \ {0}
         /\ limits.minSamples \in Int /\ limits.threshold \in Int
BY ScrapeAssumption DEF IInv, TypeOK

LEMMA SlaVerdictFollows == IInv /\ More => SlaVerdictIsTheLastSeries
<1> SUFFICES ASSUME IInv, More, ~zombies, verdict \in Judged, Shadowed = {}
             PROVE  JudgesTheLastSeries
  BY DEF SlaVerdictIsTheLastSeries
<1> DEFINE last == export.series[Max(Shown)]
           n == last.count
           within == IF limits.sla \in Boundaries THEN last.within[limits.sla] ELSE Unseen
<1>1. export \in Exports
  BY DEF More
<1>2. /\ CountLines(Len(page)) # {}
      /\ verdict = SlaVerdict(
           IF limits.sla \in Boundaries THEN LastValue(BucketLines(limits.sla, Len(page)))
           ELSE Unseen,
           LastValue(CountLines(Len(page))))
  BY DEF IInv, VerdictAtEnd, JudgedOnTheWholePage
<1>3. /\ Shown # {} /\ Max(Shown) \in Shown
      /\ LastValue(CountLines(Len(page))) = n
  BY <1>1, <1>2, LastCount
<1>4. limits.sla \in Boundaries => LastValue(BucketLines(limits.sla, Len(page))) = within
  BY <1>1, <1>3, LastBucket
<1>5. verdict = SlaVerdict(within, n)
  BY <1>2, <1>3, <1>4
<1>6. last \in Histograms
  BY <1>1, <1>3, ThePage, TheHistograms
<1>7. /\ n \in Nat
      /\ limits.sla \in Boundaries =>
           /\ within = last.within[limits.sla] /\ within \in Nat /\ within <= n
      /\ limits.sla \notin Boundaries => within = Unseen
  BY <1>6, HistogramShape
<1> HIDE DEF last, n, within
<1>8. n < limits.minSamples \/ (n >= limits.minSamples /\ ~(n < limits.minSamples))
  BY <1>7, RatioOf
<1>9. n < limits.minSamples => verdict = "too few" /\ ~(n >= limits.minSamples)
  <2>1. n < limits.minSamples => ~(n >= limits.minSamples)
    BY <1>7, RatioOf
  <2>2. n < limits.minSamples => verdict = "too few"
    BY <1>5 DEF SlaVerdict
  <2>3. QED BY <2>1, <2>2
<1>10. ~(n < limits.minSamples) =>
         /\ limits.sla \notin Boundaries => verdict = "no bucket"
         /\ limits.sla \in Boundaries =>
              verdict = IF Below(within, n) THEN "breach" ELSE "pass"
  <2>1. limits.sla \in Boundaries => within # Unseen
    BY <1>7 DEF Unseen
  <2>2. QED BY <1>5, <1>7, <2>1 DEF SlaVerdict
<1>11. limits.sla \in Boundaries /\ Below(within, n) => n > 0
  <2> SUFFICES ASSUME limits.sla \in Boundaries, Below(within, n), n = 0 PROVE FALSE
    BY <1>7
  <2>1. within = 0
    BY <1>7
  <2>2. 0 * limits.den = 0 /\ limits.num * 0 = 0
    BY RatioOf
  <2>3. QED BY <2>1, <2>2 DEF Below
<1>12. /\ verdict = "too few" <=> n < limits.minSamples
       /\ verdict = "no bucket" <=> n >= limits.minSamples /\ limits.sla \notin Boundaries
       /\ verdict = "breach" <=> /\ n >= limits.minSamples /\ limits.sla \in Boundaries
                                /\ n > 0 /\ Below(within, n)
  BY <1>8, <1>9, <1>10, <1>11
<1>13. limits.sla \in Boundaries =>
         (Below(within, n) <=> last.within[limits.sla] * limits.den < limits.num * n)
  BY <1>7 DEF Below
<1>14. QED BY <1>3, <1>12, <1>13 DEF last, n, JudgesTheLastSeries

LEMMA ZombieVerdictFollows == IInv /\ More => ZombieVerdictIsTheSum
<1> SUFFICES ASSUME IInv, More, zombies, verdict \in Judged
             PROVE  /\ Shown # {}
                    /\ verdict = "breach" <=> Cardinality(Zombies(Shown)) > limits.threshold
  BY DEF ZombieVerdictIsTheSum
<1> DEFINE owner(k) == export.owner[k]
           samples == {k \in DOMAIN page : Sample(page[k], "metric")}
           read == Units(Len(page))
           shown == Zombies(Shown)
           f == [u \in read |-> <<owner(u[1]), u[2]>>]
<1>1. export \in Exports
  BY DEF More
<1>2. found /\ next - 1 = Len(page) /\ (verdict = "breach" <=> total > limits.threshold)
  BY DEF More, MetricVerdict
<1>3. IsFiniteSet(read) /\ total = Cardinality(read)
  BY <1>2 DEF More, Summed
<1>4. samples # {}
  <2>1. \E k \in 1..Len(page) : Sample(page[k], "metric")
    BY <1>2 DEF IInv, LastLineWins
  <2>2. QED BY <1>1, <2>1, ThePage
\* A sample is the line of its series.
<1>5. ASSUME NEW k \in samples
      PROVE  /\ owner(k) \in Shown /\ LinesOf(export, owner(k)) = {k}
             /\ Field(page[k]) = export.series[owner(k)].value
  <2>1. /\ owner(k) \in Series /\ k \in LinesOf(export, owner(k))
        /\ Readable(page[k].labels) /\ Field(page[k]) = page[k].value
    BY <1>1, SamplesAreOwned
  <2>2. PICK j \in LinesOf(export, owner(k)) :
          LinesOf(export, owner(k)) = {j} /\ page[j] = GaugeLine(export.series[owner(k)])
    BY <1>1, <2>1, TheGauges DEF ShowsGauge, Series, page
  <2>3. j = k
    BY <2>1, <2>2
  <2>4. /\ page[k].labels = export.series[owner(k)].labels
        /\ page[k].value = export.series[owner(k)].value
    BY <2>2, <2>3 DEF GaugeLine, Line
  <2>5. owner(k) \in Shown
    BY <1>1, <2>1, <2>4, ThePage
  <2>6. QED BY <2>1, <2>2, <2>3, <2>4, <2>5
<1>6. ASSUME NEW s \in Shown
      PROVE  \E k \in samples : owner(k) = s
  <2>1. s \in Series /\ Readable(export.series[s].labels) /\ export.series[s] \in Gauges
    BY <1>1, ThePage, TheGauges
  <2>2. PICK k \in LinesOf(export, s) : page[k] = GaugeLine(export.series[s])
    BY <1>1, <2>1, TheGauges DEF ShowsGauge, Series, page
  <2>3. k \in DOMAIN page /\ owner(k) = s
    BY DEF LinesOf, page
  <2>4. /\ page[k].name = "metric" /\ page[k].labels = export.series[s].labels
        /\ page[k].value = export.series[s].value
    BY <2>2 DEF GaugeLine, Line
  <2>5. page[k].value \in Nat
    BY <2>1, <2>4 DEF Gauges
  <2>6. Sample(page[k], "metric")
    BY <2>1, <2>4, <2>5, SampleIs
  <2>7. QED BY <2>3, <2>6
<1>7. Shown # {}
  BY <1>4, <1>5
\* The units read and the zombies shown, one for one.
<1>8. \A u : u \in read <=> \E k \in samples : \E i \in 1..Field(page[k]) : u = <<k, i>>
  BY <1>1, ThePage DEF Units
<1>9. \A z : z \in shown <=>
        \E s \in Shown : \E i \in 1..export.series[s].value : z = <<s, i>>
  BY DEF Zombies
<1> HIDE DEF samples, owner, read, shown
<1>10. \A u \in read : f[u] \in shown
  BY <1>5, <1>8, <1>9
<1>11. \A u, v \in read : f[u] = f[v] => u = v
  BY <1>5, <1>8
<1>12. ASSUME NEW z \in shown PROVE \E u \in read : f[u] = z
  <2>1. PICK s \in Shown : \E i \in 1..export.series[s].value : z = <<s, i>>
    BY <1>9
  <2>2. PICK i \in 1..export.series[s].value : z = <<s, i>>
    BY <2>1
  <2>3. PICK k \in samples : owner(k) = s
    BY <1>6
  <2>4. i \in 1..Field(page[k])
    BY <1>5, <2>3
  <2>5. <<k, i>> \in read
    BY <1>8, <2>4
  <2>6. f[<<k, i>>] = z
    BY <2>2, <2>3, <2>5
  <2>7. QED BY <2>5, <2>6
<1>13. f \in [read -> shown]
  BY <1>10
<1> HIDE DEF f
<1>14. f \in Bijection(read, shown)
  BY <1>11, <1>12, <1>13, Fun_IsBij
<1>15. ExistsBijection(read, shown)
  BY <1>14 DEF ExistsBijection
<1>16. Cardinality(shown) = total
  BY <1>3, <1>15, FS_Bijection
<1>17. QED BY <1>2, <1>7, <1>16 DEF shown

\* Of the series a target serves, zombies_zero compares the sum of the
\* readable ones with max_count, short of those it has lost to a brace
\* (zombies_zero.go:92-124, wclient.go:143-188).
THEOREM ZombieVerdictIsTheSumHolds == Spec => []ZombieVerdictIsTheSum
BY ZombieVerdictFollows, MoreHolds, PTL

\* Of several series respawn_within_sla judges the last readable one and no
\* other, and flags it only on a sample (respawn_within_sla.go:126-169).
THEOREM SlaVerdictIsTheLastSeriesHolds == Spec => []SlaVerdictIsTheLastSeries
BY SlaVerdictFollows, MoreHolds, PTL
=============================================================================
