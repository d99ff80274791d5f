---------------------------- MODULE Scrape_proofs ----------------------------
(***************************************************************************)
(* Proofs about the parsers of internal/wclient for every page: any number *)
(* of lines, of any series, in any order.  TypeOK and LastLineWins are     *)
(* inductive together; the verdicts follow from them once the last line is *)
(* read.                                                                   *)
(***************************************************************************)
EXTENDS Scrape, TLAPS

\* The lines of a kind among the first n.
CountLines(n) == {k \in 1..n : Sample(page[k], "metric_count")}
BucketLines(le, n) ==
  {k \in 1..n : BucketSample(page[k]) /\ extractLabel(page[k].labels) = le}

\* What a verdict on a histogram rests on: the whole page, read.
JudgedOnTheWholePage ==
  ~zombies /\ verdict \in Judged =>
    /\ CountLines(Len(page)) # {}
    /\ verdict = SlaVerdict(
         IF limits.sla \in Boundaries THEN LastValue(BucketLines(limits.sla, Len(page)))
         ELSE Unseen,
         LastValue(CountLines(Len(page))))

\* A verdict is only there at the end, and a histogram's is that of the page.
VerdictAtEnd ==
  /\ pc # "done" => verdict = "none"
  /\ JudgedOnTheWholePage

IInv == TypeOK /\ LastLineWins /\ VerdictAtEnd

-----------------------------------------------------------------------------
(* Lines and the last of them *)

LEMMA FieldIsValue ==
  ASSUME NEW line \in Lines, NEW name, Sample(line, name)
  PROVE  Field(line) \in Nat
BY ScrapeAssumption DEF Sample, Field, Lines

\* A line after all others is the last one.
LEMMA MaxOfLater ==
  ASSUME NEW n \in Nat, NEW S \in SUBSET (1..n)
  PROVE  Max(S \cup {n + 1}) = n + 1
<1>1. \A y \in S \cup {n + 1} : n + 1 >= y
  OBVIOUS
<1>2. \A x \in S \cup {n + 1} : (\A y \in S \cup {n + 1} : x >= y) => x = n + 1
  OBVIOUS
<1>3. QED BY <1>1, <1>2 DEF Max

LEMMA LastValueOfLater ==
  ASSUME NEW n \in Nat, NEW S \in SUBSET (1..n)
  PROVE  LastValue(S \cup {n + 1}) = Field(page[n + 1])
BY MaxOfLater DEF LastValue

\* One line more: it is the last of its kind or it changes nothing.
LEMMA CountLinesGrow ==
  ASSUME NEW n \in Nat
  PROVE  /\ Sample(page[n + 1], "metric_count") =>
              LastValue(CountLines(n + 1)) = Field(page[n + 1])
         /\ ~Sample(page[n + 1], "metric_count") =>
              LastValue(CountLines(n + 1)) = LastValue(CountLines(n))
<1>1. 1..(n + 1) = (1..n) \cup {n + 1}
  OBVIOUS
<1>2. CASE Sample(page[n + 1], "metric_count")
  <2>1. CountLines(n + 1) = CountLines(n) \cup {n + 1}
    BY <1>1, <1>2 DEF CountLines
  <2>2. CountLines(n) \in SUBSET (1..n)
    BY DEF CountLines
  <2>3. QED BY <1>2, <2>1, <2>2, LastValueOfLater
<1>3. CASE ~Sample(page[n + 1], "metric_count")
  <2>1. CountLines(n + 1) = CountLines(n)
    BY <1>1, <1>3 DEF CountLines
  <2>2. QED BY <1>3, <2>1
<1>4. QED BY <1>2, <1>3

LEMMA BucketLinesGrow ==
  ASSUME NEW n \in Nat, NEW le
  PROVE  LET hit == BucketSample(page[n + 1]) /\ extractLabel(page[n + 1].labels) = le
         IN  /\ hit => LastValue(BucketLines(le, n + 1)) = Field(page[n + 1])
             /\ ~hit => LastValue(BucketLines(le, n + 1)) = LastValue(BucketLines(le, n))
<1> DEFINE hit == BucketSample(page[n + 1]) /\ extractLabel(page[n + 1].labels) = le
<1>1. 1..(n + 1) = (1..n) \cup {n + 1}
  OBVIOUS
<1>2. CASE hit
  <2>1. BucketLines(le, n + 1) = BucketLines(le, n) \cup {n + 1}
    BY <1>1, <1>2 DEF BucketLines
  <2>2. BucketLines(le, n) \in SUBSET (1..n)
    BY DEF BucketLines
  <2>3. QED BY <1>2, <2>1, <2>2, LastValueOfLater
<1>3. CASE ~hit
  <2>1. BucketLines(le, n + 1) = BucketLines(le, n)
    BY <1>1, <1>3 DEF BucketLines
  <2>2. QED BY <1>3, <2>1
<1>4. QED BY <1>2, <1>3

\* LastLineWins in the terms of this module, now and after a step.
Readings ==
  /\ zombies => found = (\E k \in 1..(next - 1) : Sample(page[k], "metric"))
  /\ ~zombies => /\ count = LastValue(CountLines(next - 1))
                 /\ \A le \in Boundaries : buckets[le] = LastValue(BucketLines(le, next - 1))

LEMMA LastLineWinsAs == /\ LastLineWins <=> Readings
                        /\ LastLineWins' <=> Readings'
BY DEF LastLineWins, Readings, CountLines, BucketLines

\* The page stays what it is.
LEMMA SamePage ==
  ASSUME export' = export
  PROVE  /\ page' = page
         /\ zombies' <=> zombies
         /\ \A n : CountLines(n)' = CountLines(n)
         /\ \A le, n : BucketLines(le, n)' = BucketLines(le, n)
         /\ \A S : LastValue(S)' = LastValue(S)
         /\ \A k : Sample(page[k], "metric")' <=> Sample(page[k], "metric")
<1>1. page' = page /\ (zombies' <=> zombies)
  BY DEF page, zombies
<1>2. /\ \A n : CountLines(n)' = CountLines(n)
      /\ \A le, n : BucketLines(le, n)' = BucketLines(le, n)
      /\ \A S : LastValue(S)' = LastValue(S)
  BY <1>1 DEF CountLines, BucketLines, LastValue, Field, Sample, Named, BucketSample,
              extractLabel
<1>3. \A k : Sample(page[k], "metric")' <=> Sample(page[k], "metric")
  BY <1>1 DEF Sample, Named, Field
<1>4. QED BY <1>1, <1>2, <1>3

-----------------------------------------------------------------------------
LEMMA InvInit == Init => IInv
<1> SUFFICES ASSUME Init PROVE IInv
  OBVIOUS
<1>1. export.check \in Checks /\ page \in Seq(Lines)
  BY ScrapeAssumption DEF Init, page
<1>2. Len(page) \in Nat
  BY <1>1
<1>3. TypeOK
  <2>1. buckets \in [Boundaries -> Nat \cup {Unseen}] /\ count \in Nat \cup {Unseen}
    BY DEF Init
  <2>2. next \in 1..(Len(page) + 1) /\ total \in Nat
    BY <1>2 DEF Init
  <2>3. found \in BOOLEAN /\ ctxDone \in BOOLEAN /\ limits \in Limits
    BY DEF Init
  <2>4. /\ pc \in {"starting", "fetching", "parsing", "done"} /\ pc # "fetching"
        /\ verdict \in Judged \cup {"none", "rejected", "dropped", "scrape error"}
    BY DEF Init
  <2>5. QED BY <1>1, <2>1, <2>2, <2>3, <2>4 DEF TypeOK
<1>4. 1..(next - 1) = {}
  BY DEF Init
<1>5. CountLines(next - 1) = {} /\ \A le : BucketLines(le, next - 1) = {}
  BY <1>4 DEF CountLines, BucketLines
<1>6. found = (\E k \in 1..(next - 1) : Sample(page[k], "metric"))
  BY <1>4 DEF Init
<1>7. LastLineWins
  BY <1>5, <1>6, LastLineWinsAs DEF Init, Readings, LastValue
<1>8. VerdictAtEnd
  BY DEF Init, VerdictAtEnd, JudgedOnTheWholePage, Judged
<1>9. QED BY <1>3, <1>7, <1>8 DEF IInv

\* A step that reads no line keeps what the lines have given.
LEMMA SameLines ==
  ASSUME LastLineWins, UNCHANGED <<export, limits, next, total, found, buckets, count>>
  PROVE  LastLineWins'
BY SamePage, LastLineWinsAs DEF Readings

LEMMA NextLine ==
  ASSUME TypeOK, next <= Len(page)
  PROVE  /\ next - 1 \in Nat /\ (next - 1) + 1 = next
         /\ page[next] \in Lines
         /\ next + 1 \in 1..(Len(page) + 1)
<1>1. page \in Seq(Lines) /\ next \in 1..(Len(page) + 1)
  BY DEF TypeOK
<1>2. Len(page) \in Nat /\ next \in Int /\ 1 <= next
  BY <1>1
<1>3. QED BY <1>1, <1>2

LEMMA ReadsMetricLine ==
  ASSUME IInv, ParseMetricLine
  PROVE  IInv'
<1>1. TypeOK /\ next <= Len(page) /\ next' = next + 1
  BY DEF IInv, ParseMetricLine
<1>2. Sample(page[next], "metric") => Field(page[next]) \in Nat
  BY <1>1, NextLine, FieldIsValue
<1>3. export' = export /\ limits' = limits /\ zombies
  BY DEF ParseMetricLine, block
<1>4. TypeOK'
  <2>1. total' \in Nat
    <3>1. total \in Nat
      BY <1>1 DEF TypeOK
    <3>2. \/ Sample(page[next], "metric") /\ total' = total + Field(page[next])
          \/ total' = total
      BY DEF ParseMetricLine
    <3>3. QED BY <1>2, <3>1, <3>2
  <2>2. found' \in BOOLEAN
    BY <1>1 DEF ParseMetricLine, TypeOK
  <2>3. next' \in 1..(Len(page) + 1)
    BY <1>1, NextLine
  <2>4. QED BY <1>3, <2>1, <2>2, <2>3, SamePage DEF ParseMetricLine, IInv, TypeOK
<1>5. LastLineWins'
  <2>1. 1..(next' - 1) = (1..(next - 1)) \cup {next}
    BY <1>1, NextLine
  <2>2. found = (\E k \in 1..(next - 1) : Sample(page[k], "metric"))
    BY <1>3 DEF IInv, LastLineWins
  <2>3. found' = (found \/ Sample(page[next], "metric"))
    BY <1>1 DEF ParseMetricLine, TypeOK
  <2>4. found' = (\E k \in 1..(next' - 1) : Sample(page[k], "metric"))
    BY <2>1, <2>2, <2>3
  <2>5. QED BY <1>3, <2>4, SamePage, LastLineWinsAs DEF Readings
<1>6. VerdictAtEnd'
  BY <1>3, SamePage DEF ParseMetricLine, IInv, VerdictAtEnd, JudgedOnTheWholePage
<1>7. QED BY <1>4, <1>5, <1>6 DEF IInv

LEMMA ReadsHistogramLine ==
  ASSUME IInv, ParseHistogramLine
  PROVE  IInv'
<1>1. TypeOK /\ next <= Len(page) /\ next' = next + 1
  BY DEF IInv, ParseHistogramLine
<1>2. export' = export /\ limits' = limits /\ ~zombies
  BY DEF ParseHistogramLine, block
<1>3. /\ Sample(page[next], "metric_count") => Field(page[next]) \in Nat
      /\ BucketSample(page[next]) => Field(page[next]) \in Nat
  BY <1>1, NextLine, FieldIsValue DEF BucketSample
<1>4. TypeOK'
  <2>1. buckets' \in [Boundaries -> Nat \cup {Unseen}]
    BY <1>3 DEF ParseHistogramLine, bucketsAfter, IInv, TypeOK
  <2>2. count' \in Nat \cup {Unseen}
    BY <1>3 DEF ParseHistogramLine, IInv, TypeOK
  <2>3. next' \in 1..(Len(page) + 1)
    BY <1>1, NextLine
  <2>4. QED BY <1>2, <2>1, <2>2, <2>3, SamePage DEF ParseHistogramLine, IInv, TypeOK
<1>5. LastLineWins'
  <2> DEFINE n == next - 1
  <2>1. n \in Nat /\ n + 1 = next /\ next' - 1 = next
    BY <1>1, NextLine
  <2>2. Readings
    BY LastLineWinsAs DEF IInv
  <2>3. count' = LastValue(CountLines(next))
    <3>1. count = LastValue(CountLines(n))
      BY <1>2, <2>2 DEF Readings
    <3>2. QED BY <2>1, <3>1, CountLinesGrow DEF ParseHistogramLine
  <2>4. ASSUME NEW le \in Boundaries
        PROVE  buckets'[le] = LastValue(BucketLines(le, next))
    <3>1. buckets[le] = LastValue(BucketLines(le, n))
      BY <1>2, <2>2 DEF Readings
    <3>2. buckets'[le] = IF BucketSample(page[next]) /\ le = extractLabel(page[next].labels)
                         THEN Field(page[next]) ELSE buckets[le]
      BY DEF ParseHistogramLine, bucketsAfter
    <3>3. QED BY <2>1, <3>1, <3>2, BucketLinesGrow
  <2>5. QED BY <1>2, <2>1, <2>3, <2>4, SamePage, LastLineWinsAs DEF Readings
<1>6. VerdictAtEnd'
  BY <1>2, SamePage DEF ParseHistogramLine, IInv, VerdictAtEnd, JudgedOnTheWholePage, Judged
<1>7. QED BY <1>4, <1>5, <1>6 DEF IInv

\* The steps that read no line and give no verdict on a page.
LEMMA OtherSteps ==
  ASSUME IInv, ReadParams \/ FetchFails \/ Fetch \/ EndRun \/ UNCHANGED vars
  PROVE  IInv'
<1>1. UNCHANGED <<export, limits, next, total, found, buckets, count>>
  BY DEF ReadParams, FetchFails, Fetch, EndRun, vars, block, parseVars
<1>2. TypeOK'
  <2>1. ctxDone' \in BOOLEAN
    BY DEF IInv, TypeOK, ReadParams, FetchFails, Fetch, EndRun, vars
  <2>2. /\ pc' \in {"starting", "fetching", "parsing", "done"}
        /\ verdict' \in Judged \cup {"none", "rejected", "dropped", "scrape error"}
    BY DEF IInv, TypeOK, ReadParams, FetchFails, Fetch, EndRun, vars, Ends, Fails
  <2>3. pc' = "fetching" => limits.parses /\ (zombies \/ limits.num \in 0..limits.den)
    <3>1. CASE ReadParams
      <4>1. limits \in Limits
        BY DEF IInv, TypeOK
      <4>2. limits.num \in Int /\ limits.den \in Nat
        BY <4>1, ScrapeAssumption
      <4>3. QED BY <3>1, <4>2 DEF ReadParams, Accepted, Ends
    <3>2. CASE FetchFails \/ Fetch \/ EndRun \/ UNCHANGED vars
      BY <3>2 DEF IInv, TypeOK, FetchFails, Fetch, EndRun, vars, Ends, Fails
    <3>3. QED BY <3>1, <3>2
  <2>4. QED BY <1>1, <2>1, <2>2, <2>3, SamePage DEF IInv, TypeOK
<1>3. LastLineWins'
  BY <1>1, SameLines DEF IInv
<1>4. VerdictAtEnd'
  BY <1>1, SamePage
     DEF IInv, VerdictAtEnd, JudgedOnTheWholePage, Judged, ReadParams, FetchFails, Fetch,
         EndRun, vars, Ends, Fails, SlaVerdict, Below
<1>5. QED BY <1>2, <1>3, <1>4 DEF IInv

LEMMA GivesMetricVerdict ==
  ASSUME IInv, JudgeMetric
  PROVE  IInv'
<1>1. UNCHANGED <<export, limits, next, total, found, buckets, count>> /\ zombies
  BY DEF JudgeMetric, block, parseVars
<1>2. TypeOK'
  BY <1>1, SamePage DEF IInv, TypeOK, JudgeMetric, Ends, Fails, Judged
<1>3. LastLineWins'
  BY <1>1, SameLines DEF IInv
<1>4. VerdictAtEnd'
  BY <1>1, SamePage
     DEF VerdictAtEnd, JudgedOnTheWholePage, JudgeMetric, Ends, Fails
<1>5. QED BY <1>2, <1>3, <1>4 DEF IInv

LEMMA GivesHistogramVerdict ==
  ASSUME IInv, JudgeHistogram
  PROVE  IInv'
<1>1. UNCHANGED <<export, limits, next, total, found, buckets, count>> /\ ~zombies
  BY DEF JudgeHistogram, block, parseVars
<1>2. TypeOK'
  BY <1>1, SamePage DEF IInv, TypeOK, JudgeHistogram, Ends, Fails, Judged, SlaVerdict
<1>3. LastLineWins'
  BY <1>1, SameLines DEF IInv
<1>4. next - 1 = Len(page)
  <2>1. page \in Seq(Lines) /\ next \in 1..(Len(page) + 1) /\ next > Len(page)
    BY DEF IInv, TypeOK, JudgeHistogram
  <2>2. Len(page) \in Nat
    BY <2>1
  <2>3. QED BY <2>1, <2>2
<1>5. /\ count = LastValue(CountLines(Len(page)))
      /\ \A le \in Boundaries : buckets[le] = LastValue(BucketLines(le, Len(page)))
  BY <1>1, <1>4, LastLineWinsAs DEF IInv, Readings
<1>6. VerdictAtEnd'
  <2>1. pc' = "done"
    BY DEF JudgeHistogram, Ends, Fails
  <2>2. CASE count = Unseen
    BY <2>1, <2>2 DEF VerdictAtEnd, JudgedOnTheWholePage, JudgeHistogram, Ends, Fails, Judged
  <2>3. CASE count # Unseen
    <3>1. CountLines(Len(page)) # {}
      BY <1>5, <2>3 DEF LastValue
    <3>2. verdict' = SlaVerdict(
            IF limits.sla \in Boundaries THEN LastValue(BucketLines(limits.sla, Len(page)))
            ELSE Unseen,
            LastValue(CountLines(Len(page))))
      BY <1>5, <2>3 DEF JudgeHistogram, Ends
    <3>3. QED BY <1>1, <2>1, <3>1, <3>2, SamePage
              DEF VerdictAtEnd, JudgedOnTheWholePage, SlaVerdict, Below
  <2>4. QED BY <2>2, <2>3
<1>7. QED BY <1>2, <1>3, <1>6 DEF IInv

LEMMA InvNext == IInv /\ [Next]_vars => IInv'
<1> SUFFICES ASSUME IInv, [Next]_vars PROVE IInv'
  OBVIOUS
<1>1. CASE ReadParams \/ FetchFails \/ Fetch \/ EndRun \/ UNCHANGED vars
  BY <1>1, OtherSteps
<1>2. CASE ParseMetricLine
  BY <1>2, ReadsMetricLine
<1>3. CASE ParseHistogramLine
  BY <1>3, ReadsHistogramLine
<1>4. CASE JudgeMetric
  BY <1>4, GivesMetricVerdict
<1>5. CASE JudgeHistogram
  BY <1>5, GivesHistogramVerdict
<1>6. QED BY <1>1, <1>2, <1>3, <1>4, <1>5 DEF Next, evaluate, Terminated

\* The inductive invariant holds of every scrape of every page.
THEOREM Invariance == Spec => []IInv
BY InvInit, InvNext, PTL DEF Spec

\* Every variable of a round keeps its type, for every page and every block.
THEOREM TypeCorrect == Spec => []TypeOK
<1>1. IInv => TypeOK
  BY DEF IInv
<1>2. QED BY <1>1, Invariance, PTL

\* Whatever the lines and their order, what the parsers hold is the last
\* usable line of each kind read so far (wclient.go:143-188, 426-482).
THEOREM LastLineWinsHolds == Spec => []LastLineWins
<1>1. IInv => LastLineWins
  BY DEF IInv
<1>2. QED BY <1>1, Invariance, PTL

\* A verdict on a histogram is that of the whole page: of the last usable
\* count line, which is there, and the last usable line of the SLA's bucket
\* (respawn_within_sla.go:126-169).
THEOREM JudgedOnTheWholePageHolds == Spec => []JudgedOnTheWholePage
<1>1. IInv => JudgedOnTheWholePage
  BY DEF IInv, VerdictAtEnd
<1>2. QED BY <1>1, Invariance, PTL
=============================================================================
