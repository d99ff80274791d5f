------------------------------- MODULE Scrape -------------------------------
(***************************************************************************)
(* One round of the two watchers that judge numbers on a Prometheus page:  *)
(* evaluate of zombies_zero and of respawn_within_sla, with the scrape and *)
(* the text parsers of internal/wclient they rest on.                      *)
(*                                                                         *)
(* A line of the page is its name, its labels in order and its value.  The *)
(* text matters in two places only, and is kept there: a key that ends in  *)
(* "le" is taken for le (EndsInLe), and a label value with a closing brace *)
(* in it (Braced) ends the label block early.  The word behind that brace  *)
(* is taken to be no number, so the line is lost; a label value that goes  *)
(* on with one, as in "x} 7", is left out: the parsers would read the 7    *)
(* for the value of the series.  Values are naturals; Junk is any text     *)
(* ParseFloat refuses, or none at all.                                     *)
(***************************************************************************)
EXTENDS Integers, Sequences, FiniteSetsExt, Exposition

CONSTANTS Exports,    \* what a target can serve: its series, and the page
          Limits,     \* the params a block can have
          Keys,       \* the label keys
          EndsInLe,   \* those that end in "le"
          Boundaries, \* the bucket boundaries, +Inf among them
          Junk, Word, Braced

Names == {"metric", "metric_bucket", "metric_count", "metric_sum", "metric_more"}
LabelValues == Boundaries \cup {Word, Braced}
Labels == Seq([key : Keys, value : LabelValues])
Lines == [name : Names, labels : Labels, value : Nat \cup {Junk}]
Checks == {"zombies_zero", "respawn_within_sla"}

ASSUME ScrapeAssumption ==
  /\ \A e \in Exports : e.check \in Checks /\ e.page \in Seq(Lines)
  /\ \A l \in Limits : /\ l.parses \in BOOLEAN
                       /\ l.threshold \in Int /\ l.minSamples \in Int
                       /\ l.num \in Int /\ l.den \in Nat \ {0}
  /\ Word \notin Boundaries /\ Braced \notin Boundaries
  /\ Junk \notin Nat

Gauges == [labels : Labels, value : Nat]

\* Cumulative; the largest boundary, +Inf, is that of the count.
Histograms ==
  {h \in [labels : Labels, within : [Boundaries -> Nat], count : Nat] :
     /\ \A a, b \in Boundaries : a <= b => h.within[a] <= h.within[b]
     /\ h.within[Max(Boundaries)] = h.count}

\* A target serves its series in the text format.  The other lines are of
\* other metrics, or have no number.
ASSUME ExpositionAssumption ==
  /\ Boundaries \in SUBSET Nat
  /\ \E inf \in Boundaries : \A b \in Boundaries : b <= inf
  /\ "le" \in EndsInLe /\ EndsInLe \subseteq Keys
  /\ \A e \in Exports :
       /\ e.owner \in [DOMAIN e.page -> {Nobody} \cup DOMAIN e.series]
       /\ \A k \in LinesOf(e, Nobody) :
            e.page[k].name = "metric_more" \/ e.page[k].value = Junk
       /\ e.check = "zombies_zero" =>
            e.series \in Seq(Gauges) /\ ShowsGauge(e)
       /\ e.check = "respawn_within_sla" =>
            e.series \in Seq(Histograms) /\ ShowsHistogram(e, Boundaries)

VARIABLES export, limits,  \* the target and the block
          ctxDone,
          pc,              \* starting, fetching, parsing or done
          next,            \* the next line of the page
          total, found,    \* parseMetric's
          buckets, count,  \* parseHistogram's
          verdict          \* what the round comes to

block == <<export, limits>>
parseVars == <<next, total, found, buckets, count>>
vars == <<export, limits, ctxDone, pc, next, total, found, buckets, count, verdict>>

page == export.page
zombies == export.check = "zombies_zero"

\* A bucket or a count no line has given yet.
Unseen == -1

Init ==
  /\ export \in Exports /\ limits \in Limits
  /\ ctxDone = FALSE
  /\ pc = "starting"
  /\ next = 1
  /\ total = 0 /\ found = FALSE
  /\ buckets = [le \in Boundaries |-> Unseen] /\ count = Unseen
  /\ verdict = "none"

Ends(v) == pc' = "done" /\ verdict' = v

-----------------------------------------------------------------------------
(* Run, up to its first evaluate *)

AcceptsAnyRatio == limits.parses   \* mutant: the range of min_ratio is not checked

\* The url is there and the numbers parse; min_ratio is in [0, 1].
Accepted == limits.parses /\ (zombies \/ (limits.num >= 0 /\ limits.num <= limits.den))

ReadParams ==
  /\ pc = "starting"
  /\ IF Accepted THEN pc' = "fetching" /\ UNCHANGED verdict ELSE Ends("rejected")
  /\ UNCHANGED <<block, ctxDone, parseVars>>

-----------------------------------------------------------------------------
(* ScrapeMetric and ScrapeHistogram *)

\* An error is a breach, unless the run has ended.
Fails == Ends(IF ctxDone THEN "dropped" ELSE "scrape error")

\* No connection, a status other than 200 or a body that breaks off: nothing
\* of it is parsed.
FetchFails ==
  /\ pc = "fetching"
  /\ Fails
  /\ UNCHANGED <<block, ctxDone, parseVars>>

Fetch ==
  /\ pc = "fetching" /\ ~ctxDone
  /\ pc' = "parsing"
  /\ UNCHANGED <<block, ctxDone, parseVars, verdict>>

-----------------------------------------------------------------------------
(* The parsers, a line at a time *)

PrefixOf(line, name) ==   \* mutant: the character after the name is not looked at
  line.name = name \/ (name = "metric" /\ line.name \in Names)

\* The line begins with the name, and a blank or a brace follows.
Named(line, name) == line.name = name

\* What stands behind the first closing brace: no number, if that brace is in a
\* label value.
Field(line) ==
  IF \E k \in DOMAIN line.labels : line.labels[k].value = Braced THEN Junk ELSE line.value

\* The value of the first key that ends in le, a Word when there is none.
extractLabel(labels) ==
  LET hits == {k \in DOMAIN labels : labels[k].key \in EndsInLe}
  IN  IF hits = {} THEN Word ELSE labels[Min(hits)].value

Sample(line, name) == Named(line, name) /\ Field(line) # Junk

BucketSample(line) ==
  Sample(line, "metric_bucket") /\ extractLabel(line.labels) \in Boundaries

FirstLineWins(line) ==   \* mutant: a bucket that is there is left alone
  [le \in Boundaries |->
     IF BucketSample(line) /\ le = extractLabel(line.labels) /\ buckets[le] = Unseen
     THEN Field(line) ELSE buckets[le]]

\* h.Buckets[le] = value
bucketsAfter(line) ==
  [le \in Boundaries |->
     IF BucketSample(line) /\ le = extractLabel(line.labels)
     THEN Field(line) ELSE buckets[le]]

ParseMetricLine ==
  /\ pc = "parsing" /\ zombies /\ next <= Len(page)
  /\ next' = next + 1
  /\ IF Sample(page[next], "metric")
     THEN total' = total + Field(page[next]) /\ found' = TRUE
     ELSE UNCHANGED <<total, found>>
  /\ UNCHANGED <<block, ctxDone, pc, buckets, count, verdict>>

ParseHistogramLine ==
  /\ pc = "parsing" /\ ~zombies /\ next <= Len(page)
  /\ next' = next + 1
  /\ buckets' = bucketsAfter(page[next])
  /\ count' = IF Sample(page[next], "metric_count") THEN Field(page[next]) ELSE count
  /\ UNCHANGED <<block, ctxDone, pc, total, found, verdict>>

-----------------------------------------------------------------------------
(* The verdicts *)

JudgeMetric ==
  /\ pc = "parsing" /\ zombies /\ next > Len(page)
  /\ IF ~found THEN Fails                          \* ErrMetricNotFound
     ELSE Ends(IF total > limits.threshold THEN "breach" ELSE "pass")
  /\ UNCHANGED <<block, ctxDone, parseVars>>

BelowOrEqual(within, n) ==   \* mutant: the minimum itself is a breach
  within * limits.den <= limits.num * n

\* within / count < min_ratio.  With a count of zero the quotient is NaN or
\* +Inf, which is not less than anything: here neither side is less either.
Below(within, n) == within * limits.den < limits.num * n

SlaVerdict(within, n) ==
  IF n < limits.minSamples THEN "too few"
  ELSE IF within = Unseen THEN "no bucket"
  ELSE IF Below(within, n) THEN "breach" ELSE "pass"

JudgeHistogram ==
  /\ pc = "parsing" /\ ~zombies /\ next > Len(page)
  /\ IF count = Unseen THEN Fails                  \* ErrMetricNotFound
     ELSE Ends(SlaVerdict(IF limits.sla \in Boundaries THEN buckets[limits.sla] ELSE Unseen,
                          count))
  /\ UNCHANGED <<block, ctxDone, parseVars>>

evaluate == \/ FetchFails \/ Fetch
            \/ ParseMetricLine \/ JudgeMetric
            \/ ParseHistogramLine \/ JudgeHistogram

EndRun ==
  /\ ~ctxDone /\ ctxDone' = TRUE
  /\ UNCHANGED <<block, pc, parseVars, verdict>>

Terminated == pc = "done" /\ UNCHANGED vars

Next == ReadParams \/ evaluate \/ EndRun \/ Terminated

Spec == Init /\ [][Next]_vars

-----------------------------------------------------------------------------
(* Properties *)

Judged == {"pass", "breach", "too few", "no bucket"}

TypeOK ==
  /\ export.check \in Checks /\ page \in Seq(Lines) /\ limits \in Limits
  /\ ctxDone \in BOOLEAN
  /\ pc \in {"starting", "fetching", "parsing", "done"}
  /\ next \in 1..(Len(page) + 1)
  /\ total \in Nat /\ found \in BOOLEAN
  /\ buckets \in [Boundaries -> Nat \cup {Unseen}] /\ count \in Nat \cup {Unseen}
  /\ verdict \in Judged \cup {"none", "rejected", "dropped", "scrape error"}
  /\ pc = "fetching" => limits.parses /\ (zombies \/ limits.num \in 0..limits.den)

LastValue(lines) == IF lines = {} THEN Unseen ELSE Field(page[Max(lines)])

\* Whatever the page, in whatever order: a bucket is the last usable line with
\* its boundary, the count is the last usable count line, and a metric is
\* found when any line of it was usable (wclient.go:143-188, 426-482).
LastLineWins ==
  LET read == 1..(next - 1) IN
  /\ zombies => found = (\E k \in read : Sample(page[k], "metric"))
  /\ ~zombies =>
       /\ count = LastValue({k \in read : Sample(page[k], "metric_count")})
       /\ \A le \in Boundaries :
            buckets[le] = LastValue({k \in read : /\ BucketSample(page[k])
                                                  /\ extractLabel(page[k].labels) = le})

Series == DOMAIN export.series
Shown == {s \in Series :
            \A k \in DOMAIN export.series[s].labels : export.series[s].labels[k].value # Braced}
Shadowed == {s \in Series :
               \E k \in DOMAIN export.series[s].labels : export.series[s].labels[k].key \in EndsInLe}

\* The zombies a set of series counts: as many units as its values add up to.
Zombies(series) == UNION {{s} \X (1..export.series[s].value) : s \in series}

\* From the target's series to the verdict: zombies_zero compares the sum of
\* the series that the parser can read.  A series with a closing brace in a
\* label value (and no number behind it) is missing from the sum, which is then
\* short of the target's.
ZombieVerdictIsTheSum ==
  zombies /\ verdict \in Judged =>
    /\ Shown # {}
    /\ verdict = "breach" <=> Cardinality(Zombies(Shown)) > limits.threshold

\* The verdict is that of the last readable series: it is in breach when a
\* sample is there and the share within the SLA is too small.
JudgesTheLastSeries ==
  /\ Shown # {}
  /\ LET last == export.series[Max(Shown)] IN
     /\ verdict = "too few" <=> last.count < limits.minSamples
     /\ verdict = "no bucket" <=>
          last.count >= limits.minSamples /\ limits.sla \notin Boundaries
     /\ verdict = "breach" <=>
          /\ last.count >= limits.minSamples /\ limits.sla \in Boundaries
          /\ last.count > 0
          /\ last.within[limits.sla] * limits.den < limits.num * last.count

\* From the target's series to the verdict: of several series
\* respawn_within_sla judges the last readable one and no other, with a bucket
\* and a count of that one.  Without a sample it is never in breach, also where
\* min_samples is 0, which respawn_within_sla.go:143-145 gives as the way to
\* have that case flagged.
SlaVerdictIsTheLastSeries ==
  ~zombies /\ verdict \in Judged /\ Shadowed = {} => JudgesTheLastSeries

-----------------------------------------------------------------------------
(* What the repository's text says and the code does not do. *)

\* wclient.go:403-405, "Labels other than le are tolerated but ignored", and
\* 523-525, extractLabel "pulls the value of `key="..."` out of a Prometheus
\* labels block": whatever other labels a series has, a key that ends in le
\* among them, the verdict is that of its buckets.
OtherLabelsIgnored == ~zombies /\ verdict \in Judged => JudgesTheLastSeries
=============================================================================
