------------------------------ MODULE MCScrape ------------------------------
(***************************************************************************)
(* Values for Scrape: targets with one and two series under every labelling *)
(* the parser can stumble over, a metric whose name goes on, a line without *)
(* a number, and pages of a few lines in any order.                         *)
(***************************************************************************)
EXTENDS Scrape, SequencesExt

Inf == 9

MCBoundaries == {1, 2, Inf}
MCKeys == {"le", "role", "tenant"}
MCEndsInLe == {"le", "role"}

Label(key, value) == <<[key |-> key, value |-> value]>>

Labellings == {<<>>, Label("tenant", Word), Label("tenant", Braced),
               Label("role", Word), Label("role", 1)}

\* Other lines of the page, which are no samples of the metric.
Other == {[name |-> "metric_more", labels |-> <<>>, value |-> 2],
          [name |-> "metric", labels |-> <<>>, value |-> Junk]}

SomeGauges == [labels : Labellings, value : 0..2]

\* Cumulative: what is within a boundary is within the larger ones.
SomeHistograms == {[labels |-> l, within |-> w @@ Inf :> n, count |-> n] :
                 l \in Labellings, n \in 0..2, w \in [{1, 2} -> 0..2]}

Possible == {h \in SomeHistograms : h.within[1] <= h.within[2] /\ h.within[2] <= h.count}

OneOrTwo(S) == {<<s>> : s \in S} \cup (S \X S)

Block(h) == <<BucketLine(h, 1), BucketLine(h, 2), BucketLine(h, Inf), SumLine(h), CountLine(h)>>

\* The other line first, then a line per series.
GaugePage(series, other) ==
  [check |-> "zombies_zero", series |-> series,
   page |-> <<other>> \o [s \in DOMAIN series |-> GaugeLine(series[s])],
   owner |-> <<Nobody>> \o [s \in DOMAIN series |-> s]]

\* Five lines per series.
HistogramPage(series) ==
  [check |-> "respawn_within_sla", series |-> series,
   page |-> FlattenSeq([s \in DOMAIN series |-> Block(series[s])]),
   owner |-> [k \in 1..(5 * Len(series)) |-> ((k - 1) \div 5) + 1]]

MCExports == {GaugePage(s, o) : s \in OneOrTwo(SomeGauges), o \in Other}
             \cup {HistogramPage(s) : s \in OneOrTwo(Possible)}

Limit(parses, threshold, sla, num, den, min) ==
  [parses |-> parses, threshold |-> threshold, sla |-> sla, num |-> num, den |-> den,
   minSamples |-> min]

MCLimits == {Limit(TRUE, 1, 1, 1, 2, 0), Limit(TRUE, 0, 2, 1, 1, 2), Limit(TRUE, 2, 5, 1, 2, 1),
             Limit(TRUE, 0, 1, 3, 2, 0), Limit(FALSE, 0, 1, 1, 1, 1)}
=============================================================================
