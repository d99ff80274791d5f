----------------------------- MODULE Exposition -----------------------------
(***************************************************************************)
(* The page a target serves for its series, in the Prometheus text format: *)
(* a gauge is a line per series; a histogram is, series after series, a    *)
(* line per bucket with le behind the other labels, a sum and a count.     *)
(* What else is on the page may stand anywhere.  An export e has its       *)
(* series, its page and, for each line of the page, its owner: the series  *)
(* the line is of, or Nobody.                                              *)
(***************************************************************************)
EXTENDS Integers, Sequences

Nobody == 0

Line(name, labels, value) == [name |-> name, labels |-> labels, value |-> value]

GaugeLine(s) == Line("metric", s.labels, s.value)
BucketLine(s, le) ==
  Line("metric_bucket", Append(s.labels, [key |-> "le", value |-> le]), s.within[le])
SumLine(s) == Line("metric_sum", s.labels, s.count)
CountLine(s) == Line("metric_count", s.labels, s.count)

LinesOf(e, s) == {k \in DOMAIN e.page : e.owner[k] = s}

\* Each series has its line, and no second one.
ShowsGauge(e) ==
  \A s \in DOMAIN e.series :
    \E k \in LinesOf(e, s) : LinesOf(e, s) = {k} /\ e.page[k] = GaugeLine(e.series[s])

\* The lines of a series stand together.
InOrder(e) ==
  \A j, k \in DOMAIN e.page :
    j < k /\ Nobody \notin {e.owner[j], e.owner[k]} => e.owner[j] <= e.owner[k]

\* Each series has its buckets, its sum and its count, and nothing else.
ShowsHistogram(e, boundaries) ==
  /\ \A s \in DOMAIN e.series :
       {e.page[k] : k \in LinesOf(e, s)} =
         {BucketLine(e.series[s], le) : le \in boundaries}
           \cup {SumLine(e.series[s]), CountLine(e.series[s])}
  /\ InOrder(e)
=============================================================================
