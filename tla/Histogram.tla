----------------------------- MODULE Histogram -----------------------------
(***************************************************************************)
(* The percentiles that the collector takes from a scraped histogram:      *)
(* ExtractHistogram collects the buckets of a family, sorts them by their  *)
(* bound and looks for the rank of 50, 90 and 99 percent.                  *)
(*                                                                         *)
(* A family has one series, or one per peer (the round trip times), whose  *)
(* buckets are thrown together; the sort is not stable, so buckets of one  *)
(* bound come in any order.  Floating-point numbers are exact fractions    *)
(* here; the text of the scrape and the change of units are left out.      *)
(***************************************************************************)
EXTENDS Naturals, SequencesExt, Enumerations

CONSTANTS
  Bounds,     \* finite bounds of the buckets
  Counts,     \* counts a bucket may have
  MaxSeries,  \* bounds the series of a family
  NotYet      \* nothing was extracted

ASSUME HistogramAssumption ==
  /\ Bounds \subseteq Nat \ {0} /\ Bounds # {} /\ IsFiniteSet(Bounds)
  /\ Counts \subseteq Nat /\ MaxSeries \in Nat \ {0}

VARIABLES
  family,     \* for each series its cumulative count at each bound
  snapshot    \* what is stored of it

histVars == <<family, snapshot>>

Inf == Max(Bounds) + 1
Les == Bounds \cup {Inf}
Ascending == InOrder(Les)
Series == {f \in [Les -> Counts] : \A a, b \in Les : a <= b => f[a] <= f[b]}
Percentages == {50, 90, 99}

Fraction == [num : Nat, den : Nat \ {0}]
Snapshot == [count : Counts, at : [{} -> Fraction] \cup [Percentages -> Fraction]]

HistTypeOK ==
  /\ family \in Seq(Series) /\ Len(family) <= MaxSeries
  /\ snapshot = NotYet \/ snapshot \in Snapshot

HistInit == family = <<>> /\ snapshot = NotYet

-----------------------------------------------------------------------------

\* Bounds ascend, and the series of one bound come in the given order.
Sorted(order) ==
  LET n == Len(family)
      Bucket(le, s) == [le |-> le, count |-> family[s][le]]
  IN [i \in 1..(Len(Ascending) * n) |->
        LET le == Ascending[((i - 1) \div n) + 1] IN Bucket(le, order[le][((i - 1) % n) + 1])]

BeforeNothing(buckets, i) == [le |-> 0, count |-> 0]

\* The bucket below: the lower bound of the next one.
Before(buckets, i) == IF i = 1 THEN [le |-> 0, count |-> 0] ELSE buckets[i - 1]

\* Interpolated in the first finite bucket that reaches the rank; the last finite bound
\* if none does.
Percentile(buckets, p) ==
  LET rank == p * Last(buckets).count
      finite == {i \in DOMAIN buckets : buckets[i].le # Inf}
      reaching == {i \in finite : 100 * buckets[i].count >= rank}
  IN IF reaching = {} THEN [num |-> buckets[Max(finite)].le, den |-> 1]
     ELSE LET i == Min(reaching)
              low == Before(buckets, i)
              grown == 100 * (buckets[i].count - low.count)
          IN [num |-> low.le * grown + (buckets[i].le - low.le) * (rank - 100 * low.count),
              den |-> grown]

ExtractedFromNone(buckets) ==
  [count |-> Last(buckets).count, at |-> [p \in Percentages |-> Percentile(buckets, p)]]

\* The count of the last bucket is the total; without observations there are no
\* percentiles.
Extracted(buckets) ==
  [count |-> Last(buckets).count,
   at |-> [p \in IF Last(buckets).count = 0 THEN {} ELSE Percentages |-> Percentile(buckets, p)]]

Scrape(f) ==
  /\ family = <<>>
  /\ family' = f
  /\ UNCHANGED snapshot

ExtractHistogram ==
  /\ family # <<>> /\ snapshot = NotYet
  /\ \E order \in [Les -> SetToSeqs(DOMAIN family)] : snapshot' = Extracted(Sorted(order))
  /\ UNCHANGED family

\* Every scrape begins with a new snapshot.
HistEnd ==
  /\ snapshot # NotYet
  /\ family' = <<>> /\ snapshot' = NotYet

HistNext ==
  \/ \E n \in 1..MaxSeries : \E f \in [1..n -> Series] : Scrape(f)
  \/ ExtractHistogram \/ HistEnd

-----------------------------------------------------------------------------

AtMost(x, y) == x.num * y.den <= y.num * x.den
Whole(n) == [num |-> n, den |-> 1]

(* A percentile of a single series lies on the side of each bound on which   *)
(* the rank lies: not above a bound that p percent of the observations are  *)
(* within, not below one that fewer are within (a rank beyond all bounds is *)
(* shown as the last one).  Also where the buckets of several peers are     *)
(* mixed in any order, p50, p90 and p99 ascend and stay within the bounds.  *)
PercentilesRight ==
  snapshot # NotYet =>
    \A p \in DOMAIN snapshot.at :
      LET value == snapshot.at[p] IN
      /\ \A q \in Percentages : p <= q => AtMost(value, snapshot.at[q])
      /\ AtMost(value, Whole(Max(Bounds)))
      /\ Len(family) = 1 =>
           \A b \in Bounds :
             IF 100 * family[1][b] >= p * family[1][Inf]
             THEN AtMost(value, Whole(b)) ELSE AtMost(Whole(b), value)
=============================================================================
