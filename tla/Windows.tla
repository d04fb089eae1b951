-------------------------------- MODULE Windows --------------------------------
(***************************************************************************)
(* findWindows of internal/stats: the net-positive samples of one series,  *)
(* grouped into profitable windows in one pass over the sorted series.     *)
(*                                                                         *)
(* A series is a sequence of [ts, net] in the order of time; equal stamps  *)
(* come in any order, as sort.Slice leaves them.  The clock unit is the    *)
(* millisecond that stands in for a median gap of 0.                       *)
(***************************************************************************)
EXTENDS Integers, Sequences, FiniteSets, Functions

(***************************************************************************)
(* Order statistics.                                                       *)
(***************************************************************************)
Unsorted(q) == q

\* sort.Float64s: in the k-th place stands the value that fewer than k members
\* are below and at least k are not above.
Sorted(q) ==
    [k \in DOMAIN q |->
        CHOOSE v \in Range(q) :
            /\ Cardinality({i \in DOMAIN q : q[i] < v}) < k
            /\ Cardinality({i \in DOMAIN q : q[i] <= v}) >= k]

\* percentile, times 100: linear between the two nearest ranks.
Percentile(sorted, p) ==
    LET idx == p * (Len(sorted) - 1)
        lo == idx \div 100
        frac == idx % 100
    IN  IF frac = 0 THEN 100 * sorted[lo + 1]
        ELSE sorted[lo + 1] * (100 - frac) + sorted[lo + 2] * frac

(***************************************************************************)
(* The resolution of the series.                                           *)
(***************************************************************************)
GapAfter(series, i) == series[i + 1].ts - series[i].ts

Gaps(series) == [i \in 1 .. Len(series) - 1 |-> GapAfter(series, i)]

\* The upper median of the gaps.
MedianGap(series) == Sorted(Gaps(series))[(Len(series) - 1) \div 2 + 1]

SingleSpacing == 2000    \* 2 s, when there is no gap at all

Spacing(series) ==
    IF Len(series) < 2 THEN SingleSpacing
    ELSE IF MedianGap(series) <= 0 THEN 1 ELSE MedianGap(series)

MaxBridge(series) == 3 * Spacing(series)

(***************************************************************************)
(* The loop, turn by turn: *cur with curSum, and the windows flushed.      *)
(***************************************************************************)
NoWindow == [start |-> 0, end |-> 0, samples |-> 0, sum |-> 0, top |-> 0]
Open(w) == w.samples > 0

Flushed(windows, w, extension) ==
    IF Open(w)
    THEN Append(windows, [ start |-> w.start, end |-> w.end, samples |-> w.samples,
                           sum |-> w.sum, top |-> w.top,
                           duration |-> w.end - w.start + extension ])
    ELSE windows

Joined(w, p) ==
    [ start   |-> IF Open(w) THEN w.start ELSE p.ts,
      end     |-> p.ts,
      samples |-> w.samples + 1,
      sum     |-> w.sum + p.net,
      top     |-> IF Open(w) /\ w.top > p.net THEN w.top ELSE p.net ]

GapFromStart(w, p, bridge) == Open(w) /\ p.ts - w.start > bridge
DataGap(w, p, bridge) == Open(w) /\ p.ts - w.end > bridge

Turn(acc, p, spacing) ==
    LET ends == p.net <= 0 \/ DataGap(acc.cur, p, 3 * spacing)
        kept == IF ends THEN NoWindow ELSE acc.cur
    IN  [ windows |-> IF ends THEN Flushed(acc.windows, acc.cur, spacing) ELSE acc.windows,
          cur     |-> IF p.net > 0 THEN Joined(kept, p) ELSE kept ]

\* Where the loop stands after n samples.
Turns(series, spacing) ==
    LET after[n \in 0 .. Len(series)] ==
            IF n = 0 THEN [windows |-> <<>>, cur |-> NoWindow]
                     ELSE Turn(after[n - 1], series[n], spacing)
    IN  after

FindWindows(series) ==
    LET spacing == Spacing(series)
        last == Turns(series, spacing)[Len(series)]
    IN  Flushed(last.windows, last.cur, spacing)

(***************************************************************************)
(* What is reported of them.                                               *)
(***************************************************************************)
Sums(q) ==
    LET sum[n \in 0 .. Len(q)] == IF n = 0 THEN 0 ELSE sum[n - 1] + q[n]
    IN  sum
Total(q) == Sums(q)[Len(q)]

MeanScale == 60          \* bound: windows of up to six samples have whole means
MeanNet(w) == (w.sum * MeanScale) \div w.samples

Durations(windows) == [i \in DOMAIN windows |-> windows[i].duration]
TotalPos(windows) == Total(Durations(windows))

\* The edge-weighted mean duration, as a fraction.
EdgeWeighted(windows) ==
    [ num |-> Total([i \in DOMAIN windows |-> windows[i].duration * MeanNet(windows[i])]),
      den |-> Total([i \in DOMAIN windows |-> MeanNet(windows[i])]) ]

(***************************************************************************)
(* What the windows should be, without the loop.                           *)
(***************************************************************************)

\* i..j is a run: positive throughout, with no data gap inside.
Run(series, i, j) ==
    /\ \A m \in i .. j : series[m].net > 0
    /\ \A m \in i .. j - 1 : GapAfter(series, m) <= MaxBridge(series)

\* and one that no neighbour can join.
MaximalRuns(series) ==
    {r \in (DOMAIN series) \X (DOMAIN series) :
        /\ r[1] <= r[2]
        /\ Run(series, r[1], r[2])
        /\ r[1] > 1 => ~Run(series, r[1] - 1, r[2])
        /\ r[2] < Len(series) => ~Run(series, r[1], r[2] + 1)}

IsWindowOf(series, w, r) ==
    LET nets == [i \in 1 .. r[2] - r[1] + 1 |-> series[r[1] + i - 1].net]
    IN  /\ w.start = series[r[1]].ts
        /\ w.end = series[r[2]].ts
        /\ w.samples = Len(nets)
        /\ w.sum = Total(nets)
        /\ w.top = Sorted(nets)[Len(nets)]
        /\ w.duration = w.end - w.start + Spacing(series)
===============================================================================
