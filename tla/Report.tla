-------------------------------- MODULE Report --------------------------------
(***************************************************************************)
(* cmd/report: the rows of the sample table, folded by internal/stats into *)
(* one aggregate per trade size and direction, and what is printed of      *)
(* them.  The report reads the table in one SELECT, in the order of time,  *)
(* while the monitor may be writing.                                       *)
(*                                                                         *)
(* A row is [ts, size, include, gross, net, grossAdj, netAdj, chg, ok,     *)
(* bucket], the edges by direction.  It also has an origin, which the code *)
(* cannot see: whether the basis correction existed when it was recorded.  *)
(***************************************************************************)
EXTENDS Windows, Edges

CONSTANTS Times,         \* time stamps a row may have
          RowKinds,      \* rows, before they get their stamps
          OddKinds,      \* those of them that are excluded or legacy
          MaxRows,       \* bound: rows in the table
          MaxOdd,        \* bound: odd ones among them
          Fallback,      \* -momentum-threshold, and the pairs' own threshold
          Hour           \* the length of an hour

ASSUME ReportAssumption ==
    /\ Times \subseteq Nat
    /\ OddKinds \subseteq RowKinds
    /\ {MaxRows, MaxOdd, Fallback} \subseteq Nat
    /\ Hour \in Nat \ {0}

Directions == {"buy_dex_sell_cex", "buy_cex_sell_dex"}
Edge == [Directions -> Int]
RowType == [ ts : Nat, origin : {"legacy", "modern"}, include : BOOLEAN, size : Nat,
             gross : Edge, net : Edge, grossAdj : Edge, netAdj : Edge,
             ok : BOOLEAN, chg : Int, bucket : {"", "down", "flat", "up"} ]

\* A trade costs something, in either direction.
Costly(gross, net) == \A d \in Directions : net[d] < gross[d]

\* Rows the engine can have written, at costs above 0.  Before the correction its
\* fields were 0, and one direction or the other had a raw net edge; a bucket
\* that is stored is that of the pair's threshold.
ASSUME RowsAssumption ==
    \A kind \in RowKinds :
        /\ kind \in RowType /\ kind.ts = 0
        /\ IF kind.origin = "modern" THEN Costly(kind.grossAdj, kind.netAdj)
           ELSE /\ \A d \in Directions : kind.grossAdj[d] = 0 /\ kind.netAdj[d] = 0
                /\ \E d \in Directions : kind.net[d] # 0
        /\ kind.bucket \in {"", BucketMomentum(kind.chg, Fallback)}

VARIABLES rows,            \* the table in the order of ts
          includeExcluded, \* -include-excluded
          aggs,            \* the aggregates by key
          printed          \* the report is out

reportVars == <<rows, includeExcluded, aggs, printed>>

(***************************************************************************)
(* record.                                                                 *)
(***************************************************************************)
LegacyByGross(r) ==
    /\ \A d \in Directions : r.grossAdj[d] = 0
    /\ \E d \in Directions : r.net[d] # 0
Legacy(r) ==
    /\ \A d \in Directions : r.grossAdj[d] = 0 /\ r.netAdj[d] = 0
    /\ \E d \in Directions : r.net[d] # 0

KeyOf(r, d) == <<r.size, d>>

Entry(r, d) ==
    [ ts |-> r.ts, raw |-> r.net[d], ok |-> r.ok, chg |-> r.chg, bucket |-> r.bucket,
      gross |-> IF Legacy(r) THEN r.gross[d] ELSE r.grossAdj[d],
      net   |-> IF Legacy(r) THEN r.net[d] ELSE r.netAdj[d] ]

NewAgg == [entries |-> <<>>, excluded |-> 0]

CountedAndKept(a, r, d, all) ==
    [ entries  |-> Append(a.entries, Entry(r, d)),
      excluded |-> IF r.include \/ all THEN a.excluded ELSE a.excluded + 1 ]
Added(a, r, d, all) ==
    IF r.include \/ all THEN [a EXCEPT !.entries = Append(@, Entry(r, d))]
                        ELSE [a EXCEPT !.excluded = @ + 1]

Record(as, r, all) ==
    LET keys == {KeyOf(r, d) : d \in Directions}
        agg(k) == IF k \in DOMAIN as THEN as[k] ELSE NewAgg
    IN  [k \in DOMAIN as \cup keys |->
            IF k \in keys THEN Added(agg(k), r, k[2], all) ELSE as[k]]

NoAggs == [k \in {} |-> NewAgg]

\* The aggregates after n rows.
Loads(table, all) ==
    LET after[n \in 0 .. Len(table)] ==
            IF n = 0 THEN NoAggs ELSE Record(after[n - 1], table[n], all)
    IN  after
LoadStore(table, all) == Loads(table, all)[Len(table)]

\* Those of a sequence's members that are in a set, in their order.
PickedAlso(picked, x, members) == IF x \in members THEN Append(picked, x) ELSE picked
Picks(q, members) ==
    LET picked[n \in 0 .. Len(q)] ==
            IF n = 0 THEN <<>> ELSE PickedAlso(picked[n - 1], q[n], members)
    IN  picked
Picked(q, members) == Picks(q, members)[Len(q)]

(***************************************************************************)
(* The tables.                                                             *)
(***************************************************************************)
Column(entries, of(_)) == [i \in DOMAIN entries |-> of(entries[i])]
Gross(entries) == Column(entries, LAMBDA e : e.gross)
Net(entries) == Column(entries, LAMBDA e : e.net)
NetRaw(entries) == Column(entries, LAMBDA e : e.raw)

\* FindWindows and FindWindowsRaw.
Canonical(entries) == Column(entries, LAMBDA e : [ts |-> e.ts, net |-> e.net])
Raw(entries) == Column(entries, LAMBDA e : [ts |-> e.ts, net |-> e.raw])

\* Report's columns of one series.
Summary(q) == LET s == Sorted(q)
              IN  [p \in {50, 95, 100} |-> Percentile(s, p)]

RebucketedAtTheEdge(chg) ==
    IF chg <= -Fallback THEN "down" ELSE IF chg > Fallback THEN "up" ELSE "flat"
\* ReportMomentum: a row without a stored bucket is put into one here.
Rebucketed(chg) ==
    IF chg < -Fallback THEN "down" ELSE IF chg > Fallback THEN "up" ELSE "flat"

Cell(e) ==
    CASE ~e.ok -> "no-mom"
      [] e.ok /\ e.bucket # "" -> e.bucket
      [] OTHER -> Rebucketed(e.chg)

\* ReportHourly: the hours with samples, and the samples of one.
HourOf(e) == e.ts \div Hour
Hours(entries) == {HourOf(entries[i]) : i \in DOMAIN entries}
InHour(entries, h) == Picked(entries, {e \in Range(entries) : HourOf(e) = h})

(***************************************************************************)
(* The table grows; at some moment it is reported on.                      *)
(***************************************************************************)
Init ==
    /\ rows = <<>>
    /\ includeExcluded = FALSE
    /\ aggs = NoAggs
    /\ printed = FALSE

Odd(kind) == kind \in OddKinds
OddRows == {n \in DOMAIN rows : Odd([rows[n] EXCEPT !.ts = 0])}

Write(ts, kind) ==
    /\ ~printed
    /\ Len(rows) < MaxRows
    /\ Odd(kind) => Cardinality(OddRows) < MaxOdd
    /\ rows # <<>> => rows[Len(rows)].ts <= ts
    /\ rows' = Append(rows, [kind EXCEPT !.ts = ts])
    /\ UNCHANGED <<includeExcluded, aggs, printed>>

Publish(all) ==
    /\ ~printed
    /\ includeExcluded' = all
    /\ aggs' = LoadStore(rows, all)
    /\ printed' = TRUE
    /\ UNCHANGED rows

Next == \/ \E ts \in Times, kind \in RowKinds : Write(ts, kind)
        \/ \E all \in BOOLEAN : Publish(all)

Spec == Init /\ [][Next]_reportVars

(***************************************************************************)
(* Properties.                                                             *)
(***************************************************************************)
Series == {Canonical(aggs[k].entries) : k \in DOMAIN aggs}
              \cup {Raw(aggs[k].entries) : k \in DOMAIN aggs}

\* On the corrected edge and on the raw one, the single pass finds exactly the
\* maximal positive runs, each once and in order of time, with equal stamps,
\* zero nets, excluded rows and outages wherever they fall, and so never
\* bridges more than three median gaps (windows.go:50-54, 95-115).
WindowsAreRuns ==
    \A s \in Series :
        LET windows == FindWindows(s)
            runs == MaximalRuns(s)
        IN  /\ Len(windows) = Cardinality(runs)
            /\ \A r \in runs :
                  LET before == Cardinality({q \in runs : q[1] < r[1]})
                  IN  IsWindowOf(s, windows[before + 1], r)

Counts(r) == r.include \/ includeExcluded
RowsOf(k) == Picked(rows, {r \in Range(rows) : r.size = k[1]})
CountedRows(k) == Picked(rows, {r \in Range(rows) : r.size = k[1] /\ Counts(r)})

\* An excluded row changes nothing in any table but the count of excluded rows:
\* what is reported is what would be reported had it never been recorded, and
\* every row is counted once (stats.go:86-89; README, "exclude_reason").
ExcludedLeaveNoTrace ==
    printed =>
        LET clean == LoadStore(Picked(rows, {r \in Range(rows) : Counts(r)}), FALSE)
            all == LoadStore(rows, TRUE)
        IN  \A k \in DOMAIN all :
               /\ k \in DOMAIN aggs
               /\ aggs[k].excluded = Len(RowsOf(k)) - Len(CountedRows(k))
               /\ includeExcluded => aggs[k] = all[k]
               /\ ~includeExcluded => aggs[k].entries =
                      IF k \in DOMAIN clean THEN clean[k].entries ELSE <<>>

\* The zeros of the corrected fields tell the age of a row: no row recorded with
\* the correction falls back to its raw edges, however many of its corrected
\* edges are 0, and every row recorded before it does (stats.go:62-66, 90-93).
LegacyTold ==
    printed =>
        \A k \in DOMAIN aggs : \A i \in DOMAIN aggs[k].entries :
            LET r == CountedRows(k)[i]
                e == aggs[k].entries[i]
            IN  IF r.origin = "legacy"
                THEN e.net = r.net[k[2]] /\ e.gross = r.gross[k[2]]
                ELSE e.net = r.netAdj[k[2]] /\ e.gross = r.grossAdj[k[2]]

\* A row recorded before buckets were stored falls where the engine would have
\* put it with the same threshold, also at the threshold itself, and rows
\* without momentum fall nowhere (diagnostics.go:87-109, sample.go BucketMomentum).
BucketsAgree ==
    \A k \in DOMAIN aggs : \A i \in DOMAIN aggs[k].entries :
        LET e == aggs[k].entries[i]
        IN  Cell(e) = IF e.ok THEN BucketMomentum(e.chg, Fallback) ELSE "no-mom"

\* x, times 100, cuts q at p percent: more than p percent of the other members
\* are not above it, and more than the rest are not below it.
CutsAt(q, x, p) ==
    LET Is(P(_)) == 100 * Cardinality({i \in DOMAIN q : P(100 * q[i])})
    IN  /\ Is(LAMBDA v : v <= x) > p * (Len(q) - 1)
        /\ Is(LAMBDA v : v >= x) > (100 - p) * (Len(q) - 1)

SummaryRight(q) == q # <<>> => \A p \in {50, 95, 100} : CutsAt(q, Summary(q)[p], p)

\* The medians, 95th percentiles and maxima of the edges and of the durations of
\* the windows, and the hourly medians, corrected and raw, each cut their column
\* where they say, for one sample or several and an even or an odd number; the
\* edge-weighted mean duration is among the durations.  Where between two
\* neighbours a rank falls is not said (stats.go:98-110, windows.go:121-136,
\* diagnostics.go:153-176).
WindowRanksRight(series) ==
    LET windows == FindWindows(series)
        ew == EdgeWeighted(windows)
    IN  /\ SummaryRight(Durations(windows))
        /\ windows # <<>> =>
              /\ \E i \in DOMAIN windows : windows[i].duration * ew.den <= ew.num
              /\ \E i \in DOMAIN windows : windows[i].duration * ew.den >= ew.num
HourlyMedianRight(q) == CutsAt(q, Summary(q)[50], 50)

RanksRight ==
    \A k \in DOMAIN aggs :
        LET entries == aggs[k].entries
        IN  /\ SummaryRight(Gross(entries))
            /\ SummaryRight(Net(entries))
            /\ SummaryRight(NetRaw(entries))
            /\ WindowRanksRight(Canonical(entries)) /\ WindowRanksRight(Raw(entries))
            /\ \A h \in Hours(entries) :
                  /\ HourlyMedianRight(Net(InHour(entries, h)))
                  /\ HourlyMedianRight(NetRaw(InHour(entries, h)))

(***************************************************************************)
(* What the repository says and the code does not do.                      *)
(***************************************************************************)

\* windows.go:13: "Duration is an UPPER BOUND: the true window could have
\* started just after the previous (non-positive) sample and ended just before
\* the next one" (windows.go:90).
DurationIsUpperBound ==
    \A s \in Series : \A r \in MaximalRuns(s) :
        r[1] > 1 /\ r[2] < Len(s) =>
            \A i \in DOMAIN FindWindows(s) :
                IsWindowOf(s, FindWindows(s)[i], r) =>
                    FindWindows(s)[i].duration >= s[r[2] + 1].ts - s[r[1] - 1].ts
===============================================================================
