---------------------------- MODULE Report_proofs ----------------------------
(***************************************************************************)
(* The report over every table of rows: what is counted, which row is told *)
(* to be old, where a sample is bucketed, that the windows found are the   *)
(* maximal runs of their series, and that the ranks printed are those of   *)
(* their columns.                                                          *)
(*                                                                         *)
(* The recursive functions of the model are unfolded step by step; what    *)
(* they compute is shown by the least number principle: a set that holds 0 *)
(* and n + 1 with every n holds every natural number.                      *)
(***************************************************************************)
EXTENDS Report, SequenceTheorems, FiniteSetTheorems, WellFoundedInduction, TLAPS

(***************************************************************************)
(* Steps, and the functions defined by them.                               *)
(***************************************************************************)
LEMMA Least ==
    ASSUME NEW T \in SUBSET Nat, T # {}
    PROVE  \E m \in T : \A n \in T : m <= n
  <1> DEFINE R == OpToRel(<, Nat)
  <1>1. IsWellFoundedOn(R, Nat)
    BY NatLessThanWellFounded
  <1>2. \A x, y \in Nat : x < y => <<x, y>> \in R
    BY DEF OpToRel
  <1> HIDE DEF R
  <1>3. PICK m \in T : \A n \in T : <<n, m>> \notin R
    BY <1>1, WFMin
  <1>4. ASSUME NEW n \in T PROVE m <= n
    <2>1. n \in Nat /\ m \in Nat
      OBVIOUS
    <2>2. ~(n < m)
      BY <1>2, <1>3, <2>1
    <2> QED
      BY <2>1, <2>2
  <1> QED
    BY <1>4

LEMMA NatSteps ==
    ASSUME NEW S, 0 \in S, \A n \in Nat : n \in S => n + 1 \in S
    PROVE  Nat \subseteq S
  <1> SUFFICES ASSUME Nat \ S # {} PROVE FALSE
    OBVIOUS
  <1>1. PICK m \in Nat \ S : \A n \in Nat \ S : m <= n
    <2> DEFINE T == Nat \ S
    <2>1. T \in SUBSET Nat /\ T # {}
      OBVIOUS
    <2> HIDE DEF T
    <2>2. \E m \in T : \A n \in T : m <= n
      BY <2>1, Least
    <2> QED
      BY <2>2 DEF T
  <1>2. m - 1 \in Nat /\ m - 1 \notin S
    OBVIOUS
  <1> QED
    BY <1>1, <1>2

\* Each recursive function of the model exists, and so takes its steps.
LEMMA SumsSteps ==
    ASSUME NEW q, Len(q) \in Nat
    PROVE  /\ Sums(q)[0] = 0
           /\ \A n \in 1 .. Len(q) : Sums(q)[n] = Sums(q)[n - 1] + q[n]
<1> DEFINE Rule(f, n) ==
               f = [m \in 0 .. n |-> IF m = 0 THEN 0 ELSE f[m - 1] + q[m]]
           S == {n \in Nat : \E f : Rule(f, n)}
<1>1. 0 \in S
  <2>1. Rule([m \in 0 .. 0 |-> 0], 0)
    OBVIOUS
  <2>2. QED BY <2>1
<1>2. ASSUME NEW n \in Nat, n \in S PROVE n + 1 \in S
  <2>1. PICK f : Rule(f, n)
    BY <1>2
  <2> DEFINE g == [m \in 0 .. n + 1 |-> IF m <= n THEN f[m] ELSE f[n] + q[n + 1]]
  <2>2. Rule(g, n + 1)
    BY <2>1
  <2> HIDE DEF g
  <2>3. QED BY <2>2
<1>3. Len(q) \in S
  <2> HIDE DEF S
  <2>1. QED BY <1>1, <1>2, NatSteps
<1>4. PICK f : Rule(f, Len(q))
  BY <1>3
<1>5. Rule(Sums(q), Len(q))
  BY <1>4 DEF Sums
<1>6. QED BY <1>5

LEMMA PicksSteps ==
    ASSUME NEW q, NEW members, Len(q) \in Nat
    PROVE  /\ Picks(q, members)[0] = <<>>
           /\ \A n \in 1 .. Len(q) : Picks(q, members)[n] = PickedAlso(Picks(q, members)[n - 1], q[n], members)
<1> DEFINE Rule(f, n) ==
               f = [m \in 0 .. n |-> IF m = 0 THEN <<>> ELSE PickedAlso(f[m - 1], q[m], members)]
           S == {n \in Nat : \E f : Rule(f, n)}
<1>1. 0 \in S
  <2>1. Rule([m \in 0 .. 0 |-> <<>>], 0)
    OBVIOUS
  <2>2. QED BY <2>1
<1>2. ASSUME NEW n \in Nat, n \in S PROVE n + 1 \in S
  <2>1. PICK f : Rule(f, n)
    BY <1>2
  <2> DEFINE g == [m \in 0 .. n + 1 |-> IF m <= n THEN f[m] ELSE PickedAlso(f[n], q[n + 1], members)]
  <2>2. Rule(g, n + 1)
    BY <2>1
  <2> HIDE DEF g
  <2>3. QED BY <2>2
<1>3. Len(q) \in S
  <2> HIDE DEF S
  <2>1. QED BY <1>1, <1>2, NatSteps
<1>4. PICK f : Rule(f, Len(q))
  BY <1>3
<1>5. Rule(Picks(q, members), Len(q))
  BY <1>4 DEF Picks
<1>6. QED BY <1>5

LEMMA LoadsSteps ==
    ASSUME NEW table, NEW all, Len(table) \in Nat
    PROVE  /\ Loads(table, all)[0] = NoAggs
           /\ \A n \in 1 .. Len(table) : Loads(table, all)[n] = Record(Loads(table, all)[n - 1], table[n], all)
<1> DEFINE Rule(f, n) ==
               f = [m \in 0 .. n |-> IF m = 0 THEN NoAggs ELSE Record(f[m - 1], table[m], all)]
           S == {n \in Nat : \E f : Rule(f, n)}
<1>1. 0 \in S
  <2>1. Rule([m \in 0 .. 0 |-> NoAggs], 0)
    OBVIOUS
  <2>2. QED BY <2>1
<1>2. ASSUME NEW n \in Nat, n \in S PROVE n + 1 \in S
  <2>1. PICK f : Rule(f, n)
    BY <1>2
  <2> DEFINE g == [m \in 0 .. n + 1 |-> IF m <= n THEN f[m] ELSE Record(f[n], table[n + 1], all)]
  <2>2. Rule(g, n + 1)
    BY <2>1
  <2> HIDE DEF g
  <2>3. QED BY <2>2
<1>3. Len(table) \in S
  <2> HIDE DEF S
  <2>1. QED BY <1>1, <1>2, NatSteps
<1>4. PICK f : Rule(f, Len(table))
  BY <1>3
<1>5. Rule(Loads(table, all), Len(table))
  BY <1>4 DEF Loads
<1>6. QED BY <1>5

LEMMA TurnsSteps ==
    ASSUME NEW series, NEW spacing, Len(series) \in Nat
    PROVE  /\ Turns(series, spacing)[0] = [windows |-> <<>>, cur |-> NoWindow]
           /\ \A n \in 1 .. Len(series) : Turns(series, spacing)[n] = Turn(Turns(series, spacing)[n - 1], series[n], spacing)
<1> DEFINE Rule(f, n) ==
               f = [m \in 0 .. n |-> IF m = 0 THEN [windows |-> <<>>, cur |-> NoWindow] ELSE Turn(f[m - 1], series[m], spacing)]
           S == {n \in Nat : \E f : Rule(f, n)}
<1>1. 0 \in S
  <2>1. Rule([m \in 0 .. 0 |-> [windows |-> <<>>, cur |-> NoWindow]], 0)
    OBVIOUS
  <2>2. QED BY <2>1
<1>2. ASSUME NEW n \in Nat, n \in S PROVE n + 1 \in S
  <2>1. PICK f : Rule(f, n)
    BY <1>2
  <2> DEFINE g == [m \in 0 .. n + 1 |-> IF m <= n THEN f[m] ELSE Turn(f[n], series[n + 1], spacing)]
  <2>2. Rule(g, n + 1)
    BY <2>1
  <2> HIDE DEF g
  <2>3. QED BY <2>2
<1>3. Len(series) \in S
  <2> HIDE DEF S
  <2>1. QED BY <1>1, <1>2, NatSteps
<1>4. PICK f : Rule(f, Len(series))
  BY <1>3
<1>5. Rule(Turns(series, spacing), Len(series))
  BY <1>4 DEF Turns
<1>6. QED BY <1>5

\* Of nothing, and of a member more.
LEMMA NoneAtFirst ==
    /\ Total(<<>>) = 0
    /\ \A members : Picked(<<>>, members) = <<>>
    /\ \A all : LoadStore(<<>>, all) = NoAggs
<1>1. Len(<<>>) = 0 /\ 0 \in Nat
  OBVIOUS
<1>2. QED BY <1>1, SumsSteps, PicksSteps, LoadsSteps DEF Total, Picked, LoadStore

LEMMA TotalAppend ==
    ASSUME NEW R, NEW q \in Seq(R), NEW x \in R
    PROVE  Total(Append(q, x)) = Total(q) + x
<1> DEFINE A == Append(q, x)
           S == {n \in Nat : n <= Len(q) => Sums(A)[n] = Sums(q)[n]}
<1>1. /\ Len(q) \in Nat /\ Len(A) = Len(q) + 1
      /\ A[Len(q) + 1] = x /\ \A i \in 1 .. Len(q) : A[i] = q[i]
  OBVIOUS
<1> HIDE DEF A
<1>2. /\ Sums(A)[0] = 0 /\ Sums(q)[0] = 0
      /\ \A n \in 1 .. Len(A) : Sums(A)[n] = Sums(A)[n - 1] + A[n]
      /\ \A n \in 1 .. Len(q) : Sums(q)[n] = Sums(q)[n - 1] + q[n]
  BY <1>1, SumsSteps
<1>3. 0 \in S
  BY <1>2
<1>4. ASSUME NEW n \in Nat, n \in S PROVE n + 1 \in S
  <2> SUFFICES ASSUME n + 1 <= Len(q) PROVE Sums(A)[n + 1] = Sums(q)[n + 1]
    OBVIOUS
  <2>1. /\ n + 1 \in 1 .. Len(q) /\ n + 1 \in 1 .. Len(A) /\ (n + 1) - 1 = n
        /\ A[n + 1] = q[n + 1] /\ Sums(A)[n] = Sums(q)[n]
    BY <1>1, <1>4
  <2>2. /\ Sums(A)[n + 1] = Sums(A)[n] + A[n + 1]
        /\ Sums(q)[n + 1] = Sums(q)[n] + q[n + 1]
    BY ONLY <1>2, <2>1
  <2>3. QED BY <2>1, <2>2
<1>5. Len(q) \in S
  <2> HIDE DEF S
  <2>1. QED BY <1>1, <1>3, <1>4, NatSteps
<1>6. Sums(A)[Len(q)] = Sums(q)[Len(q)]
  BY <1>1, <1>5
<1>7. Sums(A)[Len(q) + 1] = Sums(A)[Len(q)] + A[Len(q) + 1]
  <2>1. Len(q) + 1 \in 1 .. Len(A) /\ (Len(q) + 1) - 1 = Len(q)
    BY <1>1
  <2>2. QED BY ONLY <1>2, <2>1
<1>8. QED BY <1>1, <1>6, <1>7 DEF A, Total

LEMMA PickedAppend ==
    ASSUME NEW R, NEW q \in Seq(R), NEW x \in R, NEW members
    PROVE  Picked(Append(q, x), members) =
               IF x \in members THEN Append(Picked(q, members), x) ELSE Picked(q, members)
<1> DEFINE A == Append(q, x)
           S == {n \in Nat : n <= Len(q) => Picks(A, members)[n] = Picks(q, members)[n]}
<1>1. /\ Len(q) \in Nat /\ Len(A) = Len(q) + 1
      /\ A[Len(q) + 1] = x /\ \A i \in 1 .. Len(q) : A[i] = q[i]
  OBVIOUS
<1> HIDE DEF A
<1>2. /\ Picks(A, members)[0] = <<>> /\ Picks(q, members)[0] = <<>>
      /\ \A n \in 1 .. Len(A) : Picks(A, members)[n] = PickedAlso(Picks(A, members)[n - 1], A[n], members)
      /\ \A n \in 1 .. Len(q) : Picks(q, members)[n] = PickedAlso(Picks(q, members)[n - 1], q[n], members)
  BY <1>1, PicksSteps
<1>3. 0 \in S
  BY <1>2
<1>4. ASSUME NEW n \in Nat, n \in S PROVE n + 1 \in S
  <2> SUFFICES ASSUME n + 1 <= Len(q) PROVE Picks(A, members)[n + 1] = Picks(q, members)[n + 1]
    OBVIOUS
  <2>1. /\ n + 1 \in 1 .. Len(q) /\ n + 1 \in 1 .. Len(A) /\ (n + 1) - 1 = n
        /\ A[n + 1] = q[n + 1] /\ Picks(A, members)[n] = Picks(q, members)[n]
    BY <1>1, <1>4
  <2>2. /\ Picks(A, members)[n + 1] = PickedAlso(Picks(A, members)[n], A[n + 1], members)
        /\ Picks(q, members)[n + 1] = PickedAlso(Picks(q, members)[n], q[n + 1], members)
    BY ONLY <1>2, <2>1
  <2>3. QED BY <2>1, <2>2
<1>5. Len(q) \in S
  <2> HIDE DEF S
  <2>1. QED BY <1>1, <1>3, <1>4, NatSteps
<1>6. Picks(A, members)[Len(q)] = Picks(q, members)[Len(q)]
  BY <1>1, <1>5
<1>7. Picks(A, members)[Len(q) + 1] = PickedAlso(Picks(A, members)[Len(q)], A[Len(q) + 1], members)
  <2>1. Len(q) + 1 \in 1 .. Len(A) /\ (Len(q) + 1) - 1 = Len(q)
    BY <1>1
  <2>2. QED BY ONLY <1>2, <2>1
<1>8. QED BY <1>1, <1>6, <1>7 DEF A, Picked, PickedAlso

LEMMA LoadAppend ==
    ASSUME NEW R, NEW q \in Seq(R), NEW x \in R, NEW all
    PROVE  LoadStore(Append(q, x), all) = Record(LoadStore(q, all), x, all)
<1> DEFINE A == Append(q, x)
           S == {n \in Nat : n <= Len(q) => Loads(A, all)[n] = Loads(q, all)[n]}
<1>1. /\ Len(q) \in Nat /\ Len(A) = Len(q) + 1
      /\ A[Len(q) + 1] = x /\ \A i \in 1 .. Len(q) : A[i] = q[i]
  OBVIOUS
<1> HIDE DEF A
<1>2. /\ Loads(A, all)[0] = NoAggs /\ Loads(q, all)[0] = NoAggs
      /\ \A n \in 1 .. Len(A) : Loads(A, all)[n] = Record(Loads(A, all)[n - 1], A[n], all)
      /\ \A n \in 1 .. Len(q) : Loads(q, all)[n] = Record(Loads(q, all)[n - 1], q[n], all)
  BY <1>1, LoadsSteps
<1>3. 0 \in S
  BY <1>2
<1>4. ASSUME NEW n \in Nat, n \in S PROVE n + 1 \in S
  <2> SUFFICES ASSUME n + 1 <= Len(q) PROVE Loads(A, all)[n + 1] = Loads(q, all)[n + 1]
    OBVIOUS
  <2>1. /\ n + 1 \in 1 .. Len(q) /\ n + 1 \in 1 .. Len(A) /\ (n + 1) - 1 = n
        /\ A[n + 1] = q[n + 1] /\ Loads(A, all)[n] = Loads(q, all)[n]
    BY <1>1, <1>4
  <2>2. /\ Loads(A, all)[n + 1] = Record(Loads(A, all)[n], A[n + 1], all)
        /\ Loads(q, all)[n + 1] = Record(Loads(q, all)[n], q[n + 1], all)
    BY ONLY <1>2, <2>1
  <2>3. QED BY <2>1, <2>2
<1>5. Len(q) \in S
  <2> HIDE DEF S
  <2>1. QED BY <1>1, <1>3, <1>4, NatSteps
<1>6. Loads(A, all)[Len(q)] = Loads(q, all)[Len(q)]
  BY <1>1, <1>5
<1>7. Loads(A, all)[Len(q) + 1] = Record(Loads(A, all)[Len(q)], A[Len(q) + 1], all)
  <2>1. Len(q) + 1 \in 1 .. Len(A) /\ (Len(q) + 1) - 1 = Len(q)
    BY <1>1
  <2>2. QED BY ONLY <1>2, <2>1
<1>8. QED BY <1>1, <1>6, <1>7 DEF A, LoadStore

\* What <<>> has and Append keeps, every sequence has.
LEMMA SeqSteps ==
    ASSUME NEW R, NEW S, <<>> \in S,
           \A q \in Seq(R), x \in R : q \in S => Append(q, x) \in S
    PROVE  Seq(R) \subseteq S
<1> DEFINE T == {n \in Nat : \A q \in Seq(R) : Len(q) = n => q \in S}
<1>1. 0 \in T
  OBVIOUS
<1>2. ASSUME NEW n \in Nat, n \in T PROVE n + 1 \in T
  <2> SUFFICES ASSUME NEW q \in Seq(R), Len(q) = n + 1 PROVE q \in S
    OBVIOUS
  <2> DEFINE f == [i \in 1 .. n |-> q[i]]
  <2>1. q[n + 1] \in R /\ f \in Seq(R) /\ Len(f) = n
    OBVIOUS
  <2>2. q = Append(f, q[n + 1])
    OBVIOUS
  <2> HIDE DEF f
  <2>3. f \in S
    BY <1>2, <2>1
  <2>4. QED BY <2>1, <2>2, <2>3
<1>3. Nat \subseteq T
  <2> HIDE DEF T
  <2>1. QED BY <1>1, <1>2, NatSteps
<1>4. QED BY <1>3

(***************************************************************************)
(* Rows and what is picked of them.                                        *)
(***************************************************************************)
Row == {[kind EXCEPT !.ts = ts] : kind \in RowKinds, ts \in Times}
Keys == Nat \X Directions

\* The rows of a key, and those that are not counted as excluded.
Sized(k) == {r \in Row : r.size = k[1]}
Counted(k, all) == {r \in Row : r.size = k[1] /\ (r.include \/ all)}

LEMMA RowFacts ==
    ASSUME NEW r \in Row
    PROVE  /\ r \in RowType
           /\ IF r.origin = "modern" THEN Costly(r.grossAdj, r.netAdj)
              ELSE /\ \A d \in Directions : r.grossAdj[d] = 0 /\ r.netAdj[d] = 0
                   /\ \E d \in Directions : r.net[d] # 0
           /\ r.bucket \in {"", BucketMomentum(r.chg, Fallback)}
<1>1. PICK kind \in RowKinds, ts \in Times : r = [kind EXCEPT !.ts = ts]
  BY DEF Row
<1>2. kind \in RowType /\ ts \in Nat
  BY RowsAssumption, ReportAssumption
<1>3. /\ r \in RowType /\ r.net = kind.net
      /\ r.grossAdj = kind.grossAdj /\ r.netAdj = kind.netAdj
      /\ r.origin = kind.origin /\ r.bucket = kind.bucket /\ r.chg = kind.chg
  BY <1>1, <1>2 DEF RowType
<1>4. QED BY <1>3, RowsAssumption

\* The fields tell a row's age: the net edge of a corrected row is below the
\* gross one, so that they are not both 0.
LEMMA LegacyIsOrigin ==
    ASSUME NEW r \in Row
    PROVE  Legacy(r) <=> r.origin = "legacy"
<1>1. r.grossAdj \in Edge /\ r.netAdj \in Edge /\ r.origin \in {"legacy", "modern"}
  BY RowFacts DEF RowType
<1>2. CASE r.origin = "modern"
  <2>1. PICK d \in Directions : r.netAdj[d] < r.grossAdj[d]
    BY <1>2, RowFacts DEF Costly, Directions
  <2>2. r.netAdj[d] \in Int /\ r.grossAdj[d] \in Int
    BY <1>1 DEF Edge
  <2>3. QED BY <1>2, <2>1, <2>2 DEF Legacy
<1>3. CASE r.origin = "legacy"
  <2>1. /\ \A e \in Directions : r.grossAdj[e] = 0 /\ r.netAdj[e] = 0
        /\ \E e \in Directions : r.net[e] # 0
    BY <1>3, RowFacts
  <2>2. QED BY <1>3, <2>1 DEF Legacy
<1>4. QED BY <1>1, <1>2, <1>3

LEMMA PickedType ==
    ASSUME NEW R, NEW q \in Seq(R), NEW members
    PROVE  Picked(q, members) \in Seq(R)
<1> DEFINE S == {s \in Seq(R) : Picked(s, members) \in Seq(R)}
<1>1. <<>> \in S
  <2>1. <<>> \in Seq(R) /\ Picked(<<>>, members) = <<>>
    BY NoneAtFirst
  <2>2. QED BY <2>1
<1>2. ASSUME NEW s \in Seq(R), NEW x \in R, s \in S PROVE Append(s, x) \in S
  <2>1. Picked(Append(s, x), members) =
            IF x \in members THEN Append(Picked(s, members), x) ELSE Picked(s, members)
    BY PickedAppend
  <2>2. Picked(s, members) \in Seq(R)
    BY <1>2
  <2> HIDE DEF S
  <2>3. Append(s, x) \in Seq(R) /\ Picked(Append(s, x), members) \in Seq(R)
    BY <2>1, <2>2
  <2>4. QED BY <2>3 DEF S
<1>3. Seq(R) \subseteq S
  <2> HIDE DEF S
  <2>1. QED BY <1>1, <1>2, SeqSteps
<1>4. QED BY <1>3

\* Only what is in the sequence can be picked.
LEMMA PickedAgree ==
    ASSUME NEW R, NEW q \in Seq(R), NEW M, NEW N,
           \A i \in 1 .. Len(q) : q[i] \in M <=> q[i] \in N
    PROVE  Picked(q, M) = Picked(q, N)
<1> DEFINE S == {n \in Nat : n <= Len(q) => Picks(q, M)[n] = Picks(q, N)[n]}
<1>1. /\ Len(q) \in Nat
      /\ Picks(q, M)[0] = <<>> /\ Picks(q, N)[0] = <<>>
      /\ \A n \in 1 .. Len(q) : Picks(q, M)[n] = PickedAlso(Picks(q, M)[n - 1], q[n], M)
      /\ \A n \in 1 .. Len(q) : Picks(q, N)[n] = PickedAlso(Picks(q, N)[n - 1], q[n], N)
  BY PicksSteps
<1>2. 0 \in S
  BY <1>1
<1>3. ASSUME NEW n \in Nat, n \in S PROVE n + 1 \in S
  <2> SUFFICES ASSUME n + 1 <= Len(q) PROVE Picks(q, M)[n + 1] = Picks(q, N)[n + 1]
    OBVIOUS
  <2>1. n + 1 \in 1 .. Len(q) /\ (n + 1) - 1 = n /\ Picks(q, M)[n] = Picks(q, N)[n]
    BY <1>1, <1>3
  <2>2. /\ Picks(q, M)[n + 1] = PickedAlso(Picks(q, M)[n], q[n + 1], M)
        /\ Picks(q, N)[n + 1] = PickedAlso(Picks(q, N)[n], q[n + 1], N)
    BY ONLY <1>1, <2>1
  <2>3. QED BY <2>1, <2>2 DEF PickedAlso
<1>4. Len(q) \in S
  <2> HIDE DEF S
  <2>1. QED BY <1>1, <1>2, <1>3, NatSteps
<1>5. QED BY <1>1, <1>4 DEF Picked

\* To pick again among what was picked is to pick at once.
LEMMA PickedTwice ==
    ASSUME NEW R, NEW q \in Seq(R), NEW M, NEW N, N \subseteq M
    PROVE  Picked(Picked(q, M), N) = Picked(q, N)
<1> DEFINE S == {s \in Seq(R) : Picked(Picked(s, M), N) = Picked(s, N)}
<1>1. <<>> \in S
  BY NoneAtFirst
<1>2. ASSUME NEW s \in Seq(R), NEW x \in R, s \in S PROVE Append(s, x) \in S
  <2>1. Picked(s, M) \in Seq(R)
    BY PickedType
  <2>2. /\ Picked(Append(s, x), M) = IF x \in M THEN Append(Picked(s, M), x)
                                                ELSE Picked(s, M)
        /\ Picked(Append(s, x), N) = IF x \in N THEN Append(Picked(s, N), x)
                                                ELSE Picked(s, N)
        /\ Picked(Append(Picked(s, M), x), N) =
               IF x \in N THEN Append(Picked(Picked(s, M), N), x)
                          ELSE Picked(Picked(s, M), N)
    BY <2>1, PickedAppend
  <2>3. Picked(Picked(s, M), N) = Picked(s, N)
    BY <1>2
  <2>4. Picked(Picked(Append(s, x), M), N) = Picked(Append(s, x), N)
    BY ONLY <2>2, <2>3, N \subseteq M
  <2>5. QED BY <2>4
<1>3. Seq(R) \subseteq S
  <2> HIDE DEF S
  <2>1. QED BY <1>1, <1>2, SeqSteps
<1>4. QED BY <1>3

(***************************************************************************)
(* What the fold over a table makes of a key.                              *)
(***************************************************************************)
Entries(q, d) == [i \in 1 .. Len(q) |-> Entry(q[i], d)]

Content(table, k, all) ==
    [ entries  |-> Entries(Picked(table, Counted(k, all)), k[2]),
      excluded |-> Len(Picked(table, Sized(k))) - Len(Picked(table, Counted(k, all))) ]

LEMMA ContentFields ==
    ASSUME NEW table, NEW k, NEW all
    PROVE  /\ Content(table, k, all).entries = Entries(Picked(table, Counted(k, all)), k[2])
           /\ Content(table, k, all).excluded =
                 Len(Picked(table, Sized(k))) - Len(Picked(table, Counted(k, all)))
  BY DEF Content

AggOf(as, k) == IF k \in DOMAIN as THEN as[k] ELSE NewAgg

\* How a sequence is told to be another with a member appended.
LEMMA IsAppend ==
    ASSUME NEW R, NEW q \in Seq(R), NEW x \in R, NEW f \in Seq(R),
           Len(f) = Len(q) + 1, f[Len(q) + 1] = x,
           \A i \in 1 .. Len(q) : f[i] = q[i]
    PROVE  f = Append(q, x)
<1>1. /\ Append(q, x) \in Seq(R) /\ Len(Append(q, x)) = Len(f)
      /\ \A i \in 1 .. Len(f) : f[i] = Append(q, x)[i]
  OBVIOUS
<1>2. QED BY <1>1, SeqEqual

LEMMA EntriesAppend ==
    ASSUME NEW q \in Seq(Row), NEW r \in Row, NEW d
    PROVE  Entries(Append(q, r), d) = Append(Entries(q, d), Entry(r, d))
<1>1. /\ Len(q) \in Nat /\ Len(Append(q, r)) = Len(q) + 1
      /\ Append(q, r)[Len(q) + 1] = r
      /\ \A i \in 1 .. Len(q) : Append(q, r)[i] = q[i]
  OBVIOUS
<1> DEFINE E == Entries(q, d)
           F == Entries(Append(q, r), d)
           Es == {Entry(q[i], d) : i \in 1 .. Len(q)} \cup {Entry(r, d)}
<1>2. E \in Seq(Es) /\ Entry(r, d) \in Es /\ Len(E) = Len(q)
  BY <1>1 DEF Entries
<1>3. /\ F \in Seq(Es) /\ Len(F) = Len(q) + 1
      /\ F[Len(q) + 1] = Entry(r, d)
      /\ \A i \in 1 .. Len(q) : F[i] = E[i]
  BY <1>1 DEF Entries
<1> HIDE DEF E, F, Es
<1>4. F = Append(E, Entry(r, d))
  BY <1>2, <1>3, IsAppend
<1>5. QED BY <1>4 DEF E, F

Kept(r, all) == r.include \/ all

LEMMA AddedCounted ==
    ASSUME NEW es, NEW n, NEW r, NEW d, NEW all, Kept(r, all)
    PROVE  Added([entries |-> es, excluded |-> n], r, d, all)
               = [entries |-> Append(es, Entry(r, d)), excluded |-> n]
<1> DEFINE a == [entries |-> es, excluded |-> n]
<1>1. [a EXCEPT !.entries = Append(@, Entry(r, d))]
          = [entries |-> Append(es, Entry(r, d)), excluded |-> n]
  <2>1. \A q : [a EXCEPT !.entries = q] = [entries |-> q, excluded |-> n]
    OBVIOUS
  <2>2. a.entries = es
    OBVIOUS
  <2> HIDE DEF a
  <2>3. QED BY <2>1, <2>2, Zenon
<1> HIDE DEF a
<1>2. QED BY <1>1, Zenon DEF Added, Kept, a

LEMMA AddedExcluded ==
    ASSUME NEW es, NEW n, NEW r, NEW d, NEW all, ~Kept(r, all)
    PROVE  Added([entries |-> es, excluded |-> n], r, d, all)
               = [entries |-> es, excluded |-> n + 1]
<1> DEFINE a == [entries |-> es, excluded |-> n]
<1>1. [a EXCEPT !.excluded = @ + 1] = [entries |-> es, excluded |-> n + 1]
  OBVIOUS
<1> HIDE DEF a
<1>2. QED BY <1>1, Zenon DEF Added, Kept, a

\* A row more in the table is added to the content of its own keys.
LEMMA ContentAppend ==
    ASSUME NEW table \in Seq(Row), NEW r \in Row, NEW k \in Keys, NEW all \in BOOLEAN
    PROVE  Content(Append(table, r), k, all) =
               IF r.size = k[1] THEN Added(Content(table, k, all), r, k[2], all)
                                ELSE Content(table, k, all)
<1> DEFINE C == Picked(table, Counted(k, all))
           Z == Picked(table, Sized(k))
<1>1. C \in Seq(Row) /\ Z \in Seq(Row)
  BY PickedType
<1>2. /\ Picked(Append(table, r), Counted(k, all)) =
             IF r \in Counted(k, all) THEN Append(C, r) ELSE C
      /\ Picked(Append(table, r), Sized(k)) = IF r \in Sized(k) THEN Append(Z, r) ELSE Z
  BY PickedAppend
<1>3. /\ r \in Sized(k) <=> r.size = k[1]
      /\ r \in Counted(k, all) <=> r.size = k[1] /\ (r.include \/ all)
  BY DEF Sized, Counted
<1>4. /\ Len(C) \in Nat /\ Len(Append(C, r)) = Len(C) + 1
      /\ Len(Z) \in Nat /\ Len(Append(Z, r)) = Len(Z) + 1
  BY <1>1
<1>5. Entries(Append(C, r), k[2]) = Append(Entries(C, k[2]), Entry(r, k[2]))
  BY <1>1, EntriesAppend
<1>6. /\ Content(table, k, all) = [entries |-> Entries(C, k[2]), excluded |-> Len(Z) - Len(C)]
      /\ Content(Append(table, r), k, all) =
             [ entries  |-> Entries(Picked(Append(table, r), Counted(k, all)), k[2]),
               excluded |-> Len(Picked(Append(table, r), Sized(k)))
                                - Len(Picked(Append(table, r), Counted(k, all))) ]
  BY DEF Content
<1> HIDE DEF C, Z
<1>7. CASE r.size # k[1]
  BY <1>2, <1>3, <1>6, <1>7
<1>8. CASE r.size = k[1] /\ (r.include \/ all)
  <2>1. Content(Append(table, r), k, all) =
            [ entries  |-> Append(Entries(C, k[2]), Entry(r, k[2])),
              excluded |-> (Len(Z) + 1) - (Len(C) + 1) ]
    BY <1>2, <1>3, <1>4, <1>5, <1>6, <1>8
  <2>2. (Len(Z) + 1) - (Len(C) + 1) = Len(Z) - Len(C)
    BY <1>4
  <2>3. Added(Content(table, k, all), r, k[2], all) =
            [ entries  |-> Append(Entries(C, k[2]), Entry(r, k[2])),
              excluded |-> Len(Z) - Len(C) ]
    <3>1. Added([entries |-> Entries(C, k[2]), excluded |-> Len(Z) - Len(C)], r, k[2], all)
              = [ entries  |-> Append(Entries(C, k[2]), Entry(r, k[2])),
                  excluded |-> Len(Z) - Len(C) ]
      <4>1. Kept(r, all)
        BY <1>8 DEF Kept
      <4>2. \A es, n, d : Added([entries |-> es, excluded |-> n], r, d, all)
                             = [entries |-> Append(es, Entry(r, d)), excluded |-> n]
        BY ONLY <4>1, AddedCounted, SMTT(30)
      <4>3. QED BY ONLY <4>2, Zenon
    <3>2. QED BY ONLY <1>6, <3>1
  <2> HIDE DEF C, Z
  <2>4. Content(Append(table, r), k, all) = Added(Content(table, k, all), r, k[2], all)
    BY ONLY <2>1, <2>2, <2>3
  <2>5. QED BY <1>8, <2>4, Zenon
<1>9. CASE r.size = k[1] /\ ~(r.include \/ all)
  <2>1. Content(Append(table, r), k, all) =
            [entries |-> Entries(C, k[2]), excluded |-> (Len(Z) + 1) - Len(C)]
    BY <1>2, <1>3, <1>4, <1>6, <1>9
  <2>2. (Len(Z) + 1) - Len(C) = (Len(Z) - Len(C)) + 1
    BY <1>4
  <2>3. Added(Content(table, k, all), r, k[2], all) =
            [entries |-> Entries(C, k[2]), excluded |-> (Len(Z) - Len(C)) + 1]
    <3>1. Added([entries |-> Entries(C, k[2]), excluded |-> Len(Z) - Len(C)], r, k[2], all)
              = [entries |-> Entries(C, k[2]), excluded |-> (Len(Z) - Len(C)) + 1]
      <4>1. ~Kept(r, all)
        BY <1>9 DEF Kept
      <4>2. QED BY ONLY <4>1, AddedExcluded, Zenon
    <3>2. QED BY ONLY <1>6, <3>1
  <2>4. QED BY <1>9, <2>1, <2>2, <2>3
<1>10. QED BY <1>7, <1>8, <1>9

\* What record does to every key.
LEMMA RecordMakes ==
    ASSUME NEW as, NEW r \in Row, NEW all
    PROVE  /\ DOMAIN Record(as, r, all) = DOMAIN as \cup {KeyOf(r, d) : d \in Directions}
           /\ \A k \in Keys : AggOf(Record(as, r, all), k) =
                  IF r.size = k[1] THEN Added(AggOf(as, k), r, k[2], all) ELSE AggOf(as, k)
<1>1. DOMAIN Record(as, r, all) = DOMAIN as \cup {KeyOf(r, d) : d \in Directions}
  BY DEF Record
<1>2. ASSUME NEW k \in Keys
      PROVE  k \in {KeyOf(r, d) : d \in Directions} <=> r.size = k[1]
  BY DEF Keys, KeyOf
<1>3. ASSUME NEW k \in Keys
      PROVE  AggOf(Record(as, r, all), k) =
                 IF r.size = k[1] THEN Added(AggOf(as, k), r, k[2], all) ELSE AggOf(as, k)
  <2>1. CASE r.size = k[1]
    BY <1>1, <1>2, <2>1 DEF Record, AggOf
  <2>2. CASE r.size # k[1]
    BY <1>1, <1>2, <2>2 DEF Record, AggOf
  <2>3. QED BY <2>1, <2>2
<1>4. QED BY <1>1, <1>3

KeysOf(table) == {KeyOf(table[i], d) : i \in 1 .. Len(table), d \in Directions}

\* After any table a key holds an entry for each counted row of its size, in
\* the order of the table, and the number of the others.
Aggregated(table, all) ==
    /\ \A k \in Keys : AggOf(LoadStore(table, all), k) = Content(table, k, all)
    /\ DOMAIN LoadStore(table, all) = KeysOf(table)

LEMMA LoadAggregates ==
    ASSUME NEW table \in Seq(Row), NEW all \in BOOLEAN
    PROVE  Aggregated(table, all)
<1> DEFINE S == {t \in Seq(Row) : Aggregated(t, all)}
<1>1. Aggregated(<<>>, all)
  <2>1. LoadStore(<<>>, all) = NoAggs /\ \A members : Picked(<<>>, members) = <<>>
    BY NoneAtFirst
  <2>2. DOMAIN NoAggs = {}
    BY DEF NoAggs
  <2>3. Len(<<>>) = 0 /\ <<>> = [i \in 1 .. 0 |-> i]
    OBVIOUS
  <2>4. ASSUME NEW k \in Keys
        PROVE  AggOf(LoadStore(<<>>, all), k) = Content(<<>>, k, all)
    <3>1. Entries(<<>>, k[2]) = <<>>
      BY <2>3 DEF Entries
    <3>2. Content(<<>>, k, all) = [entries |-> <<>>, excluded |-> 0]
      BY <2>1, <2>3, <3>1 DEF Content
    <3>3. QED BY <2>1, <2>2, <3>2 DEF AggOf, NewAgg
  <2>5. KeysOf(<<>>) = {}
    BY <2>3 DEF KeysOf
  <2>6. QED BY ONLY <2>1, <2>2, <2>4, <2>5 DEF Aggregated
<1>2. ASSUME NEW t \in Seq(Row), NEW r \in Row, t \in S PROVE Append(t, r) \in S
  <2>1. Append(t, r) \in Seq(Row) /\ Aggregated(t, all)
    BY <1>2
  <2>2. LoadStore(Append(t, r), all) = Record(LoadStore(t, all), r, all)
    BY LoadAppend
  <2>3. ASSUME NEW k \in Keys
        PROVE  AggOf(LoadStore(Append(t, r), all), k) = Content(Append(t, r), k, all)
    <3>1. AggOf(LoadStore(t, all), k) = Content(t, k, all)
      BY <2>1 DEF Aggregated
    <3>2. Content(Append(t, r), k, all) =
              IF r.size = k[1] THEN Added(Content(t, k, all), r, k[2], all)
                               ELSE Content(t, k, all)
      BY ContentAppend
    <3>3. AggOf(Record(LoadStore(t, all), r, all), k) =
              IF r.size = k[1] THEN Added(AggOf(LoadStore(t, all), k), r, k[2], all)
                               ELSE AggOf(LoadStore(t, all), k)
      BY RecordMakes
    <3>4. QED BY ONLY <2>2, <3>1, <3>2, <3>3
  <2>4. DOMAIN LoadStore(Append(t, r), all) = KeysOf(Append(t, r))
    <3> DEFINE A == Append(t, r)
    <3>1. /\ Len(t) \in Nat /\ Len(A) = Len(t) + 1 /\ A[Len(t) + 1] = r
          /\ \A i \in 1 .. Len(t) : A[i] = t[i]
      OBVIOUS
    <3> HIDE DEF A
    <3>2. KeysOf(A) = KeysOf(t) \cup {KeyOf(r, d) : d \in Directions}
      BY <3>1 DEF KeysOf
    <3>3. DOMAIN LoadStore(t, all) = KeysOf(t)
      BY <2>1 DEF Aggregated
    <3>4. DOMAIN Record(LoadStore(t, all), r, all)
              = DOMAIN LoadStore(t, all) \cup {KeyOf(r, d) : d \in Directions}
      BY RecordMakes
    <3>5. DOMAIN LoadStore(Append(t, r), all) = KeysOf(A)
      BY ONLY <2>2, <3>2, <3>3, <3>4, Zenon
    <3>6. QED BY ONLY <3>5 DEF A
  <2>5. Aggregated(Append(t, r), all)
    BY <2>3, <2>4 DEF Aggregated
  <2>6. QED BY <2>1, <2>5
<1>3. <<>> \in S
  BY <1>1
<1>4. Seq(Row) \subseteq S
  <2> HIDE DEF S
  <2>1. QED BY <1>2, <1>3, SeqSteps
<1>5. QED BY <1>4

(***************************************************************************)
(* The report.                                                             *)
(***************************************************************************)
IInv == /\ rows \in Seq(Row)
        /\ includeExcluded \in BOOLEAN /\ printed \in BOOLEAN
        /\ aggs = IF printed THEN LoadStore(rows, includeExcluded) ELSE NoAggs

LEMMA InitIInv == Init => IInv
<1>1. <<>> \in Seq(Row)
  OBVIOUS
<1>2. QED BY <1>1 DEF Init, IInv

LEMMA StepIInv == IInv /\ [Next]_reportVars => IInv'
<1> SUFFICES ASSUME IInv, [Next]_reportVars PROVE IInv'
  OBVIOUS
<1>1. ASSUME NEW ts \in Times, NEW kind \in RowKinds, Write(ts, kind) PROVE IInv'
  <2>1. [kind EXCEPT !.ts = ts] \in Row
    BY DEF Row
  <2>2. QED BY <1>1, <2>1 DEF IInv, Write
<1>2. ASSUME NEW all \in BOOLEAN, Publish(all) PROVE IInv'
  BY <1>2 DEF IInv, Publish
<1>3. CASE UNCHANGED reportVars
  BY <1>3 DEF IInv, reportVars
<1>4. QED BY <1>1, <1>2, <1>3 DEF Next

LEMMA Invariance == Spec => []IInv
  BY InitIInv, StepIInv, PTL DEF Spec

\* What the report has of a key.
LEMMA AggsHold ==
    ASSUME IInv, printed
    PROVE  /\ DOMAIN aggs = KeysOf(rows) /\ DOMAIN aggs \subseteq Keys
           /\ \A k \in DOMAIN aggs : aggs[k] = Content(rows, k, includeExcluded)
<1>1. rows \in Seq(Row) /\ aggs = LoadStore(rows, includeExcluded)
  BY DEF IInv
<1>2. Aggregated(rows, includeExcluded)
  BY <1>1, LoadAggregates DEF IInv
<1>3. DOMAIN aggs = KeysOf(rows)
  BY <1>1, <1>2 DEF Aggregated
<1>4. KeysOf(rows) \subseteq Keys
  <2>1. ASSUME NEW i \in 1 .. Len(rows), NEW d \in Directions
        PROVE  KeyOf(rows[i], d) \in Keys
    <3>1. rows[i] \in Row
      BY <1>1
    <3>2. rows[i].size \in Nat
      BY <3>1, RowFacts DEF RowType
    <3>3. QED BY <3>2 DEF KeyOf, Keys
  <2>2. QED BY <2>1 DEF KeysOf
<1>5. QED BY <1>1, <1>2, <1>3, <1>4 DEF Aggregated, AggOf

\* The properties pick among the rows there are, the lemmas among all rows.
LEMMA PickedOfRows ==
    ASSUME rows \in Seq(Row), NEW k
    PROVE  /\ RowsOf(k) = Picked(rows, Sized(k))
           /\ CountedRows(k) = Picked(rows, Counted(k, includeExcluded))
           /\ Picked(rows, {r \in Range(rows) : Counts(r)})
                 = Picked(rows, {r \in Row : Counts(r)})
<1>1. \A i \in 1 .. Len(rows) : rows[i] \in Row /\ rows[i] \in Range(rows)
  BY DEF Range
<1>2. Picked(rows, {r \in Range(rows) : r.size = k[1]}) = Picked(rows, Sized(k))
  BY <1>1, PickedAgree DEF Sized
<1>3. Picked(rows, {r \in Range(rows) : r.size = k[1] /\ Counts(r)})
          = Picked(rows, Counted(k, includeExcluded))
  BY <1>1, PickedAgree DEF Counted, Counts
<1>4. Picked(rows, {r \in Range(rows) : Counts(r)}) = Picked(rows, {r \in Row : Counts(r)})
  BY <1>1, PickedAgree
<1>5. QED BY <1>2, <1>3, <1>4 DEF RowsOf, CountedRows

LEMMA EntryOfRow ==
    ASSUME IInv, printed, NEW k \in DOMAIN aggs, NEW i \in DOMAIN aggs[k].entries
    PROVE  /\ i \in DOMAIN CountedRows(k) /\ CountedRows(k)[i] \in Row
           /\ aggs[k].entries[i] = Entry(CountedRows(k)[i], k[2])
           /\ k[2] \in Directions
<1>1. rows \in Seq(Row) /\ k \in Keys
      /\ aggs[k] = Content(rows, k, includeExcluded)
  BY AggsHold DEF IInv
<1>2. CountedRows(k) = Picked(rows, Counted(k, includeExcluded))
  BY <1>1, PickedOfRows
<1>3. CountedRows(k) \in Seq(Row)
  BY <1>1, <1>2, PickedType
<1>4. aggs[k].entries = Entries(CountedRows(k), k[2])
  BY <1>1, <1>2 DEF Content
<1>5. /\ i \in 1 .. Len(CountedRows(k))
      /\ aggs[k].entries[i] = Entry(CountedRows(k)[i], k[2])
  BY <1>4 DEF Entries
<1>6. QED BY <1>1, <1>3, <1>5 DEF Keys

\* A row is told to be older than the correction exactly if it is, for every
\* table of rows that the engine can have written (stats.go:62-66, 90-93).
THEOREM ReportTellsLegacy == Spec => []LegacyTold
<1>1. ASSUME IInv PROVE LegacyTold
  <2> SUFFICES ASSUME printed, NEW k \in DOMAIN aggs, NEW i \in DOMAIN aggs[k].entries
               PROVE  LET r == CountedRows(k)[i]
                          e == aggs[k].entries[i]
                      IN  IF r.origin = "legacy"
                          THEN e.net = r.net[k[2]] /\ e.gross = r.gross[k[2]]
                          ELSE e.net = r.netAdj[k[2]] /\ e.gross = r.grossAdj[k[2]]
    BY DEF LegacyTold
  <2>1. PICK r \in Row : /\ CountedRows(k)[i] = r
                          /\ aggs[k].entries[i] = Entry(r, k[2])
    BY <1>1, EntryOfRow
  <2>2. Legacy(r) <=> r.origin = "legacy"
    BY LegacyIsOrigin
  <2>3. QED BY <2>1, <2>2 DEF Entry
<1>2. QED BY <1>1, Invariance, PTL

\* A sample without a stored bucket falls where the engine would have put it,
\* for every threshold (diagnostics.go:87-109).
THEOREM ReportBucketsAgree == Spec => []BucketsAgree
<1>1. ASSUME IInv PROVE BucketsAgree
  <2> SUFFICES ASSUME NEW k \in DOMAIN aggs, NEW i \in DOMAIN aggs[k].entries
               PROVE  Cell(aggs[k].entries[i]) =
                          IF aggs[k].entries[i].ok
                          THEN BucketMomentum(aggs[k].entries[i].chg, Fallback)
                          ELSE "no-mom"
    BY DEF BucketsAgree
  <2>1. printed
    BY <1>1 DEF IInv, NoAggs
  <2>2. PICK r \in Row : aggs[k].entries[i] = Entry(r, k[2])
    BY <1>1, <2>1, EntryOfRow
  <2> DEFINE e == aggs[k].entries[i]
  <2>3. /\ e.ok = r.ok /\ e.chg = r.chg /\ e.bucket = r.bucket
        /\ r.ok \in BOOLEAN
        /\ r.bucket \in {"", BucketMomentum(r.chg, Fallback)}
    <3>1. /\ Entry(r, k[2]).ok = r.ok /\ Entry(r, k[2]).chg = r.chg
          /\ Entry(r, k[2]).bucket = r.bucket
      BY DEF Entry
    <3>2. r \in RowType /\ r.bucket \in {"", BucketMomentum(r.chg, Fallback)}
      BY RowFacts
    <3>3. r.ok \in BOOLEAN
      BY <3>2 DEF RowType
    <3>4. QED BY <2>2, <3>1, <3>2, <3>3, Zenon
  <2> HIDE DEF e
  <2>4. Cell(e) = IF e.ok THEN BucketMomentum(e.chg, Fallback) ELSE "no-mom"
    BY <2>3 DEF Cell, Rebucketed, BucketMomentum
  <2>5. QED BY <2>4 DEF e
<1>2. QED BY <1>1, Invariance, PTL

\* For every table: excluded rows change nothing but their own count, and what is
\* counted is what a table without them would give (stats.go:86-89).
THEOREM ReportExcludes == Spec => []ExcludedLeaveNoTrace
<1>1. ASSUME IInv, printed
      PROVE  LET clean == LoadStore(Picked(rows, {r \in Range(rows) : Counts(r)}), FALSE)
                 all == LoadStore(rows, TRUE)
             IN  \A k \in DOMAIN all :
                    /\ k \in DOMAIN aggs
                    /\ aggs[k].excluded = Len(RowsOf(k)) - Len(CountedRows(k))
                    /\ includeExcluded => aggs[k] = all[k]
                    /\ ~includeExcluded => aggs[k].entries =
                           IF k \in DOMAIN clean THEN clean[k].entries ELSE <<>>
  <2> DEFINE kept == Picked(rows, {r \in Row : Counts(r)})
             clean == LoadStore(kept, FALSE)
             all == LoadStore(rows, TRUE)
  <2>1. rows \in Seq(Row) /\ includeExcluded \in BOOLEAN
        /\ aggs = LoadStore(rows, includeExcluded)
    BY <1>1 DEF IInv
  <2>2. Picked(rows, {r \in Range(rows) : Counts(r)}) = kept /\ kept \in Seq(Row)
    BY <2>1, PickedOfRows, PickedType
  <2>3. Aggregated(rows, TRUE) /\ Aggregated(kept, FALSE)
    BY <2>1, <2>2, LoadAggregates
  <2> HIDE DEF kept
  <2> SUFFICES ASSUME NEW k \in DOMAIN all
               PROVE  /\ k \in DOMAIN aggs
                      /\ aggs[k].excluded = Len(RowsOf(k)) - Len(CountedRows(k))
                      /\ includeExcluded => aggs[k] = all[k]
                      /\ ~includeExcluded => aggs[k].entries =
                             IF k \in DOMAIN clean THEN clean[k].entries ELSE <<>>
    BY <2>2
  <2>4. k \in DOMAIN aggs /\ k \in Keys /\ aggs[k] = Content(rows, k, includeExcluded)
    BY <1>1, <2>1, <2>3, AggsHold DEF Aggregated
  <2>5. aggs[k].excluded = Len(RowsOf(k)) - Len(CountedRows(k))
    <3>1. /\ RowsOf(k) = Picked(rows, Sized(k))
          /\ CountedRows(k) = Picked(rows, Counted(k, includeExcluded))
      BY <2>1, PickedOfRows
    <3>2. QED BY ONLY <2>4, <3>1, ContentFields
  <2>6. includeExcluded => aggs[k] = all[k]
    BY <2>1
  <2>7. ASSUME ~includeExcluded
        PROVE  aggs[k].entries = IF k \in DOMAIN clean THEN clean[k].entries ELSE <<>>
    <3>1. Counted(k, FALSE) \subseteq {r \in Row : Counts(r)} /\ includeExcluded = FALSE
      BY <2>1, <2>7 DEF Counted, Counts
    <3>2. Picked(kept, Counted(k, FALSE)) = Picked(rows, Counted(k, FALSE))
      BY <2>1, <3>1, PickedTwice DEF kept
    <3>3. aggs[k].entries = Content(kept, k, FALSE).entries
      BY ONLY <2>4, <3>1, <3>2, ContentFields, Zenon
    <3>4. AggOf(clean, k) = Content(kept, k, FALSE)
      BY <2>3, <2>4 DEF Aggregated
    <3> HIDE DEF clean
    <3>5. AggOf(clean, k).entries = IF k \in DOMAIN clean THEN clean[k].entries ELSE <<>>
      BY DEF AggOf, NewAgg
    <3>6. QED BY <3>3, <3>4, <3>5
  <2>8. QED BY <2>4, <2>5, <2>6, <2>7
<1>2. IInv => ExcludedLeaveNoTrace
  BY <1>1 DEF ExcludedLeaveNoTrace
<1>3. QED BY <1>2, Invariance, PTL

(***************************************************************************)
(* Order statistics.                                                       *)
(***************************************************************************)
LEMMA Largest ==
    ASSUME NEW q \in Seq(Int), NEW I \in SUBSET (1 .. Len(q)), I # {}
    PROVE  \E i \in I : \A j \in I : q[j] <= q[i]
<1> DEFINE Leads(i, n) == \A j \in I : j <= n => q[j] <= q[i]
           S == {n \in Nat : \E i \in I : Leads(i, n)}
<1>1. \A j \in I : j \in 1 .. Len(q) /\ q[j] \in Int
  OBVIOUS
<1>2. 0 \in S
  <2>1. PICK i \in I : TRUE
    OBVIOUS
  <2>2. Leads(i, 0)
    BY <1>1
  <2>3. QED BY <2>2
<1>3. ASSUME NEW n \in Nat, n \in S PROVE n + 1 \in S
  <2>1. PICK i \in I : Leads(i, n)
    BY <1>3
  <2>2. \A j \in I : j <= n + 1 => j <= n \/ j = n + 1
    BY <1>1
  <2>3. CASE n + 1 \in I /\ q[i] < q[n + 1]
    <3>1. Leads(n + 1, n + 1)
      BY <1>1, <2>1, <2>2, <2>3
    <3>2. QED BY <2>3, <3>1
  <2>4. CASE n + 1 \in I => ~(q[i] < q[n + 1])
    <3>1. Leads(i, n + 1)
      BY <1>1, <2>1, <2>2, <2>4
    <3>2. QED BY <3>1
  <2>5. QED BY <2>3, <2>4
<1>4. Len(q) \in S
  <2> HIDE DEF S
  <2>1. QED BY <1>2, <1>3, NatSteps
<1>5. QED BY <1>1, <1>4

LEMMA Smallest ==
    ASSUME NEW q \in Seq(Int), NEW I \in SUBSET (1 .. Len(q)), I # {}
    PROVE  \E i \in I : \A j \in I : q[i] <= q[j]
<1> DEFINE p == [i \in 1 .. Len(q) |-> -q[i]]
<1>1. p \in Seq(Int) /\ Len(p) = Len(q)
  OBVIOUS
<1>2. PICK i \in I : \A j \in I : p[j] <= p[i]
  <2> HIDE DEF p
  <2>1. QED BY <1>1, Largest
<1>3. \A j \in I : p[j] = -q[j] /\ q[j] \in Int
  OBVIOUS
<1> HIDE DEF p
<1>4. \A j \in I : q[i] <= q[j]
  BY <1>2, <1>3
<1>5. QED BY <1>4

BelowIn(q, v) == {i \in DOMAIN q : q[i] < v}
UpToIn(q, v) == {i \in DOMAIN q : q[i] <= v}

LEMMA PlacesOf ==
    ASSUME NEW R, NEW q \in Seq(R)
    PROVE  IsFiniteSet(1 .. Len(q)) /\ Cardinality(1 .. Len(q)) = Len(q)
<1>1. Len(q) \in Int /\ 1 \in Int /\ Len(q) >= 0
  OBVIOUS
<1>2. /\ IsFiniteSet(1 .. Len(q))
      /\ Cardinality(1 .. Len(q)) = IF 1 > Len(q) THEN 0 ELSE Len(q) - 1 + 1
  BY <1>1, FS_Interval
<1>3. QED BY <1>1, <1>2

LEMMA PlacesCounted ==
    ASSUME NEW q \in Seq(Int), NEW T \in SUBSET (DOMAIN q)
    PROVE  /\ IsFiniteSet(T) /\ Cardinality(T) \in 0 .. Len(q)
           /\ Cardinality(T) = Len(q) => T = DOMAIN q
<1>1. DOMAIN q = 1 .. Len(q) /\ Len(q) \in Nat /\ 1 \in Int
  OBVIOUS
<1>2. IsFiniteSet(1 .. Len(q)) /\ Cardinality(1 .. Len(q)) = Len(q)
  BY PlacesOf
<1>3. /\ IsFiniteSet(T) /\ Cardinality(T) <= Cardinality(1 .. Len(q))
      /\ Cardinality(1 .. Len(q)) = Cardinality(T) => 1 .. Len(q) = T
  BY <1>1, <1>2, FS_Subset
<1>4. QED BY <1>1, <1>2, <1>3, FS_CardinalityType

\* Every place of the sorted sequence is taken.
LEMMA RankTaken ==
    ASSUME NEW q \in Seq(Int), NEW k \in 1 .. Len(q)
    PROVE  \E v \in Range(q) : /\ Cardinality(BelowIn(q, v)) < k
                               /\ Cardinality(UpToIn(q, v)) >= k
<1>1. DOMAIN q = 1 .. Len(q) /\ Len(q) \in Nat /\ \A i \in DOMAIN q : q[i] \in Int
  OBVIOUS
<1> DEFINE J == {i \in DOMAIN q : Cardinality(UpToIn(q, q[i])) >= k}
<1>2. J # {}
  <2>1. PICK m \in 1 .. Len(q) : \A j \in 1 .. Len(q) : q[j] <= q[m]
    BY Largest
  <2>2. UpToIn(q, q[m]) = 1 .. Len(q)
    BY <1>1, <2>1 DEF UpToIn
  <2>3. Cardinality(UpToIn(q, q[m])) = Len(q)
    BY <2>2, PlacesOf
  <2>4. QED BY <1>1, <2>3
<1>3. J \in SUBSET (1 .. Len(q))
  BY <1>1
<1>4. PICK i \in J : \A j \in J : q[i] <= q[j]
  <2> HIDE DEF J
  <2>1. QED BY <1>2, <1>3, Smallest
<1>5. Cardinality(BelowIn(q, q[i])) < k
  <2> SUFFICES ASSUME ~(Cardinality(BelowIn(q, q[i])) < k) PROVE FALSE
    OBVIOUS
  <2>1. BelowIn(q, q[i]) \in SUBSET (1 .. Len(q))
    BY <1>1 DEF BelowIn
  <2>2. BelowIn(q, q[i]) # {}
    <3>1. Cardinality({}) = 0
      BY FS_EmptySet
    <3>2. k >= 1
      BY <1>1
    <3>3. k \in Int
      BY <1>1
    <3>4. ASSUME BelowIn(q, q[i]) = {} PROVE FALSE
      <4>1. Cardinality(BelowIn(q, q[i])) = 0
        BY <3>1, <3>4
      <4>2. QED BY <3>2, <3>3, <4>1
    <3>5. QED BY <3>4
  <2>3. PICK m \in BelowIn(q, q[i]) : \A j \in BelowIn(q, q[i]) : q[j] <= q[m]
    BY <2>1, <2>2, Largest
  <2>4. UpToIn(q, q[m]) = BelowIn(q, q[i])
    BY <1>1, <2>1, <2>3 DEF BelowIn, UpToIn
  <2>5. Cardinality(BelowIn(q, q[i])) \in Int
    BY <1>1, <2>1, PlacesCounted
  <2>6. m \in J
    BY <1>1, <2>1, <2>3, <2>4, <2>5
  <2>7. q[m] < q[i] /\ q[m] \in Int /\ q[i] \in Int
    BY <1>1, <2>3 DEF BelowIn
  <2>8. QED BY <1>4, <2>6, <2>7
<1>6. QED BY <1>1, <1>4, <1>5 DEF Range

\* What stands where in the sorted sequence.
LEMMA SortedIs ==
    ASSUME NEW q \in Seq(Int)
    PROVE  /\ Sorted(q) \in Seq(Int) /\ Len(Sorted(q)) = Len(q)
           /\ \A k \in 1 .. Len(q) :
                 /\ Sorted(q)[k] \in Range(q)
                 /\ Cardinality(BelowIn(q, Sorted(q)[k])) < k
                 /\ Cardinality(UpToIn(q, Sorted(q)[k])) >= k
<1>1. DOMAIN q = 1 .. Len(q) /\ Len(q) \in Nat /\ Range(q) \subseteq Int
  BY DEF Range
<1> DEFINE at(k) == CHOOSE v \in Range(q) : /\ Cardinality(BelowIn(q, v)) < k
                                           /\ Cardinality(UpToIn(q, v)) >= k
<1>2. Sorted(q) = [k \in 1 .. Len(q) |-> at(k)]
  BY <1>1 DEF Sorted, BelowIn, UpToIn
<1>3. ASSUME NEW k \in 1 .. Len(q)
      PROVE  /\ at(k) \in Range(q)
             /\ Cardinality(BelowIn(q, at(k))) < k
             /\ Cardinality(UpToIn(q, at(k))) >= k
  BY RankTaken
<1> HIDE DEF at
<1>4. QED BY <1>1, <1>2, <1>3

Top(q) == Sorted(q)[Len(q)]

\* The last one is the largest.
LEMMA TopIs ==
    ASSUME NEW q \in Seq(Int), q # <<>>, NEW v
    PROVE  Top(q) = v <=> v \in Range(q) /\ \A i \in 1 .. Len(q) : q[i] <= v
<1>1. Len(q) \in 1 .. Len(q) /\ DOMAIN q = 1 .. Len(q) /\ \A i \in 1 .. Len(q) : q[i] \in Int
  OBVIOUS
<1>2. Top(q) \in Range(q) /\ Cardinality(UpToIn(q, Top(q))) >= Len(q)
  BY <1>1, SortedIs DEF Top
<1>3. UpToIn(q, Top(q)) = DOMAIN q
  BY <1>2, PlacesCounted DEF UpToIn
<1>4. Top(q) \in Int /\ \A i \in 1 .. Len(q) : q[i] <= Top(q)
  BY <1>1, <1>2, <1>3 DEF UpToIn, Range
<1>5. ASSUME v \in Range(q), \A i \in 1 .. Len(q) : q[i] <= v
      PROVE  Top(q) = v
  <2>1. v \in Int /\ v <= Top(q)
    BY <1>1, <1>4, <1>5 DEF Range
  <2>2. Top(q) <= v
    BY <1>1, <1>2, <1>5 DEF Range
  <2>3. QED BY <1>4, <2>1, <2>2
<1>6. QED BY <1>2, <1>4, <1>5

LEMMA SortedRises ==
    ASSUME NEW q \in Seq(Int), NEW k \in 1 .. Len(q) - 1
    PROVE  Sorted(q)[k] <= Sorted(q)[k + 1]
<1> DEFINE a == Sorted(q)[k]
           b == Sorted(q)[k + 1]
<1>1. k \in 1 .. Len(q) /\ k + 1 \in 1 .. Len(q) /\ \A i \in DOMAIN q : q[i] \in Int
  OBVIOUS
<1>2. /\ a \in Range(q) /\ b \in Range(q)
      /\ Cardinality(BelowIn(q, a)) < k /\ Cardinality(UpToIn(q, b)) >= k + 1
  BY <1>1, SortedIs
<1> HIDE DEF a, b
<1>3. a \in Int /\ b \in Int
  BY <1>1, <1>2 DEF Range
<1>4. ASSUME b < a PROVE FALSE
  <2>1. UpToIn(q, b) \subseteq BelowIn(q, a)
    BY <1>1, <1>3, <1>4 DEF UpToIn, BelowIn
  <2>2. BelowIn(q, a) \in SUBSET (DOMAIN q)
    BY DEF BelowIn
  <2>3. /\ IsFiniteSet(BelowIn(q, a)) /\ Cardinality(BelowIn(q, a)) \in Int
    BY <2>2, PlacesCounted
  <2>4. Cardinality(UpToIn(q, b)) <= Cardinality(BelowIn(q, a))
    BY <2>1, <2>3, FS_Subset
  <2>5. UpToIn(q, b) \in SUBSET (DOMAIN q)
    BY DEF UpToIn
  <2>6. Cardinality(UpToIn(q, b)) \in Int
    BY <2>5, PlacesCounted
  <2>7. QED BY <1>1, <1>2, <2>3, <2>4, <2>6
<1>5. QED BY <1>3, <1>4 DEF a, b

\* More members are counted by the tables of a percentile than its rank has below
\* it, and more than are above.
LEMMA CountUpTo ==
    ASSUME NEW q \in Seq(Int), NEW k \in 1 .. Len(q), NEW x \in Int, 100 * Sorted(q)[k] <= x
    PROVE  Cardinality({i \in DOMAIN q : 100 * q[i] <= x}) >= k
<1> DEFINE T == {i \in DOMAIN q : 100 * q[i] <= x}
           U == UpToIn(q, Sorted(q)[k])
<1>1. Sorted(q)[k] \in Int /\ Cardinality(U) >= k /\ \A i \in DOMAIN q : q[i] \in Int
  BY SortedIs
<1>2. U \subseteq T
  BY <1>1 DEF UpToIn
<1>3. T \in SUBSET (DOMAIN q) /\ U \in SUBSET (DOMAIN q)
  BY DEF UpToIn
<1> HIDE DEF T, U
<1>4. /\ IsFiniteSet(T) /\ Cardinality(T) \in Int /\ Cardinality(U) \in Int
  BY <1>3, PlacesCounted
<1>5. Cardinality(U) <= Cardinality(T)
  BY <1>2, <1>4, FS_Subset
<1>6. Cardinality(T) >= k
  BY <1>1, <1>4, <1>5
<1>7. QED BY <1>6 DEF T

LEMMA CountFrom ==
    ASSUME NEW q \in Seq(Int), NEW k \in 1 .. Len(q), NEW x \in Int, 100 * Sorted(q)[k] >= x
    PROVE  Cardinality({i \in DOMAIN q : 100 * q[i] >= x}) >= Len(q) - k + 1
<1> DEFINE T == {i \in DOMAIN q : 100 * q[i] >= x}
           B == BelowIn(q, Sorted(q)[k])
           D == DOMAIN q
<1>1. Sorted(q)[k] \in Int /\ Cardinality(B) < k /\ \A i \in DOMAIN q : q[i] \in Int
  BY SortedIs
<1>2. D \ B \subseteq T
  BY <1>1 DEF BelowIn
<1>3. T \in SUBSET D /\ B \in SUBSET D /\ D \in SUBSET D /\ D \ B \in SUBSET D
      /\ D = 1 .. Len(q) /\ D \cap B = B
  BY DEF BelowIn
<1>4. Cardinality(D) = Len(q) /\ IsFiniteSet(D) /\ Len(q) \in Nat
  BY <1>3, PlacesOf
<1>5. /\ IsFiniteSet(T) /\ Cardinality(T) \in Int /\ Cardinality(B) \in Int
      /\ Cardinality(D \ B) \in Int
  BY <1>3, PlacesCounted
<1> HIDE DEF T, B, D
<1>6. Cardinality(D \ B) = Cardinality(D) - Cardinality(D \cap B)
  BY <1>4, FS_Difference
<1>7. Cardinality(D \ B) <= Cardinality(T)
  BY <1>2, <1>5, FS_Subset
<1>8. Cardinality(T) >= Len(q) - k + 1
  <2>1. Cardinality(D \ B) = Len(q) - Cardinality(B)
    BY <1>3, <1>4, <1>6
  <2>2. k \in Int
    OBVIOUS
  <2>3. QED BY ONLY <1>1, <1>4, <1>5, <1>7, <2>1, <2>2
<1>9. QED BY <1>8 DEF T

\* What lies between two members lies between their multiples.
LEMMA Between ==
    ASSUME NEW a \in Int, NEW b \in Int, a <= b, NEW f \in 0 .. 100
    PROVE  LET x == a * (100 - f) + b * f
           IN  x \in Int /\ 100 * a <= x /\ x <= 100 * b
<1>1. (b - a) * f >= 0 /\ (b - a) * (100 - f) >= 0
  OBVIOUS
<1>2. /\ a * (100 - f) + b * f = 100 * a + (b - a) * f
      /\ a * (100 - f) + b * f = 100 * b - (b - a) * (100 - f)
  OBVIOUS
<1>3. QED BY <1>1, <1>2

\* A percentile cuts its sequence.
LEMMA SummaryIsRight ==
    ASSUME NEW q \in Seq(Int), q # <<>>, NEW p \in 0 .. 100
    PROVE  CutsAt(q, Percentile(Sorted(q), p), p)
<1> DEFINE n == Len(q)
           s == Sorted(q)
           idx == p * (n - 1)
           lo == idx \div 100
           frac == idx % 100
           x == Percentile(s, p)
           atMost == Cardinality({i \in DOMAIN q : 100 * q[i] <= x})
           atLeast == Cardinality({i \in DOMAIN q : 100 * q[i] >= x})
<1>1. n \in Nat /\ n >= 1 /\ s \in Seq(Int) /\ Len(s) = n
  BY SortedIs
<1>2. idx \in Nat /\ idx <= 100 * (n - 1)
  <2>1. p * (n - 1) >= 0 /\ (100 - p) * (n - 1) >= 0 /\ p * (n - 1) \in Int
    BY <1>1
  <2>2. (100 - p) * (n - 1) = 100 * (n - 1) - p * (n - 1)
    BY <1>1
  <2>3. QED BY <1>1, <2>1, <2>2
<1>3. x = IF frac = 0 THEN 100 * s[lo + 1] ELSE s[lo + 1] * (100 - frac) + s[lo + 2] * frac
  BY <1>1 DEF Percentile
<1>4. CutsAt(q, x, p) <=> 100 * atMost > idx /\ 100 * atLeast > (100 - p) * (n - 1)
  BY DEF CutsAt
<1>5. (100 - p) * (n - 1) = 100 * (n - 1) - idx
  BY <1>1
<1>6. atMost \in Int /\ atLeast \in Int
  BY PlacesCounted
<1> HIDE DEF x, idx
<1>7. idx = 100 * lo + frac /\ lo \in Nat /\ frac \in 0 .. 99
  BY <1>2
<1> HIDE DEF lo, frac
<1>8. ASSUME x \in Int, NEW k \in 1 .. n
      PROVE  /\ 100 * s[k] <= x => atMost >= k
             /\ 100 * s[k] >= x => atLeast >= n - k + 1
  BY <1>8, CountUpTo, CountFrom
<1>9. ASSUME 100 * atMost > idx, 100 * atLeast > 100 * (n - 1) - idx PROVE CutsAt(q, x, p)
  BY <1>4, <1>5, <1>9
<1> HIDE DEF atMost, atLeast, s, n
<1>10. ASSUME frac = 0 PROVE CutsAt(q, x, p)
  <2>1. lo + 1 \in 1 .. n
    BY ONLY <1>1, <1>2, <1>7, <1>10
  <2>2. s[lo + 1] \in Int
    BY <1>1, <2>1
  <2>3. x \in Int /\ x = 100 * s[lo + 1]
    BY <1>3, <1>10, <2>2
  <2>4. atMost >= lo + 1 /\ atLeast >= n - (lo + 1) + 1
    BY ONLY <1>8, <2>1, <2>2, <2>3
  <2>5. 100 * atMost > idx /\ 100 * atLeast > 100 * (n - 1) - idx
    BY ONLY <1>1, <1>2, <1>6, <1>7, <1>10, <2>4
  <2>6. QED BY <1>9, <2>5
<1>11. ASSUME frac # 0 PROVE CutsAt(q, x, p)
  <2>1. lo + 1 \in 1 .. n - 1 /\ lo + 1 \in 1 .. n /\ lo + 2 \in 1 .. n
    BY ONLY <1>1, <1>2, <1>7, <1>11
  <2>2. s[lo + 1] \in Int /\ s[lo + 2] \in Int
    BY <1>1, <2>1
  <2>3. s[lo + 1] <= s[lo + 2]
    <3>1. s[lo + 1] <= s[(lo + 1) + 1]
      BY <2>1, SortedRises DEF s, n
    <3>2. (lo + 1) + 1 = lo + 2
      BY <1>7
    <3>3. QED BY <3>1, <3>2
  <2>4. x \in Int /\ 100 * s[lo + 1] <= x /\ x <= 100 * s[lo + 2]
    <3>1. frac \in 0 .. 100
      BY <1>7
    <3>2. x = s[lo + 1] * (100 - frac) + s[lo + 2] * frac
      BY <1>3, <1>11
    <3>3. QED BY ONLY <2>2, <2>3, <3>1, <3>2, Between
  <2>5. atMost >= lo + 1 /\ atLeast >= n - (lo + 2) + 1
    <3>1. 100 * s[lo + 2] >= x
      BY ONLY <2>2, <2>4
    <3>2. QED BY ONLY <1>8, <2>1, <2>4, <3>1
  <2>6. 100 * atMost > idx /\ 100 * atLeast > 100 * (n - 1) - idx
    BY ONLY <1>1, <1>2, <1>6, <1>7, <1>11, <2>5
  <2>7. QED BY <1>9, <2>6
<1>12. QED BY <1>7, <1>10, <1>11 DEF x, s

(***************************************************************************)
(* Windows.                                                                *)
(***************************************************************************)
Sample == [ts : Int, net : Int]
Win == [start : Int, end : Int, samples : Nat \ {0}, sum : Nat, top : Int, duration : Int]
Cur == [start : Int, end : Int, samples : Nat \ {0}, sum : Nat, top : Int]

Nets(s, a, b) == [i \in 1 .. b - a + 1 |-> s[a + i - 1].net]

\* Nothing joins a run from before a, or from after m.
Leftmost(s, a) == ~(a > 1) \/ s[a - 1].net <= 0 \/ GapAfter(s, a - 1) > MaxBridge(s)
Rightmost(s, m) == ~(m < Len(s)) \/ s[m + 1].net <= 0 \/ GapAfter(s, m) > MaxBridge(s)

\* Times in a series are numbers, whatever the gaps are.
LEMMA SpacingType ==
    ASSUME NEW s \in Seq(Sample)
    PROVE  /\ Spacing(s) \in Int /\ MaxBridge(s) \in Int
           /\ MaxBridge(s) = 3 * Spacing(s)
           /\ \A i \in 1 .. Len(s) : s[i].ts \in Int /\ s[i].net \in Int
           /\ \A i \in 1 .. Len(s) - 1 : GapAfter(s, i) \in Int
<1>1. ASSUME NEW i \in 1 .. Len(s) PROVE s[i].ts \in Int /\ s[i].net \in Int
  <2>1. s[i] \in Sample
    OBVIOUS
  <2>2. QED BY <2>1 DEF Sample
<1>2. \A i \in 1 .. Len(s) - 1 : GapAfter(s, i) \in Int
  BY <1>1 DEF GapAfter
<1>3. Spacing(s) \in Int
  <2>1. CASE Len(s) < 2
    BY <2>1 DEF Spacing, SingleSpacing
  <2>2. CASE ~(Len(s) < 2)
    <3>1. Gaps(s) \in Seq(Int) /\ Len(Gaps(s)) = Len(s) - 1
      BY <1>2, <2>2 DEF Gaps
    <3>2. (Len(s) - 1) \div 2 + 1 \in 1 .. Len(s) - 1
      BY <2>2
    <3>3. MedianGap(s) \in Int
      BY <3>1, <3>2, SortedIs DEF MedianGap
    <3>4. QED BY <2>2, <3>3 DEF Spacing
  <2>3. QED BY <2>1, <2>2
<1>4. QED BY <1>1, <1>2, <1>3 DEF MaxBridge

\* A run is maximal if it begins at its leftmost place and ends at its
\* rightmost.
LEMMA MaximalIs ==
    ASSUME NEW s \in Seq(Sample), NEW a \in 1 .. Len(s), NEW m \in a .. Len(s)
    PROVE  <<a, m>> \in MaximalRuns(s) <=> Run(s, a, m) /\ Leftmost(s, a) /\ Rightmost(s, m)
<1>1. /\ a \in Nat /\ m \in Nat /\ a >= 1 /\ a <= m /\ m <= Len(s) /\ Len(s) \in Nat
      /\ DOMAIN s = 1 .. Len(s)
      /\ MaxBridge(s) \in Int
      /\ \A i \in 1 .. Len(s) : s[i].net \in Int
      /\ \A i \in 1 .. Len(s) - 1 : GapAfter(s, i) \in Int
  BY SpacingType
<1>2. <<a, m>> \in MaximalRuns(s) <=>
         /\ Run(s, a, m)
         /\ a > 1 => ~Run(s, a - 1, m)
         /\ m < Len(s) => ~Run(s, a, m + 1)
  BY <1>1 DEF MaximalRuns
<1>3. ASSUME Run(s, a, m), a > 1 PROVE Run(s, a - 1, m) <=> ~Leftmost(s, a)
  <2>1. /\ (a - 1) .. m = {a - 1} \cup a .. m
        /\ (a - 1) .. m - 1 = {a - 1} \cup a .. m - 1
    BY <1>1, <1>3
  <2>2. Run(s, a - 1, m) <=> s[a - 1].net > 0 /\ GapAfter(s, a - 1) <= MaxBridge(s)
    BY <1>3, <2>1 DEF Run
  <2>3. a - 1 \in 1 .. Len(s) /\ a - 1 \in 1 .. Len(s) - 1
    BY <1>1, <1>3
  <2>4. QED BY <1>1, <1>3, <2>2, <2>3 DEF Leftmost
<1>4. ASSUME Run(s, a, m), m < Len(s) PROVE Run(s, a, m + 1) <=> ~Rightmost(s, m)
  <2>1. /\ a .. m + 1 = a .. m \cup {m + 1}
        /\ a .. (m + 1) - 1 = a .. m - 1 \cup {m}
    BY <1>1, <1>4
  <2>2. Run(s, a, m + 1) <=> s[m + 1].net > 0 /\ GapAfter(s, m) <= MaxBridge(s)
    BY <1>4, <2>1 DEF Run
  <2>3. m + 1 \in 1 .. Len(s) /\ m \in 1 .. Len(s) - 1
    BY <1>1, <1>4
  <2>4. QED BY <1>1, <1>4, <2>2, <2>3 DEF Rightmost
<1>5. (~(a > 1) => Leftmost(s, a)) /\ (~(m < Len(s)) => Rightmost(s, m))
  BY DEF Leftmost, Rightmost
<1>6. QED BY <1>2, <1>3, <1>4, <1>5

LEMMA RunsAre ==
    ASSUME NEW s \in Seq(Sample), NEW r \in MaximalRuns(s)
    PROVE  /\ r = <<r[1], r[2]>> /\ r[1] \in 1 .. Len(s) /\ r[2] \in r[1] .. Len(s)
           /\ Run(s, r[1], r[2]) /\ Leftmost(s, r[1]) /\ Rightmost(s, r[2])
<1>1. /\ r = <<r[1], r[2]>> /\ r[1] \in 1 .. Len(s) /\ r[2] \in 1 .. Len(s)
      /\ r[1] <= r[2] /\ Len(s) \in Nat
  BY DEF MaximalRuns
<1>2. r[2] \in r[1] .. Len(s)
  BY <1>1
<1>3. QED BY <1>1, <1>2, MaximalIs

\* The maximal runs that have ended when the loop comes to n.
Ended(s, n) == {r \in MaximalRuns(s) : r[2] < n}

\* A run that begins at its leftmost place and cannot go on is the last maximal
\* one so far.
LEMMA RunEnds ==
    ASSUME NEW s \in Seq(Sample), NEW a \in 1 .. Len(s), NEW n \in a .. Len(s),
           Run(s, a, n), Leftmost(s, a)
    PROVE  /\ Rightmost(s, n) => /\ Ended(s, n + 1) = Ended(s, n) \cup {<<a, n>>}
                                 /\ <<a, n>> \in MaximalRuns(s)
           /\ ~Rightmost(s, n) => Ended(s, n + 1) = Ended(s, n)
           /\ \A r \in Ended(s, n) : r[1] < a
<1>1. /\ a \in Nat /\ n \in Nat /\ a >= 1 /\ a <= n /\ n <= Len(s) /\ Len(s) \in Nat
      /\ MaxBridge(s) \in Int
      /\ \A i \in 1 .. Len(s) : s[i].net \in Int
      /\ \A i \in 1 .. Len(s) - 1 : GapAfter(s, i) \in Int
  BY SpacingType
<1>2. ASSUME NEW r \in Ended(s, n) PROVE r[1] < a
  <2>1. /\ r[1] \in Int /\ r[2] \in Int /\ r[1] >= 1 /\ r[1] <= r[2] /\ r[2] < n
        /\ Rightmost(s, r[2])
    <3>1. r \in MaximalRuns(s) /\ r[2] < n
      BY DEF Ended
    <3>2. QED BY <3>1, RunsAre
  <2>2. ASSUME r[1] >= a PROVE FALSE
    <3>1. /\ r[2] \in a .. n - 1 /\ r[2] + 1 \in a .. n
          /\ r[2] < Len(s) /\ r[2] \in 1 .. Len(s) - 1 /\ r[2] + 1 \in 1 .. Len(s)
      <4>1. /\ a \in Int /\ n \in Int /\ Len(s) \in Int /\ r[1] \in Int /\ r[2] \in Int
            /\ 1 <= a /\ a <= r[1] /\ r[1] <= r[2] /\ r[2] < n /\ n <= Len(s)
        BY ONLY <1>1, <2>1, <2>2
      <4>2. QED BY ONLY <4>1
    <3>2. s[r[2] + 1].net > 0 /\ GapAfter(s, r[2]) <= MaxBridge(s)
      BY <3>1 DEF Run
    <3>3. QED BY <1>1, <2>1, <3>1, <3>2 DEF Rightmost
  <2>3. QED BY <1>1, <2>1, <2>2
<1>3. ASSUME NEW r \in MaximalRuns(s), r[2] = n PROVE r = <<a, n>> /\ Rightmost(s, n)
  <2>1. /\ r = <<r[1], n>> /\ r[1] \in Int /\ r[1] >= 1 /\ r[1] <= n
        /\ Run(s, r[1], n) /\ Leftmost(s, r[1]) /\ Rightmost(s, n)
    BY <1>3, RunsAre
  <2>2. ASSUME r[1] < a PROVE FALSE
    <3>1. a - 1 \in r[1] .. n /\ a - 1 \in r[1] .. n - 1 /\ a > 1
          /\ a - 1 \in 1 .. Len(s) /\ a - 1 \in 1 .. Len(s) - 1
      BY <1>1, <2>1, <2>2
    <3>2. s[a - 1].net > 0 /\ GapAfter(s, a - 1) <= MaxBridge(s)
      BY <2>1, <3>1 DEF Run
    <3>3. QED BY <1>1, <3>1, <3>2 DEF Leftmost
  <2>3. ASSUME a < r[1] PROVE FALSE
    <3>1. r[1] - 1 \in a .. n /\ r[1] - 1 \in a .. n - 1 /\ r[1] > 1
          /\ r[1] - 1 \in 1 .. Len(s) /\ r[1] - 1 \in 1 .. Len(s) - 1
      BY <1>1, <2>1, <2>3
    <3>2. s[r[1] - 1].net > 0 /\ GapAfter(s, r[1] - 1) <= MaxBridge(s)
      BY <3>1 DEF Run
    <3>3. QED BY <1>1, <2>1, <3>1, <3>2 DEF Leftmost
  <2>4. r[1] = a
    BY <1>1, <2>1, <2>2, <2>3
  <2>5. QED BY <2>1, <2>4
<1>4. ASSUME NEW r \in MaximalRuns(s) PROVE r[2] < n + 1 <=> r[2] < n \/ r[2] = n
  <2>1. r[2] \in Int
    BY RunsAre
  <2>2. QED BY <1>1, <2>1
<1>5. ASSUME Rightmost(s, n) PROVE <<a, n>> \in MaximalRuns(s)
  BY <1>5, MaximalIs
<1>6. <<a, n>>[2] = n
  OBVIOUS
<1>7. QED BY <1>2, <1>3, <1>4, <1>5, <1>6 DEF Ended

\* No run ends where there is none.
LEMMA NoneEnds ==
    ASSUME NEW s \in Seq(Sample), NEW n \in 0 .. Len(s), n = 0 \/ s[n].net <= 0
    PROVE  Ended(s, n + 1) = Ended(s, n)
<1>1. ASSUME NEW r \in MaximalRuns(s) PROVE r[2] < n + 1 <=> r[2] < n
  <2>1. r[2] \in Int /\ r[2] >= 1 /\ r[2] <= Len(s) /\ r[2] \in r[1] .. r[2] /\ Run(s, r[1], r[2])
    <3>1. r[1] \in 1 .. Len(s) /\ r[2] \in r[1] .. Len(s) /\ Run(s, r[1], r[2])
      BY RunsAre
    <3>2. QED BY <3>1
  <2>2. s[r[2]].net > 0
    BY <2>1 DEF Run
  <2>3. r[2] # n
    <3>1. ASSUME r[2] = n PROVE FALSE
      <4>1. s[n].net > 0 /\ s[n].net <= 0 /\ s[n].net \in Int
        BY <2>1, <2>2, <3>1, SpacingType
      <4>2. QED BY <4>1
    <3>2. QED BY <3>1
  <2>4. QED BY <2>1, <2>3
<1>2. QED BY <1>1 DEF Ended

\* Each run of a set has its window, in the order of the runs.
Before(R, r) == Cardinality({q \in R : q[1] < r[1]})
Listed(s, windows, R) ==
    /\ IsFiniteSet(R)
    /\ Len(windows) = Cardinality(R)
    /\ \A r \in R : IsWindowOf(s, windows[Before(R, r) + 1], r)

\* The window of a run that begins after all of a set is listed after theirs.
LEMMA ListedAppend ==
    ASSUME NEW s, NEW windows \in Seq(Win), NEW w \in Win,
           NEW R, NEW a \in Int, NEW m \in Int,
           Listed(s, windows, R), IsWindowOf(s, w, <<a, m>>),
           \A r \in R : r[1] \in Int /\ r[1] < a
    PROVE  Listed(s, Append(windows, w), R \cup {<<a, m>>})
<1> DEFINE new == <<a, m>>
           All == R \cup {new}
           A == Append(windows, w)
           Earlier(S, r) == {q \in S : q[1] < r[1]}
<1>1. new[1] = a /\ new \notin R /\ IsFiniteSet(R)
  BY DEF Listed
<1>2. IsFiniteSet(All) /\ Cardinality(All) = Cardinality(R) + 1
  BY <1>1, FS_AddElement
<1>3. Cardinality(R) \in Nat /\ Len(windows) = Cardinality(R)
  BY <1>1, FS_CardinalityType DEF Listed
<1>4. /\ Len(A) = Len(windows) + 1 /\ A[Len(windows) + 1] = w
      /\ \A i \in 1 .. Len(windows) : A[i] = windows[i]
  OBVIOUS
<1>5. ASSUME NEW r \in R PROVE IsWindowOf(s, A[Before(All, r) + 1], r)
  <2>1. Earlier(All, r) = Earlier(R, r)
    BY <1>1
  <2>2. Earlier(R, r) \in SUBSET R /\ r \in R /\ r \notin Earlier(R, r)
    OBVIOUS
  <2>3. /\ IsFiniteSet(Earlier(R, r)) /\ Cardinality(Earlier(R, r)) <= Cardinality(R)
        /\ Cardinality(R) = Cardinality(Earlier(R, r)) => R = Earlier(R, r)
    BY <1>1, <2>2, FS_Subset
  <2>4. Cardinality(Earlier(R, r)) \in Nat
    BY <2>3, FS_CardinalityType
  <2>5. Cardinality(Earlier(R, r)) # Cardinality(R)
    BY <2>2, <2>3
  <2>6. Before(R, r) = Cardinality(Earlier(R, r)) /\ Before(All, r) = Cardinality(Earlier(All, r))
    BY DEF Before
  <2> HIDE DEF Earlier, A, All
  <2>7. Before(R, r) + 1 \in 1 .. Len(windows) /\ Before(All, r) = Before(R, r)
    BY <1>3, <2>1, <2>3, <2>4, <2>5, <2>6
  <2>8. A[Before(All, r) + 1] = windows[Before(R, r) + 1]
    BY <1>4, <2>7
  <2>9. QED BY <2>8 DEF Listed
<1>6. IsWindowOf(s, A[Before(All, new) + 1], new)
  <2>1. Earlier(All, new) = R
    BY <1>1
  <2>2. Before(All, new) = Len(windows)
    BY <1>3, <2>1 DEF Before
  <2>3. QED BY <1>4, <2>2
<1> HIDE DEF A, All, new
<1>7. Listed(s, A, All)
  <2>1. \A r \in All : IsWindowOf(s, A[Before(All, r) + 1], r)
    BY <1>5, <1>6 DEF All
  <2>2. Len(A) = Cardinality(All)
    BY <1>2, <1>3, <1>4
  <2>3. QED BY <1>2, <2>1, <2>2 DEF Listed
<1>8. QED BY <1>7 DEF A, All, new

(***************************************************************************)
(* The loop.                                                               *)
(***************************************************************************)

\* cur is what the loop holds of the run from a to n.
Holds(s, cur, a, n) ==
    /\ a \in 1 .. n /\ Run(s, a, n) /\ Leftmost(s, a)
    /\ cur \in Cur
    /\ cur.start = s[a].ts /\ cur.end = s[n].ts
    /\ cur.samples = n - a + 1
    /\ cur.sum = Total(Nets(s, a, n)) /\ cur.top = Top(Nets(s, a, n))

\* A run is open after a positive sample; the windows flushed before it are
\* those of the runs that have ended.
Positive(s, n) == n > 0 /\ s[n].net > 0

LoopInv(s, n, acc) ==
    /\ acc.windows \in Seq(Win)
    /\ Listed(s, acc.windows, Ended(s, n))
    /\ Positive(s, n) => \E a \in 1 .. n : Holds(s, acc.cur, a, n)
    /\ ~Positive(s, n) => acc.cur = NoWindow

LEMMA NetsAppend ==
    ASSUME NEW s \in Seq(Sample), NEW n \in 0 .. Len(s) - 1, NEW a \in 1 .. n + 1
    PROVE  /\ Nets(s, a, n) \in Seq(Int) /\ Len(Nets(s, a, n)) = n - a + 1
           /\ Nets(s, a, n + 1) = Append(Nets(s, a, n), s[n + 1].net)
           /\ Nets(s, a, n + 1) \in Seq(Int) /\ Len(Nets(s, a, n + 1)) = n - a + 2
<1> DEFINE f == Nets(s, a, n + 1)
           g == Nets(s, a, n)
<1>1. /\ n \in Nat /\ a \in Nat /\ a >= 1 /\ a <= n + 1 /\ n + 1 <= Len(s) /\ Len(s) \in Nat
      /\ \A i \in 1 .. Len(s) : s[i].net \in Int
  BY SpacingType
<1>2. n - a + 1 \in Nat /\ (n + 1) - a + 1 = n - a + 2
  BY <1>1
<1>3. g \in Seq(Int) /\ Len(g) = n - a + 1
  BY <1>1, <1>2 DEF Nets
<1>4. f \in Seq(Int) /\ Len(f) = n - a + 2 /\ f[n - a + 2] = s[n + 1].net
  BY <1>1, <1>2 DEF Nets
<1>5. \A i \in 1 .. n - a + 1 : f[i] = g[i]
  BY <1>1, <1>2 DEF Nets
<1> DEFINE x == s[n + 1].net
<1>6. x \in Int /\ n - a + 2 = (n - a + 1) + 1
  BY <1>1
<1> HIDE DEF f, g, x
<1>7. f = Append(g, x)
  <2>1. /\ Len(f) = Len(g) + 1 /\ f[Len(g) + 1] = x
        /\ \A i \in 1 .. Len(g) : f[i] = g[i]
    BY <1>3, <1>4, <1>5, <1>6 DEF x
  <2>2. QED BY ONLY <1>3, <1>4, <1>6, <2>1, IsAppend
<1>8. QED BY <1>3, <1>4, <1>7 DEF f, g, x

\* A member more, and the largest is the larger.
LEMMA TopAppend ==
    ASSUME NEW q \in Seq(Int), NEW x \in Int
    PROVE  Top(Append(q, x)) = IF q # <<>> /\ Top(q) > x THEN Top(q) ELSE x
<1> DEFINE A == Append(q, x)
<1>1. /\ A \in Seq(Int) /\ A # <<>> /\ Len(A) = Len(q) + 1 /\ A[Len(q) + 1] = x
      /\ Len(q) \in Nat /\ \A i \in 1 .. Len(q) : A[i] = q[i] /\ q[i] \in Int
  OBVIOUS
<1>2. DOMAIN A = 1 .. Len(q) + 1 /\ DOMAIN q = 1 .. Len(q)
  BY <1>1
<1> HIDE DEF A
<1>3. ASSUME q = <<>> PROVE Top(A) = x
  <2>1. Len(q) = 0
    BY <1>3
  <2>2. x \in Range(A) /\ \A i \in 1 .. Len(A) : A[i] <= x
    BY <1>1, <1>2, <2>1 DEF Range
  <2>3. QED BY <1>1, <2>2, TopIs
<1>4. ASSUME q # <<>> PROVE Top(A) = IF Top(q) > x THEN Top(q) ELSE x
  <2> DEFINE t == Top(q)
             v == IF t > x THEN t ELSE x
  <2>1. t \in Range(q) /\ \A i \in 1 .. Len(q) : q[i] <= t
    BY <1>4, TopIs
  <2>2. t \in Int /\ t \in Range(A) /\ x \in Range(A)
    <3> HIDE DEF t
    <3>1. PICK i \in 1 .. Len(q) : q[i] = t
      BY <1>2, <2>1 DEF Range
    <3>2. i \in DOMAIN A /\ A[i] = t /\ Len(q) + 1 \in DOMAIN A /\ t \in Int
      BY <1>1, <1>2, <3>1
    <3>3. QED BY <1>1, <3>2 DEF Range
  <2> HIDE DEF t
  <2>3. v \in Range(A)
    BY <2>2
  <2>4. ASSUME NEW i \in 1 .. Len(A) PROVE A[i] <= v
    <3>1. i \in 1 .. Len(q) \/ i = Len(q) + 1
      BY <1>1
    <3>2. QED BY <1>1, <2>1, <2>2, <3>1
  <2> HIDE DEF v
  <2>5. Top(A) = v
    BY <1>1, <2>3, <2>4, TopIs
  <2>6. QED BY <2>5 DEF v, t
<1>5. QED BY <1>3, <1>4 DEF A

\* A positive sample joins the run, or begins one.
LEMMA JoinHolds ==
    ASSUME NEW s \in Seq(Sample), NEW n \in 0 .. Len(s) - 1, NEW a \in 1 .. n, NEW cur,
           Holds(s, cur, a, n), ~Rightmost(s, n)
    PROVE  Holds(s, Joined(cur, s[n + 1]), a, n + 1)
<1>1. /\ n \in Nat /\ a \in Nat /\ a >= 1 /\ a <= n /\ n + 1 <= Len(s) /\ Len(s) \in Nat
      /\ a \in 1 .. n + 1 /\ n + 1 \in 1 .. Len(s) /\ n < Len(s) /\ n \in 1 .. Len(s) - 1
      /\ a \in 1 .. Len(s)
      /\ s[n + 1].net \in Int /\ s[n + 1].ts \in Int /\ s[a].ts \in Int
      /\ GapAfter(s, n) \in Int /\ MaxBridge(s) \in Int
  BY SpacingType
<1>2. s[n + 1].net > 0 /\ GapAfter(s, n) <= MaxBridge(s)
  BY <1>1 DEF Rightmost
<1>3. Run(s, a, n + 1)
  <2>1. a .. n + 1 = a .. n \cup {n + 1} /\ a .. (n + 1) - 1 = a .. n - 1 \cup {n}
    BY <1>1
  <2>2. Run(s, a, n)
    BY DEF Holds
  <2>3. QED BY <1>2, <2>1, <2>2 DEF Run
<1> DEFINE x == s[n + 1].net
           q == Nets(s, a, n)
<1>4. /\ q \in Seq(Int) /\ Len(q) = n - a + 1 /\ x \in Int
      /\ Nets(s, a, n + 1) = Append(q, x)
  BY <1>1, NetsAppend
<1>5. q # <<>>
  <2>1. Len(q) # 0
    BY <1>1, <1>4
  <2>2. Len(<<>>) = 0
    OBVIOUS
  <2>3. QED BY <2>1, <2>2
<1>6. /\ cur.samples \in Nat \ {0} /\ cur.sum \in Nat /\ cur.start = s[a].ts
      /\ cur.samples = n - a + 1 /\ cur.sum = Total(q) /\ cur.top = Top(q)
      /\ Leftmost(s, a)
  <2>1. cur \in Cur
    BY DEF Holds
  <2>2. cur.samples \in Nat \ {0} /\ cur.sum \in Nat
    BY <2>1 DEF Cur
  <2>3. QED BY <2>2 DEF Holds
<1> HIDE DEF q
<1>7. /\ Total(Append(q, x)) = cur.sum + x
      /\ Top(Append(q, x)) = IF cur.top > x THEN cur.top ELSE x
      /\ Top(q) \in Int
  <2>1. Total(Append(q, x)) = Total(q) + x
    BY <1>4, TotalAppend
  <2>2. Top(Append(q, x)) = IF Top(q) > x THEN Top(q) ELSE x
    BY <1>4, <1>5, TopAppend
  <2>3. Top(q) \in Range(q)
    BY <1>4, <1>5, TopIs
  <2>4. Top(q) \in Int
    BY <1>4, <2>3 DEF Range
  <2>5. QED BY <1>6, <2>1, <2>2, <2>4
<1> DEFINE j == Joined(cur, s[n + 1])
<1>8. j = [start |-> s[a].ts, end |-> s[n + 1].ts, samples |-> cur.samples + 1,
           sum |-> cur.sum + x, top |-> IF cur.top > x THEN cur.top ELSE x]
  <2>1. Open(cur)
    BY <1>6 DEF Open
  <2>2. QED BY <1>6, <2>1 DEF Joined
<1>9. /\ j.start = s[a].ts /\ j.end = s[n + 1].ts /\ j.samples = cur.samples + 1
      /\ j.sum = cur.sum + x /\ j.top = IF cur.top > x THEN cur.top ELSE x
  BY <1>8
<1>10. j \in Cur
  <2>1. cur.samples + 1 \in Nat \ {0} /\ cur.sum + x \in Nat
    <3>1. x > 0 /\ x \in Int /\ cur.samples \in Nat /\ cur.sum \in Nat
      BY <1>2, <1>4, <1>6
    <3> HIDE DEF x
    <3>2. QED BY ONLY <3>1
  <2>2. (IF cur.top > x THEN cur.top ELSE x) \in Int
    BY <1>4, <1>6, <1>7
  <2>3. QED BY <1>1, <1>8, <2>1, <2>2 DEF Cur
<1> HIDE DEF j
<1>11. cur.samples + 1 = (n + 1) - a + 1
  BY <1>1, <1>6
<1>12. Holds(s, j, a, n + 1)
  BY <1>1, <1>3, <1>4, <1>6, <1>7, <1>9, <1>10, <1>11 DEF Holds
<1>13. QED BY <1>12 DEF j

LEMMA BeginHolds ==
    ASSUME NEW s \in Seq(Sample), NEW n \in 0 .. Len(s) - 1,
           s[n + 1].net > 0, Leftmost(s, n + 1)
    PROVE  Holds(s, Joined(NoWindow, s[n + 1]), n + 1, n + 1)
<1>1. /\ n \in Nat /\ n + 1 \in 1 .. Len(s) /\ n + 1 \in 1 .. n + 1
      /\ s[n + 1].net \in Int /\ s[n + 1].ts \in Int
  BY SpacingType
<1>2. Run(s, n + 1, n + 1)
  <2>1. (n + 1) .. (n + 1) = {n + 1} /\ (n + 1) .. (n + 1) - 1 = {}
    BY <1>1
  <2>2. QED BY <2>1 DEF Run
<1> DEFINE x == s[n + 1].net
           q == Nets(s, n + 1, n)
<1>3. q \in Seq(Int) /\ Len(q) = n - (n + 1) + 1 /\ Nets(s, n + 1, n + 1) = Append(q, x)
  BY <1>1, NetsAppend
<1>4. q = <<>>
  BY <1>1, <1>3
<1>5. /\ Total(Append(q, x)) = x /\ Top(Append(q, x)) = x
  <2>1. <<>> \in Seq(Int)
    OBVIOUS
  <2>2. Total(Append(<<>>, x)) = Total(<<>>) + x /\ Top(Append(<<>>, x)) = x
    BY <1>1, <2>1, TotalAppend, TopAppend
  <2>3. Total(<<>>) = 0
    BY NoneAtFirst
  <2>4. 0 + x = x
    BY <1>1
  <2> HIDE DEF q, x
  <2>5. QED BY <1>4, <2>2, <2>3, <2>4
<1> DEFINE j == Joined(NoWindow, s[n + 1])
<1>6. j = [start |-> s[n + 1].ts, end |-> s[n + 1].ts, samples |-> 1, sum |-> x, top |-> x]
  BY <1>1 DEF Joined, Open, NoWindow
<1>7. /\ j.start = s[n + 1].ts /\ j.end = s[n + 1].ts /\ j.samples = 1
      /\ j.sum = x /\ j.top = x
  BY <1>6
<1>8. j \in Cur
  BY <1>1, <1>6 DEF Cur
<1> HIDE DEF j, q
<1>9. 1 = (n + 1) - (n + 1) + 1
  BY <1>1
<1>10. Holds(s, j, n + 1, n + 1)
  BY <1>1, <1>2, <1>3, <1>5, <1>7, <1>8, <1>9 DEF Holds
<1>11. QED BY <1>10 DEF j

\* A run that has ended is flushed as its window.
LEMMA FlushListed ==
    ASSUME NEW s \in Seq(Sample), NEW n \in 1 .. Len(s), NEW a \in 1 .. n, NEW cur,
           NEW windows \in Seq(Win),
           Holds(s, cur, a, n), Rightmost(s, n), Listed(s, windows, Ended(s, n))
    PROVE  /\ Flushed(windows, cur, Spacing(s)) \in Seq(Win)
           /\ Listed(s, Flushed(windows, cur, Spacing(s)), Ended(s, n + 1))
<1> DEFINE w == [ start |-> cur.start, end |-> cur.end, samples |-> cur.samples,
                  sum |-> cur.sum, top |-> cur.top,
                  duration |-> cur.end - cur.start + Spacing(s) ]
<1>1. /\ cur.start \in Int /\ cur.end \in Int /\ cur.samples \in Nat \ {0}
      /\ cur.sum \in Nat /\ cur.top \in Int /\ Spacing(s) \in Int
  <2>1. cur \in Cur
    BY DEF Holds
  <2>2. QED BY <2>1, SpacingType DEF Cur
<1>2. w \in Win
  BY <1>1 DEF Win
<1>3. Flushed(windows, cur, Spacing(s)) = Append(windows, w)
  BY <1>1 DEF Flushed, Open
<1>4. /\ w.start = cur.start /\ w.end = cur.end /\ w.samples = cur.samples
      /\ w.sum = cur.sum /\ w.top = cur.top /\ w.duration = w.end - w.start + Spacing(s)
  OBVIOUS
<1> HIDE DEF w
<1>5. IsWindowOf(s, w, <<a, n>>)
  <2> DEFINE nets == Nets(s, a, n)
  <2>1. <<a, n>>[1] = a /\ <<a, n>>[2] = n
    OBVIOUS
  <2>2. Len(nets) = n - a + 1
    BY DEF Nets
  <2>3. nets = [i \in 1 .. n - a + 1 |-> s[a + i - 1].net]
    BY DEF Nets
  <2> HIDE DEF nets
  <2>4. /\ w.start = s[a].ts /\ w.end = s[n].ts /\ w.samples = Len(nets)
        /\ w.sum = Total(nets) /\ w.top = Sorted(nets)[Len(nets)]
        /\ w.duration = w.end - w.start + Spacing(s)
    BY <1>4, <2>2 DEF Holds, Top, nets
  <2>5. QED BY <2>1, <2>3, <2>4 DEF IsWindowOf
<1>6. /\ Ended(s, n + 1) = Ended(s, n) \cup {<<a, n>>}
      /\ \A r \in Ended(s, n) : r[1] < a
  <2>1. a \in 1 .. Len(s) /\ n \in a .. Len(s) /\ Run(s, a, n) /\ Leftmost(s, a)
    BY DEF Holds
  <2>2. s \in Seq(Sample)
    OBVIOUS
  <2>3. /\ Rightmost(s, n) => /\ Ended(s, n + 1) = Ended(s, n) \cup {<<a, n>>}
                              /\ <<a, n>> \in MaximalRuns(s)
        /\ ~Rightmost(s, n) => Ended(s, n + 1) = Ended(s, n)
        /\ \A r \in Ended(s, n) : r[1] < a
    BY ONLY <2>1, <2>2, RunEnds
  <2>4. QED BY <2>3, Zenon
<1>7. \A r \in Ended(s, n) : r[1] \in Int /\ r[1] < a
  <2>1. ASSUME NEW r \in Ended(s, n) PROVE r[1] \in Int
    <3>1. r \in MaximalRuns(s)
      BY DEF Ended
    <3>2. QED BY <3>1, RunsAre
  <2>2. QED BY <1>6, <2>1
<1>8. Listed(s, Append(windows, w), Ended(s, n) \cup {<<a, n>>})
  <2>1. a \in Int /\ n \in Int
    OBVIOUS
  <2>2. QED BY <1>2, <1>5, <1>7, <2>1, ListedAppend
<1>9. Append(windows, w) \in Seq(Win)
  BY <1>2
<1>10. QED BY <1>9, <1>3, <1>6, <1>8, Zenon

\* One turn of the loop.
LEMMA LoopStep ==
    ASSUME NEW s \in Seq(Sample), NEW n \in 0 .. Len(s) - 1, NEW acc, LoopInv(s, n, acc)
    PROVE  LoopInv(s, n + 1, Turn(acc, s[n + 1], Spacing(s)))
<1> DEFINE p == s[n + 1]
           sp == Spacing(s)
           ends == p.net <= 0 \/ DataGap(acc.cur, p, 3 * sp)
           kept == IF ends THEN NoWindow ELSE acc.cur
           windows == IF ends THEN Flushed(acc.windows, acc.cur, sp) ELSE acc.windows
           cur == IF p.net > 0 THEN Joined(kept, p) ELSE kept
           T == Turn(acc, p, sp)
<1>1. /\ n \in Nat /\ n + 1 \in 1 .. Len(s) /\ n < Len(s) /\ n \in 0 .. Len(s) /\ n + 1 > 0
      /\ p.net \in Int /\ p.ts \in Int /\ (p.net > 0 <=> ~(p.net <= 0))
      /\ (n + 1) - 1 = n
  BY SpacingType
<1>2. T.windows = windows /\ T.cur = cur
  BY DEF Turn
<1>3. acc.windows \in Seq(Win) /\ Listed(s, acc.windows, Ended(s, n))
  BY DEF LoopInv
<1>4. Positive(s, n + 1) <=> p.net > 0
  BY <1>1 DEF Positive
<1>5. ASSUME Positive(s, n)
      PROVE  /\ windows \in Seq(Win) /\ Listed(s, windows, Ended(s, n + 1))
             /\ p.net > 0 => \E a \in 1 .. n + 1 : Holds(s, cur, a, n + 1)
             /\ ~(p.net > 0) => cur = NoWindow
  <2>1. PICK a \in 1 .. n : Holds(s, acc.cur, a, n)
    BY <1>5 DEF LoopInv
  <2>2. n \in 1 .. Len(s) /\ n \in 1 .. Len(s) - 1 /\ n > 0 /\ n + 1 > 1
        /\ a \in 1 .. Len(s) /\ n \in a .. Len(s) /\ a \in 1 .. n + 1
    BY <1>1, <1>5 DEF Positive
  <2>3. Open(acc.cur) /\ acc.cur.end = s[n].ts
    <3>1. acc.cur \in Cur
      BY <2>1 DEF Holds
    <3>2. QED BY <2>1, <3>1 DEF Holds, Cur, Open
  <2>4. ends <=> Rightmost(s, n)
    <3>1. DataGap(acc.cur, p, 3 * sp) <=> GapAfter(s, n) > MaxBridge(s)
      <4>1. MaxBridge(s) = 3 * sp
        BY SpacingType
      <4>2. GapAfter(s, n) = p.ts - s[n].ts
        BY DEF GapAfter
      <4>3. QED BY <2>3, <4>1, <4>2 DEF DataGap
    <3>2. QED BY <1>1, <3>1 DEF Rightmost
  <2> HIDE DEF ends
  <2>5. CASE ends
    <3>1. windows = Flushed(acc.windows, acc.cur, sp) /\ kept = NoWindow
      BY <2>5
    <3>2. windows \in Seq(Win) /\ Listed(s, windows, Ended(s, n + 1))
      <4> HIDE DEF sp, windows
      <4>1. Rightmost(s, n)
        BY <2>4, <2>5
      <4>2. QED BY <1>3, <2>1, <2>2, <3>1, <4>1, FlushListed DEF sp
    <3>3. ASSUME p.net > 0 PROVE Holds(s, cur, n + 1, n + 1)
      <4>1. Leftmost(s, n + 1)
        <5>1. GapAfter(s, n) > MaxBridge(s)
          BY <1>1, <2>4, <2>5, <3>3 DEF Rightmost
        <5>2. QED BY <1>1, <5>1 DEF Leftmost
      <4>2. QED BY <3>1, <3>3, <4>1, BeginHolds
    <3>4. n + 1 \in 1 .. n + 1
      BY <1>1
    <3> HIDE DEF windows
    <3>5. ~(p.net > 0) => cur = NoWindow
      BY <3>1
    <3> HIDE DEF cur, kept
    <3>6. QED BY <3>2, <3>3, <3>4, <3>5
  <2>6. CASE ~ends
    <3>1. windows = acc.windows /\ kept = acc.cur
      BY <2>6
    <3>2. Ended(s, n + 1) = Ended(s, n)
      <4>1. Run(s, a, n) /\ Leftmost(s, a)
        BY <2>1 DEF Holds
      <4>2. ~Rightmost(s, n)
        BY <2>4, <2>6
      <4>3. s \in Seq(Sample)
        OBVIOUS
      <4>4. QED BY ONLY <2>2, <4>1, <4>2, <4>3, RunEnds
    <3>3. p.net > 0
      BY <1>1, <2>6 DEF ends
    <3>4. cur = Joined(acc.cur, p)
      BY <3>1, <3>3
    <3>5. Holds(s, cur, a, n + 1)
      <4>1. ~Rightmost(s, n)
        BY <2>4, <2>6
      <4>2. QED BY <2>1, <3>4, <4>1, JoinHolds
    <3> HIDE DEF windows, cur, kept
    <3>6. QED BY <1>3, <2>2, <3>1, <3>2, <3>3, <3>5
  <2>7. QED BY <2>5, <2>6
<1>6. ASSUME ~Positive(s, n)
      PROVE  /\ windows \in Seq(Win) /\ Listed(s, windows, Ended(s, n + 1))
             /\ p.net > 0 => \E a \in 1 .. n + 1 : Holds(s, cur, a, n + 1)
             /\ ~(p.net > 0) => cur = NoWindow
  <2>1. acc.cur = NoWindow
    BY <1>6 DEF LoopInv
  <2>2. windows = acc.windows /\ kept = NoWindow
    BY <2>1 DEF Flushed, Open, NoWindow
  <2>3. n = 0 \/ s[n].net <= 0
    <3>1. n = 0 \/ n \in 1 .. Len(s)
      BY <1>1
    <3>2. ASSUME n \in 1 .. Len(s) PROVE s[n].net \in Int /\ n > 0
      BY <3>2, SpacingType
    <3>3. QED BY <1>6, <3>1, <3>2 DEF Positive
  <2>4. Ended(s, n + 1) = Ended(s, n)
    BY <1>1, <2>3, NoneEnds
  <2>5. Leftmost(s, n + 1)
    BY <1>1, <2>3 DEF Leftmost
  <2>6. ASSUME p.net > 0 PROVE Holds(s, cur, n + 1, n + 1)
    BY <2>2, <2>5, <2>6, BeginHolds
  <2>7. ~(p.net > 0) => cur = NoWindow
    BY <2>2
  <2>8. n + 1 \in 1 .. n + 1
    BY <1>1
  <2> HIDE DEF windows, cur, kept
  <2>9. QED BY <1>3, <2>2, <2>4, <2>6, <2>7, <2>8
<1> HIDE DEF windows, cur, kept, T, ends
<1>7. LoopInv(s, n + 1, T)
  BY <1>2, <1>4, <1>5, <1>6 DEF LoopInv
<1>8. QED BY <1>7 DEF T

LEMMA LoopHolds ==
    ASSUME NEW s \in Seq(Sample), NEW n \in 0 .. Len(s)
    PROVE  LoopInv(s, n, Turns(s, Spacing(s))[n])
<1> DEFINE L == Turns(s, Spacing(s))
           S == {i \in Nat : i <= Len(s) => LoopInv(s, i, L[i])}
<1>1. Len(s) \in Nat
  OBVIOUS
<1>2. /\ L[0] = [windows |-> <<>>, cur |-> NoWindow]
      /\ \A i \in 1 .. Len(s) : L[i] = Turn(L[i - 1], s[i], Spacing(s))
  BY <1>1, TurnsSteps
<1> HIDE DEF L
<1>3. 0 \in S
  <2>1. L[0].windows = <<>> /\ L[0].cur = NoWindow
    BY <1>2
  <2>2. Ended(s, 0) = {}
    <3>1. ASSUME NEW r \in MaximalRuns(s) PROVE ~(r[2] < 0)
      BY RunsAre
    <3>2. QED BY <3>1 DEF Ended
  <2>3. <<>> \in Seq(Win) /\ Len(<<>>) = 0
    OBVIOUS
  <2>4. IsFiniteSet({}) /\ Cardinality({}) = 0
    BY FS_EmptySet
  <2>5. Listed(s, <<>>, {})
    BY <2>3, <2>4 DEF Listed
  <2>6. ~Positive(s, 0)
    BY DEF Positive
  <2>7. LoopInv(s, 0, L[0])
    BY <2>1, <2>2, <2>3, <2>5, <2>6 DEF LoopInv
  <2>8. QED BY <2>7
<1>4. ASSUME NEW i \in Nat, i \in S PROVE i + 1 \in S
  <2> SUFFICES ASSUME i + 1 <= Len(s) PROVE LoopInv(s, i + 1, L[i + 1])
    OBVIOUS
  <2>1. i \in 0 .. Len(s) - 1 /\ i + 1 \in 1 .. Len(s) /\ (i + 1) - 1 = i /\ i <= Len(s)
    BY <1>1
  <2>2. L[i + 1] = Turn(L[i], s[i + 1], Spacing(s))
    BY ONLY <1>2, <2>1
  <2>3. LoopInv(s, i, L[i])
    BY <1>4, <2>1
  <2>4. QED BY <2>1, <2>2, <2>3, LoopStep
<1>5. n \in S
  <2> HIDE DEF S
  <2>1. QED BY <1>3, <1>4, NatSteps
<1>6. QED BY <1>1, <1>5 DEF L

\* What the single pass over a series finds.
LEMMA WindowsFound ==
    ASSUME NEW s \in Seq(Sample)
    PROVE  FindWindows(s) \in Seq(Win) /\ Listed(s, FindWindows(s), MaximalRuns(s))
<1> DEFINE n == Len(s)
           last == Turns(s, Spacing(s))[n]
           found == Flushed(last.windows, last.cur, Spacing(s))
<1>1. n \in Nat /\ n \in 0 .. n
  OBVIOUS
<1>2. LoopInv(s, n, last)
  BY <1>1, LoopHolds
<1>3. FindWindows(s) = found
  BY DEF FindWindows
<1>4. Ended(s, n + 1) = MaximalRuns(s)
  <2>1. ASSUME NEW r \in MaximalRuns(s) PROVE r[2] < n + 1
    BY <1>1, RunsAre
  <2>2. QED BY <2>1 DEF Ended
<1> HIDE DEF last
<1>5. ASSUME Positive(s, n) PROVE found \in Seq(Win) /\ Listed(s, found, Ended(s, n + 1))
  <2>1. PICK a \in 1 .. n : Holds(s, last.cur, a, n)
    BY <1>2, <1>5 DEF LoopInv
  <2>2. Rightmost(s, n) /\ n \in 1 .. Len(s)
    BY <1>1, <1>5 DEF Rightmost, Positive
  <2>3. last.windows \in Seq(Win) /\ Listed(s, last.windows, Ended(s, n))
    BY <1>2 DEF LoopInv
  <2>4. QED BY <2>1, <2>2, <2>3, FlushListed
<1>6. ASSUME ~Positive(s, n) PROVE found \in Seq(Win) /\ Listed(s, found, Ended(s, n + 1))
  <2>1. last.windows \in Seq(Win) /\ Listed(s, last.windows, Ended(s, n)) /\ last.cur = NoWindow
    BY <1>2, <1>6 DEF LoopInv
  <2>2. found = last.windows
    BY <2>1 DEF Flushed, Open, NoWindow
  <2>3. n = 0 \/ s[n].net <= 0
    <3>1. n = 0 \/ n \in 1 .. Len(s)
      BY <1>1
    <3>2. ASSUME n \in 1 .. Len(s) PROVE s[n].net \in Int /\ n > 0
      BY <3>2, SpacingType
    <3>3. QED BY <1>6, <3>1, <3>2 DEF Positive
  <2>4. Ended(s, n + 1) = Ended(s, n)
    BY <1>1, <2>3, NoneEnds
  <2>5. QED BY <2>1, <2>2, <2>4
<1>7. QED BY <1>3, <1>4, <1>5, <1>6

(***************************************************************************)
(* What the report prints.                                                 *)
(***************************************************************************)
EntryType == [ ts : Nat, raw : Int, ok : BOOLEAN, chg : Int,
               bucket : {"", "down", "flat", "up"}, gross : Int, net : Int ]

LEMMA EntriesType ==
    ASSUME IInv, NEW k \in DOMAIN aggs
    PROVE  aggs[k].entries \in Seq(EntryType)
<1>1. printed
  BY DEF IInv, NoAggs
<1>2. rows \in Seq(Row) /\ k \in Keys /\ aggs[k] = Content(rows, k, includeExcluded)
  BY <1>1, AggsHold DEF IInv
<1> DEFINE q == Picked(rows, Counted(k, includeExcluded))
<1>3. q \in Seq(Row) /\ k[2] \in Directions
  BY <1>2, PickedType DEF Keys
<1>4. aggs[k].entries = Entries(q, k[2])
  BY <1>2, ContentFields
<1>5. ASSUME NEW r \in Row PROVE Entry(r, k[2]) \in EntryType
  <2>1. r \in RowType
    BY RowFacts
  <2>2. /\ r.ts \in Nat /\ r.net[k[2]] \in Int /\ r.gross[k[2]] \in Int
        /\ r.netAdj[k[2]] \in Int /\ r.grossAdj[k[2]] \in Int
        /\ r.ok \in BOOLEAN /\ r.chg \in Int /\ r.bucket \in {"", "down", "flat", "up"}
    <3>1. /\ r.ts \in Nat /\ r.net \in Edge /\ r.gross \in Edge
          /\ r.netAdj \in Edge /\ r.grossAdj \in Edge
          /\ r.ok \in BOOLEAN /\ r.chg \in Int /\ r.bucket \in {"", "down", "flat", "up"}
      BY <2>1 DEF RowType
    <3>2. \A e \in Edge : e[k[2]] \in Int
      BY <1>3 DEF Edge
    <3>3. /\ r.net[k[2]] \in Int /\ r.gross[k[2]] \in Int
          /\ r.netAdj[k[2]] \in Int /\ r.grossAdj[k[2]] \in Int
      BY <3>1, <3>2, Zenon
    <3>4. QED BY <3>1, <3>3, Zenon
  <2>3. QED BY <2>2 DEF Entry, EntryType
<1> HIDE DEF q
<1>6. Entries(q, k[2]) \in Seq(EntryType)
  BY <1>3, <1>5 DEF Entries
<1>7. QED BY <1>4, <1>6

LEMMA ColumnsType ==
    ASSUME NEW entries \in Seq(EntryType)
    PROVE  /\ Canonical(entries) \in Seq(Sample) /\ Raw(entries) \in Seq(Sample)
           /\ Gross(entries) \in Seq(Int) /\ Net(entries) \in Seq(Int)
           /\ NetRaw(entries) \in Seq(Int)
<1>1. ASSUME NEW i \in 1 .. Len(entries)
      PROVE  /\ entries[i].ts \in Int /\ entries[i].raw \in Int
             /\ entries[i].gross \in Int /\ entries[i].net \in Int
  <2>1. entries[i] \in EntryType
    OBVIOUS
  <2>2. /\ entries[i].ts \in Nat /\ entries[i].raw \in Int
        /\ entries[i].gross \in Int /\ entries[i].net \in Int
    BY <2>1 DEF EntryType
  <2>3. \A t \in Nat : t \in Int
    OBVIOUS
  <2>4. QED BY <2>2, <2>3, Zenon
<1>2. Len(entries) \in Nat /\ DOMAIN entries = 1 .. Len(entries)
  OBVIOUS
<1>3. Canonical(entries) \in Seq(Sample)
  BY <1>1, <1>2 DEF Canonical, Column, Sample
<1>4. Raw(entries) \in Seq(Sample)
  BY <1>1, <1>2 DEF Raw, Column, Sample
<1>5. /\ Gross(entries) \in Seq(Int) /\ Net(entries) \in Seq(Int)
      /\ NetRaw(entries) \in Seq(Int)
  BY <1>1, <1>2 DEF Gross, Net, NetRaw, Column
<1>6. QED BY <1>3, <1>4, <1>5

\* Whatever the table holds, the windows of every series are its maximal runs
\* (windows.go:83-118).
THEOREM ReportWindowsAreRuns == Spec => []WindowsAreRuns
<1>1. ASSUME IInv PROVE WindowsAreRuns
  <2>1. ASSUME NEW s \in Series PROVE s \in Seq(Sample)
    BY <1>1, EntriesType, ColumnsType DEF Series
  <2>2. ASSUME NEW s \in Series PROVE Listed(s, FindWindows(s), MaximalRuns(s))
    BY <2>1, WindowsFound
  <2>3. QED BY <2>2 DEF WindowsAreRuns, Listed, Before
<1>2. QED BY <1>1, Invariance, PTL

LEMMA MoreWeight ==
    ASSUME NEW lo \in Int, NEW hi \in Int, NEW a \in Int, NEW b \in Int,
           NEW x \in Nat, NEW y \in Int, lo <= y, y <= hi, lo * a <= b, b <= hi * a
    PROVE  /\ lo * (a + x) <= b + y * x /\ b + y * x <= hi * (a + x)
           /\ a + x \in Int /\ b + y * x \in Int
<1>1. ASSUME NEW u \in Nat PROVE u * x >= 0 /\ u * x \in Int
  OBVIOUS
<1>2. y - lo \in Nat /\ hi - y \in Nat
  OBVIOUS
<1>3. (y - lo) * x >= 0 /\ (hi - y) * x >= 0
  BY <1>1, <1>2
<1>4. /\ (y - lo) * x = y * x - lo * x /\ (hi - y) * x = hi * x - y * x
      /\ lo * (a + x) = lo * a + lo * x /\ hi * (a + x) = hi * a + hi * x
  OBVIOUS
<1>5. /\ lo * a \in Int /\ hi * a \in Int /\ lo * x \in Int /\ hi * x \in Int
      /\ y * x \in Int
  OBVIOUS
<1>6. QED BY <1>3, <1>4, <1>5

\* A weighted sum is at least that of the least value and at most that of the
\* largest.
LEMMA WeightedSum ==
    ASSUME NEW d \in Seq(Int), NEW w \in Seq(Nat), Len(d) = Len(w),
           NEW lo \in Int, NEW hi \in Int, \A i \in 1 .. Len(d) : lo <= d[i] /\ d[i] <= hi,
           NEW dw \in Seq(Int), Len(dw) = Len(d),
           \A i \in 1 .. Len(d) : dw[i] = d[i] * w[i]
    PROVE  lo * Total(w) <= Total(dw) /\ Total(dw) <= hi * Total(w)
<1> DEFINE W == Sums(w)
           D == Sums(dw)
           S == {n \in Nat : n <= Len(w) =>
                     /\ W[n] \in Int /\ D[n] \in Int
                     /\ lo * W[n] <= D[n] /\ D[n] <= hi * W[n]}
<1>1. Len(w) \in Nat /\ Len(dw) \in Nat /\ Len(dw) = Len(w) /\ Len(d) = Len(w)
  OBVIOUS
<1>2. /\ W[0] = 0 /\ D[0] = 0
      /\ \A n \in 1 .. Len(w) : W[n] = W[n - 1] + w[n]
      /\ \A n \in 1 .. Len(w) : D[n] = D[n - 1] + dw[n]
  BY <1>1, SumsSteps
<1> HIDE DEF W, D
<1>3. 0 \in S
  BY <1>2
<1>4. ASSUME NEW n \in Nat, n \in S PROVE n + 1 \in S
  <2> SUFFICES ASSUME n + 1 <= Len(w)
               PROVE  /\ W[n + 1] \in Int /\ D[n + 1] \in Int
                      /\ lo * W[n + 1] <= D[n + 1] /\ D[n + 1] <= hi * W[n + 1]
    OBVIOUS
  <2>1. n + 1 \in 1 .. Len(w) /\ (n + 1) - 1 = n /\ n <= Len(w)
    BY <1>1
  <2>2. /\ W[n] \in Int /\ D[n] \in Int /\ lo * W[n] <= D[n] /\ D[n] <= hi * W[n]
    BY <1>4, <2>1
  <2>3. W[n + 1] = W[n] + w[n + 1] /\ D[n + 1] = D[n] + dw[n + 1]
    BY ONLY <1>2, <2>1
  <2>4. PICK x \in Nat, y \in Int : /\ x = w[n + 1] /\ y = d[n + 1] /\ dw[n + 1] = y * x
                                    /\ lo <= y /\ y <= hi
    <3>1. w[n + 1] \in Nat /\ d[n + 1] \in Int
      <4>1. n + 1 \in 1 .. Len(d)
        BY <1>1, <2>1
      <4>2. \A i \in 1 .. Len(w) : w[i] \in Nat
        OBVIOUS
      <4>3. \A i \in 1 .. Len(d) : d[i] \in Int
        OBVIOUS
      <4>4. QED BY ONLY <2>1, <4>1, <4>2, <4>3
    <3>2. /\ dw[n + 1] = d[n + 1] * w[n + 1]
          /\ lo <= d[n + 1] /\ d[n + 1] <= hi
      BY <1>1, <2>1
    <3>3. QED BY ONLY <3>1, <3>2
  <2>5. PICK a \in Int, b \in Int : a = W[n] /\ b = D[n]
    BY <2>2
  <2>6. /\ lo * (a + x) <= b + y * x /\ b + y * x <= hi * (a + x)
        /\ a + x \in Int /\ b + y * x \in Int
    <3>1. lo * a <= b /\ b <= hi * a
      BY <2>2, <2>5
    <3>2. lo <= y /\ y <= hi
      BY <2>4
    <3>3. QED BY <3>1, <3>2, MoreWeight, Zenon
  <2>7. QED BY ONLY <2>3, <2>4, <2>5, <2>6
<1>5. Len(w) \in S
  <2> HIDE DEF S
  <2>1. QED BY <1>1, <1>3, <1>4, NatSteps
<1>6. QED BY <1>1, <1>5 DEF Total, W, D

LEMMA TotalType ==
    ASSUME NEW q \in Seq(Int)
    PROVE  Total(q) \in Int
<1> DEFINE S == {p \in Seq(Int) : Total(p) \in Int}
<1>1. <<>> \in S
  <2>1. <<>> \in Seq(Int) /\ Total(<<>>) = 0
    BY NoneAtFirst
  <2>2. QED BY <2>1
<1>2. ASSUME NEW p \in Seq(Int), NEW x \in Int, p \in S PROVE Append(p, x) \in S
  <2>1. Append(p, x) \in Seq(Int) /\ Total(Append(p, x)) = Total(p) + x /\ Total(p) \in Int
    BY <1>2, TotalAppend
  <2> HIDE DEF S
  <2>2. Total(Append(p, x)) \in Int
    BY <2>1
  <2>3. QED BY <2>1, <2>2 DEF S
<1>3. Seq(Int) \subseteq S
  <2> HIDE DEF S
  <2>1. QED BY <1>1, <1>2, SeqSteps
<1>4. QED BY <1>3

\* What is in a sequence is picked of it.
LEMMA PickedSome ==
    ASSUME NEW R, NEW q \in Seq(R), NEW members, NEW i \in 1 .. Len(q), q[i] \in members
    PROVE  Picked(q, members) # <<>>
<1> DEFINE Has(s) == \E j \in 1 .. Len(s) : s[j] \in members
           S == {s \in Seq(R) : Has(s) => Picked(s, members) # <<>>}
<1>1. <<>> \in S
  OBVIOUS
<1>2. ASSUME NEW s \in Seq(R), NEW x \in R, s \in S PROVE Append(s, x) \in S
  <2>1. Append(s, x) \in Seq(R) /\ Picked(s, members) \in Seq(R)
    BY PickedType
  <2>2. Picked(Append(s, x), members) =
            IF x \in members THEN Append(Picked(s, members), x) ELSE Picked(s, members)
    BY PickedAppend
  <2>3. \A t \in Seq(R) : Append(t, x) # <<>>
    BY AppendProperties
  <2>4. ASSUME Has(Append(s, x)) PROVE x \in members \/ Has(s)
    <3>1. PICK j \in 1 .. Len(Append(s, x)) : Append(s, x)[j] \in members
      BY <2>4
    <3>2. (j \in 1 .. Len(s) /\ Append(s, x)[j] = s[j]) \/ Append(s, x)[j] = x
      OBVIOUS
    <3>3. QED BY <3>1, <3>2
  <2>5. Has(s) => Picked(s, members) # <<>>
    BY <1>2
  <2> HIDE DEF Has, S
  <2>6. Has(Append(s, x)) => Picked(Append(s, x), members) # <<>>
    BY <2>1, <2>2, <2>3, <2>4, <2>5, Zenon
  <2>7. QED BY <2>1, <2>6 DEF S
<1>3. Seq(R) \subseteq S
  <2> HIDE DEF S
  <2>1. QED BY <1>1, <1>2, SeqSteps
<1>4. QED BY <1>3

LEMMA HourTaken ==
    ASSUME NEW entries \in Seq(EntryType), NEW h \in Hours(entries)
    PROVE  InHour(entries, h) # <<>>
<1>1. PICK i \in 1 .. Len(entries) : h = HourOf(entries[i])
  BY DEF Hours
<1>2. entries[i] \in {e \in Range(entries) : HourOf(e) = h}
  BY <1>1 DEF Range
<1> DEFINE members == {e \in Range(entries) : HourOf(e) = h}
<1> HIDE DEF members
<1>3. Picked(entries, members) # <<>>
  BY <1>2, PickedSome DEF members
<1>4. QED BY <1>3 DEF InHour, members

LEMMA DurationsType ==
    ASSUME NEW windows \in Seq(Win)
    PROVE  /\ Durations(windows) \in Seq(Int) /\ Len(Durations(windows)) = Len(windows)
           /\ \A i \in 1 .. Len(windows) : /\ windows[i].duration \in Int
                                          /\ MeanNet(windows[i]) \in Nat
<1>1. ASSUME NEW i \in 1 .. Len(windows)
      PROVE  windows[i].duration \in Int /\ MeanNet(windows[i]) \in Nat
  <2>1. windows[i] \in Win
    OBVIOUS
  <2>2. windows[i].duration \in Int /\ windows[i].sum \in Nat /\ windows[i].samples \in Nat \ {0}
    BY <2>1 DEF Win
  <2>3. \A x \in Nat, y \in Nat \ {0} : (x * 60) \div y \in Nat
    <3>1. ASSUME NEW z \in Nat, NEW y \in Nat \ {0} PROVE z \div y \in Nat
      OBVIOUS
    <3>2. \A x \in Nat : x * 60 \in Nat
      OBVIOUS
    <3>3. QED BY <3>1, <3>2
  <2>4. QED BY <2>2, <2>3 DEF MeanNet, MeanScale
<1>2. Durations(windows) \in Seq(Int) /\ Len(Durations(windows)) = Len(windows)
  BY <1>1 DEF Durations
<1>3. QED BY <1>1, <1>2

\* The edge-weighted mean lies between the shortest duration and the longest.
LEMMA EdgeWeightedWithin ==
    ASSUME NEW windows \in Seq(Win), windows # <<>>
    PROVE  LET ew == EdgeWeighted(windows)
           IN  /\ \E i \in DOMAIN windows : windows[i].duration * ew.den <= ew.num
               /\ \E i \in DOMAIN windows : windows[i].duration * ew.den >= ew.num
<1> DEFINE d == Durations(windows)
           w == [i \in DOMAIN windows |-> MeanNet(windows[i])]
           dw == [i \in DOMAIN windows |-> windows[i].duration * MeanNet(windows[i])]
           I == 1 .. Len(windows)
<1>1. /\ Len(windows) \in Nat /\ DOMAIN windows = I /\ I # {}
  OBVIOUS
<1>2. \A i \in I : /\ windows[i].duration \in Int /\ MeanNet(windows[i]) \in Nat
                   /\ windows[i].duration * MeanNet(windows[i]) \in Int
  BY DurationsType
<1>3. /\ d \in Seq(Int) /\ Len(d) = Len(windows) /\ \A i \in I : d[i] = windows[i].duration
  BY <1>1, DurationsType DEF Durations
<1>4. w \in Seq(Nat) /\ Len(w) = Len(windows) /\ dw \in Seq(Int) /\ Len(dw) = Len(windows)
      /\ \A i \in I : dw[i] = d[i] * w[i]
  BY <1>1, <1>2, <1>3
<1>5. EdgeWeighted(windows).num = Total(dw) /\ EdgeWeighted(windows).den = Total(w)
  BY DEF EdgeWeighted
<1> HIDE DEF d, w, dw
<1>6. PICK i \in I, j \in I : \A m \in I : d[i] <= d[m] /\ d[m] <= d[j]
  BY <1>1, <1>3, Smallest, Largest
<1>7. d[i] \in Int /\ d[j] \in Int
  BY <1>3
<1>8. d[i] * Total(w) <= Total(dw) /\ Total(dw) <= d[j] * Total(w)
  BY <1>3, <1>4, <1>6, <1>7, WeightedSum
<1>9. Total(w) \in Int /\ Total(dw) \in Int
  BY <1>4, TotalType
<1>10. d[j] * Total(w) \in Int
  BY <1>7, <1>9
<1>11. d[j] * Total(w) >= Total(dw)
  BY <1>8, <1>9, <1>10
<1>12. QED BY <1>1, <1>3, <1>5, <1>8, <1>11

LEMMA SummaryHolds ==
    ASSUME NEW q \in Seq(Int)
    PROVE  /\ SummaryRight(q)
           /\ q # <<>> => CutsAt(q, Summary(q)[50], 50)
<1>1. ASSUME NEW p \in {50, 95, 100} PROVE Summary(q)[p] = Percentile(Sorted(q), p)
  BY DEF Summary
<1>2. ASSUME q # <<>>, NEW p \in {50, 95, 100} PROVE CutsAt(q, Summary(q)[p], p)
  <2>1. p \in 0 .. 100
    OBVIOUS
  <2>2. CutsAt(q, Percentile(Sorted(q), p), p)
    BY <1>2, <2>1, SummaryIsRight
  <2>3. QED BY <1>1, <2>2, Zenon
<1>3. QED BY <1>2 DEF SummaryRight

LEMMA WindowRanksHold ==
    ASSUME NEW series \in Seq(Sample)
    PROVE  WindowRanksRight(series)
<1> DEFINE windows == FindWindows(series)
<1>1. windows \in Seq(Win)
  BY WindowsFound
<1> HIDE DEF windows
<1>2. SummaryRight(Durations(windows))
  BY <1>1, DurationsType, SummaryHolds
<1>3. windows # <<>> =>
          /\ \E i \in DOMAIN windows :
                 windows[i].duration * EdgeWeighted(windows).den <= EdgeWeighted(windows).num
          /\ \E i \in DOMAIN windows :
                 windows[i].duration * EdgeWeighted(windows).den >= EdgeWeighted(windows).num
  BY <1>1, EdgeWeightedWithin
<1>4. QED BY <1>2, <1>3 DEF windows, WindowRanksRight

\* Each rank of the edges, of the windows' durations and of an hour cuts its
\* column where it says, and the edge-weighted mean lies within the durations,
\* whatever the table holds (stats.go:98-110, windows.go:121-136,
\* diagnostics.go:153-176).
THEOREM ReportRanksRight == Spec => []RanksRight
<1>1. ASSUME IInv PROVE RanksRight
  <2> SUFFICES ASSUME NEW k \in DOMAIN aggs
               PROVE  LET entries == aggs[k].entries
                      IN  /\ SummaryRight(Gross(entries))
                          /\ SummaryRight(Net(entries))
                          /\ SummaryRight(NetRaw(entries))
                          /\ WindowRanksRight(Canonical(entries))
                          /\ WindowRanksRight(Raw(entries))
                          /\ \A h \in Hours(entries) :
                                /\ HourlyMedianRight(Net(InHour(entries, h)))
                                /\ HourlyMedianRight(NetRaw(InHour(entries, h)))
    BY DEF RanksRight
  <2> DEFINE entries == aggs[k].entries
  <2>1. entries \in Seq(EntryType)
    BY <1>1, EntriesType
  <2>2. /\ Canonical(entries) \in Seq(Sample) /\ Raw(entries) \in Seq(Sample)
        /\ Gross(entries) \in Seq(Int) /\ Net(entries) \in Seq(Int)
        /\ NetRaw(entries) \in Seq(Int)
    BY <2>1, ColumnsType
  <2> HIDE DEF entries
  <2>3. /\ SummaryRight(Gross(entries)) /\ SummaryRight(Net(entries))
        /\ SummaryRight(NetRaw(entries))
    BY <2>2, SummaryHolds
  <2>4. WindowRanksRight(Canonical(entries)) /\ WindowRanksRight(Raw(entries))
    BY <2>2, WindowRanksHold
  <2>5. ASSUME NEW h \in Hours(entries)
        PROVE  /\ HourlyMedianRight(Net(InHour(entries, h)))
               /\ HourlyMedianRight(NetRaw(InHour(entries, h)))
    <3> DEFINE q == InHour(entries, h)
    <3>1. q \in Seq(EntryType)
      BY <2>1, PickedType DEF InHour
    <3>2. q # <<>>
      BY <2>1, HourTaken
    <3>3. /\ Net(q) \in Seq(Int) /\ Net(q) # <<>>
          /\ NetRaw(q) \in Seq(Int) /\ NetRaw(q) # <<>>
      <4>1. Len(q) # 0
        BY <3>1, <3>2
      <4>2. Len(Net(q)) = Len(q) /\ Len(NetRaw(q)) = Len(q)
        BY <3>1 DEF Net, NetRaw, Column
      <4>3. QED BY <3>1, <4>1, <4>2, ColumnsType
    <3>4. QED BY <3>3, SummaryHolds DEF HourlyMedianRight
  <2>6. QED BY <2>3, <2>4, <2>5 DEF entries
<1>2. QED BY <1>1, Invariance, PTL
===============================================================================
