-------------------------- MODULE Sampling_proofs --------------------------
(***************************************************************************)
(* Sampling for every number of pairs and sizes, every interval and every  *)
(* context that SamplingAssumption allows: the first call under a context  *)
(* is served.                                                              *)
(*                                                                         *)
(* The state keeps how far the next slot lies ahead, and not whose the     *)
(* slots before it are.  The proof gives each its owner: a runner has the  *)
(* slot of its latest call (last) and the one of the call before (before). *)
(* Offsets are from now; the ones that have passed are negative.           *)
(***************************************************************************)
EXTENDS Sampling, FiniteSetTheorems, TLAPS

FirstLegs == {"tvl", "buy"}
SecondLegs == {"tvl2", "sell"}

Types ==
    /\ lag \in Nat
    /\ at \in [Pairs -> {"pause", "wait", "request"}]
    /\ leg \in [Pairs -> Legs]
    /\ size \in [Pairs -> Nat]
    /\ slotIn \in [Pairs -> Nat]
    /\ ctxLeft \in [Pairs -> Nat]

\* Every slot from now on that is taken is the last of a runner or the one
\* before: no runner has three.
AllOwned(last, before) ==
    \A k \in Nat \ {0} :
        lag - k * Interval >= 0
            => \E p \in Pairs : lag - k * Interval \in {last[p], before[p]}

\* How a runner stands to its two slots.  A first call has its slot before its
\* context ends, so only a second call gives up, and by then the first call's
\* slot has passed.
Stands(p, last, before) ==
    /\ before[p] < 0 \/ before[p] < last[p]
    /\ last[p] < 0 \/ last[p] < lag
    /\ at[p] = "wait" => last[p] = slotIn[p]
    /\ at[p] = "request" => last[p] <= 0
    /\ at[p] = "pause" => before[p] < 0
    /\ at[p] # "pause" /\ leg[p] \in FirstLegs => last[p] < ctxLeft[p]
    /\ at[p] # "pause" /\ leg[p] \in SecondLegs => before[p] <= 0 /\ before[p] < ctxLeft[p]

Owners(last, before) ==
    /\ AllOwned(last, before)
    /\ \A p \in Pairs : Stands(p, last, before)

Accounted == \E last, before \in [Pairs -> Int] : Owners(last, before)

IInv == Types /\ Accounted

---------------------------------------------------------------------------
\* If the slots an interval apart below L all have an owner, and there are
\* fewer than n owners, L is below n intervals.
LEMMA FewOwners ==
    ASSUME NEW I \in Nat \ {0}, NEW n \in Nat, NEW L \in Nat,
           NEW T, IsFiniteSet(T), Cardinality(T) < n,
           NEW offset \in [T -> Int],
           \A k \in Nat \ {0} : L - k * I >= 0 => \E o \in T : offset[o] = L - k * I
    PROVE  L < n * I
<1> SUFFICES ASSUME n * I <= L
             PROVE  FALSE
  OBVIOUS
<1> DEFINE owner == [k \in 1 .. n |-> CHOOSE o \in T : offset[o] = L - k * I]
<1>1. ASSUME NEW k \in 1 .. n
      PROVE  k * I \in Int /\ k * I <= n * I
  <2>1. n * I = k * I + (n - k) * I /\ (n - k) * I >= 0
    OBVIOUS
  <2>2. QED BY <2>1
<1>2. ASSUME NEW k \in 1 .. n
      PROVE  owner[k] \in T /\ offset[owner[k]] = L - k * I
  BY <1>1
<1>3. owner \in [1 .. n -> T]
  BY <1>2
<1>4. \A k \in 1 .. n : k * I = L - offset[owner[k]]
  <2>1. ASSUME NEW k \in 1 .. n
        PROVE  k * I = L - offset[owner[k]]
    <3>1. k * I \in Int /\ offset[owner[k]] = L - k * I
      BY <1>1, <1>2
    <3>2. QED BY <3>1
  <2>2. QED BY <2>1
<1> HIDE DEF owner
<1>5. IsFiniteSet(1 .. n) /\ Cardinality(1 .. n) = n
  BY FS_Interval
<1>6. PICK j \in 1 .. n, k \in 1 .. n : j # k /\ owner[j] = owner[k]
  BY <1>3, <1>5, FS_PigeonHole
<1>7. j * I = k * I
  BY <1>4, <1>6
<1>8. (j - k) * I = 0
  BY <1>7
<1>9. QED BY <1>6, <1>8

LEMMA TwoThings == IsFiniteSet({1, 2}) /\ Cardinality({1, 2}) = 2
<1>1. IsFiniteSet({1}) /\ Cardinality({1}) = 1
  BY FS_Singleton
<1>2. /\ IsFiniteSet({1} \cup {2})
      /\ Cardinality({1} \cup {2}) = IF 2 \in {1} THEN Cardinality({1})
                                     ELSE Cardinality({1}) + 1
  BY <1>1, FS_AddElement
<1>3. {1} \cup {2} = {1, 2} /\ 2 \notin {1}
  OBVIOUS
<1>4. QED BY <1>1, <1>2, <1>3

\* The slots of the runners: the last of each and the one before.
Both == Pairs \X {1, 2}
SlotOf(last, before, o) == IF o[2] = 1 THEN last[o[1]] ELSE before[o[1]]

LEMMA BothCounted ==
    IsFiniteSet(Both) /\ Cardinality(Both) = 2 * Cardinality(Pairs)
<1>1. /\ IsFiniteSet(Both)
      /\ Cardinality(Both) = Cardinality(Pairs) * 2
  BY TwoThings, FS_Product, SamplingAssumption DEF Both
<1>2. Cardinality(Pairs) \in Nat
  BY FS_CardinalityType, SamplingAssumption
<1>3. QED BY <1>1, <1>2

\* The limiter is booked out for fewer than n intervals if fewer than n of the
\* runners' slots are still to come.
LEMMA LagBelow ==
    ASSUME Types,
           NEW last \in [Pairs -> Int], NEW before \in [Pairs -> Int],
           AllOwned(last, before),
           NEW T \in SUBSET Both, NEW n \in Nat, IsFiniteSet(T), Cardinality(T) < n,
           \A o \in Both \ T : SlotOf(last, before, o) < 0
    PROVE  lag < n * Interval
<1> DEFINE offset == [o \in T |-> SlotOf(last, before, o)]
<1>1. Interval \in Nat \ {0} /\ lag \in Nat
  BY SamplingAssumption DEF Types
<1>2. offset \in [T -> Int]
  BY DEF Both, SlotOf
<1>3. ASSUME NEW k \in Nat \ {0}, lag - k * Interval >= 0
      PROVE  \E o \in T : offset[o] = lag - k * Interval
  <2>1. PICK q \in Pairs : lag - k * Interval \in {last[q], before[q]}
    BY <1>3 DEF AllOwned
  <2>2. PICK o \in Both : SlotOf(last, before, o) = lag - k * Interval
    <3>1. <<q, 1>> \in Both /\ SlotOf(last, before, <<q, 1>>) = last[q]
      BY DEF Both, SlotOf
    <3>2. <<q, 2>> \in Both /\ SlotOf(last, before, <<q, 2>>) = before[q]
      BY DEF Both, SlotOf
    <3>3. QED BY <2>1, <3>1, <3>2
  <2>3. o \in T
    <3>1. lag - k * Interval \in Nat
      BY <1>1, <1>3
    <3>2. ~(SlotOf(last, before, o) < 0)
      BY <2>2, <3>1
    <3>3. QED BY <3>2
  <2>4. QED BY <2>2, <2>3
<1> HIDE DEF offset
<1>4. QED BY <1>1, <1>2, <1>3, FewOwners

\* A runner about to make a first call has at most one slot from now on, and
\* the others two each: fewer than fit in a context.
LEMMA LagInContext ==
    ASSUME Types, NEW p \in Pairs,
           NEW last \in [Pairs -> Int], NEW before \in [Pairs -> Int],
           AllOwned(last, before), before[p] < 0
    PROVE  lag < QuoteTimeout
<1>1. PICK own : own = <<p, 2>>
  OBVIOUS
<1>2. own \in Both /\ Cardinality(Pairs) \in Nat
  BY <1>1, FS_CardinalityType, SamplingAssumption DEF Both
<1>3. /\ IsFiniteSet(Both \ {own})
      /\ Cardinality(Both \ {own}) = Cardinality(Both) - 1
  BY <1>2, BothCounted, FS_RemoveElement
<1>4. SlotOf(last, before, own) < 0
  BY <1>1 DEF SlotOf
<1>5. lag < (2 * Cardinality(Pairs)) * Interval
  <2>1. /\ 2 * Cardinality(Pairs) \in Nat
        /\ Cardinality(Both \ {own}) < 2 * Cardinality(Pairs)
    BY <1>2, <1>3, BothCounted
  <2>2. QED BY <1>3, <1>4, <2>1, LagBelow
<1>6. QED
  BY <1>2, <1>5, SamplingAssumption DEF Types

---------------------------------------------------------------------------
\* A call takes the next slot for p; the slot of its latest call becomes the one
\* before, and the one before that has passed.
LEMMA CallOwns ==
    ASSUME Types, NEW p \in Pairs, NEW l \in Legs, NEW left \in Nat,
           NEW last \in [Pairs -> Int], NEW before \in [Pairs -> Int],
           Owners(last, before), before[p] < 0,
           NEW last1, last1 = [last EXCEPT ![p] = lag],
           NEW before1, before1 = [before EXCEPT ![p] = last[p]],
           Call(p, l, left),
           l \in FirstLegs => lag < left,
           l \in SecondLegs => last[p] <= 0 /\ last[p] < left
    PROVE  Owners(last1, before1)'
<1> USE SamplingAssumption DEF Types
<1>1. lag \in Nat /\ lag' = lag + Interval /\ Interval \in Nat \ {0}
  BY DEF Call, LagAfter
<1>2. /\ last1[p] = lag /\ before1[p] = last[p]
      /\ \A q \in Pairs \ {p} : last1[q] = last[q] /\ before1[q] = before[q]
  OBVIOUS
<1>3. ASSUME NEW k \in Nat \ {0}, lag' - k * Interval >= 0
      PROVE  \E q \in Pairs : lag' - k * Interval \in {last1[q], before1[q]}
  <2>1. CASE k = 1
    BY <1>1, <1>2, <2>1
  <2>2. CASE k # 1
    <3>1. k - 1 \in Nat \ {0} /\ lag' - k * Interval = lag - (k - 1) * Interval
      BY <1>1, <2>2
    <3>2. PICK q \in Pairs : lag - (k - 1) * Interval \in {last[q], before[q]}
      BY <1>3, <3>1 DEF Owners, AllOwned
    <3>3. CASE q = p
      <4>1. lag - (k - 1) * Interval = last[p]
        BY <1>3, <3>1, <3>2, <3>3
      <4>2. QED BY <1>2, <3>1, <4>1
    <3>4. CASE q # p
      BY <1>2, <3>1, <3>2, <3>4
    <3>5. QED BY <3>3, <3>4
  <2>3. QED BY <2>1, <2>2
<1>4. Stands(p, last1, before1)'
  <2>1. /\ at'[p] = IF lag = 0 THEN "request" ELSE "wait"
        /\ leg'[p] = l /\ slotIn'[p] = lag /\ ctxLeft'[p] = left
    BY DEF Call
  <2>2. last[p] \in Int /\ (last[p] < 0 \/ last[p] < lag)
    BY DEF Owners, Stands
  <2>3. /\ at'[p] = "wait" => last1[p] = slotIn'[p]
        /\ at'[p] = "request" => last1[p] <= 0
        /\ at'[p] # "pause"
    BY <1>2, <2>1
  <2>4. /\ leg'[p] \in FirstLegs => last1[p] < ctxLeft'[p]
        /\ leg'[p] \in SecondLegs => before1[p] <= 0 /\ before1[p] < ctxLeft'[p]
    BY <1>2, <2>1
  <2>5. /\ before1[p] < 0 \/ before1[p] < last1[p]
        /\ last1[p] < 0 \/ last1[p] < lag'
    BY <1>1, <1>2, <2>2
  <2>6. QED BY <2>3, <2>4, <2>5 DEF Stands
<1>5. ASSUME NEW q \in Pairs \ {p}
      PROVE  Stands(q, last1, before1)'
  <2>1. /\ at'[q] = at[q] /\ leg'[q] = leg[q]
        /\ slotIn'[q] = slotIn[q] /\ ctxLeft'[q] = ctxLeft[q]
    BY DEF Call
  <2>2. Stands(q, last, before)
    BY DEF Owners
  <2>3. QED BY <1>1, <1>2, <2>1, <2>2 DEF Stands
<1>6. AllOwned(last1, before1)'
  BY <1>3 DEF AllOwned
<1>7. QED BY <1>4, <1>5, <1>6 DEF Owners

\* The same with the types, as the steps below use it.
LEMMA CallKeeps ==
    ASSUME Types, NEW p \in Pairs, NEW l \in Legs, NEW left \in Nat,
           NEW last \in [Pairs -> Int], NEW before \in [Pairs -> Int],
           Owners(last, before), before[p] < 0,
           Call(p, l, left),
           size' \in [Pairs -> Nat],
           l \in FirstLegs => lag < left,
           l \in SecondLegs => last[p] <= 0 /\ last[p] < left
    PROVE  IInv'
<1> USE SamplingAssumption DEF Types
<1>1. /\ [last EXCEPT ![p] = lag] \in [Pairs -> Int]
      /\ [before EXCEPT ![p] = last[p]] \in [Pairs -> Int]
  OBVIOUS
<1>2. Accounted'
  BY <1>1, CallOwns DEF Accounted
<1>3. Types'
  <2>1. lag' \in Nat
    BY DEF Call, LagAfter
  <2>2. /\ at' \in [Pairs -> {"pause", "wait", "request"}]
        /\ leg' \in [Pairs -> Legs]
    BY DEF Call
  <2>3. slotIn' \in [Pairs -> Nat] /\ ctxLeft' \in [Pairs -> Nat]
    BY DEF Call
  <2>4. QED BY <2>1, <2>2, <2>3
<1>4. QED BY <1>2, <1>3 DEF IInv

\* A first call: p has one slot from now on at most.
LEMMA FirstCallKeeps ==
    ASSUME Types, NEW p \in Pairs, NEW l \in FirstLegs,
           NEW last \in [Pairs -> Int], NEW before \in [Pairs -> Int],
           Owners(last, before), before[p] < 0,
           Call(p, l, QuoteTimeout),
           size' \in [Pairs -> Nat]
    PROVE  IInv'
<1>1. lag < QuoteTimeout
  BY LagInContext DEF Owners
<1>2. l \in Legs /\ l \notin SecondLegs /\ QuoteTimeout \in Nat
  BY SamplingAssumption DEF FirstLegs, SecondLegs, Legs
<1>3. QED BY <1>1, <1>2, CallKeeps

LEMMA PauseKeeps ==
    ASSUME Types, NEW p \in Pairs,
           NEW last \in [Pairs -> Int], NEW before \in [Pairs -> Int],
           Owners(last, before), before[p] < 0,
           Pause(p)
    PROVE  IInv'
<1>1. Types'
  BY DEF Types, Pause, Legs
<1>2. AllOwned(last, before)'
  BY DEF Owners, AllOwned, Pause
<1>3. ASSUME NEW q \in Pairs
      PROVE  Stands(q, last, before)'
  BY DEF Owners, Stands, Pause, Types
<1>4. QED BY <1>1, <1>2, <1>3 DEF IInv, Accounted, Owners

\* What follows a call that is over, of a runner whose slot before that call has
\* passed, and whose own has if it was a first call.
LEMMA AfterKeeps ==
    ASSUME Types, NEW p \in Pairs, NEW served \in BOOLEAN,
           NEW last \in [Pairs -> Int], NEW before \in [Pairs -> Int],
           Owners(last, before), before[p] < 0,
           at[p] # "pause",
           leg[p] \in FirstLegs => last[p] <= 0,
           After(p, served)
    PROVE  IInv'
<1> USE DEF Types
<1>1. leg[p] \in FirstLegs => last[p] < ctxLeft[p]
  BY DEF Owners, Stands
<1>2. CASE leg[p] = "tvl" /\ Call(p, "tvl2", ctxLeft[p]) /\ UNCHANGED size
  <2>1. leg[p] \in FirstLegs /\ "tvl2" \in Legs /\ "tvl2" \notin FirstLegs
    BY <1>2 DEF FirstLegs, Legs
  <2>2. QED BY <1>1, <1>2, <2>1, CallKeeps
<1>3. CASE leg[p] = "buy" /\ Call(p, "sell", ctxLeft[p]) /\ UNCHANGED size
  <2>1. leg[p] \in FirstLegs /\ "sell" \in Legs /\ "sell" \notin FirstLegs
    BY <1>3 DEF FirstLegs, Legs
  <2>2. QED BY <1>1, <1>3, <2>1, CallKeeps
<1>4. CASE NextSize(p)
  <2>1. /\ Call(p, "buy", QuoteTimeout)
        /\ size' \in [Pairs -> Nat]
        /\ "buy" \in FirstLegs
    BY <1>4 DEF NextSize, ContextOfSize, FirstLegs
  <2>2. QED BY <2>1, FirstCallKeeps
<1>5. CASE PassOver(p)
  BY <1>5, PauseKeeps DEF PassOver
<1>6. QED BY <1>2, <1>3, <1>4, <1>5 DEF After

LEMMA InitIInv == Init => IInv
<1> SUFFICES ASSUME Init
             PROVE  IInv
  OBVIOUS
<1>1. Types
  BY DEF Init, Types, Legs
<1>2. PICK none \in [Pairs -> Int] : \A p \in Pairs : none[p] = -1
  <2>1. [p \in Pairs |-> -1] \in [Pairs -> Int]
    OBVIOUS
  <2>2. QED BY <2>1
<1>3. ASSUME NEW k \in Nat \ {0}
      PROVE  ~(lag - k * Interval >= 0)
  <2>1. k * Interval \in Nat \ {0}
    BY SamplingAssumption
  <2>2. QED BY <2>1 DEF Init
<1>4. AllOwned(none, none)
  BY <1>3 DEF AllOwned
<1>5. \A p \in Pairs : Stands(p, none, none)
  BY <1>2 DEF Init, Stands
<1>6. QED BY <1>1, <1>4, <1>5 DEF IInv, Accounted, Owners

LEMMA ElapseKeeps == IInv /\ Elapse => IInv'
<1> SUFFICES ASSUME IInv, Elapse
             PROVE  IInv'
  OBVIOUS
<1> USE SamplingAssumption DEF Types
<1>1. Types
  BY DEF IInv
<1>2. PICK last \in [Pairs -> Int], before \in [Pairs -> Int] : Owners(last, before)
  BY DEF IInv, Accounted
<1>3. PICK last1 \in [Pairs -> Int] : \A p \in Pairs : last1[p] = last[p] - 1
  <2>1. [p \in Pairs |-> last[p] - 1] \in [Pairs -> Int]
    OBVIOUS
  <2>2. QED BY <2>1
<1>4. PICK before1 \in [Pairs -> Int] : \A p \in Pairs : before1[p] = before[p] - 1
  <2>1. [p \in Pairs |-> before[p] - 1] \in [Pairs -> Int]
    OBVIOUS
  <2>2. QED BY <2>1
<1>5. lag' = (IF lag > 0 THEN lag - 1 ELSE 0) /\ lag' \in Nat
  BY <1>1 DEF Elapse, Less
<1>6. Types'
  BY <1>1, <1>5 DEF Elapse, Less
<1>7. AllOwned(last1, before1)'
  <2>1. ASSUME NEW k \in Nat \ {0}, lag' - k * Interval >= 0
        PROVE  \E p \in Pairs : lag' - k * Interval \in {last1[p], before1[p]}
    <3>1. k * Interval \in Nat \ {0}
      OBVIOUS
    <3>2. lag' = lag - 1 /\ lag - k * Interval >= 0
      BY <1>1, <1>5, <2>1, <3>1
    <3>3. PICK p \in Pairs : lag - k * Interval \in {last[p], before[p]}
      BY <1>2, <3>2 DEF Owners, AllOwned
    <3>4. lag' - k * Interval \in {last1[p], before1[p]}
      BY <1>1, <1>3, <1>4, <3>1, <3>2, <3>3
    <3>5. QED BY <3>4
  <2>2. QED BY <2>1 DEF AllOwned
<1>8. ASSUME NEW p \in Pairs
      PROVE  Stands(p, last1, before1)'
  <2>1. /\ at'[p] = at[p] /\ leg'[p] = leg[p]
        /\ slotIn'[p] = IF slotIn[p] > 0 THEN slotIn[p] - 1 ELSE 0
        /\ ctxLeft'[p] = IF ctxLeft[p] > 0 THEN ctxLeft[p] - 1 ELSE 0
    BY <1>1 DEF Elapse, Less
  <2>2. at[p] # "pause" => ctxLeft[p] > 0 /\ (at[p] = "wait" => slotIn[p] > 0)
    BY <1>1 DEF Elapse, Due
  <2>3. Stands(p, last, before)
    BY <1>2 DEF Owners
  <2>4. last1[p] = last[p] - 1 /\ before1[p] = before[p] - 1
    BY <1>3, <1>4
  <2>5. QED BY <1>1, <1>5, <2>1, <2>2, <2>3, <2>4 DEF Stands
<1>9. QED BY <1>6, <1>7, <1>8 DEF IInv, Accounted, Owners

LEMMA StepIInv == IInv /\ [Next]_samplingVars => IInv'
<1> SUFFICES ASSUME IInv, [Next]_samplingVars
             PROVE  IInv'
  OBVIOUS
<1> USE DEF Types
<1>1. Types
  BY DEF IInv
<1>2. PICK last \in [Pairs -> Int], before \in [Pairs -> Int] : Owners(last, before)
  BY DEF IInv, Accounted
<1>3. \A p \in Pairs : Stands(p, last, before)
  BY <1>2 DEF Owners
<1>4. CASE Elapse
  BY <1>4, ElapseKeeps
<1>5. ASSUME NEW p \in Pairs, StartWithTVL(p) \/ StartQuoting(p)
      PROVE  IInv'
  <2>1. before[p] < 0
    BY <1>3, <1>5 DEF Stands, StartWithTVL, StartQuoting
  <2>2. PICK l \in FirstLegs : Call(p, l, QuoteTimeout)
    BY <1>5 DEF StartWithTVL, StartQuoting, NextSize, ContextOfSize, FirstLegs
  <2>3. size' \in [Pairs -> Nat]
    BY <1>1, <1>5 DEF StartWithTVL, StartQuoting, NextSize
  <2>4. QED BY <1>1, <1>2, <2>1, <2>2, <2>3, FirstCallKeeps
<1>6. ASSUME NEW p \in Pairs, SlotComes(p)
      PROVE  IInv'
  <2>1. Types'
    BY <1>1, <1>6 DEF SlotComes
  <2>2. AllOwned(last, before)'
    BY <1>2, <1>6 DEF Owners, AllOwned, SlotComes
  <2>3. ASSUME NEW q \in Pairs
        PROVE  Stands(q, last, before)'
    BY <1>1, <1>3, <1>6 DEF Stands, SlotComes
  <2>4. QED BY <2>1, <2>2, <2>3 DEF IInv, Accounted, Owners
<1>7. ASSUME NEW p \in Pairs, GiveUp(p)
      PROVE  IInv'
  <2>1. at[p] = "wait" /\ ctxLeft[p] = 0 /\ last[p] = slotIn[p] /\ slotIn[p] \in Nat
    BY <1>1, <1>3, <1>7 DEF GiveUp, Stands
  <2>2. leg[p] \notin FirstLegs
    BY <1>3, <2>1 DEF Stands
  <2>3. leg[p] \in SecondLegs
    BY <1>1, <2>2 DEF FirstLegs, SecondLegs, Legs
  <2>4. before[p] < 0
    BY <1>3, <2>1, <2>3 DEF Stands
  <2>5. After(p, FALSE) /\ at[p] # "pause"
    BY <1>7 DEF GiveUp
  <2>6. QED BY <1>1, <1>2, <2>2, <2>4, <2>5, AfterKeeps
<1>8. ASSUME NEW p \in Pairs, NEW served \in BOOLEAN, at[p] = "request", After(p, served)
      PROVE  IInv'
  <2>1. last[p] <= 0 /\ before[p] < 0
    BY <1>3, <1>8 DEF Stands
  <2>2. QED BY <1>1, <1>2, <1>8, <2>1, AfterKeeps
<1>9. CASE UNCHANGED samplingVars
  BY <1>9 DEF samplingVars, IInv, Accounted, Owners, AllOwned, Stands
<1>10. QED
  BY <1>4, <1>5, <1>6, <1>7, <1>8, <1>9
     DEF Next, Runner, Start, Answered, Failed

LEMMA Invariance == Spec => []IInv
  BY InitIInv, StepIInv, PTL DEF Spec

\* The first call under every context has a slot before the context ends, for
\* every number of pairs and sizes and all timings, as long as a context lasts
\* two intervals per pair (ratelimit.go:33-53, engine.go:231-234, 384-386).
THEOREM SamplingFirstCallsServed == Spec => []FirstCallsServed
<1>1. IInv => FirstCallsServed
  BY DEF IInv, Accounted, Owners, Stands, FirstLegs, FirstCallsServed
<1>2. QED BY <1>1, Invariance, PTL

\* The limiter is never booked out for more than two slots of every pair and the
\* rest of the one that has come: the slots given up do not pile up, for any
\* number of passes (ratelimit.go:33-40, 48-53).
THEOREM SamplingBacklogBounded ==
    Spec => [](lag < (2 * Cardinality(Pairs) + 1) * Interval)
<1>1. ASSUME IInv
      PROVE  lag < (2 * Cardinality(Pairs) + 1) * Interval
  <2>1. PICK last \in [Pairs -> Int], before \in [Pairs -> Int] : AllOwned(last, before)
    BY <1>1 DEF IInv, Accounted, Owners
  <2>2. /\ 2 * Cardinality(Pairs) + 1 \in Nat
        /\ Cardinality(Both) < 2 * Cardinality(Pairs) + 1
    BY BothCounted, FS_CardinalityType, SamplingAssumption
  <2>3. QED BY <1>1, <2>1, <2>2, BothCounted, LagBelow DEF IInv
<1>2. QED BY <1>1, Invariance, PTL
===============================================================================
