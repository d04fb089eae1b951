--------------------------- MODULE PairRunner_proofs ---------------------------
(***************************************************************************)
(* PairRunner for every configuration: types, and the invariants that say  *)
(* which samples may count.                                                *)
(***************************************************************************)
EXTENDS PairRunner, TLAPS

LEMMA GreaterType ==
    ASSUME NEW a \in Int, NEW b \in Int
    PROVE  Greater(a, b) \in Int
  BY DEF Greater

LEMMA AbsType ==
    ASSUME NEW a \in Int, NEW b \in Int
    PROVE  Abs(a - b) \in Nat
  BY DEF Abs

LEMMA ConfigTypes ==
    /\ QuoteTimeout \in Nat /\ MaxBookAge \in Nat /\ MaxLegSkew \in Nat
    /\ MinTVL \in Nat /\ LookbackMax \in Nat /\ MidKeep \in Nat
    /\ Interval \in Nat \ {0}
  BY RunnerAssumption DEF RunnerAssumption

\* The ticker's next tick is on its grid, after the present.
LEMMA NextTick ==
    ASSUME NEW t \in Nat, NEW n \in Nat, t <= n, NEW i \in Nat \ {0}
    PROVE  t + ((n - t) \div i + 1) * i \in Nat
<1> DEFINE q == (n - t) \div i
<1>1. q \in Nat
  OBVIOUS
<1> HIDE DEF q
<1>2. (q + 1) * i \in Nat
  BY <1>1
<1>3. t + (q + 1) * i \in Nat
  BY <1>2
<1>4. QED BY <1>3 DEF q

LEMMA SpreadType ==
    ASSUME NEW a \in Int, NEW b \in Int, b > 0
    PROVE  SpreadBps(a, b) \in Int
  BY DEF SpreadBps, BpsScale

LEMMA CostType ==
    ASSUME NEW fee \in Nat, NEW gas \in Nat, NEW buffer \in Nat,
           NEW size \in Nat \ {0}
    PROVE  CostBps(fee, gas, buffer, size) \in Int
  BY DEF CostBps, BpsScale

\* The edges of a sample are integers: no price it divides by is zero.
LEMMA EdgesType ==
    ASSUME NEW bid \in Int, NEW ask \in Int, NEW buy \in Int, NEW sell \in Int,
           NEW b \in Int, NEW cost \in Int
    PROVE  ComputeEdges(bid, ask, buy, sell, b, cost) \in
             [buyDex : Int, buyCex : Int, buyDexAdj : Int, buyCexAdj : Int]
<1> DEFINE e == EffectiveBasis(b)
<1>1. e \in Int /\ e > 0
  BY DEF EffectiveBasis
<1>2. buy > 0 => /\ SpreadBps(bid, buy) \in Int
                 /\ SpreadBps(bid * 100, buy * e) \in Int
  <2>1. ASSUME buy > 0 PROVE buy * e \in Int /\ buy * e > 0
    BY <2>1, <1>1
  <2>2. QED BY <2>1, SpreadType
<1>3. ask > 0 => /\ SpreadBps(sell, ask) \in Int
                 /\ SpreadBps(sell * e, ask * 100) \in Int
  <2>1. sell * e \in Int
    BY <1>1
  <2>2. QED BY <2>1, SpreadType
<1>4. QED BY <1>2, <1>3 DEF ComputeEdges

(***************************************************************************)
(* Types.                                                                  *)
(***************************************************************************)
Quoting == {"buy", "sell", "stamp", "check", "record", "write"}

\* While a size is being quoted it is one of the configured sizes.
SizeInRange == pc \in Quoting => idx <= Len(Sizes)

Typed == TypeOK /\ SizeInRange

Locals == <<idx, leg, deadline, quote, dexTs, smp, tvlUsed, mom, best, nets>>

LEMMA BlankTypes ==
    /\ NoBook \in Book
    /\ NoBasis \in BasisBook
    /\ NoQuote \in Quotes
    /\ NoBest \in Ranking
    /\ NoMomentum \in Momentum
    /\ NoSample \in Sample
<1>1. NoBook \in Book /\ NoBasis \in BasisBook /\ NoQuote \in Quotes /\ NoBest \in Ranking
  BY DEF NoBook, Book, NoBasis, BasisBook, NoQuote, Quotes, NoBest, Ranking, ZeroTime
<1>2. NoMomentum \in Momentum
  BY DEF NoMomentum, Momentum, ZeroTime
<1>3. NoSample \in Sample
  BY <1>2 DEF NoSample, Sample, ZeroTime, Unknown
<1>4. QED BY <1>1, <1>2, <1>3

LEMMA TypedInit == Init => Typed
<1> SUFFICES ASSUME Init
             PROVE  Typed
  OBVIOUS
<1>1. summary \in Summary
  BY DEF Init, Summary, ZeroTime
<1>2. TypeOK
  BY <1>1, BlankTypes DEF Init, TypeOK, Places, ZeroTime, Unknown
<1>3. SizeInRange
  BY DEF Init, SizeInRange, Quoting
<1>4. QED BY <1>2, <1>3 DEF Typed

LEMMA TypedReturn ==
    ASSUME Typed, ReturnToLoop,
           UNCHANGED <<env, tickAt, tvl, tvlAt, mids, seen, late>>,
           summary' \in Summary
    PROVE  Typed'
<1>1. TypeOK'
  BY BlankTypes DEF ReturnToLoop, Typed, TypeOK, Places, env, ZeroTime, Unknown
<1>2. SizeInRange'
  BY DEF ReturnToLoop, SizeInRange, Quoting
<1>3. QED BY <1>1, <1>2 DEF Typed

LEMMA TypedNextSize ==
    ASSUME Typed, NextSize,
           UNCHANGED <<env, tickAt, gate, momentum, summary>>,
           best' \in Ranking, late' \in Nat
    PROVE  Typed'
<1>1. TypeOK'
  BY BlankTypes DEF NextSize, Typed, TypeOK, Places, env, gate, momentum, ZeroTime, Unknown
<1>2. SizeInRange'
  BY DEF NextSize, SizeInRange, Quoting
<1>3. QED BY <1>1, <1>2 DEF Typed

LEMMA SampleType ==
    ASSUME Typed, pc = "record"
    PROVE  BuildSample \in Sample
<1>1. /\ Costs.fee \in Nat
      /\ Costs.gas \in Nat
      /\ Costs.buffer \in Nat
  BY RunnerAssumption DEF RunnerAssumption
<1>2. idx \in 1..Len(Sizes)
  BY DEF Typed, TypeOK, SizeInRange, Quoting
<1>3. Sizes[idx] \in Nat \ {0}
  BY <1>2, RunnerAssumption DEF RunnerAssumption
<1>4. CostBps(Costs.fee, Costs.gas, Costs.buffer, Sizes[idx]) \in Int
  BY <1>1, <1>3, CostType
<1>5. /\ leg.bid \in Int /\ leg.ask \in Int
      /\ quote.buy \in Int /\ quote.sell \in Int
      /\ basis.mid \in Int
      /\ leg.ts \in Int /\ dexTs \in Int
  BY DEF Typed, TypeOK, Book, BasisBook, Quotes, ZeroTime
<1>6. ASSUME NEW b \in Int
      PROVE  /\ BestRaw(SampleEdges(b)) \in Int
             /\ AdjOfBestRaw(SampleEdges(b)) \in Int
  <2>1. SampleEdges(b) \in [buyDex : Int, buyCex : Int, buyDexAdj : Int, buyCexAdj : Int]
    BY <1>4, <1>5, EdgesType DEF SampleEdges
  <2>2. ASSUME NEW e \in [buyDex : Int, buyCex : Int, buyDexAdj : Int, buyCexAdj : Int]
        PROVE  BestRaw(e) \in Int /\ AdjOfBestRaw(e) \in Int
    BY GreaterType DEF BestRaw, AdjOfBestRaw
  <2>3. QED BY <2>1, <2>2
<1>7. Skew \in Nat
  <2>1. Abs(dexTs - leg.ts) \in Nat
    BY <1>5, AbsType
  <2>2. QED BY <2>1 DEF Skew
<1>8. ExcludeReasons \in SUBSET {"tvl", "skew", "basis"}
  BY DEF ExcludeReasons
<1> DEFINE usesBasis == HasBasis /\ BasisUsable
           basisMid == IF usesBasis THEN basis.mid ELSE 0
<1>9. basisMid \in Int
  BY <1>5
<1>10. /\ BestRaw(SampleEdges(basisMid)) \in Int
       /\ AdjOfBestRaw(SampleEdges(basisMid)) \in Int
  BY <1>6, <1>9
<1>11. /\ leg.ts \in Nat \cup {ZeroTime} /\ dexTs \in Nat \cup {ZeroTime}
       /\ basis.ts \in Nat \cup {ZeroTime}
       /\ tvlUsed \in Nat \cup {Unknown} /\ mom \in Momentum
  BY DEF Typed, TypeOK, Book, BasisBook
<1>12. BuildSample = [ cexTs |-> leg.ts, dexTs |-> dexTs, skew |-> Skew,
                      basisTs |-> IF usesBasis THEN basis.ts ELSE ZeroTime,
                      tvl |-> tvlUsed, momentum |-> mom,
                      raw |-> BestRaw(SampleEdges(basisMid)),
                      adj |-> AdjOfBestRaw(SampleEdges(basisMid)),
                      reasons |-> ExcludeReasons, include |-> ExcludeReasons = {} ]
  BY DEF BuildSample
<1>13. (IF usesBasis THEN basis.ts ELSE ZeroTime) \in Nat \cup {ZeroTime}
  BY <1>11
<1>14. (ExcludeReasons = {}) \in BOOLEAN
  OBVIOUS
<1>15. QED BY <1>7, <1>8, <1>10, <1>11, <1>12, <1>13, <1>14, Zenon DEF Sample

LEMMA MidsType ==
    ASSUME Typed, book.ts # ZeroTime
    PROVE  /\ RecordMid(mids, book) \subseteq [ts : Nat, mid : Int]
           /\ Momentum10s(RecordMid(mids, book), book) \in Momentum
<1>1. book.ts \in Nat /\ DoubleMid(book) \in Int
  BY DEF Typed, TypeOK, Book, ZeroTime, DoubleMid
<1>2. RecordMid(mids, book) \subseteq mids \cup {[ts |-> book.ts, mid |-> DoubleMid(book)]}
  BY DEF RecordMid, PruneMids
<1>3. mids \subseteq seen /\ seen \subseteq [ts : Nat, mid : Int]
  BY DEF Typed, TypeOK
<1>4. ASSUME NEW h, h \subseteq [ts : Nat, mid : Int]
      PROVE  Momentum10s(h, book) \in Momentum
  <2>1. CASE ClosestReferences(h, book.ts) = {}
    BY <2>1, BlankTypes DEF Momentum10s
  <2>2. CASE ClosestReferences(h, book.ts) # {}
    <3> DEFINE p == CHOOSE q \in ClosestReferences(h, book.ts) : TRUE
    <3>1. p \in h
      BY <2>2 DEF ClosestReferences, References
    <3>2. p.ts \in Nat
      BY <3>1, <1>4
    <3> DEFINE bucket == BucketMomentum(SpreadBps(DoubleMid(book), p.mid), Threshold)
    <3>3. bucket \in {"down", "flat", "up"}
      BY DEF BucketMomentum
    <3>4. Momentum10s(h, book) = [ok |-> TRUE, ref |-> p.ts, bucket |-> bucket]
      BY <2>2 DEF Momentum10s
    <3> HIDE DEF p, bucket
    <3>5. [ok |-> TRUE, ref |-> p.ts, bucket |-> bucket] \in Momentum
      BY <3>2, <3>3 DEF Momentum
    <3>6. QED BY <3>4, <3>5
  <2>3. QED BY <2>1, <2>2
<1>5. QED BY <1>1, <1>2, <1>3, <1>4

LEMMA TypedStep == Typed /\ [Next]_runnerVars => Typed'
<1> SUFFICES ASSUME Typed, [Next]_runnerVars
             PROVE  Typed'
  OBVIOUS
<1> USE DEF Typed, SizeInRange, Quoting, env, quoting, gate, momentum, ranking
<1>1. CASE Elapse \/ Stop
  <2>1. CASE Elapse
    BY <2>1 DEF Elapse, TypeOK
  <2>2. CASE Stop
    BY <2>2 DEF Stop, TypeOK
  <2>3. QED BY <1>1, <2>1, <2>2
<1>2. ASSUME NEW price \in BookPrices, BookArrives(price)
      PROVE  Typed'
  <2>1. price[1] \in Int /\ price[2] \in Int
    BY RunnerAssumption DEF RunnerAssumption
  <2>2. book' \in Book
    BY <1>2, <2>1 DEF BookArrives, Book, TypeOK
  <2>3. QED BY <1>2, <2>2 DEF BookArrives, TypeOK
<1>3. ASSUME NEW mid \in BasisMids, BasisArrives(mid)
      PROVE  Typed'
  <2>1. basis' \in BasisBook
    BY <1>3, RunnerAssumption DEF BasisArrives, BasisBook, TypeOK, RunnerAssumption
  <2>2. QED BY <1>3, <2>1 DEF BasisArrives, TypeOK
<1>4. CASE StaggerOver \/ TickTaken
  <2>1. tickAt' \in Nat
    BY <1>4, ConfigTypes, NextTick DEF StaggerOver, TickTaken, TickDue, TypeOK
  <2>2. QED BY <1>4, <2>1 DEF StaggerOver, TickTaken, TypeOK, Places
<1>5. CASE StoppedWhileStaggered \/ StopTaken
  BY <1>5 DEF StoppedWhileStaggered, StopTaken, TypeOK, Places
<1>6. CASE BeginPass
  <2>1. mids' \subseteq [ts : Nat, mid : Int] /\ mom' \in Momentum
    BY <1>6, MidsType DEF BeginPass, FreshBook
  <2>2. mids' \subseteq seen' /\ seen' \subseteq [ts : Nat, mid : Int]
    BY <1>6, <2>1 DEF BeginPass, TypeOK
  <2>3. QED BY <1>6, <2>1, <2>2 DEF BeginPass, TypeOK, Places
<1>7. CASE NothingToSample \/ BookLost \/ AbandonPass
  BY <1>7, TypedReturn DEF NothingToSample, BookLost, AbandonPass, TypeOK
<1>8. CASE TVLStillFresh
  BY <1>8 DEF TVLStillFresh, TypeOK, Places
<1>9. CASE AskTVL
  <2>1. deadline' \in Nat
    BY <1>9, ConfigTypes DEF AskTVL, TypeOK
  <2>2. QED BY <1>9, <2>1 DEF AskTVL, TypeOK, Places
<1>10. ASSUME NEW v \in TVLs, TVLAnswers(v)
       PROVE  Typed'
  <2>1. v \in Nat \cup {Unknown}
    BY RunnerAssumption DEF RunnerAssumption
  <2>2. QED BY <1>10, <2>1 DEF TVLAnswers, TypeOK, Places
<1>11. CASE TVLFails
  BY <1>11 DEF TVLFails, TypeOK, Places
<1>12. CASE TakeBook
  <2>1. deadline' \in Nat /\ idx <= Len(Sizes) /\ leg' \in Book
    BY <1>12, ConfigTypes DEF TakeBook, SizeLeft, TypeOK
  <2>2. QED BY <1>12, <2>1, BlankTypes DEF TakeBook, TypeOK, Places
<1>13. ASSUME NEW p \in DexPrices, BuyAnswers(p) \/ SellAnswers(p)
       PROVE  Typed'
  <2>1. quote' \in Quotes
    BY <1>13, RunnerAssumption DEF BuyAnswers, SellAnswers, Quotes, TypeOK, RunnerAssumption
  <2>2. QED BY <1>13, <2>1 DEF BuyAnswers, SellAnswers, TypeOK, Places
<1>14. CASE BuyFails \/ SellFails
  BY <1>14 DEF BuyFails, SellFails, TypeOK, Places
<1>15. CASE StampDex
  BY <1>15 DEF StampDex, StampNow, TypeOK, Places
<1>16. CASE SkipSize
  BY <1>16, TypedNextSize DEF SkipSize, TypeOK
<1>17. CASE QuotesGood
  BY <1>17 DEF QuotesGood, TypeOK, Places
<1>18. CASE MakeSample
  <2>1. smp' \in Sample
    BY <1>18, SampleType DEF MakeSample
  <2>2. QED BY <1>18, <2>1 DEF MakeSample, TypeOK, Places
<1>19. CASE WriteSample
  <2>1. smp.raw \in Int /\ late' \in Nat
    BY <1>19 DEF WriteSample, TypeOK, Sample
  <2>2. best' \in Ranking
    BY <1>19, <2>1 DEF WriteSample, BestSoFar, TypeOK, Ranking
  <2>3. QED BY <1>19, <2>1, <2>2, TypedNextSize DEF WriteSample
<1>20. CASE FinishPass
  <2>1. summary' \in Summary
    BY <1>20 DEF FinishPass, TypeOK, Summary, Ranking
  <2>2. QED BY <1>20, <2>1, TypedReturn DEF FinishPass
<1>21. CASE UNCHANGED runnerVars
  BY <1>21 DEF runnerVars, TypeOK
<1>22. QED
  BY <1>1, <1>2, <1>3, <1>4, <1>5, <1>6, <1>7, <1>8, <1>9, <1>10, <1>11, <1>12,
     <1>13, <1>14, <1>15, <1>16, <1>17, <1>18, <1>19, <1>20, <1>21
     DEF Next, Runner, World

LEMMA TypesHold == Spec => []Typed
  BY TypedInit, TypedStep, PTL DEF Spec

\* The types of a runner's state, samples included (engine.go:26-42).
THEOREM RunnerTypes == Spec => []TypeOK
  BY TypesHold, PTL DEF Typed

(***************************************************************************)
(* The inductive invariant.  Each part says what the goroutine knows at a  *)
(* place of sampleOnce, however long ago it learned it.                    *)
(***************************************************************************)

\* The feed stamps its books with the clock; a cancellation is in the past.
Stamps == /\ book.ts <= now
          /\ basis.ts <= now
          /\ stopAt <= now

\* The leg was received before the quoting began, at most MaxBookAge before and
\* no earlier than any book in the history, and the answers came afterwards.
LegFirst ==
    pc \in Quoting =>
        /\ leg.ts # ZeroTime
        /\ leg.ts <= deadline - QuoteTimeout
        /\ deadline - QuoteTimeout <= now
        /\ (deadline - QuoteTimeout) - leg.ts <= MaxBookAge
        /\ \A p \in mids : p.ts <= leg.ts
        /\ quote.buyOk => leg.ts <= quote.buyAt /\ quote.buyAt <= now
        /\ quote.sellOk => leg.ts <= quote.sellAt /\ quote.sellAt <= now

\* dexTs comes after all of them.
StampLast ==
    pc \in {"check", "record", "write"} =>
        /\ leg.ts <= dexTs
        /\ dexTs <= now
        /\ quote.buyOk => quote.buyAt <= dexTs
        /\ quote.sellOk => quote.sellAt <= dexTs

\* A sample is only made of quotes that were stamped before the cancellation,
\* and none has been written since.
InTime ==
    /\ pc \in {"record", "write"} => /\ Quoted
                                     /\ Stopped => dexTs <= stopAt /\ late = 0
    /\ Stopped \/ late = 0
    /\ late <= 1

\* What the flags of the sample in hand stand for.
Judged ==
    pc = "write" =>
        /\ smp.cexTs = leg.ts
        /\ smp.dexTs = dexTs
        /\ smp.include => TVLOk /\ SkewOk
        /\ smp.include /\ HasBasis => /\ smp.basisTs # ZeroTime
                                      /\ dexTs - smp.basisTs <= MaxBookAge

\* The pass works with the value the gate read.
GateRead == pc \in {"size"} \cup Quoting => tvlUsed = tvl

\* The ranking of the pass is that of the nets it wrote.
Ranked == /\ nets \subseteq Int
          /\ best.have <=> nets # {}
          /\ best.have => best.net \in nets /\ \A n \in nets : n <= best.net

IInv == Stamps /\ LegFirst /\ StampLast /\ InTime /\ Judged /\ GateRead /\ Ranked

\* The history holds books no younger than the present one, and what it no
\* longer holds is out of the reach of this book and so of any later.
Remembered ==
    /\ \A p \in seen : p.ts <= book.ts
    /\ \A p \in seen \ mids : p.ts + LookbackMax < book.ts

\* A pass adds its book, the youngest, and forgets what that book cannot reach;
\* a new book is younger still.
LEMMA RememberedStep == Typed /\ Stamps /\ Remembered /\ [Next]_runnerVars => Remembered'
<1> SUFFICES ASSUME Typed, Stamps, Remembered, [Next]_runnerVars
             PROVE  Remembered'
  OBVIOUS
<1>1. CASE BeginPass
  <2>1. /\ book.ts \in Nat /\ book' = book
        /\ mids' = RecordMid(mids, book) /\ seen' = seen \cup mids'
    BY <1>1 DEF BeginPass, FreshBook, Typed, TypeOK, Book, ZeroTime, env
  <2>2. \A p \in seen : p.ts \in Nat
    BY DEF Typed, TypeOK
  <2>3. LookbackMax \in Nat /\ MidKeep \in Nat /\ LookbackMax <= MidKeep
    BY RunnerAssumption DEF RunnerAssumption
  <2> DEFINE point == [ts |-> book.ts, mid |-> DoubleMid(book)]
  <2>4. mids' \subseteq mids \cup {point}
    BY <2>1 DEF RecordMid, PruneMids
  <2>5. \A p \in seen' : p.ts <= book.ts
    BY <2>1, <2>4 DEF Remembered, Typed, TypeOK
  <2>6. ASSUME NEW p \in mids, p \notin mids'
        PROVE  p.ts + LookbackMax < book.ts
    <3>1. p.ts \in Nat
      BY <2>2, <2>6 DEF Typed, TypeOK
    <3>2. ~(p.ts >= book.ts - MidKeep)
      BY <2>1, <2>6 DEF RecordMid, PruneMids
    <3>3. QED BY <2>1, <2>3, <3>1, <3>2
  <2>7. \A p \in seen' \ mids' : p.ts + LookbackMax < book.ts
    BY <2>1, <2>6 DEF Remembered
  <2>8. QED BY <2>1, <2>5, <2>7 DEF Remembered
<1>2. ASSUME NEW price \in BookPrices, BookArrives(price)
      PROVE  Remembered'
  <2>1. /\ UNCHANGED <<mids, seen>> /\ book'.ts = now
        /\ book.ts \in Int /\ now \in Int /\ book.ts <= now /\ LookbackMax \in Int
        /\ \A p \in seen : p.ts \in Int
    BY <1>2, ConfigTypes
       DEF BookArrives, momentum, Stamps, Typed, TypeOK, Book, ZeroTime
  <2>2. QED BY <2>1 DEF Remembered
<1>3. CASE ~BeginPass /\ ~(\E price \in BookPrices : BookArrives(price))
  <2>1. UNCHANGED <<book, mids, seen>>
    BY <1>3 DEF Next, Runner, World, env, quoting, gate, momentum, ranking, runnerVars,
                Elapse, BasisArrives, Stop, StaggerOver, StoppedWhileStaggered,
                TickTaken, StopTaken, NothingToSample, TVLStillFresh, AskTVL,
                TVLAnswers, TVLFails, TakeBook, BookLost, BuyAnswers, BuyFails, SellAnswers,
                SellFails, StampDex, AbandonPass, SkipSize, QuotesGood, MakeSample,
                WriteSample, FinishPass
  <2>2. QED BY <2>1 DEF Remembered
<1>4. QED BY <1>1, <1>2, <1>3

LEMMA InitIInv == Init => IInv
<1> SUFFICES ASSUME Init
             PROVE  IInv
  OBVIOUS
<1> USE DEF Init, Quoting, ZeroTime, NoBook, NoBasis, NoBest, Stopped
<1>1. Stamps /\ LegFirst /\ StampLast
  BY DEF Stamps, LegFirst, StampLast
<1>2. InTime /\ Judged /\ GateRead
  BY DEF InTime, Judged, GateRead
<1>3. Ranked
  BY DEF Ranked
<1>4. QED BY <1>1, <1>2, <1>3 DEF IInv

LEMMA ReturnKeepsIInv ==
    ASSUME Typed, IInv, ReturnToLoop, UNCHANGED <<env, late>>
    PROVE  IInv'
<1> USE DEF ReturnToLoop, env, Quoting
<1>1. Stamps' /\ LegFirst' /\ StampLast'
  BY DEF IInv, Stamps, LegFirst, StampLast
<1>2. InTime' /\ Judged' /\ GateRead'
  BY DEF IInv, InTime, Judged, GateRead, Stopped
<1>3. Ranked'
  BY DEF Ranked, NoBest
<1>4. QED BY <1>1, <1>2, <1>3 DEF IInv

\* Steps that leave pc and what a size knows alone, and those that move between
\* two sizes, differ only in the parts they touch.
LEMMA NextSizeKeepsIInv ==
    ASSUME Typed, IInv, NextSize, UNCHANGED <<env, tvl, tvlUsed>>,
           pc \in Quoting, Ranked', late' <= 1, Stopped \/ late' = 0
    PROVE  IInv'
<1> USE DEF NextSize, env, Quoting
<1>1. Stamps' /\ LegFirst' /\ StampLast'
  BY DEF IInv, Stamps, LegFirst, StampLast
<1>2. InTime' /\ Judged'
  BY DEF InTime, Judged, Stopped
<1>3. GateRead'
  BY DEF IInv, GateRead
<1>4. QED BY <1>1, <1>2, <1>3 DEF IInv

\* The sample built under a gate carries that gate's verdict.
LEMMA SampleJudged ==
    ASSUME Typed, Stamps, StampLast, pc = "record"
    PROVE  /\ BuildSample.cexTs = leg.ts
           /\ BuildSample.dexTs = dexTs
           /\ BuildSample.include => TVLOk /\ SkewOk
           /\ BuildSample.include /\ HasBasis =>
                 /\ BuildSample.basisTs # ZeroTime
                 /\ dexTs - BuildSample.basisTs <= MaxBookAge
<1>1. /\ BuildSample.cexTs = leg.ts
      /\ BuildSample.dexTs = dexTs
      /\ BuildSample.include = (ExcludeReasons = {})
      /\ BuildSample.basisTs = IF HasBasis /\ BasisUsable THEN basis.ts ELSE ZeroTime
  BY DEF BuildSample
<1>2. ExcludeReasons = {} => TVLOk /\ SkewOk /\ BasisOk
  BY DEF ExcludeReasons
<1>3. dexTs <= now /\ dexTs \in Int /\ now \in Int
  BY DEF StampLast, Typed, TypeOK, ZeroTime
<1>4. HasBasis /\ BasisOk => /\ BasisUsable
                             /\ basis.ts # ZeroTime
                             /\ dexTs - basis.ts <= MaxBookAge
  BY <1>3, ConfigTypes DEF BasisOk, BasisUsable, Typed, TypeOK, BasisBook, ZeroTime
<1>5. QED BY <1>1, <1>2, <1>4

LEMMA StepIInv == Typed /\ Remembered /\ IInv /\ [Next]_runnerVars => IInv'
<1> SUFFICES ASSUME Typed, Remembered, IInv, [Next]_runnerVars
             PROVE  IInv'
  OBVIOUS
<1> USE DEF env, quoting, gate, momentum, ranking
<1> DEFINE Tied == <<pc, leg, deadline, quote, dexTs, smp, tvl, tvlUsed, mids, best, nets, late>>
<1>1. CASE Elapse
  <2>1. now \in Nat /\ now' = now + 1 /\ UNCHANGED <<stopAt, book, basis>> /\ UNCHANGED Tied
    BY <1>1 DEF Elapse, Typed, TypeOK
  <2>2. Stamps' /\ LegFirst'
    BY <2>1, ConfigTypes
       DEF IInv, Stamps, LegFirst, Typed, TypeOK, Book, BasisBook, Quotes, ZeroTime, Quoting
  <2>3. StampLast'
    BY <2>1 DEF IInv, StampLast, Typed, TypeOK, Book, Quotes, ZeroTime
  <2>4. InTime' /\ Judged' /\ GateRead' /\ Ranked'
    BY <2>1 DEF IInv, InTime, Quoted, Stopped, Judged, TVLOk, SkewOk, Skew, GateRead, Ranked
  <2>5. QED BY <2>2, <2>3, <2>4 DEF IInv
<1>2. ASSUME \/ \E price \in BookPrices : BookArrives(price)
             \/ \E mid \in BasisMids : BasisArrives(mid)
      PROVE  IInv'
  <2>1. UNCHANGED <<now, stopAt>> /\ UNCHANGED Tied
    BY <1>2 DEF BookArrives, BasisArrives
  <2>2. book'.ts <= now /\ basis'.ts <= now
    BY <1>2 DEF BookArrives, BasisArrives, IInv, Stamps, Typed, TypeOK
  <2>3. QED
    BY <2>1, <2>2 DEF IInv, Stamps, LegFirst, StampLast, InTime, Quoted, Stopped,
                      Judged, TVLOk, SkewOk, Skew, GateRead, Ranked
<1>3. CASE Stop
  <2>1. UNCHANGED <<now, book, basis>> /\ UNCHANGED Tied /\ stopAt' = now /\ ~Stopped
    BY <1>3 DEF Stop
  <2>2. Stamps' /\ LegFirst' /\ StampLast'
    BY <2>1 DEF IInv, Stamps, LegFirst, StampLast, Typed, TypeOK
  <2>3. InTime'
    BY <2>1 DEF IInv, InTime, StampLast, Quoted, Stopped, Typed, TypeOK
  <2>4. Judged' /\ GateRead' /\ Ranked'
    BY <2>1 DEF IInv, Judged, TVLOk, SkewOk, Skew, GateRead, Ranked
  <2>5. QED BY <2>2, <2>3, <2>4 DEF IInv
<1>4. CASE StaggerOver \/ StoppedWhileStaggered \/ TickTaken \/ StopTaken
  <2>1. UNCHANGED env /\ UNCHANGED <<leg, deadline, quote, dexTs, smp, best, nets, late>>
    BY <1>4 DEF StaggerOver, StoppedWhileStaggered, TickTaken, StopTaken
  <2>2. pc' \in {"pass", "done"}
    BY <1>4 DEF StaggerOver, StoppedWhileStaggered, TickTaken, StopTaken
  <2>3. QED
    BY <2>1, <2>2 DEF IInv, Stamps, LegFirst, StampLast, InTime, Stopped, Judged,
                      GateRead, Ranked, Quoting
<1>5. CASE BeginPass \/ AskTVL
  <2>1. UNCHANGED env /\ UNCHANGED <<best, nets, late>> /\ pc' \in {"tvl", "tvlcall"}
    BY <1>5 DEF BeginPass, AskTVL
  <2>2. QED
    BY <2>1 DEF IInv, Stamps, LegFirst, StampLast, InTime, Stopped, Judged,
                GateRead, Ranked, Quoting
<1>6. CASE NothingToSample \/ BookLost \/ AbandonPass
  BY <1>6, ReturnKeepsIInv DEF NothingToSample, BookLost, AbandonPass
<1>7. ASSUME TVLStillFresh \/ TVLFails \/ \E v \in TVLs : TVLAnswers(v)
      PROVE  IInv'
  <2>1. /\ UNCHANGED env /\ UNCHANGED <<best, nets, late>>
        /\ pc' = "size" /\ tvlUsed' = tvl'
    BY <1>7 DEF TVLStillFresh, TVLFails, TVLAnswers
  <2>2. QED
    BY <2>1 DEF IInv, Stamps, LegFirst, StampLast, InTime, Stopped, Judged,
                GateRead, Ranked, Quoting
<1>8. CASE TakeBook
  <2>1. /\ UNCHANGED env /\ UNCHANGED <<tvl, tvlUsed, mids, best, nets, late>>
        /\ pc = "size" /\ pc' = "buy" /\ leg' = book /\ deadline' = now + QuoteTimeout
        /\ quote' = NoQuote /\ book.ts # ZeroTime /\ now - book.ts <= MaxBookAge
    BY <1>8 DEF TakeBook, BookUsable, FreshBook
  <2>2. (deadline' - QuoteTimeout) = now /\ book.ts <= now
    BY <2>1, ConfigTypes DEF Typed, TypeOK, IInv, Stamps
  <2>3. LegFirst'
    <3>1. \A p \in mids : p.ts <= book.ts
      BY DEF Remembered, Typed, TypeOK
    <3>2. QED BY <2>1, <2>2, <3>1 DEF LegFirst, NoQuote, Typed, TypeOK
  <2>4. QED
    BY <2>1, <2>3 DEF IInv, Stamps, StampLast, InTime, Stopped, Judged,
                      GateRead, Ranked, Quoting
<1>9. ASSUME \/ \E p \in DexPrices : BuyAnswers(p) \/ SellAnswers(p)
             \/ BuyFails \/ SellFails
      PROVE  IInv'
  <2>1. /\ UNCHANGED env /\ UNCHANGED <<leg, deadline, tvl, tvlUsed, mids, best, nets, late>>
        /\ pc \in {"buy", "sell"} /\ pc' \in {"sell", "stamp"}
    BY <1>9 DEF BuyAnswers, SellAnswers, BuyFails, SellFails
  <2>2. /\ quote'.buyOk => quote'.buyAt = now \/ (quote.buyOk /\ quote'.buyAt = quote.buyAt)
        /\ quote'.sellOk => quote'.sellAt = now \/ (quote.sellOk /\ quote'.sellAt = quote.sellAt)
    BY <1>9 DEF BuyAnswers, SellAnswers, BuyFails, SellFails, Typed, TypeOK, Quotes
  <2>3. LegFirst'
    BY <2>1, <2>2, ConfigTypes
       DEF IInv, LegFirst, Quoting, Typed, TypeOK, Book, ZeroTime
  <2>4. QED
    BY <2>1, <2>3 DEF IInv, Stamps, StampLast, InTime, Stopped, Judged,
                      GateRead, Ranked, Quoting
<1>10. CASE StampDex
  <2>1. /\ UNCHANGED env /\ UNCHANGED <<leg, deadline, quote, tvl, tvlUsed, mids, best, nets, late>>
        /\ pc = "stamp" /\ pc' = "check" /\ dexTs' = now
    BY <1>10 DEF StampDex, StampNow
  <2>2. LegFirst' /\ StampLast'
    BY <2>1, ConfigTypes DEF IInv, LegFirst, StampLast, Quoting, Typed, TypeOK, Book, ZeroTime
  <2>3. QED
    BY <2>1, <2>2 DEF IInv, Stamps, InTime, Stopped, Judged, GateRead, Ranked, Quoting
<1>11. CASE SkipSize
  BY <1>11, NextSizeKeepsIInv
     DEF SkipSize, IInv, InTime, Ranked, Quoting, Stopped
<1>12. CASE QuotesGood
  <2>1. /\ UNCHANGED <<leg, deadline, quote, dexTs, tvl, tvlUsed, mids, best, nets, late>>
        /\ pc = "check" /\ pc' = "record" /\ ~Stopped /\ Quoted
    BY <1>12 DEF QuotesGood, StopSeen
  <2>2. UNCHANGED env
    BY <1>12 DEF QuotesGood
  <2>3. QED
    BY <2>1, <2>2 DEF IInv, Stamps, LegFirst, StampLast, InTime, Quoted, Stopped,
                      Judged, GateRead, Ranked, Quoting
<1>13. CASE MakeSample
  <2>1. /\ UNCHANGED env
        /\ UNCHANGED <<leg, deadline, quote, dexTs, tvl, tvlUsed, mids, best, nets, late>>
        /\ pc = "record" /\ pc' = "write" /\ smp' = BuildSample
    BY <1>13 DEF MakeSample
  <2>2. Judged'
    <3>1. (TVLOk /\ SkewOk)' = (TVLOk /\ SkewOk)
      BY <2>1 DEF TVLOk, SkewOk, Skew
    <3>2. QED
      BY <2>1, <3>1, SampleJudged DEF IInv, Judged
  <2>3. QED
    BY <2>1, <2>2 DEF IInv, Stamps, LegFirst, StampLast, InTime, Quoted, Stopped,
                      GateRead, Ranked, Quoting
<1>14. CASE WriteSample
  <2>1. smp.raw \in Int
    BY DEF Typed, TypeOK, Sample
  <2>2. best \in Ranking /\ best' = BestSoFar(smp.raw) /\ nets' = nets \cup {smp.raw}
    BY <1>14 DEF WriteSample, Typed, TypeOK
  <2>3. Ranked'
    <3>1. nets \subseteq Int /\ Ranked /\ best.net \in Int
      BY <2>2 DEF IInv, Ranked, Ranking
    <3>2. CASE best.have /\ ~(smp.raw > best.net)
      <4>1. best' = best
        BY <2>2, <3>2 DEF BestSoFar
      <4>2. smp.raw <= best.net
        BY <2>1, <3>1, <3>2
      <4>3. QED BY <2>1, <2>2, <3>1, <3>2, <4>1, <4>2 DEF Ranked
    <3>3. CASE ~best.have \/ smp.raw > best.net
      <4>1. best'.have = TRUE /\ best'.net = smp.raw
        BY <2>2, <3>3 DEF BestSoFar
      <4>2. \A n \in nets : n <= smp.raw
        BY <2>1, <3>1, <3>3 DEF Ranked
      <4>3. nets' \subseteq Int /\ nets' # {} /\ smp.raw \in nets'
        BY <2>1, <2>2, <3>1
      <4>4. \A n \in nets' : n <= smp.raw
        BY <2>1, <2>2, <4>2
      <4>5. QED BY <4>1, <4>3, <4>4 DEF Ranked
    <3>4. QED BY <3>2, <3>3
  <2>4. late' <= 1 /\ (Stopped \/ late' = 0)
    BY <1>14 DEF WriteSample, IInv, InTime, Typed, TypeOK
  <2>5. QED
    BY <1>14, <2>3, <2>4, NextSizeKeepsIInv DEF WriteSample, Quoting
<1>15. CASE FinishPass
  BY <1>15, ReturnKeepsIInv DEF FinishPass
<1>16. CASE UNCHANGED runnerVars
  BY <1>16 DEF runnerVars, IInv, Stamps, LegFirst, StampLast, InTime, Quoted, Stopped,
               Judged, TVLOk, SkewOk, Skew, GateRead, Ranked
<1>17. QED
  BY <1>1, <1>2, <1>3, <1>4, <1>5, <1>6, <1>7, <1>8, <1>9, <1>10, <1>11, <1>12,
     <1>13, <1>14, <1>15, <1>16 DEF Next, Runner, World

LEMMA InvariantHolds == Spec => [](Typed /\ Remembered /\ IInv)
<1>1. Init => Typed /\ Remembered /\ IInv
  BY TypedInit, InitIInv DEF Init, Remembered
<1>2. (Typed /\ Remembered /\ IInv) /\ [Next]_runnerVars => (Typed /\ Remembered /\ IInv)'
  BY TypedStep, RememberedStep, StepIInv DEF IInv
<1>3. QED BY <1>1, <1>2, PTL DEF Spec

\* What the invariant says of a sample on its way to the recorder.
LEMMA InHand ==
    ASSUME Typed, IInv, Handing
    PROVE  /\ smp.cexTs = leg.ts
           /\ leg.ts \in Nat /\ dexTs \in Nat /\ leg.ts <= dexTs
           /\ quote.buyAt \in Int /\ leg.ts <= quote.buyAt /\ quote.buyAt <= dexTs
           /\ quote.sellAt \in Int /\ leg.ts <= quote.sellAt /\ quote.sellAt <= dexTs
<1>1. quote.buyOk /\ quote.sellOk
  BY DEF IInv, InTime, Quoted, Handing
<1>2. /\ leg.ts \in Nat \cup {ZeroTime} /\ leg.ts # ZeroTime
      /\ dexTs \in Nat \cup {ZeroTime} /\ leg.ts <= dexTs
  BY DEF Typed, TypeOK, Book, IInv, LegFirst, StampLast, Handing, Quoting
<1>3. /\ quote.buyAt \in Nat \cup {ZeroTime}
      /\ quote.sellAt \in Nat \cup {ZeroTime}
  BY DEF Typed, TypeOK, Quotes
<1>4. smp.cexTs = leg.ts
  BY DEF IInv, Judged, Handing
<1>5. QED
  BY <1>1, <1>2, <1>3, <1>4 DEF IInv, LegFirst, StampLast, Handing, Quoting, ZeroTime

\* A sample that counts has both quotes within MaxLegSkew of its CEX book
\* (engine.go:231-252).
THEOREM SkewBoundsQuotes == Spec => []LegsWithinSkew
<1>1. ASSUME Typed, IInv
      PROVE  LegsWithinSkew
  <2> SUFFICES ASSUME Handing, smp.include, MaxLegSkew > 0
               PROVE  /\ smp.cexTs <= quote.buyAt  /\ quote.buyAt  <= smp.cexTs + MaxLegSkew
                      /\ smp.cexTs <= quote.sellAt /\ quote.sellAt <= smp.cexTs + MaxLegSkew
    BY DEF LegsWithinSkew
  <2>1. SkewOk
    BY <1>1 DEF IInv, Judged, Handing
  <2>2. dexTs - leg.ts <= MaxLegSkew
    BY <2>1, <1>1, InHand, ConfigTypes DEF SkewOk, Skew, Abs
  <2>3. QED BY <2>2, <1>1, InHand, ConfigTypes
<1>2. QED BY <1>1, InvariantHolds, PTL

\* Every size, the first as any later one, is quoted against a recent book, and
\* never against one older than the pass's momentum (engine.go:202-205, 225-232).
THEOREM LegsRecent == Spec => []BookRecentAtQuote
<1>1. IInv => BookRecentAtQuote
  BY DEF IInv, LegFirst, BookRecentAtQuote, Quoting
<1>2. QED BY <1>1, InvariantHolds, PTL

\* The canonical edge of a sample that counts rests on a recent basis book
\* (engine.go:257-281).
THEOREM EdgesBacked == Spec => []CanonicalEdgeBacked
<1>1. IInv => CanonicalEdgeBacked
  BY DEF IInv, Judged, CanonicalEdgeBacked, Handing
<1>2. QED BY <1>1, InvariantHolds, PTL

\* A pool found too thin stays out until a later answer (engine.go:214-218).
THEOREM ThinPoolsStayOut == Spec => []ThinPoolExcluded
<1>1. ASSUME Typed, IInv
      PROVE  ThinPoolExcluded
  <2> SUFFICES ASSUME Handing, smp.include, MinTVL > 0, tvl # Unknown
               PROVE  tvl >= MinTVL
    BY DEF ThinPoolExcluded
  <2>1. TVLOk /\ tvlUsed = tvl
    BY <1>1 DEF IInv, Judged, GateRead, Handing, Quoting
  <2>2. tvl \in Nat
    BY <1>1 DEF Typed, TypeOK
  <2>3. QED BY <2>1, <2>2, ConfigTypes DEF TVLOk
<1>2. QED BY <1>1, InvariantHolds, PTL

\* At most one sample is written after a cancellation, and its two legs were
\* observed before it; its basis book may be younger (engine.go:230-238, 261).
THEOREM RecordingCut == Spec => []StopCutsRecording
<1>1. ASSUME Typed, IInv
      PROVE  StopCutsRecording
  <2>1. late <= 1
    BY <1>1 DEF IInv, InTime
  <2>2. ASSUME Handing, Stopped
        PROVE  /\ smp.cexTs <= stopAt
               /\ quote.buyAt <= stopAt /\ quote.sellAt <= stopAt
               /\ smp.dexTs <= stopAt
    <3>1. dexTs <= stopAt /\ smp.dexTs = dexTs
      BY <1>1, <2>2 DEF IInv, InTime, Judged, Handing
    <3>2. stopAt \in Int
      BY <1>1 DEF Typed, TypeOK, ZeroTime
    <3>3. QED BY <1>1, <2>2, <3>1, <3>2, InHand
  <2>3. QED BY <2>1, <2>2 DEF StopCutsRecording
<1>2. QED BY <1>1, InvariantHolds, PTL

\* Only FinishPass ends the loop over the sizes, and nothing else touches the
\* summary.
LEMMA OnlyFinishSums ==
    ASSUME Next
    PROVE  /\ FinishPass \/ summary' = summary
           /\ PassCompleted => FinishPass
  BY DEF Next, Runner, World, PassCompleted, env, quoting, gate, momentum, ranking,
         Elapse, BookArrives, BasisArrives, Stop, StaggerOver, StoppedWhileStaggered,
         TickTaken, StopTaken, BeginPass, NothingToSample, TVLStillFresh, AskTVL,
         TVLAnswers, TVLFails, TakeBook, BookLost, BuyAnswers, BuyFails, SellAnswers,
         SellFails, StampDex, AbandonPass, SkipSize, QuotesGood, MakeSample, WriteSample

\* The summary moves at the end of every pass that wrote a sample, to the
\* greatest of its nets, and at no other moment (engine.go:221-222, 326-328,
\* 339-344).
THEOREM SummaryRight == Spec => SummaryFollowsPass
<1> DEFINE Sums == IF PassCompleted
                   THEN /\ summary'.at = now
                        /\ summary'.net \in nets
                        /\ \A n \in nets : n <= summary'.net
                   ELSE summary' = summary
<1>1. ASSUME IInv, Next
      PROVE  Sums
  <2>1. CASE FinishPass
    <3>1. /\ pc = "size" /\ ~SizeLeft /\ pc' = "wait"
          /\ summary' = IF best.have THEN [net |-> best.net, at |-> now] ELSE summary
      BY <2>1 DEF FinishPass, ReturnToLoop
    <3>2. CASE nets # {}
      <4>1. /\ best.net \in nets /\ \A n \in nets : n <= best.net
            /\ summary' = [net |-> best.net, at |-> now]
        BY <1>1, <3>1, <3>2 DEF IInv, Ranked
      <4>2. QED BY <3>1, <3>2, <4>1 DEF PassCompleted
    <3>3. CASE nets = {}
      BY <1>1, <3>1, <3>3 DEF IInv, Ranked, PassCompleted
    <3>4. QED BY <3>2, <3>3
  <2>2. CASE ~FinishPass
    BY <1>1, <2>2, OnlyFinishSums
  <2>3. QED BY <2>1, <2>2
<1>2. Typed /\ Remembered /\ IInv /\ [Next]_runnerVars => [Sums]_runnerVars
  BY <1>1
<1>3. QED BY <1>2, InvariantHolds, PTL DEF Spec, SummaryFollowsPass

\* What is out of the reach of a stamp adds nothing to what its momentum is
\* computed from.
LEMMA FarMidsDoNotCount ==
    ASSUME NEW h, NEW g, h \subseteq g, NEW ts \in Nat,
           \A p \in g : p.ts \in Nat,
           \A p \in g \ h : p.ts + LookbackMax < ts
    PROVE  ClosestReferences(g, ts) = ClosestReferences(h, ts)
<1>1. LookbackMax \in Nat
  BY ConfigTypes
<1>2. ASSUME NEW p \in g \ h
      PROVE  ~(ts - p.ts <= LookbackMax)
  BY <1>1
<1>3. References(g, ts) = References(h, ts)
  BY <1>2 DEF References
<1>4. QED BY <1>3 DEF ClosestReferences

\* The momentum of every pass is the one that all the mids ever recorded would
\* give: nothing a pass forgets is within reach of that pass or of any later one,
\* because the feed's books only get younger (engine.go:55-92).
THEOREM HistoryLongEnough == Spec => ReferencesKept
<1> DEFINE Kept == pc = "pass" /\ pc' = "tvl" => mom' = Momentum10s(seen', book)
<1>1. ASSUME Typed, Remembered, IInv, Next, Typed', Remembered', pc = "pass", pc' = "tvl"
      PROVE  mom' = Momentum10s(seen', book)
  <2>1. BeginPass
    BY <1>1 DEF Next, Runner, World, env, Elapse, BookArrives, BasisArrives, Stop, StaggerOver,
           StoppedWhileStaggered, TickTaken, StopTaken, NothingToSample, ReturnToLoop,
           TVLStillFresh, AskTVL, TVLAnswers, TVLFails, TakeBook, BookLost, BuyAnswers,
           BuyFails, SellAnswers, SellFails, StampDex, AbandonPass, SkipSize, QuotesGood,
           MakeSample, WriteSample, FinishPass
  <2>2. /\ book' = book /\ book.ts \in Nat
        /\ mom' = Momentum10s(mids', book)
    BY <1>1, <2>1 DEF BeginPass, FreshBook, Typed, TypeOK, Book, ZeroTime, env
  <2>3. /\ mids' \subseteq seen' /\ \A p \in seen' : p.ts \in Nat
        /\ \A p \in seen' \ mids' : p.ts + LookbackMax < book.ts
    BY <1>1, <2>2 DEF Typed, TypeOK, Remembered
  <2>4. ClosestReferences(seen', book.ts) = ClosestReferences(mids', book.ts)
    BY <2>2, <2>3, FarMidsDoNotCount
  <2>5. QED BY <2>2, <2>4 DEF Momentum10s
<1>2. Typed /\ Remembered /\ IInv /\ [Next]_runnerVars /\ Typed' /\ Remembered'
        => [Kept]_runnerVars
  BY <1>1
<1>3. QED BY <1>2, InvariantHolds, PTL DEF Spec, ReferencesKept
===============================================================================
