------------------------------ MODULE PairRunner ------------------------------
(***************************************************************************)
(* One PairRunner of internal/engine: the goroutine that, on every tick,   *)
(* reads the cached CEX book, quotes the DEX in both directions for each   *)
(* trade size and hands a sample to the recorder.                          *)
(*                                                                         *)
(* One action is one stretch of sampleOnce between two points where the    *)
(* goroutine can be overtaken: by the feed replacing a cached book, by the *)
(* clock, or by the process context being cancelled.  Time may pass        *)
(* between any two actions, by any amount.                                 *)
(*                                                                         *)
(* The feed and the quoter are seen through their interfaces (cex.Feed,    *)
(* dex.Quoter): a book appears at any time with the receive time as its    *)
(* stamp, a quote is answered or fails at any time before its context ends *)
(* and only fails after that.                                              *)
(***************************************************************************)
EXTENDS Edges, Sequences

CONSTANTS Sizes,         \* Pair.TradeSizesUSD, a sequence
          MaxBookAge,    \* cfg.MaxBookAge
          MaxLegSkew,    \* cfg.MaxLegSkew (0: no limit)
          QuoteTimeout,  \* the 20 s of qctx and tctx
          TVLRefresh,    \* cfg.TVLRefreshInterval
          MinTVL,        \* Pair.MinPoolTVLUSD (0: no gate)
          Interval,      \* EffectiveInterval
          Stagger,       \* PairRunner.stagger
          Lookback,      \* momentumLookback, and its window:
          LookbackMin,   \*   momentumLookback - 1 s
          LookbackMax,   \*   momentumLookback + momentumTolerance
          MidKeep,       \* midHistoryKeep
          Threshold,     \* EffectiveMomentumThreshold, bps
          HasBasis,      \* Pair.DEX.QuoteBasisSymbol # ""
          Costs,         \* [fee, buffer, gas] of cfg.Costs
          BookPrices,    \* <<bid, ask>> the CEX may show
          BasisMids,     \* mids of the basis book, percent
          DexPrices,     \* prices a quote may answer; 0: nothing comes out
          TVLs,          \* what PoolTVLUSD may answer; -1: ErrTVLUnsupported
          Horizon        \* bound: the clock stops here

ZeroTime == -1           \* time.Time{}, "never"
Unknown == -1            \* tvlUSD: "unsupported/unknown"

ASSUME RunnerAssumption ==
    /\ {MaxBookAge, MaxLegSkew, QuoteTimeout, TVLRefresh, MinTVL, Stagger,
        Lookback, LookbackMin, LookbackMax, MidKeep, Threshold, Horizon} \subseteq Nat
    /\ Interval \in Nat \ {0}
    /\ LookbackMax <= MidKeep
    /\ HasBasis \in BOOLEAN
    /\ TVLs \subseteq Nat \/ TVLs = {Unknown}
    /\ BookPrices \subseteq Int \X Int
    /\ BasisMids \subseteq Int
    /\ DexPrices \subseteq Int
    /\ Sizes \in Seq(Nat \ {0})
    /\ Costs \in [fee : Nat, buffer : Nat, gas : Nat]

VARIABLES now,           \* time.Now()
          stopAt,        \* when the process context was cancelled, or ZeroTime
          book,          \* the feed's cached book of the pair
          basis,         \* the feed's cached book of the basis symbol
          pc,            \* where the goroutine is
          tickAt,        \* the ticker's next (or pending) tick
          idx,           \* index of the trade size being sampled
          leg,           \* local book: the CEX leg of this size
          deadline,      \* of the quoting context in use
          quote,         \* what the two quotes answered, and when
          dexTs,         \* local dexTs
          smp,           \* local s: the sample handed to the recorder
          tvl, tvlAt,    \* r.tvlUSD, r.tvlAt
          tvlUsed,       \* local tvl of this pass
          mids,          \* r.midHistory, a set since its stamps are distinct
          mom,           \* this pass's momentum: found or not, of which point
          best,          \* locals haveBest and bestNet
          summary,       \* r.lastBestNet, r.lastSample
          seen,          \* history: every point r.midHistory ever held
          nets,          \* history: raw nets of the samples of this pass
          late           \* history: samples written since the cancellation

env      == <<now, stopAt, book, basis>>
quoting  == <<deadline, quote, dexTs>>
gate     == <<tvl, tvlAt, tvlUsed>>
momentum == <<mids, mom, seen>>
ranking  == <<best, summary, nets>>
runnerVars == <<env, pc, tickAt, idx, leg, quoting, smp, gate, momentum, ranking, late>>

(***************************************************************************)
(* Data.                                                                   *)
(***************************************************************************)
Book == [ts : Nat \cup {ZeroTime}, bid : Int, ask : Int]
NoBook == [ts |-> ZeroTime, bid |-> 0, ask |-> 0]
BasisBook == [ts : Nat \cup {ZeroTime}, mid : Int]
NoBasis == [ts |-> ZeroTime, mid |-> 0]
Quotes == [buyOk : BOOLEAN, buy : Int, buyAt : Nat \cup {ZeroTime},
           sellOk : BOOLEAN, sell : Int, sellAt : Nat \cup {ZeroTime}]
Ranking == [have : BOOLEAN, net : Int]
Summary == [net : Int, at : Nat \cup {ZeroTime}]
NoQuote == [buyOk |-> FALSE, buy |-> 0, buyAt |-> ZeroTime,
            sellOk |-> FALSE, sell |-> 0, sellAt |-> ZeroTime]
NoBest == [have |-> FALSE, net |-> 0]
NoMomentum == [ok |-> FALSE, ref |-> ZeroTime, bucket |-> ""]
Momentum == [ok : BOOLEAN, ref : Nat \cup {ZeroTime}, bucket : {"", "down", "flat", "up"}]
Sample == [cexTs : Nat \cup {ZeroTime}, dexTs : Nat \cup {ZeroTime}, skew : Nat,
           basisTs : Nat \cup {ZeroTime}, tvl : Nat \cup {Unknown},
           momentum : Momentum, raw : Int, adj : Int,
           reasons : SUBSET {"tvl", "skew", "basis"}, include : BOOLEAN]
NoSample == [cexTs |-> ZeroTime, dexTs |-> ZeroTime, skew |-> 0,
             basisTs |-> ZeroTime, tvl |-> Unknown, momentum |-> NoMomentum,
             raw |-> 0, adj |-> 0, reasons |-> {}, include |-> FALSE]

DoubleMid(b) == b.bid + b.ask    \* Book.Mid, times two: only ratios are used

\* freshBook: present, recent and plausible.
FreshBook(b) ==
    /\ b.ts # ZeroTime
    /\ now - b.ts <= MaxBookAge
    /\ DoubleMid(b) > 0
    /\ 2 * b.bid <= 3 * b.ask

Stopped == stopAt # ZeroTime
CtxDone == Stopped \/ deadline <= now

(***************************************************************************)
(* Momentum.                                                               *)
(***************************************************************************)
PruneToLookback(h, ts) == {p \in h : p.ts >= ts - Lookback}
PruneMids(h, ts) == {p \in h : p.ts >= ts - MidKeep}

\* recordMid: only newer points enter; the cutoff follows the new point.
RecordMid(h, b) ==
    IF \E p \in h : b.ts <= p.ts
    THEN h
    ELSE PruneMids(h \cup {[ts |-> b.ts, mid |-> DoubleMid(b)]}, b.ts)

Abs(n) == IF n < 0 THEN -n ELSE n

\* momentum10s: the point whose age is closest to the lookback, the older of
\* two equally close ones.
References(h, ts) == {p \in h : ts - p.ts >= LookbackMin /\ ts - p.ts <= LookbackMax}

ClosestReferences(h, ts) ==
    LET off(p) == Abs(ts - p.ts - Lookback)
    IN  {p \in References(h, ts) : \A q \in References(h, ts) :
            off(p) < off(q) \/ (off(p) = off(q) /\ p.ts <= q.ts)}

Momentum10s(h, b) ==
    IF ClosestReferences(h, b.ts) = {} THEN NoMomentum
    ELSE LET p == CHOOSE q \in ClosestReferences(h, b.ts) : TRUE
         IN  [ ok |-> TRUE, ref |-> p.ts,
               bucket |-> BucketMomentum(SpreadBps(DoubleMid(b), p.mid), Threshold) ]

(***************************************************************************)
(* State.                                                                  *)
(***************************************************************************)
Places == {"stagger", "pass", "tvl", "tvlcall", "size", "buy", "sell",
           "stamp", "check", "record", "write", "wait", "done"}

Init ==
    /\ now = 0
    /\ stopAt = ZeroTime
    /\ book = NoBook
    /\ basis = NoBasis
    /\ pc = "stagger"
    /\ tickAt = 0
    /\ idx = 1
    /\ leg = NoBook
    /\ deadline = 0
    /\ quote = NoQuote
    /\ dexTs = ZeroTime
    /\ smp = NoSample
    /\ tvl = Unknown
    /\ tvlAt = ZeroTime
    /\ tvlUsed = Unknown
    /\ mids = {}
    /\ mom = NoMomentum
    /\ seen = {}
    /\ best = NoBest
    /\ summary = [net |-> 0, at |-> ZeroTime]
    /\ nets = {}
    /\ late = 0

(***************************************************************************)
(* The world around the runner.                                            *)
(***************************************************************************)
Elapse ==
    /\ now < Horizon
    /\ now' = now + 1
    /\ UNCHANGED <<stopAt, book, basis, pc, tickAt, idx, leg, quoting, smp, gate,
                   momentum, ranking, late>>

\* bookCache.set with Ts = time.Now().
BookArrives(price) ==
    /\ book' = [ts |-> now, bid |-> price[1], ask |-> price[2]]
    /\ UNCHANGED <<now, stopAt, basis, pc, tickAt, idx, leg, quoting, smp, gate,
                   momentum, ranking, late>>

BasisArrives(mid) ==
    /\ HasBasis
    /\ basis' = [ts |-> now, mid |-> mid]
    /\ UNCHANGED <<now, stopAt, book, pc, tickAt, idx, leg, quoting, smp, gate,
                   momentum, ranking, late>>

Stop ==
    /\ ~Stopped
    /\ stopAt' = now
    /\ UNCHANGED <<now, book, basis, pc, tickAt, idx, leg, quoting, smp, gate,
                   momentum, ranking, late>>

(***************************************************************************)
(* run: the stagger, the ticker, the loop.                                 *)
(***************************************************************************)
StaggerOver ==
    /\ pc = "stagger"
    /\ now >= Stagger
    /\ tickAt' = now + Interval
    /\ pc' = "pass"
    /\ UNCHANGED <<env, idx, leg, quoting, smp, gate, momentum, ranking, late>>

StoppedWhileStaggered ==
    /\ pc = "stagger"
    /\ Stagger > 0
    /\ Stopped
    /\ pc' = "done"
    /\ UNCHANGED <<env, tickAt, idx, leg, quoting, smp, gate, momentum, ranking, late>>

TickOnTheDot == tickAt = now
TickDue == tickAt <= now

\* A ticker's channel holds one tick: those missed during a slow pass are lost,
\* and the next one comes on the original grid.
TickTaken ==
    /\ pc = "wait"
    /\ TickDue
    /\ tickAt' = tickAt + ((now - tickAt) \div Interval + 1) * Interval
    /\ pc' = "pass"
    /\ UNCHANGED <<env, idx, leg, quoting, smp, gate, momentum, ranking, late>>

StopTakenFromQuoteCtx ==
    /\ pc = "wait"
    /\ 0 < deadline /\ deadline <= now
    /\ pc' = "done"
    /\ UNCHANGED <<env, tickAt, idx, leg, quoting, smp, gate, momentum, ranking, late>>

\* When both cases of the select are ready, either may be taken.
StopTaken ==
    /\ pc = "wait"
    /\ Stopped
    /\ pc' = "done"
    /\ UNCHANGED <<env, tickAt, idx, leg, quoting, smp, gate, momentum, ranking, late>>

\* Leaving sampleOnce drops its locals.
ReturnToLoop ==
    /\ pc' = "wait"
    /\ idx' = 1
    /\ leg' = NoBook
    /\ deadline' = 0
    /\ quote' = NoQuote
    /\ dexTs' = ZeroTime
    /\ smp' = NoSample
    /\ tvlUsed' = Unknown
    /\ mom' = NoMomentum
    /\ best' = NoBest
    /\ nets' = {}

(***************************************************************************)
(* sampleOnce up to the loop over the sizes.                               *)
(***************************************************************************)
BeginPass ==
    /\ pc = "pass"
    /\ FreshBook(book)
    /\ mids' = RecordMid(mids, book)
    /\ seen' = seen \cup mids'
    /\ mom' = Momentum10s(mids', book)
    /\ leg' = book
    /\ pc' = "tvl"
    /\ UNCHANGED <<env, tickAt, idx, quoting, smp, gate, ranking, late>>

NothingToSample ==
    /\ pc = "pass"
    /\ ~FreshBook(book)
    /\ ReturnToLoop
    /\ UNCHANGED <<env, tickAt, tvl, tvlAt, mids, seen, summary, late>>

TVLFresh == tvlAt # ZeroTime /\ now - tvlAt < TVLRefresh

TVLStillFreshUnread ==
    /\ pc = "tvl"
    /\ TVLFresh
    /\ pc' = "size"
    /\ UNCHANGED <<env, tickAt, idx, leg, quoting, smp, gate, momentum, ranking, late>>

\* refreshTVL's early return, then the local copy of tvlUSD.
TVLStillFresh ==
    /\ pc = "tvl"
    /\ TVLFresh
    /\ tvlUsed' = tvl
    /\ pc' = "size"
    /\ UNCHANGED <<env, tickAt, idx, leg, quoting, smp, tvl, tvlAt, momentum, ranking, late>>

AskTVL ==
    /\ pc = "tvl"
    /\ ~TVLFresh
    /\ deadline' = now + QuoteTimeout
    /\ pc' = "tvlcall"
    /\ UNCHANGED <<env, tickAt, idx, leg, quote, dexTs, smp, gate, momentum, ranking, late>>

\* An answer, or ErrTVLUnsupported, which needs no network.
TVLAnswers(v) ==
    /\ pc = "tvlcall"
    /\ v = Unknown \/ ~CtxDone
    /\ tvl' = v
    /\ tvlAt' = now
    /\ tvlUsed' = v
    /\ deadline' = 0
    /\ pc' = "size"
    /\ UNCHANGED <<env, tickAt, idx, leg, quote, dexTs, smp, momentum, ranking, late>>

\* The previous value is kept; the retry waits for the refresh interval.
TVLFails ==
    /\ pc = "tvlcall"
    /\ Unknown \notin TVLs
    /\ tvlAt' = now
    /\ tvlUsed' = tvl
    /\ deadline' = 0
    /\ pc' = "size"
    /\ UNCHANGED <<env, tickAt, idx, leg, quote, dexTs, smp, tvl, momentum, ranking, late>>

(***************************************************************************)
(* The loop over the sizes.                                                *)
(***************************************************************************)
SizeLeft == idx <= Len(Sizes)

BookUsableAtFirst == idx > 1 \/ FreshBook(book)
BookUsable == FreshBook(book)

TakeBook ==
    /\ pc = "size"
    /\ SizeLeft
    /\ BookUsable
    /\ leg' = book
    /\ deadline' = now + QuoteTimeout
    /\ quote' = NoQuote
    /\ pc' = "buy"
    /\ UNCHANGED <<env, tickAt, idx, dexTs, smp, gate, momentum, ranking, late>>

\* The book went stale between two sizes: the pass ends here, with no summary.
BookLost ==
    /\ pc = "size"
    /\ SizeLeft
    /\ ~BookUsable
    /\ ReturnToLoop
    /\ UNCHANGED <<env, tickAt, tvl, tvlAt, mids, seen, summary, late>>

BuyAnswers(p) ==
    /\ pc = "buy"
    /\ ~CtxDone
    /\ quote' = [quote EXCEPT !.buyOk = TRUE, !.buy = p, !.buyAt = now]
    /\ pc' = "sell"
    /\ UNCHANGED <<env, tickAt, idx, leg, deadline, dexTs, smp, gate, momentum, ranking, late>>

BuyFails ==
    /\ pc = "buy"
    /\ pc' = "sell"
    /\ UNCHANGED <<env, tickAt, idx, leg, quoting, smp, gate, momentum, ranking, late>>

SellAnswers(p) ==
    /\ pc = "sell"
    /\ ~CtxDone
    /\ quote' = [quote EXCEPT !.sellOk = TRUE, !.sell = p, !.sellAt = now]
    /\ pc' = "stamp"
    /\ UNCHANGED <<env, tickAt, idx, leg, deadline, dexTs, smp, gate, momentum, ranking, late>>

SellFails ==
    /\ pc = "sell"
    /\ pc' = "stamp"
    /\ UNCHANGED <<env, tickAt, idx, leg, quoting, smp, gate, momentum, ranking, late>>

StampOfBook == leg.ts
StampBackdated == now - 2 * QuoteTimeout    \* one for each direction
StampNow == now

StampDex ==
    /\ pc = "stamp"
    /\ dexTs' = StampNow
    /\ pc' = "check"
    /\ UNCHANGED <<env, tickAt, idx, leg, deadline, quote, smp, gate, momentum, ranking, late>>

StopUnseen == FALSE
StopSeen == Stopped

AbandonPass ==
    /\ pc = "check"
    /\ StopSeen
    /\ ReturnToLoop
    /\ UNCHANGED <<env, tickAt, tvl, tvlAt, mids, seen, summary, late>>

\* Both quotes answered, and something came out of both.
Quoted ==
    /\ quote.buyOk
    /\ quote.sellOk
    /\ quote.buy > 0
    /\ quote.sell > 0

\* The next iteration: the locals of this one go out of scope.
NextSize ==
    /\ pc' = "size"
    /\ idx' = idx + 1
    /\ leg' = NoBook
    /\ deadline' = 0
    /\ quote' = NoQuote
    /\ dexTs' = ZeroTime
    /\ smp' = NoSample

\* continue
SkipSize ==
    /\ pc = "check"
    /\ ~StopSeen
    /\ ~Quoted
    /\ NextSize
    /\ UNCHANGED <<env, tickAt, gate, momentum, ranking, late>>

QuotesGood ==
    /\ pc = "check"
    /\ ~StopSeen
    /\ Quoted
    /\ pc' = "record"
    /\ UNCHANGED <<env, tickAt, idx, leg, quoting, smp, gate, momentum, ranking, late>>

(***************************************************************************)
(* The gates and the sample.                                               *)
(***************************************************************************)
Skew == Abs(dexTs - leg.ts)

TVLOk == tvlUsed < 0 \/ MinTVL <= 0 \/ tvlUsed >= MinTVL
SkewOk == MaxLegSkew <= 0 \/ Skew <= MaxLegSkew

BasisUsableAnyAge == basis.ts # ZeroTime /\ basis.mid > 0
BasisUsable == basis.ts # ZeroTime /\ now - basis.ts <= MaxBookAge /\ basis.mid > 0

BasisOk == ~HasBasis \/ BasisUsable

ExcludeReasons == {r \in {"tvl", "skew", "basis"} :
                      \/ r = "tvl" /\ ~TVLOk
                      \/ r = "skew" /\ ~SkewOk
                      \/ r = "basis" /\ ~BasisOk}

SampleEdges(basisMid) ==
    ComputeEdges(leg.bid, leg.ask, quote.buy, quote.sell, basisMid,
                 CostBps(Costs.fee, Costs.gas, Costs.buffer, Sizes[idx]))

\* s: what the recorder gets, with the stamps of what it was made from.
BuildSample ==
    LET usesBasis == HasBasis /\ BasisUsable
        basisMid == IF usesBasis THEN basis.mid ELSE 0
    IN  [ cexTs    |-> leg.ts,
          dexTs    |-> dexTs,
          skew     |-> Skew,
          basisTs  |-> IF usesBasis THEN basis.ts ELSE ZeroTime,
          tvl      |-> tvlUsed,
          momentum |-> mom,
          raw      |-> BestRaw(SampleEdges(basisMid)),
          adj      |-> AdjOfBestRaw(SampleEdges(basisMid)),
          reasons  |-> ExcludeReasons,
          include  |-> ExcludeReasons = {} ]

MakeSample ==
    /\ pc = "record"
    /\ smp' = BuildSample
    /\ pc' = "write"
    /\ UNCHANGED <<env, tickAt, idx, leg, quoting, gate, momentum, ranking, late>>

BestFromZero(net) ==
    IF net > best.net THEN [have |-> TRUE, net |-> net] ELSE [best EXCEPT !.have = TRUE]
BestSoFar(net) ==
    IF ~best.have \/ net > best.net THEN [have |-> TRUE, net |-> net] ELSE best

\* Write's error is logged and the sample counts all the same.
WriteSample ==
    /\ pc = "write"
    /\ best' = BestSoFar(smp.raw)
    /\ nets' = nets \cup {smp.raw}
    /\ late' = IF Stopped THEN late + 1 ELSE late
    /\ NextSize
    /\ UNCHANGED <<env, tickAt, gate, momentum, summary>>

FinishPassAlways ==
    /\ pc = "size"
    /\ ~SizeLeft
    /\ summary' = [net |-> best.net, at |-> now]
    /\ ReturnToLoop
    /\ UNCHANGED <<env, tickAt, tvl, tvlAt, mids, seen, late>>

FinishPass ==
    /\ pc = "size"
    /\ ~SizeLeft
    /\ summary' = IF best.have THEN [net |-> best.net, at |-> now] ELSE summary
    /\ ReturnToLoop
    /\ UNCHANGED <<env, tickAt, tvl, tvlAt, mids, seen, late>>

Runner == \/ StaggerOver \/ StoppedWhileStaggered
          \/ TickTaken \/ StopTaken
          \/ BeginPass \/ NothingToSample
          \/ TVLStillFresh \/ AskTVL \/ (\E v \in TVLs : TVLAnswers(v)) \/ TVLFails
          \/ TakeBook \/ BookLost
          \/ (\E p \in DexPrices : BuyAnswers(p)) \/ BuyFails
          \/ (\E p \in DexPrices : SellAnswers(p)) \/ SellFails
          \/ StampDex \/ AbandonPass \/ SkipSize \/ QuotesGood
          \/ MakeSample \/ WriteSample \/ FinishPass

World == \/ Elapse
         \/ \E price \in BookPrices : BookArrives(price)
         \/ \E mid \in BasisMids : BasisArrives(mid)
         \/ Stop

Next == Runner \/ World

Spec == Init /\ [][Next]_runnerVars

\* Every step of the runner is eventually taken: the goroutine is scheduled,
\* the quoter returns by the end of its context, and a select that finds the
\* cancelled context among its ready cases again and again takes it.
FairSpec == /\ Spec
            /\ WF_runnerVars(Elapse)
            /\ WF_runnerVars(Runner)
            /\ SF_runnerVars(StopTaken)

(***************************************************************************)
(* Properties.                                                             *)
(***************************************************************************)
TypeOK ==
    /\ now \in Nat
    /\ stopAt \in Nat \cup {ZeroTime}
    /\ book \in Book
    /\ basis \in BasisBook
    /\ pc \in Places
    /\ tickAt \in Nat
    /\ idx \in Nat \ {0}
    /\ leg \in Book
    /\ deadline \in Nat
    /\ quote \in Quotes
    /\ dexTs \in Nat \cup {ZeroTime}
    /\ smp \in Sample
    /\ tvl \in Nat \cup {Unknown}
    /\ tvlAt \in Nat \cup {ZeroTime}
    /\ tvlUsed \in Nat \cup {Unknown}
    /\ mids \subseteq seen
    /\ seen \subseteq [ts : Nat, mid : Int]
    /\ mom \in Momentum
    /\ best \in Ranking
    /\ summary \in Summary
    /\ late \in Nat

Handing == pc = "write"      \* smp is on its way to Recorder.Write

\* A sample that counts was quoted, in both directions, at most MaxLegSkew
\* after its CEX book was received, and never before: the stamp dexTs bounds
\* the quotes it stands for (engine.go:231-252, README "leg skew").
LegsWithinSkew ==
    Handing /\ smp.include /\ MaxLegSkew > 0 =>
        /\ smp.cexTs <= quote.buyAt  /\ quote.buyAt  <= smp.cexTs + MaxLegSkew
        /\ smp.cexTs <= quote.sellAt /\ quote.sellAt <= smp.cexTs + MaxLegSkew

\* Each size is quoted against a book that was recent when the quoting of that
\* size began, however long the sizes before it took, and that is no older than
\* the books the pass's momentum was computed from (engine.go:202-205, 225-232).
BookRecentAtQuote ==
    pc \in {"buy", "sell", "stamp", "check", "record", "write"} =>
        /\ (deadline - QuoteTimeout) - leg.ts <= MaxBookAge
        /\ \A p \in mids : p.ts <= leg.ts

\* The canonical edge of a sample that counts is computed from a basis book
\* that was no older than MaxBookAge when the quotes completed.  How much younger
\* than the quotes it may be, nothing bounds: the code reads it after them and
\* looks at its age alone (engine.go:257-281, README "never silently passed off
\* as corrected").
CanonicalEdgeBacked ==
    Handing /\ smp.include /\ HasBasis =>
        /\ smp.basisTs # ZeroTime
        /\ smp.dexTs - smp.basisTs <= MaxBookAge

\* Of the pass that a cancellation overtakes at most one more sample is written,
\* and both its legs, the CEX book and the quotes of either direction, were
\* observed before the cancellation.  Its basis book need not have been: it is
\* read after the check (engine.go:230-238, 261, 191-195).
StopCutsRecording ==
    /\ Handing /\ Stopped => /\ smp.cexTs <= stopAt
                             /\ quote.buyAt <= stopAt /\ quote.sellAt <= stopAt
                             /\ smp.dexTs <= stopAt
    /\ late <= 1

\* A pair whose pool was found too thin stays out of the statistics until a
\* later answer says otherwise: a failed refresh, or the ones skipped while the
\* value is fresh, do not let it back in (engine.go:214-218, 391-399).
ThinPoolExcluded ==
    Handing /\ smp.include /\ MinTVL > 0 /\ tvl # Unknown => tvl >= MinTVL

\* The log line "POSITIVE net edge observed".
Positive == smp.raw > 0 /\ smp.include

\* Forgetting never shows: the momentum of every pass, however many came before
\* it, is the one that all the mids ever recorded would give, although every one
\* of those passes pruned the history by the stamp of its own book
\* (engine.go:55-92, 206-211).
ReferencesKept ==
    [][pc = "pass" /\ pc' = "tvl" => mom' = Momentum10s(seen', book)]_runnerVars

\* The summary follows the passes, and nothing but them: when the loop over the
\* sizes comes to its end, the summary becomes the greatest of the nets written
\* in that very pass, losing ones included, and the present; a pass that wrote
\* none, or was abandoned between two sizes, leaves it alone, and so does
\* whatever else happens (engine.go:221-222, 326-328, 339-344).
PassCompleted == pc = "size" /\ ~SizeLeft /\ pc' = "wait" /\ nets # {}
SummaryFollowsPass ==
    [][IF PassCompleted
       THEN /\ summary'.at = now
            /\ summary'.net \in nets
            /\ \A n \in nets : n <= summary'.net
       ELSE summary' = summary]_runnerVars

\* The sampler keeps the ticker's pace: whenever the next tick is within the
\* horizon the runner leaves its wait (engine.go:187-195).
TickHonoured == (pc = "wait" /\ tickAt <= Horizon) ~> pc # "wait"

\* A cancelled process context ends the runner, wherever it was
\* (engine.go:178-196, 236).
StopObeyed == Stopped ~> pc = "done"

(***************************************************************************)
(* What the repository says and the code does not do.                      *)
(***************************************************************************)

\* README.md:154: "The canonical metric everywhere is the basis-corrected net
\* edge": a direction announced as positive is positive on that metric
\* (engine.go:322-336).
PositiveIsCanonical ==
    Handing /\ Positive => smp.adj > 0
===============================================================================
