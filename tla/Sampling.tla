-------------------------------- MODULE Sampling --------------------------------
(***************************************************************************)
(* The pairs of one chain over its rate limiter: the passes of             *)
(* PairRunner, reduced to the calls they make (a TVL refresh, then a buy   *)
(* and a sell leg for every size, the two legs under one context), and     *)
(* RateLimiter, reduced to how far its next slot lies ahead.               *)
(*                                                                         *)
(* Time is relative, so that runs need no end.  Its unit is long against   *)
(* the scheduler's: what is due is done before time goes on.               *)
(***************************************************************************)
EXTENDS Integers, FiniteSets

CONSTANTS Pairs,         \* the runners that share the limiter
          Sizes,         \* len(TradeSizesUSD)
          Interval,      \* Limiter.interval
          QuoteTimeout   \* of the contexts of a TVL refresh and of a size, 20 s

\* What the checked promises rest on: every pair can have one slot in use and
\* one that it gave up, and all of them pass before a context ends.
ASSUME SamplingAssumption ==
    /\ IsFiniteSet(Pairs)
    /\ {Sizes, Interval, QuoteTimeout} \subseteq Nat \ {0}
    /\ 2 * Cardinality(Pairs) * Interval <= QuoteTimeout

VARIABLES lag,           \* Limiter.next - now, 0 when it has passed
          at,            \* where a runner is
          leg,           \* the call it is in
          size,          \* the trade size it is at, 0 before the first
          slotIn,        \* until its slot
          ctxLeft        \* until its context ends

samplingVars == <<lag, at, leg, size, slotIn, ctxLeft>>

Legs == {"tvl", "tvl2", "buy", "sell"}

Init ==
    /\ lag = 0
    /\ at = [p \in Pairs |-> "pause"]
    /\ leg = [p \in Pairs |-> "tvl"]
    /\ size = [p \in Pairs |-> 0]
    /\ slotIn = [p \in Pairs |-> 0]
    /\ ctxLeft = [p \in Pairs |-> 0]

(***************************************************************************)
(* Limiter.Wait at the start of a call, under a context with `left` to go. *)
(***************************************************************************)
LagOfTwo == lag + 2 * Interval
LagAfter == lag + Interval

Call(p, l, left) ==
    /\ lag' = LagAfter
    /\ slotIn' = [slotIn EXCEPT ![p] = lag]
    /\ at' = [at EXCEPT ![p] = IF lag = 0 THEN "request" ELSE "wait"]
    /\ leg' = [leg EXCEPT ![p] = l]
    /\ ctxLeft' = [ctxLeft EXCEPT ![p] = left]

Pause(p) ==
    /\ at' = [at EXCEPT ![p] = "pause"]
    /\ leg' = [leg EXCEPT ![p] = "tvl"]
    /\ size' = [size EXCEPT ![p] = 0]
    /\ slotIn' = [slotIn EXCEPT ![p] = 0]
    /\ ctxLeft' = [ctxLeft EXCEPT ![p] = 0]
    /\ UNCHANGED lag

(***************************************************************************)
(* sampleOnce: what follows a call that is over.                           *)
(***************************************************************************)
ContextOfPass(p) == IF size[p] = 0 THEN QuoteTimeout ELSE ctxLeft[p]
ContextOfSize(p) == QuoteTimeout

NextSize(p) ==
    /\ size[p] < Sizes
    /\ size' = [size EXCEPT ![p] = @ + 1]
    /\ Call(p, "buy", ContextOfSize(p))

\* No size left, or no fresh book for the next.
PassOver(p) == Pause(p)

\* A failed refresh asks for no second balance; the pass goes on without.
After(p, served) ==
    \/ leg[p] = "tvl" /\ served /\ Call(p, "tvl2", ctxLeft[p]) /\ UNCHANGED size
    \/ leg[p] = "buy" /\ Call(p, "sell", ctxLeft[p]) /\ UNCHANGED size
    \/ leg[p] # "buy" /\ NextSize(p)
    \/ leg[p] # "buy" /\ PassOver(p)

\* A tick, with a fresh book: a TVL that is due is refreshed first.
StartWithTVL(p) == at[p] = "pause" /\ Call(p, "tvl", QuoteTimeout) /\ UNCHANGED size
StartQuoting(p) == at[p] = "pause" /\ NextSize(p)

SlotComes(p) ==
    /\ at[p] = "wait"
    /\ slotIn[p] = 0
    /\ at' = [at EXCEPT ![p] = "request"]
    /\ UNCHANGED <<lag, leg, size, slotIn, ctxLeft>>

\* The slot stays taken.
GiveUp(p) ==
    /\ at[p] = "wait"
    /\ ctxLeft[p] = 0
    /\ After(p, FALSE)

Answered(p) ==
    /\ at[p] = "request"
    /\ ctxLeft[p] > 0
    /\ After(p, TRUE)

\* An error, or no answer until the context ended, or before it was asked.
Failed(p) ==
    /\ at[p] = "request"
    /\ After(p, FALSE)

Due(p) == at[p] # "pause" /\ (ctxLeft[p] = 0 \/ (at[p] = "wait" /\ slotIn[p] = 0))

Less(n) == IF n > 0 THEN n - 1 ELSE 0

Elapse ==
    /\ \A p \in Pairs : ~Due(p)
    /\ lag' = Less(lag)
    /\ slotIn' = [p \in Pairs |-> Less(slotIn[p])]
    /\ ctxLeft' = [p \in Pairs |-> Less(ctxLeft[p])]
    /\ UNCHANGED <<at, leg, size>>

Runner(p) == SlotComes(p) \/ GiveUp(p) \/ Answered(p) \/ Failed(p)
Start(p) == StartWithTVL(p) \/ StartQuoting(p)

Next == Elapse \/ \E p \in Pairs : Runner(p) \/ Start(p)

Spec == Init /\ [][Next]_samplingVars

\* Time goes on, what is due is done, and tickers tick while books are fresh, now
\* and then at least.
FairSpec ==
    /\ Spec
    /\ WF_samplingVars(Elapse)
    /\ \A p \in Pairs : WF_samplingVars(Runner(p)) /\ WF_samplingVars(Start(p))

(***************************************************************************)
(* Properties.                                                             *)
(***************************************************************************)

\* The first call under every context has a slot that comes before the context
\* ends, with time left to ask, in any interleaving of the pairs' passes and
\* with all the slots that second calls took and gave up (ratelimit.go:33-53,
\* engine.go:231-234, 384-386).
FirstCallsServed ==
    \A p \in Pairs :
        at[p] = "wait" /\ leg[p] \in {"tvl", "buy"} /\ slotIn[p] > 0
            => slotIn[p] < ctxLeft[p]

\* Every pair sends requests for ever, however the others use the limiter
\* (engine.go:181-194, ratelimit.go:48-53).
Sending(p) == at[p] = "request" /\ ctxLeft[p] > 0
RequestsGoOn == \A p \in Pairs : []<>Sending(p)
===============================================================================
