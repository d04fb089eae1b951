-------------------------------- MODULE Startup --------------------------------
(***************************************************************************)
(* cmd/monitor: from the configuration to a running engine.  Every pair    *)
(* needs a quoter that answers a probe and a symbol the exchange confirms; *)
(* what survives is wired to one feed per venue and one rate limiter per   *)
(* chain, and engine.New spreads the runners of a chain over time.         *)
(*                                                                         *)
(* Every network call may fail, and does once the process is told to stop. *)
(***************************************************************************)
EXTENDS Settings, Quoters, FiniteSets

CONSTANT Files           \* the configurations a file may hold, as decoded

ASSUME FilesAssumption == \A c \in Files : IsConfig(c)

NoBasis == Empty         \* QuoteBasisSymbol = ""

VARIABLES cfg,           \* the configuration, at first as decoded
          phase,         \* where run is
          i,             \* index of the pair, or candidate, at hand
          cancelled,     \* SIGINT or SIGTERM came
          limiters,      \* limiters: [chain -> the limiter object]
          candidates,    \* pairs with a working quoter, and its limiter
          runners,       \* PairRunners: [pair, quoter, basis, limiter, stagger]
          symbols,       \* symbols to subscribe to, by venue
          feeds,         \* by venue: what the feed is subscribed to
          failures,      \* failed legs of the self-test
          store          \* the sample store: "none", "open", "closed"

startVars == <<cfg, phase, i, cancelled, limiters, candidates, runners, symbols, feeds,
               failures, store>>

Pairs == cfg.pairs

Init ==
    /\ cfg \in Files
    /\ phase = "load"
    /\ i = 1
    /\ cancelled = FALSE
    /\ limiters = [c \in {} |-> 0]
    /\ candidates = <<>>
    /\ runners = <<>>
    /\ symbols = [v \in Venues |-> {}]
    /\ feeds = [v \in {} |-> {}]
    /\ failures = 0
    /\ store = "none"

\* No file, or not what the program can decode.
LoadFails ==
    /\ phase = "load"
    /\ phase' = "failed"
    /\ UNCHANGED <<cfg, i, cancelled, limiters, candidates, runners, symbols, feeds, failures,
                   store>>

\* The signal handler is not there yet.
Load ==
    /\ phase = "load"
    /\ cfg' = ApplyDefaults(cfg)
    /\ phase' = IF Validate(cfg') THEN "quoters" ELSE "failed"
    /\ UNCHANGED <<i, cancelled, limiters, candidates, runners, symbols, feeds, failures, store>>

Cancel ==
    /\ ~cancelled
    /\ phase \notin {"load", "failed", "stopped"}
    /\ cancelled' = TRUE
    /\ UNCHANGED <<cfg, phase, i, limiters, candidates, runners, symbols, feeds, failures, store>>

(***************************************************************************)
(* Rate limiters.                                                          *)
(***************************************************************************)
\* A rate of 0, configured or not, makes a nil limiter, which never waits.
\* A limiter is its identity, the turn it was made in, and its rate.
NewLimiter(chain) == [id |-> i, rate |-> RateLimitFor(cfg, chain)]

NewEveryTime(chain) == NewLimiter(chain)
LimiterFor(chain) ==
    IF chain \in DOMAIN limiters THEN limiters[chain] ELSE NewLimiter(chain)

UseLimiter(chain) ==
    limiters' = [c \in DOMAIN limiters \cup {chain} |->
                    IF c = chain THEN LimiterFor(chain) ELSE limiters[c]]

(***************************************************************************)
(* Quoters and their probes.                                               *)
(***************************************************************************)
AtPair == phase = "quoters" /\ i <= Len(Pairs)

\* Jupiter has its own endpoint; the others need the RPC URL of their chain.
Reachable(d) == d.venue = "jupiter" \/ d.chain \in cfg.urls

SkipDisabled ==
    /\ AtPair
    /\ ~Pairs[i].enabled
    /\ i' = i + 1
    /\ UNCHANGED <<cfg, phase, cancelled, limiters, candidates, runners, symbols, feeds,
                   failures, store>>

\* clientFor refuses the chain before it makes a limiter.
NoURL ==
    /\ AtPair
    /\ Pairs[i].enabled
    /\ ~Reachable(Pairs[i].dex)
    /\ i' = i + 1
    /\ UNCHANGED <<cfg, phase, cancelled, limiters, candidates, runners, symbols, feeds,
                   failures, store>>

\* A call or the quoter's own checks: the pair is skipped, its limiter stays.
QuoterFails ==
    /\ AtPair
    /\ Pairs[i].enabled
    /\ Reachable(Pairs[i].dex)
    /\ UseLimiter(Pairs[i].dex.chain)
    /\ i' = i + 1
    /\ UNCHANGED <<cfg, phase, cancelled, candidates, runners, symbols, feeds, failures, store>>

ProbeAnswers ==
    /\ AtPair
    /\ ~cancelled
    /\ Pairs[i].enabled
    /\ Reachable(Pairs[i].dex)
    /\ UseLimiter(Pairs[i].dex.chain)
    /\ \E q \in BuildQuoter(Pairs[i].dex) :
          /\ Quotable(q)
          /\ candidates' = Append(candidates,
                  [pair |-> Pairs[i], quoter |-> q, limiter |-> LimiterFor(Pairs[i].dex.chain)])
    /\ i' = i + 1
    /\ UNCHANGED <<cfg, phase, cancelled, runners, symbols, feeds, failures, store>>

QuotersDone ==
    /\ phase = "quoters"
    /\ i > Len(Pairs)
    /\ phase' = "listings"
    /\ i' = 1
    /\ UNCHANGED <<cfg, cancelled, limiters, candidates, runners, symbols, feeds, failures, store>>

(***************************************************************************)
(* Listings.                                                               *)
(***************************************************************************)
AtCandidate == phase = "listings" /\ i <= Len(candidates)

NotListed ==
    /\ AtCandidate
    /\ i' = i + 1
    /\ UNCHANGED <<cfg, phase, cancelled, limiters, candidates, runners, symbols, feeds,
                   failures, store>>

SymbolsOfPairOnly(p, basis) == {p.cexSymbol}
SymbolsOf(p, basis) == {p.cexSymbol} \cup ({basis} \ {NoBasis})

\* The basis symbol rides along if it is confirmed, and is dropped otherwise.
Listed(basisOk) ==
    LET p == candidates[i].pair
        basis == IF basisOk THEN p.basis ELSE NoBasis
    IN  /\ runners' = Append(runners, [ pair |-> p, quoter |-> candidates[i].quoter, basis |-> basis,
                                        limiter |-> candidates[i].limiter, stagger |-> 0 ])
        /\ symbols' = [symbols EXCEPT ![p.venue] = @ \cup SymbolsOf(p, basis)]

Confirmed ==
    /\ AtCandidate
    /\ ~cancelled
    /\ Listed(TRUE)
    /\ i' = i + 1
    /\ UNCHANGED <<cfg, phase, cancelled, limiters, candidates, feeds, failures, store>>

\* Also when the stop comes between the two validations.
BasisNotConfirmed ==
    /\ AtCandidate
    /\ candidates[i].pair.basis # NoBasis
    /\ ~cancelled
    /\ Listed(FALSE)
    /\ i' = i + 1
    /\ UNCHANGED <<cfg, phase, cancelled, limiters, candidates, feeds, failures, store>>

NoUsablePair ==
    /\ phase = "listings"
    /\ i > Len(candidates)
    /\ runners = <<>>
    /\ phase' = "failed"
    /\ UNCHANGED <<cfg, i, cancelled, limiters, candidates, runners, symbols, feeds, failures, store>>

(***************************************************************************)
(* Wiring and start.                                                       *)
(***************************************************************************)
VenuesInUse == {runners[j].pair.venue : j \in 1 .. Len(runners)}

\* One feed per venue that has a runner, with all the symbols of the venue.
WireFeeds ==
    /\ phase = "listings"
    /\ i > Len(candidates)
    /\ runners # <<>>
    /\ feeds' = [v \in VenuesInUse |-> symbols[v]]
    /\ phase' = "selftest"
    /\ UNCHANGED <<cfg, i, cancelled, limiters, candidates, runners, symbols, failures, store>>

Legs == Cardinality({j \in 1 .. Len(runners) : runners[j].basis # NoBasis}) + 2 * Len(runners)

\* Failures are counted and told; they stop nothing.
SelfTest(failed) ==
    /\ phase = "selftest"
    /\ cancelled => failed = Legs
    /\ failures' = failed
    /\ phase' = "store"
    /\ UNCHANGED <<cfg, i, cancelled, limiters, candidates, runners, symbols, feeds, store>>

OpenFails ==
    /\ phase = "store"
    /\ phase' = "failed"
    /\ UNCHANGED <<cfg, i, cancelled, limiters, candidates, runners, symbols, feeds, failures, store>>

\* engine.New: runner j of n on its chain starts (j - 1) / n of its interval late.
OnChain(j) == {m \in 1 .. Len(runners) : runners[m].pair.dex.chain = runners[j].pair.dex.chain}

IntervalOf(j) == EffectiveInterval(cfg, runners[j].pair)

StaggerFromOne(j) ==
    (Cardinality({m \in OnChain(j) : m <= j}) * IntervalOf(j))
        \div Cardinality(OnChain(j))
StaggerOfFirst(j) == IntervalOf(j) \div Cardinality(OnChain(j))
StaggerOf(j) ==
    (Cardinality({m \in OnChain(j) : m < j}) * IntervalOf(j))
        \div Cardinality(OnChain(j))

OpenStore ==
    /\ phase = "store"
    /\ store' = "open"
    /\ runners' = [j \in 1 .. Len(runners) |-> [runners[j] EXCEPT !.stagger = StaggerOf(j)]]
    /\ phase' = "running"
    /\ UNCHANGED <<cfg, i, cancelled, limiters, candidates, symbols, feeds, failures>>

\* Engine.Run returns after every runner has.
Stopped ==
    /\ phase = "running"
    /\ cancelled
    /\ phase' = "stopped"
    /\ store' = "closed"
    /\ UNCHANGED <<cfg, i, cancelled, limiters, candidates, runners, symbols, feeds, failures>>

Next == \/ LoadFails \/ Load
        \/ SkipDisabled \/ NoURL \/ QuoterFails \/ ProbeAnswers \/ QuotersDone
        \/ NotListed \/ Confirmed \/ BasisNotConfirmed \/ NoUsablePair
        \/ WireFeeds \/ (\E failed \in 0 .. Legs : SelfTest(failed))
        \/ OpenFails \/ OpenStore \/ Stopped \/ Cancel

Spec == Init /\ [][Next]_startVars

(***************************************************************************)
(* Properties.                                                             *)
(***************************************************************************)
Limiter == [id : Nat, rate : Int]

TypeOK ==
    /\ phase \in {"load", "quoters", "listings", "selftest", "store", "running", "failed", "stopped"}
    /\ i \in Nat
    /\ cancelled \in BOOLEAN
    /\ \A c \in DOMAIN limiters : limiters[c] \in Limiter
    /\ \A j \in 1 .. Len(candidates) : candidates[j].limiter \in Limiter
    /\ \A j \in 1 .. Len(runners) :
          /\ runners[j].limiter \in Limiter
          /\ runners[j].stagger \in Int
          /\ IntervalOf(j) > 0 => runners[j].stagger \in 0 .. IntervalOf(j) - 1
    /\ DOMAIN feeds \subseteq Venues
    /\ failures \in 0 .. Legs
    /\ store \in {"none", "open", "closed"}

Running == phase = "running"

\* A running pair's books come: its feed is subscribed to the pair's symbol and
\* to the basis it still corrects by, and to nothing that was dropped on the
\* way, whichever of the pairs sharing the feed came first or failed
\* (main.go:108-173).
FeedsServeRunners ==
    Running =>
        /\ \A j \in 1 .. Len(runners) :
              LET subscribed == feeds[runners[j].pair.venue]
              IN  /\ runners[j].pair.cexSymbol \in subscribed
                  /\ runners[j].basis # NoBasis => runners[j].basis \in subscribed
        /\ \A v \in DOMAIN feeds : \A s \in feeds[v] :
              \E j \in 1 .. Len(runners) : /\ runners[j].pair.venue = v
                                           /\ s \in {runners[j].pair.cexSymbol, runners[j].basis}

\* Pair p asks for the limiter of the chain, and is the first one to.
Asks(p, chain) == Pairs[p].enabled /\ Reachable(Pairs[p].dex) /\ Pairs[p].dex.chain = chain
FirstToAsk(p, chain) == /\ p \in 1 .. Len(Pairs) /\ Asks(p, chain)
                        /\ \A q \in 1 .. p - 1 : ~Asks(q, chain)

\* The requests of all the runners of a chain go through one limiter, no other
\* chain's do, and it is the one made for the first pair that asked, even if that
\* pair was then skipped, at the rate of the chain (main.go:51-76, 85-106, 312-316).
OneLimiterPerChain ==
    \A j \in 1 .. Len(runners) :
        LET chain == runners[j].pair.dex.chain
        IN  /\ runners[j].limiter.rate = RateLimitFor(cfg, chain)
            /\ FirstToAsk(runners[j].limiter.id, chain)
            /\ \A m \in 1 .. Len(runners) :
                  (chain = runners[m].pair.dex.chain)
                      <=> (runners[j].limiter.id = runners[m].limiter.id)

\* Two pairs of a chain with the same interval never begin a pass in the same
\* instant, in as many passes of each as there are pairs, whatever the intervals
\* of the chain's other pairs (engine.go:108-128).
BurstsApart ==
    Running =>
        \A j, m \in 1 .. Len(runners) :
            /\ j < m
            /\ runners[j].pair.dex.chain = runners[m].pair.dex.chain
            /\ IntervalOf(j) = IntervalOf(m)
            => \A a, b \in 0 .. Len(Pairs) :
                  runners[j].stagger + a * IntervalOf(j) # runners[m].stagger + b * IntervalOf(m)

\* What is accepted can run: no pair is probed at a size it does not have, no
\* ticker gets a period that is not positive, every runner has a feed, and no two
\* record under one symbol.  A negative setting is not refused, so this is about
\* files without one (main.go:97, 151-173; engine.go:150, 188; config.go:196-287).
Unsigned == /\ \A name \in DOMAIN cfg.every : cfg.every[name] >= 0
            /\ \A j \in 1 .. Len(Pairs) : Pairs[j].interval >= 0
AcceptedConfigsRun ==
    /\ AtPair /\ Pairs[i].enabled => Pairs[i].sizes # <<>>
    /\ Running /\ Unsigned =>
          /\ \A name \in DOMAIN cfg.every : cfg.every[name] > 0
          /\ \A j \in 1 .. Len(runners) :
                /\ IntervalOf(j) > 0
                /\ runners[j].pair.venue \in DOMAIN feeds
                /\ \A m \in 1 .. Len(runners) :
                      runners[j].pair.symbol = runners[m].pair.symbol => j = m

\* Both legs of a sample are quotes of the configured market: the buy leg spends
\* the quote token and gets the base token, hop by hop through the configured
\* tokens and fee tiers; the sell leg goes the same way back; amounts are scaled
\* by the decimals of the token they count.  On uniswap_v2 the pool whose TVL
\* gates the pair is the factory's, is the one the last swap goes through, and
\* its reserves are not mixed up (uniswapv2.go:86-134, 197-223;
\* uniswapv3.go:97-198; lfj.go:48-56, 108-124; velodrome.go:50-54, 94-108).
QuotesTheMarket ==
    \A j \in 1 .. Len(runners) : MarketQuoted(runners[j].quoter, runners[j].pair.dex)

(***************************************************************************)
(* What the repository says and the code does not do.                      *)
(***************************************************************************)

\* README.md:24: "If a pair's configured quote_basis_symbol book is
\* unavailable, ... flagged exclude_reason: basis, never silently passed off as
\* corrected": a runner keeps the basis that was configured, without which none
\* of its samples is flagged (main.go:127-136, engine.go:257-261).
BasisKept ==
    Running => \A j \in 1 .. Len(runners) : runners[j].basis = runners[j].pair.basis
===============================================================================
