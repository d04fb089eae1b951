--------------------------- MODULE Startup_proofs ---------------------------
(***************************************************************************)
(* Startup for every set of files and every chain: its types, that feeds   *)
(* and limiters fit the runners, that what is accepted can run, that       *)
(* runners of a chain never begin together, and that every runner quotes   *)
(* its market.                                                             *)
(***************************************************************************)
EXTENDS Startup, Quoters_proofs, FiniteSetTheorems

\* A sequence, whatever its elements are.
IsSeq(s) == Len(s) \in Nat /\ s = [k \in 1 .. Len(s) |-> s[k]]

\* What the configuration is: what a file decodes to, but for the names of the
\* exchange's symbols, and once it is loaded, with no setting left at zero and
\* accepted by validate.
Decoded(c) ==
    /\ c.every \in [DOMAIN Default -> Int]
    /\ \A chain \in DOMAIN c.rates : c.rates[chain] \in Int
    /\ IsSeq(c.pairs)
    /\ \A j \in 1 .. Len(c.pairs) : c.pairs[j].interval \in Int /\ c.pairs[j].dex \in DexConfig
Configured ==
    /\ Decoded(cfg)
    /\ phase = "load" => IsConfig(cfg)
    /\ phase \notin {"load", "failed"} =>
          /\ Validate(cfg)
          /\ \A name \in DOMAIN cfg.every : cfg.every[name] # 0

\* A limiter's identity is the turn it was made in: those made are told apart,
\* and the next will be told from them.
LimitersDiffer ==
    /\ \A c \in DOMAIN limiters :
          limiters[c] \in Limiter /\ (phase = "quoters" => limiters[c].id < i)
    /\ \A c, d \in DOMAIN limiters : c # d => limiters[c].id # limiters[d].id

\* Each was made for the first pair of its chain that asked, at the chain's rate,
\* and every pair of an earlier turn that asked found one or had one made.
LimitersMade ==
    /\ \A c \in DOMAIN limiters :
          limiters[c].rate = RateLimitFor(cfg, c) /\ FirstToAsk(limiters[c].id, c)
    /\ phase = "quoters" =>
          \A p \in 1 .. i - 1 : \A c : Asks(p, c) => c \in DOMAIN limiters

\* A candidate is a pair of an earlier turn, and has the limiter of its chain.
CandidatesMade ==
    /\ IsSeq(candidates)
    /\ \A j \in 1 .. Len(candidates) :
          /\ candidates[j].pair.dex.chain \in DOMAIN limiters
          /\ candidates[j].limiter = limiters[candidates[j].pair.dex.chain]
          /\ candidates[j].quoter \in BuildQuoter(candidates[j].pair.dex)
          /\ Quotable(candidates[j].quoter)
          /\ candidates[j].pair.venue \in Venues /\ candidates[j].pair.dex.venue \in DexVenues
          /\ \E k \in 1 .. Len(Pairs) : /\ candidates[j].pair = Pairs[k]
                                        /\ phase = "quoters" => k < i
    /\ \A j, m \in 1 .. Len(candidates) :
          candidates[j].pair.symbol = candidates[m].pair.symbol => j = m

\* A runner is a candidate of an earlier turn.
RunnersMade ==
    /\ IsSeq(runners)
    /\ \A j \in 1 .. Len(runners) :
          \E k \in 1 .. Len(candidates) :
              /\ runners[j].pair = candidates[k].pair
              /\ runners[j].quoter = candidates[k].quoter
              /\ runners[j].limiter = candidates[k].limiter
              /\ phase = "listings" => k < i
    /\ \A j, m \in 1 .. Len(runners) :
          runners[j].pair.symbol = runners[m].pair.symbol => j = m

\* What is collected for a venue is what its runners need, no less and no more.
SymbolsServe ==
    /\ DOMAIN symbols = Venues
    /\ \A j \in 1 .. Len(runners) :
          SymbolsOf(runners[j].pair, runners[j].basis) \subseteq symbols[runners[j].pair.venue]
    /\ \A v \in Venues : \A s \in symbols[v] :
          \E j \in 1 .. Len(runners) :
              runners[j].pair.venue = v /\ s \in SymbolsOf(runners[j].pair, runners[j].basis)

FeedsWired ==
    /\ DOMAIN feeds \subseteq Venues
    /\ phase \in {"selftest", "store", "running"} => feeds = [v \in VenuesInUse |-> symbols[v]]

\* The stagger is set once, when the store is open.
Staggered ==
    \A j \in 1 .. Len(runners) :
        /\ "stagger" \in DOMAIN runners[j]
        /\ runners[j].stagger = IF phase \in {"running", "stopped"} THEN StaggerOf(j) ELSE 0

\* What a phase has not come to is as it was at first.
NotYet ==
    /\ phase = "load" => i = 1 /\ limiters = [c \in {} |-> 0] /\ candidates = <<>>
    /\ phase \in {"load", "quoters"} => runners = <<>>
    /\ phase \in {"load", "quoters", "listings", "selftest"} => failures = 0

Control ==
    /\ phase \in {"load", "quoters", "listings", "selftest", "store", "running", "failed", "stopped"}
    /\ i \in Nat
    /\ phase \in {"quoters", "listings"} => i >= 1
    /\ cancelled \in BOOLEAN
    /\ failures \in 0 .. Legs
    /\ store \in {"none", "open", "closed"}

IInv == /\ Control /\ NotYet
        /\ Configured
        /\ LimitersDiffer /\ LimitersMade
        /\ CandidatesMade /\ RunnersMade
        /\ SymbolsServe /\ FeedsWired
        /\ Staggered

(***************************************************************************)
(* Sequences.                                                              *)
(***************************************************************************)
LEMMA AppendIsSeq ==
    ASSUME NEW s, NEW e, IsSeq(s)
    PROVE  /\ IsSeq(Append(s, e))
           /\ Len(Append(s, e)) = Len(s) + 1
           /\ \A k \in 1 .. Len(s) : Append(s, e)[k] = s[k]
           /\ Append(s, e)[Len(s) + 1] = e
  <1> DEFINE S == {s[k] : k \in 1 .. Len(s)} \cup {e}
  <1>1. s \in Seq(S)
    BY DEF IsSeq
  <1>2. e \in S
    OBVIOUS
  <1>3. Append(s, e) \in Seq(S)
    BY <1>1, <1>2, AppendProperties
  <1> HIDE DEF S
  <1>4. IsSeq(Append(s, e))
    BY <1>3, LenProperties DEF IsSeq
  <1> QED
    BY <1>1, <1>2, <1>4, AppendProperties

LEMMA TupleIsSeq ==
    ASSUME NEW n \in Nat, NEW f, DOMAIN f = 1 .. n, f = [k \in 1 .. n |-> f[k]]
    PROVE  IsSeq(f) /\ Len(f) = n
  <1>1. Len(f) = n
    BY MapLength
  <1> QED
    BY <1>1 DEF IsSeq

(***************************************************************************)
(* Loading.                                                                *)
(***************************************************************************)
LEMMA LoadDecodes ==
    ASSUME NEW c, IsConfig(c)
    PROVE  /\ Decoded(c)
           /\ Decoded(ApplyDefaults(c))
           /\ \A name \in DOMAIN ApplyDefaults(c).every : ApplyDefaults(c).every[name] # 0
  <1>1. Len(c.pairs) \in Nat /\ c.pairs \in [1 .. Len(c.pairs) -> PairConfig]
    BY LenProperties DEF IsConfig
  <1>2. \A p \in PairConfig : /\ p.interval \in Int /\ p.dex \in DexConfig
                             /\ WithSymbol(p).interval = p.interval
                             /\ WithSymbol(p).dex = p.dex
    BY DEF PairConfig, WithSymbol
  <1> DEFINE d == ApplyDefaults(c)
  <1>3. /\ d.every = [name \in DOMAIN c.every |-> DefaultIfZero(c.every[name], name)]
        /\ d.rates = c.rates
        /\ d.pairs = [j \in 1 .. Len(c.pairs) |-> WithSymbol(c.pairs[j])]
    BY DEF ApplyDefaults, IsConfig
  <1>4. Decoded(c)
    BY <1>1, <1>2, TupleIsSeq DEF Decoded, IsConfig, IsSeq
  <1>5. d.every \in [DOMAIN Default -> Int] /\ \A name \in DOMAIN d.every : d.every[name] # 0
    BY <1>3, SettingsAssumption DEF IsConfig, DefaultIfZero
  <1>6. IsSeq(d.pairs) /\ Len(d.pairs) = Len(c.pairs)
    BY <1>1, <1>3, TupleIsSeq
  <1> QED
    BY <1>1, <1>2, <1>3, <1>4, <1>5, <1>6 DEF Decoded, IsConfig

(***************************************************************************)
(* The start, step by step.                                                *)
(***************************************************************************)
\* What is computed of the runners is as it was while they are.
LEMMA SameRunners ==
    ASSUME UNCHANGED runners
    PROVE  /\ Legs' = Legs /\ VenuesInUse' = VenuesInUse
           /\ UNCHANGED cfg => \A j : StaggerOf(j)' = StaggerOf(j)
  BY DEF Legs, VenuesInUse, StaggerOf, OnChain, IntervalOf

LEMMA LimitersStay ==
    ASSUME LimitersMade, UNCHANGED <<cfg, limiters>>,
           phase' # "quoters" \/ UNCHANGED <<phase, i>>
    PROVE  LimitersMade'
  <1>1. Pairs' = Pairs
    BY DEF Pairs
  <1>2. \A p, c : Asks(p, c)' = Asks(p, c)
    BY <1>1 DEF Asks, Reachable
  <1>3. \A p, c : FirstToAsk(p, c)' = FirstToAsk(p, c)
    BY <1>1, <1>2 DEF FirstToAsk
  <1>4. \A c : RateLimitFor(cfg', c) = RateLimitFor(cfg, c)
    OBVIOUS
  <1> QED
    BY <1>2, <1>3, <1>4 DEF LimitersMade

LEMMA CountType ==
    ASSUME NEW n \in Nat, NEW B \in SUBSET (1 .. n)
    PROVE  IsFiniteSet(B) /\ Cardinality(B) \in Nat
  <1>1. 1 \in Int /\ n \in Int
    OBVIOUS
  <1>2. IsFiniteSet(1 .. n)
    BY <1>1, FS_Interval
  <1> QED
    BY <1>2, FS_Subset, FS_CardinalityType

LEMMA LegsType == ASSUME IsSeq(runners) PROVE Legs \in Nat
  <1>1. Cardinality({j \in 1 .. Len(runners) : runners[j].basis # NoBasis}) \in Nat
    BY CountType DEF IsSeq
  <1> QED
    BY <1>1 DEF Legs, IsSeq

LEMMA InitIInv == Init => IInv
  <1> SUFFICES ASSUME Init PROVE IInv
    OBVIOUS
  <1>1. IsSeq(runners) /\ IsSeq(candidates) /\ Len(runners) = 0 /\ Len(candidates) = 0
    BY DEF Init, IsSeq
  <1>2. Legs \in Nat
    BY <1>1, LegsType
  <1>3. Control /\ NotYet
    <2>1. 0 \in 0 .. Legs
      BY <1>2
    <2> QED
      BY <2>1 DEF Init, Control, NotYet
  <1>4. Configured
    BY FilesAssumption, LoadDecodes DEF Init, Configured
  <1> QED
    BY <1>1, <1>3, <1>4
       DEF Init, IInv, LimitersDiffer, LimitersMade, CandidatesMade, RunnersMade, SymbolsServe, FeedsWired,
           Staggered

\* A file is refused or loaded, and nothing has been made of it yet.
LEMMA LoadingKeeps == IInv /\ (LoadFails \/ Load) => IInv'
  <1> SUFFICES ASSUME IInv, LoadFails \/ Load PROVE IInv'
    OBVIOUS
  <1>1. /\ phase = "load" /\ phase' \in {"quoters", "failed"}
        /\ UNCHANGED <<i, cancelled, limiters, candidates, runners, symbols, feeds, failures, store>>
    BY DEF LoadFails, Load
  <1>2. /\ i = 1 /\ limiters = [c \in {} |-> 0] /\ candidates = <<>> /\ runners = <<>>
        /\ failures = 0
    BY <1>1 DEF IInv, NotYet
  <1>3. Len(candidates') = 0 /\ Len(runners') = 0 /\ IsSeq(candidates') /\ IsSeq(runners')
    BY <1>1, <1>2 DEF IInv, CandidatesMade, RunnersMade
  <1>4. Legs' \in Nat
    BY <1>1, SameRunners, LegsType DEF IInv, RunnersMade
  <1>5. Control' /\ NotYet'
    BY <1>1, <1>2, <1>4 DEF IInv, Control, NotYet
  <1>6. Configured'
    BY LoadDecodes DEF IInv, LoadFails, Load, Configured
  <1>7. (LimitersDiffer /\ LimitersMade /\ CandidatesMade /\ RunnersMade /\ Staggered)'
    BY <1>1, <1>2, <1>3 DEF LimitersDiffer, LimitersMade, CandidatesMade, RunnersMade, Staggered
  <1>8. (SymbolsServe /\ FeedsWired)'
    BY <1>1, <1>2, <1>3 DEF IInv, SymbolsServe, FeedsWired
  <1> QED
    BY <1>5, <1>6, <1>7, <1>8 DEF IInv

\* The limiter of a chain is made once, and then stays what it is.
LEMMA LimitersKeep ==
    ASSUME IInv, AtPair, NEW chain, Asks(i, chain), UseLimiter(chain), i' = i + 1,
           UNCHANGED <<cfg, phase>>
    PROVE  /\ LimitersDiffer' /\ LimitersMade'
           /\ \A c \in DOMAIN limiters : c \in DOMAIN limiters' /\ limiters'[c] = limiters[c]
           /\ chain \in DOMAIN limiters' /\ limiters'[chain] = LimiterFor(chain)
  <1>1. /\ DOMAIN limiters' = DOMAIN limiters \cup {chain}
        /\ \A c \in DOMAIN limiters' :
              limiters'[c] = IF c = chain THEN LimiterFor(chain) ELSE limiters[c]
    BY DEF UseLimiter
  <1>2. \A c \in DOMAIN limiters : limiters'[c] = limiters[c]
    BY <1>1 DEF LimiterFor
  <1>3. i \in Nat /\ phase = "quoters"
    BY DEF IInv, Control, AtPair
  <1>4. ASSUME chain \in DOMAIN limiters PROVE LimitersDiffer'
    <2>1. \A c \in DOMAIN limiters : limiters[c] \in Limiter /\ limiters[c].id < i + 1
      BY <1>3 DEF IInv, LimitersDiffer, Limiter
    <2> QED
      BY <1>1, <1>2, <1>3, <1>4, <2>1 DEF IInv, LimitersDiffer
  <1>5. ASSUME chain \notin DOMAIN limiters PROVE LimitersDiffer'
    <2>1. RateLimitFor(cfg, chain) \in Int
      BY SettingsAssumption DEF IInv, Configured, Decoded, RateLimitFor
    <2>2. limiters'[chain] = [id |-> i, rate |-> RateLimitFor(cfg, chain)]
      BY <1>1, <1>5 DEF LimiterFor, NewLimiter
    <2>3. limiters'[chain] \in Limiter /\ limiters'[chain].id = i
      BY <1>3, <2>1, <2>2 DEF Limiter
    <2>4. \A c \in DOMAIN limiters : limiters[c] \in Limiter /\ limiters[c].id < i
      BY <1>3 DEF IInv, LimitersDiffer
    <2>5. \A c \in DOMAIN limiters' : limiters'[c] \in Limiter /\ limiters'[c].id < i + 1
      BY <1>1, <1>2, <1>3, <2>3, <2>4 DEF Limiter
    <2>6. \A c, d \in DOMAIN limiters' : c # d => limiters'[c].id # limiters'[d].id
      BY <1>1, <1>2, <1>3, <2>3, <2>4 DEF IInv, LimitersDiffer, Limiter
    <2> QED
      BY <1>1, <1>2, <1>3, <2>5, <2>6 DEF LimitersDiffer
  <1>6. LimitersMade'
    <2>1. i \in 1 .. Len(Pairs) /\ Pairs' = Pairs
      BY <1>3 DEF IInv, Control, AtPair, Configured, Decoded, IsSeq, Pairs
    <2>2. \A p, c : Asks(p, c)' = Asks(p, c)
      BY <2>1 DEF Asks, Reachable
    <2>3. \A p, c : FirstToAsk(p, c)' = FirstToAsk(p, c)
      BY <2>1, <2>2 DEF FirstToAsk
    <2>4. LimiterFor(chain).rate = RateLimitFor(cfg, chain)
      BY DEF IInv, LimitersMade, LimiterFor, NewLimiter
    <2>5. FirstToAsk(LimiterFor(chain).id, chain)
      <3>1. CASE chain \in DOMAIN limiters
        BY <3>1 DEF IInv, LimitersMade, LimiterFor
      <3>2. CASE chain \notin DOMAIN limiters
        <4>1. \A q \in 1 .. i - 1 : ~Asks(q, chain)
          BY <1>3, <3>2 DEF IInv, LimitersMade
        <4>2. LimiterFor(chain).id = i
          BY <3>2 DEF LimiterFor, NewLimiter
        <4> QED
          BY <2>1, <4>1, <4>2 DEF FirstToAsk
      <3> QED
        BY <3>1, <3>2
    <2>6. \A c \in DOMAIN limiters' :
              limiters'[c].rate = RateLimitFor(cfg, c) /\ FirstToAsk(limiters'[c].id, c)
      BY <1>1, <2>4, <2>5 DEF IInv, LimitersMade
    <2>7. ASSUME NEW p \in 1 .. i' - 1, NEW c, Asks(p, c) PROVE c \in DOMAIN limiters'
      <3>1. CASE p = i
        BY <1>1, <2>7, <3>1 DEF Asks
      <3>2. CASE p # i
        <4>1. p \in 1 .. i - 1
          BY <1>3, <3>2
        <4> QED
          BY <1>1, <1>3, <2>7, <4>1 DEF IInv, LimitersMade
      <3> QED
        BY <3>1, <3>2
    <2>8. \A c : RateLimitFor(cfg', c) = RateLimitFor(cfg, c)
      OBVIOUS
    <2> QED
      BY <2>2, <2>3, <2>6, <2>7, <2>8 DEF LimitersMade
  <1> QED
    BY <1>1, <1>2, <1>4, <1>5, <1>6

\* A turn that makes no candidate.
LEMMA PairSkippedKeeps ==
    ASSUME IInv, AtPair, i' = i + 1, LimitersDiffer', LimitersMade',
           \A c \in DOMAIN limiters : c \in DOMAIN limiters' /\ limiters'[c] = limiters[c],
           UNCHANGED <<cfg, phase, cancelled, candidates, runners, symbols, feeds, failures, store>>
    PROVE  IInv'
  <1>1. i \in Nat /\ phase = "quoters"
    BY DEF IInv, Control, AtPair
  <1>2. Legs' = Legs
    BY SameRunners
  <1>3. (Control /\ NotYet)'
    BY <1>1, <1>2 DEF IInv, Control, NotYet
  <1>4. Configured'
    BY DEF IInv, Configured
  <1>5. CandidatesMade'
    <2>1. \A j \in 1 .. Len(candidates') :
              /\ candidates'[j].pair.dex.chain \in DOMAIN limiters'
              /\ candidates'[j].limiter = limiters'[candidates'[j].pair.dex.chain]
      BY DEF IInv, CandidatesMade
    <2>2. \A j \in 1 .. Len(candidates') :
              \E k \in 1 .. Len(Pairs)' : /\ candidates'[j].pair = Pairs'[k]
                                          /\ phase' = "quoters" => k < i'
      BY <1>1 DEF IInv, CandidatesMade, Configured, Decoded, IsSeq, Pairs
    <2> QED
      BY <2>1, <2>2 DEF IInv, CandidatesMade
  <1>6. (RunnersMade /\ Staggered)'
    BY <1>1 DEF IInv, NotYet, RunnersMade, Staggered
  <1>7. (SymbolsServe /\ FeedsWired)'
    BY <1>1 DEF IInv, SymbolsServe, FeedsWired
  <1> QED
    BY <1>3, <1>4, <1>5, <1>6, <1>7 DEF IInv

\* A turn that makes one: its pair differs from those of the earlier turns.
LEMMA ProbeAnswersKeeps == IInv /\ ProbeAnswers => IInv'
  <1> SUFFICES ASSUME IInv, ProbeAnswers PROVE IInv'
    OBVIOUS
  <1> DEFINE chain == Pairs[i].dex.chain
             n == Len(candidates)
  <1>1. PICK q \in BuildQuoter(Pairs[i].dex) :
            /\ Quotable(q)
            /\ candidates' = Append(candidates,
                    [pair |-> Pairs[i], quoter |-> q, limiter |-> LimiterFor(chain)])
    BY DEF ProbeAnswers
  <1>2. /\ AtPair /\ Pairs[i].enabled /\ UseLimiter(chain) /\ i' = i + 1
        /\ UNCHANGED <<cfg, phase, cancelled, runners, symbols, feeds, failures, store>>
    BY DEF ProbeAnswers
  <1>3. i \in 1 .. Len(Pairs) /\ phase = "quoters"
    <2>1. phase = "quoters" => i >= 1
      BY DEF IInv, Control
    <2> QED
      BY <1>2, <2>1 DEF IInv, Control, AtPair, Configured, Decoded, IsSeq, Pairs
  <1>4. /\ LimitersDiffer' /\ LimitersMade'
        /\ \A c \in DOMAIN limiters : c \in DOMAIN limiters' /\ limiters'[c] = limiters[c]
        /\ chain \in DOMAIN limiters' /\ limiters'[chain] = LimiterFor(chain)
    <2>1. Asks(i, chain)
      BY DEF ProbeAnswers, Asks
    <2> QED
      BY <1>2, <2>1, LimitersKeep
  <1>5. /\ IsSeq(candidates') /\ Len(candidates') = n + 1 /\ n \in Nat
        /\ \A k \in 1 .. n : candidates'[k] = candidates[k]
        /\ candidates'[n + 1].pair = Pairs[i]
        /\ candidates'[n + 1].quoter = q
        /\ candidates'[n + 1].limiter = LimiterFor(chain)
    BY <1>1, AppendIsSeq DEF IInv, CandidatesMade, IsSeq
  <1>6. (Control /\ NotYet)'
    BY <1>2, <1>3, SameRunners DEF IInv, Control, NotYet
  <1>7. Configured'
    BY <1>2 DEF IInv, Configured
  <1>8. CandidatesMade'
    <2>1. \A j \in 1 .. Len(candidates') :
              /\ candidates'[j].pair.dex.chain \in DOMAIN limiters'
              /\ candidates'[j].limiter = limiters'[candidates'[j].pair.dex.chain]
      BY <1>4, <1>5 DEF IInv, CandidatesMade
    <2>2. Pairs[i].venue \in Venues /\ Pairs[i].dex.venue \in DexVenues
      BY <1>2, <1>3 DEF IInv, Configured, Validate, ValidateEachPair, ValidPair, Pairs
    <2>3. \A j \in 1 .. Len(candidates') :
              /\ candidates'[j].quoter \in BuildQuoter(candidates'[j].pair.dex)
              /\ Quotable(candidates'[j].quoter)
              /\ candidates'[j].pair.venue \in Venues
              /\ candidates'[j].pair.dex.venue \in DexVenues
      BY <1>1, <1>5, <2>2 DEF IInv, CandidatesMade
    <2>4. \A j \in 1 .. n : \E k \in 1 .. Len(Pairs) : candidates[j].pair = Pairs[k] /\ k < i
      BY <1>3 DEF IInv, CandidatesMade
    <2>5. Len(Pairs) \in Nat /\ Pairs' = Pairs
      BY <1>2 DEF IInv, Configured, Decoded, IsSeq, Pairs
    <2>6. \A j \in 1 .. n + 1 : \E k \in 1 .. Len(Pairs) : candidates'[j].pair = Pairs[k] /\ k < i + 1
      <3> TAKE j \in 1 .. n + 1
      <3>1. CASE j = n + 1
        BY <1>3, <1>5, <3>1
      <3>2. CASE j # n + 1
        <4>1. j \in 1 .. n
          BY <1>5, <3>2
        <4>2. PICK k \in 1 .. Len(Pairs) : candidates[j].pair = Pairs[k] /\ k < i
          BY <2>4, <4>1
        <4>3. candidates'[j].pair = Pairs[k] /\ k < i + 1
          BY <1>3, <1>5, <2>5, <4>1, <4>2
        <4> QED
          BY <4>3
      <3> QED
        BY <3>1, <3>2
    <2>7. \A j \in 1 .. n : candidates[j].pair.symbol # Pairs[i].symbol
      <3> TAKE j \in 1 .. n
      <3>1. PICK k \in 1 .. Len(Pairs) : candidates[j].pair = Pairs[k] /\ k < i
        BY <2>4
      <3>2. SymbolsDiffer(Pairs)
        BY <1>3 DEF IInv, Configured, Validate, Pairs
      <3>3. Pairs[k].symbol # Pairs[i].symbol
        BY <1>3, <3>1, <3>2 DEF SymbolsDiffer, Pairs
      <3> QED
        BY <3>1, <3>3
    <2>8. \A j, m \in 1 .. n + 1 :
              candidates'[j].pair.symbol = candidates'[m].pair.symbol => j = m
      <3>1. \A j, m \in 1 .. n : candidates[j].pair.symbol = candidates[m].pair.symbol => j = m
        BY DEF IInv, CandidatesMade
      <3> HIDE DEF n
      <3> QED
        BY ONLY <1>5, <2>7, <3>1
    <2> QED
      BY <1>2, <1>5, <2>1, <2>3, <2>5, <2>6, <2>8 DEF CandidatesMade
  <1>9. (RunnersMade /\ Staggered)'
    <2>1. Len(runners') = 0 /\ IsSeq(runners')
      BY <1>2, <1>3 DEF IInv, NotYet, RunnersMade
    <2> QED
      BY <2>1 DEF RunnersMade, Staggered
  <1>10. (SymbolsServe /\ FeedsWired)'
    BY <1>2, <1>3 DEF IInv, SymbolsServe, FeedsWired
  <1> QED
    BY <1>4, <1>6, <1>7, <1>8, <1>9, <1>10 DEF IInv

LEMMA QuotersKeep ==
    IInv /\ (SkipDisabled \/ NoURL \/ QuoterFails \/ ProbeAnswers \/ QuotersDone) => IInv'
  <1> SUFFICES ASSUME IInv, SkipDisabled \/ NoURL \/ QuoterFails \/ ProbeAnswers \/ QuotersDone
               PROVE  IInv'
    OBVIOUS
  <1>1. CASE SkipDisabled \/ NoURL
    <2>1. /\ AtPair /\ i' = i + 1
          /\ UNCHANGED <<cfg, phase, cancelled, limiters, candidates, runners, symbols, feeds, failures, store>>
      BY <1>1 DEF SkipDisabled, NoURL
    <2>2. LimitersDiffer'
      BY <2>1 DEF IInv, Control, LimitersDiffer, Limiter
    <2>3. \A c : ~Asks(i, c)
      BY <1>1 DEF SkipDisabled, NoURL, Asks
    <2>4. LimitersMade'
      <3>1. i \in Nat /\ phase = "quoters" /\ Pairs' = Pairs
        BY <2>1 DEF IInv, Control, AtPair, Pairs
      <3>2. \A p, c : Asks(p, c)' = Asks(p, c)
        BY <2>1, <3>1 DEF Asks, Reachable
      <3>3. \A p, c : FirstToAsk(p, c)' = FirstToAsk(p, c)
        BY <3>1, <3>2 DEF FirstToAsk
      <3>4. \A p \in 1 .. i' - 1 : p = i \/ p \in 1 .. i - 1
        BY <2>1, <3>1
      <3>5. \A c : RateLimitFor(cfg', c) = RateLimitFor(cfg, c)
        BY <2>1
      <3> QED
        BY <2>1, <2>3, <3>1, <3>2, <3>3, <3>4, <3>5 DEF IInv, LimitersMade
    <2> QED
      BY <2>1, <2>2, <2>4, PairSkippedKeeps
  <1>2. CASE QuoterFails
    <2>1. Asks(i, Pairs[i].dex.chain)
      BY <1>2 DEF QuoterFails, Asks
    <2> QED
      BY <1>2, <2>1, LimitersKeep, PairSkippedKeeps DEF QuoterFails
  <1>3. CASE ProbeAnswers
    BY <1>3, ProbeAnswersKeeps
  <1>4. CASE QuotersDone
    <2>1. /\ phase = "quoters" /\ phase' = "listings" /\ i' = 1
          /\ UNCHANGED <<cfg, cancelled, limiters, candidates, runners, symbols, feeds, failures, store>>
      BY <1>4 DEF QuotersDone
    <2>2. (Control /\ NotYet)'
      BY <2>1, SameRunners DEF IInv, Control, NotYet
    <2>3. (LimitersDiffer /\ LimitersMade /\ Configured)'
      BY <2>1, LimitersStay DEF IInv, LimitersDiffer, Configured
    <2>4. CandidatesMade'
      BY <2>1 DEF IInv, CandidatesMade, Pairs
    <2>5. Len(runners') = 0 /\ IsSeq(runners')
      BY <2>1 DEF IInv, NotYet, RunnersMade
    <2>6. (RunnersMade /\ Staggered)'
      BY <2>5 DEF RunnersMade, Staggered
    <2>7. (SymbolsServe /\ FeedsWired)'
      BY <2>1 DEF IInv, SymbolsServe, FeedsWired
    <2> QED
      BY <2>2, <2>3, <2>4, <2>6, <2>7 DEF IInv
  <1> QED
    BY <1>1, <1>2, <1>3, <1>4

\* What a runner has of its candidate.
LEMMA RunnerIsCandidate ==
    ASSUME RunnersMade, CandidatesMade, NEW j \in 1 .. Len(runners)
    PROVE  /\ runners[j].pair.venue \in Venues
           /\ \E k \in 1 .. Len(Pairs) : runners[j].pair = Pairs[k]
           /\ runners[j].pair.dex.chain \in DOMAIN limiters
           /\ runners[j].limiter = limiters[runners[j].pair.dex.chain]
           /\ runners[j].quoter \in BuildQuoter(runners[j].pair.dex)
           /\ Quotable(runners[j].quoter)
           /\ runners[j].pair.dex.venue \in DexVenues
  <1>1. PICK m \in 1 .. Len(candidates) : /\ runners[j].pair = candidates[m].pair
                                          /\ runners[j].quoter = candidates[m].quoter
                                          /\ runners[j].limiter = candidates[m].limiter
    BY DEF RunnersMade
  <1>2. PICK k \in 1 .. Len(Pairs) : candidates[m].pair = Pairs[k]
    BY DEF CandidatesMade
  <1> QED
    BY <1>1, <1>2 DEF CandidatesMade

\* A candidate confirmed, with its basis or without: its runner is not there yet,
\* and what the exchange takes for it joins what is collected for its venue.
LEMMA ListedKeeps ==
    ASSUME IInv, AtCandidate, NEW basisOk \in BOOLEAN, Listed(basisOk), i' = i + 1,
           UNCHANGED <<cfg, phase, cancelled, limiters, candidates, feeds, failures, store>>
    PROVE  IInv'
  <1> DEFINE p == candidates[i].pair
             basis == IF basisOk THEN p.basis ELSE NoBasis
             n == Len(runners)
  <1>1. /\ runners' = Append(runners, [ pair |-> p, quoter |-> candidates[i].quoter, basis |-> basis,
                                        limiter |-> candidates[i].limiter, stagger |-> 0 ])
        /\ symbols' = [symbols EXCEPT ![p.venue] = @ \cup SymbolsOf(p, basis)]
    BY DEF Listed
  <1>2. i \in 1 .. Len(candidates) /\ phase = "listings"
    BY DEF IInv, Control, AtCandidate, CandidatesMade, IsSeq
  <1>3. /\ IsSeq(runners') /\ Len(runners') = n + 1 /\ n \in Nat
        /\ \A k \in 1 .. n : runners'[k] = runners[k]
        /\ runners'[n + 1].pair = p
        /\ runners'[n + 1].quoter = candidates[i].quoter
        /\ runners'[n + 1].basis = basis
        /\ runners'[n + 1].limiter = candidates[i].limiter
        /\ runners'[n + 1].stagger = 0
    BY <1>1, AppendIsSeq DEF IInv, RunnersMade, IsSeq
  <1>4. p.venue \in Venues
    BY <1>2 DEF IInv, CandidatesMade
  <1>5. (Control /\ NotYet)'
    <2>1. Legs' \in Nat
      <3>1. Cardinality({j \in 1 .. Len(runners') : runners'[j].basis # NoBasis}) \in Nat
        <4>1. Len(runners') \in Nat
          BY <1>3
        <4> QED
          BY <4>1, CountType
      <3> QED
        BY <1>3, <3>1 DEF Legs
    <2> QED
      BY <1>2, <2>1 DEF IInv, Control, NotYet
  <1>6. (Configured /\ LimitersDiffer /\ LimitersMade /\ CandidatesMade)'
    BY <1>2, LimitersStay DEF IInv, Configured, LimitersDiffer, CandidatesMade, Pairs
  <1>7. RunnersMade'
    <2>1. \A j \in 1 .. n + 1 : \E k \in 1 .. Len(candidates) :
              /\ runners'[j].pair = candidates[k].pair
              /\ runners'[j].quoter = candidates[k].quoter
              /\ runners'[j].limiter = candidates[k].limiter
              /\ k < i + 1
      <3> TAKE j \in 1 .. n + 1
      <3>1. CASE j = n + 1
        BY <1>2, <1>3, <3>1
      <3>2. CASE j # n + 1
        <4>1. j \in 1 .. n
          BY <1>3, <3>2
        <4>2. PICK k \in 1 .. Len(candidates) :
                  /\ runners[j].pair = candidates[k].pair
                  /\ runners[j].quoter = candidates[k].quoter
                  /\ runners[j].limiter = candidates[k].limiter
                  /\ k < i
          BY <1>2, <4>1 DEF IInv, RunnersMade
        <4>3. runners'[j] = runners[j] /\ k < i + 1
          BY <1>2, <1>3, <4>1, <4>2
        <4> QED
          BY <4>2, <4>3
      <3> QED
        BY <3>1, <3>2
    <2>2. \A j \in 1 .. n : runners[j].pair.symbol # p.symbol
      <3> TAKE j \in 1 .. n
      <3>1. PICK k \in 1 .. Len(candidates) : runners[j].pair = candidates[k].pair /\ k < i
        BY <1>2 DEF IInv, RunnersMade
      <3> QED
        BY <1>2, <3>1 DEF IInv, CandidatesMade
    <2>3. \A j, m \in 1 .. n + 1 : runners'[j].pair.symbol = runners'[m].pair.symbol => j = m
      <3>1. \A j, m \in 1 .. n : runners[j].pair.symbol = runners[m].pair.symbol => j = m
        BY DEF IInv, RunnersMade
      <3> HIDE DEF p, n
      <3> QED
        BY ONLY <1>3, <2>2, <3>1
    <2> QED
      BY <1>2, <1>3, <2>1, <2>3 DEF RunnersMade
  <1>8. SymbolsServe'
    <2>1. /\ DOMAIN symbols' = Venues
          /\ \A v \in Venues :
                symbols'[v] = IF v = p.venue THEN symbols[v] \cup SymbolsOf(p, basis) ELSE symbols[v]
      BY <1>1, <1>4 DEF IInv, SymbolsServe
    <2>2. \A j \in 1 .. n : runners[j].pair.venue \in Venues
      BY RunnerIsCandidate DEF IInv
    <2>3. \A j \in 1 .. n + 1 :
              SymbolsOf(runners'[j].pair, runners'[j].basis) \subseteq symbols'[runners'[j].pair.venue]
      BY <1>3, <1>4, <2>1, <2>2 DEF IInv, SymbolsServe
    <2>4. ASSUME NEW v \in Venues, NEW s \in symbols'[v]
          PROVE  \E j \in 1 .. n + 1 : /\ runners'[j].pair.venue = v
                                       /\ s \in SymbolsOf(runners'[j].pair, runners'[j].basis)
      <3>1. CASE s \in symbols[v]
        <4>1. PICK j \in 1 .. n : /\ runners[j].pair.venue = v
                                  /\ s \in SymbolsOf(runners[j].pair, runners[j].basis)
          BY <3>1 DEF IInv, SymbolsServe
        <4> QED
          BY <1>3, <4>1
      <3>2. CASE s \notin symbols[v]
        BY <1>3, <2>1, <3>2
      <3> QED
        BY <3>1, <3>2
    <2> QED
      BY <1>3, <2>1, <2>3, <2>4 DEF SymbolsServe
  <1>9. (FeedsWired /\ Staggered)'
    <2>1. "stagger" \in DOMAIN runners'[n + 1]
      BY <1>1, <1>3, AppendIsSeq DEF IInv, RunnersMade
    <2>2. \A j \in 1 .. n : "stagger" \in DOMAIN runners[j] /\ runners[j].stagger = 0
      BY <1>2 DEF IInv, Staggered
    <2>3. Staggered'
      BY <1>2, <1>3, <2>1, <2>2 DEF Staggered
    <2>4. FeedsWired'
      BY <1>2 DEF IInv, FeedsWired
    <2> QED
      BY <2>3, <2>4
  <1> QED
    BY <1>5, <1>6, <1>7, <1>8, <1>9 DEF IInv

LEMMA ListingsKeep ==
    IInv /\ (NotListed \/ Confirmed \/ BasisNotConfirmed \/ NoUsablePair) => IInv'
  <1> SUFFICES ASSUME IInv, NotListed \/ Confirmed \/ BasisNotConfirmed \/ NoUsablePair
               PROVE  IInv'
    OBVIOUS
  <1>1. CASE Confirmed
    BY <1>1, ListedKeeps DEF Confirmed
  <1>2. CASE BasisNotConfirmed
    BY <1>2, ListedKeeps DEF BasisNotConfirmed
  <1>3. CASE NotListed \/ NoUsablePair
    <2>1. /\ phase = "listings" /\ phase' \in {"listings", "failed"}
          /\ i' \in {i, i + 1}
          /\ UNCHANGED <<cfg, cancelled, limiters, candidates, runners, symbols, feeds, failures, store>>
      BY <1>3 DEF NotListed, NoUsablePair, AtCandidate
    <2>2. (Control /\ NotYet)'
      BY <2>1, SameRunners DEF IInv, Control, NotYet
    <2>3. (Configured /\ LimitersDiffer /\ LimitersMade /\ CandidatesMade)'
      BY <2>1, LimitersStay DEF IInv, Configured, LimitersDiffer, CandidatesMade, Pairs
    <2>4. RunnersMade'
      <3>1. i \in Nat /\ Len(candidates) \in Nat
        BY DEF IInv, Control, CandidatesMade, IsSeq
      <3>2. \A j \in 1 .. Len(runners) : \E k \in 1 .. Len(candidates) :
                /\ runners[j].pair = candidates[k].pair
                /\ runners[j].quoter = candidates[k].quoter
                /\ runners[j].limiter = candidates[k].limiter
                /\ k < i'
        <4> TAKE j \in 1 .. Len(runners)
        <4>1. PICK k \in 1 .. Len(candidates) :
                  /\ runners[j].pair = candidates[k].pair
                  /\ runners[j].quoter = candidates[k].quoter
                  /\ runners[j].limiter = candidates[k].limiter
                  /\ k < i
          BY <2>1 DEF IInv, RunnersMade
        <4>2. k < i'
          BY <2>1, <3>1, <4>1
        <4> QED
          BY <4>1, <4>2
      <3> QED
        BY <2>1, <3>2 DEF IInv, RunnersMade
    <2>5. (SymbolsServe /\ FeedsWired /\ Staggered)'
      BY <2>1 DEF IInv, SymbolsServe, FeedsWired, Staggered
    <2> QED
      BY <2>2, <2>3, <2>4, <2>5 DEF IInv
  <1> QED
    BY <1>1, <1>2, <1>3

\* engine.New changes nothing of a runner but its stagger.
LEMMA OpenStoreKeeps == IInv /\ OpenStore => IInv'
  <1> SUFFICES ASSUME IInv, OpenStore PROVE IInv'
    OBVIOUS
  <1> DEFINE n == Len(runners)
  <1>1. /\ phase = "store" /\ phase' = "running" /\ store' = "open"
        /\ runners' = [j \in 1 .. n |-> [runners[j] EXCEPT !.stagger = StaggerOf(j)]]
        /\ UNCHANGED <<cfg, i, cancelled, limiters, candidates, symbols, feeds, failures>>
    BY DEF OpenStore
  <1>2. /\ n \in Nat /\ IsSeq(runners') /\ Len(runners') = n
    BY <1>1, TupleIsSeq DEF IInv, RunnersMade, IsSeq
  <1>3. \A j \in 1 .. n : /\ runners'[j].pair = runners[j].pair
                          /\ runners'[j].quoter = runners[j].quoter
                          /\ runners'[j].basis = runners[j].basis
                          /\ runners'[j].limiter = runners[j].limiter
                          /\ runners'[j].stagger = StaggerOf(j)
    <2> TAKE j \in 1 .. n
    <2>1. runners'[j] = [runners[j] EXCEPT !.stagger = StaggerOf(j)]
      BY <1>1
    <2>2. "stagger" \in DOMAIN runners[j]
      BY DEF IInv, Staggered
    <2> QED
      BY <2>1, <2>2
  <1>4. /\ VenuesInUse' = VenuesInUse /\ Legs' = Legs
        /\ \A j \in 1 .. n : StaggerOf(j)' = StaggerOf(j)
    <2>1. VenuesInUse' = VenuesInUse
      BY <1>2, <1>3 DEF VenuesInUse
    <2>2. {j \in 1 .. Len(runners') : runners'[j].basis # NoBasis}
              = {j \in 1 .. Len(runners) : runners[j].basis # NoBasis}
      BY <1>2, <1>3
    <2>3. Legs' = Legs
      BY <1>2, <2>2 DEF Legs
    <2>4. ASSUME NEW j \in 1 .. n PROVE StaggerOf(j)' = StaggerOf(j)
      <3>1. OnChain(j)' = OnChain(j)
        BY <1>2, <1>3 DEF OnChain
      <3>2. IntervalOf(j)' = IntervalOf(j)
        BY <1>1, <1>3 DEF IntervalOf
      <3> QED
        BY <3>1, <3>2 DEF StaggerOf
    <2> QED
      BY <2>1, <2>3, <2>4
  <1>5. (Control /\ NotYet)'
    BY <1>1, <1>4 DEF IInv, Control, NotYet
  <1>6. (Configured /\ LimitersDiffer /\ LimitersMade /\ CandidatesMade)'
    BY <1>1, LimitersStay DEF IInv, Configured, LimitersDiffer, CandidatesMade, Pairs
  <1>7. RunnersMade'
    <2>1. \A j \in 1 .. n : \E k \in 1 .. Len(candidates') :
              /\ runners'[j].pair = candidates'[k].pair
              /\ runners'[j].quoter = candidates'[k].quoter
              /\ runners'[j].limiter = candidates'[k].limiter
              /\ phase' = "listings" => k < i'
      <3> TAKE j \in 1 .. n
      <3>1. PICK k \in 1 .. Len(candidates) : /\ runners[j].pair = candidates[k].pair
                                              /\ runners[j].quoter = candidates[k].quoter
                                              /\ runners[j].limiter = candidates[k].limiter
        BY DEF IInv, RunnersMade
      <3>2. candidates' = candidates /\ phase' # "listings"
        BY <1>1
      <3>3. \E m \in 1 .. Len(candidates) : /\ runners'[j].pair = candidates[m].pair
                                           /\ runners'[j].quoter = candidates[m].quoter
                                           /\ runners'[j].limiter = candidates[m].limiter
        BY <1>3, <3>1
      <3> QED
        BY <3>2, <3>3
    <2>2. \A j, m \in 1 .. n : runners'[j].pair.symbol = runners'[m].pair.symbol => j = m
      BY <1>3 DEF IInv, RunnersMade
    <2> QED
      BY <1>2, <2>1, <2>2 DEF RunnersMade
  <1>8. SymbolsServe'
    <2>1. \A j \in 1 .. n : SymbolsOf(runners'[j].pair, runners'[j].basis)
                                \subseteq symbols[runners'[j].pair.venue]
      BY <1>3 DEF IInv, SymbolsServe
    <2>2. \A v \in Venues : \A s \in symbols[v] : \E j \in 1 .. n :
              /\ runners'[j].pair.venue = v
              /\ s \in SymbolsOf(runners'[j].pair, runners'[j].basis)
      BY <1>3 DEF IInv, SymbolsServe
    <2> QED
      BY <1>1, <1>2, <2>1, <2>2 DEF IInv, SymbolsServe
  <1>9. FeedsWired'
    BY <1>1, <1>4 DEF IInv, FeedsWired
  <1>10. Staggered'
    <2>1. \A j \in 1 .. n : "stagger" \in DOMAIN runners'[j]
      BY <1>1 DEF IInv, Staggered
    <2> QED
      BY <1>1, <1>2, <1>3, <1>4, <2>1 DEF Staggered
  <1> QED
    BY <1>5, <1>6, <1>7, <1>8, <1>9, <1>10 DEF IInv

LEMMA WiringKeeps ==
    IInv /\ (WireFeeds \/ (\E failed \in 0 .. Legs : SelfTest(failed)) \/ OpenFails \/ Stopped
             \/ Cancel)
        => IInv'
  <1> SUFFICES ASSUME IInv,
                      WireFeeds \/ (\E failed \in 0 .. Legs : SelfTest(failed)) \/ OpenFails
                      \/ Stopped \/ Cancel
               PROVE  IInv'
    OBVIOUS
  <1>1. UNCHANGED <<cfg, i, limiters, candidates, runners, symbols>>
    BY DEF WireFeeds, SelfTest, OpenFails, Stopped, Cancel
  <1>2. /\ phase' # "load"
        /\ phase' = "quoters" => phase = "quoters"
        /\ phase' = "listings" => phase = "listings"
    BY DEF WireFeeds, SelfTest, OpenFails, Stopped, Cancel, IInv, Control
  <1>3. (Control /\ NotYet)'
    <2>1. failures' \in 0 .. Legs'
      BY <1>1, SameRunners DEF WireFeeds, SelfTest, OpenFails, Stopped, Cancel, IInv, Control
    <2> QED
      BY <1>1, <1>2, <2>1
         DEF WireFeeds, SelfTest, OpenFails, Stopped, Cancel, IInv, Control, NotYet
  <1>4. Configured'
    BY <1>1 DEF WireFeeds, SelfTest, OpenFails, Stopped, Cancel, IInv, Configured, Control
  <1>5. LimitersDiffer' /\ LimitersMade' /\ CandidatesMade' /\ RunnersMade'
    <2>1. phase' = "quoters" => UNCHANGED <<phase, i>>
      BY <1>1, <1>2
    <2> QED
      BY <1>1, <1>2, <2>1, LimitersStay
         DEF IInv, LimitersDiffer, CandidatesMade, RunnersMade, Pairs
  <1>6. SymbolsServe'
    BY <1>1 DEF IInv, SymbolsServe
  <1>7. VenuesInUse \subseteq Venues
    BY RunnerIsCandidate DEF IInv, VenuesInUse
  <1>8. FeedsWired'
    BY <1>1, <1>7, SameRunners
       DEF WireFeeds, SelfTest, OpenFails, Stopped, Cancel, IInv, FeedsWired
  <1>9. Staggered'
    BY <1>1, SameRunners DEF WireFeeds, SelfTest, OpenFails, Stopped, Cancel, IInv, Staggered
  <1> QED
    BY <1>3, <1>4, <1>5, <1>6, <1>8, <1>9 DEF IInv

LEMMA NextKeeps == IInv /\ [Next]_startVars => IInv'
  <1>1. IInv /\ Next => IInv'
    BY LoadingKeeps, QuotersKeep, ListingsKeep, OpenStoreKeeps, WiringKeeps DEF Next
  <1>2. IInv /\ UNCHANGED startVars => IInv'
    <2> SUFFICES ASSUME IInv, UNCHANGED startVars PROVE IInv'
      OBVIOUS
    <2>1. (Control /\ NotYet)'
      BY SameRunners DEF startVars, IInv, Control, NotYet
    <2>2. (Configured /\ LimitersDiffer /\ LimitersMade)'
      BY LimitersStay DEF startVars, IInv, Configured, LimitersDiffer
    <2>3. CandidatesMade'
      BY DEF startVars, IInv, CandidatesMade, Pairs
    <2>4. RunnersMade'
      BY DEF startVars, IInv, RunnersMade
    <2>5. SymbolsServe'
      BY DEF startVars, IInv, SymbolsServe
    <2>6. FeedsWired'
      BY SameRunners DEF startVars, IInv, FeedsWired
    <2>7. Staggered'
      BY SameRunners DEF startVars, IInv, Staggered
    <2> QED
      BY <2>1, <2>2, <2>3, <2>4, <2>5, <2>6, <2>7 DEF IInv
  <1> QED
    BY <1>1, <1>2

LEMMA SpecIInv == Spec => []IInv
  BY InitIInv, NextKeeps, PTL DEF Spec

(***************************************************************************)
(* Staggers.                                                               *)
(***************************************************************************)
LEMMA DivIs ==
    ASSUME NEW x \in Int, NEW n \in Nat \ {0}
    PROVE  x \div n \in Int /\ n * (x \div n) <= x /\ x < n * (x \div n) + n
  OBVIOUS

LEMMA DivBelow ==
    ASSUME NEW n \in Nat \ {0}, NEW k \in Nat, k < n, NEW p \in Nat \ {0}
    PROVE  (k * p) \div n \in 0 .. p - 1
  <1> DEFINE q == (k * p) \div n
  <1>1. k * p \in Int /\ q \in Int /\ n * q <= k * p /\ k * p < n * q + n
    BY DivIs
  <1>2. 0 <= k * p /\ k * p < n * p
    OBVIOUS
  <1> HIDE DEF q
  <1>3. q >= 0
    BY <1>1, <1>2
  <1>4. q < p
    BY <1>1, <1>2
  <1> QED
    BY <1>1, <1>3, <1>4 DEF q

LEMMA DivApart ==
    ASSUME NEW n \in Nat \ {0}, NEW k \in Nat, NEW m \in Nat, k < m, NEW p \in Int, n <= p
    PROVE  (k * p) \div n < (m * p) \div n
  <1> DEFINE q == (k * p) \div n
             r == (m * p) \div n
  <1>1. /\ k * p \in Int /\ q \in Int /\ n * q <= k * p /\ k * p < n * q + n
        /\ m * p \in Int /\ r \in Int /\ n * r <= m * p /\ m * p < n * r + n
    BY DivIs
  <1>2. k * p + p <= m * p
    OBVIOUS
  <1> HIDE DEF q, r
  <1>3. n * q < n * r 
    BY <1>1, <1>2
  <1>4. q < r 
    BY <1>1, <1>3
  <1> QED
    BY <1>4 DEF q, r

\* A runner is on its chain, so fewer than all that are come before it.
LEMMA TurnOnChain ==
    ASSUME IsSeq(runners), NEW j \in 1 .. Len(runners)
    PROVE  LET n == Cardinality(OnChain(j))
               before == Cardinality({m \in OnChain(j) : m < j})
           IN  n \in Nat \ {0} /\ before \in Nat /\ before < n
  <1> DEFINE B == {m \in OnChain(j) : m < j}
  <1>1. Len(runners) \in Nat /\ j \in OnChain(j) /\ j \notin B
    BY DEF IsSeq, OnChain
  <1>2. /\ IsFiniteSet(OnChain(j)) /\ Cardinality(OnChain(j)) \in Nat
        /\ IsFiniteSet(B) /\ Cardinality(B) \in Nat
    <2>1. OnChain(j) \in SUBSET (1 .. Len(runners)) /\ B \in SUBSET (1 .. Len(runners))
      BY DEF OnChain
    <2> QED
      BY <1>1, <2>1, CountType
  <1>3. /\ Cardinality(B) <= Cardinality(OnChain(j))
        /\ Cardinality(B) # Cardinality(OnChain(j))
    BY <1>1, <1>2, FS_Subset
  <1> QED
    BY <1>2, <1>3

LEMMA IntervalType ==
    ASSUME IInv, NEW j \in 1 .. Len(runners)
    PROVE  IntervalOf(j) \in Int
  <1>1. PICK k \in 1 .. Len(Pairs) : runners[j].pair = Pairs[k]
    BY RunnerIsCandidate DEF IInv
  <1>2. Pairs[k].interval \in Int /\ cfg.every["poll_interval"] \in Int
    BY SettingsAssumption DEF IInv, Configured, Decoded, Pairs
  <1> QED
    BY <1>1, <1>2 DEF IntervalOf, EffectiveInterval

LEMMA StaggerType ==
    ASSUME IInv, NEW j \in 1 .. Len(runners)
    PROVE  StaggerOf(j) \in Int /\ (IntervalOf(j) > 0 => StaggerOf(j) \in 0 .. IntervalOf(j) - 1)
  <1> DEFINE n == Cardinality(OnChain(j))
             k == Cardinality({m \in OnChain(j) : m < j})
             p == IntervalOf(j)
  <1>1. n \in Nat \ {0} /\ k \in Nat /\ k < n
    BY TurnOnChain DEF IInv, RunnersMade
  <1>2. p \in Int
    BY IntervalType
  <1>3. StaggerOf(j) = (k * p) \div n
    BY DEF StaggerOf
  <1> HIDE DEF n, k, p
  <1>4. k * p \in Int
    BY <1>1, <1>2
  <1>5. (k * p) \div n \in Int
    BY <1>1, <1>4, DivIs
  <1>6. ASSUME p > 0 PROVE (k * p) \div n \in 0 .. p - 1
    <2>1. p \in Nat \ {0}
      BY <1>2, <1>6
    <2> QED
      BY <1>1, <2>1, DivBelow
  <1> QED
    BY <1>3, <1>5, <1>6 DEF p

(***************************************************************************)
(* Theorems.                                                               *)
(***************************************************************************)
\* Every variable of the start keeps its type, and a stagger is less than the
\* interval it is a part of (main.go:27-200, engine.go:108-128).
THEOREM StartupTypes == Spec => []TypeOK
  <1>1. IInv => TypeOK
    <2> SUFFICES ASSUME IInv PROVE TypeOK
      OBVIOUS
    <2>1. \A j \in 1 .. Len(candidates) : candidates[j].limiter \in Limiter
      BY DEF IInv, CandidatesMade, LimitersDiffer
    <2>2. \A j \in 1 .. Len(runners) : runners[j].limiter \in Limiter
      BY <2>1 DEF IInv, RunnersMade
    <2>3. \A j \in 1 .. Len(runners) :
              /\ runners[j].stagger \in Int
              /\ IntervalOf(j) > 0 => runners[j].stagger \in 0 .. IntervalOf(j) - 1
      <3> TAKE j \in 1 .. Len(runners)
      <3>1. runners[j].stagger = StaggerOf(j) \/ runners[j].stagger = 0
        BY DEF IInv, Staggered
      <3>2. IntervalOf(j) \in Int
        BY IntervalType
      <3> QED
        BY <3>1, <3>2, StaggerType
    <2> QED
      BY <2>1, <2>2, <2>3 DEF IInv, Control, LimitersDiffer, FeedsWired, TypeOK
  <1> QED
    BY <1>1, SpecIInv, PTL

\* In every order of failures and confirmations the feeds carry what the running
\* pairs need and nothing else (main.go:108-173).
THEOREM StartupFeedsServe == Spec => []FeedsServeRunners
  <1>1. IInv => FeedsServeRunners
    <2> SUFFICES ASSUME IInv, Running PROVE FeedsServeRunners
      BY DEF FeedsServeRunners
    <2>1. feeds = [v \in VenuesInUse |-> symbols[v]]
      BY DEF IInv, FeedsWired, Running
    <2>2. ASSUME NEW j \in 1 .. Len(runners)
          PROVE  /\ runners[j].pair.cexSymbol \in feeds[runners[j].pair.venue]
                 /\ runners[j].basis # NoBasis
                        => runners[j].basis \in feeds[runners[j].pair.venue]
      <3>1. feeds[runners[j].pair.venue] = symbols[runners[j].pair.venue]
        BY <2>1 DEF VenuesInUse
      <3> QED
        BY <3>1 DEF IInv, SymbolsServe, SymbolsOf
    <2>3. ASSUME NEW v \in DOMAIN feeds, NEW s \in feeds[v]
          PROVE  \E j \in 1 .. Len(runners) :
                     runners[j].pair.venue = v /\ s \in {runners[j].pair.cexSymbol, runners[j].basis}
      <3>1. v \in Venues /\ s \in symbols[v]
        BY <2>1 DEF IInv, FeedsWired
      <3> QED
        BY <3>1 DEF IInv, SymbolsServe, SymbolsOf
    <2> QED
      BY <2>2, <2>3 DEF FeedsServeRunners
  <1> QED
    BY <1>1, SpecIInv, PTL

\* However many pairs a chain has and whichever of them were skipped, its
\* runners hold one limiter, made at the chain's rate for the first of its pairs
\* that asked, and no runner of another chain holds it (main.go:51-76, 85-106,
\* 312-316).
THEOREM StartupOneLimiter == Spec => []OneLimiterPerChain
  <1>1. IInv => OneLimiterPerChain
    <2> SUFFICES ASSUME IInv PROVE OneLimiterPerChain
      OBVIOUS
    <2>1. \A j \in 1 .. Len(runners) :
              /\ runners[j].pair.dex.chain \in DOMAIN limiters
              /\ runners[j].limiter = limiters[runners[j].pair.dex.chain]
      BY RunnerIsCandidate DEF IInv
    <2> QED
      BY <2>1 DEF IInv, LimitersDiffer, LimitersMade, OneLimiterPerChain
  <1> QED
    BY <1>1, SpecIInv, PTL

\* No file that validate accepts, without a negative setting, stops the program
\* once it runs (main.go:97, 151-173; engine.go:150, 188; config.go:196-287).
THEOREM StartupAcceptedRun == Spec => []AcceptedConfigsRun
  <1>1. IInv => AcceptedConfigsRun
    <2> SUFFICES ASSUME IInv PROVE AcceptedConfigsRun
      OBVIOUS
    <2>1. AtPair /\ Pairs[i].enabled => Pairs[i].sizes # <<>>
      BY DEF IInv, Control, AtPair, Configured, Decoded, IsSeq, Pairs, Validate, ValidateEachPair, ValidPair
    <2>2. ASSUME Running, Unsigned
          PROVE  /\ \A name \in DOMAIN cfg.every : cfg.every[name] > 0
                 /\ \A j \in 1 .. Len(runners) :
                       /\ IntervalOf(j) > 0
                       /\ runners[j].pair.venue \in DOMAIN feeds
                       /\ \A m \in 1 .. Len(runners) :
                             runners[j].pair.symbol = runners[m].pair.symbol => j = m
      <3>1. \A name \in DOMAIN cfg.every : cfg.every[name] > 0
        BY <2>2 DEF Running, Unsigned, IInv, Configured, Decoded
      <3>2. cfg.every["poll_interval"] > 0
        BY <3>1, SettingsAssumption DEF IInv, Configured, Decoded
      <3>3. ASSUME NEW j \in 1 .. Len(runners) PROVE IntervalOf(j) > 0
        BY <3>2 DEF IntervalOf, EffectiveInterval
      <3>4. \A j \in 1 .. Len(runners) : runners[j].pair.venue \in DOMAIN feeds
        BY <2>2 DEF Running, IInv, FeedsWired, VenuesInUse
      <3> QED
        BY <3>1, <3>3, <3>4 DEF IInv, RunnersMade
    <2> QED
      BY <2>1, <2>2 DEF AcceptedConfigsRun
  <1> QED
    BY <1>1, SpecIInv, PTL

\* With an interval of as many units of time as its chain has runners, so that
\* rounding down keeps the turns apart, two runners of a chain that have the same
\* interval never begin a pass together (engine.go:108-128).  The unit is the
\* nanosecond.
RoomForTurns == \A j \in 1 .. Len(runners) : IntervalOf(j) >= Cardinality(OnChain(j))

THEOREM StartupBurstsApart == Spec => [](RoomForTurns => BurstsApart)
  <1>1. IInv /\ RoomForTurns => BurstsApart
    <2> SUFFICES ASSUME IInv, RoomForTurns, Running,
                        NEW j \in 1 .. Len(runners), NEW m \in 1 .. Len(runners), j < m,
                        runners[j].pair.dex.chain = runners[m].pair.dex.chain,
                        IntervalOf(j) = IntervalOf(m),
                        NEW a \in 0 .. Len(Pairs), NEW b \in 0 .. Len(Pairs)
                 PROVE  runners[j].stagger + a * IntervalOf(j) # runners[m].stagger + b * IntervalOf(m)
      BY DEF BurstsApart
    <2> DEFINE n == Cardinality(OnChain(j))
               k == Cardinality({l \in OnChain(j) : l < j})
               h == Cardinality({l \in OnChain(m) : l < m})
               p == IntervalOf(j)
               s == runners[j].stagger
               t == runners[m].stagger
    <2>1. OnChain(m) = OnChain(j)
      BY DEF OnChain
    <2>2. n \in Nat \ {0} /\ k \in Nat /\ h \in Nat
      BY <2>1, TurnOnChain DEF IInv, RunnersMade
    <2>3. k < h
      <3> DEFINE K == {l \in OnChain(j) : l < j}
                 H == {l \in OnChain(m) : l < m}
      <3>1. K \subseteq H /\ j \in H /\ j \notin K
        BY <2>1 DEF OnChain
      <3>2. H \in SUBSET (1 .. Len(runners)) /\ Len(runners) \in Nat
        BY DEF OnChain, IInv, RunnersMade, IsSeq
      <3>3. IsFiniteSet(H)
        BY <3>2, CountType
      <3>4. Cardinality(K) <= Cardinality(H) /\ Cardinality(K) # Cardinality(H)
        BY <3>1, <3>3, FS_Subset
      <3> QED
        BY <2>2, <3>4
    <2>4. p \in Int /\ n <= p /\ p > 0
      <3>1. p \in Int
        BY IntervalType
      <3>2. p >= n
        BY DEF RoomForTurns
      <3> QED
        BY <2>2, <3>1, <3>2
    <2>5. s = (k * p) \div n /\ t = (h * p) \div n
      <3>1. s = StaggerOf(j) /\ t = StaggerOf(m)
        BY DEF IInv, Staggered, Running
      <3> QED
        BY <2>1, <3>1 DEF StaggerOf
    <2>6. s \in 0 .. p - 1 /\ t \in 0 .. p - 1
      <3>1. s = StaggerOf(j) /\ t = StaggerOf(m)
        BY DEF IInv, Staggered, Running
      <3> QED
        BY <2>4, <3>1, StaggerType
    <2> HIDE DEF n, k, h, p, s, t
    <2>7. s < t
      BY <2>2, <2>3, <2>4, <2>5, DivApart
    <2>8. s + a * p # t + b * p
      <3> DEFINE x == a * p
                 y == b * p
      <3>1. a \in Int /\ b \in Int /\ x \in Int /\ y \in Int
        BY <2>4
      <3>2. CASE a <= b
        <4>1. x <= y
          BY <2>4, <3>1, <3>2
        <4> HIDE DEF x, y
        <4>2. s + x # t + y
          BY <2>4, <2>6, <2>7, <3>1, <4>1
        <4> QED
          BY <4>2 DEF x, y
      <3>3. CASE a >= b + 1
        <4>1. x >= y + p
          BY <2>4, <3>1, <3>3
        <4> HIDE DEF x, y
        <4>2. s + x # t + y
          BY <2>4, <2>6, <3>1, <4>1
        <4> QED
          BY <4>2 DEF x, y
      <3> QED
        BY <3>1, <3>2, <3>3
    <2> QED
      BY <2>8 DEF s, t, p
  <1> QED
    BY <1>1, SpecIInv, PTL

\* Every runner has a quoter of its pair's own configuration, which asks for the
\* price of that market both ways, if the configuration says nothing false of the
\* tokens and the fee tiers fit (main.go:85-106; the venues as above).
StartedTruthful == \A j \in 1 .. Len(runners) : Truthful(runners[j].pair.dex)

THEOREM StartupQuotesMarket == Spec => [](StartedTruthful => QuotesTheMarket)
  <1>1. IInv /\ StartedTruthful => QuotesTheMarket
    <2> SUFFICES ASSUME IInv, StartedTruthful, NEW j \in 1 .. Len(runners)
                 PROVE  MarketQuoted(runners[j].quoter, runners[j].pair.dex)
      BY DEF QuotesTheMarket
    <2>1. /\ runners[j].quoter \in BuildQuoter(runners[j].pair.dex)
          /\ Quotable(runners[j].quoter)
          /\ runners[j].pair.dex.venue \in DexVenues
      BY RunnerIsCandidate DEF IInv
    <2>2. PICK k \in 1 .. Len(Pairs) : runners[j].pair = Pairs[k]
      BY RunnerIsCandidate DEF IInv
    <2>3. runners[j].pair.dex \in DexConfig
      BY <2>2 DEF IInv, Configured, Decoded, Pairs
    <2>4. Truthful(runners[j].pair.dex)
      BY DEF StartedTruthful
    <2> QED
      BY <2>1, <2>3, <2>4, BuiltQuotersQuoteTheirMarket
  <1> QED
    BY <1>1, SpecIInv, PTL
=============================================================================
