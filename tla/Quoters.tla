-------------------------------- MODULE Quoters --------------------------------
(***************************************************************************)
(* internal/dex: which pools, in which direction, a configured quoter asks *)
(* for a price.  A quote is the sequence of swaps the chain simulates for  *)
(* it, with the decimals its amounts are scaled by; how much comes out is  *)
(* left to the chain, and so is a call that fails.                         *)
(*                                                                         *)
(* A constructor is the set of the quoters it returns: none if it refuses. *)
(***************************************************************************)
EXTENDS Integers, Sequences, SequencesExt

CONSTANTS Deployed,      \* pools on the chains: [addr, kind, first, second, fee, listed]
          DecimalsOf     \* by token: what its contract answers

\* An address has one contract behind it, a pool two tokens, and a factory one
\* pair for two tokens.
ASSUME QuotersAssumption ==
    /\ \A p, q \in Deployed : p.addr = q.addr /\ p.kind = q.kind => p = q
    /\ \A p \in Deployed : p.first # p.second
    /\ \A p, q \in Deployed :
          /\ p.kind = "uniswap_v2" /\ p.listed
          /\ q.kind = "uniswap_v2" /\ q.listed
          /\ {p.first, p.second} = {q.first, q.second}
          => p = q

FeeRange == 16777216     \* 2^24: fees are packed into three bytes

Tokens == DOMAIN DecimalsOf
None == "none"           \* an empty address, or no pool

Holds(pool, a, b) == {pool.first, pool.second} = {a, b}
At(addr, kind) == {pool \in Deployed : pool.addr = addr /\ pool.kind = kind}

\* The factory's pair for two tokens, and the pool of a fee tier.
PairsOf(a, b) == {p \in Deployed : p.kind = "uniswap_v2" /\ p.listed /\ Holds(p, a, b)}
PoolsOf(a, b, fee) == {p \in Deployed : p.kind = "uniswap_v3" /\ p.fee = fee /\ Holds(p, a, b)}

(***************************************************************************)
(* Construction.                                                           *)
(***************************************************************************)
\* What is configured is taken as it is, only what is asked for is checked.
Resolved(token) ==
    IF token.decimals > 0 THEN token.decimals ELSE DecimalsOf[token.address]
Plausible(token) == token.decimals > 0 \/ DecimalsOf[token.address] \in 0 .. 36

\* The part all quoters share; addresses that do not parse are not tokens.
Market(d) == [ venue |-> d.venue, base |-> d.base.address, quote |-> d.quote.address,
               baseDec |-> Resolved(d.base), quoteDec |-> Resolved(d.quote),
               route |-> d.route, fee |-> d.fee, pool |-> d.pool, flag |-> FALSE ]

RouteParses(d) == \A k \in 1 .. Len(d.route) : d.route[k].token \in Tokens

\* The pool of the last swap is the one the factory knows: a configured one
\* must be the same.  The flag is baseIsToken0.
NewUniswapV2(d) ==
    LET pairedWith == IF d.route = <<>> THEN d.quote.address ELSE Last(d.route).token
        genuine == {p \in PairsOf(d.base.address, pairedWith) : d.pool \in {None, p.addr}}
    IN  {[Market(d) EXCEPT !.pool = p.addr, !.flag = (p.first = d.base.address)] :
            p \in {p \in genuine : RouteParses(d)}}

NewUniswapV3(d) ==
    IF d.fee # 0 /\ RouteParses(d) /\ \A k \in 1 .. Len(d.route) : d.route[k].fee # 0
    THEN {Market(d)} ELSE {}

\* The flag is baseIsY.
HoldsMarket(d, p) == Holds(p, d.base.address, d.quote.address)
NewLFJ(d) ==
    {[Market(d) EXCEPT !.flag = (p.second = d.base.address)] :
        p \in {p \in At(d.pool, "lfj") : HoldsMarket(d, p)}}

NewVelodrome(d) == {Market(d) : p \in {p \in At(d.pool, "velodrome") : HoldsMarket(d, p)}}

\* Nothing is asked of the chain: the configured decimals are needed.
NewJupiter(d) ==
    IF d.base.decimals > 0 /\ d.quote.decimals > 0 /\ None \notin {d.base.address, d.quote.address}
    THEN {Market(d)} ELSE {}

BuildQuoter(d) ==
    IF d.venue = "jupiter" THEN NewJupiter(d)
    ELSE IF {d.base.address, d.quote.address} \subseteq Tokens
            /\ Plausible(d.base) /\ Plausible(d.quote)
    THEN CASE d.venue = "uniswap_v2" -> NewUniswapV2(d)
           [] d.venue = "uniswap_v3" -> NewUniswapV3(d)
           [] d.venue = "lfj" -> NewLFJ(d)
           [] d.venue = "velodrome" -> NewVelodrome(d)
    ELSE {}

(***************************************************************************)
(* Quotes.                                                                 *)
(***************************************************************************)
Through(pools) == IF pools = {} THEN None ELSE (CHOOSE p \in pools : TRUE).addr
Swap(in, out, pools) == [in |-> in, out |-> out, pool |-> Through(pools)]

\* Path and fees in quote to base order; both are turned round for a sale.
Turned(seq, buying) == IF buying THEN seq ELSE Reverse(seq)
PathOf(q) == <<q.quote>> \o [k \in 1 .. Len(q.route) |-> q.route[k].token] \o <<q.base>>
FeesOf(q) == [k \in 1 .. Len(q.route) |-> q.route[k].fee] \o <<q.fee>>

FeesUnturned(q, buying) == FeesOf(q)
FeesInOrder(q, buying) == Turned(FeesOf(q), buying)

SwapsUniswapV2(q, buying) ==
    LET path == Turned(PathOf(q), buying)
    IN  [k \in 1 .. Len(path) - 1 |-> Swap(path[k], path[k + 1], PairsOf(path[k], path[k + 1]))]

\* A route is packed, three bytes a fee; a single pool is asked with the fee as
\* it is, which the quoter contract refuses if it does not fit.
SwapsUniswapV3(q, buying) ==
    LET path == Turned(PathOf(q), buying)
        fees == FeesInOrder(q, buying)
        Packed(fee) == IF q.route = <<>> THEN fee ELSE fee % FeeRange
    IN  [k \in 1 .. Len(fees) |->
            Swap(path[k], path[k + 1], PoolsOf(path[k], path[k + 1], Packed(fees[k])))]

SwapsLFJ(q, buying) ==
    LET swapForY == IF buying THEN q.flag ELSE ~q.flag
        pair == CHOOSE p \in At(q.pool, "lfj") : TRUE
    IN  << IF swapForY THEN Swap(pair.first, pair.second, {pair})
                       ELSE Swap(pair.second, pair.first, {pair}) >>

SwapsVelodrome(q, buying) ==
    LET tokenIn == IF buying THEN q.quote ELSE q.base
        pool == CHOOSE p \in At(q.pool, "velodrome") : TRUE
        other == CHOOSE t \in {pool.first, pool.second} : t # tokenIn
    IN  << Swap(tokenIn, other, {pool}) >>

\* The aggregator takes any way between two mints.
SwapsJupiter(q, buying) ==
    << [in |-> Turned(PathOf(q), buying)[1], out |-> Last(Turned(PathOf(q), buying)),
        pool |-> "aggregator"] >>

Swaps(q, buying) ==
    CASE q.venue = "uniswap_v2" -> SwapsUniswapV2(q, buying)
      [] q.venue = "uniswap_v3" -> SwapsUniswapV3(q, buying)
      [] q.venue = "lfj" -> SwapsLFJ(q, buying)
      [] q.venue = "velodrome" -> SwapsVelodrome(q, buying)
      [] q.venue = "jupiter" -> SwapsJupiter(q, buying)

QuoteBuyBase(q) == [swaps |-> Swaps(q, TRUE), unitsIn |-> q.quoteDec, unitsOut |-> q.baseDec]
QuoteSellBase(q) == [swaps |-> Swaps(q, FALSE), unitsIn |-> q.baseDec, unitsOut |-> q.quoteDec]

\* A quote through a pool that is not there reverts.
Quotable(q) == \A k \in 1 .. Len(Swaps(q, TRUE)) : Swaps(q, TRUE)[k].pool # None

(***************************************************************************)
(* PoolTVLUSD: the pool, the token counted at the base price, and the one  *)
(* counted at a dollar.                                                    *)
(***************************************************************************)
TVLOfReserves(q) ==
    LET pool == CHOOSE p \in At(q.pool, "uniswap_v2") : TRUE
        Reserve(isFirst) == IF isFirst THEN pool.first ELSE pool.second
    IN  [ pool |-> q.pool, atPrice |-> Reserve(q.flag),
          atOne |-> IF q.route = <<>> THEN Reserve(~q.flag) ELSE None ]

TVLOfBalances(q) == [pool |-> q.pool, atPrice |-> q.base, atOne |-> q.quote]

\* The venues that can tell; of a v3 quoter, only with a pool configured.
TVLSupported(q) == q.venue # "jupiter" /\ (q.venue = "uniswap_v3" => q.pool # None)
PoolTVLUSD(q) == IF q.venue = "uniswap_v2" THEN TVLOfReserves(q) ELSE TVLOfBalances(q)

(***************************************************************************)
(* Both legs are quotes of the market d: the buy leg spends the quote      *)
(* token and gets the base token, hop by hop, and the sell leg goes the    *)
(* same way back; and the TVL is that of the pool of the last swap.        *)
(***************************************************************************)
Swapped(s) == [in |-> s.out, out |-> s.in, pool |-> s.pool]

HopByHop(buy, sell, d) ==
    LET n == Len(buy)
    IN  /\ buy[1].in = d.quote.address /\ buy[n].out = d.base.address
        /\ \A k \in 1 .. n - 1 : buy[k].out = buy[k + 1].in
        /\ sell = [k \in 1 .. n |-> Swapped(buy[n + 1 - k])]

\* Each swap of a v3 path is in a pool of the fee tier configured for it.
FeesConfigured(buy, d) ==
    LET n == Len(buy)
        FeeAt(k) == IF k = n THEN d.fee ELSE d.route[k].fee
    IN  \A k \in 1 .. n : \E p \in At(buy[k].pool, d.venue) : p.fee = FeeAt(k)

UnitsRight(buy, sell, d) ==
    /\ buy.unitsIn = DecimalsOf[d.quote.address]
    /\ buy.unitsOut = DecimalsOf[d.base.address]
    /\ sell.unitsIn = buy.unitsOut /\ sell.unitsOut = buy.unitsIn

TVLOfMarket(q, d) ==
    LET buy == QuoteBuyBase(q).swaps
        tvl == PoolTVLUSD(q)
    IN  /\ d.venue = "uniswap_v2" => tvl.pool = buy[Len(buy)].pool
        /\ TVLSupported(q) => /\ tvl.atPrice = d.base.address
                              /\ tvl.atOne \in {None, d.quote.address}

MarketQuoted(q, d) ==
    LET buy == QuoteBuyBase(q)
        sell == QuoteSellBase(q)
    IN  /\ HopByHop(buy.swaps, sell.swaps, d)
        /\ d.venue = "uniswap_v3" => FeesConfigured(buy.swaps, d)
        /\ UnitsRight(buy, sell, d)
        /\ TVLOfMarket(q, d)
===============================================================================
