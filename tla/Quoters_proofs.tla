--------------------------- MODULE Quoters_proofs ---------------------------
(***************************************************************************)
(* Quoters for every set of pools, every token and every route: whatever a *)
(* constructor returns quotes the market it was configured for.            *)
(***************************************************************************)
EXTENDS Settings, Quoters, SequenceTheorems, TLAPS

\* What the program takes on trust: decimals that are configured are those of
\* the token, and the fee tiers of a route fit in the three bytes each they are
\* packed into.
Truthful(d) ==
    /\ \A token \in {d.base, d.quote} :
          token.decimals > 0 => token.decimals = DecimalsOf[token.address]
    /\ d.route # <<>> =>
          d.fee < FeeRange /\ \A k \in 1 .. Len(d.route) : d.route[k].fee < FeeRange

\* What a quoter has of the market it was made for.
Made(q, d) ==
    /\ q.venue = d.venue /\ q.base = d.base.address /\ q.quote = d.quote.address
    /\ q.route = d.route /\ q.fee = d.fee
    /\ q.baseDec = Resolved(d.base) /\ q.quoteDec = Resolved(d.quote)

LEMMA MarketIsMade ==
    ASSUME NEW d
    PROVE  Made(Market(d), d) /\ Market(d).pool = d.pool
  BY DEF Market, Made

(***************************************************************************)
(* Sequences.                                                              *)
(***************************************************************************)
LEMMA FunctionIsSeq ==
    ASSUME NEW S, NEW n \in Nat, NEW f \in [1 .. n -> S]
    PROVE  f \in Seq(S) /\ Len(f) = n
  <1>1. f \in Seq(S)
    OBVIOUS
  <1>2. Len(f) \in Nat /\ DOMAIN f = 1 .. Len(f)
    BY <1>1, LenProperties
  <1> QED
    BY <1>1, <1>2

LEMMA MapLength ==
    ASSUME NEW n \in Nat, NEW f, DOMAIN f = 1 .. n, f = [k \in 1 .. n |-> f[k]]
    PROVE  Len(f) = n
  <1> DEFINE S == {f[k] : k \in 1 .. n}
  <1>1. f \in [1 .. n -> S]
    OBVIOUS
  <1> HIDE DEF S
  <1> QED
    BY <1>1, FunctionIsSeq

LEMMA ReverseIs ==
    ASSUME NEW n \in Nat, NEW f, Len(f) = n
    PROVE  /\ Len(Reverse(f)) = n
           /\ DOMAIN Reverse(f) = 1 .. n
           /\ \A k \in 1 .. n : Reverse(f)[k] = f[n + 1 - k]
  <1> DEFINE S == {f[n - k + 1] : k \in 1 .. n}
  <1>1. Reverse(f) = [k \in 1 .. n |-> f[n - k + 1]]
    BY DEF Reverse
  <1>2. Reverse(f) \in [1 .. n -> S]
    BY <1>1
  <1> HIDE DEF S
  <1>3. Len(Reverse(f)) = n
    BY <1>2, FunctionIsSeq
  <1>4. \A k \in 1 .. n : n - k + 1 = n + 1 - k
    OBVIOUS
  <1> QED
    BY <1>1, <1>3, <1>4

(***************************************************************************)
(* Paths.                                                                  *)
(***************************************************************************)
LEMMA PathIs ==
    ASSUME NEW q, q.route \in Seq(HopConfig)
    PROVE  LET n == Len(q.route)
               path == PathOf(q)
               back == Reverse(path)
           IN  /\ n \in Nat
               /\ Len(path) = n + 2
               /\ path[1] = q.quote /\ path[n + 2] = q.base
               /\ \A k \in 1 .. n : path[k + 1] = q.route[k].token
               /\ Len(back) = n + 2
               /\ \A k \in 1 .. n + 2 : back[k] = path[n + 3 - k]
  <1> DEFINE n == Len(q.route)
             S == {q.quote, q.base} \cup {q.route[k].token : k \in 1 .. n}
             tokens == [k \in 1 .. n |-> q.route[k].token]
             path == PathOf(q)
  <1>1. n \in Nat
    BY LenProperties
  <1>2. /\ <<q.quote>> \in Seq(S) /\ Len(<<q.quote>>) = 1 /\ <<q.quote>>[1] = q.quote
        /\ <<q.base>> \in Seq(S) /\ Len(<<q.base>>) = 1 /\ <<q.base>>[1] = q.base
    OBVIOUS
  <1>3. tokens \in Seq(S) /\ Len(tokens) = n
    <2>1. tokens \in [1 .. n -> S]
      OBVIOUS
    <2> HIDE DEF S, tokens
    <2> QED
      BY <1>1, <2>1, FunctionIsSeq
  <1>4. \A k \in 1 .. n : tokens[k] = q.route[k].token
    OBVIOUS
  <1>5. path = <<q.quote>> \o tokens \o <<q.base>>
    BY DEF PathOf
  <1> HIDE DEF S, tokens
  <1>6. /\ <<q.quote>> \o tokens \in Seq(S)
        /\ Len(<<q.quote>> \o tokens) = n + 1
        /\ (<<q.quote>> \o tokens)[1] = q.quote
        /\ \A k \in 1 .. n : (<<q.quote>> \o tokens)[k + 1] = tokens[k]
    BY <1>1, <1>2, <1>3, ConcatProperties
  <1>7. /\ Len(path) = n + 2
        /\ path[1] = q.quote /\ path[n + 2] = q.base
        /\ \A k \in 1 .. n : path[k + 1] = tokens[k]
    <2>1. /\ Len(path) = n + 1 + 1
          /\ \A k \in 1 .. n + 1 : path[k] = (<<q.quote>> \o tokens)[k]
          /\ path[n + 1 + 1] = <<q.base>>[n + 1 + 1 - (n + 1)]
      BY <1>1, <1>2, <1>5, <1>6, ConcatProperties
    <2>2. Len(path) = n + 2 /\ path[n + 2] = q.base
      <3>1. n + 1 + 1 = n + 2 /\ n + 1 + 1 - (n + 1) = 1
        BY <1>1
      <3> QED
        BY ONLY <1>2, <2>1, <3>1
    <2>3. path[1] = q.quote
      BY ONLY <1>1, <1>6, <2>1
    <2>4. \A k \in 1 .. n : path[k + 1] = tokens[k]
      <3>1. \A k \in 1 .. n : k + 1 \in 1 .. n + 1
        BY <1>1
      <3> QED
        BY ONLY <1>6, <2>1, <3>1
    <2> QED
      BY <2>2, <2>3, <2>4
  <1>8. LET back == Reverse(path)
        IN  Len(back) = n + 2 /\ \A k \in 1 .. n + 2 : back[k] = path[n + 3 - k]
    <2>1. n + 2 \in Nat
      BY <1>1
    <2>2. \A k \in 1 .. n + 2 : n + 2 + 1 - k = n + 3 - k
      BY <1>1
    <2> HIDE DEF n, path
    <2> QED
      BY <1>7, <2>1, <2>2, ReverseIs
  <1> QED
    BY <1>1, <1>4, <1>7, <1>8

LEMMA FeesAre ==
    ASSUME NEW q, q.route \in Seq(HopConfig)
    PROVE  LET n == Len(q.route)
               fees == FeesOf(q)
               back == Reverse(fees)
           IN  /\ Len(fees) = n + 1 /\ Len(back) = n + 1
               /\ fees[n + 1] = q.fee
               /\ \A k \in 1 .. n : fees[k] = q.route[k].fee
               /\ \A k \in 1 .. n + 1 : back[k] = fees[n + 2 - k]
  <1> DEFINE n == Len(q.route)
             S == {q.fee} \cup {q.route[k].fee : k \in 1 .. n}
             tiers == [k \in 1 .. n |-> q.route[k].fee]
             fees == FeesOf(q)
  <1>1. n \in Nat
    BY LenProperties
  <1>2. <<q.fee>> \in Seq(S) /\ Len(<<q.fee>>) = 1 /\ <<q.fee>>[1] = q.fee
    OBVIOUS
  <1>3. tiers \in Seq(S) /\ Len(tiers) = n /\ \A k \in 1 .. n : tiers[k] = q.route[k].fee
    <2>1. tiers \in [1 .. n -> S] /\ \A k \in 1 .. n : tiers[k] = q.route[k].fee
      OBVIOUS
    <2> HIDE DEF S, tiers
    <2> QED
      BY <1>1, <2>1, FunctionIsSeq
  <1>4. fees = tiers \o <<q.fee>>
    BY DEF FeesOf
  <1> HIDE DEF S, tiers
  <1>5. Len(fees) = n + 1 /\ fees[n + 1] = q.fee /\ \A k \in 1 .. n : fees[k] = q.route[k].fee
    BY <1>1, <1>2, <1>3, <1>4, ConcatProperties
  <1>6. LET back == Reverse(fees)
        IN  Len(back) = n + 1 /\ \A k \in 1 .. n + 1 : back[k] = fees[n + 2 - k]
    <2>1. n + 1 \in Nat /\ \A k \in 1 .. n + 1 : n + 1 + 1 - k = n + 2 - k
      BY <1>1
    <2> HIDE DEF n, fees
    <2> QED
      BY <1>5, <2>1, ReverseIs
  <1> QED
    BY <1>5, <1>6

\* Swaps along a path and back, each through its pool.
LEMMA HopsAlong ==
    ASSUME NEW d, NEW n \in Nat, NEW path, NEW pool, NEW buy, NEW sell,
           path[1] = d.quote.address, path[n + 2] = d.base.address,
           buy = [k \in 1 .. n + 1 |-> [in |-> path[k], out |-> path[k + 1], pool |-> pool[k]]],
           sell = [k \in 1 .. n + 1 |->
                      [in |-> path[n + 3 - k], out |-> path[n + 2 - k], pool |-> pool[n + 2 - k]]]
    PROVE  Len(buy) = n + 1 /\ HopByHop(buy, sell, d)
  <1>1. Len(buy) = n + 1
    <2>1. DOMAIN buy = 1 .. n + 1
      OBVIOUS
    <2>2. buy = [k \in 1 .. n + 1 |-> buy[k]]
      BY Zenon
    <2>3. n + 1 \in Nat
      OBVIOUS
    <2> QED
      BY ONLY <2>1, <2>2, <2>3, MapLength
  <1>2. buy[1].in = d.quote.address /\ buy[n + 1].out = d.base.address
    <2>1. 1 \in 1 .. n + 1 /\ n + 1 \in 1 .. n + 1 /\ n + 1 + 1 = n + 2
      OBVIOUS
    <2> QED
      BY <2>1
  <1>3. \A k \in 1 .. n : buy[k].out = buy[k + 1].in
    OBVIOUS
  <1>4. sell = [k \in 1 .. n + 1 |-> Swapped(buy[n + 2 - k])]
    <2>1. ASSUME NEW k \in 1 .. n + 1
          PROVE  Swapped(buy[n + 2 - k]) =
                    [in |-> path[n + 3 - k], out |-> path[n + 2 - k], pool |-> pool[n + 2 - k]]
      <3>1. n + 2 - k \in 1 .. n + 1 /\ n + 2 - k + 1 = n + 3 - k
        OBVIOUS
      <3>2. buy[n + 2 - k] = [in |-> path[n + 2 - k], out |-> path[n + 3 - k], pool |-> pool[n + 2 - k]]
        BY <3>1
      <3> QED
        BY <3>2 DEF Swapped
    <2> QED
      BY <2>1
  <1>5. n + 1 - 1 = n /\ \A k \in 1 .. n + 1 : n + 1 + 1 - k = n + 2 - k
    OBVIOUS
  <1>6. sell = [k \in 1 .. Len(buy) |-> Swapped(buy[Len(buy) + 1 - k])]
    BY ONLY <1>1, <1>4, <1>5
  <1>7. /\ buy[1].in = d.quote.address /\ buy[Len(buy)].out = d.base.address
        /\ \A k \in 1 .. Len(buy) - 1 : buy[k].out = buy[k + 1].in
    BY ONLY <1>1, <1>2, <1>3, <1>5
  <1> QED
    BY ONLY <1>1, <1>6, <1>7 DEF HopByHop

\* One swap and its reverse, in one pool.
LEMMA OneHop ==
    ASSUME NEW d, NEW pool, NEW buy, NEW sell,
           buy = << [in |-> d.quote.address, out |-> d.base.address, pool |-> pool] >>,
           sell = << [in |-> d.base.address, out |-> d.quote.address, pool |-> pool] >>
    PROVE  HopByHop(buy, sell, d)
  <1>1. Len(buy) = 1 /\ buy[1].in = d.quote.address /\ buy[1].out = d.base.address
    OBVIOUS
  <1>2. sell = [k \in 1 .. 1 |-> Swapped(buy[1 + 1 - k])]
    <2>1. sell = [k \in 1 .. 1 |-> [in |-> d.base.address, out |-> d.quote.address, pool |-> pool]]
      OBVIOUS
    <2>2. \A k \in 1 .. 1 : Swapped(buy[1 + 1 - k]) =
                               [in |-> d.base.address, out |-> d.quote.address, pool |-> pool]
      BY DEF Swapped
    <2> QED
      BY <2>1, <2>2
  <1> QED
    BY <1>1, <1>2 DEF HopByHop

(***************************************************************************)
(* The venues.                                                             *)
(***************************************************************************)
LEMMA UnitsAreRight ==
    ASSUME NEW d, NEW q, Made(q, d), Truthful(d)
    PROVE  UnitsRight(QuoteBuyBase(q), QuoteSellBase(q), d)
  <1>1. \A token \in {d.base, d.quote} : Resolved(token) = DecimalsOf[token.address]
    BY DEF Truthful, Resolved
  <1> QED
    BY <1>1 DEF Made, UnitsRight, QuoteBuyBase, QuoteSellBase

\* Pools are asked for by two tokens in either order.
LEMMA PoolsSymmetric ==
    ASSUME NEW a, NEW b, NEW fee
    PROVE  PairsOf(a, b) = PairsOf(b, a) /\ PoolsOf(a, b, fee) = PoolsOf(b, a, fee)
  BY DEF PairsOf, PoolsOf, Holds

LEMMA UniswapV2Hops ==
    ASSUME NEW d, NEW q, Made(q, d), d.venue = "uniswap_v2", d.route \in Seq(HopConfig)
    PROVE  LET buy == Swaps(q, TRUE)
               sell == Swaps(q, FALSE)
               n == Len(d.route)
               path == PathOf(q)
           IN  /\ HopByHop(buy, sell, d)
               /\ Len(buy) = n + 1
               /\ buy[n + 1].pool = Through(PairsOf(path[n + 1], path[n + 2]))
  <1> DEFINE buy == Swaps(q, TRUE)
             sell == Swaps(q, FALSE)
             n == Len(d.route)
             path == PathOf(q)
             back == Reverse(path)
             pool == [k \in 1 .. n + 1 |-> Through(PairsOf(path[k], path[k + 1]))]
  <1>1. /\ n \in Nat /\ Len(path) = n + 2
        /\ path[1] = d.quote.address /\ path[n + 2] = d.base.address
        /\ Len(back) = n + 2 /\ \A k \in 1 .. n + 2 : back[k] = path[n + 3 - k]
    BY PathIs DEF Made
  <1>2. /\ buy = [k \in 1 .. Len(path) - 1 |->
                     Swap(path[k], path[k + 1], PairsOf(path[k], path[k + 1]))]
        /\ sell = [k \in 1 .. Len(back) - 1 |->
                     Swap(back[k], back[k + 1], PairsOf(back[k], back[k + 1]))]
    BY DEF Swaps, SwapsUniswapV2, Turned, Made
  <1> HIDE DEF buy, sell, n, path, back
  <1>3. buy = [k \in 1 .. n + 1 |-> [in |-> path[k], out |-> path[k + 1], pool |-> pool[k]]]
    <2>1. Len(path) - 1 = n + 1
      BY <1>1
    <2>2. buy = [k \in 1 .. n + 1 |-> Swap(path[k], path[k + 1], PairsOf(path[k], path[k + 1]))]
      BY <1>2, <2>1
    <2> QED
      BY <2>2 DEF Swap
  <1>4. sell = [k \in 1 .. n + 1 |->
                   [in |-> path[n + 3 - k], out |-> path[n + 2 - k], pool |-> pool[n + 2 - k]]]
    <2>1. Len(back) - 1 = n + 1
      BY <1>1
    <2>2. ASSUME NEW k \in 1 .. n + 1
          PROVE  Swap(back[k], back[k + 1], PairsOf(back[k], back[k + 1]))
                   = [in |-> path[n + 3 - k], out |-> path[n + 2 - k], pool |-> pool[n + 2 - k]]
      <3>1. back[k] = path[n + 3 - k] /\ back[k + 1] = path[n + 2 - k]
        BY <1>1
      <3>2. n + 2 - k \in 1 .. n + 1 /\ n + 2 - k + 1 = n + 3 - k
        BY <1>1
      <3>3. pool[n + 2 - k] = Through(PairsOf(path[n + 2 - k], path[n + 3 - k]))
        BY <3>2
      <3>4. PairsOf(path[n + 3 - k], path[n + 2 - k]) = PairsOf(path[n + 2 - k], path[n + 3 - k])
        BY PoolsSymmetric
      <3> HIDE DEF pool
      <3> QED
        BY <3>1, <3>3, <3>4 DEF Swap
    <2>3. sell = [k \in 1 .. n + 1 |-> Swap(back[k], back[k + 1], PairsOf(back[k], back[k + 1]))]
      BY <1>2, <2>1
    <2> HIDE DEF pool
    <2> QED
      BY <2>2, <2>3
  <1>5. pool[n + 1] = Through(PairsOf(path[n + 1], path[n + 2])) /\ buy[n + 1].pool = pool[n + 1]
    BY <1>1, <1>3
  <1> HIDE DEF pool
  <1>6. HopByHop(buy, sell, d) /\ Len(buy) = n + 1
    <2>1. n \in Nat /\ path[1] = d.quote.address /\ path[n + 2] = d.base.address
      BY <1>1
    <2> QED
      BY ONLY <2>1, <1>3, <1>4, HopsAlong, Zenon
  <1> QED
    BY <1>5, <1>6 DEF buy, sell, n, path

\* A pool is known by its address, and that of one pool is its address.
LEMMA PoolAt ==
    ASSUME NEW kind, NEW p \in Deployed, p.kind = kind
    PROVE  (CHOOSE x \in At(p.addr, kind) : TRUE) = p /\ Through({p}) = p.addr
  <1>1. p \in At(p.addr, kind) /\ \A x \in At(p.addr, kind) : x = p
    BY QuotersAssumption DEF At
  <1>2. Through({p}) = (CHOOSE x \in {p} : TRUE).addr
    BY DEF Through
  <1> QED
    BY <1>1, <1>2

LEMMA UniswapV2Quotes ==
    ASSUME NEW d, d.venue = "uniswap_v2", d.route \in Seq(HopConfig), Truthful(d),
           NEW q \in NewUniswapV2(d)
    PROVE  MarketQuoted(q, d)
  <1> DEFINE n == Len(d.route)
             base == d.base.address
             quote == d.quote.address
             pairedWith == IF d.route = <<>> THEN quote ELSE Last(d.route).token
             path == PathOf(q)
  <1>1. PICK p \in PairsOf(base, pairedWith) :
            q = [Market(d) EXCEPT !.pool = p.addr, !.flag = (p.first = base)]
    BY DEF NewUniswapV2
  <1>2. Made(q, d) /\ q.flag = (p.first = base) /\ q.pool = p.addr
    <2> DEFINE flag == (p.first = base)
    <2>1. q = [Market(d) EXCEPT !.pool = p.addr, !.flag = flag]
      BY <1>1, Zenon
    <2> HIDE DEF flag
    <2>2. Made(q, d) /\ q.flag = flag /\ q.pool = p.addr
      BY <2>1 DEF Market, Made
    <2> QED
      BY <2>2, Zenon DEF flag
  <1>3. /\ n \in Nat /\ path[n + 2] = base
        /\ path[1] = quote
        /\ \A k \in 1 .. n : path[k + 1] = d.route[k].token
    BY <1>2, PathIs DEF Made
  <1>4. path[n + 1] = pairedWith
    <2>1. CASE d.route = <<>>
      BY <1>3, <2>1, EmptySeq
    <2>2. CASE d.route # <<>>
      <3>1. n \in 1 .. n
        BY <2>2, EmptySeq
      <3> QED
        BY <1>3, <2>2, <3>1 DEF Last
    <2> QED
      BY <2>1, <2>2
  <1>5. /\ p \in Deployed /\ p.kind = "uniswap_v2" /\ p.listed
        /\ {p.first, p.second} = {base, pairedWith}
    BY DEF PairsOf, Holds
  <1>6. PairsOf(path[n + 1], path[n + 2]) = {p}
    <2>1. PairsOf(base, pairedWith) = {p}
      BY <1>5, QuotersAssumption DEF PairsOf, Holds
    <2> QED
      BY <1>3, <1>4, <2>1, PoolsSymmetric
  <1>7. Through(PairsOf(path[n + 1], path[n + 2])) = q.pool
    BY <1>2, <1>5, <1>6, PoolAt
  <1>8. /\ HopByHop(Swaps(q, TRUE), Swaps(q, FALSE), d)
        /\ Len(Swaps(q, TRUE)) = n + 1
        /\ Swaps(q, TRUE)[n + 1].pool = q.pool
    BY <1>2, <1>7, UniswapV2Hops
  <1>9. TVLOfMarket(q, d)
    <2> DEFINE tvl == PoolTVLUSD(q)
    <2>1. (CHOOSE x \in At(q.pool, "uniswap_v2") : TRUE) = p
      <3>1. (CHOOSE x \in At(p.addr, "uniswap_v2") : TRUE) = p
        BY <1>5, PoolAt
      <3> QED
        BY <1>2, <3>1, Zenon
    <2>2. /\ tvl.pool = q.pool
          /\ tvl.atPrice = IF q.flag THEN p.first ELSE p.second
          /\ q.route = <<>> => tvl.atOne = IF ~q.flag THEN p.first ELSE p.second
          /\ q.route # <<>> => tvl.atOne = None
      <3> DEFINE pool == CHOOSE x \in At(q.pool, "uniswap_v2") : TRUE
                 Reserve(isFirst) == IF isFirst THEN pool.first ELSE pool.second
      <3>1. tvl = [ pool |-> q.pool, atPrice |-> Reserve(q.flag),
                    atOne |-> IF q.route = <<>> THEN Reserve(~q.flag) ELSE None ]
        BY <1>2 DEF PoolTVLUSD, TVLOfReserves, Made
      <3>2. pool = p
        BY <2>1
      <3> HIDE DEF pool
      <3> QED
        BY <3>1, <3>2
    <2>3. tvl.atPrice = base
      <3> HIDE DEF tvl
      <3>1. CASE p.first = base
        BY <1>2, <2>2, <3>1
      <3>2. CASE p.first # base
        <4>1. tvl.atPrice = p.second
          BY <1>2, <2>2, <3>2
        <4>2. base \in {p.first, p.second}
          BY <1>5
        <4> QED
          BY <3>2, <4>1, <4>2
      <3> QED
        BY <3>1, <3>2
    <2>4. tvl.atOne \in {None, quote}
      <3>1. CASE q.route # <<>>
        BY <2>2, <3>1
      <3>2. CASE q.route = <<>> /\ p.first = base
        <4>1. q.flag /\ pairedWith = quote
          BY <1>2, <3>2 DEF Made
        <4>2. tvl.atOne = p.second
          BY <2>2, <3>2, <4>1
        <4> QED
          BY <1>5, <3>2, <4>1, <4>2
      <3>3. CASE q.route = <<>> /\ p.first # base
        <4>1. ~q.flag /\ pairedWith = quote
          BY <1>2, <3>3 DEF Made
        <4>2. tvl.atOne = p.first
          BY <2>2, <3>3, <4>1
        <4> QED
          BY <1>5, <3>3, <4>1, <4>2
      <3> QED
        BY <3>1, <3>2, <3>3
    <2>5. tvl.pool = q.pool
      BY <2>2
    <2> HIDE DEF tvl
    <2> QED
      BY <1>8, <2>3, <2>4, <2>5 DEF TVLOfMarket, QuoteBuyBase, tvl
  <1> QED
    BY <1>2, <1>8, <1>9, UnitsAreRight DEF MarketQuoted, QuoteBuyBase, QuoteSellBase

\* The TVL of the other venues is that of the pool's two balances.
LEMMA BalancesTell ==
    ASSUME NEW d, NEW q, Made(q, d), d.venue # "uniswap_v2"
    PROVE  TVLOfMarket(q, d)
  BY DEF TVLOfMarket, PoolTVLUSD, TVLOfBalances, Made

LEMMA UniswapV3Quotes ==
    ASSUME NEW d \in DexConfig, d.venue = "uniswap_v3", Truthful(d),
           NEW q \in NewUniswapV3(d), Quotable(q)
    PROVE  MarketQuoted(q, d)
  <1> DEFINE buy == Swaps(q, TRUE)
             sell == Swaps(q, FALSE)
             n == Len(d.route)
             path == PathOf(q)
             back == Reverse(path)
             fees == FeesOf(q)
             turned == Reverse(fees)
             pool == [k \in 1 .. n + 1 |-> Through(PoolsOf(path[k], path[k + 1], fees[k]))]
             FeeAt(k) == IF k = n + 1 THEN d.fee ELSE d.route[k].fee
  <1>1. q = Market(d) /\ Made(q, d)
    BY MarketIsMade DEF NewUniswapV3
  <1>2. d.route \in Seq(HopConfig) /\ d.fee \in Nat
    BY DEF DexConfig
  <1>3. /\ n \in Nat /\ Len(path) = n + 2
        /\ path[1] = d.quote.address /\ path[n + 2] = d.base.address
        /\ Len(back) = n + 2 /\ \A k \in 1 .. n + 2 : back[k] = path[n + 3 - k]
    <2>1. /\ q.route = d.route /\ q.quote = d.quote.address /\ q.base = d.base.address
          /\ q.route \in Seq(HopConfig)
      BY <1>1, <1>2 DEF Made
    <2> QED
      BY <2>1, PathIs
  <1>4. /\ Len(fees) = n + 1 /\ Len(turned) = n + 1
        /\ \A k \in 1 .. n + 1 : fees[k] = FeeAt(k)
        /\ \A k \in 1 .. n + 1 : turned[k] = fees[n + 2 - k]
    <2>1. /\ Len(fees) = n + 1 /\ Len(turned) = n + 1
          /\ fees[n + 1] = d.fee
          /\ \A k \in 1 .. n : fees[k] = d.route[k].fee
          /\ \A k \in 1 .. n + 1 : turned[k] = fees[n + 2 - k]
      BY <1>1, <1>2, FeesAre DEF Made
    <2>2. \A k \in 1 .. n + 1 : k = n + 1 \/ k \in 1 .. n
      BY <1>3
    <2>3. \A k \in 1 .. n : k # n + 1
      BY <1>3
    <2> HIDE DEF n, fees, turned
    <2>4. \A k \in 1 .. n + 1 : fees[k] = FeeAt(k)
      BY <2>1, <2>2, <2>3
    <2> QED
      BY <2>1, <2>4
  <1> DEFINE Packed(fee) == IF q.route = <<>> THEN fee ELSE fee % FeeRange
  <1>5. \A k \in 1 .. n + 1 : Packed(fees[k]) = fees[k] /\ Packed(turned[k]) = turned[k]
    <2>1. \A k \in 1 .. n : d.route[k].fee \in Nat
      <3>1. \A k \in 1 .. n : d.route[k] \in HopConfig
        BY <1>2, ElementOfSeq
      <3> QED
        BY <3>1 DEF HopConfig
    <2>2. d.route # <<>> => \A k \in 1 .. n + 1 : FeeAt(k) \in Nat /\ FeeAt(k) < FeeRange
      <3>1. \A k \in 1 .. n + 1 : k = n + 1 \/ k \in 1 .. n
        BY <1>3
      <3> QED
        BY <1>2, <2>1, <3>1 DEF Truthful
    <2>3. \A fee \in Nat : fee < FeeRange => fee % FeeRange = fee
      BY DEF FeeRange
    <2>4. q.route = d.route
      BY <1>1 DEF Made
    <2>5. \A k \in 1 .. n + 1 : n + 2 - k \in 1 .. n + 1
      BY <1>3
    <2> HIDE DEF n, fees, turned, FeeAt
    <2>6. ASSUME NEW fee, q.route # <<>> => fee \in Nat /\ fee < FeeRange
          PROVE  Packed(fee) = fee
      BY <2>3, <2>6
    <2>7. \A k \in 1 .. n + 1 : Packed(fees[k]) = fees[k]
      BY <1>4, <2>2, <2>4, <2>6
    <2> HIDE DEF Packed
    <2> QED
      BY <1>4, <2>5, <2>7
  <1>6. /\ buy = [k \in 1 .. Len(fees) |->
                     Swap(path[k], path[k + 1], PoolsOf(path[k], path[k + 1], Packed(fees[k])))]
        /\ sell = [k \in 1 .. Len(turned) |->
                     Swap(back[k], back[k + 1], PoolsOf(back[k], back[k + 1], Packed(turned[k])))]
    BY <1>1 DEF Swaps, SwapsUniswapV3, FeesInOrder, Turned, Made
  <1> HIDE DEF buy, sell, n, path, back, fees, turned, Packed, FeeAt
  <1>7. buy = [k \in 1 .. n + 1 |-> [in |-> path[k], out |-> path[k + 1], pool |-> pool[k]]]
    <2>1. buy = [k \in 1 .. n + 1 |-> Swap(path[k], path[k + 1], PoolsOf(path[k], path[k + 1], fees[k]))]
      BY <1>4, <1>5, <1>6
    <2> QED
      BY <2>1 DEF Swap
  <1>8. sell = [k \in 1 .. n + 1 |->
                   [in |-> path[n + 3 - k], out |-> path[n + 2 - k], pool |-> pool[n + 2 - k]]]
    <2>1. ASSUME NEW k \in 1 .. n + 1
          PROVE  Swap(back[k], back[k + 1], PoolsOf(back[k], back[k + 1], Packed(turned[k])))
                   = [in |-> path[n + 3 - k], out |-> path[n + 2 - k], pool |-> pool[n + 2 - k]]
      <3>1. /\ back[k] = path[n + 3 - k] /\ back[k + 1] = path[n + 2 - k]
            /\ Packed(turned[k]) = fees[n + 2 - k]
        <4>1. k \in 1 .. n + 2 /\ k + 1 \in 1 .. n + 2 /\ n + 3 - (k + 1) = n + 2 - k
          BY <1>3
        <4>2. back[k] = path[n + 3 - k] /\ back[k + 1] = path[n + 2 - k]
          BY ONLY <1>3, <4>1
        <4>3. Packed(turned[k]) = fees[n + 2 - k]
          BY ONLY <1>4, <1>5, k \in 1 .. n + 1
        <4> QED
          BY <4>2, <4>3
      <3>2. n + 2 - k \in 1 .. n + 1 /\ n + 2 - k + 1 = n + 3 - k
        BY <1>3
      <3>3. pool[n + 2 - k] = Through(PoolsOf(path[n + 2 - k], path[n + 3 - k], fees[n + 2 - k]))
        BY <3>2
      <3>4. PoolsOf(path[n + 3 - k], path[n + 2 - k], fees[n + 2 - k])
              = PoolsOf(path[n + 2 - k], path[n + 3 - k], fees[n + 2 - k])
        BY PoolsSymmetric
      <3> HIDE DEF pool
      <3> QED
        BY <3>1, <3>3, <3>4 DEF Swap
    <2>2. sell = [k \in 1 .. n + 1 |->
                     Swap(back[k], back[k + 1], PoolsOf(back[k], back[k + 1], Packed(turned[k])))]
      BY <1>4, <1>6
    <2> HIDE DEF pool
    <2> QED
      BY <2>1, <2>2
  <1>9. \A k \in 1 .. n + 1 : \E p \in At(buy[k].pool, "uniswap_v3") : p.fee = fees[k]
    <2> TAKE k \in 1 .. n + 1
    <2> DEFINE pools == PoolsOf(path[k], path[k + 1], fees[k])
    <2>1. buy[k].pool = Through(pools)
      BY <1>7
    <2>2. buy[k].pool # None
      <3>1. Len(buy) = n + 1
        <4>1. DOMAIN buy = 1 .. n + 1
          BY <1>7
        <4>2. buy = [m \in 1 .. n + 1 |-> buy[m]]
          BY <1>7, Zenon
        <4>3. n + 1 \in Nat
          BY <1>3
        <4> QED
          BY ONLY <4>1, <4>2, <4>3, MapLength
      <3> QED
        BY <3>1 DEF Quotable, buy
    <2> HIDE DEF pool, pools
    <2>3. pools # {}
      BY <2>1, <2>2 DEF Through
    <2>4. PICK p \in pools : Through(pools) = p.addr
      BY <2>3 DEF Through
    <2>5. p \in At(p.addr, "uniswap_v3") /\ p.fee = fees[k]
      BY <2>4 DEF At, PoolsOf, pools
    <2> QED
      BY <2>1, <2>4, <2>5
  <1> HIDE DEF pool
  <1>10. Len(buy) = n + 1 /\ HopByHop(buy, sell, d)
    <2>1. n \in Nat /\ path[1] = d.quote.address /\ path[n + 2] = d.base.address
      BY <1>3
    <2> QED
      BY ONLY <2>1, <1>7, <1>8, HopsAlong, Zenon
  <1>11. FeesConfigured(buy, d)
    <2>1. \A k \in 1 .. n + 1 : \E p \in At(buy[k].pool, d.venue) : p.fee = FeeAt(k)
      BY <1>4, <1>9
    <2> QED
      BY <1>10, <2>1 DEF FeesConfigured, FeeAt
  <1>12. TVLOfMarket(q, d)
    BY <1>1, BalancesTell
  <1> QED
    BY <1>1, <1>10, <1>11, <1>12, UnitsAreRight
       DEF MarketQuoted, QuoteBuyBase, QuoteSellBase, buy, sell

LEMMA LFJQuotes ==
    ASSUME NEW d, d.venue = "lfj", Truthful(d), NEW q \in NewLFJ(d)
    PROVE  MarketQuoted(q, d)
  <1> DEFINE base == d.base.address
             quote == d.quote.address
             pair == CHOOSE p \in At(q.pool, "lfj") : TRUE
  <1>1. PICK p \in At(d.pool, "lfj") :
            /\ HoldsMarket(d, p)
            /\ q = [Market(d) EXCEPT !.flag = (p.second = base)]
    BY DEF NewLFJ
  <1>2. Made(q, d) /\ q.flag = (p.second = base) /\ q.pool = d.pool
    <2> DEFINE flag == (p.second = base)
    <2>1. q = [Market(d) EXCEPT !.flag = flag]
      BY <1>1, Zenon
    <2> HIDE DEF flag
    <2>2. Made(q, d) /\ q.flag = flag /\ q.pool = d.pool
      BY <2>1 DEF Market, Made
    <2> QED
      BY <2>2, Zenon DEF flag
  <1>3. /\ p \in Deployed /\ p.kind = "lfj" /\ p.addr = d.pool
        /\ {p.first, p.second} = {base, quote}
    BY <1>1 DEF At, HoldsMarket, Holds
  <1>4. pair = p /\ Through({p}) = p.addr
    <2>1. (CHOOSE x \in At(p.addr, "lfj") : TRUE) = p /\ Through({p}) = p.addr
      BY <1>3, PoolAt
    <2>2. q.pool = p.addr
      BY <1>2, <1>3
    <2> QED
      BY <2>1, <2>2, Zenon
  <1> HIDE DEF pair
  <1>5. /\ Swaps(q, TRUE) = << IF q.flag THEN Swap(p.first, p.second, {p})
                                         ELSE Swap(p.second, p.first, {p}) >>
        /\ Swaps(q, FALSE) = << IF ~q.flag THEN Swap(p.first, p.second, {p})
                                           ELSE Swap(p.second, p.first, {p}) >>
    <2>1. \A buying \in BOOLEAN : Swaps(q, buying) = SwapsLFJ(q, buying)
      BY <1>2 DEF Swaps, Made
    <2> QED
      BY <1>4, <2>1 DEF SwapsLFJ, pair
  <1>6. /\ q.flag => p.first = quote /\ p.second = base
        /\ ~q.flag => p.first = base /\ p.second = quote
    <2>1. CASE p.second = base
      BY <1>2, <1>3, <2>1
    <2>2. CASE p.second # base
      BY <1>2, <1>3, <2>2
    <2> QED
      BY <2>1, <2>2
  <1>7. /\ Swaps(q, TRUE) = << [in |-> quote, out |-> base, pool |-> p.addr] >>
        /\ Swaps(q, FALSE) = << [in |-> base, out |-> quote, pool |-> p.addr] >>
    <2>1. CASE q.flag
      BY <1>4, <1>5, <1>6, <2>1 DEF Swap
    <2>2. CASE ~q.flag
      BY <1>4, <1>5, <1>6, <2>2 DEF Swap
    <2> QED
      BY <2>1, <2>2
  <1>8. HopByHop(Swaps(q, TRUE), Swaps(q, FALSE), d)
    BY <1>7, OneHop
  <1>9. TVLOfMarket(q, d)
    BY <1>2, BalancesTell
  <1> QED
    BY <1>2, <1>8, <1>9, UnitsAreRight DEF MarketQuoted, QuoteBuyBase, QuoteSellBase

LEMMA VelodromeQuotes ==
    ASSUME NEW d, d.venue = "velodrome", Truthful(d), NEW q \in NewVelodrome(d)
    PROVE  MarketQuoted(q, d)
  <1> DEFINE base == d.base.address
             quote == d.quote.address
             pool == CHOOSE p \in At(q.pool, "velodrome") : TRUE
             Other(tokenIn) == CHOOSE t \in {pool.first, pool.second} : t # tokenIn
  <1>1. PICK p \in At(d.pool, "velodrome") : HoldsMarket(d, p)
    BY DEF NewVelodrome
  <1>2. Made(q, d) /\ q.pool = d.pool
    BY MarketIsMade DEF NewVelodrome
  <1>3. /\ p \in Deployed /\ p.kind = "velodrome" /\ p.addr = d.pool
        /\ {p.first, p.second} = {base, quote}
    BY <1>1 DEF At, HoldsMarket, Holds
  <1>4. pool = p /\ Through({p}) = p.addr
    <2>1. (CHOOSE x \in At(p.addr, "velodrome") : TRUE) = p /\ Through({p}) = p.addr
      BY <1>3, PoolAt
    <2>2. q.pool = p.addr
      BY <1>2, <1>3
    <2> QED
      BY <2>1, <2>2, Zenon
  <1>5. Other(quote) = base /\ Other(base) = quote
    <2>1. base # quote
      BY <1>3, QuotersAssumption
    <2>2. {pool.first, pool.second} = {base, quote}
      BY <1>3, <1>4
    <2>3. (CHOOSE t \in {base, quote} : t # quote) = base
          /\ (CHOOSE t \in {base, quote} : t # base) = quote
      BY <2>1
    <2> QED
      BY <2>2, <2>3, Zenon
  <1>6. /\ Swaps(q, TRUE) = << Swap(quote, Other(quote), {pool}) >>
        /\ Swaps(q, FALSE) = << Swap(base, Other(base), {pool}) >>
    <2>1. \A buying \in BOOLEAN : Swaps(q, buying) = SwapsVelodrome(q, buying)
      BY <1>2 DEF Swaps, Made
    <2>2. q.quote = quote /\ q.base = base
      BY <1>2 DEF Made
    <2> QED
      BY <2>1, <2>2 DEF SwapsVelodrome
  <1> HIDE DEF pool, Other
  <1>7. /\ Swaps(q, TRUE) = << [in |-> quote, out |-> base, pool |-> p.addr] >>
        /\ Swaps(q, FALSE) = << [in |-> base, out |-> quote, pool |-> p.addr] >>
    BY <1>4, <1>5, <1>6 DEF Swap
  <1>8. HopByHop(Swaps(q, TRUE), Swaps(q, FALSE), d)
    BY <1>7, OneHop
  <1>9. TVLOfMarket(q, d)
    BY <1>2, BalancesTell
  <1> QED
    BY <1>2, <1>8, <1>9, UnitsAreRight DEF MarketQuoted, QuoteBuyBase, QuoteSellBase

LEMMA JupiterQuotes ==
    ASSUME NEW d \in DexConfig, d.venue = "jupiter", Truthful(d), NEW q \in NewJupiter(d)
    PROVE  MarketQuoted(q, d)
  <1> DEFINE base == d.base.address
             quote == d.quote.address
             n == Len(d.route)
             path == PathOf(q)
             back == Reverse(path)
  <1>1. Made(q, d)
    BY MarketIsMade DEF NewJupiter
  <1>2. /\ n \in Nat /\ Len(path) = n + 2 /\ path[1] = quote /\ path[n + 2] = base
        /\ Len(back) = n + 2 /\ \A k \in 1 .. n + 2 : back[k] = path[n + 3 - k]
    BY <1>1, PathIs DEF Made, DexConfig
  <1>3. back[1] = base /\ back[n + 2] = quote
    <2>1. 1 \in 1 .. n + 2 /\ n + 2 \in 1 .. n + 2 /\ n + 3 - 1 = n + 2 /\ n + 3 - (n + 2) = 1
      BY <1>2
    <2> HIDE DEF back, path, n
    <2> QED
      BY <1>2, <2>1
  <1>4. /\ Swaps(q, TRUE) = << [in |-> path[1], out |-> Last(path), pool |-> "aggregator"] >>
        /\ Swaps(q, FALSE) = << [in |-> back[1], out |-> Last(back), pool |-> "aggregator"] >>
    BY <1>1 DEF Swaps, SwapsJupiter, Turned, Made
  <1> HIDE DEF path, back
  <1>5. /\ Swaps(q, TRUE) = << [in |-> quote, out |-> base, pool |-> "aggregator"] >>
        /\ Swaps(q, FALSE) = << [in |-> base, out |-> quote, pool |-> "aggregator"] >>
    BY <1>2, <1>3, <1>4 DEF Last
  <1>6. HopByHop(Swaps(q, TRUE), Swaps(q, FALSE), d)
    BY <1>5, OneHop
  <1>7. TVLOfMarket(q, d)
    BY <1>1, BalancesTell
  <1> QED
    BY <1>1, <1>6, <1>7, UnitsAreRight DEF MarketQuoted, QuoteBuyBase, QuoteSellBase

\* Whatever a constructor returns for a market that is rightly configured, and
\* answers a probe, quotes that market (factory.go; uniswapv2.go:86-223;
\* uniswapv3.go:97-198; lfj.go:48-124; velodrome.go:50-108; jupiter.go).
THEOREM BuiltQuotersQuoteTheirMarket ==
    ASSUME NEW d \in DexConfig, d.venue \in DexVenues, Truthful(d),
           NEW q \in BuildQuoter(d), Quotable(q)
    PROVE  MarketQuoted(q, d)
  <1>1. d.route \in Seq(HopConfig)
    BY DEF DexConfig
  <1>2. CASE d.venue = "uniswap_v2"
    BY <1>1, <1>2, UniswapV2Quotes DEF BuildQuoter
  <1>3. CASE d.venue = "uniswap_v3"
    BY <1>3, UniswapV3Quotes DEF BuildQuoter
  <1>4. CASE d.venue = "lfj"
    BY <1>4, LFJQuotes DEF BuildQuoter
  <1>5. CASE d.venue = "velodrome"
    BY <1>5, VelodromeQuotes DEF BuildQuoter
  <1>6. CASE d.venue = "jupiter"
    BY <1>6, JupiterQuotes DEF BuildQuoter
  <1> QED
    BY <1>2, <1>3, <1>4, <1>5, <1>6 DEF DexVenues
=============================================================================
