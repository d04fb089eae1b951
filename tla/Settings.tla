-------------------------------- MODULE Settings --------------------------------
(***************************************************************************)
(* internal/config: a file as it is decoded, its defaults and what of it   *)
(* validate accepts.  A Config is [every, rates, urls, pairs]; its         *)
(* durations and thresholds are named as in the file.  A pair is           *)
(* [symbol, enabled, venue, cexSymbol, sizes, interval, basis, dex].       *)
(***************************************************************************)
EXTENDS Integers, Sequences

CONSTANTS Default,       \* applyDefaults, by the name of the setting
          DefaultRate,   \* DefaultRateLimitRPS
          SymbolAt       \* by pair symbol and venue: how the exchange writes it

ASSUME SettingsAssumption ==
    /\ \A name \in DOMAIN Default : Default[name] \in Nat \ {0}
    /\ "poll_interval" \in DOMAIN Default
    /\ DefaultRate \in Nat \ {0}

Empty == ""              \* a string the file leaves out

\* A file as it is decoded.  A setting may be negative: validate looks at the
\* trade sizes only.
TokenConfig == [address : STRING, decimals : Int]
HopConfig == [token : STRING, fee : Nat]
DexConfig == [ venue : STRING, chain : STRING, base : TokenConfig, quote : TokenConfig,
               pool : STRING, fee : Nat, route : Seq(HopConfig) ]
PairConfig == [ symbol : STRING, enabled : BOOLEAN, venue : STRING, cexSymbol : STRING,
                sizes : Seq(Int), interval : Int, basis : STRING, dex : DexConfig ]
IsConfig(c) ==
    /\ DOMAIN c = {"every", "rates", "urls", "pairs"}
    /\ c.every \in [DOMAIN Default -> Int]
    /\ \A chain \in DOMAIN c.rates : c.rates[chain] \in Int
    /\ c.pairs \in Seq(PairConfig)

Venues == {"binance", "kucoin"}
DexVenues == {"uniswap_v2", "uniswap_v3", "lfj", "velodrome", "jupiter"}

WithSymbol(p) ==
    IF p.venue \in Venues /\ p.cexSymbol = Empty
    THEN [p EXCEPT !.cexSymbol = SymbolAt[p.symbol][p.venue]] ELSE p

\* Only a zero is replaced: a negative setting stays.
DefaultIfZero(n, name) == IF n = 0 THEN Default[name] ELSE n

ApplyDefaults(c) ==
    [c EXCEPT !.every = [name \in DOMAIN @ |-> DefaultIfZero(@[name], name)],
              !.pairs = [j \in 1 .. Len(@) |-> WithSymbol(@[j])]]

ValidPair(p) ==
    p.enabled => /\ p.sizes # <<>>
                 /\ \A k \in 1 .. Len(p.sizes) : p.sizes[k] > 0
                 /\ p.venue \in Venues
                 /\ p.dex.venue \in DexVenues

\* A symbol is taken even by a pair that is disabled.
SymbolsDiffer(pairs) == \A j, m \in 1 .. Len(pairs) : j # m => pairs[j].symbol # pairs[m].symbol

ValidateEachPair(c) ==
    /\ c.pairs # <<>>
    /\ \A j \in 1 .. Len(c.pairs) : c.pairs[j].symbol # Empty /\ ValidPair(c.pairs[j])
Validate(c) == ValidateEachPair(c) /\ SymbolsDiffer(c.pairs)

\* A rate that is set is used, a 0 too.
RateLimitFor(c, chain) == IF chain \in DOMAIN c.rates THEN c.rates[chain] ELSE DefaultRate

EffectiveInterval(c, p) == IF p.interval > 0 THEN p.interval ELSE c.every["poll_interval"]
===============================================================================
