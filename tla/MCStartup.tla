------------------------------ MODULE MCStartup ------------------------------
(***************************************************************************)
(* Startup on files of six pairs, of which one is disabled and one has no  *)
(* RPC URL, two share a feed and a basis and three a chain; on one file    *)
(* for every way to configure a quoter; and on files to refuse.            *)
(***************************************************************************)
EXTENDS Startup

(***************************************************************************)
(* The chain.                                                              *)
(***************************************************************************)
Pool(addr, kind, first, second, fee) ==
    [addr |-> addr, kind |-> kind, first |-> first, second |-> second, fee |-> fee,
     listed |-> TRUE]

SomeDeployed ==
    { Pool("v2 AAA", "uniswap_v2", "AAA", "USDT", 0),
      Pool("v2 BBB", "uniswap_v2", "USDT", "BBB", 0),
      Pool("v2 AAA weth", "uniswap_v2", "AAA", "WETH", 0),
      Pool("v2 weth", "uniswap_v2", "USDT", "WETH", 0),
      [Pool("v2 fake", "uniswap_v2", "AAA", "USDT", 0) EXCEPT !.listed = FALSE],
      Pool("v3 AAA", "uniswap_v3", "AAA", "USDT", 500),
      Pool("v3 weth", "uniswap_v3", "USDT", "WETH", 500),
      Pool("v3 AAA weth", "uniswap_v3", "AAA", "WETH", 3000),
      Pool("v3 AAA weth 2", "uniswap_v3", "AAA", "WETH", 500),
      Pool("v3 weth 2", "uniswap_v3", "USDT", "WETH", 3000),
      Pool("lfj AAA", "lfj", "AAA", "USDT", 0),
      Pool("lfj BBB", "lfj", "USDT", "BBB", 0),
      Pool("velo AAA", "velodrome", "AAA", "USDT", 0) }

SomeDecimals ==
    ("AAA" :> 18) @@ ("BBB" :> 9) @@ ("USDT" :> 6) @@ ("WETH" :> 18) @@ ("ODD" :> 40)

(***************************************************************************)
(* Quoters, good and bad.                                                  *)
(***************************************************************************)
Token(t) == [address |-> t, decimals |-> 0]
Mint(t) == [address |-> t, decimals |-> SomeDecimals[t]]

Dex(venue, chain, base, pool, fee, route) ==
    [venue |-> venue, chain |-> chain, base |-> base, quote |-> Token("USDT"),
     pool |-> pool, fee |-> fee, route |-> route]
OnEthereum(venue, base, pool, fee, route) ==
    Dex(venue, "ethereum", Token(base), pool, fee, route)
Hop(fee) == << [token |-> "WETH", fee |-> fee] >>

DexConfigs ==
    { OnEthereum("uniswap_v2", "AAA", pool, 0, <<>>) : pool \in {None, "v2 AAA", "v2 fake"} }
    \cup { OnEthereum("uniswap_v2", "AAA", pool, 0, Hop(0)) :
              pool \in {None, "v2 AAA", "v2 AAA weth"} }
    \cup { OnEthereum(venue, "BBB", pool, 0, <<>>) :
              venue \in {"uniswap_v2", "lfj", "velodrome"},
              pool \in {None, "lfj BBB", "velo AAA"} }
    \cup { OnEthereum("uniswap_v3", "AAA", pool, fee, <<>>) :
              pool \in {None, "v3 AAA"}, fee \in {0, 500, 10000} }
    \cup { OnEthereum("uniswap_v3", "AAA", None, 3000, Hop(fee)) : fee \in {0, 500} }
    \cup { OnEthereum(venue, "AAA", pool, 0, <<>>) :
              venue \in {"lfj", "velodrome"}, pool \in {"lfj AAA", "velo AAA"} }
    \cup { OnEthereum("uniswap_v3", t, None, 500, <<>>) : t \in {"ODD", "not an address"} }
    \cup { [Dex("jupiter", "solana", base, None, 0, <<>>) EXCEPT !.quote = Mint("USDT")] :
              base \in {Token("AAA"), Mint("AAA")} }

(***************************************************************************)
(* Files.                                                                  *)
(***************************************************************************)
Plain(chain) == Dex("velodrome", chain, Token("AAA"), "velo AAA", 0, <<>>)

Pair(sym, venue, chain, basis) ==
    [ symbol |-> sym, enabled |-> TRUE, venue |-> venue, cexSymbol |-> Empty, sizes |-> <<100, 500>>,
      interval |-> 0, basis |-> basis, dex |-> Plain(chain) ]

SixPairs == <<
    Pair("AAA/USDT", "binance", "ethereum", "USDCUSDT"),
    Pair("BBB/USDT", "binance", "ethereum", "USDCUSDT"),
    [Pair("CCC/USDT", "kucoin", "ethereum", Empty) EXCEPT !.cexSymbol = "CCX"],
    Pair("DDD/USDT", "binance", "polygon",  "USDCUSDT"),
    [Pair("EEE/USDT", "kucoin",  "ethereum", Empty) EXCEPT !.enabled = FALSE],
    Pair("FFF/USDT", "kucoin",  "base",     Empty) >>

SomeDefaults == ("poll_interval" :> 6) @@ ("summary_interval" :> 60)

File(pairs) ==
    [ every |-> ("poll_interval" :> 0) @@ ("summary_interval" :> 30),
      rates |-> ("ethereum" :> 5), urls |-> {"ethereum", "polygon"}, pairs |-> pairs ]

APair == Pair("AAA/USDT", "binance", "ethereum", Empty)
BadPairs == { [APair EXCEPT !.symbol = Empty], [APair EXCEPT !.sizes = <<>>],
              [APair EXCEPT !.sizes = <<100, 0>>], [APair EXCEPT !.venue = "okx"],
              [APair EXCEPT !.dex.venue = "curve"] }

SomeFiles ==
    { File(SixPairs), File([SixPairs EXCEPT ![1].interval = 9]), File(<<>>),
      File(<<APair, [APair EXCEPT !.enabled = FALSE]>>), File(<<APair, APair>>) }
    \cup { File(<<[APair EXCEPT !.dex = d]>>) : d \in DexConfigs }
    \cup { File(<<p>>) : p \in BadPairs }
    \cup { File(<<APair, [p EXCEPT !.enabled = FALSE, !.symbol = "BBB/USDT"]>>) : p \in BadPairs }

SomeSymbols ==
    [s \in {"AAA/USDT", "BBB/USDT", "CCC/USDT", "DDD/USDT", "EEE/USDT", "FFF/USDT", Empty} |->
        [v \in Venues |-> IF v = "binance" THEN s \o " joined" ELSE s \o " dashed"]]
===============================================================================
