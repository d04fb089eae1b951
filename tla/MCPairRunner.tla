----------------------------- MODULE MCPairRunner -----------------------------
(***************************************************************************)
(* Instances of PairRunner.  Every duration shrinks to one or two units of *)
(* the clock, so that within the horizon each staleness limit, timeout and *)
(* refresh is met exactly, kept and overrun.                               *)
(***************************************************************************)
EXTENDS PairRunner

TwoSizes == <<100, 1000>>
OneSize == <<1000>>
SomeCosts == [fee |-> 10, buffer |-> 5, gas |-> 1]

OnePrice == {<<100, 100>>}
\* Plausible, and a book whose bid is far above its ask.
MixedPrices == {<<100, 100>>, <<200, 100>>}
OneBasis == {100}
MixedBasis == {0, 102}

OneDexPrice == {100}
\* Nothing comes out, a cheap DEX, a dear one.
MixedDex == {0, 90, 110}

\* One percent below the CEX: within the fees of a two percent basis.
OnePercentOff == {99}

NoTVL == {-1}
ThinAndDeep == {5, 20}
===============================================================================
