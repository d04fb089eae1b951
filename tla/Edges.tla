-------------------------------- MODULE Edges --------------------------------
(***************************************************************************)
(* The spread arithmetic of internal/engine/sample.go, in whole basis      *)
(* points: prices are integers in a unit fine enough for the instance, the *)
(* basis is a percentage (100 = one CEX quote unit per DEX quote unit) and *)
(* 0 stands for "unset", as in the code.                                   *)
(***************************************************************************)
EXTENDS Integers

BpsScale == 10000

\* costBps: the fixed costs of a trade as basis points of its size.
CostBps(fee, gas, buffer, size) == fee + buffer + (gas * BpsScale) \div size

\* (num / den - 1) in basis points.
SpreadBps(num, den) == (num * BpsScale) \div den - BpsScale

\* computeEdges' basis: identity when unset.
EffectiveBasis(basis) == IF basis <= 0 THEN 100 ELSE basis

Greater(a, b) == IF a > b THEN a ELSE b

\* The net edges of both directions; a direction whose price is missing keeps
\* the zero value of the field.
ComputeEdges(bid, ask, buy, sell, basis, cost) ==
    LET b == EffectiveBasis(basis)
    IN  [ buyDex    |-> IF buy > 0 THEN SpreadBps(bid, buy) - cost ELSE 0,
          buyCex    |-> IF ask > 0 THEN SpreadBps(sell, ask) - cost ELSE 0,
          buyDexAdj |-> IF buy > 0 THEN SpreadBps(bid * 100, buy * b) - cost ELSE 0,
          buyCexAdj |-> IF ask > 0 THEN SpreadBps(sell * b, ask * 100) - cost ELSE 0 ]

\* The direction the engine ranks and announces is the better one on raw
\* prices; what it nets there, raw and corrected for the basis.
BestRaw(e) == Greater(e.buyDex, e.buyCex)
AdjOfBestRaw(e) == IF e.buyCex > e.buyDex THEN e.buyCexAdj ELSE e.buyDexAdj

\* BucketMomentum: a change of the CEX mid against the pair's threshold.
BucketMomentum(change, threshold) ==
    IF change < -threshold THEN "down"
    ELSE IF change > threshold THEN "up"
    ELSE "flat"
===============================================================================
