------------------------------ MODULE MCReport ------------------------------
(***************************************************************************)
(* Report over every table of a few rows whose stamps leave room for equal *)
(* ones, regular ones and an outage.  A pair costs 1 bp a trade; its DEX   *)
(* quote is 2 bps above the CEX bid, or below it by 1 to 3.                *)
(***************************************************************************)
EXTENDS Report

SomeTimes == {0, 1, 2, 5}
Cost == 1
Threshold == 2

\* The edges of a row whose raw gross edge is gross, and of which the basis
\* takes shift; the other direction is its mirror.
Both(buy, sell) == [d \in Directions |-> IF d = "buy_dex_sell_cex" THEN buy ELSE sell]

Kind(origin, include, size, gross, shift, chg) ==
    LET adj(n) == IF origin = "legacy" THEN 0 ELSE n
    IN  [ ts |-> 0, origin |-> origin, include |-> include, size |-> size,
          gross |-> Both(gross, -gross),
          net |-> Both(gross - Cost, -gross - Cost),
          grossAdj |-> Both(adj(gross - shift), adj(-gross + shift)),
          netAdj |-> Both(adj(gross - shift - Cost), adj(-gross + shift - Cost)),
          ok |-> chg # 0, chg |-> chg,
          bucket |-> IF chg = 0 \/ origin = "legacy" THEN ""
                     ELSE BucketMomentum(chg, Threshold) ]

PlainKinds == { Kind("modern", TRUE, 1, -2, 0, -Threshold),
                Kind("modern", TRUE, 1, 2, 0, 0),
                Kind("modern", TRUE, 1, 3, 0, Threshold + 1) }

\* Excluded; corrected to a loss and to exactly nothing; old; another size.
SomeOddKinds == { Kind("modern", FALSE, 1, 3, 0, Threshold),
                  Kind("modern", TRUE, 1, 3, 2, -Threshold - 1),
                  Kind("modern", TRUE, 1, 2, 2, 0),
                  Kind("legacy", TRUE, 1, 2, 0, -Threshold),
                  Kind("modern", TRUE, 2, 2, 0, Threshold) }

SomeRowKinds == PlainKinds \cup SomeOddKinds
=============================================================================
