------------------------------ MODULE MCRouter ------------------------------
(* Instances of PortfolioRouter for TLC. *)
EXTENDS PortfolioRouter

CONSTANTS v1, v2, v3

W(v, b) == [vault |-> v, bps |-> b]

\* Every subset of two vaults, a repeated vault, a wrong sum, nothing.
InterlockVectors ==
  {<<W(v1, 10000)>>, <<W(v2, 10000)>>, <<W(v1, 5000), W(v2, 5000)>>,
   <<W(v1, 9000), W(v1, 1000)>>, <<W(v1, 9500), W(v2, 400)>>, << >>}

\* Splits that round, with an unweighted leg at the end.
DepositVectors == {<<W(v1, 5000), W(v2, 3000), W(v3, 2000)>>,
                   <<W(v1, 6000), W(v2, 4000)>>,
                   <<W(v1, 5000), W(v2, 5000), W(v3, 0)>>}

DepositFloors == {<< >>, <<0, 0, 0>>, <<1, 0, 2>>, <<1, 0>>}

\* No refusal; v3 has gone stale; v3 is stale and v2 refuses more than 1.
DepositQuoteFailures ==
  {[v \in Vaults |-> {}], [v \in Vaults |-> IF v = v3 THEN 1 .. 9 ELSE {}],
   [v \in Vaults |-> IF v = v3 THEN 1 .. 9 ELSE IF v = v2 THEN 2 .. 9 ELSE {}]}

NoFloors == {<< >>}
NoFailures == {[v \in Vaults |-> {}]}

RelinkVectors == {<<W(v1, 10000)>>, <<W(v1, 9500), W(v2, 500)>>}

R(v, s, m) == [vault |-> v, shares |-> s, minAssets |-> m]
RedeemLegs == {<<R(v1, 1, 0)>>, <<R(v1, 1, 1), R(v2, 1, 0)>>, <<R(v2, 2, 1)>>, <<R(v1, 0, 0)>>}
=============================================================================
