----------------------------- MODULE RouterSplit -----------------------------
(***************************************************************************)
(* How PortfolioRouter.sol splits a deposit over a weight vector: the      *)
(* proportional split over the available legs, and the rounds that drop    *)
(* the legs whose quote reverts.                                           *)
(***************************************************************************)
EXTENDS Integers, Sequences, FiniteSets

\* A vector is a sequence of [vault, bps] records (the two parallel arrays).
Legs(x) == DOMAIN x

\* Sum of f over the first n legs, by position.
SumTo(f, n) == LET s[i \in 0 .. n] == IF i = 0 THEN 0 ELSE s[i - 1] + f[i] IN s[n]

TotalBps(x) == SumTo([i \in Legs(x) |-> x[i].bps], Len(x))

AvailableBps(x, available) ==
  SumTo([i \in Legs(x) |-> IF i \in available THEN x[i].bps ELSE 0], Len(x))

Nothing(x) == [i \in Legs(x) |-> 0]

\* (mutant: the remainder goes to the last available leg, weighted or not)
RemainderLeg_AnyLeg(x, available) ==
  CHOOSE i \in available : \A j \in available : j <= i

\* The sink of the rounding remainder: the last available leg with weight.
RemainderLeg(x, available) ==
  LET weighted == {i \in available : x[i].bps # 0}
  IN  CHOOSE i \in weighted : \A j \in weighted : j <= i

\* (mutant: the shares of the dropped legs are not redistributed)
Share_OfAll(x, available, amount, i) == (amount * x[i].bps) \div TotalBps(x)

\* The rounded-down part of leg i, in proportion to the available bps.
Share(x, available, amount, i) == (amount * x[i].bps) \div AvailableBps(x, available)

\* `_splitAcrossAvailable`.
SplitAcrossAvailable(x, available, amount) ==
  IF AvailableBps(x, available) = 0 THEN Nothing(x)
  ELSE LET base == [i \in Legs(x) |->
                      IF i \in available THEN Share(x, available, amount, i) ELSE 0]
           rest == amount - SumTo(base, Len(x))
       IN  IF rest > 0 THEN [base EXCEPT ![RemainderLeg(x, available)] = @ + rest] ELSE base

\* (mutant: one round of quotes)
Surviving_OneRound(x, amount, reverts, available) ==
  LET split == SplitAcrossAvailable(x, available, amount)
  IN  {i \in available : split[i] = 0 \/ split[i] \notin reverts[x[i].vault]}

\* The rounds of `_availabilityAndAmounts`: every funded leg is quoted at its
\* part of the split, the legs whose quote reverts are dropped, and the split
\* runs again over the rest until none is.  reverts[v] is the set of amounts at
\* which v's `previewDeposit` reverts.
Surviving(x, amount, reverts, available) ==
  LET round[S \in SUBSET available] ==
        LET split == SplitAcrossAvailable(x, S, amount)
            dropped == {i \in S : split[i] # 0 /\ split[i] \in reverts[x[i].vault]}
        IN  IF dropped = {} THEN S ELSE round[S \ dropped]
  IN  round[available]
=============================================================================
