------------------------------- MODULE MCVault -------------------------------
(***************************************************************************)
(* Small instances of Vault for TLC.                                       *)
(***************************************************************************)
EXTENDS Vault

CONSTANTS h1, h2, fee, a1, a2

OneAdapter == {a1}
TwoAdapters == {a1, a2}
OneCode == [a \in Adapters |-> "code"]

OneFunded == [h \in Holders |-> IF h = h1 THEN 2 ELSE 0]
ThreeEach == [h \in Holders |-> 3]

EveryTarget(values) == UNION {[1 .. n -> values] : n \in 0 .. MaxEntries}
NoTargets == {}
DrainTargets == EveryTarget({0})
=============================================================================
