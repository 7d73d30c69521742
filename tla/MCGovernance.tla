----------------------------- MODULE MCGovernance -----------------------------
(* Instances of RouterGovernance for TLC. *)
EXTENDS RouterGovernance

CONSTANTS g1, g2, ra, rb, Council

Apply(g, r, d, x) ==
  [name |-> "applyReceipt", governance |-> g, receipt |-> r, digest |-> d, vector |-> x]
Rotate(t) == [name |-> "executeWeightSetterRotation", account |-> t]
Releaser(a, holds) == [name |-> "setReleaser", account |-> a, holds |-> holds]
Admin(a, holds) == [name |-> "setRouterAdmin", account |-> a, holds |-> holds]
Proposer(a, holds) == [name |-> "setProposer", account |-> a, holds |-> holds]
Release(r) == [name |-> "releaseReceipt", receipt |-> r]
Clear(g) == [name |-> "clearVotedWeights", governance |-> g]
Delay(d) == [name |-> "updateDelay", delay |-> d]

va == <<1>>
vb == <<2>>
BothVectors == {va, vb}
AcceptableSets == {{va, vb}, {vb}}
OneSet == {{va, vb}}

\* Two receipts, a wrong digest, the emergency lever and a direct release.
ReceiptCalls ==
  {Apply(g1, ra, 1, va), Apply(g1, rb, 1, vb), Apply(g1, rb, 2, va), Clear(g1),
   Releaser(Timelock, TRUE), Release(ra)}

\* Rotation with a shorter delay, while proposers and router admins come and go.
RotationRoleCalls ==
  {Rotate(g2), Delay(1), Proposer(Council, TRUE), Proposer(Safe, FALSE), Admin(g1, FALSE),
   Admin(Timelock, FALSE)}
=============================================================================
