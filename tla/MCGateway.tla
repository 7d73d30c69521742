------------------------------ MODULE MCGateway ------------------------------
(* Instances of Gateway for TLC. *)
EXTENDS Gateway

CONSTANTS admin, pauser, o1, o2, ag, v1, v2

P(receiver, validUntil, perPayment, perWindow, destinations) ==
  [active |-> TRUE, validUntil |-> validUntil, maxPerPayment |-> perPayment,
   maxPerWindow |-> perWindow, shareReceiver |-> receiver,
   allowedDestinations |-> destinations, retiredNonZero |-> FALSE]

\* Lifecycle: two owners compete for one agent, with a short and a long policy.
LifecyclePolicies == {P(o1, 4, 1, 1, {v1}), P(o2, 6, 1, 2, {v1})}

\* Deposits: one owner, an agent that may also register itself, a policy that
\* grows the budget, one that names another vault.
DepositPolicies == {P(o1, 7, 2, 2, {v1}), P(o1, 8, 1, 3, {v1, v2}), P(ag, 7, 1, 2, {v2})}
=============================================================================
