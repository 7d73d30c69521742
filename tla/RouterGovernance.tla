--------------------------- MODULE RouterGovernance ---------------------------
(***************************************************************************)
(* How router weights are governed: the receipt register                   *)
(* (ConsensusRecommendationReceipt.sol), RouterGovernance.sol, the         *)
(* weight-setter rotation of PortfolioRouter.sol and the timelock          *)
(* (ProposerFloorTimelock.sol on OpenZeppelin's controller) in front of    *)
(* them.  The state starts where the timelock handover leaves it: the Safe *)
(* proposes, anybody executes.  Which vectors the router accepts is the    *)
(* subject of PortfolioRouter; here it is a set that the registry moves.   *)
(***************************************************************************)
EXTENDS Integers, Sequences, FiniteSets

CONSTANTS Governances,      \* RouterGovernance deployments
          FirstGovernance,  \* the one the handover leaves in office
          Safe, Timelock, Router,
          Accounts,         \* the Safe, and others that may become proposer or rotator
          NoOne,            \* address(0)
          Receipts, Digests, Vectors,
          Acceptable,       \* sets of vectors the router may accept
          Calls,            \* calls the Safe schedules
          Targets,          \* addresses with code proposed as weight setter
          InitialDelay, MaxDelay,
          MaxTime,          \* bound on the clock
          MaxPending        \* bound on the operations in the timelock

Contracts == Governances \cup {Safe, Timelock, Router}

ASSUME GovernanceAssumption ==
  /\ FirstGovernance \in Governances
  /\ {Safe, Timelock, Router} \cap Governances = {}
  /\ Cardinality({Safe, Timelock, Router}) = 3
  /\ NoOne \notin Contracts \cup Accounts \cup Targets
  /\ Acceptable \subseteq SUBSET Vectors
  /\ << >> \notin Vectors  \* the weights of an accepted vector sum to 100%
  /\ \A c \in Calls :
       /\ c.name = "applyReceipt" => c.governance \in Governances /\ c.receipt \in Receipts
       /\ c.name = "updateDelay" => c.delay \in Nat
  /\ InitialDelay \in Nat /\ MaxDelay \in Nat /\ MaxTime \in Nat /\ MaxPending \in Nat

VARIABLES
  now,
  receipts,               \* receipt id -> record, for the recorded ones
  releasers,              \* holders of RECEIPT_RELEASER_ROLE
  lastAppliedRecordedAt,  \* governance -> timestamp
  weights, votedWeightsActive,  \* the router's active vector
  acceptable,             \* vectors the router's checks accept now
  weightSetters, rotators, executors, routerAdmins,  \* roles on the router
  pendingWeightSetterRotation,  \* [newHolder, proposedAt]
  minDelay, proposers, proposerCount,  \* the timelock
  pending,                \* scheduled operations: [call, readyAt]
  applied,                \* the ReceiptApplied log
  burnt                   \* receipts released without a vector

receiptVars == <<receipts, releasers, burnt>>
weightVars == <<lastAppliedRecordedAt, weights, votedWeightsActive, applied>>
roleVars == <<weightSetters, rotators, executors, routerAdmins, pendingWeightSetterRotation>>
timelockVars == <<minDelay, proposers, proposerCount>>
vars == <<now, receiptVars, weightVars, acceptable, roleVars, timelockVars, pending>>

NoVector == << >>
NoRotation == [newHolder |-> NoOne, proposedAt |-> 0]

Init ==
  /\ now = 1
  /\ receipts = << >>
  /\ releasers = {FirstGovernance}
  /\ lastAppliedRecordedAt = [g \in Governances |-> 0]
  /\ weights = NoVector /\ votedWeightsActive = FALSE
  /\ acceptable \in Acceptable
  /\ weightSetters = {FirstGovernance}
  /\ rotators = {Safe} /\ executors = {Timelock}
  /\ routerAdmins = {Timelock, FirstGovernance}
  /\ pendingWeightSetterRotation = NoRotation
  /\ minDelay = InitialDelay /\ proposers = {Safe} /\ proposerCount = 1
  /\ pending = {}
  /\ applied = << >> /\ burnt = {}

Tick ==
  /\ now < MaxTime
  /\ now' = now + 1
  /\ UNCHANGED <<receiptVars, weightVars, acceptable, roleVars, timelockVars, pending>>

\* Statuses and eligibility move, and with them what the router accepts.
RegistryMoves ==
  /\ acceptable' \in Acceptable \ {acceptable}
  /\ UNCHANGED <<now, receiptVars, weightVars, roleVars, timelockVars, pending>>

-----------------------------------------------------------------------------
(* The receipt register *)

isRecorded(id) == id \in DOMAIN receipts

recordReceipt(id, digest) ==
  /\ ~isRecorded(id)
  /\ receipts' = [i \in DOMAIN receipts \cup {id} |->
       IF i = id THEN [payloadDigest |-> digest, recordedAt |-> now, released |-> FALSE]
       ELSE receipts[i]]
  /\ UNCHANGED <<now, releasers, burnt, weightVars, acceptable, roleVars, timelockVars, pending>>

\* (mutant: the receipt is not marked)
ReleaseReceipt_Unmarked(sender, id) ==
  sender \in releasers /\ isRecorded(id) /\ ~receipts[id].released /\ receipts' = receipts

\* `releaseReceipt` called by `sender`.
ReleaseReceipt(sender, id) ==
  /\ sender \in releasers
  /\ isRecorded(id) /\ ~receipts[id].released
  /\ receipts' = [receipts EXCEPT ![id].released = TRUE]

-----------------------------------------------------------------------------
(* Calls the timelock makes *)

\* (mutant: a receipt as old as the last applied one passes)
Newer_OrEqual(g, id) == receipts[id].recordedAt >= lastAppliedRecordedAt[g]

Newer(g, id) == receipts[id].recordedAt > lastAppliedRecordedAt[g]

\* (mutant: the vector is only cleared out, the routing flag left alone)
SetWeights_FlagLeft(sender, vector) ==
  /\ sender \in weightSetters /\ vector \in acceptable
  /\ weights' = vector /\ UNCHANGED votedWeightsActive

\* `setWeights` of the router called by `sender`.
SetWeights(sender, vector) ==
  /\ sender \in weightSetters
  /\ vector \in acceptable
  /\ weights' = vector /\ votedWeightsActive' = TRUE

applyReceipt(g, id, digest, vector) ==
  /\ isRecorded(id) /\ ~receipts[id].released
  /\ receipts[id].payloadDigest = digest
  /\ Newer(g, id)
  /\ lastAppliedRecordedAt' = [lastAppliedRecordedAt EXCEPT ![g] = receipts[id].recordedAt]
  /\ ReleaseReceipt(g, id)
  /\ SetWeights(g, vector)
  /\ applied' = Append(applied, [governance |-> g, receipt |-> id, vector |-> vector])
  /\ UNCHANGED <<releasers, burnt, roleVars, timelockVars>>

\* The timelock releases a receipt itself, which needs the role.
releaseReceipt(id) ==
  /\ ReleaseReceipt(Timelock, id)
  /\ burnt' = burnt \cup {id}
  /\ UNCHANGED <<releasers, weightVars, roleVars, timelockVars>>

\* Forwarded by a governance, which needs ADMIN_ROLE on the router.
clearVotedWeights(g) ==
  /\ g \in routerAdmins
  /\ weights' = NoVector /\ votedWeightsActive' = FALSE
  /\ UNCHANGED <<lastAppliedRecordedAt, applied, receiptVars, roleVars, timelockVars>>

\* RECEIPT_RELEASER_ROLE, which the timelock administers.
setReleaser(account, holds) ==
  /\ releasers' = IF holds THEN releasers \cup {account} ELSE releasers \ {account}
  /\ UNCHANGED <<receipts, burnt, weightVars, roleVars, timelockVars>>

\* ADMIN_ROLE of the router, with the floor of AdminFloorAccessControl.
setRouterAdmin(account, holds) ==
  /\ Timelock \in routerAdmins
  /\ ~holds /\ account \in routerAdmins => Cardinality(routerAdmins) # 1
  /\ routerAdmins' = IF holds THEN routerAdmins \cup {account} ELSE routerAdmins \ {account}
  /\ UNCHANGED <<receiptVars, weightVars, weightSetters, rotators, executors,
                 pendingWeightSetterRotation, timelockVars>>

updateDelay(d) ==
  /\ minDelay' = d
  /\ UNCHANGED <<receiptVars, weightVars, roleVars, proposers, proposerCount>>

\* (mutant: every revocation counts)
RevokeProposer_AlwaysCounts(account) ==
  /\ ~(proposerCount = 1 /\ account \in proposers)
  /\ proposers' = proposers \ {account}
  /\ proposerCount' = proposerCount - 1

\* `_revokeRole` of ProposerFloorTimelock.
RevokeProposer(account) ==
  /\ ~(proposerCount = 1 /\ account \in proposers)
  /\ proposers' = proposers \ {account}
  /\ proposerCount' = IF account \in proposers THEN proposerCount - 1 ELSE proposerCount

GrantProposer(account) ==
  /\ proposers' = proposers \cup {account}
  /\ proposerCount' = IF account \in proposers THEN proposerCount ELSE proposerCount + 1

setProposer(account, holds) ==
  /\ IF holds THEN GrantProposer(account) ELSE RevokeProposer(account)
  /\ UNCHANGED <<receiptVars, weightVars, roleVars, minDelay>>

-----------------------------------------------------------------------------
(* The rotation of the router's WEIGHT_SETTER_ROLE *)

RotationPending == pendingWeightSetterRotation.newHolder # NoOne

AllowedRotationTarget(target) == target \notin {Router} \cup rotators \cup executors

proposeWeightSetterRotation(sender, newHolder) ==
  /\ sender \in rotators
  /\ AllowedRotationTarget(newHolder)
  /\ ~RotationPending
  /\ pendingWeightSetterRotation' = [newHolder |-> newHolder, proposedAt |-> now]
  /\ UNCHANGED <<now, receiptVars, weightVars, acceptable, weightSetters, rotators, executors,
                 routerAdmins, timelockVars, pending>>

cancelWeightSetterRotation(sender) ==
  /\ sender \in rotators
  /\ RotationPending
  /\ pendingWeightSetterRotation' = NoRotation
  /\ UNCHANGED <<now, receiptVars, weightVars, acceptable, weightSetters, rotators, executors,
                 routerAdmins, timelockVars, pending>>

\* (mutant: the delay of the timelock operation is taken to be enough)
NoticeGiven_ByTimelock == TRUE

NoticeGiven == now >= pendingWeightSetterRotation.proposedAt + minDelay

\* Every holder loses the role, the target gains it.
executeWeightSetterRotation(expectedNewHolder) ==
  /\ Timelock \in executors
  /\ RotationPending
  /\ pendingWeightSetterRotation.newHolder = expectedNewHolder
  /\ NoticeGiven
  /\ AllowedRotationTarget(expectedNewHolder)
  /\ pendingWeightSetterRotation' = NoRotation
  /\ weightSetters' = {expectedNewHolder}
  /\ UNCHANGED <<receiptVars, weightVars, rotators, executors, routerAdmins, timelockVars>>

\* ROTATOR is self-administered: a holder grants and revokes it at once.
setRotator(sender, account, holds) ==
  /\ sender \in rotators
  /\ rotators' = IF holds THEN rotators \cup {account} ELSE rotators \ {account}
  /\ UNCHANGED <<now, receiptVars, weightVars, acceptable, weightSetters, executors,
                 routerAdmins, pendingWeightSetterRotation, timelockVars, pending>>

-----------------------------------------------------------------------------
(* The timelock *)

\* `schedule` with the minimum delay or a longer one; a fresh salt each time.
schedule(sender, call, delay) ==
  /\ sender \in proposers
  /\ delay >= minDelay
  /\ Cardinality(pending) < MaxPending
  /\ pending' = pending \cup {[call |-> call, readyAt |-> now + delay]}
  /\ UNCHANGED <<now, receiptVars, weightVars, acceptable, roleVars, timelockVars>>

\* The Safe, the only canceller, withdraws an operation.
cancel(operation) ==
  /\ pending' = pending \ {operation}
  /\ UNCHANGED <<now, receiptVars, weightVars, acceptable, roleVars, timelockVars>>

Perform(c) ==
  \/ c.name = "applyReceipt" /\ applyReceipt(c.governance, c.receipt, c.digest, c.vector)
  \/ c.name = "releaseReceipt" /\ releaseReceipt(c.receipt)
  \/ c.name = "clearVotedWeights" /\ clearVotedWeights(c.governance)
  \/ c.name = "setReleaser" /\ setReleaser(c.account, c.holds)
  \/ c.name = "setRouterAdmin" /\ setRouterAdmin(c.account, c.holds)
  \/ c.name = "updateDelay" /\ updateDelay(c.delay)
  \/ c.name = "setProposer" /\ setProposer(c.account, c.holds)
  \/ c.name = "executeWeightSetterRotation" /\ executeWeightSetterRotation(c.account)

\* The executor role is open; a call that reverts leaves its operation ready.
execute(operation) ==
  /\ operation.readyAt <= now
  /\ Perform(operation.call)
  /\ pending' = pending \ {operation}
  /\ UNCHANGED <<now, acceptable>>

Next ==
  \/ Tick
  \/ RegistryMoves
  \/ \E id \in Receipts, digest \in Digests : recordReceipt(id, digest)
  \/ \E sender \in Accounts, call \in Calls, delay \in 0 .. MaxDelay : schedule(sender, call, delay)
  \/ \E operation \in pending : cancel(operation)
  \/ \E operation \in pending : execute(operation)
  \/ \E sender \in Accounts, newHolder \in Targets : proposeWeightSetterRotation(sender, newHolder)
  \/ \E sender \in Accounts : cancelWeightSetterRotation(sender)
  \/ \E sender \in Accounts, account \in Accounts \cup Targets, holds \in BOOLEAN :
       setRotator(sender, account, holds)

Spec == Init /\ [][Next]_vars

-----------------------------------------------------------------------------
(* Properties *)

Receipt == [payloadDigest : Digests, recordedAt : Nat, released : BOOLEAN]
Entry == [governance : Governances, receipt : Receipts, vector : Vectors]

\* Type invariant; every entry of the log names a recorded receipt.
TypeOK ==
  /\ now \in Nat
  /\ DOMAIN receipts \subseteq Receipts
  /\ \A id \in DOMAIN receipts : receipts[id] \in Receipt /\ receipts[id].recordedAt <= now
  /\ lastAppliedRecordedAt \in [Governances -> Nat]
  /\ applied \in Seq(Entry)
  /\ \A i \in DOMAIN applied : applied[i].receipt \in DOMAIN receipts
  /\ burnt \subseteq DOMAIN receipts
  /\ votedWeightsActive \in BOOLEAN
  /\ minDelay \in Nat /\ proposerCount \in Nat
  /\ pendingWeightSetterRotation.proposedAt \in Nat

RecordedAt(i) == receipts[applied[i].receipt].recordedAt

\* Ready operations may be executed in any order, yet one governance applies
\* receipts in the order they were recorded, and none twice: `applyReceipt`
\* "refuses any receipt not recorded strictly later".
AppliedInOrder ==
  \A i, j \in DOMAIN applied :
    i < j /\ applied[i].governance = applied[j].governance => RecordedAt(i) < RecordedAt(j)

\* "a released receipt whose vector was not set cannot exist", unless the
\* timelock itself released it; and no receipt is applied twice, not even by
\* two governances.
ReleasedIsApplied ==
  /\ \A id \in DOMAIN receipts :
       receipts[id].released <=> id \in burnt \/ \E i \in DOMAIN applied : applied[i].receipt = id
  /\ \A i, j \in DOMAIN applied : applied[i].receipt = applied[j].receipt => i = j
  /\ \A i \in DOMAIN applied : applied[i].receipt \notin burnt

\* The router routes by an active vector exactly when it has one, and it is the
\* vector of the last applied receipt.
ActiveIsLastApplied ==
  /\ votedWeightsActive <=> weights # NoVector
  /\ votedWeightsActive => applied # << >> /\ weights = applied[Len(applied)].vector

\* An operation scheduled before the Safe proposes a rotation is no shortcut
\* through the delay: "the Safe cannot propose late and execute at once after
\* scheduling early" (ADR-0002).
RotationGivesNotice ==
  [][weightSetters' # weightSetters =>
       /\ RotationPending
       /\ now - pendingWeightSetterRotation.proposedAt >= minDelay
       /\ weightSetters' = {pendingWeightSetterRotation.newHolder}]_vars

\* Whoever becomes weight setter holds, at that moment, neither rotation role,
\* also when the roles moved after the proposal.
SetterOutsideRotation ==
  [][weightSetters' # weightSetters =>
       weightSetters' \cap ({Router} \cup rotators \cup executors) = {}]_vars

\* WEIGHT_SETTER_ROLE moves only with full notice and only out of reach of the
\* accounts that rotate it (`executeWeightSetterRotation`).
RotationSafe == RotationGivesNotice /\ SetterOutsideRotation

\* Some account can always schedule: the count kept by hand is the number of
\* proposers, so the floor holds; and the router keeps an admin.
FloorsHold ==
  /\ proposerCount = Cardinality(proposers) /\ proposers # {}
  /\ routerAdmins # {}
=============================================================================
