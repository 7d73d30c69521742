------------------------------ MODULE AgentWindow ------------------------------
(***************************************************************************)
(* One agent's deposit budget in RobotMoneyGateway: the ring buffer        *)
(* `_depositWindow[agent]` and the published pair                          *)
(* `agentDepositWindow[agent]`, driven by deposits (any amount, any        *)
(* maxPerWindow the owner's policy may hold at that moment), by the end of *)
(* the registration and by the block clock.                                *)
(***************************************************************************)
EXTENDS GatewayWindows

CONSTANTS Amounts,  \* deposit amounts
          Caps,     \* values of policy.maxPerWindow
          Start,    \* timestamp of the first block
          MaxTime   \* bound on the clock

ASSUME AgentWindowAssumption ==
  /\ Amounts \subseteq Nat \ {0}
  /\ Caps \subseteq Nat
  /\ Start \in Nat /\ Start > WINDOW_SECONDS
  /\ MaxTime \in Nat

VARIABLES now, w, agentDepositWindow

vars == <<now, w, agentDepositWindow>>

NoDepositWindow == [windowStart |-> 0, gross |-> 0]

Init ==
  /\ now = Start
  /\ w = EmptyWindow
  /\ agentDepositWindow = NoDepositWindow

\* The timestamp of a later block.
Tick == /\ \E t \in (now + 1) .. MaxTime : now' = t
        /\ UNCHANGED <<w, agentDepositWindow>>

\* `_accrueRollingDeposit`.
AccrueRollingDeposit(amount, cap) ==
  /\ CanAccrue(w, now, amount, cap)
  /\ w' = Accrue(w, now, amount)
  /\ agentDepositWindow' = [windowStart |-> Live(w', 0).timestamp, gross |-> w'.total]
  /\ UNCHANGED now

\* The window part of `_endRegistration`.
EndRegistration ==
  /\ w' = ClearWindow(w)
  /\ agentDepositWindow' = NoDepositWindow
  /\ UNCHANGED now

Next == \/ Tick
        \/ \E amount \in Amounts, cap \in Caps : AccrueRollingDeposit(amount, cap)
        \/ EndRegistration

Spec == Init /\ [][Next]_vars

-----------------------------------------------------------------------------
(* Properties *)

\* Type invariant: the indices stay inside the allocated slots.
TypeOK ==
  /\ now \in Nat
  /\ w.slots \in Seq(WindowEntry)
  /\ w.count \in 0 .. Len(w.slots)
  /\ w.head \in Nat
  /\ w.head < Len(w.slots) \/ w.head = 0
  /\ agentDepositWindow.windowStart \in Nat

\* The live entries of the ring, read oldest first through the wrap-around,
\* carry strictly increasing seconds that are not in the future: slot reuse and
\* the re-linearization never reorder or duplicate an entry (`_append`).
LiveOrdered ==
  /\ \A i \in 0 .. (w.count - 1) : Live(w, i).timestamp <= now
  /\ \A i, j \in 0 .. (w.count - 1) :
        i < j => Live(w, i).timestamp < Live(w, j).timestamp

\* The storage never outgrows one slot per second of the window: the bound the
\* library states for MAX_WINDOW_ENTRIES.
CapacityBounded == Len(w.slots) <= MAX_WINDOW_ENTRIES

\* The `WindowBufferFull` revert marked `coverage:unreachable` in `_append` is
\* unreachable: whenever `accrue` gets past `_prune`, it can append.
BufferNeverFull == ~WindowBufferFull(Prune(w, now), now)

\* Every entry still in the ring, expired or not, is at most one lap of seconds
\* apart from the newest one (the fact that keeps the ring small).
LiveSpanBounded ==
  \A i, j \in 0 .. (w.count - 1) :
    Live(w, j).timestamp - Live(w, i).timestamp < MAX_WINDOW_ENTRIES

\* Slots are reused: storage grows only in a step that ends with every slot
\* live, so the array length is the high-water mark of the live count.
GrowsOnlyWhenFull ==
  [][Len(w'.slots) # Len(w.slots) =>
        Len(w'.slots) = Len(w.slots) + 1 /\ w'.count = Len(w'.slots)]_vars

SpentAt(s) ==
  MapThenSumSet(LAMBDA i : Live(w, i).amount,
                {i \in 0 .. (w.count - 1) : Live(w, i).timestamp = s})

Exact == INSTANCE RollingCap WITH
           W <- WINDOW_SECONDS,
           spent <- [s \in (now - WINDOW_SECONDS + 1) .. now |-> SpentAt(s)]

\* The ring buffer implements the exact rolling window: every accrual, reset and
\* passing second is a step of RollingCap on the amounts spent in
\* (now - WINDOW_SECONDS, now], however late `_prune` gets to run.
RefinesRollingCap == Exact!Spec

\* `accrue` refuses nothing the exact window admits, and admits nothing it
\* refuses: the budget is available again the very second an entry expires.  The
\* view `effectiveDepositWindowGross`, which prunes only notionally, agrees.
AdmitsExactly ==
  /\ \A amount \in Amounts, cap \in Caps :
       CanAccrue(w, now, amount, cap) <=> Exact!SpentInWindow + amount <= cap
  /\ effectiveTotal(w, now) = Exact!SpentInWindow
=============================================================================
