--------------------------- MODULE GatewayWindows ---------------------------
(***************************************************************************)
(* The rolling-window ring buffer of contracts/lib/GatewayWindows.sol, as  *)
(* operators on one `RollingWindow` record                                 *)
(*     [slots |-> a sequence of entries, head, count, total].              *)
(* `slots` is the storage array (its length is the live capacity), `head`  *)
(* the zero-based index of the oldest live entry, `count` the number of    *)
(* live entries and `total` their cumulative amount.  TLA+ sequences start *)
(* at 1, so Solidity's slots[i] is slots[i + 1] here.                      *)
(***************************************************************************)
EXTENDS Integers, Sequences, FiniteSetsExt

CONSTANT WINDOW_SECONDS

ASSUME WindowSecondsAssumption == WINDOW_SECONDS \in Nat \ {0}

\* One entry per distinct second of the window at most.
MAX_WINDOW_ENTRIES == WINDOW_SECONDS

WindowEntry == [timestamp : Nat, amount : Nat]

EmptyWindow == [slots |-> << >>, head |-> 0, count |-> 0, total |-> 0]

Cutoff(now) == IF now > WINDOW_SECONDS THEN now - WINDOW_SECONDS ELSE 0

\* An index that ran past the end of the ring by less than one lap.
Wrap(i, cap) == IF i >= cap THEN i - cap ELSE i

\* The i-th live entry, oldest first, 0 <= i < w.count.
Live(w, i) == w.slots[Wrap(w.head + i, Len(w.slots)) + 1]

SumOfOldest(w, k) == MapThenSumSet(LAMBDA i : Live(w, i).amount, 0 .. (k - 1))

\* (mutant: an entry exactly WINDOW_SECONDS old is kept)
ExpiredPrefix_Inclusive(w, now) ==
  CHOOSE k \in 0 .. w.count :
    /\ \A i \in 0 .. (k - 1) : Live(w, i).timestamp < Cutoff(now)
    /\ k < w.count => Live(w, k).timestamp >= Cutoff(now)

\* Where the scanning loops of `_prune` and `effectiveTotal` stop: they drop
\* the longest prefix of live entries that are at or before the cutoff.
ExpiredPrefix(w, now) ==
  CHOOSE k \in 0 .. w.count :
    /\ \A i \in 0 .. (k - 1) : Live(w, i).timestamp <= Cutoff(now)
    /\ k < w.count => Live(w, k).timestamp > Cutoff(now)

effectiveTotal(w, now) == w.total - SumOfOldest(w, ExpiredPrefix(w, now))

Prune(w, now) ==
  LET k == ExpiredPrefix(w, now)
  IN  [slots |-> w.slots,
       head  |-> IF k = w.count THEN 0 ELSE Wrap(w.head + k, Len(w.slots)),
       count |-> w.count - k,
       total |-> w.total - SumOfOldest(w, k)]

\* `_reverseRange`: reverse the zero-based half-open range [lo, hi) in place.
ReverseRange(slots, lo, hi) ==
  [i \in 1 .. Len(slots) |->
     IF lo < i /\ i <= hi THEN slots[(lo + hi + 1) - i] ELSE slots[i]]

\* (mutant: the final whole-range reversal is missing)
Relinearize_TwoReversals(w) ==
  [slots |-> ReverseRange(ReverseRange(w.slots, 0, w.head), w.head, Len(w.slots)),
   head |-> 0, count |-> w.count, total |-> w.total]

\* Rotate a full ring by three reversals so that its oldest entry is first.
Relinearize(w) ==
  LET len == Len(w.slots)
      swapped == ReverseRange(ReverseRange(w.slots, 0, w.head), w.head, len)
  IN  IF w.head = 0 THEN w
      ELSE [slots |-> ReverseRange(swapped, 0, len), head |-> 0,
            count |-> w.count, total |-> w.total]

\* (mutant: no coalescing)
SameSecond_Never(w, now) == FALSE

\* The newest live entry carries the current second: the operation coalesces.
SameSecond(w, now) == w.count > 0 /\ Live(w, w.count - 1).timestamp = now

\* The guarded revert of `_append`.
WindowBufferFull(w, now) ==
  /\ ~SameSecond(w, now)
  /\ w.count = Len(w.slots)
  /\ w.count >= MAX_WINDOW_ENTRIES

\* (mutant: the coalesced amount is left out of the total)
Coalesce_TotalStale(w, amount) ==
  [slots |-> [w.slots EXCEPT ![Wrap(w.head + w.count - 1, Len(w.slots)) + 1].amount = @ + amount],
   head |-> w.head, count |-> w.count, total |-> w.total]

Coalesce(w, amount) ==
  [slots |-> [w.slots EXCEPT ![Wrap(w.head + w.count - 1, Len(w.slots)) + 1].amount = @ + amount],
   head |-> w.head, count |-> w.count, total |-> w.total + amount]

Grow(w, entry) ==
  [slots |-> Append(Relinearize(w).slots, entry), head |-> 0,
   count |-> w.count + 1, total |-> w.total + entry.amount]

ReuseSlot(w, entry) ==
  [slots |-> [w.slots EXCEPT ![Wrap(w.head + w.count, Len(w.slots)) + 1] = entry],
   head |-> w.head, count |-> w.count + 1, total |-> w.total + entry.amount]

AppendEntry(w, now, amount) ==
  LET entry == [timestamp |-> now, amount |-> amount]
  IN  IF SameSecond(w, now) THEN Coalesce(w, amount)
      ELSE IF w.count = Len(w.slots) THEN Grow(w, entry)
      ELSE ReuseSlot(w, entry)

\* `accrue` returns true and does not revert.
CanAccrue(w, now, amount, cap) ==
  LET p == Prune(w, now)
  IN  p.total + amount <= cap /\ ~WindowBufferFull(p, now)

Accrue(w, now, amount) == AppendEntry(Prune(w, now), now, amount)

\* What `_endRegistration` does to the window: the slots stay allocated.
ClearWindow(w) == [slots |-> w.slots, head |-> 0, count |-> 0, total |-> 0]
=============================================================================
