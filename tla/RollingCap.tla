------------------------------ MODULE RollingCap ------------------------------
(***************************************************************************)
(* What the gateway promises about one agent's deposit budget, without any *)
(* buffer: the exact amount spent in each second of (now - W, now], and a  *)
(* deposit goes through exactly when the amount spent in that interval     *)
(* stays within the cap in force.  Ending the registration forgets it all. *)
(***************************************************************************)
EXTENDS Integers, FiniteSetsExt

CONSTANTS W,        \* length of the window, in seconds
          Amounts,  \* amounts a deposit may carry
          Caps,     \* values of maxPerWindow
          Start,    \* the first timestamp
          MaxTime   \* bound on the clock

VARIABLES now, spent

vars == <<now, spent>>

Seconds(t) == (t - W + 1) .. t

Nothing(t) == [s \in Seconds(t) |-> 0]

SpentInWindow == MapThenSumSet(LAMBDA s : spent[s], Seconds(now))

Init == now = Start /\ spent = Nothing(now)

Tick ==
  \E t \in (now + 1) .. MaxTime :
    /\ now' = t
    /\ spent' = [s \in Seconds(t) |-> IF s \in Seconds(now) THEN spent[s] ELSE 0]

Deposit(amount, cap) ==
  /\ SpentInWindow + amount <= cap
  /\ spent' = [spent EXCEPT ![now] = @ + amount]
  /\ UNCHANGED now

EndRegistration == spent' = Nothing(now) /\ UNCHANGED now

Next == \/ Tick
        \/ \E amount \in Amounts, cap \in Caps : Deposit(amount, cap)
        \/ EndRegistration

Spec == Init /\ [][Next]_vars
===============================================================================
