-------------------------- MODULE AgentWindow_proofs --------------------------
(***************************************************************************)
(* Proofs about the deposit window of AgentWindow, for every window        *)
(* length, every set of amounts and caps and an unbounded clock.           *)
(***************************************************************************)
EXTENDS AgentWindow, FiniteSetTheorems, WellFoundedInduction, TLAPS

\* The strict order on the naturals as a set of pairs.
LessThan == {p \in Nat \X Nat : p[1] < p[2]}

\* The order on the naturals is well founded.
LEMMA LessThanWellFounded == IsWellFoundedOn(LessThan, Nat)
<1>1. OpToRel(<, Nat) = LessThan
  BY Zenon DEF OpToRel, LessThan
<1> QED
  BY <1>1, NatLessThanWellFounded, Zenon

\* Every nonempty set of naturals has a least element.
LEMMA LeastNatural ==
  ASSUME NEW S \in SUBSET Nat, S # {}
  PROVE  \E m \in S : \A n \in S : m <= n
<1>1. PICK m \in S : \A n \in S : ~(<<n, m>> \in LessThan)
  BY LessThanWellFounded, WFMin, Zenon
<1>2. ASSUME NEW n \in S, n < m PROVE FALSE
  <2>1. n \in Nat /\ m \in Nat
    OBVIOUS
  <2>2. <<n, m>> \in LessThan
    BY <1>2, <2>1, SMT DEF LessThan
  <2> QED
    BY <2>2, <1>1
<1> QED
  BY <1>2

-----------------------------------------------------------------------------
(* Facts about the operators of GatewayWindows *)

\* The indices of a window stay inside its allocated slots.
Ring(v) ==
  /\ v.slots \in Seq(WindowEntry)
  /\ v.count \in 0 .. Len(v.slots)
  /\ v.head \in Nat
  /\ v.head < Len(v.slots) \/ v.head = 0

\* The scan of `_prune` has a well-defined stopping point.
LEMMA ExpiredPrefixFacts ==
  ASSUME NEW v, Ring(v), NEW t \in Nat
  PROVE  LET k == ExpiredPrefix(v, t)
         IN  /\ k \in 0 .. v.count
             /\ k < v.count => Live(v, k).timestamp > Cutoff(t)
<1> DEFINE Stop == {k \in 0 .. v.count : k < v.count => Live(v, k).timestamp > Cutoff(t)}
           P(k) == /\ \A i \in 0 .. (k - 1) : Live(v, i).timestamp <= Cutoff(t)
                   /\ k < v.count => Live(v, k).timestamp > Cutoff(t)
<1>1. /\ v.count \in Nat
      /\ v.slots \in Seq(WindowEntry) /\ Len(v.slots) \in Nat
      /\ v.count <= Len(v.slots) /\ v.head \in Nat
      /\ v.count > 0 => v.head < Len(v.slots)
  BY DEF Ring
<1>2. \A i \in 0 .. (v.count - 1) : Live(v, i).timestamp \in Nat
  <2>1. ASSUME NEW i \in 0 .. (v.count - 1)
        PROVE  Wrap(v.head + i, Len(v.slots)) + 1 \in 1 .. Len(v.slots)
    BY <1>1 DEF Wrap
  <2>2. ASSUME NEW i \in 0 .. (v.count - 1) PROVE Live(v, i) \in WindowEntry
    BY <1>1, <2>1 DEF Live
  <2> QED
    BY <2>2 DEF WindowEntry
<1>3. Cutoff(t) \in Nat
  BY WindowSecondsAssumption DEF Cutoff
<1>4. Stop \in SUBSET Nat /\ v.count \in Stop
  BY <1>1
<1>5. PICK k \in Stop : \A n \in Stop : k <= n
  BY <1>4, LeastNatural
<1>6. \A i \in 0 .. (k - 1) : Live(v, i).timestamp <= Cutoff(t)
  <2> SUFFICES ASSUME NEW i \in 0 .. (k - 1), Live(v, i).timestamp > Cutoff(t)
               PROVE  FALSE
    BY <1>1, <1>2, <1>3
  <2>1. i \in Stop
    BY <1>1
  <2> QED
    BY <2>1, <1>1, <1>5
<1>7. k \in 0 .. v.count /\ P(k)
  BY <1>6
<1>8. ExpiredPrefix(v, t) \in 0 .. v.count /\ P(ExpiredPrefix(v, t))
  BY <1>7 DEF ExpiredPrefix
<1> QED
  BY <1>8

\* A pruned window holds the newest entries of the window, in order, all of
\* them behind the stopping point.
LEMMA PruneFacts ==
  ASSUME NEW v, Ring(v), NEW t \in Nat
  PROVE  LET p == Prune(v, t)
             k == ExpiredPrefix(v, t)
         IN  /\ Ring(p)
             /\ p.slots = v.slots
             /\ k \in 0 .. v.count /\ p.count = v.count - k
             /\ \A i \in 0 .. (p.count - 1) : Live(p, i) = Live(v, i + k)
             /\ p.count > 0 => Live(p, 0).timestamp > Cutoff(t)
<1> DEFINE p == Prune(v, t)
           k == ExpiredPrefix(v, t)
<1>1. k \in 0 .. v.count /\ (k < v.count => Live(v, k).timestamp > Cutoff(t))
  BY ExpiredPrefixFacts
<1>2. /\ v.count \in Nat
      /\ v.slots \in Seq(WindowEntry) /\ Len(v.slots) \in Nat
      /\ v.count <= Len(v.slots) /\ v.head \in Nat
      /\ v.head < Len(v.slots) \/ v.head = 0
  BY DEF Ring
<1> HIDE DEF k
<1>3. /\ p.slots = v.slots
      /\ p.head = IF k = v.count THEN 0 ELSE Wrap(v.head + k, Len(v.slots))
      /\ p.count = v.count - k
  BY DEF Prune, k
<1> HIDE DEF p
<1>4. Ring(p)
  <2>1. p.count \in 0 .. Len(p.slots)
    BY <1>1, <1>2, <1>3
  <2>2. CASE k = v.count
    BY <1>2, <1>3, <2>1, <2>2 DEF Ring
  <2>3. CASE k < v.count
    <3>1. p.head = Wrap(v.head + k, Len(v.slots)) /\ v.head < Len(v.slots)
      BY <1>1, <1>2, <1>3, <2>3
    <3>2. p.head \in Nat /\ p.head < Len(v.slots)
      BY <1>1, <1>2, <2>3, <3>1 DEF Wrap
    <3> QED
      BY <1>2, <1>3, <2>1, <3>2 DEF Ring
  <2> QED
    BY <1>1, <1>2, <2>2, <2>3
<1>5. \A i \in 0 .. (p.count - 1) : Live(p, i) = Live(v, i + k)
  <2> SUFFICES ASSUME NEW i \in 0 .. (p.count - 1)
               PROVE  Wrap(p.head + i, Len(v.slots)) = Wrap(v.head + (i + k), Len(v.slots))
    BY <1>3 DEF Live
  <2> QED
    BY <1>1, <1>2, <1>3 DEF Wrap
<1>6. p.count > 0 => Live(p, 0).timestamp > Cutoff(t)
  BY <1>1, <1>2, <1>3, <1>5
<1> QED
  BY <1>1, <1>3, <1>4, <1>5, <1>6 DEF p, k

\* Three reversals rotate a full ring: slot i then holds the i-th live entry.
LEMMA RelinearizeFacts ==
  ASSUME NEW v, Ring(v), v.count = Len(v.slots)
  PROVE  LET r == Relinearize(v)
         IN  /\ r.slots \in Seq(WindowEntry)
             /\ Len(r.slots) = Len(v.slots)
             /\ \A i \in 0 .. (v.count - 1) : r.slots[i + 1] = Live(v, i)
<1> DEFINE n == Len(v.slots)
           h == v.head
           a == ReverseRange(v.slots, 0, h)
           b == ReverseRange(a, h, n)
           c == ReverseRange(b, 0, n)
<1>1. v.slots \in Seq(WindowEntry) /\ n \in Nat /\ h \in Nat /\ (h < n \/ h = 0)
  BY DEF Ring
<1>2. CASE h = 0
  <2>1. Relinearize(v) = v
    BY <1>2 DEF Relinearize
  <2>2. \A i \in 0 .. (n - 1) : v.slots[i + 1] = Live(v, i)
    BY <1>1, <1>2 DEF Live, Wrap
  <2> QED
    BY <1>1, <2>1, <2>2
<1>3. CASE h # 0
  <2>1. /\ a \in Seq(WindowEntry) /\ Len(a) = n
        /\ \A i \in 1 .. n : a[i] = IF i <= h THEN v.slots[(h + 1) - i] ELSE v.slots[i]
    BY <1>1, <1>3 DEF ReverseRange
  <2> HIDE DEF a
  <2>2. /\ b \in Seq(WindowEntry) /\ Len(b) = n
        /\ \A i \in 1 .. n : b[i] = IF h < i THEN a[(h + n + 1) - i] ELSE a[i]
    BY <1>1, <1>3, <2>1 DEF ReverseRange
  <2> HIDE DEF b
  <2>3. /\ c \in Seq(WindowEntry) /\ Len(c) = n
        /\ \A i \in 1 .. n : c[i] = b[(n + 1) - i]
    BY <1>1, <1>3, <2>2 DEF ReverseRange
  <2> HIDE DEF c
  <2>4. Relinearize(v).slots = c
    BY <1>3 DEF Relinearize, a, b, c
  <2>5. ASSUME NEW i \in 0 .. (n - 1)
        PROVE  c[i + 1] = Live(v, i)
    <3>1. c[i + 1] = b[n - i]
      <4>1. i + 1 \in 1 .. n /\ (n + 1) - (i + 1) = n - i
        BY <1>1
      <4> QED
        BY <2>3, <4>1
    <3>2. CASE h + i < n
      <4>1. n - i \in 1 .. n /\ h < n - i /\ (h + n + 1) - (n - i) = h + i + 1
        BY <1>1, <3>2
      <4>2. b[n - i] = a[h + i + 1]
        BY <2>2, <4>1
      <4>3. h + i + 1 \in 1 .. n /\ ~(h + i + 1 <= h)
        BY <1>1, <3>2
      <4>4. a[h + i + 1] = v.slots[h + i + 1]
        BY <2>1, <4>3
      <4> QED
        BY <1>1, <3>1, <3>2, <4>2, <4>4 DEF Live, Wrap
    <3>3. CASE h + i >= n
      <4>1. n - i \in 1 .. n /\ ~(h < n - i) /\ n - i <= h /\ (h + 1) - (n - i) = (h + i - n) + 1
        BY <1>1, <3>3
      <4>2. b[n - i] = a[n - i]
        BY <2>2, <4>1
      <4>3. a[n - i] = v.slots[(h + i - n) + 1]
        BY <2>1, <4>1
      <4>4. Wrap(h + i, n) = h + i - n
        BY <1>1, <3>3 DEF Wrap
      <4> QED
        BY <3>1, <4>2, <4>3, <4>4 DEF Live
    <3>4. h + i < n \/ h + i >= n
      BY <1>1
    <3> QED
      BY <3>2, <3>3, <3>4
  <2> QED
    BY <2>3, <2>4, <2>5
<1> QED
  BY <1>2, <1>3

\* A ring index stays in the ring, and different offsets give different slots.
LEMMA WrapInRing ==
  ASSUME NEW n \in Nat, NEW h \in Nat, h < n \/ h = 0, NEW i \in Nat, i < n
  PROVE  Wrap(h + i, n) \in Nat /\ Wrap(h + i, n) + 1 \in 1 .. n
  BY DEF Wrap

LEMMA WrapInjective ==
  ASSUME NEW n \in Nat, NEW h \in Nat, h < n \/ h = 0, NEW i \in Nat, i < n,
         NEW j \in Nat, j < n, Wrap(h + i, n) + 1 = Wrap(h + j, n) + 1
  PROVE  i = j
  BY DEF Wrap

\* `_append` keeps the live entries in place and ends with the current second
\* as the newest one; only a window whose slots are all live grows.
LEMMA AppendFacts ==
  ASSUME NEW v, Ring(v), NEW t \in Nat, NEW amount \in Nat
  PROVE  LET x == AppendEntry(v, t, amount)
         IN  /\ Ring(x)
             /\ \A i \in 0 .. (v.count - 1) : Live(x, i).timestamp = Live(v, i).timestamp
             /\ \/ /\ x.count = v.count
                   /\ SameSecond(v, t)
                   /\ Len(x.slots) = Len(v.slots)
                \/ /\ x.count = v.count + 1
                   /\ ~SameSecond(v, t)
                   /\ Live(x, v.count).timestamp = t
                   /\ \/ Len(x.slots) = Len(v.slots)
                      \/ v.count = Len(v.slots) /\ Len(x.slots) = v.count + 1
<1> DEFINE x == AppendEntry(v, t, amount)
           n == Len(v.slots)
           entry == [timestamp |-> t, amount |-> amount]
           At(i) == Wrap(v.head + i, n) + 1
<1>1. /\ v.slots \in Seq(WindowEntry) /\ n \in Nat
      /\ v.head \in Nat /\ (v.head < n \/ v.head = 0)
      /\ v.count \in Nat /\ v.count <= n
  BY DEF Ring
<1>2. entry \in WindowEntry
  BY DEF WindowEntry
<1>3. \A i \in 0 .. (n - 1) : At(i) \in 1 .. n
  <2> HIDE DEF n
  <2> SUFFICES ASSUME NEW i \in 0 .. (n - 1) PROVE At(i) \in 1 .. n
    OBVIOUS
  <2>1. i \in Nat /\ i < n
    BY <1>1
  <2> QED
    BY <1>1, <2>1, WrapInRing
<1>4. ASSUME NEW i \in 0 .. (n - 1), NEW j \in 0 .. (n - 1), At(i) = At(j)
      PROVE  i = j
  <2> HIDE DEF n
  <2>1. i \in Nat /\ j \in Nat /\ i < n /\ j < n
    BY <1>1
  <2> QED
    BY <1>1, <1>4, <2>1, WrapInjective
<1>5. CASE SameSecond(v, t)
  <2> DEFINE m == At(v.count - 1)
  <2>1. v.count > 0 /\ m \in 1 .. n
    BY <1>1, <1>3, <1>5 DEF SameSecond
  <2>2. Wrap(v.head + v.count - 1, n) + 1 = m
    BY <1>1
  <2>3. /\ x.slots = [v.slots EXCEPT ![m].amount = @ + amount]
        /\ x.head = v.head /\ x.count = v.count
    BY <1>5, <2>2 DEF AppendEntry, Coalesce
  <2> HIDE DEF x
  <2>4. v.slots[m] \in WindowEntry
    BY <1>1, <2>1
  <2>5. /\ x.slots \in Seq(WindowEntry) /\ Len(x.slots) = n
        /\ \A j \in 1 .. n : x.slots[j].timestamp = v.slots[j].timestamp
    <3> HIDE DEF m
    <3>1. [v.slots[m] EXCEPT !.amount = @ + amount] \in WindowEntry
      BY <2>4 DEF WindowEntry
    <3>2. x.slots = [v.slots EXCEPT ![m] = [v.slots[m] EXCEPT !.amount = @ + amount]]
      BY <2>3
    <3>3. x.slots \in Seq(WindowEntry) /\ Len(x.slots) = n
      BY <1>1, <2>1, <3>1, <3>2
    <3>4. \A j \in 1 .. n : x.slots[j].timestamp = v.slots[j].timestamp
      <4> SUFFICES ASSUME NEW j \in 1 .. n
                   PROVE  x.slots[j].timestamp = v.slots[j].timestamp
        OBVIOUS
      <4>1. CASE j = m
        <5>1. x.slots[m] = [v.slots[m] EXCEPT !.amount = @ + amount]
          BY <1>1, <2>1, <3>2
        <5> QED
          BY <2>4, <4>1, <5>1 DEF WindowEntry
      <4>2. CASE j # m
        BY <1>1, <2>1, <3>2, <4>2
      <4> QED
        BY <4>1, <4>2
    <3> QED
      BY <3>3, <3>4
  <2>6. Ring(x)
    BY <1>1, <2>3, <2>5 DEF Ring
  <2>7. \A i \in 0 .. (v.count - 1) : Live(x, i).timestamp = Live(v, i).timestamp
    BY <1>1, <1>3, <2>3, <2>5 DEF Live
  <2> QED
    BY <1>5, <2>3, <2>5, <2>6, <2>7 DEF x
<1>6. CASE ~SameSecond(v, t) /\ v.count = n
  <2> DEFINE r == Relinearize(v).slots
  <2>1. /\ r \in Seq(WindowEntry) /\ Len(r) = n
        /\ \A i \in 0 .. (n - 1) : r[i + 1] = Live(v, i)
    BY <1>6, RelinearizeFacts
  <2>2. x.slots = Append(r, entry) /\ x.head = 0 /\ x.count = n + 1
    BY <1>6 DEF AppendEntry, Grow
  <2> HIDE DEF r, x
  <2>3. /\ x.slots \in Seq(WindowEntry) /\ Len(x.slots) = n + 1
        /\ \A j \in 1 .. n : x.slots[j] = r[j]
        /\ x.slots[n + 1] = entry
    BY <1>1, <1>2, <2>1, <2>2
  <2>4. Ring(x)
    BY <1>1, <2>2, <2>3 DEF Ring
  <2>5. \A i \in 0 .. n : Live(x, i) = x.slots[i + 1]
    BY <1>1, <2>2, <2>3 DEF Live, Wrap
  <2>6. \A i \in 0 .. (n - 1) : Live(x, i) = Live(v, i)
    <3> SUFFICES ASSUME NEW i \in 0 .. (n - 1) PROVE Live(x, i) = Live(v, i)
      OBVIOUS
    <3>1. i + 1 \in 1 .. n /\ i \in 0 .. n
      BY <1>1
    <3> QED
      BY <2>1, <2>3, <2>5, <3>1
  <2>7. Live(x, n).timestamp = t
    BY <1>1, <2>3, <2>5
  <2> QED
    BY <1>6, <2>2, <2>3, <2>4, <2>6, <2>7 DEF x
<1>7. CASE ~SameSecond(v, t) /\ v.count # n
  <2> DEFINE m == At(v.count)
  <2>1. v.count < n /\ m \in 1 .. n
    BY <1>1, <1>3, <1>7
  <2>2. x.slots = [v.slots EXCEPT ![m] = entry] /\ x.head = v.head /\ x.count = v.count + 1
    BY <1>7 DEF AppendEntry, ReuseSlot
  <2> HIDE DEF x
  <2>3. /\ x.slots \in Seq(WindowEntry) /\ Len(x.slots) = n
        /\ x.slots[m] = entry
        /\ \A j \in 1 .. n : j # m => x.slots[j] = v.slots[j]
    <3> HIDE DEF m, entry
    <3> QED
      BY <1>1, <1>2, <2>1, <2>2
  <2>4. Ring(x)
    BY <1>1, <2>1, <2>2, <2>3 DEF Ring
  <2>5. \A i \in 0 .. (v.count - 1) : Live(x, i) = Live(v, i)
    <3> SUFFICES ASSUME NEW i \in 0 .. (v.count - 1) PROVE Live(x, i) = Live(v, i)
      OBVIOUS
    <3>1. i \in 0 .. (n - 1) /\ v.count \in 0 .. (n - 1) /\ i # v.count
      BY <1>1, <2>1
    <3>2. At(i) # m /\ At(i) \in 1 .. n
      BY <1>3, <1>4, <3>1
    <3> QED
      BY <2>2, <2>3, <3>2 DEF Live
  <2>6. Live(x, v.count).timestamp = t
    BY <2>2, <2>3 DEF Live
  <2> QED
    BY <1>7, <2>2, <2>3, <2>4, <2>5, <2>6 DEF x
<1> QED
  BY <1>5, <1>6, <1>7

-----------------------------------------------------------------------------
(* The inductive invariant *)

\* The ring is well formed and its live entries are strictly ordered seconds
\* that fit in one window ending at the newest of them.
WindowInv ==
  /\ TypeOK
  /\ now > WINDOW_SECONDS
  /\ LiveOrdered
  /\ LiveSpanBounded
  /\ CapacityBounded

\* A live entry's second is a natural number.
LEMMA LiveType ==
  ASSUME NEW v, Ring(v), NEW i \in 0 .. (v.count - 1)
  PROVE  Live(v, i) \in WindowEntry /\ Live(v, i).timestamp \in Nat
<1>1. /\ v.slots \in Seq(WindowEntry) /\ Len(v.slots) \in Nat
      /\ v.head \in Nat /\ (v.head < Len(v.slots) \/ v.head = 0)
      /\ v.count \in Nat /\ v.count <= Len(v.slots)
  BY DEF Ring
<1>2. Wrap(v.head + i, Len(v.slots)) + 1 \in 1 .. Len(v.slots)
  BY <1>1 DEF Wrap
<1>3. Live(v, i) \in WindowEntry
  BY <1>1, <1>2 DEF Live
<1> QED
  BY <1>3 DEF WindowEntry

\* Distinct seconds in an interval are at most as many as the interval has.
LEMMA CountBound ==
  ASSUME NEW v, Ring(v), NEW lo \in Int, NEW hi \in Int, lo <= hi + 1,
         \A i \in 0 .. (v.count - 1) : Live(v, i).timestamp \in lo .. hi,
         \A i, j \in 0 .. (v.count - 1) :
            i < j => Live(v, i).timestamp < Live(v, j).timestamp
  PROVE  v.count <= hi - lo + 1
<1> DEFINE D == 0 .. (v.count - 1)
           f == [i \in D |-> Live(v, i).timestamp]
<1>1. v.count \in Nat
  BY DEF Ring
<1>2. \A i \in D : Live(v, i).timestamp \in Nat
  BY LiveType
<1>3. f \in Injection(D, lo .. hi)
  <2>1. f \in [D -> lo .. hi]
    OBVIOUS
  <2>2. ASSUME NEW i \in D, NEW j \in D, f[i] = f[j] PROVE i = j
    <3>1. i \in Int /\ j \in Int /\ f[i] \in Int /\ f[j] \in Int
      BY <1>1, <1>2
    <3>2. ~(i < j) /\ ~(j < i)
      BY <1>2, <2>2, <3>1
    <3> QED
      BY <3>1, <3>2
  <2> QED
    BY <2>1, <2>2, Zenon DEF Injection, IsInjective
<1>4. Cardinality(D) = v.count
  BY <1>1, FS_Interval
<1>5. IsFiniteSet(lo .. hi) /\ Cardinality(lo .. hi) = hi - lo + 1
  BY FS_Interval
<1>6. Cardinality(D) <= Cardinality(lo .. hi)
  BY <1>3, <1>5, FS_Injection
<1> QED
  BY <1>4, <1>5, <1>6

\* What `_prune` leaves lies in (now - WINDOW_SECONDS, now], in order.
LEMMA PrunedInWindow ==
  ASSUME WindowInv
  PROVE  LET p == Prune(w, now)
         IN  /\ Ring(p) /\ p.slots = w.slots
             /\ \A i \in 0 .. (p.count - 1) :
                  Live(p, i).timestamp \in (now - WINDOW_SECONDS + 1) .. now
             /\ \A i, j \in 0 .. (p.count - 1) :
                  i < j => Live(p, i).timestamp < Live(p, j).timestamp
<1> DEFINE p == Prune(w, now)
           k == ExpiredPrefix(w, now)
<1>1. Ring(w) /\ now \in Nat
  BY DEF WindowInv, TypeOK, Ring
<1>2. /\ Ring(p) /\ p.slots = w.slots
      /\ k \in 0 .. w.count /\ p.count = w.count - k
      /\ \A i \in 0 .. (p.count - 1) : Live(p, i) = Live(w, i + k)
      /\ p.count > 0 => Live(p, 0).timestamp > Cutoff(now)
  BY <1>1, PruneFacts
<1>3. Cutoff(now) = now - WINDOW_SECONDS /\ WINDOW_SECONDS \in Nat
  BY WindowSecondsAssumption DEF WindowInv, Cutoff
<1>4. w.count \in Nat
  BY <1>1 DEF Ring
<1> HIDE DEF p, k
<1>5. \A i, j \in 0 .. (p.count - 1) :
        i < j => Live(p, i).timestamp < Live(p, j).timestamp
  <2> SUFFICES ASSUME NEW i \in 0 .. (p.count - 1), NEW j \in 0 .. (p.count - 1), i < j
               PROVE  Live(p, i).timestamp < Live(p, j).timestamp
    OBVIOUS
  <2>1. i + k \in 0 .. (w.count - 1) /\ j + k \in 0 .. (w.count - 1) /\ i + k < j + k
    BY <1>2, <1>4
  <2> QED
    BY <1>2, <2>1 DEF WindowInv, LiveOrdered
<1>6. \A i \in 0 .. (p.count - 1) :
        Live(p, i).timestamp \in (now - WINDOW_SECONDS + 1) .. now
  <2> SUFFICES ASSUME NEW i \in 0 .. (p.count - 1)
               PROVE  Live(p, i).timestamp \in (now - WINDOW_SECONDS + 1) .. now
    OBVIOUS
  <2>1. i + k \in 0 .. (w.count - 1) /\ 0 \in 0 .. (p.count - 1) /\ p.count > 0
    BY <1>2, <1>4
  <2>2. Live(p, i).timestamp <= now
    BY <1>2, <2>1 DEF WindowInv, LiveOrdered
  <2>3. Live(p, i).timestamp \in Nat /\ Live(p, 0).timestamp \in Nat
    BY <1>2, <2>1, LiveType
  <2>4. Live(p, 0).timestamp <= Live(p, i).timestamp
    <3>1. CASE i = 0
      BY <2>3, <3>1
    <3>2. CASE i # 0
      BY <1>5, <2>1, <2>3, <3>2
    <3> QED
      BY <3>1, <3>2
  <2> QED
    BY <1>1, <1>2, <1>3, <2>1, <2>2, <2>3, <2>4
<1> QED
  BY <1>2, <1>5, <1>6 DEF p

\* Once pruned, the window has room: the seconds before `now` that it can hold
\* are fewer than MAX_WINDOW_ENTRIES.
LEMMA NotFull ==
  ASSUME WindowInv
  PROVE  BufferNeverFull
<1> DEFINE p == Prune(w, now)
<1>1. /\ Ring(p)
      /\ \A i \in 0 .. (p.count - 1) :
           Live(p, i).timestamp \in (now - WINDOW_SECONDS + 1) .. now
      /\ \A i, j \in 0 .. (p.count - 1) :
           i < j => Live(p, i).timestamp < Live(p, j).timestamp
  BY PrunedInWindow
<1>2. now \in Nat /\ WINDOW_SECONDS \in Nat /\ WINDOW_SECONDS > 0
  BY WindowSecondsAssumption DEF WindowInv, TypeOK
<1>3. p.count \in Nat
  BY <1>1 DEF Ring
<1> HIDE DEF p
<1>4. SUFFICES ASSUME ~SameSecond(p, now) PROVE p.count < WINDOW_SECONDS
  BY <1>2, <1>3 DEF BufferNeverFull, WindowBufferFull, MAX_WINDOW_ENTRIES, p
<1>5. CASE p.count = 0
  BY <1>2, <1>5
<1>6. CASE p.count > 0
  <2> DEFINE last == p.count - 1
  <2>1. last \in 0 .. (p.count - 1)
    BY <1>3, <1>6
  <2>2. Live(p, last).timestamp # now
    BY <1>4, <1>6 DEF SameSecond
  <2>3. ASSUME NEW i \in 0 .. (p.count - 1)
        PROVE  Live(p, i).timestamp \in (now - WINDOW_SECONDS + 1) .. (now - 1)
    <3>1. /\ Live(p, i).timestamp \in (now - WINDOW_SECONDS + 1) .. now
          /\ Live(p, last).timestamp \in (now - WINDOW_SECONDS + 1) .. now
      BY <1>1, <2>1
    <3>2. Live(p, i).timestamp <= Live(p, last).timestamp
      <4>1. CASE i = last
        BY <1>2, <3>1, <4>1
      <4>2. CASE i # last
        <5>1. i < last
          BY <1>3, <4>2
        <5> QED
          BY <1>1, <1>2, <2>1, <3>1, <5>1
      <4> QED
        BY <4>1, <4>2
    <3> QED
      BY <1>2, <2>2, <3>1, <3>2
  <2>4. p.count <= (now - 1) - (now - WINDOW_SECONDS + 1) + 1
    <3> DEFINE lo == now - WINDOW_SECONDS + 1
               hi == now - 1
    <3>1. lo \in Int /\ hi \in Int /\ lo <= hi + 1
      BY <1>2
    <3>2. \A i \in 0 .. (p.count - 1) : Live(p, i).timestamp \in lo .. hi
      BY <2>3
    <3> HIDE DEF lo, hi
    <3>3. p.count <= hi - lo + 1
      BY <1>1, <3>1, <3>2, CountBound
    <3> QED
      BY <3>3 DEF lo, hi
  <2> QED
    BY <1>2, <1>3, <2>4
<1> QED
  BY <1>3, <1>5, <1>6

\* The initial window satisfies the invariant.
LEMMA WindowInit == Init => WindowInv
<1> SUFFICES ASSUME Init PROVE WindowInv
  OBVIOUS
<1> USE WindowSecondsAssumption, AgentWindowAssumption
<1>1. w.slots = << >> /\ w.head = 0 /\ w.count = 0
  BY DEF Init, EmptyWindow
<1>2. TypeOK
  BY <1>1 DEF Init, TypeOK, NoDepositWindow
<1>3. LiveOrdered /\ LiveSpanBounded
  BY <1>1 DEF LiveOrdered, LiveSpanBounded
<1>4. CapacityBounded
  BY <1>1 DEF CapacityBounded, MAX_WINDOW_ENTRIES
<1> QED
  BY <1>2, <1>3, <1>4 DEF WindowInv, Init

\* Every step keeps it.
LEMMA WindowStep == WindowInv /\ [Next]_vars => WindowInv'
<1> SUFFICES ASSUME WindowInv, [Next]_vars PROVE WindowInv'
  OBVIOUS
<1> USE WindowSecondsAssumption
<1>0. Ring(w) /\ now \in Nat /\ now > WINDOW_SECONDS /\ WINDOW_SECONDS \in Nat
  BY DEF WindowInv, TypeOK, Ring
<1>1. CASE Tick
  <2>1. w' = w /\ agentDepositWindow' = agentDepositWindow /\ now' \in Nat /\ now' > now
    BY <1>0, <1>1, AgentWindowAssumption DEF Tick
  <2>2. \A i \in 0 .. (w.count - 1) : Live(w, i).timestamp \in Nat
    BY <1>0, LiveType
  <2>3. LiveOrdered'
    BY <1>0, <2>1, <2>2 DEF WindowInv, LiveOrdered
  <2>4. TypeOK' /\ (now > WINDOW_SECONDS)'
    BY <1>0, <2>1 DEF WindowInv, TypeOK
  <2>5. LiveSpanBounded' /\ CapacityBounded'
    BY <2>1 DEF WindowInv, LiveSpanBounded, CapacityBounded
  <2> QED
    BY <2>3, <2>4, <2>5 DEF WindowInv
<1>2. ASSUME NEW amount \in Amounts, NEW cap \in Caps, AccrueRollingDeposit(amount, cap)
      PROVE  WindowInv'
  <2> DEFINE p == Prune(w, now)
             x == AppendEntry(p, now, amount)
  <2>1. amount \in Nat
    BY AgentWindowAssumption
  <2>2. /\ w' = x /\ now' = now
        /\ agentDepositWindow' = [windowStart |-> Live(w', 0).timestamp, gross |-> w'.total]
    BY <1>2 DEF AccrueRollingDeposit, Accrue
  <2>3. /\ Ring(p) /\ p.slots = w.slots
        /\ \A i \in 0 .. (p.count - 1) :
             Live(p, i).timestamp \in (now - WINDOW_SECONDS + 1) .. now
        /\ \A i, j \in 0 .. (p.count - 1) :
             i < j => Live(p, i).timestamp < Live(p, j).timestamp
    BY PrunedInWindow
  <2>4. ~WindowBufferFull(p, now)
    BY NotFull DEF BufferNeverFull
  <2>5. /\ Ring(x)
        /\ \A i \in 0 .. (p.count - 1) : Live(x, i).timestamp = Live(p, i).timestamp
        /\ \/ /\ x.count = p.count
              /\ SameSecond(p, now)
              /\ Len(x.slots) = Len(p.slots)
           \/ /\ x.count = p.count + 1
              /\ ~SameSecond(p, now)
              /\ Live(x, p.count).timestamp = now
              /\ \/ Len(x.slots) = Len(p.slots)
                 \/ p.count = Len(p.slots) /\ Len(x.slots) = p.count + 1
    BY <1>0, <2>1, <2>3, AppendFacts
  <2>6. p.count \in Nat /\ Len(p.slots) \in Nat
    BY <2>3 DEF Ring
  <2> HIDE DEF p, x
  <2>7. x.count \in Nat /\ x.count > 0
    BY <2>5, <2>6 DEF SameSecond
  <2>8. \A i \in 0 .. (x.count - 1) :
          Live(x, i).timestamp \in (now - WINDOW_SECONDS + 1) .. now
    <3> SUFFICES ASSUME NEW i \in 0 .. (x.count - 1)
                 PROVE  Live(x, i).timestamp \in (now - WINDOW_SECONDS + 1) .. now
      OBVIOUS
    <3>1. CASE i \in 0 .. (p.count - 1)
      BY <2>3, <2>5, <3>1
    <3>2. CASE i \notin 0 .. (p.count - 1)
      <4>1. i = p.count /\ Live(x, i).timestamp = now
        BY <2>5, <2>6, <2>7, <3>2
      <4> QED
        BY <1>0, <4>1
    <3> QED
      BY <3>1, <3>2
  <2>9. \A i, j \in 0 .. (x.count - 1) :
          i < j => Live(x, i).timestamp < Live(x, j).timestamp
    <3> SUFFICES ASSUME NEW i \in 0 .. (x.count - 1), NEW j \in 0 .. (x.count - 1), i < j
                 PROVE  Live(x, i).timestamp < Live(x, j).timestamp
      OBVIOUS
    <3>1. i \in 0 .. (p.count - 1)
      BY <2>5, <2>6
    <3>2. CASE j \in 0 .. (p.count - 1)
      BY <2>3, <2>5, <3>1, <3>2
    <3>3. CASE j \notin 0 .. (p.count - 1)
      <4>1. /\ j = p.count /\ Live(x, j).timestamp = now
            /\ ~SameSecond(p, now)
        BY <2>5, <2>6, <3>3
      <4> DEFINE last == p.count - 1
      <4>2. last \in 0 .. (p.count - 1) /\ p.count > 0
        BY <2>6, <3>1
      <4>3. Live(p, last).timestamp # now
        BY <4>1, <4>2 DEF SameSecond
      <4>4. /\ Live(p, last).timestamp \in (now - WINDOW_SECONDS + 1) .. now
            /\ Live(p, i).timestamp \in (now - WINDOW_SECONDS + 1) .. now
        BY <2>3, <3>1, <4>2
      <4>5. Live(p, i).timestamp <= Live(p, last).timestamp
        <5>1. CASE i = last
          BY <1>0, <4>4, <5>1
        <5>2. CASE i # last
          <6>1. i < last
            BY <2>6, <3>1, <5>2
          <6> QED
            BY <1>0, <2>3, <3>1, <4>2, <4>4, <6>1
        <5> QED
          BY <5>1, <5>2
      <4> QED
        BY <1>0, <2>5, <3>1, <4>1, <4>3, <4>4, <4>5
    <3> QED
      BY <3>2, <3>3
  <2>10. LiveOrdered'
    <3>1. \A i \in 0 .. (x.count - 1) : Live(x, i).timestamp <= now
      BY <1>0, <2>8
    <3> QED
      BY <2>2, <2>9, <3>1 DEF LiveOrdered
  <2>11. LiveSpanBounded'
    <3>1. ASSUME NEW i \in 0 .. (x.count - 1), NEW j \in 0 .. (x.count - 1)
          PROVE  Live(x, j).timestamp - Live(x, i).timestamp < WINDOW_SECONDS
      <4>1. /\ Live(x, i).timestamp \in (now - WINDOW_SECONDS + 1) .. now
            /\ Live(x, j).timestamp \in (now - WINDOW_SECONDS + 1) .. now
        BY <2>8
      <4> QED
        BY <1>0, <4>1
    <3> QED
      BY <2>2, <3>1 DEF LiveSpanBounded, MAX_WINDOW_ENTRIES
  <2>12. CapacityBounded'
    <3>1. Len(w.slots) <= WINDOW_SECONDS
      BY DEF WindowInv, CapacityBounded, MAX_WINDOW_ENTRIES
    <3>2. Len(x.slots) <= WINDOW_SECONDS
      BY <1>0, <2>3, <2>4, <2>5, <2>6, <3>1 DEF WindowBufferFull, MAX_WINDOW_ENTRIES
    <3> QED
      BY <2>2, <3>2 DEF CapacityBounded, MAX_WINDOW_ENTRIES
  <2>13. TypeOK'
    <3>1. 0 \in 0 .. (x.count - 1)
      BY <2>7
    <3>2. Live(x, 0).timestamp \in Nat
      BY <2>5, <3>1, LiveType
    <3> QED
      BY <1>0, <2>2, <2>5, <3>2 DEF TypeOK, Ring
  <2> QED
    BY <1>0, <2>2, <2>10, <2>11, <2>12, <2>13 DEF WindowInv
<1>3. CASE EndRegistration
  <2>1. /\ w'.slots = w.slots /\ w'.head = 0 /\ w'.count = 0 /\ now' = now
        /\ agentDepositWindow' = NoDepositWindow
    BY <1>3 DEF EndRegistration, ClearWindow
  <2>2. TypeOK'
    BY <1>0, <2>1 DEF TypeOK, Ring, NoDepositWindow
  <2>3. LiveOrdered' /\ LiveSpanBounded'
    BY <2>1 DEF LiveOrdered, LiveSpanBounded
  <2>4. CapacityBounded'
    BY <2>1 DEF WindowInv, CapacityBounded
  <2> QED
    BY <1>0, <2>1, <2>2, <2>3, <2>4 DEF WindowInv
<1>4. CASE UNCHANGED vars
  BY <1>4 DEF vars, WindowInv, TypeOK, LiveOrdered, LiveSpanBounded, CapacityBounded, Live
<1> QED
  BY <1>1, <1>2, <1>3, <1>4 DEF Next

\* The deposit window of one agent keeps its entries in order, never spans more
\* than WINDOW_SECONDS distinct seconds, never allocates more than
\* MAX_WINDOW_ENTRIES slots, and so the `WindowBufferFull` revert of `_append`
\* is unreachable, whatever the window length, the amounts, the caps and the
\* interleaving of deposits, seconds and ended registrations.
THEOREM WindowSafe ==
  Spec => [](TypeOK /\ LiveOrdered /\ LiveSpanBounded /\ CapacityBounded /\ BufferNeverFull)
<1>1. WindowInv => TypeOK /\ LiveOrdered /\ LiveSpanBounded /\ CapacityBounded /\ BufferNeverFull
  BY NotFull DEF WindowInv
<1> QED
  BY <1>1, WindowInit, WindowStep, PTL DEF Spec

\* Storage grows by one slot at a time and only when every slot is live: freed
\* slots are reused, so the array length is the high-water mark of the count.
THEOREM WindowPlateaus == Spec => GrowsOnlyWhenFull
<1> DEFINE A == Len(w'.slots) # Len(w.slots) =>
                  Len(w'.slots) = Len(w.slots) + 1 /\ w'.count = Len(w'.slots)
<1>1. WindowInv /\ [Next]_vars => A
  <2> SUFFICES ASSUME WindowInv, [Next]_vars PROVE A
    OBVIOUS
  <2>0. Ring(w) /\ now \in Nat
    BY DEF WindowInv, TypeOK, Ring
  <2>1. ASSUME NEW amount \in Amounts, NEW cap \in Caps, AccrueRollingDeposit(amount, cap)
        PROVE  A
    <3> DEFINE p == Prune(w, now)
               x == AppendEntry(p, now, amount)
    <3>1. amount \in Nat
      BY AgentWindowAssumption
    <3>2. w' = x
      BY <2>1 DEF AccrueRollingDeposit, Accrue
    <3>3. Ring(p) /\ p.slots = w.slots
      BY <2>0, PruneFacts
    <3>4. \/ Len(x.slots) = Len(p.slots)
          \/ /\ x.count = p.count + 1
             /\ p.count = Len(p.slots) /\ Len(x.slots) = p.count + 1
      BY <2>0, <3>1, <3>3, AppendFacts
    <3> HIDE DEF p, x
    <3> QED
      BY <3>2, <3>3, <3>4
  <2>2. CASE Tick
    BY <2>2 DEF Tick
  <2>3. CASE EndRegistration
    BY <2>3 DEF EndRegistration, ClearWindow
  <2>4. CASE UNCHANGED vars
    BY <2>4 DEF vars
  <2> QED
    BY <2>1, <2>2, <2>3, <2>4 DEF Next
<1> QED
  BY <1>1, WindowInit, WindowStep, PTL DEF Spec, GrowsOnlyWhenFull
=============================================================================
