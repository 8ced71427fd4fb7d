--------------------------- MODULE TimeoutsProofs ---------------------------
(***************************************************************************)
(* Proofs about Timeouts, for any number of timeouts, delays, scripts and  *)
(* nested RunTimeout calls.                                                *)
(*                                                                         *)
(* What carries them all is the shape of the list (Lists).  The timeouts   *)
(* that RunTimeouts on the stack have marked come first, those of outer    *)
(* RunTimeouts before those of inner ones.  It is sorted by deadline, but  *)
(* for one thing: timeouts are marked AllowedEarly before their time, and  *)
(* what a callback inserts goes behind them (NoLater).  So what a          *)
(* RunTimeout has yet to call lies ahead of it in the list (Stack), and    *)
(* the executor has to look at one timeout only (Watched): if an unmarked  *)
(* one is passed over by mistake, it is due so soon that the executor runs *)
(* at once (Follows).                                                      *)
(***************************************************************************)
EXTENDS Timeouts, TLAPS, SequenceTheorems, WellFoundedInduction

------------------------------------------------------------------------------
(* Numbers *)

\* Induction over the natural numbers, for a set in place of a predicate.
LEMMA Induction ==
    ASSUME NEW P, 0 \in P, \A n \in Nat : n \in P => n + 1 \in P
    PROVE  Nat \subseteq P
  <1> DEFINE T == Nat \ P
  <1>1. SUFFICES ASSUME T # {} PROVE FALSE
    OBVIOUS
  <1>2. PICK m \in T : \A n \in T : <<n, m>> \notin OpToRel(<, Nat)
    BY <1>1, WFMin, NatLessThanWellFounded, Zenon
  <1>3. \A n \in T : ~(n < m)
    BY <1>2 DEF OpToRel
  <1>4. m \in Nat /\ m # 0 /\ m - 1 \in Nat /\ m \notin P
    <2>1. m \in Nat /\ m \notin P
      BY Zenon
    <2> QED
      BY <2>1
  <1>5. m - 1 \in P
    BY <1>3, <1>4
  <1>6. (m - 1) + 1 \in P
    BY <1>4, <1>5
  <1> QED
    BY <1>4, <1>6

\* A set of natural numbers that is not empty has a least element.
LEMMA LeastNumber ==
    ASSUME NEW T, T \subseteq Nat, T # {}
    PROVE  /\ Min(T) \in T
           /\ \A n \in T : Min(T) <= n
  <1>1. PICK m \in T : \A n \in T : <<n, m>> \notin OpToRel(<, Nat)
    BY WFMin, NatLessThanWellFounded, Zenon
  <1>2. \A n \in T : ~(n < m)
    BY <1>1 DEF OpToRel
  <1>3. \A n \in T : m <= n
    BY <1>2
  <1> QED
    BY <1>3 DEF Min

\* One that is bounded has a greatest element.
LEMMA GreatestNumber ==
    ASSUME NEW T, NEW b \in Nat, T \subseteq 0..b, T # {}
    PROVE  /\ Max(T) \in T
           /\ \A n \in T : n <= Max(T)
  <1> DEFINE B == {m \in Nat : \A n \in T : n <= m}
  <1>1. b \in B
    OBVIOUS
  <1>2. PICK m \in B : \A n \in B : m <= n
    BY <1>1, LeastNumber
  <1>3. m \in T
    <2>1. SUFFICES ASSUME m \notin T PROVE FALSE
      OBVIOUS
    <2>2. PICK t \in T : TRUE
      OBVIOUS
    <2>3. \A n \in T : n < m
      BY <1>2, <2>1
    <2>4. m - 1 \in Nat /\ \A n \in T : n <= m - 1
      BY <1>2, <2>2, <2>3
    <2> QED
      BY <1>2, <2>4
  <1>4. \A n \in T : n <= m
    BY <1>2
  <1> QED
    BY <1>3, <1>4 DEF Max

------------------------------------------------------------------------------
(* Lists *)

\* A list holds a timeout once.
Single(list) == \A i, j \in DOMAIN list : list[i] = list[j] => i = j

\* Two lists have no timeout in common.
Apart(list, other) == \A i \in DOMAIN list, j \in DOMAIN other : list[i] # other[j]

\* The index that SelectInSeq and SelectInSubSeq look for is that of the first
\* element of a set of indices, or 0.
LEMMA FirstIndex ==
    ASSUME NEW I, I \subseteq Nat \ {0}, NEW k, k = IF I # {} THEN Min(I) ELSE 0
    PROVE  /\ k = 0 => I = {}
           /\ k # 0 => k \in I /\ \A i \in I : k <= i
  <1>1. CASE I = {}
    BY <1>1
  <1>2. CASE I # {}
    <2>1. Min(I) \in I /\ \A i \in I : Min(I) <= i
      BY <1>2, LeastNumber
    <2> QED
      BY <1>2, <2>1
  <1> QED
    BY <1>1, <1>2

\* That of SelectLastInSeq is that of the last one.
LEMMA LastIndex ==
    ASSUME NEW b \in Nat, NEW I, I \subseteq 1..b, NEW k, k = IF I # {} THEN Max(I) ELSE 0
    PROVE  /\ k \in 0..b
           /\ k = 0 => I = {}
           /\ k # 0 => k \in I /\ \A i \in I : i <= k
  <1>1. CASE I = {}
    BY <1>1
  <1>2. CASE I # {}
    <2>1. I \subseteq 0..b
      OBVIOUS
    <2>2. Max(I) \in I /\ \A i \in I : i <= Max(I)
      BY <1>2, <2>1, GreatestNumber
    <2>3. k = Max(I)
      BY <1>2
    <2>4. k \in I /\ \A i \in I : i <= k
      BY <2>2, <2>3
    <2>5. k \in 1..b
      BY <2>4
    <2> QED
      BY <2>4, <2>5
  <1> QED
    BY <1>1, <1>2

\* A timeout of a list has one position.
LEMMA PositionIs ==
    ASSUME NEW S, NEW list \in Seq(S), Single(list), NEW p \in DOMAIN list
    PROVE  Position(list, list[p]) = p
  <1>1. {i \in 1..Len(list) : list[i] = list[p]} = {p}
    BY DEF Single
  <1>2. Min({p}) = p
    BY DEF Min
  <1> QED
    BY <1>1, <1>2 DEF Position, SelectInSeq

\* What is left when a timeout is erased.
LEMMA WithoutIs ==
    ASSUME NEW S, NEW list \in Seq(S), Single(list), NEW p \in DOMAIN list
    PROVE  /\ Without(list, list[p]) \in Seq(S)
           /\ Len(list) \in Nat
           /\ Len(Without(list, list[p])) = Len(list) - 1
           /\ DOMAIN Without(list, list[p]) = 1..(Len(list) - 1)
           /\ \A i \in 1..(Len(list) - 1) :
                 Without(list, list[p])[i] = IF i < p THEN list[i] ELSE list[i + 1]
  <1> DEFINE a == SubSeq(list, 1, p - 1)
             b == SubSeq(list, p + 1, Len(list))
  <1>1. Without(list, list[p]) = a \o b
    BY PositionIs DEF Without, RemoveAt
  <1>2. p \in 1..Len(list) /\ Len(list) \in Nat
    OBVIOUS
  <1>3. a \in Seq(S) /\ Len(a) = p - 1 /\ \A i \in 1..(p - 1) : a[i] = list[i]
    BY <1>2
  <1>4. b \in Seq(S) /\ Len(b) = Len(list) - p /\ \A i \in 1..(Len(list) - p) : b[i] = list[p + i]
    BY <1>2
  <1> HIDE DEF a, b
  <1>5. /\ a \o b \in Seq(S) /\ Len(a \o b) = Len(list) - 1
        /\ \A i \in 1..(p - 1) : (a \o b)[i] = list[i]
        /\ \A i \in p..(Len(list) - 1) : (a \o b)[i] = b[i - (p - 1)]
    <2>1. a \in Seq(S) /\ b \in Seq(S)
      BY <1>3, <1>4
    <2>2. a \o b \in Seq(S) /\ Len(a \o b) = Len(a) + Len(b)
      BY ONLY <2>1
    <2>3. \A i \in 1..Len(a) : (a \o b)[i] = a[i]
      BY ONLY <2>1
    <2>4. \A i \in (Len(a) + 1)..(Len(a) + Len(b)) : (a \o b)[i] = b[i - Len(a)]
      BY ONLY <2>1
    <2>5. Len(a) + Len(b) = Len(list) - 1 /\ Len(a) + 1 = p
      BY <1>2, <1>3, <1>4
    <2> QED
      BY <1>3, <2>2, <2>3, <2>4, <2>5
  <1>6. \A i \in p..(Len(list) - 1) : b[i - (p - 1)] = list[i + 1]
    <2>1. SUFFICES ASSUME NEW i \in p..(Len(list) - 1) PROVE b[i - (p - 1)] = list[i + 1]
      OBVIOUS
    <2>2. i - (p - 1) \in 1..(Len(list) - p) /\ p + (i - (p - 1)) = i + 1
      BY <1>2
    <2> QED
      BY <1>4, <2>2
  <1>7. DOMAIN (a \o b) = 1..(Len(list) - 1)
    BY <1>5
  <1>8. \A i \in 1..(Len(list) - 1) : (a \o b)[i] = IF i < p THEN list[i] ELSE list[i + 1]
    <2>1. SUFFICES ASSUME NEW i \in 1..(Len(list) - 1)
                   PROVE  (a \o b)[i] = IF i < p THEN list[i] ELSE list[i + 1]
      OBVIOUS
    <2>2. CASE i < p
      <3>1. i \in 1..(p - 1)
        BY ONLY <1>2, <2>2
      <3>2. (a \o b)[i] = list[i]
        BY <1>5, <3>1
      <3> QED
        BY ONLY <2>2, <3>2
    <2>3. CASE ~(i < p)
      <3>1. i \in p..(Len(list) - 1)
        BY <1>2, <2>3
      <3>2. (a \o b)[i] = list[i + 1]
        BY <1>5, <1>6, <3>1
      <3> QED
        BY ONLY <2>3, <3>2
    <2> QED
      BY <2>2, <2>3
  <1> QED
    BY <1>1, <1>2, <1>5, <1>7, <1>8

\* Where Insert puts a timeout: behind the last that is due no later or marked.
LEMMA InsertedIs ==
    ASSUME NEW S, NEW list \in Seq(S), NEW id \in S, NEW when,
           NEW r, r = Inserted(list, id, when)
    PROVE  \E k \in 0..Len(list) :
             /\ r \in Seq(S)
             /\ Len(list) \in Nat
             /\ Len(r) = Len(list) + 1
             /\ DOMAIN r = 1..(Len(list) + 1)
             /\ \A i \in 1..(Len(list) + 1) : r[i] =
                  IF i <= k THEN list[i] ELSE IF i = k + 1 THEN id ELSE list[i - 1]
             /\ k # 0 => timeout[list[k]].when <= when \/ ~IsUnmarked(list[k])
             /\ \A i \in DOMAIN list : k < i =>
                  ~(timeout[list[i]].when <= when) /\ IsUnmarked(list[i])
  <1> DEFINE I == {i \in 1..Len(list) : timeout[list[i]].when <= when \/ ~IsUnmarked(list[i])}
  <1>1. PICK k : k = IF I # {} THEN Max(I) ELSE 0
    OBVIOUS
  <1>2. r = InsertAt(list, k + 1, id)
    BY <1>1 DEF Inserted, SelectLastInSeq
  <1>3. /\ k \in 0..Len(list)
        /\ k = 0 => I = {}
        /\ k # 0 => k \in I /\ \A i \in I : i <= k
    <2>1. Len(list) \in Nat /\ I \subseteq 1..Len(list)
      OBVIOUS
    <2> HIDE DEF I
    <2> QED
      BY <1>1, <2>1, LastIndex
  <1>4. /\ k # 0 => timeout[list[k]].when <= when \/ ~IsUnmarked(list[k])
        /\ \A i \in DOMAIN list : k < i =>
             ~(timeout[list[i]].when <= when) /\ IsUnmarked(list[i])
    <2>1. \A i \in DOMAIN list : k < i => i \notin I
      BY <1>3
    <2> QED
      BY <1>3, <2>1
  <1> HIDE DEF I
  <1> DEFINE a == SubSeq(list, 1, k)
             b == SubSeq(list, k + 1, Len(list))
             s == (a \o <<id>>) \o b
  <1>5. r = s
    <2>1. (k + 1) - 1 = k
      BY <1>3
    <2> QED
      BY <1>2, <2>1 DEF InsertAt
  <1>6. k \in Nat /\ k <= Len(list) /\ Len(list) \in Nat
    BY <1>3
  <1>7. a \in Seq(S) /\ Len(a) = k /\ \A i \in 1..k : a[i] = list[i]
    BY <1>6
  <1>8. b \in Seq(S) /\ Len(b) = Len(list) - k /\ \A i \in 1..(Len(list) - k) : b[i] = list[k + i]
    BY <1>6
  <1> HIDE DEF a, b
  <1> DEFINE c == a \o <<id>>
  <1>9. c \in Seq(S) /\ Len(c) = k + 1 /\ c[k + 1] = id /\ \A i \in 1..k : c[i] = list[i]
    BY <1>6, <1>7
  <1> HIDE DEF c
  <1>10. /\ c \o b \in Seq(S) /\ Len(c \o b) = Len(list) + 1
         /\ \A i \in 1..(k + 1) : (c \o b)[i] = c[i]
         /\ \A i \in (k + 2)..(Len(list) + 1) : (c \o b)[i] = b[i - (k + 1)]
    BY <1>6, <1>8, <1>9
  <1>11. \A i \in 1..(Len(list) + 1) : (c \o b)[i] =
           IF i <= k THEN list[i] ELSE IF i = k + 1 THEN id ELSE list[i - 1]
    <2>1. SUFFICES ASSUME NEW i \in 1..(Len(list) + 1)
                   PROVE  (c \o b)[i] = IF i <= k THEN list[i] ELSE IF i = k + 1 THEN id ELSE list[i - 1]
      OBVIOUS
    <2>2. CASE i <= k + 1
      BY <1>6, <1>9, <1>10, <2>2
    <2>3. CASE ~(i <= k + 1)
      <3>1. i \in (k + 2)..(Len(list) + 1)
        BY <1>6, <2>3
      <3>2. i - (k + 1) \in 1..(Len(list) - k) /\ k + (i - (k + 1)) = i - 1
        BY <1>6, <3>1
      <3>3. (c \o b)[i] = list[i - 1]
        BY <1>8, <1>10, <3>1, <3>2
      <3> QED
        BY <1>6, <2>3, <3>3
    <2> QED
      BY <2>2, <2>3
  <1>12. s = c \o b
    BY DEF c
  <1>13. DOMAIN (c \o b) = 1..(Len(list) + 1)
    BY <1>6, <1>10
  <1> HIDE DEF s
  <1>14. /\ r \in Seq(S)
         /\ Len(r) = Len(list) + 1
         /\ DOMAIN r = 1..(Len(list) + 1)
         /\ \A i \in 1..(Len(list) + 1) : r[i] =
              IF i <= k THEN list[i] ELSE IF i = k + 1 THEN id ELSE list[i - 1]
    BY <1>5, <1>10, <1>11, <1>12, <1>13
  <1> QED
    BY <1>3, <1>4, <1>6, <1>14, Zenon

\* Deadlines that go up, but that what is due at t may come too early by AllowedEarly.
NoLater(w, v, t) == w <= v + AllowedEarly /\ (w <= v \/ w <= t)

Sorted(ts, list, t) ==
    \A i, j \in DOMAIN list : i < j => NoLater(ts[list[i]].when, ts[list[j]].when, t)

\* Marked timeouts come first, those of outer RunTimeouts before those of inner ones.
MarkedFirst(ts, list) ==
    \A i, j \in DOMAIN list :
        i < j /\ ts[list[j]].firing # 0 => ts[list[i]].firing \in 1..ts[list[j]].firing

\* What the RunTimeout f has marked is found from "at" on.
Ahead(ts, list, at, f) ==
    \/ at = End /\ \A q \in DOMAIN list : ts[list[q]].firing # f
    \/ \E p \in DOMAIN list :
         list[p] = at /\ \A q \in DOMAIN list : ts[list[q]].firing = f => p <= q

\* Positions in a list that lacks the one at p, and positions in the whole list.
Below(p, i) == IF i < p THEN i ELSE i + 1
Above(p, q) == IF q < p THEN q ELSE q - 1

LEMMA Shift ==
    ASSUME NEW n \in Nat, NEW p \in 1..n
    PROVE  /\ \A i \in 1..(n - 1) : /\ Below(p, i) \in 1..n /\ Below(p, i) # p
                                  /\ Above(p, Below(p, i)) = i
           /\ \A i, j \in 1..(n - 1) : i < j => Below(p, i) < Below(p, j)
           /\ \A i, j \in 1..(n - 1) : i # j => Below(p, i) # Below(p, j)
           /\ \A i \in 1..(n - 1) : Below(p, i) >= p => p # n /\ p <= i
           /\ \A q \in 1..n : q # p => Above(p, q) \in 1..(n - 1) /\ Below(p, Above(p, q)) = q
           /\ \A q, j \in 1..n : q # p /\ j # p /\ q <= j => Above(p, q) <= Above(p, j)
           /\ p # n => p \in 1..(n - 1) /\ Below(p, p) = p + 1
  BY DEF Below, Above

\* A timeout that is erased leaves the others as they are; what the RunTimeout that
\* erases its first one has marked is then found from the next one on.
LEMMA WithoutKeeps ==
    ASSUME NEW S, NEW list \in Seq(S), Single(list), NEW p \in DOMAIN list, NEW ts,
           NEW r, r = Without(list, list[p])
    PROVE  /\ r \in Seq(S) /\ Single(r)
           /\ \A e : e \in ToSet(r) <=> e \in ToSet(list) /\ e # list[p]
           /\ \A t : Sorted(ts, list, t) => Sorted(ts, r, t)
           /\ MarkedFirst(ts, list) => MarkedFirst(ts, r)
           /\ \A f, at : at # list[p] /\ Ahead(ts, list, at, f) => Ahead(ts, r, at, f)
           /\ \A f : (\A q \in DOMAIN list : ts[list[q]].firing = f => p <= q) =>
                Ahead(ts, r, NextOf(list, list[p]), f)
  <1> DEFINE m(i) == Below(p, i)
             l(q) == Above(p, q)
  <1>1. PICK n : n = Len(list)
    OBVIOUS
  <1>2. /\ r \in Seq(S) /\ n \in Nat /\ DOMAIN r = 1..(n - 1) /\ DOMAIN list = 1..n /\ p \in 1..n
        /\ \A i \in 1..(n - 1) : r[i] = IF i < p THEN list[i] ELSE list[i + 1]
    <2>1. /\ r \in Seq(S) /\ n \in Nat /\ Len(r) = n - 1 /\ DOMAIN r = 1..(n - 1)
          /\ \A i \in 1..(n - 1) : r[i] = IF i < p THEN list[i] ELSE list[i + 1]
      BY ONLY <1>1, WithoutIs, list \in Seq(S), Single(list), p \in DOMAIN list,
              r = Without(list, list[p])
    <2>2. DOMAIN list = 1..n
      BY <1>1
    <2> QED
      BY <2>1, <2>2
  <1>3. /\ \A i \in DOMAIN r : m(i) \in DOMAIN list /\ m(i) # p /\ l(m(i)) = i
        /\ \A i, j \in DOMAIN r : i < j => m(i) < m(j)
        /\ \A i, j \in DOMAIN r : i # j => m(i) # m(j)
        /\ \A i \in DOMAIN r : m(i) >= p => p # n /\ p <= i
        /\ \A q \in DOMAIN list : q # p => l(q) \in DOMAIN r /\ m(l(q)) = q
        /\ \A q, j \in DOMAIN list : q # p /\ j # p /\ q <= j => l(q) <= l(j)
        /\ p # n => p \in DOMAIN r /\ m(p) = p + 1
    <2>1. /\ \A i \in 1..(n - 1) : m(i) \in 1..n /\ m(i) # p /\ l(m(i)) = i
          /\ \A i, j \in 1..(n - 1) : i < j => m(i) < m(j)
          /\ \A i, j \in 1..(n - 1) : i # j => m(i) # m(j)
          /\ \A i \in 1..(n - 1) : m(i) >= p => p # n /\ p <= i
          /\ \A q \in 1..n : q # p => l(q) \in 1..(n - 1) /\ m(l(q)) = q
          /\ \A q, j \in 1..n : q # p /\ j # p /\ q <= j => l(q) <= l(j)
          /\ p # n => p \in 1..(n - 1) /\ m(p) = p + 1
      BY <1>2, Shift
    <2> HIDE DEF m, l
    <2> QED
      BY <1>2, <2>1, Zenon
  <1>6. \A i \in DOMAIN r : r[i] = list[m(i)]
    <2>1. \A i : list[m(i)] = IF i < p THEN list[i] ELSE list[i + 1]
      BY DEF Below
    <2> QED
      BY <1>2, <2>1
  <1>5. \A q \in DOMAIN list : q # p => r[l(q)] = list[q]
    BY <1>3, <1>6
  <1>10. NextOf(list, list[p]) = IF p = n THEN End ELSE list[p + 1]
    BY <1>1, PositionIs DEF NextOf
  <1>20. DOMAIN r \subseteq Nat /\ DOMAIN list \subseteq Nat
    BY <1>2
  <1> HIDE DEF m, l
  <1>13. Single(r)
    BY <1>3, <1>6 DEF Single
  <1>14. \A e : e \in ToSet(r) <=> e \in ToSet(list) /\ e # list[p]
    <2>1. ASSUME NEW e, e \in ToSet(r) PROVE e \in ToSet(list) /\ e # list[p]
      <3>1. PICK i \in DOMAIN r : e = r[i]
        BY <2>1 DEF ToSet
      <3> QED
        BY <1>3, <1>6, <3>1 DEF Single, ToSet
    <2>2. ASSUME NEW e, e \in ToSet(list), e # list[p] PROVE e \in ToSet(r)
      <3>1. PICK q \in DOMAIN list : e = list[q]
        BY <2>2 DEF ToSet
      <3>2. q # p
        BY <2>2, <3>1
      <3> QED
        BY <1>3, <1>5, <3>1, <3>2 DEF ToSet
    <2> QED
      BY <2>1, <2>2
  <1>15. ASSUME NEW t, Sorted(ts, list, t) PROVE Sorted(ts, r, t)
    BY <1>3, <1>6, <1>15 DEF Sorted
  <1>16. ASSUME MarkedFirst(ts, list) PROVE MarkedFirst(ts, r)
    BY <1>3, <1>6, <1>16 DEF MarkedFirst
  <1>17. ASSUME NEW f, NEW at, at # list[p], Ahead(ts, list, at, f) PROVE Ahead(ts, r, at, f)
    <2>1. CASE at = End /\ \A q \in DOMAIN list : ts[list[q]].firing # f
      BY <1>3, <1>6, <2>1 DEF Ahead
    <2>2. CASE \E q \in DOMAIN list :
                 list[q] = at /\ \A j \in DOMAIN list : ts[list[j]].firing = f => q <= j
      <3>1. PICK q \in DOMAIN list :
              list[q] = at /\ \A j \in DOMAIN list : ts[list[j]].firing = f => q <= j
        BY <2>2
      <3>2. q # p
        BY <1>17, <3>1
      <3>3. l(q) \in DOMAIN r /\ r[l(q)] = at
        BY <1>3, <1>5, <3>1, <3>2
      <3>4. \A i \in DOMAIN r : ts[r[i]].firing = f => l(q) <= i
        BY <1>3, <1>6, <3>1, <3>2
      <3> QED
        BY <3>3, <3>4 DEF Ahead
    <2> QED
      BY <1>17, <2>1, <2>2 DEF Ahead
  <1>18. ASSUME NEW f, \A q \in DOMAIN list : ts[list[q]].firing = f => p <= q
         PROVE  Ahead(ts, r, NextOf(list, list[p]), f)
    <2>1. \A i \in DOMAIN r : ts[r[i]].firing = f => p # n /\ p <= i
      <3>1. SUFFICES ASSUME NEW i \in DOMAIN r, ts[r[i]].firing = f PROVE p # n /\ p <= i
        OBVIOUS
      <3>2. m(i) \in DOMAIN list /\ p <= m(i) /\ m(i) \in Nat /\ p \in Nat
        BY <1>3, <1>6, <1>18, <1>20, <3>1
      <3> QED
        BY <1>3, <3>2
    <2>2. CASE p = n
      BY <1>10, <2>1, <2>2 DEF Ahead
    <2>3. CASE p # n
      <3>1. p \in DOMAIN r /\ r[p] = list[p + 1]
        BY <1>3, <1>6, <2>3
      <3> QED
        BY <1>10, <2>1, <2>3, <3>1 DEF Ahead
    <2> QED
      BY <2>2, <2>3
  <1> QED
    BY <1>2, <1>13, <1>14, <1>15, <1>16, <1>17, <1>18

\* A timeout that is inserted unmarked, with its new deadline, finds its place: those
\* that are marked are due no later.
LEMMA InsertedKeeps ==
    ASSUME NEW S, NEW list \in Seq(S), Single(list), NEW id \in S, id \notin ToSet(list),
           NEW when \in Nat, NEW ts, ts[id].when = when, ts[id].firing = 0,
           \A e \in ToSet(list) : /\ ts[e].when = timeout[e].when
                                  /\ ts[e].firing = timeout[e].firing
                                  /\ timeout[e].when \in Nat
                                  /\ ~IsUnmarked(e) => NoLater(timeout[e].when, when, Limit),
           Sorted(timeout, list, Limit), MarkedFirst(timeout, list),
           NEW r, r = Inserted(list, id, when)
    PROVE  /\ r \in Seq(S) /\ Single(r)
           /\ \A e : e \in ToSet(r) <=> e \in ToSet(list) \/ e = id
           /\ Sorted(ts, r, Limit) /\ MarkedFirst(ts, r)
           /\ \A f, at : f # 0 /\ Ahead(ts, list, at, f) => Ahead(ts, r, at, f)
           /\ \/ r[1] = id /\ \A e \in ToSet(list) : when <= timeout[e].when
              \/ /\ r[1] = list[1]
                 /\ \E e \in ToSet(list) : timeout[e].when <= when \/ ~IsUnmarked(e)
  <1>1. PICK n : n = Len(list)
    OBVIOUS
  <1>2. PICK k \in 0..n :
             /\ r \in Seq(S)
             /\ n \in Nat
             /\ DOMAIN r = 1..(n + 1)
             /\ \A i \in 1..(n + 1) : r[i] =
                  IF i <= k THEN list[i] ELSE IF i = k + 1 THEN id ELSE list[i - 1]
             /\ k # 0 => timeout[list[k]].when <= when \/ ~IsUnmarked(list[k])
             /\ \A i \in DOMAIN list : k < i =>
                  ~(timeout[list[i]].when <= when) /\ IsUnmarked(list[i])
    <2>1. PICK k \in 0..Len(list) :
             /\ r \in Seq(S)
             /\ Len(list) \in Nat
             /\ Len(r) = Len(list) + 1
             /\ DOMAIN r = 1..(Len(list) + 1)
             /\ \A i \in 1..(Len(list) + 1) : r[i] =
                  IF i <= k THEN list[i] ELSE IF i = k + 1 THEN id ELSE list[i - 1]
             /\ k # 0 => timeout[list[k]].when <= when \/ ~IsUnmarked(list[k])
             /\ \A i \in DOMAIN list : k < i =>
                  ~(timeout[list[i]].when <= when) /\ IsUnmarked(list[i])
      BY InsertedIs
    <2> QED
      BY <1>1, <2>1, Zenon
  <1>3. PICK p : p = k + 1
    OBVIOUS
  <1>4. DOMAIN list = 1..n /\ p \in 1..(n + 1) /\ (n + 1) - 1 = n /\ n + 1 \in Nat /\ r[p] = id
    BY <1>1, <1>2, <1>3
  <1> DEFINE m(i) == Below(p, i)
             l(q) == Above(p, q)
  <1>5. /\ \A i \in DOMAIN list : m(i) \in DOMAIN r /\ m(i) # p /\ l(m(i)) = i
        /\ \A i, j \in DOMAIN r : i # p /\ j # p /\ i <= j => l(i) <= l(j)
        /\ \A q \in DOMAIN r : q # p => l(q) \in DOMAIN list /\ m(l(q)) = q
        /\ \A i, j \in DOMAIN list : i < j => m(i) < m(j)
    <2>1. /\ \A i \in 1..n : m(i) \in 1..(n + 1) /\ m(i) # p /\ l(m(i)) = i
          /\ \A i, j \in 1..(n + 1) : i # p /\ j # p /\ i <= j => l(i) <= l(j)
          /\ \A q \in 1..(n + 1) : q # p => l(q) \in 1..n /\ m(l(q)) = q
          /\ \A i, j \in 1..n : i < j => m(i) < m(j)
      <3>1. /\ \A i \in 1..((n + 1) - 1) : m(i) \in 1..(n + 1) /\ m(i) # p /\ l(m(i)) = i
            /\ \A i, j \in 1..(n + 1) : i # p /\ j # p /\ i <= j => l(i) <= l(j)
            /\ \A q \in 1..(n + 1) : q # p => l(q) \in 1..((n + 1) - 1) /\ m(l(q)) = q
            /\ \A i, j \in 1..((n + 1) - 1) : i < j => m(i) < m(j)
        BY <1>4, Shift
      <3> HIDE DEF m, l
      <3> QED
        BY <1>4, <3>1
    <2> HIDE DEF m, l
    <2> QED
      BY <1>2, <1>4, <2>1, Zenon
  <1>6. /\ \A q \in DOMAIN r : q < p => l(q) < p
        /\ \A q \in DOMAIN r : p < q => p <= l(q)
        /\ \A i \in DOMAIN list : i < p => i <= k
        /\ \A i \in DOMAIN list : p <= i => k < i
    BY <1>2, <1>3, <1>4 DEF Above
  <1>7. \A q \in DOMAIN r : q # p => r[q] = list[l(q)]
    BY <1>2, <1>3, <1>4 DEF Above
  <1>8. \A i \in DOMAIN list : list[i] = r[m(i)]
    BY <1>5, <1>7
  <1>9. DOMAIN r \subseteq Nat /\ DOMAIN list \subseteq Nat /\ p \in Nat
    BY <1>2, <1>4
  <1> HIDE DEF m, l
  <1>10. \A i \in DOMAIN list : list[i] \in ToSet(list) /\ list[i] # id
    BY DEF ToSet
  <1>11. Single(r)
    <2>1. SUFFICES ASSUME NEW i \in DOMAIN r, NEW j \in DOMAIN r, r[i] = r[j], i # j
                   PROVE  FALSE
      BY DEF Single
    <2>2. CASE i = p \/ j = p
      BY <1>4, <1>5, <1>7, <1>10, <2>1, <2>2
    <2>3. CASE i # p /\ j # p
      <3>1. l(i) = l(j)
        BY <1>5, <1>7, <2>1, <2>3 DEF Single
      <3> QED
        BY <1>5, <2>1, <2>3, <3>1
    <2> QED
      BY <2>2, <2>3
  <1>12. \A e : e \in ToSet(r) <=> e \in ToSet(list) \/ e = id
    <2>1. ASSUME NEW e, e \in ToSet(r) PROVE e \in ToSet(list) \/ e = id
      <3>1. PICK q \in DOMAIN r : e = r[q]
        BY <2>1 DEF ToSet
      <3> QED
        BY <1>4, <1>5, <1>7, <3>1 DEF ToSet
    <2>2. ASSUME NEW e, e \in ToSet(list) PROVE e \in ToSet(r)
      <3>1. PICK i \in DOMAIN list : e = list[i]
        BY <2>2 DEF ToSet
      <3> QED
        BY <1>5, <1>8, <3>1 DEF ToSet
    <2>3. p \in DOMAIN r
      BY <1>2, <1>4
    <2>4. id \in ToSet(r)
      BY <1>4, <2>3 DEF ToSet
    <2> QED
      BY <2>1, <2>2, <2>4
  <1>13. \A i \in DOMAIN list : i < p => NoLater(timeout[list[i]].when, when, Limit)
    <2>1. SUFFICES ASSUME NEW i \in DOMAIN list, i < p PROVE NoLater(timeout[list[i]].when, when, Limit)
      OBVIOUS
    <2>2. k \in DOMAIN list /\ i <= k /\ k # 0
      BY <1>2, <1>4, <1>6, <2>1
    <2>3. i = k \/ i < k
      BY <1>9, <2>2
    <2>4. CASE timeout[list[k]].when <= when
      <3>1. PICK v : v = timeout[list[k]].when
        OBVIOUS
      <3>2. PICK w : w = timeout[list[i]].when
        OBVIOUS
      <3>3. v \in Nat /\ w \in Nat /\ v <= when
        BY <1>10, <2>2, <2>4, <3>1, <3>2
      <3>4. w = v \/ NoLater(w, v, Limit)
        BY <2>2, <2>3, <3>1, <3>2 DEF Sorted
      <3>5. NoLater(w, when, Limit)
        BY <3>3, <3>4, ClockAssumption DEF NoLater
      <3> QED
        BY <3>2, <3>5
    <2>5. CASE ~IsUnmarked(list[k])
      <3>1. timeout[list[k]].firing # 0
        BY <2>5 DEF IsUnmarked
      <3>2. timeout[list[k]].firing # 0 /\ (i < k => timeout[list[i]].firing \in 1..timeout[list[k]].firing)
        BY <2>2, <3>1 DEF MarkedFirst
      <3>3. timeout[list[i]].firing # 0
        BY <2>3, <3>2
      <3> QED
        BY <1>10, <3>3 DEF IsUnmarked
    <2> QED
      BY <1>2, <2>2, <2>4, <2>5
  <1>14. \A i \in DOMAIN list : p <= i => when <= timeout[list[i]].when /\ timeout[list[i]].firing = 0
    <2>1. SUFFICES ASSUME NEW i \in DOMAIN list, p <= i
                   PROVE  when <= timeout[list[i]].when /\ timeout[list[i]].firing = 0
      OBVIOUS
    <2>2. ~(timeout[list[i]].when <= when) /\ IsUnmarked(list[i])
      BY <1>2, <1>6, <2>1
    <2> QED
      BY <1>10, <2>2 DEF IsUnmarked
  <1>15. \A i \in DOMAIN list : /\ ts[list[i]].when = timeout[list[i]].when
                                /\ ts[list[i]].firing = timeout[list[i]].firing
    BY <1>10
  <1>16. Sorted(ts, r, Limit)
    <2>1. SUFFICES ASSUME NEW i \in DOMAIN r, NEW j \in DOMAIN r, i < j
                   PROVE  NoLater(ts[r[i]].when, ts[r[j]].when, Limit)
      BY DEF Sorted
    <2>2. CASE i = p
      <3>1. j # p /\ l(j) \in DOMAIN list /\ p <= l(j) /\ r[j] = list[l(j)]
        BY <1>5, <1>6, <1>7, <1>9, <2>1, <2>2
      <3>2. PICK v : v = timeout[list[l(j)]].when
        OBVIOUS
      <3>3. v \in Nat /\ when <= v /\ ts[r[j]].when = v /\ ts[r[i]].when = when
        BY <1>4, <1>10, <1>14, <1>15, <2>2, <3>1, <3>2
      <3> QED
        BY <3>3, ClockAssumption DEF NoLater
    <2>3. CASE j = p
      BY <1>4, <1>5, <1>6, <1>7, <1>9, <1>13, <1>15, <2>1, <2>3
    <2>4. CASE i # p /\ j # p
      <3>1. l(i) \in DOMAIN list /\ l(j) \in DOMAIN list /\ l(i) <= l(j) /\ l(i) # l(j)
        BY <1>5, <1>9, <2>1, <2>4
      <3>2. l(i) < l(j)
        BY <1>9, <3>1
      <3> QED
        BY <1>7, <1>15, <2>4, <3>1, <3>2 DEF Sorted
    <2> QED
      BY <2>2, <2>3, <2>4
  <1>17. MarkedFirst(ts, r)
    <2>1. SUFFICES ASSUME NEW i \in DOMAIN r, NEW j \in DOMAIN r, i < j, ts[r[j]].firing # 0
                   PROVE  ts[r[i]].firing \in 1..ts[r[j]].firing
      BY DEF MarkedFirst
    <2>2. j # p
      BY <1>4, <2>1
    <2>3. l(j) \in DOMAIN list /\ timeout[list[l(j)]].firing # 0
      BY <1>5, <1>7, <1>15, <2>1, <2>2
    <2>4. l(j) < p
      BY <1>9, <1>14, <2>3
    <2>5. i # p
      <3>1. SUFFICES ASSUME i = p PROVE FALSE
        OBVIOUS
      <3>2. p <= l(j) /\ l(j) \in Nat
        BY <1>6, <1>9, <2>1, <2>3, <3>1
      <3> QED
        BY <1>9, <2>4, <3>2
    <2>6. l(i) \in DOMAIN list /\ l(i) <= l(j) /\ l(i) # l(j)
      BY <1>5, <1>9, <2>1, <2>2, <2>5
    <2>7. l(i) < l(j)
      BY <1>9, <2>3, <2>6
    <2> QED
      BY <1>7, <1>15, <2>2, <2>3, <2>5, <2>6, <2>7 DEF MarkedFirst
  <1>18. ASSUME NEW f, NEW at, f # 0, Ahead(ts, list, at, f) PROVE Ahead(ts, r, at, f)
    <2>1. \A q \in DOMAIN r : ts[r[q]].firing = f =>
            q # p /\ l(q) \in DOMAIN list /\ ts[list[l(q)]].firing = f
      BY <1>4, <1>5, <1>7, <1>18
    <2>2. CASE at = End /\ \A q \in DOMAIN list : ts[list[q]].firing # f
      BY <2>1, <2>2 DEF Ahead
    <2>3. CASE \E q \in DOMAIN list :
                 list[q] = at /\ \A j \in DOMAIN list : ts[list[j]].firing = f => q <= j
      <3>1. PICK q \in DOMAIN list :
              list[q] = at /\ \A j \in DOMAIN list : ts[list[j]].firing = f => q <= j
        BY <2>3
      <3>2. m(q) \in DOMAIN r /\ r[m(q)] = at /\ m(q) # p /\ l(m(q)) = q
        BY <1>5, <1>8, <3>1
      <3>3. ASSUME NEW j \in DOMAIN r, ts[r[j]].firing = f PROVE m(q) <= j
        <4>1. j # p /\ q <= l(j) /\ l(j) \in DOMAIN list /\ m(l(j)) = j
          BY <1>5, <2>1, <3>1, <3>3
        <4>2. q = l(j) \/ m(q) < m(l(j))
          BY <1>5, <1>9, <4>1
        <4> QED
          BY <1>9, <3>2, <4>1, <4>2
      <3> QED
        BY <3>2, <3>3 DEF Ahead
    <2> QED
      BY <1>18, <2>2, <2>3 DEF Ahead
  <1>19. \/ r[1] = id /\ \A e \in ToSet(list) : when <= timeout[e].when
         \/ /\ r[1] = list[1]
            /\ \E e \in ToSet(list) : timeout[e].when <= when \/ ~IsUnmarked(e)
    <2>1. CASE k = 0
      <3>1. r[1] = id /\ \A i \in DOMAIN list : p <= i
        BY <1>3, <1>4, <2>1
      <3>2. \A i \in DOMAIN list : when <= timeout[list[i]].when
        BY <1>14, <3>1
      <3> QED
        BY <3>1, <3>2 DEF ToSet
    <2>2. CASE k # 0
      <3>1. k \in DOMAIN list /\ 1 \in 1..(n + 1) /\ 1 <= k
        BY <1>2, <1>4, <2>2
      <3>2. r[1] = list[1]
        BY <1>2, <3>1
      <3>3. timeout[list[k]].when <= when \/ ~IsUnmarked(list[k])
        BY <1>2, <2>2
      <3> QED
        BY <1>10, <3>1, <3>2, <3>3
    <2> QED
      BY <2>1, <2>2
  <1> QED
    BY <1>2, <1>11, <1>12, <1>16, <1>17, <1>18, <1>19

------------------------------------------------------------------------------
(* The executor *)

Queued(x) == \E i \in DOMAIN x.mail : x.mail[i].kind = "run"

Armed(x) ==
    \/ x.os \in {"pending", "calling"}
    \/ \E i \in DOMAIN x.mail : x.mail[i].kind = "timer" /\ x.mail[i].fresh

\* What the mode waits for is on its way.
Alive(x) ==
    /\ x \in Wake
    /\ x.mode = "Immediate" => Queued(x)
    /\ x.mode = "Delayed" => x.hasTask /\ Armed(x)

\* The executor is scheduled for a deadline, or earlier.
Covers(x, when) == x.mode = "Immediate" \/ (x.mode = "Delayed" /\ x.deadline <= when)

\* It is not scheduled for so late that a deadline before that may have been passed over.
Follows(x, when) == x.mode = "Delayed" => when < x.deadline

LEMMA OutdatedType == ASSUME NEW mail \in Seq(Event) PROVE Outdated(mail) \in Seq(Event)
  <1>1. ASSUME NEW e \in Event PROVE [e EXCEPT !.fresh = FALSE] \in Event
    BY DEF Event
  <1>2. Outdated(mail) \in [1..Len(mail) -> Event]
    <2>1. \A i \in 1..Len(mail) : mail[i] \in Event
      OBVIOUS
    <2> QED
      BY <1>1, <2>1 DEF Outdated
  <1> QED
    BY <1>2

LEMMA CancelledIs ==
    ASSUME NEW x \in Wake
    PROVE  Alive(Cancelled(x)) /\ Cancelled(x).mode = "None"
  <1>1. x.mail \in Seq(Event) /\ (x.os = "calling") \in BOOLEAN /\ x.stale \in BOOLEAN
    BY DEF Wake
  <1>2. Cancelled(x) \in Wake
    BY <1>1, OutdatedType DEF Cancelled, Wake
  <1>3. Cancelled(x).mode = "None"
    BY DEF Cancelled, Wake
  <1> QED
    BY <1>2, <1>3 DEF Alive

LEMMA LimitIs == ASSUME now \in Nat PROVE Limit \in Nat /\ now <= Limit
  BY ClockAssumption DEF Limit

\* What is due may come before whatever is inserted now.
LEMMA DueIsNoLater ==
    ASSUME now \in Nat, NEW v \in Nat, v <= Limit, NEW w \in Nat, now <= w
    PROVE  NoLater(v, w, Limit)
  <1>1. v <= now + AllowedEarly
    BY DEF Limit
  <1> QED
    BY <1>1, ClockAssumption DEF NoLater

LEMMA ScheduledIs ==
    ASSUME NEW x \in Wake, NEW when \in Nat, now \in Nat
    PROVE  /\ Alive(Scheduled(x, when))
           /\ Scheduled(x, when).mode \in {"Immediate", "Delayed"}
           /\ \A w \in Nat : when <= w => Covers(Scheduled(x, when), w)
           /\ \A w \in Nat : w <= Limit => Follows(Scheduled(x, when), w)
           /\ when <= Limit => Scheduled(x, when).mode = "Immediate"
  <1> DEFINE e == [kind |-> "run", fresh |-> FALSE]
  <1>1. CASE when <= Limit
    <2>1. x.mail \in Seq(Event) /\ e \in Event
      BY DEF Wake, Event
    <2>2. PICK m : m = Append(x.mail, e)
      OBVIOUS
    <2>3. m \in Seq(Event) /\ Len(x.mail) + 1 \in DOMAIN m /\ m[Len(x.mail) + 1] = e
      BY <2>1, <2>2
    <2> HIDE DEF e
    <2>4. Scheduled(x, when) = [x EXCEPT !.mode = "Immediate", !.deadline = when, !.mail = m]
      BY <1>1, <2>2 DEF Scheduled, e
    <2>5. /\ Scheduled(x, when) \in Wake /\ Scheduled(x, when).mode = "Immediate"
          /\ Scheduled(x, when).mail = m
      BY <2>3, <2>4 DEF Wake
    <2>6. Queued(Scheduled(x, when))
      BY <2>3, <2>5 DEF Queued, e
    <2> QED
      BY <2>5, <2>6 DEF Alive, Covers, Follows
  <1>2. CASE ~(when <= Limit)
    <2>1. PICK c : c = Cancelled(x)
      OBVIOUS
    <2>2. c \in Wake
      BY <2>1, CancelledIs DEF Alive
    <2>3. Scheduled(x, when) = [c EXCEPT !.mode = "Delayed", !.deadline = when,
                                         !.hasTask = TRUE, !.os = "pending"]
      BY <1>2, <2>1 DEF Scheduled
    <2>4. /\ Scheduled(x, when) \in Wake /\ Scheduled(x, when).mode = "Delayed"
          /\ Scheduled(x, when).hasTask /\ Scheduled(x, when).os = "pending"
          /\ Scheduled(x, when).deadline = when
      BY <2>2, <2>3 DEF Wake
    <2>5. Limit \in Nat
      BY LimitIs
    <2>6. \A w \in Nat : w <= Limit => w < when
      BY <1>2, <2>5
    <2> QED
      BY <1>2, <2>4, <2>6 DEF Alive, Covers, Follows, Armed
  <1> QED
    BY <1>1, <1>2

\* MaybeSchedule covers its deadline and what was covered before.
LEMMA MaybeScheduledIs ==
    ASSUME NEW x, Alive(x), x.mode # "Shutdown", NEW when \in Nat, now \in Nat,
           NEW y, y = MaybeScheduled(x, when)
    PROVE  /\ Alive(y) /\ y.mode \in {"Immediate", "Delayed"}
           /\ \A w \in Nat : when <= w => Covers(y, w)
           /\ \A w \in Nat : Covers(x, w) => Covers(y, w)
           /\ \A w \in Nat : w <= Limit /\ Follows(x, w) => Follows(y, w)
           /\ when <= Limit /\ Follows(x, when) => y.mode = "Immediate"
  <1>1. x \in Wake /\ x.mode \in {"None", "Immediate", "Delayed"} /\ x.deadline \in Nat
    BY DEF Alive, Wake
  <1>2. CASE x.mode = "None"
    <2>1. y = Scheduled(x, when)
      BY <1>2 DEF MaybeScheduled
    <2> QED
      BY <1>1, <1>2, <2>1, ScheduledIs DEF Covers
  <1>3. CASE x.mode = "Delayed" /\ when < x.deadline
    <2>1. y = Scheduled(Cancelled(x), when)
      BY <1>3 DEF MaybeScheduled
    <2>2. Cancelled(x) \in Wake
      BY <1>1, CancelledIs DEF Alive
    <2>3. /\ Alive(y) /\ y.mode \in {"Immediate", "Delayed"}
          /\ \A w \in Nat : when <= w => Covers(y, w)
      BY <2>1, <2>2, ScheduledIs
    <2>5. /\ \A w \in Nat : w <= Limit => Follows(y, w)
          /\ when <= Limit => y.mode = "Immediate"
      BY <2>1, <2>2, ScheduledIs
    <2>4. \A w \in Nat : Covers(x, w) => when <= w
      BY <1>1, <1>3 DEF Covers
    <2> QED
      BY <2>3, <2>4, <2>5
  <1>4. CASE x.mode = "Immediate" \/ (x.mode = "Delayed" /\ ~(when < x.deadline))
    <2>1. y = x
      BY <1>4 DEF MaybeScheduled
    <2> QED
      BY <1>1, <1>4, <2>1 DEF Covers, Follows
  <1> QED
    BY <1>1, <1>2, <1>3, <1>4

------------------------------------------------------------------------------
(* The invariant *)

\* Marked timeouts are due.
MarkedAreDue(ts, t) == \A id \in DOMAIN ts : ts[id].firing # 0 => ts[id].when <= t

\* The first n RunTimeouts are in the callbacks of timeouts that they have marked, and
\* no other timeout is running.
Calls(ts, list, fs, n) ==
    /\ \A f \in 1..n : /\ fs[f].pc = "callback"
                       /\ Ahead(ts, list, fs[f].at, f)
                       /\ fs[f].at \in DOMAIN ts
                       /\ ts[fs[f].at].firing = f
    /\ \A id \in DOMAIN ts : ts[id].running <=> \E f \in 1..n : fs[f].at = id

\* All RunTimeouts are, but for the one that looks for its next timeout.
Stack(ts, list, fs) ==
    \/ Calls(ts, list, fs, Len(fs))
    \/ /\ fs # <<>> /\ fs[Len(fs)].pc = "loop"
       /\ Calls(ts, list, fs, Len(fs) - 1)
       /\ Ahead(ts, list, fs[Len(fs)].at, Len(fs))

\* What nobody is about to call, the executor watches.
Watched(ts, list, x) ==
    /\ Alive(x)
    /\ \A i \in DOMAIN list : IF ts[list[i]].firing = 0 THEN Covers(x, ts[list[i]].when)
                                                       ELSE Follows(x, ts[list[i]].when)

\* Cleared timeouts are gone, or are running for the last time.
Gone(ts, list, other, ids) ==
    \A id \in ids :
        /\ \A i \in DOMAIN other : other[i] # id
        /\ \A i \in DOMAIN list : list[i] = id => ts[id].running /\ ~ts[id].repeated

\* Without a script there is nothing to run.
Phase ==
    /\ js \in {"none", "gone"} => schedule = <<>> /\ frames = <<>>
    /\ js = "gone" <=> wake.mode = "Shutdown"

ListsInv == Single(schedule) /\ Single(delayed) /\ Apart(schedule, delayed)

OrderInv == Sorted(timeout, schedule, Limit) /\ MarkedFirst(timeout, schedule)

TimersInv ==
    /\ TypeOK /\ Phase
    /\ ListsInv /\ OrderInv
    /\ MarkedAreDue(timeout, Limit)
    /\ Stack(timeout, schedule, frames)
    /\ Watched(timeout, schedule, wake)
    /\ Gone(timeout, schedule, delayed, cleared \ missed)

------------------------------------------------------------------------------
(* The stack *)

\* When a RunTimeout returns, its marks are gone and those of the others stay.
LEMMA UnmarkedIs ==
    ASSUME frames \in Seq(Frame), frames # <<>>,
           NEW ts \in Seq(Timeout), \A id \in DOMAIN ts : ts[id].firing \in 0..Depth,
           NEW us, us = Unmarked(ts)
    PROVE  /\ us \in Seq(Timeout) /\ DOMAIN us = DOMAIN ts
           /\ \A id \in DOMAIN ts :
                /\ us[id].firing \in 0..(Depth - 1)
                /\ us[id].firing = IF ts[id].firing = Depth THEN 0 ELSE ts[id].firing
                /\ us[id].when = ts[id].when /\ us[id].interval = ts[id].interval
                /\ us[id].running = ts[id].running /\ us[id].repeated = ts[id].repeated
                /\ us[id].script = ts[id].script
  <1>1. Depth \in Nat \ {0}
    BY DEF Depth
  <1>2. DOMAIN ts = 1..Len(ts) /\ Len(ts) \in Nat /\ \A id \in DOMAIN ts : ts[id] \in Timeout
    OBVIOUS
  <1>3. DOMAIN us = DOMAIN ts
    BY DEF Unmarked
  <1>4. ASSUME NEW id \in DOMAIN ts
        PROVE  /\ us[id] \in Timeout
               /\ us[id].firing \in 0..(Depth - 1)
               /\ us[id].firing = IF ts[id].firing = Depth THEN 0 ELSE ts[id].firing
               /\ us[id].when = ts[id].when /\ us[id].interval = ts[id].interval
               /\ us[id].running = ts[id].running /\ us[id].repeated = ts[id].repeated
               /\ us[id].script = ts[id].script
    <2>1. PICK t \in Timeout : t = ts[id]
      BY <1>2
    <2>2. us[id] = IF t.firing = Depth THEN [t EXCEPT !.firing = 0] ELSE t
      BY <2>1 DEF Unmarked
    <2>3. t.firing \in 0..Depth
      BY <2>1
    <2>4. CASE t.firing = Depth
      <3>1. PICK u : u = [t EXCEPT !.firing = 0]
        OBVIOUS
      <3>2. /\ u \in Timeout /\ u.firing = 0 /\ u.when = t.when /\ u.interval = t.interval
            /\ u.running = t.running /\ u.repeated = t.repeated /\ u.script = t.script
        BY <3>1 DEF Timeout
      <3>3. us[id] = u
        BY <2>2, <2>4, <3>1
      <3> QED
        BY <1>1, <2>1, <2>4, <3>2, <3>3
    <2>5. CASE t.firing # Depth
      BY <1>1, <2>1, <2>2, <2>3, <2>5
    <2> QED
      BY <2>4, <2>5
  <1>5. us \in Seq(Timeout)
    <2>1. us = [id \in DOMAIN ts |-> us[id]]
      BY DEF Unmarked
    <2>2. us \in [1..Len(ts) -> Timeout]
      BY <1>2, <1>4, <2>1
    <2> QED
      BY <1>2, <2>2
  <1> QED
    BY <1>3, <1>4, <1>5

\* The stack without its top.
LEMMA PoppedIs ==
    ASSUME frames \in Seq(Frame), frames # <<>>, NEW fs, fs = SubSeq(frames, 1, Depth - 1)
    PROVE  /\ fs \in Seq(Frame) /\ Len(fs) = Depth - 1 /\ Depth \in Nat \ {0}
           /\ \A f \in 1..(Depth - 1) : fs[f] = frames[f]
  <1>1. Depth \in Nat \ {0} /\ Depth = Len(frames)
    BY DEF Depth
  <1> QED
    BY <1>1

\* Only the frames of the callbacks count.
LEMMA CallsOf ==
    ASSUME NEW ts, NEW list, NEW fs, NEW gs, NEW n, \A f \in 1..n : gs[f] = fs[f],
           Calls(ts, list, fs, n)
    PROVE  Calls(ts, list, gs, n)
  <1>1. \A id : (\E f \in 1..n : gs[f].at = id) <=> (\E f \in 1..n : fs[f].at = id)
    OBVIOUS
  <1>2. \A f \in 1..n : Ahead(ts, list, gs[f].at, f)
    <2>1. ASSUME NEW f \in 1..n PROVE Ahead(ts, list, gs[f].at, f)
      <3>1. Ahead(ts, list, fs[f].at, f) /\ gs[f].at = fs[f].at
        BY DEF Calls
      <3> QED
        BY <3>1, Zenon
    <2> QED
      BY <2>1
  <1> QED
    BY <1>1, <1>2 DEF Calls

\* A RunTimeout returns from a stack whose other frames are in their callbacks.
LEMMA ReturnKeeps ==
    ASSUME frames \in Seq(Frame), frames # <<>>,
           NEW ts \in Seq(Timeout), \A id \in DOMAIN ts : ts[id].firing \in 0..Depth,
           NEW list \in Seq(DOMAIN ts), Sorted(ts, list, Limit), MarkedFirst(ts, list),
           MarkedAreDue(ts, Limit), Calls(ts, list, frames, Depth - 1),
           NEW us, us = Unmarked(ts), NEW fs, fs = SubSeq(frames, 1, Depth - 1)
    PROVE  /\ us \in Seq(Timeout) /\ DOMAIN us = DOMAIN ts
           /\ fs \in Seq(Frame) /\ Len(fs) = Depth - 1
           /\ \A id \in DOMAIN us : us[id].firing \in 0..Len(fs)
           /\ Sorted(us, list, Limit) /\ MarkedFirst(us, list) /\ MarkedAreDue(us, Limit)
           /\ Stack(us, list, fs)
  <1>1. /\ us \in Seq(Timeout) /\ DOMAIN us = DOMAIN ts
        /\ \A id \in DOMAIN ts :
             /\ us[id].firing \in 0..(Depth - 1)
             /\ us[id].firing = IF ts[id].firing = Depth THEN 0 ELSE ts[id].firing
             /\ us[id].when = ts[id].when /\ us[id].running = ts[id].running
    BY UnmarkedIs
  <1>2. PICK d : d = Depth
    OBVIOUS
  <1>3. /\ fs \in Seq(Frame) /\ Len(fs) = d - 1 /\ d \in Nat \ {0}
        /\ \A f \in 1..(d - 1) : fs[f] = frames[f]
    BY <1>2, PoppedIs
  <1>4. \A i \in DOMAIN list : list[i] \in DOMAIN ts
    OBVIOUS
  <1>5. \A f \in 1..(d - 1), id \in DOMAIN ts : us[id].firing = f <=> ts[id].firing = f
    <2>1. SUFFICES ASSUME NEW f \in 1..(d - 1), NEW id \in DOMAIN ts
                   PROVE  us[id].firing = f <=> ts[id].firing = f
      OBVIOUS
    <2>2. us[id].firing = IF ts[id].firing = d THEN 0 ELSE ts[id].firing
      BY <1>1, <1>2
    <2>3. f # d /\ f # 0
      BY <1>3
    <2> QED
      BY <2>2, <2>3
  <1>6. Sorted(us, list, Limit)
    BY <1>1, <1>4 DEF Sorted
  <1>7. MarkedAreDue(us, Limit)
    BY <1>1, <1>2, <1>3 DEF MarkedAreDue
  <1>8. MarkedFirst(us, list)
    <2>1. SUFFICES ASSUME NEW i \in DOMAIN list, NEW j \in DOMAIN list, i < j, us[list[j]].firing # 0
                   PROVE  us[list[i]].firing \in 1..us[list[j]].firing
      BY DEF MarkedFirst
    <2>2. list[i] \in DOMAIN ts /\ list[j] \in DOMAIN ts
      BY <1>4
    <2>3. ts[list[j]].firing = us[list[j]].firing /\ us[list[j]].firing \in 1..(d - 1)
      <3>1. PICK b : b = us[list[j]].firing
        OBVIOUS
      <3>2. b \in 0..(d - 1) /\ b # 0 /\ b = IF ts[list[j]].firing = d THEN 0 ELSE ts[list[j]].firing
        BY <1>1, <1>2, <2>1, <2>2, <3>1
      <3>3. b = ts[list[j]].firing /\ b \in 1..(d - 1)
        BY <1>3, <3>2
      <3> QED
        BY <3>1, <3>3
    <2>4. ts[list[i]].firing \in 1..ts[list[j]].firing
      BY <2>1, <2>3 DEF MarkedFirst
    <2>5. PICK a : a = ts[list[i]].firing
      OBVIOUS
    <2>6. PICK b : b = us[list[j]].firing
      OBVIOUS
    <2>7. a \in 1..b /\ b \in 1..(d - 1)
      BY <2>3, <2>4, <2>5, <2>6
    <2>8. a # d
      BY <1>3, <2>7
    <2>9. us[list[i]].firing = a
      BY <1>1, <1>2, <2>2, <2>5, <2>8
    <2> QED
      BY <2>6, <2>7, <2>9
  <1>9. \A f \in 1..(d - 1) : Ahead(us, list, frames[f].at, f)
    <2>1. SUFFICES ASSUME NEW f \in 1..(d - 1) PROVE Ahead(us, list, frames[f].at, f)
      OBVIOUS
    <2>2. \A i \in DOMAIN list : us[list[i]].firing = f <=> ts[list[i]].firing = f
      BY <1>4, <1>5
    <2>3. Ahead(ts, list, frames[f].at, f)
      BY <1>2 DEF Calls
    <2> QED
      BY <2>2, <2>3 DEF Ahead
  <1>10. Calls(us, list, fs, d - 1)
    <2>1. \A f \in 1..(d - 1) : /\ frames[f].pc = "callback"
                                /\ frames[f].at \in DOMAIN ts
                                /\ ts[frames[f].at].firing = f
      BY <1>2 DEF Calls
    <2>2. \A id \in DOMAIN ts : ts[id].running <=> \E f \in 1..(d - 1) : frames[f].at = id
      BY <1>2 DEF Calls
    <2>3. \A f \in 1..(d - 1) : us[frames[f].at].firing = f
      BY <1>5, <2>1
    <2>4. \A id \in DOMAIN us : us[id].running <=> \E f \in 1..(d - 1) : frames[f].at = id
      BY <1>1, <2>2
    <2>5. Calls(us, list, frames, d - 1)
      BY <1>1, <1>9, <2>1, <2>3, <2>4 DEF Calls
    <2>6. \A f \in 1..(d - 1) : fs[f] = frames[f]
      BY <1>3
    <2> QED
      BY ONLY <2>5, <2>6, CallsOf
  <1> QED
    BY <1>1, <1>2, <1>3, <1>6, <1>7, <1>8, <1>10 DEF Stack

\* After a timeout, RunTimeout goes on with what it has marked or leaves it to the
\* executor.
LEMMA GoOnOrStopKeeps ==
    ASSUME frames \in Seq(Frame), frames # <<>>, now \in Nat,
           NEW ts \in Seq(Timeout), \A id \in DOMAIN ts : ts[id].firing \in 0..Depth,
           NEW list \in Seq(DOMAIN ts), Sorted(ts, list, Limit), MarkedFirst(ts, list),
           MarkedAreDue(ts, Limit), Calls(ts, list, frames, Depth - 1),
           NEW next \in Nat, Ahead(ts, list, next, Depth), NEW last \in Nat,
           NEW x, Watched(ts, list, x), x.mode # "Shutdown",
           GoOnOrStop(ts, x, next, last)
    PROVE  /\ timeout' \in Seq(Timeout) /\ DOMAIN timeout' = DOMAIN ts
           /\ \A id \in DOMAIN ts : /\ timeout'[id].running = ts[id].running
                                    /\ timeout'[id].repeated = ts[id].repeated
           /\ frames' \in Seq(Frame)
           /\ \A id \in DOMAIN timeout' : timeout'[id].firing \in 0..Len(frames')
           /\ Sorted(timeout', list, Limit) /\ MarkedFirst(timeout', list)
           /\ MarkedAreDue(timeout', Limit)
           /\ Stack(timeout', list, frames')
           /\ Watched(timeout', list, wake') /\ wake'.mode # "Shutdown"
  <1>1. PICK d : d = Depth
    OBVIOUS
  <1>2. d \in Nat \ {0} /\ d = Len(frames)
    BY <1>1 DEF Depth
  <1> DEFINE fr == [pc |-> "loop", at |-> next, last |-> last]
  <1>3. CASE timeout' = ts /\ frames' = [frames EXCEPT ![Depth] = fr] /\ wake' = x
    <2>1. fr \in Frame /\ fr.pc = "loop" /\ fr.at = next
      BY DEF Frame
    <2> HIDE DEF fr
    <2>8. d \in 1..Len(frames)
      BY <1>2
    <2>9. frames' = [frames EXCEPT ![d] = fr]
      BY <1>1, <1>3, Zenon
    <2>2. frames' \in Seq(Frame) /\ Len(frames') = d /\ frames'[d] = fr
      BY <1>2, <2>1, <2>8, <2>9, ExceptSeq
    <2>3. \A f \in 1..(d - 1) : frames'[f] = frames[f]
      <3>1. SUFFICES ASSUME NEW f \in 1..(d - 1) PROVE frames'[f] = frames[f]
        OBVIOUS
      <3>2. f # d /\ f \in DOMAIN frames
        BY <1>2
      <3> QED
        BY <2>9, <3>2
    <2>4. Calls(ts, list, frames', d - 1)
      BY <1>1, <2>3, CallsOf
    <2>5. frames' # <<>>
      BY <1>2, <2>2
    <2>6. Stack(ts, list, frames')
      BY <1>1, <2>1, <2>2, <2>4, <2>5 DEF Stack
    <2> QED
      BY <1>1, <1>3, <2>2, <2>6
  <1>4. CASE /\ RunTimeoutReturns(ts)
             /\ wake' = IF next = End THEN x ELSE MaybeScheduled(x, ts[next].when)
    <2>1. timeout' = Unmarked(ts) /\ frames' = SubSeq(frames, 1, Depth - 1)
      BY <1>4 DEF RunTimeoutReturns
    <2>2. /\ timeout' \in Seq(Timeout) /\ DOMAIN timeout' = DOMAIN ts
          /\ frames' \in Seq(Frame) /\ Len(frames') = d - 1
          /\ \A id \in DOMAIN timeout' : timeout'[id].firing \in 0..Len(frames')
          /\ Sorted(timeout', list, Limit) /\ MarkedFirst(timeout', list) /\ MarkedAreDue(timeout', Limit)
          /\ Stack(timeout', list, frames')
      BY <1>1, <2>1, ReturnKeeps
    <2>3. \A id \in DOMAIN ts :
             /\ timeout'[id].firing = IF ts[id].firing = d THEN 0 ELSE ts[id].firing
             /\ timeout'[id].when = ts[id].when
             /\ timeout'[id].running = ts[id].running /\ timeout'[id].repeated = ts[id].repeated
      BY <1>1, <2>1, UnmarkedIs
    <2>4. \A i \in DOMAIN list : list[i] \in DOMAIN ts /\ i \in Nat
      OBVIOUS
    <2>5. \A id \in DOMAIN ts : ts[id].when \in Nat
      <3>1. \A id \in DOMAIN ts : ts[id] \in Timeout
        OBVIOUS
      <3> QED
        BY <3>1 DEF Timeout
    <2>6. CASE next = End
      <3>1. \A i \in DOMAIN list : ts[list[i]].firing # d
        BY <1>1, <2>4, <2>6 DEF Ahead, End
      <3>2. \A i \in DOMAIN list : /\ timeout'[list[i]].firing = ts[list[i]].firing
                                    /\ timeout'[list[i]].when = ts[list[i]].when
        BY <2>3, <2>4, <3>1
      <3>3. wake' = x
        BY <1>4, <2>6
      <3>4. Watched(timeout', list, wake')
        BY <3>2, <3>3 DEF Watched
      <3> QED
        BY <2>2, <2>3, <3>3, <3>4
    <2>7. CASE next # End
      <3>1. PICK p \in DOMAIN list :
              list[p] = next /\ \A q \in DOMAIN list : ts[list[q]].firing = d => p <= q
        BY <1>1, <2>7 DEF Ahead
      <3>2. PICK w : w = ts[next].when
        OBVIOUS
      <3>3. w \in Nat /\ wake' = MaybeScheduled(x, w)
        BY <1>4, <2>4, <2>5, <2>7, <3>1, <3>2
      <3>4. /\ Alive(wake') /\ wake'.mode \in {"Immediate", "Delayed"}
            /\ \A v \in Nat : w <= v => Covers(wake', v)
            /\ \A v \in Nat : Covers(x, v) => Covers(wake', v)
            /\ \A v \in Nat : v <= Limit /\ Follows(x, v) => Follows(wake', v)
            /\ w <= Limit /\ Follows(x, w) => wake'.mode = "Immediate"
        BY <3>3, MaybeScheduledIs DEF Watched
      <3>5. ASSUME NEW i \in DOMAIN list, timeout'[list[i]].firing = 0
            PROVE  Covers(wake', timeout'[list[i]].when)
        <4>1. list[i] \in DOMAIN ts /\ timeout'[list[i]].when = ts[list[i]].when
          BY <2>3, <2>4
        <4>2. ts[list[i]].when \in Nat
          BY <2>5, <4>1
        <4>3. CASE ts[list[i]].firing = 0
          BY <3>4, <4>1, <4>2, <4>3 DEF Watched
        <4>4. CASE ts[list[i]].firing # 0
          <5>1. ts[list[i]].firing = d
            BY <2>3, <3>5, <4>1, <4>4
          <5>2. p = i \/ p < i
            BY <2>4, <3>1, <5>1
          <5>3. ts[next].firing # 0
            BY <3>1, <4>4, <5>1, <5>2 DEF MarkedFirst
          <5>4. next \in DOMAIN ts /\ Follows(x, w)
            BY <2>4, <3>1, <3>2, <5>3 DEF Watched
          <5>5. w <= Limit
            BY <3>2, <5>3, <5>4 DEF MarkedAreDue
          <5>6. wake'.mode = "Immediate"
            BY <3>4, <5>4, <5>5
          <5> QED
            BY <5>6 DEF Covers
        <4> QED
          BY <4>3, <4>4
      <3>6. ASSUME NEW i \in DOMAIN list, timeout'[list[i]].firing # 0
            PROVE  Follows(wake', timeout'[list[i]].when)
        <4>1. list[i] \in DOMAIN ts /\ timeout'[list[i]].when = ts[list[i]].when
          BY <2>3, <2>4
        <4>2. ts[list[i]].when \in Nat
          BY <2>5, <4>1
        <4>3. ts[list[i]].firing # 0
          BY <2>3, <3>6, <4>1
        <4>4. ts[list[i]].when <= Limit
          BY <4>1, <4>3 DEF MarkedAreDue
        <4>5. Follows(x, ts[list[i]].when)
          BY <4>3 DEF Watched
        <4> QED
          BY <3>4, <4>1, <4>2, <4>4, <4>5
      <3> QED
        BY <2>2, <2>3, <3>4, <3>5, <3>6 DEF Watched
    <2> QED
      BY <2>6, <2>7
  <1> QED
    BY <1>3, <1>4 DEF GoOnOrStop

------------------------------------------------------------------------------
(* The steps that change only the clock or the executor *)

\* The executor may change as it likes while it watches what it has to.
LEMMA WakeStepKeeps ==
    ASSUME TimersInv, now' \in Nat, now <= now',
           UNCHANGED <<timeout, schedule, delayed, isLoading, script, js, frames, cleared, missed>>,
           Alive(wake'), wake'.mode = wake.mode, wake'.deadline = wake.deadline
    PROVE  TimersInv'
  <1>1. TypeOK'
    BY DEF TimersInv, TypeOK, Alive, Id, Depth
  <1>6. \A id \in DOMAIN timeout : timeout[id].when \in Nat
    <2>1. \A id \in DOMAIN timeout : timeout[id] \in Timeout
      BY DEF TimersInv, TypeOK
    <2> QED
      BY <2>1 DEF Timeout
  <1>7. \A w \in Nat : w <= Limit => w <= Limit'
    <2>1. now \in Nat /\ now' \in Nat /\ now <= now' /\ AllowedEarly \in Nat
      BY ClockAssumption DEF TimersInv, TypeOK
    <2>2. PICK a : a = now + AllowedEarly
      OBVIOUS
    <2>3. PICK b : b = now' + AllowedEarly
      OBVIOUS
    <2>8. PICK m : m = now
      OBVIOUS
    <2>9. PICK n : n = now'
      OBVIOUS
    <2>10. m \in Nat /\ n \in Nat /\ m <= n
      BY <2>1, <2>8, <2>9
    <2>11. PICK e \in Nat : e = AllowedEarly
      BY <2>1
    <2>12. a = m + e /\ b = n + e
      BY <2>2, <2>3, <2>8, <2>9, <2>11
    <2>4. a \in Nat /\ b \in Nat /\ a <= b
      BY ONLY <2>10, <2>11, <2>12
    <2>5. Limit = a
      BY <2>2 DEF Limit
    <2>6. Limit' = b
      BY <2>3 DEF Limit
    <2>7. \A w \in Nat : w <= a => w <= b
      BY <2>4
    <2> QED
      BY ONLY <2>5, <2>6, <2>7, Zenon
  <1>8. Sorted(timeout, schedule, Limit)'
    <2>1. SUFFICES ASSUME NEW i \in DOMAIN schedule, NEW j \in DOMAIN schedule, i < j
                   PROVE  NoLater(timeout[schedule[i]].when, timeout[schedule[j]].when, Limit')
      BY DEF Sorted
    <2>2. schedule[i] \in DOMAIN timeout
      BY DEF TimersInv, TypeOK, Id
    <2>3. timeout[schedule[i]].when \in Nat
      BY <1>6, <2>2
    <2>4. NoLater(timeout[schedule[i]].when, timeout[schedule[j]].when, Limit)
      BY <2>1 DEF TimersInv, OrderInv, Sorted
    <2> QED
      BY <1>7, <2>3, <2>4 DEF NoLater
  <1>2. Phase' /\ ListsInv' /\ OrderInv'
    BY <1>8 DEF TimersInv, Phase, ListsInv, OrderInv
  <1>3. MarkedAreDue(timeout, Limit)'
    BY <1>6, <1>7 DEF TimersInv, MarkedAreDue
  <1>4. Stack(timeout, schedule, frames)' /\ Gone(timeout, schedule, delayed, cleared \ missed)'
    BY DEF TimersInv
  <1>5. Watched(timeout, schedule, wake)'
    <2>1. \A w : /\ Covers(wake, w) => Covers(wake', w)
                 /\ Follows(wake, w) => Follows(wake', w)
      BY DEF Covers, Follows
    <2> QED
      BY <2>1 DEF TimersInv, Watched
  <1> QED
    BY <1>1, <1>2, <1>3, <1>4, <1>5 DEF TimersInv

LEMMA TickKeeps == ASSUME TimersInv, Tick PROVE TimersInv'
  <1>1. now \in Nat /\ Alive(wake)
    BY DEF TimersInv, TypeOK, Watched
  <1> QED
    BY <1>1, WakeStepKeeps DEF Tick

LEMMA TimerProcStartsKeeps == ASSUME TimersInv, TimerProcStarts PROVE TimersInv'
  <1>1. now \in Nat /\ Alive(wake)
    BY DEF TimersInv, TypeOK, Watched
  <1>2. /\ wake' \in Wake /\ wake'.os = "calling" /\ wake'.mail = wake.mail
        /\ wake'.mode = wake.mode /\ wake'.deadline = wake.deadline
        /\ wake'.hasTask = wake.hasTask
    BY <1>1 DEF TimerProcStarts, Alive, Wake
  <1>3. Alive(wake')
    BY <1>1, <1>2 DEF Alive, Queued, Armed
  <1> QED
    BY <1>1, <1>2, <1>3, WakeStepKeeps DEF TimerProcStarts

LEMMA TimerProcPostsKeeps == ASSUME TimersInv, TimerProcPosts PROVE TimersInv'
  <1>1. now \in Nat /\ Alive(wake)
    BY DEF TimersInv, TypeOK, Watched
  <1> DEFINE e == [kind |-> "timer", fresh |-> TRUE]
  <1>2. wake.mail \in Seq(Event) /\ e \in Event /\ wake \in Wake
    BY <1>1 DEF Alive, Wake, Event
  <1>3. PICK m : m = Append(wake.mail, e)
    OBVIOUS
  <1>4. /\ m \in Seq(Event) /\ Len(wake.mail) + 1 \in DOMAIN m /\ m[Len(wake.mail) + 1] = e
        /\ \A i \in DOMAIN wake.mail : i \in DOMAIN m /\ m[i] = wake.mail[i]
    BY <1>2, <1>3
  <1>5. e.kind = "timer" /\ e.fresh
    OBVIOUS
  <1> HIDE DEF e
  <1>6. wake' = [wake EXCEPT !.os = IF wake.os = "calling" THEN "done" ELSE wake.os,
                             !.stale = FALSE, !.mail = m]
    BY <1>3 DEF TimerProcPosts, e
  <1>7. /\ wake' \in Wake /\ wake'.mail = m /\ wake'.mode = wake.mode
        /\ wake'.deadline = wake.deadline /\ wake'.hasTask = wake.hasTask
    BY <1>2, <1>4, <1>6 DEF Wake
  <1>8. Armed(wake')
    BY <1>4, <1>5, <1>7 DEF Armed
  <1>9. Queued(wake) => Queued(wake')
    BY <1>4, <1>7 DEF Queued
  <1>10. Alive(wake')
    BY <1>1, <1>7, <1>8, <1>9 DEF Alive
  <1> QED
    BY <1>1, <1>7, <1>10, WakeStepKeeps DEF TimerProcPosts

LEMMA StutterKeeps == ASSUME TimersInv, UNCHANGED vars PROVE TimersInv'
  <1>1. now \in Nat /\ Alive(wake)
    BY DEF TimersInv, TypeOK, Watched
  <1> QED
    BY <1>1, WakeStepKeeps DEF vars

\* An event that is ignored was not what the executor waits for.
LEMMA IgnoreKeeps ==
    ASSUME Alive(wake), wake.mail # <<>>, ~Matches(Head(wake.mail)),
           NEW y, y = [[wake EXCEPT !.mail = Tail(@)] EXCEPT
                         !.hasTask = @ /\ ~(/\ Head(wake.mail).kind = "timer"
                                            /\ Head(wake.mail).fresh)]
    PROVE  Alive(y) /\ y.mode = wake.mode /\ y.deadline = wake.deadline
  <1>1. PICK m : m = Tail(wake.mail)
    OBVIOUS
  <1>2. PICK e : e = Head(wake.mail)
    OBVIOUS
  <1>3. wake.mail \in Seq(Event) /\ wake.hasTask \in BOOLEAN /\ wake \in Wake
    BY DEF Alive, Wake
  <1>4. /\ m \in Seq(Event) /\ e = wake.mail[1] /\ e \in Event
        /\ \A i \in DOMAIN wake.mail : i # 1 => i - 1 \in DOMAIN m /\ m[i - 1] = wake.mail[i]
    BY <1>1, <1>2, <1>3
  <1>5. PICK h : h = (wake.hasTask /\ ~(e.kind = "timer" /\ e.fresh))
    OBVIOUS
  <1>6. h \in BOOLEAN
    BY <1>5
  <1>7. y = [wake EXCEPT !.mail = m, !.hasTask = h]
    BY <1>1, <1>2, <1>3, <1>5 DEF Wake
  <1>8. /\ y \in Wake /\ y.mail = m /\ y.hasTask = h /\ y.os = wake.os
        /\ y.mode = wake.mode /\ y.deadline = wake.deadline
    BY <1>3, <1>4, <1>6, <1>7 DEF Wake
  <1>9. ASSUME y.mode = "Immediate" PROVE Queued(y)
    <2>1. PICK i \in DOMAIN wake.mail : wake.mail[i].kind = "run"
      BY <1>8, <1>9 DEF Alive, Queued
    <2>2. i # 1
      BY <1>2, <1>4, <1>8, <1>9, <2>1 DEF Matches
    <2> QED
      BY <1>4, <1>8, <2>1, <2>2 DEF Queued
  <1>10. ASSUME y.mode = "Delayed" PROVE y.hasTask /\ Armed(y)
    <2>1. wake.hasTask /\ Armed(wake)
      BY <1>8, <1>10 DEF Alive
    <2>2. ~(e.kind = "timer" /\ e.fresh)
      BY <1>2, <1>8, <1>10, <2>1 DEF Matches
    <2>3. y.hasTask
      BY <1>5, <1>8, <2>1, <2>2
    <2>4. CASE wake.os \in {"pending", "calling"}
      BY <1>8, <2>3, <2>4 DEF Armed
    <2>5. CASE \E i \in DOMAIN wake.mail : wake.mail[i].kind = "timer" /\ wake.mail[i].fresh
      <3>1. PICK i \in DOMAIN wake.mail : wake.mail[i].kind = "timer" /\ wake.mail[i].fresh
        BY <2>5
      <3>2. i # 1
        BY <1>4, <2>2, <3>1
      <3> QED
        <4>1. i - 1 \in DOMAIN y.mail /\ y.mail[i - 1] = wake.mail[i]
          BY <1>4, <1>8, <3>1, <3>2
        <4>2. \E j \in DOMAIN y.mail : y.mail[j].kind = "timer" /\ y.mail[j].fresh
          BY <3>1, <4>1
        <4> QED
          BY <2>3, <4>2 DEF Armed
    <2> QED
      BY <2>1, <2>4, <2>5 DEF Armed
  <1> QED
    BY <1>8, <1>9, <1>10 DEF Alive

------------------------------------------------------------------------------
(* The script is loaded, unloaded or fails *)

\* A timeout of the list is one that was made.
LEMMA ListedIs ==
    ASSUME TypeOK
    PROVE  /\ DOMAIN timeout = Id /\ Len(timeout) \in Nat /\ Id = 1..Len(timeout)
           /\ \A id \in Id : timeout[id] \in Timeout /\ timeout[id].when \in Nat
           /\ \A i \in DOMAIN schedule : schedule[i] \in Id
           /\ \A i \in DOMAIN delayed : delayed[i] \in Id
           /\ DOMAIN schedule \subseteq Nat
  <1>1. \A id \in Id : timeout[id] \in Timeout
    BY DEF TypeOK, Id
  <1>2. \A id \in Id : timeout[id].when \in Nat
    BY <1>1 DEF Timeout
  <1> QED
    BY <1>1, <1>2 DEF TypeOK, Id

\* An empty list is in order.
LEMMA EmptyIs ==
    ASSUME NEW ts, NEW x, Alive(x)
    PROVE  /\ Single(<<>>) /\ Sorted(ts, <<>>, Limit) /\ MarkedFirst(ts, <<>>)
           /\ Watched(ts, <<>>, x)
           /\ \A list : Apart(<<>>, list)
           /\ \A list, other, ids : Gone(ts, list, other, ids) => Gone(ts, <<>>, other, ids)
  BY DEF Single, Sorted, MarkedFirst, Watched, Apart, Gone

\* With no RunTimeout on the stack nothing is marked and nothing runs.
LEMMA IdleIs ==
    ASSUME TimersInv, frames = <<>>
    PROVE  /\ \A id \in Id : timeout[id].firing = 0 /\ ~timeout[id].running
           /\ \A list : Stack(timeout, list, frames)
  <1>1. Len(frames) = 0 /\ Depth = 0
    BY DEF Depth
  <1>2. \A id \in Id : timeout[id].firing = 0
    BY <1>1 DEF TimersInv, TypeOK
  <1>3. Calls(timeout, schedule, frames, 0)
    BY <1>1 DEF TimersInv, Stack
  <1>4. \A id \in Id : ~timeout[id].running
    BY <1>3 DEF Calls, Id
  <1>5. \A list : Calls(timeout, list, frames, 0)
    BY <1>4 DEF Calls, Id
  <1> QED
    BY <1>1, <1>2, <1>4, <1>5 DEF Stack

\* The list is emptied while nothing runs.
LEMMA EmptiedKeeps ==
    ASSUME TimersInv, frames = <<>>,
           UNCHANGED <<now, timeout, frames, cleared, missed>>,
           isLoading' \in BOOLEAN, script' \in Nat,
           js' \in {"none", "parsing", "gone"}, js' = "gone" <=> wake'.mode = "Shutdown",
           schedule' = <<>>, delayed' = delayed \/ delayed' = <<>>, Alive(wake')
    PROVE  TimersInv'
  <1>1. /\ TypeOK /\ ListsInv /\ MarkedAreDue(timeout, Limit)
        /\ Gone(timeout, schedule, delayed, cleared \ missed)
    BY DEF TimersInv
  <1>2. TypeOK'
    <2>1. Id' = Id /\ Depth' = Depth
      BY DEF Id, Depth
    <2>4. delayed \in Seq(Id) /\ <<>> \in Seq(Id)
      BY <1>1 DEF TypeOK
    <2>2. schedule' \in Seq(Id) /\ delayed' \in Seq(Id)
      BY <2>4
    <2>3. wake' \in Wake /\ js' \in {"none", "parsing", "working", "gone"}
      BY DEF Alive
    <2> QED
      BY <1>1, <2>1, <2>2, <2>3 DEF TypeOK
  <1>3. Phase'
    BY DEF Phase
  <1>4. ListsInv'
    BY <1>1, EmptyIs DEF ListsInv
  <1>5. OrderInv'
    BY DEF OrderInv, Sorted, MarkedFirst
  <1>6. MarkedAreDue(timeout, Limit)'
    BY <1>1 DEF Limit
  <1>7. Stack(timeout, schedule, frames)'
    <2>1. Stack(timeout, <<>>, frames)
      BY IdleIs
    <2> QED
      BY <2>1
  <1>8. Watched(timeout, schedule, wake)'
    BY EmptyIs
  <1>9. Gone(timeout, schedule, delayed, cleared \ missed)'
    <2>1. Gone(timeout, <<>>, delayed, cleared \ missed)
      BY <1>1, EmptyIs
    <2>2. Gone(timeout, <<>>, delayed', cleared \ missed)
      BY <2>1 DEF Gone
    <2> QED
      BY <2>2
  <1> QED
    BY <1>2, <1>3, <1>4, <1>5, <1>6, <1>7, <1>8, <1>9 DEF TimersInv

LEMMA BeginLoadKeeps == ASSUME TimersInv, BeginLoad PROVE TimersInv'
  <1>1. script \in Nat /\ wake \in Wake /\ schedule = <<>> /\ wake.mode # "Shutdown" /\ Alive(wake)
    BY DEF BeginLoad, TimersInv, TypeOK, Phase, Watched
  <1>2. schedule' = <<>> /\ (wake' = wake \/ wake' = Cancelled(wake))
    BY <1>1 DEF BeginLoad, StopAllTimeouts
  <1>3. Alive(wake') /\ wake'.mode # "Shutdown"
    BY <1>1, <1>2, CancelledIs
  <1> QED
    BY <1>1, <1>2, <1>3, EmptiedKeeps DEF BeginLoad

LEMMA UnloadScriptKeeps == ASSUME TimersInv, UnloadScript PROVE TimersInv'
  <1>1. script \in Nat /\ isLoading \in BOOLEAN /\ wake \in Wake
    BY DEF TimersInv, TypeOK
  <1>2. Alive(wake') /\ wake'.mode # "Shutdown"
    BY <1>1, CancelledIs DEF UnloadScript, StopAllTimeouts
  <1> QED
    BY <1>1, <1>2, EmptiedKeeps DEF UnloadScript, StopAllTimeouts

LEMMA OnDestroyKeeps == ASSUME TimersInv, OnDestroy PROVE TimersInv'
  <1>1. script \in Nat /\ isLoading \in BOOLEAN /\ wake \in Wake
    BY DEF TimersInv, TypeOK
  <1>2. PICK c : c = Cancelled(wake)
    OBVIOUS
  <1>5. c \in Wake /\ <<>> \in Seq(Event)
    BY <1>1, <1>2, CancelledIs DEF Alive
  <1>6. wake' = [c EXCEPT !.mode = "Shutdown", !.mail = <<>>]
    BY <1>2 DEF OnDestroy
  <1>3. wake' \in Wake /\ wake'.mode = "Shutdown"
    BY <1>5, <1>6 DEF Wake
  <1>4. Alive(wake')
    BY <1>3 DEF Alive
  <1> QED
    BY <1>1, <1>3, <1>4, EmptiedKeeps DEF OnDestroy

\* The function that AllInserted is defined by exists.
LEMMA AllInsertedExists ==
    ASSUME delayed \in Seq(Id)
    PROVE  \E g : /\ g = [n \in 0..Len(delayed) |->
                            IF n = 0 THEN schedule
                            ELSE Inserted(g[n - 1], delayed[n], timeout[delayed[n]].when)]
                  /\ AllInserted = g[Len(delayed)]
  <1> DEFINE Next1(list, n) == Inserted(list, delayed[n], timeout[delayed[n]].when)
             Def(g, m) == [n \in 0..m |-> IF n = 0 THEN schedule ELSE Next1(g[n - 1], n)]
             P == {m \in Nat : \E g : g = Def(g, m)}
  <1>1. 0 \in P
    <2>1. PICK g : g = [n \in 0..0 |-> schedule]
      OBVIOUS
    <2>2. g = Def(g, 0)
      BY <2>1
    <2> QED
      BY <2>2
  <1>2. ASSUME NEW m \in Nat, m \in P PROVE m + 1 \in P
    <2>1. PICK g : g = Def(g, m)
      BY <1>2
    <2>2. PICK h : h = [n \in 0..(m + 1) |-> IF n <= m THEN g[n] ELSE Next1(g[m], n)]
      OBVIOUS
    <2>3. ASSUME NEW n \in 0..(m + 1)
          PROVE  h[n] = IF n = 0 THEN schedule ELSE Next1(h[n - 1], n)
      <3>1. CASE n = 0
        BY <2>1, <2>2, <3>1
      <3>2. CASE n # 0 /\ n <= m
        <4>1. n \in 0..m /\ n - 1 \in 0..(m + 1) /\ n - 1 <= m
          BY <3>2
        <4>2. h[n] = g[n] /\ h[n - 1] = g[n - 1]
          BY <2>2, <3>2, <4>1
        <4>3. g[n] = Next1(g[n - 1], n)
          BY <2>1, <3>2, <4>1
        <4> QED
          BY <3>2, <4>2, <4>3
      <3>3. CASE ~(n <= m)
        <4>1. n = m + 1 /\ n - 1 = m /\ n # 0 /\ m \in 0..(m + 1) /\ m <= m
          BY <3>3
        <4>2. h[n] = Next1(g[m], n) /\ h[m] = g[m]
          BY <2>2, <3>3, <4>1
        <4> QED
          BY <4>1, <4>2
      <3> QED
        BY <3>1, <3>2, <3>3
    <2>4. h = Def(h, m + 1)
      BY <2>2, <2>3
    <2> QED
      BY <1>2, <2>4
  <1>3. Len(delayed) \in P
    <2>1. Len(delayed) \in Nat
      OBVIOUS
    <2> HIDE DEF P
    <2> QED
      BY <1>1, <1>2, <2>1, Induction
  <1>4. \E g : g = Def(g, Len(delayed))
    BY <1>3
  <1>5. AllInserted = (CHOOSE g : g = Def(g, Len(delayed)))[Len(delayed)]
    BY DEF AllInserted
  <1> QED
    BY <1>4, <1>5

\* Before what has come to the list there is something that is due no later: the first
\* of the list, or what was in it already.
Led(list) ==
    \A e \in ToSet(list) : \/ timeout[list[1]].when <= timeout[e].when
                           \/ \E a \in ToSet(schedule) : timeout[a].when <= timeout[e].when

\* What was put aside is in the list afterwards, in its place.
LEMMA AllInsertedIs ==
    ASSUME timeout \in Seq(Timeout), schedule \in Seq(Id), delayed \in Seq(Id),
           ListsInv, OrderInv, \A id \in Id : timeout[id].firing = 0,
           NEW r, r = AllInserted
    PROVE  /\ r \in Seq(Id) /\ Single(r)
           /\ \A e : e \in ToSet(r) <=> e \in ToSet(schedule) \/ e \in ToSet(delayed)
           /\ Sorted(timeout, r, Limit) /\ MarkedFirst(timeout, r)
           /\ Led(r)
  <1>1. PICK m : m = Len(delayed)
    OBVIOUS
  <1>2. PICK g : /\ g = [n \in 0..m |->
                          IF n = 0 THEN schedule
                          ELSE Inserted(g[n - 1], delayed[n], timeout[delayed[n]].when)]
                 /\ r = g[m]
    BY <1>1, AllInsertedExists
  <1>3. m \in Nat /\ DOMAIN delayed = 1..m
    BY <1>1
  <1> DEFINE Good(n) ==
        /\ g[n] \in Seq(Id) /\ Single(g[n])
        /\ \A e : e \in ToSet(g[n]) <=>
             e \in ToSet(schedule) \/ \E i \in 1..n : e = delayed[i]
        /\ Sorted(timeout, g[n], Limit) /\ MarkedFirst(timeout, g[n])
        /\ Led(g[n])
             P == {n \in Nat : n <= m => Good(n)}
  <1>4. 0 \in P
    <2>1. g[0] = schedule
      BY <1>2, <1>3
    <2>2. \A a \in ToSet(schedule) : timeout[a].when <= timeout[a].when
      <3>1. SUFFICES ASSUME NEW a \in ToSet(schedule) PROVE timeout[a].when <= timeout[a].when
        OBVIOUS
      <3>2. a \in DOMAIN timeout
        BY DEF ToSet, Id
      <3>3. timeout[a] \in Timeout
        BY <3>2
      <3>4. timeout[a].when \in Nat
        BY <3>3 DEF Timeout
      <3> QED
        BY <3>4
    <2>3. Led(schedule)
      BY <2>2 DEF Led
    <2> QED
      BY <2>1, <2>3 DEF ListsInv, OrderInv
  <1>5. ASSUME NEW n \in Nat, n \in P PROVE n + 1 \in P
    <2>1. SUFFICES ASSUME n + 1 <= m PROVE Good(n + 1)
      OBVIOUS
    <2>2. Good(n) /\ n + 1 \in 0..m /\ n + 1 # 0 /\ (n + 1) - 1 = n /\ n + 1 \in DOMAIN delayed
      BY <1>3, <1>5, <2>1
    <2>3. PICK l : l = g[n]
      OBVIOUS
    <2>4. PICK id : id = delayed[n + 1]
      OBVIOUS
    <2>5. g[n + 1] = Inserted(l, id, timeout[id].when)
      BY <1>2, <2>2, <2>3, <2>4
    <2>6. /\ l \in Seq(Id) /\ Single(l) /\ Sorted(timeout, l, Limit) /\ MarkedFirst(timeout, l)
          /\ \A e : e \in ToSet(l) <=> e \in ToSet(schedule) \/ \E i \in 1..n : e = delayed[i]
          /\ Led(l)
      BY <2>2, <2>3
    <2> HIDE DEF Good, P
    <2>7. id \in Id
      BY <2>2, <2>4
    <2>8. id \notin ToSet(l)
      <3>1. id \notin ToSet(schedule)
        BY <2>2, <2>4 DEF ListsInv, Apart, ToSet
      <3>2. \A i \in 1..n : i \in DOMAIN delayed /\ i # n + 1
        BY <1>3, <1>5, <2>1
      <3>3. \A i \in 1..n : id # delayed[i]
        BY <2>2, <2>4, <3>2 DEF ListsInv, Single
      <3> QED
        BY <2>6, <3>1, <3>3
    <2>9. \A e \in Id : timeout[e].when \in Nat /\ IsUnmarked(e)
      <3>1. \A e \in Id : timeout[e] \in Timeout
        BY DEF Id
      <3> QED
        BY <3>1 DEF Timeout, IsUnmarked
    <2>10. \A e \in ToSet(l) : e \in Id
      BY <2>6 DEF ToSet
    <2>11. PICK w : w = timeout[id].when
      OBVIOUS
    <2>12. PICK q : q = g[n + 1]
      OBVIOUS
    <2>13. /\ q \in Seq(Id) /\ Single(q)
           /\ \A e : e \in ToSet(q) <=> e \in ToSet(l) \/ e = id
           /\ Sorted(timeout, q, Limit) /\ MarkedFirst(timeout, q)
           /\ \/ q[1] = id /\ \A e \in ToSet(l) : w <= timeout[e].when
              \/ /\ q[1] = l[1]
                 /\ \E e \in ToSet(l) : timeout[e].when <= w \/ ~IsUnmarked(e)
      <3>1. /\ w \in Nat /\ timeout[id].when = w /\ timeout[id].firing = 0
            /\ q = Inserted(l, id, w)
        BY <2>5, <2>7, <2>9, <2>11, <2>12
      <3>2. \A e \in ToSet(l) : /\ timeout[e].when = timeout[e].when
                                /\ timeout[e].firing = timeout[e].firing
                                /\ timeout[e].when \in Nat
                                /\ ~IsUnmarked(e) => NoLater(timeout[e].when, w, Limit)
        BY <2>9, <2>10
      <3> QED
        BY <2>6, <2>7, <2>8, <3>1, <3>2, InsertedKeeps
    <2>14. \A e : (\E i \in 1..(n + 1) : e = delayed[i]) <=>
                    (\E i \in 1..n : e = delayed[i]) \/ e = id
      <3>1. 1..(n + 1) = (1..n) \cup {n + 1}
        BY <1>5
      <3> QED
        BY <2>4, <3>1
    <2>15. \A e : e \in ToSet(q) <=>
             e \in ToSet(schedule) \/ \E i \in 1..(n + 1) : e = delayed[i]
      BY <2>6, <2>13, <2>14
    <2>16. Led(q)
      <3>1. SUFFICES ASSUME NEW e \in ToSet(q)
                     PROVE  \/ timeout[q[1]].when <= timeout[e].when
                            \/ \E a \in ToSet(schedule) : timeout[a].when <= timeout[e].when
        BY DEF Led
      <3>2. CASE q[1] = id /\ \A a \in ToSet(l) : w <= timeout[a].when
        <4>1. w \in Nat
          BY <2>7, <2>9, <2>11
        <4>2. w <= timeout[e].when
          BY <2>11, <2>13, <3>2, <4>1
        <4> QED
          BY <2>11, <3>2, <4>2
      <3>3. CASE q[1] = l[1] /\ \E b \in ToSet(l) : timeout[b].when <= w \/ ~IsUnmarked(b)
        <4>1. PICK b \in ToSet(l) : timeout[b].when <= w
          BY <2>9, <2>10, <3>3
        <4>2. ASSUME NEW c \in ToSet(l), timeout[c].when <= timeout[e].when
              PROVE  \/ timeout[q[1]].when <= timeout[e].when
                     \/ \E a \in ToSet(schedule) : timeout[a].when <= timeout[e].when
          <5>1. \A u, v \in Nat, t \in Nat : u <= v /\ v <= t => u <= t
            OBVIOUS
          <5>2. timeout[c].when \in Nat /\ timeout[e].when \in Nat
            BY <2>7, <2>9, <2>10, <2>13
          <5>3. CASE timeout[l[1]].when <= timeout[c].when
            <6>1. l[1] \in Id
              <7>1. l # <<>>
                BY DEF ToSet
              <7> QED
                BY <2>6, <7>1
            <6> QED
              BY <2>9, <3>3, <4>2, <5>1, <5>2, <5>3, <6>1
          <5>4. CASE \E a \in ToSet(schedule) : timeout[a].when <= timeout[c].when
            <6>1. PICK a \in ToSet(schedule) : timeout[a].when <= timeout[c].when
              BY <5>4
            <6>2. timeout[a].when \in Nat
              BY <2>9 DEF ToSet
            <6>3. timeout[a].when <= timeout[e].when
              BY <4>2, <5>1, <5>2, <6>1, <6>2
            <6> QED
              BY <6>3
          <5> QED
            BY <2>6, <5>3, <5>4 DEF Led
        <4>3. CASE e \in ToSet(l)
          <5>1. timeout[e].when <= timeout[e].when
            <6>1. timeout[e].when \in Nat
              BY <2>9, <2>10, <4>3
            <6> QED
              BY <6>1
          <5> QED
            BY <4>2, <4>3, <5>1
        <4>4. CASE e = id
          BY <2>11, <4>1, <4>2, <4>4
        <4> QED
          BY <2>13, <4>3, <4>4
      <3> QED
        BY <2>13, <3>2, <3>3
    <2> QED
      BY <2>12, <2>13, <2>15, <2>16 DEF Good
  <1>6. m \in P
    <2> HIDE DEF P
    <2> QED
      BY <1>3, <1>4, <1>5, Induction
  <1>7. Good(m)
    BY <1>3, <1>6
  <1>8. \A e : (\E i \in 1..m : e = delayed[i]) <=> e \in ToSet(delayed)
    BY <1>3 DEF ToSet
  <1> HIDE DEF P
  <1> QED
    BY <1>2, <1>7, <1>8

\* The executor that is scheduled for the first of a list watches the list.
LEMMA ScheduledForIs ==
    ASSUME now \in Nat, timeout \in Seq(Timeout),
           NEW r \in Seq(Id), NEW x, Alive(x), x.mode # "Shutdown",
           NEW y, y = ScheduledFor(x, r),
           \A i \in DOMAIN r :
              /\ timeout[r[i]].firing # 0 =>
                   timeout[r[i]].when <= Limit /\ Follows(x, timeout[r[i]].when)
              /\ \/ Covers(x, timeout[r[i]].when)
                 \/ timeout[r[1]].when <= timeout[r[i]].when
                 \/ timeout[r[1]].when <= Limit /\ Follows(x, timeout[r[1]].when)
    PROVE  Watched(timeout, r, y) /\ y.mode # "Shutdown"
  <1>1. CASE r = <<>>
    BY <1>1, EmptyIs DEF ScheduledFor
  <1>2. CASE r # <<>>
    <2>1. /\ 1 \in DOMAIN r /\ DOMAIN r \subseteq Nat
          /\ \A i \in DOMAIN r : r[i] \in Id /\ (i = 1 \/ 1 < i)
      BY <1>2
    <2>2. \A id \in Id : timeout[id].when \in Nat
      <3>1. \A id \in Id : timeout[id] \in Timeout
        BY DEF Id
      <3> QED
        BY <3>1 DEF Timeout
    <2>3. PICK w : w = timeout[r[1]].when
      OBVIOUS
    <2>4. w \in Nat /\ y = MaybeScheduled(x, w)
      BY <1>2, <2>1, <2>2, <2>3 DEF ScheduledFor
    <2>5. /\ Alive(y) /\ y.mode \in {"Immediate", "Delayed"}
          /\ \A v \in Nat : w <= v => Covers(y, v)
          /\ \A v \in Nat : Covers(x, v) => Covers(y, v)
          /\ \A v \in Nat : v <= Limit /\ Follows(x, v) => Follows(y, v)
          /\ w <= Limit /\ Follows(x, w) => y.mode = "Immediate"
      BY <2>4, MaybeScheduledIs
    <2>6. ASSUME NEW i \in DOMAIN r
          PROVE  /\ Covers(y, timeout[r[i]].when)
                 /\ timeout[r[i]].firing # 0 => Follows(y, timeout[r[i]].when)
      <3>1. timeout[r[i]].when \in Nat
        BY <2>1, <2>2
      <3>2. CASE w <= Limit /\ Follows(x, w)
        BY <2>5, <3>2 DEF Covers, Follows
      <3>3. CASE Covers(x, timeout[r[i]].when) \/ w <= timeout[r[i]].when
        BY <2>5, <3>1, <3>3
      <3> QED
        BY <2>3, <3>2, <3>3
    <2> QED
      BY <2>5, <2>6 DEF Watched
  <1> QED
    BY <1>1, <1>2

LEMMA EndLoadKeeps == ASSUME TimersInv, EndLoad PROVE TimersInv'
  <1>1. /\ TypeOK /\ Phase /\ ListsInv /\ OrderInv /\ MarkedAreDue(timeout, Limit)
        /\ Watched(timeout, schedule, wake)
        /\ Gone(timeout, schedule, delayed, cleared \ missed)
        /\ frames = <<>> /\ js = "parsing"
    BY DEF TimersInv, EndLoad
  <1>2. /\ js' = "working" /\ isLoading' = FALSE /\ delayed' = <<>>
        /\ UNCHANGED <<now, timeout, script, frames, cleared, missed>>
    BY DEF EndLoad
  <1>3. /\ \A id \in Id : timeout[id].firing = 0 /\ ~timeout[id].running
        /\ \A list : Stack(timeout, list, frames)
    BY <1>1, IdleIs
  <1>4. PICK r : r = AllInserted
    OBVIOUS
  <1>5. schedule' = r /\ wake' = ScheduledFor(wake, r)
    BY <1>4 DEF EndLoad
  <1>6. /\ r \in Seq(Id) /\ Single(r)
        /\ \A e : e \in ToSet(r) <=> e \in ToSet(schedule) \/ e \in ToSet(delayed)
        /\ Sorted(timeout, r, Limit) /\ MarkedFirst(timeout, r)
        /\ Led(r)
    BY <1>1, <1>3, <1>4, AllInsertedIs DEF TypeOK
  <1>7. wake.mode # "Shutdown" /\ Alive(wake) /\ now \in Nat
    BY <1>1 DEF Phase, Watched, TypeOK
  <1>8. Watched(timeout, r, wake') /\ wake'.mode # "Shutdown"
    <2>1. \A id \in Id : timeout[id].when \in Nat
      BY <1>1, ListedIs
    <2>2. ASSUME NEW i \in DOMAIN r
          PROVE  /\ timeout[r[i]].firing = 0
                 /\ \/ Covers(wake, timeout[r[i]].when)
                    \/ timeout[r[1]].when <= timeout[r[i]].when
      <3>1. r[i] \in Id /\ r[i] \in ToSet(r)
        BY <1>6 DEF ToSet
      <3>2. CASE \E a \in ToSet(schedule) : timeout[a].when <= timeout[r[i]].when
        <4>1. PICK j \in DOMAIN schedule : timeout[schedule[j]].when <= timeout[r[i]].when
          BY <3>2 DEF ToSet
        <4>2. schedule[j] \in Id
          BY <1>1 DEF TypeOK
        <4>3. Covers(wake, timeout[schedule[j]].when)
          BY <1>1, <1>3, <4>2 DEF Watched
        <4>4. PICK u : u = timeout[schedule[j]].when
          OBVIOUS
        <4>5. PICK v : v = timeout[r[i]].when
          OBVIOUS
        <4>6. u \in Nat /\ v \in Nat /\ u <= v /\ wake.deadline \in Nat
          BY <1>7, <2>1, <3>1, <4>1, <4>2, <4>4, <4>5 DEF Alive, Wake
        <4>7. Covers(wake, v)
          BY <4>3, <4>4, <4>6 DEF Covers
        <4> QED
          BY <1>3, <3>1, <4>5, <4>7
      <3> QED
        BY <1>3, <1>6, <3>1, <3>2 DEF Led
    <2> QED
      BY <1>1, <1>5, <1>6, <1>7, <2>2, ScheduledForIs DEF TypeOK
  <1>9. TypeOK'
    <2>1. Id' = Id /\ Depth' = Depth /\ <<>> \in Seq(Id)
      BY <1>2 DEF Id, Depth
    <2> QED
      BY <1>1, <1>2, <1>5, <1>6, <1>8, <2>1 DEF TypeOK, Watched, Alive
  <1>10. Phase'
    BY <1>1, <1>2, <1>8 DEF Phase
  <1>11. ListsInv' /\ OrderInv'
    <2>1. Single(<<>>) /\ Apart(r, <<>>)
      BY DEF Single, Apart
    <2> QED
      BY <1>2, <1>5, <1>6, <2>1 DEF ListsInv, OrderInv, Limit
  <1>12. Gone(timeout, schedule, delayed, cleared \ missed)'
    <2>1. ASSUME NEW id \in cleared \ missed, NEW i \in DOMAIN r, r[i] = id PROVE FALSE
      <3>1. id \in ToSet(schedule) \/ id \in ToSet(delayed)
        BY <1>6, <2>1 DEF ToSet
      <3>2. id \in Id
        BY <1>6, <2>1
      <3> QED
        BY <1>1, <1>3, <2>1, <3>1, <3>2 DEF Gone, ToSet
    <2>2. Gone(timeout, r, <<>>, cleared \ missed)
      BY <2>1 DEF Gone
    <2> QED
      BY <1>2, <1>5, <2>2
  <1>13. /\ Watched(timeout, schedule, wake)' /\ Stack(timeout, schedule, frames)'
         /\ MarkedAreDue(timeout, Limit)'
    BY <1>1, <1>2, <1>3, <1>5, <1>8 DEF Limit
  <1> QED
    BY <1>9, <1>10, <1>11, <1>12, <1>13 DEF TimersInv

------------------------------------------------------------------------------
(* The script sets and clears timeouts *)

\* The stack stands when timeouts come and go, as long as the RunTimeouts on it find
\* what they have marked.
LEMMA StackMoves ==
    ASSUME NEW ts, NEW us, NEW list, NEW r, NEW fs \in Seq(Frame), Stack(ts, list, fs),
           DOMAIN ts \subseteq DOMAIN us,
           \A id \in DOMAIN ts : /\ us[id].firing = ts[id].firing
                                 /\ us[id].running <=> ts[id].running,
           \A id \in DOMAIN us : id \notin DOMAIN ts => ~us[id].running,
           \A f \in 1..Len(fs) : Ahead(ts, list, fs[f].at, f) => Ahead(us, r, fs[f].at, f)
    PROVE  Stack(us, r, fs)
  <1>1. PICK d : d = Len(fs)
    OBVIOUS
  <1>2. d \in Nat /\ 1..(d - 1) \subseteq 1..d /\ (d # 0 => d \in 1..d) /\ (fs # <<>> => d # 0)
    BY <1>1
  <1>3. ASSUME NEW n, 1..n \subseteq 1..d, Calls(ts, list, fs, n) PROVE Calls(us, r, fs, n)
    <2>1. \A f \in 1..n : /\ fs[f].pc = "callback" /\ fs[f].at \in DOMAIN ts
                          /\ ts[fs[f].at].firing = f
                          /\ Ahead(ts, list, fs[f].at, f)
      BY <1>3 DEF Calls
    <2>2. \A id \in DOMAIN ts : ts[id].running <=> \E f \in 1..n : fs[f].at = id
      BY <1>3 DEF Calls
    <2>3. \A f \in 1..n : Ahead(us, r, fs[f].at, f)
      BY <1>1, <1>3, <2>1
    <2>4. \A id \in DOMAIN us : us[id].running <=> \E f \in 1..n : fs[f].at = id
      BY <2>1, <2>2
    <2> QED
      BY <2>1, <2>3, <2>4 DEF Calls
  <1>4. CASE Calls(ts, list, fs, d)
    BY <1>1, <1>3, <1>4 DEF Stack
  <1>5. CASE fs # <<>> /\ fs[d].pc = "loop" /\ Calls(ts, list, fs, d - 1) /\ Ahead(ts, list, fs[d].at, d)
    <2>1. Calls(us, r, fs, d - 1)
      BY <1>2, <1>3, <1>5
    <2>2. Ahead(us, r, fs[d].at, d)
      BY <1>1, <1>2, <1>5
    <2> QED
      BY <1>1, <1>5, <2>1, <2>2 DEF Stack
  <1> QED
    BY <1>1, <1>4, <1>5 DEF Stack

LEMMA CreateTimeoutKeeps ==
    ASSUME TimersInv, NEW delay \in Delay, NEW repeated \in BOOLEAN, CreateTimeout(delay, repeated)
    PROVE  TimersInv'
  <1>1. /\ TypeOK /\ Phase /\ ListsInv /\ OrderInv /\ MarkedAreDue(timeout, Limit)
        /\ Stack(timeout, schedule, frames) /\ Watched(timeout, schedule, wake)
        /\ Gone(timeout, schedule, delayed, cleared \ missed)
    BY DEF TimersInv
  <1>2. PICK new : new = [when |-> now + delay, interval |-> delay, repeated |-> repeated,
                          firing |-> 0, running |-> FALSE, script |-> script]
    OBVIOUS
  <1>3. PICK id : id = Len(timeout) + 1
    OBVIOUS
  <1>4. PICK w : w = now + delay
    OBVIOUS
  <1>5. /\ timeout' = Append(timeout, new)
        /\ wake' = MaybeScheduled(wake, w)
        /\ schedule' = Inserted(schedule, id, w)
        /\ UNCHANGED <<now, delayed, isLoading, script, js, frames, cleared, missed>>
    BY <1>2, <1>3, <1>4 DEF CreateTimeout
  <1>6. delay \in Nat /\ now \in Nat /\ w \in Nat /\ now <= w /\ script \in Nat
    BY <1>1, <1>4, DelayAssumption DEF TypeOK
  <1>7. new \in Timeout /\ new.when = w /\ new.firing = 0 /\ ~new.running
    BY <1>2, <1>4, <1>6 DEF Timeout
  <1>8. /\ timeout' \in Seq(Timeout) /\ DOMAIN timeout' = Id \cup {id} /\ id \notin Id
        /\ timeout'[id] = new /\ \A e \in Id : timeout'[e] = timeout[e]
    <2>1. timeout \in Seq(Timeout)
      BY <1>1 DEF TypeOK
    <2> QED
      BY <1>3, <1>5, <1>7, <2>1 DEF Id
  <1>9. /\ \A e \in Id : timeout[e].when \in Nat
        /\ \A i \in DOMAIN schedule : schedule[i] \in Id
        /\ \A i \in DOMAIN delayed : delayed[i] \in Id
        /\ DOMAIN timeout = Id
    BY <1>1, ListedIs
  <1>10. PICK S : S = Id \cup {id}
    OBVIOUS
  <1>11. schedule \in Seq(S) /\ delayed \in Seq(S) /\ id \in S
    BY <1>1, <1>10 DEF TypeOK
  <1>12. PICK r : r = Inserted(schedule, id, w)
    OBVIOUS
  <1>13. /\ r \in Seq(S) /\ Single(r)
         /\ \A e : e \in ToSet(r) <=> e \in ToSet(schedule) \/ e = id
         /\ Sorted(timeout', r, Limit) /\ MarkedFirst(timeout', r)
         /\ \A f, at : f # 0 /\ Ahead(timeout', schedule, at, f) => Ahead(timeout', r, at, f)
    <2>1. \A e \in ToSet(schedule) : e \in Id
      BY <1>9 DEF ToSet
    <2>2. id \notin ToSet(schedule)
      BY <1>8, <2>1
    <2>9. \A e \in Id : ~IsUnmarked(e) => timeout[e].when <= Limit
      BY <1>1, <1>9 DEF MarkedAreDue, IsUnmarked
    <2>10. \A e \in Id : ~IsUnmarked(e) => NoLater(timeout[e].when, w, Limit)
      BY <1>6, <1>9, <2>9, DueIsNoLater
    <2>3. \A e \in ToSet(schedule) : /\ timeout'[e].when = timeout[e].when
                                     /\ timeout'[e].firing = timeout[e].firing
                                     /\ timeout[e].when \in Nat
                                     /\ ~IsUnmarked(e) => NoLater(timeout[e].when, w, Limit)
      BY <1>8, <1>9, <2>1, <2>10
    <2>4. timeout'[id].when = w /\ timeout'[id].firing = 0
      BY <1>7, <1>8
    <2>5. Single(schedule) /\ Sorted(timeout, schedule, Limit) /\ MarkedFirst(timeout, schedule)
      BY <1>1 DEF ListsInv, OrderInv
    <2>6. PICK ts : ts = timeout'
      OBVIOUS
    <2>7. /\ \A e \in ToSet(schedule) : /\ ts[e].when = timeout[e].when
                                        /\ ts[e].firing = timeout[e].firing
                                        /\ timeout[e].when \in Nat
                                        /\ ~IsUnmarked(e) => NoLater(timeout[e].when, w, Limit)
          /\ ts[id].when = w /\ ts[id].firing = 0
      BY <2>3, <2>4, <2>6
    <2>8. /\ r \in Seq(S) /\ Single(r)
          /\ \A e : e \in ToSet(r) <=> e \in ToSet(schedule) \/ e = id
          /\ Sorted(ts, r, Limit) /\ MarkedFirst(ts, r)
          /\ \A f, at : f # 0 /\ Ahead(ts, schedule, at, f) => Ahead(ts, r, at, f)
      BY <1>6, <1>11, <1>12, <2>2, <2>5, <2>7, InsertedKeeps
    <2> QED
      BY <2>6, <2>8
  <1>14. Id' = S /\ Depth' = Depth /\ schedule' = r
    BY <1>5, <1>8, <1>10, <1>12 DEF Id, Depth
  <1>15. js # "gone" /\ wake.mode # "Shutdown" /\ ~(js \in {"none", "gone"})
    BY <1>1 DEF CreateTimeout, ScriptRuns, Phase
  <1>16. /\ Alive(wake') /\ wake'.mode \in {"Immediate", "Delayed"}
         /\ \A v \in Nat : w <= v => Covers(wake', v)
         /\ \A v \in Nat : Covers(wake, v) => Covers(wake', v)
         /\ \A v \in Nat : v <= Limit /\ Follows(wake, v) => Follows(wake', v)
    BY <1>1, <1>5, <1>6, <1>15, MaybeScheduledIs DEF Watched
  <1>17. TypeOK'
    <2>1. \A e \in S : timeout'[e].firing \in 0..Depth
      <3>1. \A e \in Id : timeout[e].firing \in 0..Depth
        BY <1>1 DEF TypeOK
      <3>2. Depth \in Nat
        BY <1>1 DEF TypeOK, Depth
      <3> QED
        BY <1>7, <1>8, <1>10, <3>1, <3>2
    <2>2. cleared \subseteq S
      BY <1>1, <1>10 DEF TypeOK
    <2> QED
      BY <1>1, <1>5, <1>8, <1>11, <1>13, <1>14, <1>16, <2>1, <2>2 DEF TypeOK, Alive
  <1>18. Phase'
    BY <1>5, <1>15, <1>16 DEF Phase
  <1>19. ListsInv' /\ OrderInv'
    <2>1. Apart(r, delayed)
      <3>1. SUFFICES ASSUME NEW i \in DOMAIN r, NEW j \in DOMAIN delayed, r[i] = delayed[j]
                     PROVE  FALSE
        BY DEF Apart
      <3>2. delayed[j] \in ToSet(schedule) \/ delayed[j] = id
        BY <1>13, <3>1 DEF ToSet
      <3> QED
        BY <1>1, <1>8, <1>9, <3>2 DEF ListsInv, Apart, ToSet
    <2> QED
      BY <1>1, <1>5, <1>13, <1>14, <2>1 DEF ListsInv, OrderInv, Limit
  <1>20. MarkedAreDue(timeout, Limit)'
    <2>1. \A e \in DOMAIN timeout' : timeout'[e].firing # 0 =>
             e \in Id /\ timeout'[e].when = timeout[e].when /\ timeout[e].firing # 0
      BY <1>7, <1>8
    <2>2. \A e \in DOMAIN timeout' : timeout'[e].firing # 0 => timeout'[e].when <= Limit
      BY <1>1, <1>9, <2>1 DEF MarkedAreDue
    <2>3. Limit' = Limit
      BY <1>5 DEF Limit
    <2> QED
      BY <2>2, <2>3 DEF MarkedAreDue
  <1>21. Stack(timeout, schedule, frames)'
    <2>1. \A f, at : Ahead(timeout, schedule, at, f) => Ahead(timeout', schedule, at, f)
      BY <1>8, <1>9 DEF Ahead
    <2>2. \A f \in 1..Len(frames) :
            Ahead(timeout, schedule, frames[f].at, f) => Ahead(timeout', r, frames[f].at, f)
      BY <1>13, <2>1
    <2>3. frames \in Seq(Frame)
      BY <1>1 DEF TypeOK
    <2>4. PICK ts : ts = timeout'
      OBVIOUS
    <2>5. Stack(ts, r, frames)
      BY <1>1, <1>7, <1>8, <1>9, <2>2, <2>3, <2>4, StackMoves
    <2> QED
      BY <1>5, <1>14, <2>4, <2>5
  <1>22. Watched(timeout, schedule, wake)'
    <2>1. ASSUME NEW i \in DOMAIN r
          PROVE  IF timeout'[r[i]].firing = 0 THEN Covers(wake', timeout'[r[i]].when)
                                              ELSE Follows(wake', timeout'[r[i]].when)
      <3>1. r[i] \in ToSet(schedule) \/ r[i] = id
        BY <1>13 DEF ToSet
      <3>2. CASE r[i] = id
        BY <1>6, <1>7, <1>8, <1>16, <3>2
      <3>3. CASE r[i] \in ToSet(schedule)
        <4>1. PICK j \in DOMAIN schedule : r[i] = schedule[j]
          BY <3>3 DEF ToSet
        <4>2. schedule[j] \in Id /\ timeout[schedule[j]].when \in Nat
          BY <1>9
        <4>3. timeout'[r[i]].when = timeout[schedule[j]].when
              /\ timeout'[r[i]].firing = timeout[schedule[j]].firing
          BY <1>8, <4>1, <4>2
        <4>4. CASE timeout[schedule[j]].firing = 0
          <5>1. Covers(wake, timeout[schedule[j]].when)
            BY <1>1, <4>4 DEF Watched
          <5> QED
            BY <1>16, <4>2, <4>3, <4>4, <5>1
        <4>5. CASE timeout[schedule[j]].firing # 0
          <5>1. Follows(wake, timeout[schedule[j]].when)
            BY <1>1, <4>5 DEF Watched
          <5>2. timeout[schedule[j]].when <= Limit
            BY <1>1, <1>9, <4>2, <4>5 DEF MarkedAreDue
          <5> QED
            BY <1>16, <4>2, <4>3, <4>5, <5>1, <5>2
        <4> QED
          BY <4>4, <4>5
      <3> QED
        BY <3>1, <3>2, <3>3
    <2> QED
      BY <1>14, <1>16, <2>1 DEF Watched
  <1>23. Gone(timeout, schedule, delayed, cleared \ missed)'
    <2>1. ASSUME NEW e \in cleared \ missed, NEW i \in DOMAIN r, r[i] = e
          PROVE  timeout'[e].running /\ ~timeout'[e].repeated
      <3>1. e \in Id
        BY <1>1 DEF TypeOK
      <3>2. e \in ToSet(schedule)
        BY <1>8, <1>13, <2>1, <3>1 DEF ToSet
      <3> QED
        BY <1>1, <1>8, <3>1, <3>2 DEF Gone, ToSet
    <2>2. Gone(timeout', r, delayed, cleared \ missed)
      BY <1>1, <2>1 DEF Gone
    <2> QED
      BY <1>5, <1>14, <2>2
  <1> QED
    BY <1>17, <1>18, <1>19, <1>20, <1>21, <1>22, <1>23 DEF TimersInv

\* One timeout changes.
LEMMA ExceptIs ==
    ASSUME NEW ts \in Seq(Timeout), NEW id \in DOMAIN ts, NEW t \in Timeout,
           NEW us, us = [ts EXCEPT ![id] = t]
    PROVE  /\ us \in Seq(Timeout) /\ DOMAIN us = DOMAIN ts
           /\ us[id] = t /\ \A e \in DOMAIN ts : e # id => us[e] = ts[e]
  <1>1. us \in Seq(Timeout)
    <2>1. id \in 1..Len(ts)
      OBVIOUS
    <2> QED
      BY <2>1, ExceptSeq
  <1> QED
    BY <1>1

\* A timeout that is running is called by a RunTimeout on the stack.
LEMMA RunningIs ==
    ASSUME TypeOK, Stack(timeout, schedule, frames)
    PROVE  \A id \in Id : timeout[id].running <=>
             \E f \in 1..Depth : frames[f].pc = "callback" /\ frames[f].at = id
  <1>1. PICK d : d = Depth
    OBVIOUS
  <1>2. d \in Nat /\ d = Len(frames)
    BY <1>1 DEF TypeOK, Depth
  <1>3. CASE Calls(timeout, schedule, frames, d)
    BY <1>1, <1>3 DEF Calls, Id
  <1>4. CASE frames # <<>> /\ frames[d].pc = "loop" /\ Calls(timeout, schedule, frames, d - 1)
    <2>1. 1..d = 1..(d - 1) \cup {d}
      <3>1. d # 0
        BY <1>2, <1>4
      <3> QED
        BY <1>2, <3>1
    <2>2. \A f \in 1..(d - 1) : frames[f].pc = "callback"
      BY <1>4 DEF Calls
    <2>3. \A id \in Id : timeout[id].running <=> \E f \in 1..(d - 1) : frames[f].at = id
      BY <1>4 DEF Calls, Id
    <2> QED
      BY <1>1, <1>4, <2>1, <2>2, <2>3
  <1> QED
    BY <1>1, <1>2, <1>3, <1>4 DEF Stack

LEMMA ClearTimeoutKeeps ==
    ASSUME TimersInv, NEW id \in Id, ClearTimeout(id) PROVE TimersInv'
  <1>1. /\ TypeOK /\ Phase /\ ListsInv /\ OrderInv /\ MarkedAreDue(timeout, Limit)
        /\ Stack(timeout, schedule, frames) /\ Watched(timeout, schedule, wake)
        /\ Gone(timeout, schedule, delayed, cleared \ missed)
    BY DEF TimersInv
  <1>2. /\ UNCHANGED <<now, delayed, isLoading, script, js, frames>>
        /\ cleared' = cleared \cup {id}
        /\ missed' = IF Contains(delayed, id) THEN missed \cup {id} ELSE missed
    BY DEF ClearTimeout
  <1>3. js # "gone" /\ wake.mode # "Shutdown" /\ ~(js \in {"none", "gone"})
    BY <1>1 DEF ClearTimeout, ScriptRuns, Phase
  <1>4. /\ DOMAIN timeout = Id
        /\ \A e \in Id : timeout[e] \in Timeout /\ timeout[e].when \in Nat
        /\ \A i \in DOMAIN schedule : schedule[i] \in Id
        /\ \A i \in DOMAIN delayed : delayed[i] \in Id
        /\ timeout \in Seq(Timeout) /\ schedule \in Seq(Id)
        /\ frames \in Seq(Frame) /\ now \in Nat /\ wake \in Wake
    BY <1>1, ListedIs DEF TypeOK
  <1>5. cleared' \subseteq Id /\ missed' \subseteq cleared'
    BY <1>1, <1>2 DEF TypeOK
  <1>6. \A e \in cleared' \ missed' :
          \/ e \in cleared \ missed
          \/ e = id /\ \A i \in DOMAIN delayed : delayed[i] # id
    BY <1>2 DEF Contains
  <1>7. CASE ~Contains(schedule, id)
    <2>1. UNCHANGED <<timeout, schedule, wake>>
      BY <1>7 DEF ClearTimeout
    <2>2. \A i \in DOMAIN schedule : schedule[i] # id
      BY <1>7 DEF Contains
    <2>3. Gone(timeout, schedule, delayed, cleared' \ missed')
      BY <1>1, <1>6, <2>2 DEF Gone
    <2>4. TypeOK'
      BY <1>1, <1>2, <1>5, <2>1 DEF TypeOK, Id, Depth
    <2>5. Phase' /\ ListsInv' /\ OrderInv'
      BY <1>1, <1>2, <2>1 DEF Phase, ListsInv, OrderInv, Limit
    <2> QED
      BY <1>1, <1>2, <2>1, <2>3, <2>4, <2>5 DEF TimersInv, Limit
  <1>8. CASE Contains(schedule, id) /\ timeout[id].running
    <2>1. timeout' = DisableRepeat(id) /\ UNCHANGED <<schedule, wake>>
      BY <1>8 DEF ClearTimeout
    <2>2. PICK t : t = [timeout[id] EXCEPT !.repeated = FALSE]
      OBVIOUS
    <2>3. /\ t \in Timeout /\ t.when = timeout[id].when /\ t.firing = timeout[id].firing
          /\ t.running = timeout[id].running /\ ~t.repeated
      BY <1>4, <2>2 DEF Timeout
    <2>4. timeout' = [timeout EXCEPT ![id] = t]
      BY <1>4, <2>1, <2>2 DEF DisableRepeat
    <2>5. PICK ts : ts = timeout'
      OBVIOUS
    <2>6. /\ ts \in Seq(Timeout) /\ DOMAIN ts = Id
          /\ ts[id] = t /\ \A e \in Id : e # id => ts[e] = timeout[e]
      BY <1>4, <2>3, <2>4, <2>5, ExceptIs
    <2>7. \A e \in Id : /\ ts[e].when = timeout[e].when /\ ts[e].firing = timeout[e].firing
                        /\ ts[e].running = timeout[e].running
                        /\ ~timeout[e].repeated => ~ts[e].repeated
      BY <2>3, <2>6
    <2>8. Id' = Id /\ Depth' = Depth
      BY <1>2, <2>5, <2>6 DEF Id, Depth
    <2>9. TypeOK'
      BY <1>1, <1>2, <1>5, <2>1, <2>5, <2>6, <2>7, <2>8 DEF TypeOK
    <2>10. Phase' /\ ListsInv'
      BY <1>1, <1>2, <2>1 DEF Phase, ListsInv
    <2>11. Sorted(ts, schedule, Limit) /\ MarkedFirst(ts, schedule)
      BY <1>1, <1>4, <2>7 DEF OrderInv, Sorted, MarkedFirst
    <2>12. MarkedAreDue(ts, Limit)
      BY <1>1, <1>4, <2>6, <2>7 DEF MarkedAreDue
    <2>13. \A f, at : Ahead(timeout, schedule, at, f) => Ahead(ts, schedule, at, f)
      BY <1>4, <2>7 DEF Ahead
    <2>14. Stack(ts, schedule, frames)
      BY <1>1, <1>4, <2>6, <2>7, <2>13, StackMoves
    <2>15. Watched(ts, schedule, wake)
      BY <1>1, <1>4, <2>7 DEF Watched
    <2>16. Gone(ts, schedule, delayed, cleared' \ missed')
      <3>1. ASSUME NEW e \in cleared' \ missed'
            PROVE  /\ \A i \in DOMAIN delayed : delayed[i] # e
                   /\ \A i \in DOMAIN schedule : schedule[i] = e => ts[e].running /\ ~ts[e].repeated
        <4>1. CASE e \in cleared \ missed
          BY <1>1, <1>4, <2>7, <4>1 DEF Gone
        <4>2. CASE e = id /\ \A i \in DOMAIN delayed : delayed[i] # id
          BY <1>8, <2>3, <2>6, <4>2
        <4> QED
          BY <1>6, <4>1, <4>2
      <3> QED
        BY <3>1 DEF Gone
    <2> QED
      BY <1>2, <2>1, <2>5, <2>9, <2>10, <2>11, <2>12, <2>14, <2>15, <2>16
      DEF TimersInv, OrderInv, Limit
  <1>9. CASE Contains(schedule, id) /\ ~timeout[id].running
    <2>1. PICK p \in DOMAIN schedule : schedule[p] = id
      BY <1>9 DEF Contains
    <2>2. PICK r : r = Without(schedule, id)
      OBVIOUS
    <2>3. UNCHANGED timeout /\ schedule' = r /\ wake' = Rescheduled(id)
      BY <1>9, <2>2 DEF ClearTimeout
    <2>4. Single(schedule) /\ Sorted(timeout, schedule, Limit) /\ MarkedFirst(timeout, schedule)
      BY <1>1 DEF ListsInv, OrderInv
    <2>5. /\ r \in Seq(Id) /\ Single(r)
          /\ \A e : e \in ToSet(r) <=> e \in ToSet(schedule) /\ e # id
          /\ Sorted(timeout, r, Limit) /\ MarkedFirst(timeout, r)
          /\ \A f, at : at # id /\ Ahead(timeout, schedule, at, f) => Ahead(timeout, r, at, f)
      <3>1. r = Without(schedule, schedule[p])
        BY <2>1, <2>2
      <3>2. /\ r \in Seq(Id) /\ Single(r)
            /\ \A e : e \in ToSet(r) <=> e \in ToSet(schedule) /\ e # schedule[p]
            /\ Sorted(timeout, r, Limit) /\ MarkedFirst(timeout, r)
            /\ \A f, at : at # schedule[p] /\ Ahead(timeout, schedule, at, f) => Ahead(timeout, r, at, f)
        BY <1>4, <2>4, <3>1, WithoutKeeps
      <3> QED
        BY <2>1, <3>2
    <2>6. Watched(timeout, r, wake') /\ wake'.mode # "Shutdown"
      <3>1. CASE schedule[1] = id
        <4>1. wake' = ScheduledFor(Cancelled(wake), r)
          BY <2>2, <2>3, <3>1 DEF Rescheduled
        <4>2. PICK x : x = Cancelled(wake)
          OBVIOUS
        <4>3. Alive(x) /\ x.mode # "Shutdown" /\ \A v : Follows(x, v)
          BY <1>4, <4>2, CancelledIs DEF Follows
        <4>4. ASSUME NEW i \in DOMAIN r
              PROVE  /\ timeout[r[i]].firing # 0 => timeout[r[i]].when <= Limit
                     /\ \/ timeout[r[1]].when <= timeout[r[i]].when
                        \/ timeout[r[1]].when <= Limit
          <5>1. r[i] \in Id /\ 1 \in DOMAIN r /\ i \in Nat /\ (i = 1 \/ 1 < i)
            BY <2>5
          <5>2. timeout[r[i]].firing # 0 => timeout[r[i]].when <= Limit
            BY <1>1, <1>4, <5>1 DEF MarkedAreDue
          <5>3. CASE i = 1
            <6>1. timeout[r[i]].when \in Nat
              BY <1>4, <5>1
            <6> QED
              BY <5>2, <5>3, <6>1
          <5>4. CASE 1 < i
            BY <2>5, <5>1, <5>2, <5>4 DEF Sorted, NoLater
          <5> QED
            BY <5>1, <5>3, <5>4
        <4> QED
          BY <1>4, <2>5, <4>1, <4>2, <4>3, <4>4, ScheduledForIs
      <3>2. CASE schedule[1] # id
        <4>1. wake' = wake
          BY <2>3, <3>2 DEF Rescheduled
        <4>2. \A i \in DOMAIN r : \E j \in DOMAIN schedule : r[i] = schedule[j]
          BY <2>5 DEF ToSet
        <4> QED
          BY <1>1, <1>3, <4>1, <4>2 DEF Watched
      <3> QED
        BY <3>1, <3>2
    <2>7. Id' = Id /\ Depth' = Depth
      BY <1>2, <2>3 DEF Id, Depth
    <2>8. TypeOK'
      BY <1>1, <1>2, <1>5, <2>3, <2>5, <2>6, <2>7 DEF TypeOK, Watched, Alive
    <2>9. Phase'
      BY <1>2, <1>3, <2>6 DEF Phase
    <2>10. Apart(r, delayed)
      BY <1>1, <2>5 DEF ListsInv, Apart, ToSet
    <2>11. \A f \in 1..Len(frames) : frames[f].at # id
      <3>1. ASSUME NEW f \in 1..Len(frames), frames[f].at = id PROVE FALSE
        <4>1. frames # <<>> /\ TopIs("callback")
          BY <1>4, <3>1 DEF ClearTimeout, ScriptRuns
        <4>2. Calls(timeout, schedule, frames, Len(frames))
          BY <1>1, <4>1 DEF Stack, TopIs, Top, Depth
        <4>3. timeout[id].running
          BY <1>4, <3>1, <4>2 DEF Calls
        <4> QED
          BY <1>9, <4>3
      <3> QED
        BY <3>1
    <2>12. Stack(timeout, r, frames)
      BY <1>1, <1>4, <2>5, <2>11, StackMoves
    <2>13. Gone(timeout, r, delayed, cleared' \ missed')
      <3>1. ASSUME NEW e \in cleared' \ missed'
            PROVE  /\ \A i \in DOMAIN delayed : delayed[i] # e
                   /\ \A i \in DOMAIN r : r[i] = e => timeout[e].running /\ ~timeout[e].repeated
        <4>1. CASE e \in cleared \ missed
          <5>1. \A i \in DOMAIN r : \E j \in DOMAIN schedule : r[i] = schedule[j]
            BY <2>5 DEF ToSet
          <5> QED
            BY <1>1, <4>1, <5>1 DEF Gone
        <4>2. CASE e = id /\ \A i \in DOMAIN delayed : delayed[i] # id
          BY <2>5, <4>2 DEF ToSet
        <4> QED
          BY <1>6, <4>1, <4>2
      <3> QED
        BY <3>1 DEF Gone
    <2> QED
      BY <1>1, <1>2, <2>3, <2>5, <2>6, <2>8, <2>9, <2>10, <2>12, <2>13
      DEF TimersInv, ListsInv, OrderInv, Limit
  <1> QED
    BY <1>7, <1>8, <1>9

------------------------------------------------------------------------------
(* RunTimeout begins *)

\* The first timeout of the list that is not due yet.
LEMMA UpcomingIs ==
    ASSUME TypeOK, NEW deadline \in Nat, NEW k, k = Upcoming(deadline)
    PROVE  /\ k = 0 => \A i \in DOMAIN schedule : timeout[schedule[i]].when <= deadline
           /\ k # 0 => /\ k \in DOMAIN schedule
                       /\ \A i \in DOMAIN schedule : i < k => timeout[schedule[i]].when <= deadline
  <1> DEFINE I == {i \in 1..Len(schedule) : timeout[schedule[i]].when > deadline}
  <1>1. k = IF I # {} THEN Min(I) ELSE 0
    BY DEF Upcoming, SelectInSeq
  <1>2. Len(schedule) \in Nat /\ DOMAIN schedule = 1..Len(schedule)
    BY DEF TypeOK
  <1>3. I \subseteq Nat \ {0}
    BY <1>2
  <1>4. \A i \in DOMAIN schedule : i \notin I => timeout[schedule[i]].when <= deadline
    BY <1>2, ListedIs
  <1>5. I \subseteq DOMAIN schedule
    BY <1>2
  <1> HIDE DEF I
  <1>6. /\ k = 0 => I = {}
        /\ k # 0 => k \in I /\ \A i \in I : k <= i
    BY <1>1, <1>3, FirstIndex
  <1>7. ASSUME NEW i \in DOMAIN schedule, k # 0, i < k PROVE i \notin I
    <2>3. i \in Nat
      BY <1>2
    <2>4. k \in Nat
      BY <1>3, <1>6, <1>7
    <2>1. i \in Nat /\ k \in Nat
      BY <2>3, <2>4
    <2>2. ~(k <= i)
      BY <1>7, <2>1
    <2> QED
      BY <1>6, <1>7, <2>2
  <1> QED
    BY <1>4, <1>5, <1>6, <1>7

\* RunTimeout marks the timeouts that no outer RunTimeout has marked.
LEMMA MarkedIs ==
    ASSUME TypeOK, NEW marks, NEW f \in Nat, NEW us, us = Marked(marks, f)
    PROVE  /\ us \in Seq(Timeout) /\ DOMAIN us = Id
           /\ \A id \in Id :
                /\ us[id].firing = IF id \in marks THEN f ELSE timeout[id].firing
                /\ us[id].when = timeout[id].when /\ us[id].running = timeout[id].running
                /\ us[id].repeated = timeout[id].repeated
                /\ us[id].interval = timeout[id].interval
  <1>1. DOMAIN us = Id
    BY DEF Marked
  <1>2. ASSUME NEW id \in Id
        PROVE  /\ us[id] \in Timeout
               /\ us[id].firing = IF id \in marks THEN f ELSE timeout[id].firing
               /\ us[id].when = timeout[id].when /\ us[id].running = timeout[id].running
               /\ us[id].repeated = timeout[id].repeated
               /\ us[id].interval = timeout[id].interval
    <2>1. PICK t \in Timeout : t = timeout[id]
      BY ListedIs
    <2>2. us[id] = IF id \in marks THEN [t EXCEPT !.firing = f] ELSE t
      BY <2>1 DEF Marked
    <2>3. CASE id \in marks
      <3>1. PICK u : u = [t EXCEPT !.firing = f]
        OBVIOUS
      <3>2. /\ u \in Timeout /\ u.firing = f /\ u.when = t.when /\ u.running = t.running
            /\ u.repeated = t.repeated /\ u.interval = t.interval
        BY <3>1 DEF Timeout
      <3> QED
        BY <2>1, <2>2, <2>3, <3>1, <3>2
    <2>4. CASE id \notin marks
      BY <2>1, <2>2, <2>4
    <2> QED
      BY <2>3, <2>4
  <1>3. us \in Seq(Timeout)
    <2>1. Id = 1..Len(timeout) /\ Len(timeout) \in Nat
      BY ListedIs
    <2>2. us = [id \in Id |-> us[id]]
      BY DEF Marked
    <2>3. us \in [1..Len(timeout) -> Timeout]
      BY <1>2, <2>1, <2>2
    <2> QED
      BY <2>1, <2>3
  <1> QED
    BY <1>1, <1>2, <1>3

\* What is marked after the first loop has walked over n timeouts.
LEMMA ExpiredIs ==
    ASSUME TypeOK, ListsInv, NEW n \in Nat, n <= Len(schedule)
    PROVE  /\ Expired(n) \subseteq Id
           /\ \A id \in Expired(n) : timeout[id].firing = 0
           /\ \A i \in DOMAIN schedule :
                schedule[i] \in Expired(n) <=> i <= n /\ timeout[schedule[i]].firing = 0
           /\ \A id \in Expired(n) : \E i \in DOMAIN schedule : i <= n /\ id = schedule[i]
  <1>1. Len(schedule) \in Nat /\ DOMAIN schedule = 1..Len(schedule) /\ schedule \in Seq(Id)
    BY DEF TypeOK
  <1>2. PICK s : s = SubSeq(schedule, 1, n)
    OBVIOUS
  <1>3. DOMAIN s = 1..n /\ \A i \in 1..n : i \in DOMAIN schedule /\ s[i] = schedule[i]
    BY <1>1, <1>2
  <1>4. Expired(n) = {id \in ToSet(s) : timeout[id].firing = 0}
    BY <1>2 DEF Expired, IsUnmarked
  <1>5. \A id : id \in ToSet(s) <=> \E i \in DOMAIN schedule : i <= n /\ id = schedule[i]
    <2>1. \A i \in DOMAIN schedule : i <= n => i \in 1..n
      BY <1>1
    <2> QED
      BY <1>1, <1>3, <2>1 DEF ToSet
  <1>6. \A id \in ToSet(s) : id \in Id
    BY <1>5, ListedIs
  <1>7. \A i \in DOMAIN schedule : schedule[i] \in ToSet(s) <=> i <= n
    BY <1>5 DEF ListsInv, Single
  <1> QED
    BY <1>4, <1>5, <1>6, <1>7

LEMMA RunTimeoutKeeps ==
    ASSUME TimersInv, CanPump, NEW c, Alive(c), c.mode = "None",
           NEW deadline \in Nat, deadline <= Limit, RunTimeout(c, deadline),
           UNCHANGED <<now, schedule, delayed, isLoading, script, js, cleared, missed>>
    PROVE  TimersInv'
  <1>1. /\ TypeOK /\ Phase /\ ListsInv /\ OrderInv /\ MarkedAreDue(timeout, Limit)
        /\ Stack(timeout, schedule, frames)
        /\ Gone(timeout, schedule, delayed, cleared \ missed)
    BY DEF TimersInv
  <1>2. /\ DOMAIN timeout = Id
        /\ \A e \in Id : timeout[e] \in Timeout /\ timeout[e].when \in Nat
        /\ \A i \in DOMAIN schedule : schedule[i] \in Id
        /\ timeout \in Seq(Timeout) /\ schedule \in Seq(Id)
        /\ frames \in Seq(Frame) /\ now \in Nat
        /\ DOMAIN schedule = 1..Len(schedule) /\ Len(schedule) \in Nat
    BY <1>1, ListedIs DEF TypeOK
  <1>3. PICK k : k = Upcoming(deadline)
    OBVIOUS
  <1>4. PICK due : due = IF k = 0 THEN Len(schedule) ELSE k - 1
    OBVIOUS
  <1>5. /\ k = 0 => \A i \in DOMAIN schedule : timeout[schedule[i]].when <= deadline
        /\ k # 0 => /\ k \in DOMAIN schedule
                    /\ \A i \in DOMAIN schedule : i < k => timeout[schedule[i]].when <= deadline
    BY <1>1, <1>2, <1>3, UpcomingIs
  <1>6. /\ due \in Nat /\ due <= Len(schedule)
        /\ \A i \in DOMAIN schedule : i <= due => timeout[schedule[i]].when <= deadline
    BY <1>2, <1>4, <1>5
  <1>7. PICK n \in 0..due, late \in BOOLEAN :
          /\ IF late THEN n > 0 ELSE n = due
          /\ timeout' = Marked(Expired(n), Depth + 1)
          /\ wake' = IF late THEN MaybeScheduled(c, timeout[schedule[n]].when)
                     ELSE IF k # 0 THEN MaybeScheduled(c, timeout[schedule[k]].when)
                     ELSE c
          /\ frames' = IF Expired(n) = {} THEN frames
                       ELSE Append(frames, [pc |-> "loop", at |-> schedule[1], last |-> now])
    BY <1>3, <1>4 DEF RunTimeout
  <1>8. PICK M : M = Expired(n)
    OBVIOUS
  <1>9. n \in Nat /\ n <= Len(schedule) /\ n <= due
    BY <1>2, <1>6, <1>7
  <1>10. /\ M \subseteq Id
         /\ \A id \in M : timeout[id].firing = 0
         /\ \A i \in DOMAIN schedule :
              schedule[i] \in M <=> i <= n /\ timeout[schedule[i]].firing = 0
         /\ \A id \in M : \E i \in DOMAIN schedule : i <= n /\ id = schedule[i]
    BY <1>1, <1>8, <1>9, ExpiredIs
  <1>11. PICK d : d = Depth
    OBVIOUS
  <1>12. d \in Nat /\ d = Len(frames) /\ d + 1 \in Nat /\ d + 1 # 0
    BY <1>2, <1>11 DEF Depth
  <1>13. PICK us : us = timeout'
    OBVIOUS
  <1>14. /\ us \in Seq(Timeout) /\ DOMAIN us = Id
         /\ \A id \in Id :
              /\ us[id].firing = IF id \in M THEN d + 1 ELSE timeout[id].firing
              /\ us[id].when = timeout[id].when /\ us[id].running = timeout[id].running
              /\ us[id].repeated = timeout[id].repeated
    <2>1. us = Marked(M, d + 1)
      BY <1>7, <1>8, <1>11, <1>13
    <2> QED
      BY <1>1, <1>12, <2>1, MarkedIs
  <1>15. \A id \in Id : timeout[id].firing \in 0..d
    BY <1>1, <1>11 DEF TypeOK
  <1>16. /\ Sorted(timeout, schedule, Limit) /\ MarkedFirst(timeout, schedule)
         /\ Sorted(us, schedule, Limit)
    BY <1>1, <1>2, <1>14 DEF OrderInv, Sorted
  <1>17. MarkedFirst(us, schedule)
    <2>1. SUFFICES ASSUME NEW i \in DOMAIN schedule, NEW j \in DOMAIN schedule, i < j,
                          us[schedule[j]].firing # 0
                   PROVE  us[schedule[i]].firing \in 1..us[schedule[j]].firing
      BY DEF MarkedFirst
    <2>2. schedule[i] \in Id /\ schedule[j] \in Id /\ i \in Nat /\ j \in Nat
      BY <1>2
    <2>3. CASE schedule[j] \in M
      <3>1. us[schedule[j]].firing = d + 1 /\ i <= n
        BY <1>9, <1>10, <1>14, <2>1, <2>2, <2>3
      <3>2. CASE schedule[i] \in M
        <4>1. us[schedule[i]].firing = d + 1
          BY <1>14, <2>2, <3>2
        <4> QED
          BY <1>12, <3>1, <4>1
      <3>3. CASE schedule[i] \notin M
        <4>1. us[schedule[i]].firing = timeout[schedule[i]].firing /\ timeout[schedule[i]].firing # 0
          BY <1>10, <1>14, <2>2, <3>1, <3>3
        <4>2. timeout[schedule[i]].firing \in 0..d
          BY <1>15, <2>2
        <4> QED
          BY <1>12, <3>1, <4>1, <4>2
      <3> QED
        BY <3>2, <3>3
    <2>4. CASE schedule[j] \notin M
      <3>1. us[schedule[j]].firing = timeout[schedule[j]].firing
        BY <1>14, <2>2, <2>4
      <3>2. timeout[schedule[i]].firing \in 1..timeout[schedule[j]].firing
        BY <1>16, <2>1, <3>1 DEF MarkedFirst
      <3>3. timeout[schedule[i]].firing # 0
        BY <1>15, <2>2, <3>2
      <3>4. us[schedule[i]].firing = timeout[schedule[i]].firing
        BY <1>10, <1>14, <2>2, <3>3
      <3> QED
        BY <3>1, <3>2, <3>4
    <2> QED
      BY <2>3, <2>4
  <1>18. MarkedAreDue(us, Limit)
    <2>1. \A id \in M : timeout[id].when <= deadline
      <3>1. SUFFICES ASSUME NEW id \in M PROVE timeout[id].when <= deadline
        OBVIOUS
      <3>2. PICK i \in DOMAIN schedule : i <= n /\ id = schedule[i]
        BY <1>10
      <3>3. i <= due
        BY <1>2, <1>6, <1>9, <3>2
      <3> QED
        BY <1>6, <3>2, <3>3
    <2>2. Limit \in Nat
      BY <1>2, LimitIs
    <2>3. \A w \in Nat : w <= deadline => w <= Limit
      BY <2>2
    <2>4. \A id \in M : timeout[id].when <= Limit
      BY <1>2, <1>10, <2>1, <2>3
    <2> QED
      BY <1>1, <1>2, <1>14, <2>4 DEF MarkedAreDue
  <1>19. Calls(timeout, schedule, frames, d)
    <2>1. ~(frames # <<>> /\ frames[d].pc = "loop")
      BY <1>11 DEF CanPump, ScriptRuns, TopIs, Top
    <2> QED
      BY <1>1, <1>12, <2>1 DEF Stack
  <1>20. \A id \in Id, f \in 1..d : us[id].firing = f <=> timeout[id].firing = f
    BY <1>10, <1>12, <1>14
  <1>21. Calls(us, schedule, frames, d)
    <2>1. \A f \in 1..d : /\ frames[f].pc = "callback"
                          /\ Ahead(timeout, schedule, frames[f].at, f)
                          /\ frames[f].at \in Id
                          /\ timeout[frames[f].at].firing = f
      BY <1>2, <1>19 DEF Calls
    <2>2. \A id \in Id : timeout[id].running <=> \E f \in 1..d : frames[f].at = id
      BY <1>2, <1>19 DEF Calls
    <2>3. \A f \in 1..d : Ahead(us, schedule, frames[f].at, f)
      <3>1. SUFFICES ASSUME NEW f \in 1..d PROVE Ahead(us, schedule, frames[f].at, f)
        OBVIOUS
      <3>2. \A i \in DOMAIN schedule :
              us[schedule[i]].firing = f <=> timeout[schedule[i]].firing = f
        BY <1>2, <1>20
      <3>3. Ahead(timeout, schedule, frames[f].at, f)
        BY <2>1
      <3> QED
        BY <3>2, <3>3 DEF Ahead
    <2>4. \A f \in 1..d : us[frames[f].at].firing = f
      BY <1>20, <2>1
    <2>5. \A id \in Id : us[id].running <=> \E f \in 1..d : frames[f].at = id
      BY <1>14, <2>2
    <2> QED
      BY <1>14, <2>1, <2>3, <2>4, <2>5 DEF Calls
  <1>22. /\ frames' \in Seq(Frame)
         /\ \A id \in Id : us[id].firing \in 0..Len(frames')
         /\ Stack(us, schedule, frames')
    <2>1. CASE M = {}
      <3>1. frames' = frames
        BY <1>7, <1>8, <2>1
      <3> QED
        BY <1>2, <1>12, <1>14, <1>15, <1>21, <2>1, <3>1 DEF Stack
    <2>2. CASE M # {}
      <3>1. 1 \in DOMAIN schedule /\ schedule[1] \in Nat
        <4>1. DOMAIN schedule # {}
          BY <1>10, <2>2
        <4>2. 1 \in DOMAIN schedule
          BY <1>2, <4>1
        <4>3. Id \subseteq Nat
          BY <1>1, ListedIs
        <4> QED
          BY <1>2, <4>2, <4>3
      <3>2. PICK fr : fr = [pc |-> "loop", at |-> schedule[1], last |-> now]
        OBVIOUS
      <3>3. fr \in Frame /\ fr.pc = "loop" /\ fr.at = schedule[1]
        BY <1>2, <3>1, <3>2 DEF Frame
      <3>4. PICK fs : fs = frames'
        OBVIOUS
      <3>5. fs = Append(frames, fr)
        BY <1>7, <1>8, <2>2, <3>2, <3>4
      <3>6. /\ fs \in Seq(Frame) /\ Len(fs) = d + 1 /\ fs[d + 1] = fr /\ fs # <<>>
            /\ \A f \in 1..d : fs[f] = frames[f]
        <4>1. fs \in Seq(Frame) /\ Len(fs) = Len(frames) + 1
          BY <1>2, <3>3, <3>5
        <4>2. fs[Len(frames) + 1] = fr
          BY <1>2, <3>3, <3>5
        <4>3. \A f \in 1..Len(frames) : fs[f] = frames[f]
          BY <1>2, <3>3, <3>5
        <4>4. fs # <<>>
          BY <1>2, <4>1
        <4> QED
          BY <1>12, <4>1, <4>2, <4>3, <4>4
      <3>7. Calls(us, schedule, fs, d)
        BY <1>21, <3>6, CallsOf
      <3>8. Ahead(us, schedule, fr.at, d + 1)
        <4>1. \A q \in DOMAIN schedule : 1 <= q
          BY <1>2
        <4>2. schedule[1] = fr.at /\ \A q \in DOMAIN schedule : us[schedule[q]].firing = d + 1 => 1 <= q
          BY <3>3, <4>1
        <4> QED
          BY <3>1, <4>2 DEF Ahead
      <3>9. (d + 1) - 1 = d
        BY <1>12
      <3>10. Stack(us, schedule, fs)
        BY <3>3, <3>6, <3>7, <3>8, <3>9 DEF Stack
      <3>11. \A id \in Id : us[id].firing \in 0..(d + 1)
        BY <1>12, <1>14, <1>15
      <3> QED
        BY <3>4, <3>6, <3>10, <3>11
    <2> QED
      BY <2>1, <2>2
  <1>23. /\ Alive(wake') /\ wake'.mode # "Shutdown"
         /\ \A i \in DOMAIN schedule : n < i => Covers(wake', timeout[schedule[i]].when)
         /\ \A w \in Nat : w <= Limit => Follows(wake', w)
    <2>1. CASE late \/ k # 0
      <3>1. PICK p : p = IF late THEN n ELSE k
        OBVIOUS
      <3>2. p \in DOMAIN schedule /\ \A i \in DOMAIN schedule : n < i => p = i \/ p < i
        <4>1. CASE late
          <5>1. p = n /\ n > 0
            BY <1>7, <3>1, <4>1
          <5>2. p \in DOMAIN schedule
            BY <1>2, <1>9, <5>1
          <5> QED
            BY <1>2, <5>1, <5>2
        <4>2. CASE ~late
          <5>1. p = k /\ k \in DOMAIN schedule /\ n = k - 1
            <6>1. p = k /\ k # 0
              BY <2>1, <3>1, <4>2
            <6>2. k \in DOMAIN schedule
              BY <1>5, <6>1
            <6>3. n = due
              BY <1>7, <4>2
            <6> QED
              BY <1>4, <6>1, <6>2, <6>3
          <5>2. \A i \in 1..Len(schedule) : k - 1 < i => k = i \/ k < i
            BY <1>2, <5>1
          <5>3. n < p /\ \A i \in DOMAIN schedule : n < i => p = i \/ p < i
            BY <1>2, <5>1, <5>2
          <5> QED
            BY <5>1, <5>3
        <4> QED
          BY <4>1, <4>2
      <3>3. PICK w : w = timeout[schedule[p]].when
        OBVIOUS
      <3>4. w \in Nat /\ wake' = MaybeScheduled(c, w)
        BY <1>2, <1>7, <2>1, <3>1, <3>2, <3>3
      <3>5. /\ Alive(wake') /\ wake'.mode \in {"Immediate", "Delayed"}
            /\ \A v \in Nat : w <= v => Covers(wake', v)
            /\ \A v \in Nat : v <= Limit => Follows(wake', v)
            /\ w <= Limit => wake'.mode = "Immediate"
        <4>1. \A v : Follows(c, v)
          BY DEF Follows
        <4> QED
          BY <1>2, <3>4, <4>1, MaybeScheduledIs
      <3>6. \A i \in DOMAIN schedule : n < i => Covers(wake', timeout[schedule[i]].when)
        <4>1. SUFFICES ASSUME NEW i \in DOMAIN schedule, n < i
                       PROVE  Covers(wake', timeout[schedule[i]].when)
          OBVIOUS
        <4>2. timeout[schedule[i]].when \in Nat
          BY <1>2
        <4>3. CASE w <= Limit
          BY <3>5, <4>3 DEF Covers
        <4>4. CASE ~(w <= Limit)
          <5>1. w <= timeout[schedule[i]].when
            <6>1. CASE p = i
              BY <3>3, <3>4, <6>1
            <6>2. CASE p < i
              <7>1. NoLater(timeout[schedule[p]].when, timeout[schedule[i]].when, Limit)
                BY <1>16, <3>2, <6>2 DEF Sorted
              <7> QED
                BY <3>3, <4>4, <7>1 DEF NoLater
            <6> QED
              BY <3>2, <4>1, <6>1, <6>2
          <5> QED
            BY <3>5, <4>2, <5>1
        <4> QED
          BY <4>3, <4>4
      <3> QED
        BY <3>5, <3>6
    <2>2. CASE ~late /\ k = 0
      <3>1. wake' = c /\ n = Len(schedule)
        BY <1>4, <1>7, <2>2
      <3>2. \A i \in DOMAIN schedule : ~(n < i)
        BY <1>2, <3>1
      <3> QED
        BY <3>1, <3>2 DEF Follows
    <2> QED
      BY <2>1, <2>2
  <1>24. Watched(us, schedule, wake')
    <2>1. ASSUME NEW i \in DOMAIN schedule, us[schedule[i]].firing = 0 PROVE n < i
      <3>1. schedule[i] \notin M /\ timeout[schedule[i]].firing = 0
        BY <1>2, <1>12, <1>14, <2>1
      <3>2. ~(i <= n)
        BY <1>10, <3>1
      <3> QED
        BY <1>2, <1>9, <3>2
    <2>2. ASSUME NEW i \in DOMAIN schedule, us[schedule[i]].firing # 0
          PROVE  Follows(wake', us[schedule[i]].when)
      <3>1. schedule[i] \in Id
        BY <1>2
      <3>2. us[schedule[i]].when \in Nat
        BY <1>2, <1>14, <3>1
      <3>3. us[schedule[i]].when <= Limit
        BY <1>14, <1>18, <2>2, <3>1 DEF MarkedAreDue
      <3> QED
        BY <1>23, <3>2, <3>3
    <2>3. ASSUME NEW i \in DOMAIN schedule, us[schedule[i]].firing = 0
          PROVE  Covers(wake', us[schedule[i]].when)
      <3>1. us[schedule[i]].when = timeout[schedule[i]].when
        BY <1>2, <1>14
      <3> QED
        BY <1>23, <2>1, <2>3, <3>1
    <2> QED
      BY <1>23, <2>2, <2>3 DEF Watched
  <1>25. js # "gone" /\ (js = "none" => frames' = <<>>) /\ (js = "none" => schedule = <<>>)
    <2>1. ASSUME js = "none" PROVE frames' = <<>> /\ schedule = <<>>
      <3>1. schedule = <<>> /\ frames = <<>>
        BY <1>1, <2>1 DEF Phase
      <3>2. M = {}
        BY <1>10, <3>1
      <3> QED
        BY <1>7, <1>8, <3>1, <3>2
    <2> QED
      BY <2>1 DEF CanPump
  <1>26. Id' = Id /\ Depth' = Len(frames')
    BY <1>13, <1>14 DEF Id, Depth
  <1>27. TypeOK'
    BY <1>1, <1>13, <1>14, <1>22, <1>23, <1>26 DEF TypeOK, Alive
  <1>28. Phase'
    BY <1>23, <1>25 DEF Phase
  <1>29. Gone(us, schedule, delayed, cleared \ missed)
    <2>1. ASSUME NEW id \in cleared \ missed, NEW i \in DOMAIN schedule, schedule[i] = id
          PROVE  us[id].running /\ ~us[id].repeated
      <3>1. id \in Id
        BY <1>2, <2>1
      <3>2. timeout[id].running /\ ~timeout[id].repeated
        BY <1>1, <2>1 DEF Gone
      <3> QED
        BY <1>14, <3>1, <3>2
    <2> QED
      BY <1>1, <2>1 DEF Gone
  <1> QED
    BY <1>1, <1>13, <1>16, <1>17, <1>18, <1>22, <1>24, <1>27, <1>28, <1>29
    DEF TimersInv, ListsInv, OrderInv, Limit

\* RunTimeout runs what is due by its deadline, and no more than what is due now.
LEMMA TargetIs ==
    ASSUME wake \in Wake, now \in Nat,
           NEW t, t = IF TargetDeadline > now THEN TargetDeadline ELSE now
    PROVE  t \in Nat /\ t <= Limit
  <1>1. PICK l : l = Limit
    OBVIOUS
  <1>2. l \in Nat /\ now <= l
    BY <1>1, LimitIs
  <1>3. PICK g : g = TargetDeadline
    OBVIOUS
  <1>4. g \in Nat /\ g <= l
    <2>1. PICK w : w = wake.deadline
      OBVIOUS
    <2>2. w \in Nat
      BY <2>1 DEF Wake
    <2>3. g = IF w > l THEN l ELSE w
      BY <1>1, <1>3, <2>1 DEF TargetDeadline
    <2> QED
      BY <1>2, <2>2, <2>3
  <1>5. t = IF g > now THEN g ELSE now
    BY <1>3
  <1> QED
    BY <1>1, <1>2, <1>4, <1>5

LEMMA ReceiveKeeps == ASSUME TimersInv, Receive PROVE TimersInv'
  <1>1. Alive(wake) /\ wake \in Wake /\ now \in Nat /\ wake.mail # <<>>
    BY DEF TimersInv, TypeOK, Watched, Receive, CanPump
  <1>2. PICK x : x = [wake EXCEPT !.mail = Tail(@)]
    OBVIOUS
  <1>3. CASE Matches(Head(wake.mail))
    <2>1. MaybeExecute(x)
      BY <1>2, <1>3 DEF Receive
    <2>2. PICK deadline : deadline = IF TargetDeadline > now THEN TargetDeadline ELSE now
      OBVIOUS
    <2>7. deadline \in Nat /\ deadline <= Limit
      BY <1>1, <2>2, TargetIs
    <2>3. PICK c : c = Cancelled(x)
      OBVIOUS
    <2>4. RunTimeout(c, deadline)
      BY <2>1, <2>2, <2>3 DEF MaybeExecute
    <2>5. x \in Wake
      <3>1. PICK m : m = Tail(wake.mail)
        OBVIOUS
      <3>2. m \in Seq(Event)
        BY <1>1, <3>1 DEF Wake
      <3>3. x = [wake EXCEPT !.mail = m]
        BY <1>2, <3>1
      <3> QED
        BY <1>1, <3>2, <3>3 DEF Wake
    <2>6. Alive(c) /\ c.mode = "None"
      BY <2>3, <2>5, CancelledIs
    <2> QED
      BY <2>4, <2>6, <2>7, RunTimeoutKeeps DEF Receive
  <1>4. CASE ~Matches(Head(wake.mail))
    <2>1. /\ wake' = [x EXCEPT !.hasTask = @ /\ ~(/\ Head(wake.mail).kind = "timer"
                                                  /\ Head(wake.mail).fresh)]
          /\ UNCHANGED <<now, timeout, schedule, delayed, isLoading, script, js, frames,
                         cleared, missed>>
      BY <1>2, <1>4 DEF Receive
    <2>2. Alive(wake') /\ wake'.mode = wake.mode /\ wake'.deadline = wake.deadline
      BY <1>1, <1>2, <1>4, <2>1, IgnoreKeeps
    <2> QED
      BY <1>1, <2>1, <2>2, WakeStepKeeps
  <1> QED
    BY <1>3, <1>4

------------------------------------------------------------------------------
(* RunTimeout goes on *)

\* A frame that looks for its next timeout is the top of the stack.
LEMMA LoopIs ==
    ASSUME TimersInv, TopIs("loop")
    PROVE  /\ frames # <<>> /\ Depth \in Nat \ {0} /\ js \notin {"none", "gone"}
           /\ wake.mode # "Shutdown"
           /\ Top \in Frame
           /\ Calls(timeout, schedule, frames, Depth - 1)
           /\ Ahead(timeout, schedule, Top.at, Depth)
  <1>1. frames # <<>> /\ frames \in Seq(Frame) /\ Top.pc = "loop"
    BY DEF TopIs, TimersInv, TypeOK
  <1>2. PICK d : d = Depth
    OBVIOUS
  <1>3. d \in Nat \ {0} /\ d = Len(frames) /\ Top = frames[d] /\ d \in DOMAIN frames
    BY <1>1, <1>2 DEF Depth, Top
  <1>4. Top \in Frame
    BY <1>1, <1>3
  <1>5. ~Calls(timeout, schedule, frames, d)
    BY <1>1, <1>3 DEF Calls
  <1> QED
    BY <1>1, <1>2, <1>3, <1>4, <1>5 DEF TimersInv, Stack, Phase

\* One that is in a callback calls what it has marked.
LEMMA CallbackIs ==
    ASSUME TimersInv, TopIs("callback")
    PROVE  /\ frames # <<>> /\ Depth \in Nat \ {0} /\ js \notin {"none", "gone"}
           /\ wake.mode # "Shutdown"
           /\ Top \in Frame
           /\ Calls(timeout, schedule, frames, Depth)
           /\ Ahead(timeout, schedule, Top.at, Depth)
           /\ Top.at \in Id /\ timeout[Top.at].firing = Depth /\ timeout[Top.at].running
  <1>1. frames # <<>> /\ frames \in Seq(Frame) /\ Top.pc = "callback"
    BY DEF TopIs, TimersInv, TypeOK
  <1>2. PICK d : d = Depth
    OBVIOUS
  <1>3. d \in Nat \ {0} /\ d = Len(frames) /\ Top = frames[d] /\ d \in DOMAIN frames /\ d \in 1..d
    BY <1>1, <1>2 DEF Depth, Top
  <1>4. Top \in Frame
    BY <1>1, <1>3
  <1>5. Calls(timeout, schedule, frames, d)
    BY <1>1, <1>3 DEF TimersInv, Stack
  <1>6. Ahead(timeout, schedule, Top.at, d) /\ Top.at \in Id /\ timeout[Top.at].firing = d
    BY <1>3, <1>5 DEF Calls, Id
  <1>7. timeout[Top.at].running
    BY <1>3, <1>5, <1>6 DEF Calls, Id
  <1> QED
    BY <1>1, <1>2, <1>3, <1>4, <1>5, <1>6, <1>7 DEF TimersInv, Phase

\* The second loop finds the first timeout that its RunTimeout has marked; when it
\* ends, there is none left.
LEMMA NextToRunIs ==
    ASSUME TimersInv, TopIs("loop"), NEW id, id = NextToRun
    PROVE  /\ id = End => \A q \in DOMAIN schedule : timeout[schedule[q]].firing # Depth
           /\ id # End => \E p \in DOMAIN schedule :
                /\ schedule[p] = id /\ timeout[id].firing = Depth
                /\ \A q \in DOMAIN schedule : timeout[schedule[q]].firing = Depth => p <= q
  <1>1. TypeOK /\ Single(schedule) /\ MarkedFirst(timeout, schedule)
    BY DEF TimersInv, ListsInv, OrderInv
  <1>2. PICK d : d = Depth
    OBVIOUS
  <1>3. d \in Nat /\ d # 0 /\ Ahead(timeout, schedule, Top.at, d)
    BY <1>2, LoopIs
  <1>4. PICK a : a = Top.at
    OBVIOUS
  <1>5. /\ Id \subseteq Nat \ {0}
        /\ \A i \in DOMAIN schedule : schedule[i] \in Id
        /\ schedule \in Seq(Id)
        /\ DOMAIN schedule = 1..Len(schedule) /\ Len(schedule) \in Nat
    BY <1>1, ListedIs DEF TypeOK
  <1>6. PICK k : k = SelectInSubSeq(schedule, Position(schedule, a), Len(schedule),
                                    LAMBDA e : timeout[e].firing \in {0, d})
    OBVIOUS
  <1>7. id = IF a = End \/ k = 0 \/ timeout[schedule[k]].firing = 0 THEN End ELSE schedule[k]
    BY <1>2, <1>4, <1>6 DEF NextToRun, IsUnmarked
  <1>8. CASE a = End
    <2>1. \A i \in DOMAIN schedule : schedule[i] # End
      BY <1>5 DEF End
    <2>2. \A q \in DOMAIN schedule : timeout[schedule[q]].firing # d
      BY <1>3, <1>4, <1>8, <2>1 DEF Ahead
    <2> QED
      BY <1>2, <1>7, <1>8, <2>2
  <1>9. CASE a # End
    <2>1. PICK p \in DOMAIN schedule :
            /\ schedule[p] = a
            /\ \A q \in DOMAIN schedule : timeout[schedule[q]].firing = d => p <= q
      BY <1>3, <1>4, <1>9 DEF Ahead
    <2>2. Position(schedule, a) = p
      BY <1>1, <1>5, <2>1, PositionIs
    <2> DEFINE I == {i \in p..Len(schedule) : timeout[schedule[i]].firing \in {0, d}}
    <2>3. k = IF I # {} THEN Min(I) ELSE 0
      BY <1>6, <2>2 DEF SelectInSubSeq
    <2>4. I \subseteq Nat \ {0} /\ I \subseteq DOMAIN schedule
      BY <1>5
    <2>5. \A q \in DOMAIN schedule : timeout[schedule[q]].firing = d => q \in I
      BY <1>5, <2>1
    <2>6. \A i \in I : timeout[schedule[i]].firing \in {0, d}
      OBVIOUS
    <2> HIDE DEF I
    <2>7. /\ k = 0 => I = {}
          /\ k # 0 => k \in I /\ \A i \in I : k <= i
      BY <2>3, <2>4, FirstIndex
    <2>8. CASE k = 0
      BY <1>2, <1>7, <2>5, <2>7, <2>8
    <2>9. CASE k # 0 /\ timeout[schedule[k]].firing = 0
      <3>1. ASSUME NEW q \in DOMAIN schedule, timeout[schedule[q]].firing = d PROVE FALSE
        <4>1. q \in I /\ k <= q /\ k # q
          BY <1>3, <2>5, <2>7, <2>9, <3>1
        <4>4. k \in DOMAIN schedule
          BY <2>4, <2>7, <2>9
        <4>2. k < q /\ k \in DOMAIN schedule
          BY <1>5, <4>1, <4>4
        <4>3. timeout[schedule[k]].firing \in 1..timeout[schedule[q]].firing
          BY <1>1, <1>3, <3>1, <4>2 DEF MarkedFirst
        <4> QED
          BY <2>9, <4>3
      <3> QED
        BY <1>2, <1>7, <2>9, <3>1
    <2>10. CASE k # 0 /\ timeout[schedule[k]].firing # 0
      <3>1. k \in DOMAIN schedule /\ timeout[schedule[k]].firing = d
        BY <2>4, <2>6, <2>7, <2>10
      <3>2. \A q \in DOMAIN schedule : timeout[schedule[q]].firing = d => k <= q
        BY <2>5, <2>7, <2>10
      <3>3. id = schedule[k] /\ id # End
        BY <1>5, <1>7, <1>9, <2>10, <3>1 DEF End
      <3> QED
        BY <1>2, <3>1, <3>2, <3>3
    <2> QED
      BY <2>8, <2>9, <2>10
  <1> QED
    BY <1>8, <1>9

\* The second loop never comes to a timeout whose callback is on the stack.
LEMMA NextIsNotRunning ==
    ASSUME TimersInv, TopIs("loop"), NEW p \in DOMAIN schedule,
           timeout[schedule[p]].firing = Depth
    PROVE  ~timeout[schedule[p]].running
  <1>1. SUFFICES ASSUME timeout[schedule[p]].running PROVE FALSE
    OBVIOUS
  <1>2. schedule[p] \in Id
    BY ListedIs DEF TimersInv
  <1>3. PICK f \in 1..(Depth - 1) : frames[f].at = schedule[p]
    BY <1>1, <1>2, LoopIs DEF Calls, Id
  <1>4. timeout[schedule[p]].firing = f
    BY <1>3, LoopIs DEF Calls
  <1> QED
    BY <1>4, LoopIs

\* Nor to one that was cleared.
LEMMA NextIsNotGone ==
    ASSUME TimersInv, TopIs("loop"), NEW p \in DOMAIN schedule,
           timeout[schedule[p]].firing = Depth
    PROVE  schedule[p] \notin cleared \ missed
  BY NextIsNotRunning DEF TimersInv, Gone

\* What a step of a RunTimeout leaves behind.
LEMMA LoopStepKeeps ==
    ASSUME TimersInv, frames # <<>>, UNCHANGED <<now, isLoading, script, js, cleared, missed>>,
           timeout' \in Seq(Timeout), DOMAIN timeout' = Id, frames' \in Seq(Frame),
           \A id \in Id : timeout'[id].firing \in 0..Len(frames'),
           schedule' \in Seq(Id), delayed' \in Seq(Id),
           Single(schedule'), Single(delayed'), Apart(schedule', delayed'),
           Sorted(timeout', schedule', Limit), MarkedFirst(timeout', schedule'),
           MarkedAreDue(timeout', Limit), Stack(timeout', schedule', frames'),
           Watched(timeout', schedule', wake'), wake'.mode # "Shutdown",
           Gone(timeout', schedule', delayed', cleared \ missed)
    PROVE  TimersInv'
  <1>1. TypeOK /\ Phase
    BY DEF TimersInv
  <1>2. Id' = Id /\ Depth' = Len(frames') /\ wake' \in Wake
    BY DEF Id, Depth, Watched, Alive
  <1>3. TypeOK'
    BY <1>1, <1>2 DEF TypeOK
  <1>4. Phase'
    BY <1>1 DEF Phase
  <1> QED
    BY <1>3, <1>4 DEF TimersInv, ListsInv, OrderInv, Limit

LEMMA LoopEndsKeeps == ASSUME TimersInv, LoopEnds PROVE TimersInv'
  <1>1. /\ TopIs("loop") /\ NextToRun = End
        /\ UNCHANGED <<now, schedule, delayed, isLoading, script, js, wake, cleared, missed>>
        /\ timeout' = Unmarked(timeout) /\ frames' = SubSeq(frames, 1, Depth - 1)
    BY DEF LoopEnds, RunTimeoutReturns
  <1>2. /\ TypeOK /\ ListsInv /\ OrderInv /\ MarkedAreDue(timeout, Limit)
        /\ Watched(timeout, schedule, wake)
        /\ Gone(timeout, schedule, delayed, cleared \ missed)
    BY DEF TimersInv
  <1>3. /\ frames # <<>> /\ wake.mode # "Shutdown"
        /\ Calls(timeout, schedule, frames, Depth - 1)
    BY <1>1, LoopIs
  <1>4. /\ DOMAIN timeout = Id /\ timeout \in Seq(Timeout) /\ schedule \in Seq(Id)
        /\ delayed \in Seq(Id) /\ frames \in Seq(Frame)
        /\ \A id \in Id : timeout[id].firing \in 0..Depth
        /\ \A i \in DOMAIN schedule : schedule[i] \in Id
    BY <1>2, ListedIs DEF TypeOK
  <1>5. PICK us : us = timeout'
    OBVIOUS
  <1>6. PICK fs : fs = frames'
    OBVIOUS
  <1>7. Sorted(timeout, schedule, Limit) /\ MarkedFirst(timeout, schedule)
    BY <1>2 DEF OrderInv
  <1>8. /\ us \in Seq(Timeout) /\ DOMAIN us = Id
        /\ fs \in Seq(Frame)
        /\ \A id \in Id : us[id].firing \in 0..Len(fs)
        /\ Sorted(us, schedule, Limit) /\ MarkedFirst(us, schedule) /\ MarkedAreDue(us, Limit)
        /\ Stack(us, schedule, fs)
    <2>1. /\ us = Unmarked(timeout) /\ fs = SubSeq(frames, 1, Depth - 1)
          /\ schedule \in Seq(DOMAIN timeout)
          /\ \A id \in DOMAIN timeout : timeout[id].firing \in 0..Depth
      BY <1>1, <1>4, <1>5, <1>6
    <2>2. /\ us \in Seq(Timeout) /\ DOMAIN us = DOMAIN timeout
          /\ fs \in Seq(Frame)
          /\ \A id \in DOMAIN us : us[id].firing \in 0..Len(fs)
          /\ Sorted(us, schedule, Limit) /\ MarkedFirst(us, schedule) /\ MarkedAreDue(us, Limit)
          /\ Stack(us, schedule, fs)
      BY <1>2, <1>3, <1>4, <1>7, <2>1, ReturnKeeps
    <2> QED
      BY <1>4, <2>2
  <1>9. \A id \in Id :
          /\ us[id].firing = IF timeout[id].firing = Depth THEN 0 ELSE timeout[id].firing
          /\ us[id].when = timeout[id].when
          /\ us[id].running = timeout[id].running /\ us[id].repeated = timeout[id].repeated
    <2>1. us = Unmarked(timeout)
      BY <1>1, <1>5
    <2>2. \A id \in DOMAIN timeout : timeout[id].firing \in 0..Depth
      BY <1>4
    <2>3. \A id \in DOMAIN timeout :
            /\ us[id].firing = IF timeout[id].firing = Depth THEN 0 ELSE timeout[id].firing
            /\ us[id].when = timeout[id].when
            /\ us[id].running = timeout[id].running /\ us[id].repeated = timeout[id].repeated
      BY <1>3, <1>4, <2>1, <2>2, UnmarkedIs
    <2> QED
      BY <1>4, <2>3
  <1>10. \A q \in DOMAIN schedule : timeout[schedule[q]].firing # Depth
    BY <1>1, NextToRunIs
  <1>11. Watched(us, schedule, wake)
    BY <1>2, <1>4, <1>9, <1>10 DEF Watched
  <1>12. Gone(us, schedule, delayed, cleared \ missed)
    <2>1. ASSUME NEW id \in cleared \ missed, NEW i \in DOMAIN schedule, schedule[i] = id
          PROVE  us[id].running /\ ~us[id].repeated
      <3>1. id \in Id /\ timeout[id].running /\ ~timeout[id].repeated
        BY <1>2, <1>4, <2>1 DEF Gone
      <3> QED
        BY <1>9, <3>1
    <2> QED
      BY <1>2, <2>1 DEF Gone
  <1> QED
    BY <1>1, <1>2, <1>3, <1>4, <1>5, <1>6, <1>8, <1>11, <1>12, LoopStepKeeps DEF ListsInv

\* A timeout is erased from the list; the RunTimeouts of the callbacks find what they
\* have marked, and the innermost one goes on behind it.
LEMMA ErasedKeeps ==
    ASSUME TimersInv, frames # <<>>, Depth \in Nat \ {0},
           Calls(timeout, schedule, frames, Depth - 1),
           NEW p \in DOMAIN schedule, timeout[schedule[p]].firing = Depth,
           \A q \in DOMAIN schedule : timeout[schedule[q]].firing = Depth => p <= q,
           NEW r, r = Without(schedule, schedule[p]),
           NEW next, next = NextOf(schedule, schedule[p])
    PROVE  /\ r \in Seq(Id) /\ Single(r) /\ next \in Nat
           /\ \A e : e \in ToSet(r) <=> e \in ToSet(schedule) /\ e # schedule[p]
           /\ \A i \in DOMAIN r : r[i] \in Id /\ r[i] # schedule[p] /\ r[i] \in ToSet(schedule)
           /\ Sorted(timeout, r, Limit) /\ MarkedFirst(timeout, r)
           /\ Calls(timeout, r, frames, Depth - 1)
           /\ \A f \in 1..(Depth - 1) : frames[f].at # schedule[p]
           /\ Ahead(timeout, r, next, Depth)
           /\ Watched(timeout, r, wake)
  <1>1. /\ TypeOK /\ Single(schedule) /\ Watched(timeout, schedule, wake)
        /\ Sorted(timeout, schedule, Limit) /\ MarkedFirst(timeout, schedule)
    BY DEF TimersInv, ListsInv, OrderInv
  <1>2. /\ Id \subseteq Nat /\ Id = DOMAIN timeout
        /\ \A i \in DOMAIN schedule : schedule[i] \in Id
        /\ schedule \in Seq(Id)
    BY <1>1, ListedIs DEF TypeOK
  <1>3. PICK d : d = Depth
    OBVIOUS
  <1>4. /\ r \in Seq(Id) /\ Single(r)
        /\ \A e : e \in ToSet(r) <=> e \in ToSet(schedule) /\ e # schedule[p]
        /\ Sorted(timeout, r, Limit) /\ MarkedFirst(timeout, r)
        /\ \A f, at : at # schedule[p] /\ Ahead(timeout, schedule, at, f) => Ahead(timeout, r, at, f)
        /\ \A f : (\A q \in DOMAIN schedule : timeout[schedule[q]].firing = f => p <= q) =>
             Ahead(timeout, r, NextOf(schedule, schedule[p]), f)
    BY <1>1, <1>2, WithoutKeeps
  <1>5. \A i \in DOMAIN r : r[i] \in Id /\ r[i] # schedule[p] /\ r[i] \in ToSet(schedule)
    <2>1. \A i \in DOMAIN r : r[i] \in ToSet(r)
      BY DEF ToSet
    <2> QED
      BY <1>4, <2>1
  <1>6. next \in Nat
    <2>1. CASE p = Len(schedule)
      BY <1>1, <1>2, <2>1, PositionIs DEF NextOf, End
    <2>2. CASE p # Len(schedule)
      <3>1. p + 1 \in DOMAIN schedule
        BY <1>2, <2>2
      <3>2. next = schedule[p + 1]
        BY <1>1, <1>2, <2>2, PositionIs DEF NextOf
      <3> QED
        BY <1>2, <3>1, <3>2
    <2> QED
      BY <2>1, <2>2
  <1>7. /\ \A f \in 1..(d - 1) : /\ frames[f].pc = "callback"
                                 /\ Ahead(timeout, schedule, frames[f].at, f)
                                 /\ frames[f].at \in DOMAIN timeout
                                 /\ timeout[frames[f].at].firing = f
        /\ \A id \in DOMAIN timeout : timeout[id].running <=> \E f \in 1..(d - 1) : frames[f].at = id
    BY <1>3 DEF Calls
  <1>8. \A f \in 1..(d - 1) : frames[f].at # schedule[p]
    <2>1. \A f \in 1..(d - 1) : f # d
      BY <1>3
    <2> QED
      BY <1>3, <1>7, <2>1
  <1>9. Calls(timeout, r, frames, d - 1)
    <2>1. \A f \in 1..(d - 1) : Ahead(timeout, r, frames[f].at, f)
      BY <1>4, <1>7, <1>8
    <2> QED
      BY <1>7, <2>1 DEF Calls
  <1>10. Ahead(timeout, r, next, d)
    BY <1>3, <1>4
  <1>11. Watched(timeout, r, wake)
    <2>1. ASSUME NEW i \in DOMAIN r
          PROVE  IF timeout[r[i]].firing = 0 THEN Covers(wake, timeout[r[i]].when)
                                             ELSE Follows(wake, timeout[r[i]].when)
      <3>1. PICK j \in DOMAIN schedule : r[i] = schedule[j]
        BY <1>5 DEF ToSet
      <3> QED
        BY <1>1, <3>1 DEF Watched
    <2> QED
      BY <1>1, <2>1 DEF Watched
  <1> QED
    BY <1>3, <1>4, <1>5, <1>6, <1>8, <1>9, <1>10, <1>11

LEMMA DeferTimeoutKeeps == ASSUME TimersInv, DeferTimeout PROVE TimersInv'
  <1>1. PICK id : id = NextToRun
    OBVIOUS
  <1>2. PICK r : r = Without(schedule, id)
    OBVIOUS
  <1>3. PICK next : next = NextOf(schedule, id)
    OBVIOUS
  <1>4. PICK last : last = Top.last
    OBVIOUS
  <1>5. /\ TopIs("loop") /\ id # End
        /\ schedule' = r /\ delayed' = Append(delayed, id)
        /\ GoOnOrStop(timeout, wake, next, last)
        /\ UNCHANGED <<now, isLoading, script, js, cleared, missed>>
    BY <1>1, <1>2, <1>3, <1>4 DEF DeferTimeout
  <1>6. /\ TypeOK /\ ListsInv /\ MarkedAreDue(timeout, Limit)
        /\ Gone(timeout, schedule, delayed, cleared \ missed)
        /\ timeout \in Seq(Timeout) /\ frames \in Seq(Frame) /\ now \in Nat
        /\ delayed \in Seq(Id)
        /\ \A e \in Id : timeout[e].firing \in 0..Depth
    BY DEF TimersInv, TypeOK
  <1>7. PICK p \in DOMAIN schedule :
          /\ schedule[p] = id /\ timeout[id].firing = Depth
          /\ \A q \in DOMAIN schedule : timeout[schedule[q]].firing = Depth => p <= q
    BY <1>1, <1>5, NextToRunIs
  <1>8. /\ frames # <<>> /\ Depth \in Nat \ {0} /\ wake.mode # "Shutdown"
        /\ Calls(timeout, schedule, frames, Depth - 1) /\ last \in Nat
    BY <1>4, <1>5, LoopIs DEF Frame
  <1>9. /\ DOMAIN timeout = Id
        /\ \A i \in DOMAIN schedule : schedule[i] \in Id
        /\ \A i \in DOMAIN delayed : delayed[i] \in Id
    BY <1>6, ListedIs
  <1>10. /\ r \in Seq(Id) /\ Single(r) /\ next \in Nat
         /\ \A i \in DOMAIN r : r[i] \in Id /\ r[i] # id /\ r[i] \in ToSet(schedule)
         /\ Sorted(timeout, r, Limit) /\ MarkedFirst(timeout, r)
         /\ Calls(timeout, r, frames, Depth - 1)
         /\ Ahead(timeout, r, next, Depth)
         /\ Watched(timeout, r, wake)
    BY <1>2, <1>3, <1>7, <1>8, ErasedKeeps
  <1>11. PICK us : us = timeout'
    OBVIOUS
  <1>12. PICK fs : fs = frames'
    OBVIOUS
  <1>13. PICK y : y = wake'
    OBVIOUS
  <1>14. /\ us \in Seq(Timeout) /\ DOMAIN us = Id
         /\ \A e \in Id : us[e].running = timeout[e].running /\ us[e].repeated = timeout[e].repeated
         /\ fs \in Seq(Frame)
         /\ \A e \in Id : us[e].firing \in 0..Len(fs)
         /\ Sorted(us, r, Limit) /\ MarkedFirst(us, r) /\ MarkedAreDue(us, Limit)
         /\ Stack(us, r, fs)
         /\ Watched(us, r, y) /\ y.mode # "Shutdown"
    BY <1>5, <1>6, <1>8, <1>9, <1>10, <1>11, <1>12, <1>13, GoOnOrStopKeeps
  <1>15. PICK l : l = Append(delayed, id)
    OBVIOUS
  <1>16. /\ l \in Seq(Id) /\ DOMAIN l = DOMAIN delayed \cup {Len(delayed) + 1}
         /\ Len(delayed) + 1 \notin DOMAIN delayed
         /\ l[Len(delayed) + 1] = id /\ \A i \in DOMAIN delayed : l[i] = delayed[i]
    BY <1>6, <1>7, <1>9, <1>15
  <1>17. \A i \in DOMAIN delayed : delayed[i] # id
    BY <1>6, <1>7 DEF ListsInv, Apart
  <1>18. Single(l)
    BY <1>6, <1>16, <1>17 DEF ListsInv, Single
  <1>19. Apart(r, l)
    <2>1. ASSUME NEW i \in DOMAIN r, NEW j \in DOMAIN l, r[i] = l[j] PROVE FALSE
      <3>1. r[i] # id /\ r[i] \in ToSet(schedule)
        BY <1>10
      <3>2. j \in DOMAIN delayed /\ l[j] = delayed[j]
        BY <1>16, <2>1, <3>1
      <3> QED
        BY <1>6, <2>1, <3>1, <3>2 DEF ListsInv, Apart, ToSet
    <2> QED
      BY <2>1 DEF Apart
  <1>20. id \notin cleared \ missed
    BY <1>5, <1>7, NextIsNotGone
  <1>21. Gone(us, r, l, cleared \ missed)
    <2>1. ASSUME NEW e \in cleared \ missed
          PROVE  /\ \A i \in DOMAIN l : l[i] # e
                 /\ \A i \in DOMAIN r : r[i] = e => us[e].running /\ ~us[e].repeated
      <3>1. \A i \in DOMAIN l : l[i] # e
        BY <1>6, <1>16, <1>20, <2>1 DEF Gone
      <3>2. ASSUME NEW i \in DOMAIN r, r[i] = e PROVE us[e].running /\ ~us[e].repeated
        <4>1. e \in Id /\ e \in ToSet(schedule)
          BY <1>10, <3>2
        <4>2. timeout[e].running /\ ~timeout[e].repeated
          BY <1>6, <2>1, <4>1 DEF Gone, ToSet
        <4> QED
          BY <1>14, <4>1, <4>2
      <3> QED
        BY <3>1, <3>2
    <2> QED
      BY <2>1 DEF Gone
  <1> QED
    BY <1>5, <1>8, <1>10, <1>11, <1>12, <1>13, <1>14, <1>15, <1>16, <1>18, <1>19, <1>21,
       LoopStepKeeps

LEMMA CallTimeoutKeeps == ASSUME TimersInv, CallTimeout PROVE TimersInv'
  <1>1. PICK id : id = NextToRun
    OBVIOUS
  <1>2. PICK d : d = Depth
    OBVIOUS
  <1>3. /\ TopIs("loop") /\ id # End
        /\ timeout' = [timeout EXCEPT ![id].running = TRUE]
        /\ frames' = [frames EXCEPT ![d].pc = "callback", ![d].at = id]
        /\ UNCHANGED <<now, schedule, delayed, isLoading, script, js, wake, cleared, missed>>
    BY <1>1, <1>2 DEF CallTimeout
  <1>4. /\ TypeOK /\ ListsInv /\ MarkedAreDue(timeout, Limit) /\ Watched(timeout, schedule, wake)
        /\ Sorted(timeout, schedule, Limit) /\ MarkedFirst(timeout, schedule)
        /\ Gone(timeout, schedule, delayed, cleared \ missed)
    BY DEF TimersInv, OrderInv
  <1>5. PICK p \in DOMAIN schedule :
          /\ schedule[p] = id /\ timeout[id].firing = d
          /\ \A q \in DOMAIN schedule : timeout[schedule[q]].firing = d => p <= q
    BY <1>1, <1>2, <1>3, NextToRunIs
  <1>6. /\ frames # <<>> /\ d \in Nat \ {0} /\ wake.mode # "Shutdown"
        /\ Calls(timeout, schedule, frames, d - 1) /\ d = Len(frames) /\ d \in DOMAIN frames
    <2>1. /\ frames # <<>> /\ d \in Nat \ {0} /\ wake.mode # "Shutdown"
          /\ Calls(timeout, schedule, frames, d - 1)
      BY <1>2, <1>3, LoopIs
    <2> QED
      BY <1>2, <1>4, <2>1 DEF Depth, TypeOK
  <1>7. /\ DOMAIN timeout = Id /\ timeout \in Seq(Timeout) /\ frames \in Seq(Frame)
        /\ \A e \in Id : timeout[e] \in Timeout
        /\ \A e \in Id : timeout[e].firing \in 0..d
        /\ schedule \in Seq(Id) /\ delayed \in Seq(Id)
        /\ \A i \in DOMAIN schedule : schedule[i] \in Id
        /\ Id \subseteq Nat
    BY <1>2, <1>4, ListedIs DEF TypeOK
  <1>8. id \in Id
    BY <1>5, <1>7
  <1>9. PICK t : t = [timeout[id] EXCEPT !.running = TRUE]
    OBVIOUS
  <1>10. /\ t \in Timeout /\ t.running /\ t.when = timeout[id].when
         /\ t.firing = timeout[id].firing /\ t.repeated = timeout[id].repeated
    BY <1>7, <1>8, <1>9 DEF Timeout
  <1>11. PICK us : us = timeout'
    OBVIOUS
  <1>12. us = [timeout EXCEPT ![id] = t]
    BY <1>3, <1>7, <1>8, <1>9, <1>11
  <1>13. /\ us \in Seq(Timeout) /\ DOMAIN us = Id
         /\ us[id] = t /\ \A e \in Id : e # id => us[e] = timeout[e]
    BY <1>7, <1>8, <1>10, <1>12, ExceptIs
  <1>14. \A e \in Id : /\ us[e].when = timeout[e].when /\ us[e].firing = timeout[e].firing
                       /\ us[e].repeated = timeout[e].repeated
                       /\ us[e].running <=> e = id \/ timeout[e].running
    BY <1>10, <1>13
  <1>15. PICK fr : fr = [frames[d] EXCEPT !.pc = "callback", !.at = id]
    OBVIOUS
  <1>16. fr \in Frame /\ fr.pc = "callback" /\ fr.at = id
    <2>1. frames[d] \in Frame /\ id \in Nat
      BY <1>6, <1>7, <1>8
    <2> QED
      BY <1>15, <2>1 DEF Frame
  <1>17. PICK fs : fs = frames'
    OBVIOUS
  <1>18. fs = [frames EXCEPT ![d] = fr]
    BY <1>3, <1>6, <1>7, <1>15, <1>17
  <1>19. /\ fs \in Seq(Frame) /\ Len(fs) = d /\ fs[d] = fr
         /\ \A f \in 1..(d - 1) : fs[f] = frames[f]
    <2>1. d \in 1..Len(frames)
      BY <1>6
    <2>2. fs \in Seq(Frame) /\ Len(fs) = d /\ fs[d] = fr
      BY <1>6, <1>7, <1>16, <1>18, <2>1, ExceptSeq
    <2>3. ASSUME NEW f \in 1..(d - 1) PROVE fs[f] = frames[f]
      <3>1. f # d /\ f \in DOMAIN frames
        BY <1>6
      <3> QED
        BY <1>18, <3>1
    <2> QED
      BY <2>2, <2>3
  <1>20. Calls(us, schedule, fs, d)
    <2>1. /\ \A f \in 1..(d - 1) : /\ frames[f].pc = "callback"
                                   /\ Ahead(timeout, schedule, frames[f].at, f)
                                   /\ frames[f].at \in Id
                                   /\ timeout[frames[f].at].firing = f
          /\ \A e \in Id : timeout[e].running <=> \E f \in 1..(d - 1) : frames[f].at = e
      BY <1>6, <1>7 DEF Calls
    <2>2. 1..d = 1..(d - 1) \cup {d}
      BY <1>6
    <2>3. \A f, at : Ahead(timeout, schedule, at, f) => Ahead(us, schedule, at, f)
      BY <1>7, <1>14 DEF Ahead
    <2>4. Ahead(us, schedule, id, d)
      <3>1. Ahead(timeout, schedule, id, d)
        BY <1>5 DEF Ahead
      <3> QED
        BY <2>3, <3>1
    <2>5. \A f \in 1..(d - 1) : /\ fs[f].pc = "callback"
                                /\ Ahead(us, schedule, fs[f].at, f)
                                /\ fs[f].at \in Id
                                /\ us[fs[f].at].firing = f
      BY <1>14, <1>19, <2>1, <2>3
    <2>6. fs[d].pc = "callback" /\ Ahead(us, schedule, fs[d].at, d) /\ us[fs[d].at].firing = d
      BY <1>5, <1>8, <1>14, <1>16, <1>19, <2>4
    <2>7. \A e \in Id : us[e].running <=> \E f \in 1..d : fs[f].at = e
      <3>1. \A e \in Id : (\E f \in 1..(d - 1) : fs[f].at = e) <=> timeout[e].running
        BY <1>19, <2>1
      <3>2. fs[d].at = id
        BY <1>16, <1>19
      <3> QED
        BY <1>14, <2>2, <3>1, <3>2
    <2>8. \A f \in 1..d : f = d \/ f \in 1..(d - 1)
      BY <2>2
    <2>9. \A f \in 1..d : /\ fs[f].pc = "callback"
                          /\ Ahead(us, schedule, fs[f].at, f)
                          /\ fs[f].at \in Id
                          /\ us[fs[f].at].firing = f
      BY <1>8, <1>16, <1>19, <2>5, <2>6, <2>8
    <2> QED
      BY <1>13, <2>7, <2>9 DEF Calls
  <1>21. Stack(us, schedule, fs)
    BY <1>19, <1>20 DEF Stack
  <1>22. Sorted(us, schedule, Limit) /\ MarkedFirst(us, schedule)
    BY <1>4, <1>7, <1>14 DEF Sorted, MarkedFirst
  <1>23. MarkedAreDue(us, Limit)
    BY <1>4, <1>7, <1>13, <1>14 DEF MarkedAreDue
  <1>24. Watched(us, schedule, wake)
    BY <1>4, <1>7, <1>14 DEF Watched
  <1>25. Gone(us, schedule, delayed, cleared \ missed)
    <2>1. ASSUME NEW e \in cleared \ missed, NEW i \in DOMAIN schedule, schedule[i] = e
          PROVE  us[e].running /\ ~us[e].repeated
      <3>1. e \in Id /\ timeout[e].running /\ ~timeout[e].repeated
        BY <1>4, <1>7, <2>1 DEF Gone
      <3> QED
        BY <1>14, <3>1
    <2> QED
      BY <1>4, <2>1 DEF Gone
  <1>26. \A e \in Id : us[e].firing \in 0..Len(fs)
    BY <1>7, <1>14, <1>19
  <1> QED
    BY <1>3, <1>4, <1>6, <1>7, <1>11, <1>13, <1>17, <1>19, <1>21, <1>22, <1>23, <1>24, <1>25, <1>26,
       LoopStepKeeps DEF ListsInv

\* A callback has returned: what it leaves of the others.
LEMMA ReturnedIs ==
    ASSUME TimersInv, TopIs("callback"), NEW id, id = Top.at,
           NEW ts, DOMAIN ts = Id, ~ts[id].running, ts[id].firing = 0,
           \A e \in Id : e # id => ts[e] = timeout[e],
           NEW r, r = Without(schedule, id), NEW next, next = NextOf(schedule, id)
    PROVE  /\ \A e \in Id : ts[e].firing \in 0..Depth
           /\ r \in Seq(Id) /\ Single(r) /\ next \in Nat
           /\ \A i \in DOMAIN r : r[i] \in Id /\ r[i] # id /\ r[i] \in ToSet(schedule)
           /\ Sorted(timeout, r, Limit) /\ MarkedFirst(timeout, r)
           /\ Sorted(ts, r, Limit) /\ MarkedFirst(ts, r)
           /\ Calls(ts, r, frames, Depth - 1)
           /\ Ahead(ts, r, next, Depth)
           /\ Watched(ts, r, wake)
           /\ id \in ToSet(schedule)
  <1>1. PICK d : d = Depth
    OBVIOUS
  <1>2. /\ frames # <<>> /\ d \in Nat \ {0}
        /\ Calls(timeout, schedule, frames, d) /\ Ahead(timeout, schedule, id, d)
        /\ id \in Id /\ timeout[id].firing = d /\ timeout[id].running
    BY <1>1, CallbackIs
  <1>3. /\ DOMAIN timeout = Id /\ timeout \in Seq(Timeout) /\ frames \in Seq(Frame)
        /\ \A e \in Id : timeout[e].firing \in 0..d
        /\ Id \subseteq Nat \ {0} /\ d = Len(frames)
    BY <1>1, ListedIs DEF TimersInv, TypeOK, Depth
  <1>5. PICK p \in DOMAIN schedule :
          /\ schedule[p] = id
          /\ \A q \in DOMAIN schedule : timeout[schedule[q]].firing = d => p <= q
    BY <1>2, <1>3 DEF Ahead, End
  <1>6. \A f \in 1..d : frames[f].at = id => f = d
    BY <1>2 DEF Calls
  <1>7. frames[d].at = id /\ 1..d = 1..(d - 1) \cup {d}
    BY <1>1, <1>2 DEF Top
  <1>8. /\ \A f \in 1..(d - 1) : /\ frames[f].pc = "callback"
                                 /\ Ahead(timeout, schedule, frames[f].at, f)
                                 /\ frames[f].at \in Id
                                 /\ timeout[frames[f].at].firing = f
                                 /\ frames[f].at # id
        /\ \A e \in Id : timeout[e].running <=>
             e = id \/ \E f \in 1..(d - 1) : frames[f].at = e
    <2>1. \A f \in 1..(d - 1) : f # d
      BY <1>2
    <2>2. \A f \in 1..d : /\ frames[f].pc = "callback"
                          /\ Ahead(timeout, schedule, frames[f].at, f)
                          /\ frames[f].at \in Id
                          /\ timeout[frames[f].at].firing = f
      BY <1>2, <1>3 DEF Calls
    <2>3. \A e \in Id : timeout[e].running <=> \E f \in 1..d : frames[f].at = e
      BY <1>2, <1>3 DEF Calls
    <2>4. \A e \in Id : timeout[e].running <=>
             e = id \/ \E f \in 1..(d - 1) : frames[f].at = e
      BY <1>7, <2>3
    <2> QED
      BY <1>6, <1>7, <2>1, <2>2, <2>4
  <1>9. /\ r \in Seq(Id) /\ Single(r) /\ next \in Nat
        /\ \A e : e \in ToSet(r) <=> e \in ToSet(schedule) /\ e # id
        /\ Sorted(timeout, r, Limit) /\ MarkedFirst(timeout, r)
        /\ \A f, at : at # id /\ Ahead(timeout, schedule, at, f) => Ahead(timeout, r, at, f)
        /\ Ahead(timeout, r, next, d)
    <2>1. Single(schedule) /\ Sorted(timeout, schedule, Limit) /\ MarkedFirst(timeout, schedule)
      BY DEF TimersInv, ListsInv, OrderInv
    <2>2. schedule \in Seq(Id)
      BY DEF TimersInv, TypeOK
    <2>3. /\ r \in Seq(Id) /\ Single(r)
          /\ \A e : e \in ToSet(r) <=> e \in ToSet(schedule) /\ e # schedule[p]
          /\ Sorted(timeout, r, Limit) /\ MarkedFirst(timeout, r)
          /\ \A f, at : at # schedule[p] /\ Ahead(timeout, schedule, at, f) => Ahead(timeout, r, at, f)
          /\ \A f : (\A q \in DOMAIN schedule : timeout[schedule[q]].firing = f => p <= q) =>
               Ahead(timeout, r, NextOf(schedule, schedule[p]), f)
      <3>1. r = Without(schedule, schedule[p])
        BY <1>5
      <3> QED
        BY <2>1, <2>2, <3>1, WithoutKeeps
    <2>4. next \in Nat
      <3>1. Position(schedule, id) = p
        BY <1>5, <2>1, <2>2, PositionIs
      <3>2. p # Len(schedule) => p + 1 \in DOMAIN schedule
        BY <2>2
      <3> QED
        BY <1>3, <2>2, <3>1, <3>2 DEF NextOf, End
    <2> QED
      BY <1>5, <2>3, <2>4
  <1>10. \A i \in DOMAIN r : r[i] \in Id /\ r[i] # id /\ r[i] \in ToSet(schedule)
    <2>1. \A i \in DOMAIN r : r[i] \in ToSet(r)
      BY DEF ToSet
    <2> QED
      BY <1>9, <2>1
  <1>11. \A i \in DOMAIN r : ts[r[i]] = timeout[r[i]]
    BY <1>10
  <1>12. Sorted(ts, r, Limit) /\ MarkedFirst(ts, r)
    BY <1>9, <1>11 DEF Sorted, MarkedFirst
  <1>13. \A f, at : Ahead(timeout, r, at, f) => Ahead(ts, r, at, f)
    BY <1>11 DEF Ahead
  <1>14. Calls(ts, r, frames, d - 1)
    <2>1. \A f \in 1..(d - 1) : /\ frames[f].pc = "callback"
                                /\ Ahead(ts, r, frames[f].at, f)
                                /\ frames[f].at \in Id
                                /\ ts[frames[f].at].firing = f
      BY <1>8, <1>9, <1>13
    <2>2. \A e \in Id : ts[e].running <=> \E f \in 1..(d - 1) : frames[f].at = e
      BY <1>8
    <2> QED
      BY <2>1, <2>2 DEF Calls
  <1>15. Ahead(ts, r, next, d)
    BY <1>9, <1>13
  <1>16. Watched(ts, r, wake)
    <2>1. ASSUME NEW i \in DOMAIN r
          PROVE  IF ts[r[i]].firing = 0 THEN Covers(wake, ts[r[i]].when)
                                        ELSE Follows(wake, ts[r[i]].when)
      <3>1. PICK j \in DOMAIN schedule : r[i] = schedule[j]
        BY <1>10 DEF ToSet
      <3>2. IF timeout[schedule[j]].firing = 0 THEN Covers(wake, timeout[schedule[j]].when)
                                               ELSE Follows(wake, timeout[schedule[j]].when)
        BY DEF TimersInv, Watched
      <3>3. ts[r[i]] = timeout[schedule[j]]
        BY <1>11, <3>1
      <3> QED
        BY ONLY <3>2, <3>3
    <2> QED
      BY <2>1 DEF TimersInv, Watched
  <1>17. id \in ToSet(schedule)
    BY <1>5 DEF ToSet
  <1>18. \A e \in Id : ts[e].firing \in 0..d
    BY <1>2, <1>3
  <1> QED
    BY <1>1, <1>9, <1>10, <1>12, <1>14, <1>15, <1>16, <1>17, <1>18

\* It goes on, or stops, with the list that is left.
LEMMA ReturnedKeeps ==
    ASSUME TimersInv, TopIs("callback"),
           UNCHANGED <<now, delayed, isLoading, script, js, cleared, missed>>,
           NEW ts \in Seq(Timeout), DOMAIN ts = Id, \A e \in Id : ts[e].firing \in 0..Depth,
           NEW list \in Seq(Id), schedule' = list, Single(list), Apart(list, delayed),
           Sorted(ts, list, Limit), MarkedFirst(ts, list), MarkedAreDue(ts, Limit),
           Calls(ts, list, frames, Depth - 1),
           NEW next \in Nat, Ahead(ts, list, next, Depth),
           NEW x, Watched(ts, list, x), x.mode # "Shutdown",
           \A e \in cleared \ missed, i \in DOMAIN list : list[i] = e => ts[e].running /\ ~ts[e].repeated,
           GoOnOrStop(ts, x, next, now)
    PROVE  TimersInv'
  <1>1. /\ TypeOK /\ ListsInv /\ Gone(timeout, schedule, delayed, cleared \ missed)
        /\ frames \in Seq(Frame) /\ now \in Nat /\ delayed \in Seq(Id)
    BY DEF TimersInv, TypeOK
  <1>2. frames # <<>>
    BY CallbackIs
  <1>3. PICK us : us = timeout'
    OBVIOUS
  <1>4. PICK fs : fs = frames'
    OBVIOUS
  <1>5. PICK y : y = wake'
    OBVIOUS
  <1>6. /\ us \in Seq(Timeout) /\ DOMAIN us = Id
        /\ \A e \in Id : us[e].running = ts[e].running /\ us[e].repeated = ts[e].repeated
        /\ fs \in Seq(Frame)
        /\ \A e \in Id : us[e].firing \in 0..Len(fs)
        /\ Sorted(us, list, Limit) /\ MarkedFirst(us, list) /\ MarkedAreDue(us, Limit)
        /\ Stack(us, list, fs)
        /\ Watched(us, list, y) /\ y.mode # "Shutdown"
    BY <1>1, <1>2, <1>3, <1>4, <1>5, GoOnOrStopKeeps
  <1>7. Gone(us, list, delayed, cleared \ missed)
    <2>1. ASSUME NEW e \in cleared \ missed, NEW i \in DOMAIN list, list[i] = e
          PROVE  us[e].running /\ ~us[e].repeated
      <3>1. e \in Id /\ ts[e].running /\ ~ts[e].repeated
        BY <2>1
      <3> QED
        BY <1>6, <3>1
    <2> QED
      BY <1>1, <2>1 DEF Gone
  <1> QED
    BY <1>1, <1>2, <1>3, <1>4, <1>5, <1>6, <1>7, LoopStepKeeps DEF ListsInv

LEMMA CallbackReturnsKeeps == ASSUME TimersInv, CallbackReturns PROVE TimersInv'
  <1>1. PICK id : id = Top.at
    OBVIOUS
  <1>2. PICK t : t = timeout[id]
    OBVIOUS
  <1>3. PICK r : r = Without(schedule, id)
    OBVIOUS
  <1>4. PICK next : next = NextOf(schedule, id)
    OBVIOUS
  <1>5. /\ TypeOK /\ ListsInv /\ MarkedAreDue(timeout, Limit) /\ Watched(timeout, schedule, wake)
        /\ Gone(timeout, schedule, delayed, cleared \ missed) /\ now \in Nat
    BY DEF TimersInv, TypeOK
  <1>6. /\ TopIs("callback") /\ Top \in Frame /\ id \in Id /\ wake.mode # "Shutdown"
    BY <1>1, CallbackIs DEF CallbackReturns
  <1>7. /\ DOMAIN timeout = Id /\ t \in Timeout
        /\ \A e \in Id : timeout[e].when \in Nat
        /\ \A i \in DOMAIN schedule : schedule[i] \in Id
        /\ \A i \in DOMAIN delayed : delayed[i] \in Id
    BY <1>2, <1>5, <1>6, ListedIs
  <1>8. UNCHANGED <<now, delayed, isLoading, script, js, cleared, missed>>
    BY DEF CallbackReturns
  <1>9. \A e \in ToSet(schedule) : e \in Id /\ \A j \in DOMAIN delayed : e # delayed[j]
    BY <1>5, <1>7 DEF ListsInv, Apart, ToSet
  <1>12. timeout \in Seq(Timeout)
    BY <1>5 DEF TypeOK
  <1>10. CASE ~t.repeated
    <2>1. PICK u : u = [[t EXCEPT !.running = FALSE] EXCEPT !.firing = 0]
      OBVIOUS
    <2>2. u \in Timeout /\ ~u.running /\ u.firing = 0
      BY <1>7, <2>1 DEF Timeout
    <2>3. PICK ts : ts = [timeout EXCEPT ![id] = u]
      OBVIOUS
    <2>4. schedule' = r /\ GoOnOrStop(ts, wake, next, now)
      BY <1>1, <1>2, <1>3, <1>4, <1>10, <2>1, <2>3 DEF CallbackReturns
    <2>9. /\ ts \in Seq(Timeout) /\ DOMAIN ts = Id
          /\ ts[id] = u /\ \A e \in Id : e # id => ts[e] = timeout[e]
      BY <1>6, <1>7, <1>12, <2>2, <2>3, ExceptIs
    <2>10. ~ts[id].running /\ ts[id].firing = 0
      BY <2>2, <2>9
    <2>5. /\ \A e \in Id : ts[e].firing \in 0..Depth
          /\ r \in Seq(Id) /\ Single(r) /\ next \in Nat
          /\ \A i \in DOMAIN r : r[i] \in Id /\ r[i] # id /\ r[i] \in ToSet(schedule)
          /\ Sorted(ts, r, Limit) /\ MarkedFirst(ts, r)
          /\ Calls(ts, r, frames, Depth - 1)
          /\ Ahead(ts, r, next, Depth)
          /\ Watched(ts, r, wake)
      BY <1>1, <1>3, <1>4, <1>6, <2>9, <2>10, ReturnedIs
    <2>6. Apart(r, delayed)
      BY <1>9, <2>5 DEF Apart
    <2>7. MarkedAreDue(ts, Limit)
      BY <1>5, <1>7, <2>2, <2>9 DEF MarkedAreDue
    <2>8. ASSUME NEW e \in cleared \ missed, NEW i \in DOMAIN r, r[i] = e
          PROVE  ts[e].running /\ ~ts[e].repeated
      <3>1. e \in Id /\ e # id /\ e \in ToSet(schedule)
        BY <2>5, <2>8
      <3>2. timeout[e].running /\ ~timeout[e].repeated
        BY <1>5, <3>1 DEF Gone, ToSet
      <3> QED
        BY <2>9, <3>1, <3>2
    <2> QED
      BY <1>6, <1>8, <2>4, <2>5, <2>9, <2>6, <2>7, <2>8, ReturnedKeeps
  <1>11. CASE t.repeated
    <2>1. PICK w : w = NextWhen(t)
      OBVIOUS
    <2>2. w \in Nat /\ now <= w
      <3>1. Top.last \in Nat /\ t.interval \in Nat
        BY <1>6, <1>7 DEF Frame, Timeout
      <3> QED
        BY <1>5, <2>1, <3>1 DEF NextWhen
    <2>3. PICK u : u = [[t EXCEPT !.running = FALSE] EXCEPT !.when = w, !.firing = 0]
      OBVIOUS
    <2>4. u \in Timeout /\ ~u.running /\ u.firing = 0 /\ u.when = w
      BY <1>7, <2>2, <2>3 DEF Timeout
    <2>5. PICK ts : ts = [timeout EXCEPT ![id] = u]
      OBVIOUS
    <2>6. PICK q : q = Inserted(r, id, w)
      OBVIOUS
    <2>7. PICK x : x = MaybeScheduled(wake, w)
      OBVIOUS
    <2>8. schedule' = q /\ GoOnOrStop(ts, x, next, now)
      BY <1>1, <1>2, <1>3, <1>4, <1>11, <2>1, <2>3, <2>5, <2>6, <2>7 DEF CallbackReturns
    <2>20. /\ ts \in Seq(Timeout) /\ DOMAIN ts = Id
           /\ ts[id] = u /\ \A e \in Id : e # id => ts[e] = timeout[e]
      BY <1>6, <1>7, <1>12, <2>4, <2>5, ExceptIs
    <2>21. ~ts[id].running /\ ts[id].firing = 0
      BY <2>4, <2>20
    <2>9. /\ \A e \in Id : ts[e].firing \in 0..Depth
          /\ r \in Seq(Id) /\ Single(r) /\ next \in Nat
          /\ \A i \in DOMAIN r : r[i] \in Id /\ r[i] # id /\ r[i] \in ToSet(schedule)
          /\ Sorted(timeout, r, Limit) /\ MarkedFirst(timeout, r)
          /\ Calls(ts, r, frames, Depth - 1)
          /\ Ahead(ts, r, next, Depth)
          /\ Watched(ts, r, wake)
          /\ id \in ToSet(schedule)
      BY <1>1, <1>3, <1>4, <1>6, <2>20, <2>21, ReturnedIs
    <2>10. /\ q \in Seq(Id) /\ Single(q)
           /\ \A e : e \in ToSet(q) <=> e \in ToSet(r) \/ e = id
           /\ Sorted(ts, q, Limit) /\ MarkedFirst(ts, q)
           /\ \A f, at : f # 0 /\ Ahead(ts, r, at, f) => Ahead(ts, q, at, f)
      <3>1. \A e \in ToSet(r) : e \in Id /\ e # id
        BY <2>9 DEF ToSet
      <3>2. id \notin ToSet(r)
        BY <3>1
      <3>3. \A e \in ToSet(r) : /\ ts[e].when = timeout[e].when
                                /\ ts[e].firing = timeout[e].firing
                                /\ timeout[e].when \in Nat
                                /\ ~IsUnmarked(e) => NoLater(timeout[e].when, w, Limit)
        <4>1. \A e \in Id : ~IsUnmarked(e) => timeout[e].when <= Limit
          BY <1>5, <1>7 DEF MarkedAreDue, IsUnmarked
        <4>2. \A e \in Id : ~IsUnmarked(e) => NoLater(timeout[e].when, w, Limit)
          BY <1>5, <1>7, <2>2, <4>1, DueIsNoLater
        <4> QED
          BY <1>7, <2>20, <3>1, <4>2
      <3>4. ts[id].when = w /\ ts[id].firing = 0
        BY <2>4, <2>20
      <3> QED
        BY <1>6, <2>2, <2>6, <2>9, <3>2, <3>3, <3>4, InsertedKeeps
    <2>11. /\ Alive(x) /\ x.mode # "Shutdown"
           /\ \A v \in Nat : w <= v => Covers(x, v)
           /\ \A v \in Nat : Covers(wake, v) => Covers(x, v)
           /\ \A v \in Nat : v <= Limit /\ Follows(wake, v) => Follows(x, v)
      BY <1>5, <1>6, <2>2, <2>7, MaybeScheduledIs DEF Watched
    <2>12. \A e \in ToSet(r) : /\ e \in Id /\ e # id /\ e \in ToSet(schedule)
                               /\ ts[e] = timeout[e]
      BY <2>9, <2>20 DEF ToSet
    <2>13. \A i \in DOMAIN q : q[i] = id \/ q[i] \in ToSet(r)
      BY <2>10 DEF ToSet
    <2>14. Watched(ts, q, x)
      <3>1. ASSUME NEW i \in DOMAIN q
            PROVE  IF ts[q[i]].firing = 0 THEN Covers(x, ts[q[i]].when)
                                          ELSE Follows(x, ts[q[i]].when)
        <4>1. CASE q[i] = id
          BY <2>2, <2>4, <2>20, <2>11, <4>1
        <4>2. CASE q[i] \in ToSet(r)
          <5>1. ts[q[i]].when \in Nat
            BY <1>7, <2>12, <4>2
          <5>2. IF ts[q[i]].firing = 0 THEN Covers(wake, ts[q[i]].when)
                                       ELSE Follows(wake, ts[q[i]].when)
            <6>1. PICK j \in DOMAIN r : r[j] = q[i]
              BY <4>2 DEF ToSet
            <6> QED
              BY <2>9, <6>1 DEF Watched
          <5>3. CASE ts[q[i]].firing = 0
            BY <2>11, <5>1, <5>2, <5>3
          <5>4. CASE ts[q[i]].firing # 0
            <6>1. ts[q[i]].when <= Limit
              BY <1>5, <1>7, <2>12, <4>2, <5>4 DEF MarkedAreDue
            <6> QED
              BY <2>11, <5>1, <5>2, <5>4, <6>1
          <5> QED
            BY <5>3, <5>4
        <4> QED
          BY <2>13, <4>1, <4>2
      <3> QED
        BY <2>11, <3>1 DEF Watched
    <2>15. Apart(q, delayed)
      BY <1>9, <2>9, <2>12, <2>13 DEF Apart
    <2>16. MarkedAreDue(ts, Limit)
      BY <1>5, <1>7, <2>4, <2>20 DEF MarkedAreDue
    <2>17. Ahead(ts, q, next, Depth)
      <3>1. Depth # 0
        BY <1>6, CallbackIs
      <3> QED
        BY <2>9, <2>10, <3>1
    <2>18. Calls(ts, q, frames, Depth - 1)
      <3>1. \A f \in 1..(Depth - 1) : f # 0
        OBVIOUS
      <3> QED
        BY <2>9, <2>10, <3>1 DEF Calls
    <2>19. ASSUME NEW e \in cleared \ missed, NEW i \in DOMAIN q, q[i] = e
           PROVE  ts[e].running /\ ~ts[e].repeated
      <3>1. e # id
        <4>1. ASSUME e = id PROVE FALSE
          BY <1>2, <1>5, <1>11, <2>9, <4>1 DEF Gone, ToSet
        <4> QED
          BY <4>1
      <3>2. e \in ToSet(r)
        BY <2>13, <2>19, <3>1
      <3>3. timeout[e].running /\ ~timeout[e].repeated
        BY <1>5, <2>12, <3>2 DEF Gone, ToSet
      <3> QED
        BY <2>12, <3>2, <3>3
    <2> QED
      BY <1>6, <1>8, <2>8, <2>9, <2>20, <2>10, <2>11, <2>14, <2>15, <2>16, <2>17, <2>18, <2>19, ReturnedKeeps
  <1> QED
    BY <1>10, <1>11

LEMMA CallbackFailsKeeps == ASSUME TimersInv, CallbackFails PROVE TimersInv'
  <1>1. PICK id : id = Top.at
    OBVIOUS
  <1>2. PICK ts : ts = [timeout EXCEPT ![id].running = FALSE]
    OBVIOUS
  <1>3. /\ TopIs("callback") /\ Depth = 1
        /\ wake' = Cancelled(wake) /\ schedule' = <<>> /\ js' = "none"
        /\ timeout' = Unmarked(ts) /\ frames' = SubSeq(frames, 1, Depth - 1)
        /\ UNCHANGED <<now, delayed, isLoading, script, cleared, missed>>
    BY <1>1, <1>2 DEF CallbackFails, StopAllTimeouts, RunTimeoutReturns
  <1>4. /\ TypeOK /\ ListsInv /\ MarkedAreDue(timeout, Limit) /\ wake \in Wake
        /\ Gone(timeout, schedule, delayed, cleared \ missed) /\ frames \in Seq(Frame)
        /\ timeout \in Seq(Timeout) /\ \A e \in Id : timeout[e].firing \in 0..Depth
    BY DEF TimersInv, TypeOK
  <1>5. /\ frames # <<>> /\ id \in Id /\ Calls(timeout, schedule, frames, 1)
    BY <1>1, <1>3, CallbackIs
  <1>6. PICK t : t = [timeout[id] EXCEPT !.running = FALSE]
    OBVIOUS
  <1>7. DOMAIN timeout = Id /\ \A e \in Id : timeout[e] \in Timeout
    BY <1>4, ListedIs
  <1>8. /\ t \in Timeout /\ ~t.running /\ t.when = timeout[id].when
        /\ t.firing = timeout[id].firing
    BY <1>5, <1>6, <1>7 DEF Timeout
  <1>9. /\ ts \in Seq(Timeout) /\ DOMAIN ts = Id
        /\ ts[id] = t /\ \A e \in Id : e # id => ts[e] = timeout[e]
    <2>1. ts = [timeout EXCEPT ![id] = t]
      BY <1>2, <1>5, <1>6, <1>7
    <2> QED
      BY <1>4, <1>5, <1>7, <1>8, <2>1, ExceptIs
  <1>10. \A e \in Id : ~ts[e].running
    <2>1. frames[1].at = id
      BY <1>1, <1>3 DEF Top
    <2>2. \A e \in Id : timeout[e].running <=> \E f \in 1..1 : frames[f].at = e
      BY <1>5, <1>7 DEF Calls
    <2> QED
      BY <1>8, <1>9, <2>1, <2>2
  <1>11. \A e \in Id : ts[e].firing \in 0..Depth /\ ts[e].when = timeout[e].when
                       /\ ts[e].firing = timeout[e].firing
    BY <1>4, <1>8, <1>9
  <1>12. PICK us : us = timeout'
    OBVIOUS
  <1>13. /\ us \in Seq(Timeout) /\ DOMAIN us = Id
         /\ \A e \in Id : /\ us[e].firing = 0 /\ us[e].running = ts[e].running
    <2>1. us = Unmarked(ts) /\ \A e \in DOMAIN ts : ts[e].firing \in 0..Depth
      BY <1>3, <1>9, <1>11, <1>12
    <2>2. /\ us \in Seq(Timeout) /\ DOMAIN us = DOMAIN ts
          /\ \A e \in DOMAIN ts : /\ us[e].firing \in 0..(Depth - 1)
                                  /\ us[e].running = ts[e].running
      BY <1>4, <1>5, <1>9, <2>1, UnmarkedIs
    <2>3. Depth - 1 = 0
      BY <1>3
    <2> QED
      BY <1>9, <2>2, <2>3
  <1>14. frames' = <<>>
    BY <1>3, <1>4
  <1>15. Stack(us, <<>>, <<>>)
    <2>1. Calls(us, <<>>, <<>>, 0)
      BY <1>10, <1>13 DEF Calls
    <2> QED
      BY <2>1 DEF Stack
  <1>16. Alive(wake') /\ wake'.mode = "None" /\ wake' \in Wake
    BY <1>3, <1>4, CancelledIs DEF Alive
  <1>17. TypeOK'
    <2>1. Id' = Id /\ Depth' = 0 /\ <<>> \in Seq(Id) /\ <<>> \in Seq(Frame)
      BY <1>12, <1>13, <1>14 DEF Id, Depth
    <2>2. \A e \in Id : us[e].firing \in 0..0
      BY <1>13
    <2> QED
      BY <1>3, <1>4, <1>12, <1>13, <1>14, <1>16, <2>1, <2>2 DEF TypeOK
  <1>18. Phase'
    BY <1>3, <1>14, <1>16 DEF Phase
  <1>19. ListsInv' /\ OrderInv'
    <2>1. ListsInv'
      BY <1>3, <1>4, <1>16, EmptyIs DEF ListsInv
    <2>2. OrderInv'
      BY <1>3 DEF OrderInv, Sorted, MarkedFirst
    <2> QED
      BY <2>1, <2>2
  <1>20. MarkedAreDue(us, Limit) /\ Limit' = Limit
    BY <1>3, <1>13 DEF MarkedAreDue, Limit
  <1>21. Watched(us, <<>>, wake')
    BY <1>16, EmptyIs
  <1>22. Gone(us, <<>>, delayed, cleared \ missed)
    BY <1>4 DEF Gone
  <1> QED
    BY <1>3, <1>12, <1>14, <1>15, <1>17, <1>18, <1>19, <1>20, <1>21, <1>22 DEF TimersInv

------------------------------------------------------------------------------
(* The theorems *)

LEMMA InitHolds == Init => TimersInv
  <1>1. SUFFICES ASSUME Init PROVE TimersInv
    OBVIOUS
  <1>2. /\ timeout = <<>> /\ schedule = <<>> /\ delayed = <<>> /\ frames = <<>>
        /\ now = 0 /\ isLoading = TRUE /\ script = 0 /\ js = "none"
        /\ cleared = {} /\ missed = {}
    BY <1>1 DEF Init
  <1>3. wake \in Wake /\ wake.mode = "None"
    <2>1. <<>> \in Seq(Event)
      OBVIOUS
    <2> QED
      BY <1>1, <2>1 DEF Init, Wake
  <1>4. Alive(wake)
    BY <1>3 DEF Alive
  <1>5. TypeOK
    <2>1. Id = {} /\ <<>> \in Seq(Id) /\ <<>> \in Seq(Timeout) /\ <<>> \in Seq(Frame)
      BY <1>2 DEF Id
    <2> QED
      BY <1>2, <1>3, <2>1 DEF TypeOK
  <1>6. Phase
    BY <1>2, <1>3 DEF Phase
  <1>7. ListsInv /\ OrderInv
    BY <1>2, <1>4, EmptyIs DEF ListsInv, OrderInv
  <1>8. MarkedAreDue(timeout, Limit) /\ Gone(timeout, schedule, delayed, cleared \ missed)
    BY <1>2 DEF MarkedAreDue, Gone
  <1>9. Stack(timeout, schedule, frames)
    <2>1. Calls(<<>>, <<>>, <<>>, 0)
      BY DEF Calls
    <2> QED
      BY <1>2, <2>1 DEF Stack
  <1>10. Watched(timeout, schedule, wake)
    BY <1>2, <1>4, EmptyIs
  <1> QED
    BY <1>5, <1>6, <1>7, <1>8, <1>9, <1>10 DEF TimersInv

LEMMA StepKeeps == TimersInv /\ [Next]_vars => TimersInv'
  <1> SUFFICES ASSUME TimersInv, [Next]_vars PROVE TimersInv'
    OBVIOUS
  <1>1. CASE Receive
    BY <1>1, ReceiveKeeps
  <1>2. CASE LoopEnds
    BY <1>2, LoopEndsKeeps
  <1>3. CASE DeferTimeout
    BY <1>3, DeferTimeoutKeeps
  <1>4. CASE CallTimeout
    BY <1>4, CallTimeoutKeeps
  <1>5. CASE CallbackReturns
    BY <1>5, CallbackReturnsKeeps
  <1>6. CASE TimerProcStarts
    BY <1>6, TimerProcStartsKeeps
  <1>7. CASE TimerProcPosts
    BY <1>7, TimerProcPostsKeeps
  <1>8. ASSUME NEW d \in Delay, NEW r \in BOOLEAN, CreateTimeout(d, r) PROVE TimersInv'
    BY <1>8, CreateTimeoutKeeps
  <1>9. ASSUME NEW id \in Id, ClearTimeout(id) PROVE TimersInv'
    BY <1>9, ClearTimeoutKeeps
  <1>10. CASE CallbackFails
    BY <1>10, CallbackFailsKeeps
  <1>11. CASE BeginLoad
    BY <1>11, BeginLoadKeeps
  <1>12. CASE EndLoad
    BY <1>12, EndLoadKeeps
  <1>13. CASE UnloadScript
    BY <1>13, UnloadScriptKeeps
  <1>14. CASE OnDestroy
    BY <1>14, OnDestroyKeeps
  <1>15. CASE Tick
    BY <1>15, TickKeeps
  <1>16. CASE UNCHANGED vars
    BY <1>16, StutterKeeps
  <1> QED
    BY <1>1, <1>2, <1>3, <1>4, <1>5, <1>6, <1>7, <1>8, <1>9, <1>10, <1>11, <1>12, <1>13, <1>14,
       <1>15, <1>16 DEF Next, MainStep, TimerThread, ScriptStep, Loading

\* The invariant that the others follow from: the shape of the list, of the stack and
\* of the executor, through every interleaving of the main thread, the timer thread,
\* nested RunTimeout calls, loads and unloads (timeout_manager.cpp,
\* timeout_executor.cpp, timer_native.cpp).
THEOREM TimersInvariant == Spec => []TimersInv
  <1>1. Init => TimersInv
    BY InitHolds
  <1>2. TimersInv /\ [Next]_vars => TimersInv'
    BY StepKeeps
  <1> QED
    BY <1>1, <1>2, PTL DEF Spec

\* The manager, the executor and the OS timer keep their types, and a mark is the
\* firing id of a RunTimeout on the stack.
THEOREM TypeCorrect == Spec => []TypeOK
  <1>1. TimersInv => TypeOK
    BY DEF TimersInv
  <1> QED
    BY <1>1, TimersInvariant, PTL

\* No timeout is forgotten: what nobody on the stack is about to call, the executor is
\* scheduled for in time, and what wakes the executor is on its way.
THEOREM NoTimeoutIsForgotten == Spec => []ExecutorIsScheduled
  <1>1. TimersInv => ExecutorIsScheduled
    <2>1. SUFFICES ASSUME TimersInv, NEW id \in ToSet(schedule), IsUnmarked(id)
                   PROVE  \/ wake.mode = "Immediate" /\ RunIsQueued
                          \/ /\ wake.mode = "Delayed" /\ wake.deadline <= timeout[id].when
                             /\ wake.hasTask /\ TimerIsArmed
      BY DEF ExecutorIsScheduled
    <2>2. PICK i \in DOMAIN schedule : schedule[i] = id
      BY DEF ToSet
    <2>3. Alive(wake) /\ Covers(wake, timeout[id].when)
      BY <2>1, <2>2 DEF TimersInv, Watched, IsUnmarked
    <2>4. (Queued(wake) => RunIsQueued) /\ (Armed(wake) => TimerIsArmed)
      BY DEF Queued, RunIsQueued, Armed, TimerIsArmed
    <2> QED
      BY <2>3, <2>4 DEF Alive, Covers
  <1> QED
    BY <1>1, TimersInvariant, PTL

\* However deep RunTimeout is entered again from callbacks, a timeout is not called
\* while its own callback is on the stack, and it is marked as running exactly while
\* it is: ClearTimeout relies on that when it leaves a running timeout in the list.
THEOREM CallbacksAreNotReentered == Spec => []NoReentrantCallback
  <1>1. TimersInv => NoReentrantCallback
    <2>1. SUFFICES ASSUME TimersInv PROVE NoReentrantCallback
      OBVIOUS
    <2>2. PICK d : d = Depth
      OBVIOUS
    <2>3. d \in Nat /\ d = Len(frames) /\ DOMAIN frames = 1..d
      BY <2>1, <2>2 DEF TimersInv, TypeOK, Depth
    <2>4. \A f \in 1..d : frames[f].pc = "callback" => timeout[frames[f].at].firing = f
      <3>1. CASE Calls(timeout, schedule, frames, d)
        BY <3>1 DEF Calls
      <3>2. CASE frames[d].pc = "loop" /\ Calls(timeout, schedule, frames, d - 1)
        <4>1. \A f \in 1..d : f = d \/ f \in 1..(d - 1)
          BY <2>3
        <4> QED
          BY <3>2, <4>1 DEF Calls
      <3> QED
        BY <2>1, <2>3, <3>1, <3>2 DEF TimersInv, Stack
    <2>5. \A i, j \in DOMAIN frames :
            i < j /\ frames[i].pc = "callback" /\ frames[j].pc = "callback" =>
              frames[i].at # frames[j].at
      BY <2>3, <2>4
    <2>6. \A id \in Id : timeout[id].running <=>
            \E i \in DOMAIN frames : frames[i].pc = "callback" /\ frames[i].at = id
      <3>1. \A id \in Id : timeout[id].running <=>
              \E f \in 1..d : frames[f].pc = "callback" /\ frames[f].at = id
        BY <2>1, <2>2, RunningIs DEF TimersInv
      <3> QED
        BY <2>3, <3>1
    <2> QED
      BY <2>5, <2>6 DEF NoReentrantCallback
  <1> QED
    BY <1>1, TimersInvariant, PTL

\* A callback starts in CallTimeout and nowhere else.
LEMMA CalledIs ==
    ASSUME TimersInv, [Next]_vars, NEW id \in Called
    PROVE  TopIs("loop") /\ NextToRun # End /\ id = NextToRun
  <1>1. PICK i \in DOMAIN frames :
          /\ i \in DOMAIN frames'
          /\ frames[i].pc = "loop" /\ frames'[i].pc = "callback" /\ id = frames'[i].at
    BY DEF Called
  <1>2. PICK d : d = Depth
    OBVIOUS
  <1>3. frames \in Seq(Frame) /\ DOMAIN frames = 1..Len(frames) /\ d = Len(frames) /\ d \in Nat
    BY <1>2 DEF TimersInv, TypeOK, Depth
  <1>4. frames' # frames
    BY <1>1
  <1>5. frames' # SubSeq(frames, 1, Depth - 1)
    <2>1. ASSUME frames' = SubSeq(frames, 1, Depth - 1) PROVE FALSE
      <3>1. PICK fs : fs = SubSeq(frames, 1, d - 1)
        OBVIOUS
      <3>2. frames # <<>>
        BY <1>1
      <3>3. DOMAIN fs = 1..(d - 1) /\ \A f \in 1..(d - 1) : fs[f] = frames[f]
        BY <1>3, <3>1, <3>2
      <3>4. fs = frames'
        BY <1>2, <2>1, <3>1
      <3> QED
        BY <1>1, <3>3, <3>4
    <2> QED
      BY <2>1
  <1>6. ASSUME NEW fr, frames' = [frames EXCEPT ![Depth] = fr], fr.pc = "loop" PROVE FALSE
    <2>1. frames' = [frames EXCEPT ![d] = fr]
      BY <1>2, <1>6
    <2>2. i = d \/ frames'[i] = frames[i]
      BY <1>1, <2>1
    <2>3. frames'[d] = fr
      BY <1>1, <1>3, <2>1
    <2> QED
      BY <1>1, <1>6, <2>2, <2>3
  <1>7. ASSUME NEW ts, NEW x, NEW next, NEW last, GoOnOrStop(ts, x, next, last) PROVE FALSE
    <2>1. PICK fr : fr = [pc |-> "loop", at |-> next, last |-> last]
      OBVIOUS
    <2>2. fr.pc = "loop"
      BY <2>1
    <2>3. frames' = [frames EXCEPT ![Depth] = fr] \/ frames' = SubSeq(frames, 1, Depth - 1)
      BY <1>7, <2>1 DEF GoOnOrStop, RunTimeoutReturns
    <2> QED
      BY <1>5, <1>6, <2>2, <2>3
  <1>8. CASE Receive
    <2>1. PICK fr : fr = [pc |-> "loop", at |-> schedule[1], last |-> now]
      OBVIOUS
    <2>2. frames' = frames \/ frames' = Append(frames, fr)
      BY <1>8, <2>1 DEF Receive, MaybeExecute, RunTimeout
    <2>3. \A j \in 1..Len(frames) : Append(frames, fr)[j] = frames[j]
      BY <1>3
    <2> QED
      BY <1>1, <1>3, <2>2, <2>3
  <1>9. CASE LoopEnds \/ CallbackFails
    BY <1>5, <1>9 DEF LoopEnds, CallbackFails, RunTimeoutReturns
  <1>10. CASE DeferTimeout \/ CallbackReturns
    BY <1>7, <1>10 DEF DeferTimeout, CallbackReturns
  <1>11. CASE CallTimeout
    <2>1. TopIs("loop") /\ NextToRun # End
      BY <1>11 DEF CallTimeout
    <2>2. PICK fr : fr = [frames[d] EXCEPT !.pc = "callback", !.at = NextToRun]
      OBVIOUS
    <2>3. d \in DOMAIN frames
      BY <1>1, <1>3
    <2>4. frames[d] \in Frame
      BY <1>3, <2>3
    <2>5. fr.at = NextToRun
      BY <2>2, <2>4 DEF Frame
    <2>6. frames' = [frames EXCEPT ![d] = fr]
      BY <1>2, <1>11, <2>2, <2>3 DEF CallTimeout
    <2>7. i = d
      BY <1>1, <2>6
    <2> QED
      BY <1>1, <2>1, <2>3, <2>5, <2>6, <2>7
  <1>12. CASE \/ TimerProcStarts \/ TimerProcPosts \/ Tick
              \/ BeginLoad \/ EndLoad \/ UnloadScript \/ OnDestroy
              \/ (\E e \in Delay, r \in BOOLEAN : CreateTimeout(e, r))
              \/ (\E e \in Id : ClearTimeout(e))
              \/ UNCHANGED vars
    BY <1>4, <1>12 DEF TimerProcStarts, TimerProcPosts, Tick, BeginLoad, EndLoad, UnloadScript,
       OnDestroy, CreateTimeout, ClearTimeout, vars
  <1> QED
    BY <1>8, <1>9, <1>10, <1>11, <1>12 DEF Next, MainStep, TimerThread, ScriptStep, Loading

\* What is called next is due, up to AllowedEarly, and stands before all that is not
\* marked.
LEMMA NextIsFirst ==
    ASSUME TimersInv, TopIs("loop"), NEW p \in DOMAIN schedule,
           timeout[schedule[p]].firing = Depth
    PROVE  /\ timeout[schedule[p]].when <= Limit
           /\ \A q \in DOMAIN schedule : timeout[schedule[q]].firing = 0 =>
                timeout[schedule[p]].when <= timeout[schedule[q]].when + AllowedEarly
  <1>1. Depth \in Nat \ {0}
    BY LoopIs
  <1>2. /\ MarkedAreDue(timeout, Limit) /\ Sorted(timeout, schedule, Limit) /\ MarkedFirst(timeout, schedule)
        /\ schedule[p] \in DOMAIN timeout /\ DOMAIN schedule \subseteq Nat
    BY ListedIs DEF TimersInv, OrderInv, Id
  <1>3. timeout[schedule[p]].when <= Limit
    BY <1>1, <1>2 DEF MarkedAreDue
  <1>4. ASSUME NEW q \in DOMAIN schedule, timeout[schedule[q]].firing = 0
        PROVE  timeout[schedule[p]].when <= timeout[schedule[q]].when + AllowedEarly
    <2>1. p # q
      BY <1>1, <1>4
    <2>2. ~(q < p)
      <3>1. ASSUME q < p PROVE FALSE
        <4>1. timeout[schedule[q]].firing \in 1..timeout[schedule[p]].firing
          BY <1>1, <1>2, <3>1 DEF MarkedFirst
        <4> QED
          BY <1>1, <1>4, <4>1
      <3> QED
        BY <3>1
    <2>3. p < q
      BY <1>2, <2>1, <2>2
    <2> QED
      BY <1>2, <2>3 DEF Sorted, NoLater
  <1> QED
    BY <1>3, <1>4

LEMMA CalledIsFirst ==
    ASSUME TimersInv, [Next]_vars, NEW id \in Called
    PROVE  /\ timeout[id].when <= Limit
           /\ \A other \in ToSet(schedule) :
                IsUnmarked(other) => timeout[id].when <= timeout[other].when + AllowedEarly
           /\ id \notin cleared \ missed
  <1>1. TopIs("loop") /\ NextToRun # End /\ id = NextToRun
    BY CalledIs
  <1>2. PICK p \in DOMAIN schedule : schedule[p] = id /\ timeout[id].firing = Depth
    BY <1>1, NextToRunIs
  <1>3. /\ timeout[id].when <= Limit
        /\ \A q \in DOMAIN schedule : timeout[schedule[q]].firing = 0 =>
             timeout[id].when <= timeout[schedule[q]].when + AllowedEarly
    BY <1>1, <1>2, NextIsFirst
  <1>4. id \notin cleared \ missed
    BY <1>1, <1>2, NextIsNotGone
  <1> QED
    BY <1>3, <1>4 DEF ToSet, IsUnmarked

\* TimerProc may start up to a millisecond early and an event of a cancelled timer may be
\* taken for a current one, but MaybeExecute caps the deadline: no callback is called
\* more than GetAllowedEarlyFiringTime before its time.
THEOREM CallbacksAreHardlyEarly == Spec => HardlyEarly
  <1>1. TimersInv /\ [Next]_vars => [\A id \in Called : timeout[id].when <= Limit]_vars
    BY CalledIsFirst
  <1> QED
    BY <1>1, TimersInvariant, PTL DEF Spec, HardlyEarly

\* Callbacks are called in the order of their deadlines, up to the time by which they may
\* be early, although intervals are inserted again and RunTimeout calls are nested.
THEOREM CallbacksAreInOrder == Spec => InDeadlineOrder
  <1>1. TimersInv /\ [Next]_vars =>
          [\A id \in Called : \A other \in ToSet(schedule) :
             IsUnmarked(other) => timeout[id].when <= timeout[other].when + AllowedEarly]_vars
    BY CalledIsFirst
  <1> QED
    BY <1>1, TimersInvariant, PTL DEF Spec, InDeadlineOrder

\* A timeout that ClearTimeout found in the list is not called any more, also when it
\* was running or marked then.
THEOREM ClearedIsNeverCalled == Spec => ClearedIsNotCalled
  <1>1. TimersInv /\ [Next]_vars => [\A id \in Called : id \notin cleared \ missed]_vars
    BY CalledIsFirst
  <1> QED
    BY <1>1, TimersInvariant, PTL DEF Spec, ClearedIsNotCalled

------------------------------------------------------------------------------
(* The alarms that scripts see *)

\* The alarm of a timeout, by the state of the manager.
StageAt(ts, list, other, id) ==
    IF ts[id].running THEN "rings"
    ELSE IF \E i \in DOMAIN other : other[i] = id THEN "aside"
    ELSE IF ~\E i \in DOMAIN list : list[i] = id THEN "over"
    ELSE IF ts[id].firing = 0 THEN "waits" ELSE "claimed"

AlarmAt(ts, list, other, id) ==
    [stage |-> StageAt(ts, list, other, id), due |-> ts[id].when,
     every |-> ts[id].interval, again |-> ts[id].repeated]

LEMMA ShownIs ==
    ASSUME TimersInv
    PROVE  /\ DOMAIN Shown = Id
           /\ \A a \in Id : Shown[a] = AlarmAt(timeout, schedule, delayed, a)
           /\ \A a \in Id : /\ Shown[a].stage = StageAt(timeout, schedule, delayed, a)
                            /\ Shown[a].due = timeout[a].when /\ Shown[a].every = timeout[a].interval
                            /\ Shown[a].again = timeout[a].repeated
  <1>1. /\ DOMAIN schedule = 1..Len(schedule) /\ DOMAIN delayed = 1..Len(delayed)
    BY DEF TimersInv, TypeOK
  <1>2. \A a : /\ Contains(schedule, a) <=> \E i \in DOMAIN schedule : schedule[i] = a
               /\ Contains(delayed, a) <=> \E i \in DOMAIN delayed : delayed[i] = a
    BY <1>1 DEF Contains
  <1>3. \A a \in Id : StageOf(a) = StageAt(timeout, schedule, delayed, a)
    BY <1>2 DEF StageOf, StageAt, IsUnmarked
  <1>4. \A a \in Id : Shown[a] = AlarmAt(timeout, schedule, delayed, a)
    BY <1>3 DEF Shown, AlarmAt
  <1> QED
    BY <1>3, <1>4 DEF Shown

LEMMA ShownNextIs ==
    ASSUME TimersInv'
    PROVE  /\ DOMAIN Shown' = Id'
           /\ \A a \in Id' : Shown'[a] = AlarmAt(timeout', schedule', delayed', a)
  <1>1. /\ DOMAIN schedule' = 1..Len(schedule') /\ DOMAIN delayed' = 1..Len(delayed')
    BY DEF TimersInv, TypeOK
  <1>2. \A a : /\ Contains(schedule, a)' <=> \E i \in DOMAIN schedule' : schedule'[i] = a
               /\ Contains(delayed, a)' <=> \E i \in DOMAIN delayed' : delayed'[i] = a
    BY <1>1 DEF Contains
  <1>3. \A a : StageOf(a)' = StageAt(timeout', schedule', delayed', a)
    BY <1>2 DEF StageOf, StageAt, IsUnmarked
  <1> QED
    BY <1>3 DEF Shown, AlarmAt

\* The alarms at some stages.
LEMMA InIs ==
    ASSUME TimersInv, NEW stages
    PROVE  AlarmClock!In(stages) =
             {a \in Id : StageAt(timeout, schedule, delayed, a) \in stages}
  BY ShownIs DEF AlarmClock!In

\* A step that leaves all timeouts but "except" as they are, up to their stages.
SameTimes(except) ==
    /\ Id' = Id /\ now' = now
    /\ \A a \in Id \ except : /\ timeout'[a].when = timeout[a].when
                              /\ timeout'[a].interval = timeout[a].interval
                              /\ timeout'[a].repeated = timeout[a].repeated

StageAfter(a) == StageAt(timeout', schedule', delayed', a)
StageNow(a) == StageAt(timeout, schedule, delayed, a)

Moved(as, stage) ==
    SameTimes({}) /\ \A a \in Id : StageAfter(a) = IF a \in as THEN stage ELSE StageNow(a)

LEMMA MoveIs ==
    ASSUME TimersInv, TimersInv', NEW as, NEW stage, Moved(as, stage)
    PROVE  AlarmClock!Move(as, stage)
  <1>1. PICK A : A = Shown
    OBVIOUS
  <1>2. PICK B : B = Shown'
    OBVIOUS
  <1>3. /\ DOMAIN A = Id /\ \A a \in Id : A[a] = AlarmAt(timeout, schedule, delayed, a)
    BY <1>1, ShownIs
  <1>4. /\ DOMAIN B = Id /\ \A a \in Id : B[a] = AlarmAt(timeout', schedule', delayed', a)
    BY <1>2, ShownNextIs DEF Moved, SameTimes
  <1>5. \A a \in Id : B[a] = IF a \in as THEN [A[a] EXCEPT !.stage = stage] ELSE A[a]
    <2>1. SUFFICES ASSUME NEW a \in Id
                   PROVE  B[a] = IF a \in as THEN [A[a] EXCEPT !.stage = stage] ELSE A[a]
      OBVIOUS
    <2>2. /\ A[a] = AlarmAt(timeout, schedule, delayed, a)
          /\ B[a] = AlarmAt(timeout', schedule', delayed', a)
      BY <1>3, <1>4
    <2>3. /\ timeout'[a].when = timeout[a].when
          /\ timeout'[a].interval = timeout[a].interval
          /\ timeout'[a].repeated = timeout[a].repeated
      BY DEF Moved, SameTimes
    <2>4. B[a] = [A[a] EXCEPT !.stage = StageAfter(a)]
      BY <2>2, <2>3 DEF AlarmAt, StageAfter
    <2>5. A[a] = [A[a] EXCEPT !.stage = StageNow(a)]
      BY <2>2 DEF AlarmAt, StageNow
    <2>6. StageAfter(a) = IF a \in as THEN stage ELSE StageNow(a)
      BY DEF Moved
    <2> QED
      BY <2>4, <2>5, <2>6
  <1>6. B = [a \in DOMAIN A |-> IF a \in as THEN [A[a] EXCEPT !.stage = stage] ELSE A[a]]
    <2>1. B = [a \in Id |-> B[a]]
      BY <1>2, <1>4 DEF Shown, Moved, SameTimes
    <2> QED
      BY <1>3, <1>5, <2>1
  <1> QED
    BY <1>1, <1>2, <1>6 DEF Moved, SameTimes, AlarmClock!Move

Left(a, as) ==
    /\ SameTimes({a})
    /\ \A b \in Id \ {a} : StageAfter(b) = IF b \in as THEN "waits" ELSE StageNow(b)

LEMMA LeaveIs ==
    ASSUME TimersInv, TimersInv', NEW a \in Id, NEW new, NEW as, Left(a, as),
           AlarmAt(timeout', schedule', delayed', a) = new
    PROVE  AlarmClock!Leave(a, new, as)
  <1>1. PICK A : A = Shown
    OBVIOUS
  <1>2. PICK B : B = Shown'
    OBVIOUS
  <1>3. /\ DOMAIN A = Id /\ \A b \in Id : A[b] = AlarmAt(timeout, schedule, delayed, b)
    BY <1>1, ShownIs
  <1>4. /\ DOMAIN B = Id /\ \A b \in Id : B[b] = AlarmAt(timeout', schedule', delayed', b)
    BY <1>2, ShownNextIs DEF Left, SameTimes
  <1>5. B[a] = new
    BY <1>4
  <1>6. \A b \in Id \ {a} : B[b] = IF b \in as THEN [A[b] EXCEPT !.stage = "waits"] ELSE A[b]
    <2>1. SUFFICES ASSUME NEW b \in Id \ {a}
                   PROVE  B[b] = IF b \in as THEN [A[b] EXCEPT !.stage = "waits"] ELSE A[b]
      OBVIOUS
    <2>2. /\ A[b] = AlarmAt(timeout, schedule, delayed, b)
          /\ B[b] = AlarmAt(timeout', schedule', delayed', b)
      BY <1>3, <1>4
    <2>3. /\ timeout'[b].when = timeout[b].when
          /\ timeout'[b].interval = timeout[b].interval
          /\ timeout'[b].repeated = timeout[b].repeated
      BY DEF Left, SameTimes
    <2>4. B[b] = [A[b] EXCEPT !.stage = StageAfter(b)]
      BY <2>2, <2>3 DEF AlarmAt, StageAfter
    <2>5. A[b] = [A[b] EXCEPT !.stage = StageNow(b)]
      BY <2>2 DEF AlarmAt, StageNow
    <2>6. StageAfter(b) = IF b \in as THEN "waits" ELSE StageNow(b)
      BY DEF Left
    <2> QED
      BY <2>4, <2>5, <2>6
  <1>7. B = [b \in DOMAIN A |-> IF b = a THEN new
                                ELSE IF b \in as THEN [A[b] EXCEPT !.stage = "waits"] ELSE A[b]]
    <2>1. B = [b \in Id |-> B[b]]
      BY <1>2, <1>4 DEF Shown, Left, SameTimes
    <2> QED
      BY <1>3, <1>5, <1>6, <2>1
  <1> QED
    BY <1>1, <1>2, <1>7 DEF Left, SameTimes, AlarmClock!Leave

LEMMA NothingIs ==
    ASSUME TimersInv, TimersInv', SameTimes({}), \A a \in Id : StageAfter(a) = StageNow(a)
    PROVE  UNCHANGED AlarmClock!alarmVars
  <1>1. PICK A : A = Shown
    OBVIOUS
  <1>2. PICK B : B = Shown'
    OBVIOUS
  <1>3. /\ DOMAIN A = Id /\ \A a \in Id : A[a] = AlarmAt(timeout, schedule, delayed, a)
    BY <1>1, ShownIs
  <1>4. /\ DOMAIN B = Id /\ \A a \in Id : B[a] = AlarmAt(timeout', schedule', delayed', a)
    BY <1>2, ShownNextIs DEF SameTimes
  <1>5. \A a \in Id : B[a] = A[a]
    BY <1>3, <1>4 DEF SameTimes, AlarmAt, StageAfter, StageNow
  <1>6. A = [a \in Id |-> A[a]] /\ B = [a \in Id |-> B[a]]
    BY <1>1, <1>2, <1>3, <1>4 DEF Shown, SameTimes
  <1> QED
    BY <1>1, <1>2, <1>5, <1>6 DEF SameTimes, AlarmClock!alarmVars

\* Nothing happens to the timeouts, up to the executor.
LEMMA SameLists ==
    ASSUME TimersInv, TimersInv', UNCHANGED <<now, timeout, schedule, delayed>>
    PROVE  UNCHANGED AlarmClock!alarmVars
  <1>1. SameTimes({}) /\ \A a \in Id : StageAfter(a) = StageNow(a)
    BY DEF SameTimes, Id, StageAfter, StageNow
  <1> QED
    BY <1>1, NothingIs

LEMMA TickIsPass == ASSUME TimersInv, TimersInv', Tick PROVE AlarmClock!Pass
  <1>1. now' = now + 1 /\ UNCHANGED <<timeout, schedule, delayed>>
    BY DEF Tick
  <1>2. PICK A : A = Shown
    OBVIOUS
  <1>3. PICK B : B = Shown'
    OBVIOUS
  <1>4. Id' = Id
    BY <1>1 DEF Id
  <1>5. /\ DOMAIN A = Id /\ \A a \in Id : A[a] = AlarmAt(timeout, schedule, delayed, a)
    BY <1>2, ShownIs
  <1>6. /\ DOMAIN B = Id /\ \A a \in Id : B[a] = AlarmAt(timeout, schedule, delayed, a)
    BY <1>1, <1>3, <1>4, ShownNextIs
  <1>7. A = [a \in Id |-> A[a]] /\ B = [a \in Id |-> B[a]]
    BY <1>2, <1>3, <1>4, <1>5, <1>6 DEF Shown
  <1> QED
    BY <1>1, <1>2, <1>3, <1>5, <1>6, <1>7 DEF AlarmClock!Pass

\* With no RunTimeout on the stack, the lists alone tell the stages.
LEMMA IdleStages ==
    ASSUME TimersInv, frames = <<>>, NEW list, NEW other, NEW a \in Id
    PROVE  StageAt(timeout, list, other, a) =
             IF \E i \in DOMAIN other : other[i] = a THEN "aside"
             ELSE IF \E i \in DOMAIN list : list[i] = a THEN "waits" ELSE "over"
  BY IdleIs DEF StageAt

\* The script is unloaded: what is in the list is over, what is put aside stays or is
\* over too.
LEMMA EmptiedIsDrop ==
    ASSUME TimersInv, TimersInv', frames = <<>>, UNCHANGED <<now, timeout>>,
           schedule' = <<>>, delayed' = delayed \/ delayed' = <<>>
    PROVE  \E as \in SUBSET AlarmClock!In({"waits", "claimed", "aside"}) :
             AlarmClock!Move(as, "over")
  <1>1. SameTimes({})
    BY DEF SameTimes, Id
  <1>2. PICK l : l = delayed'
    OBVIOUS
  <1>3. \A a \in Id : /\ StageAfter(a) = IF \E i \in DOMAIN l : l[i] = a THEN "aside" ELSE "over"
                      /\ StageNow(a) = IF \E i \in DOMAIN delayed : delayed[i] = a THEN "aside"
                                       ELSE IF \E i \in DOMAIN schedule : schedule[i] = a
                                         THEN "waits" ELSE "over"
    <2>1. SUFFICES ASSUME NEW a \in Id
                   PROVE  /\ StageAt(timeout, <<>>, l, a) =
                               IF \E i \in DOMAIN l : l[i] = a THEN "aside" ELSE "over"
                          /\ StageNow(a) = IF \E i \in DOMAIN delayed : delayed[i] = a THEN "aside"
                                           ELSE IF \E i \in DOMAIN schedule : schedule[i] = a
                                             THEN "waits" ELSE "over"
      BY <1>2 DEF StageAfter
    <2>2. ~\E i \in DOMAIN <<>> : <<>>[i] = a
      OBVIOUS
    <2>3. StageAt(timeout, <<>>, l, a) = IF \E i \in DOMAIN l : l[i] = a THEN "aside" ELSE "over"
      BY <2>2, IdleStages
    <2>4. StageNow(a) = IF \E i \in DOMAIN delayed : delayed[i] = a THEN "aside"
                        ELSE IF \E i \in DOMAIN schedule : schedule[i] = a THEN "waits" ELSE "over"
      BY IdleStages DEF StageNow
    <2> QED
      BY <2>3, <2>4
  <1>4. PICK as : as = {a \in Id : StageAfter(a) # StageNow(a)}
    OBVIOUS
  <1>5. \A a \in as : StageAfter(a) = "over" /\ StageNow(a) \in {"waits", "aside"}
    <2>1. SUFFICES ASSUME NEW a \in as
                   PROVE  StageAfter(a) = "over" /\ StageNow(a) \in {"waits", "aside"}
      OBVIOUS
    <2>2. a \in Id /\ StageAfter(a) # StageNow(a)
      BY <1>4
    <2>3. l = delayed \/ ~\E i \in DOMAIN l : l[i] = a
      BY <1>2
    <2> QED
      BY <1>3, <2>2, <2>3
  <1>6. \A a \in Id : StageAfter(a) = IF a \in as THEN "over" ELSE StageNow(a)
    BY <1>4, <1>5
  <1>7. as \subseteq AlarmClock!In({"waits", "claimed", "aside"})
    BY <1>4, <1>5, InIs DEF StageNow
  <1>8. AlarmClock!Move(as, "over")
    BY <1>1, <1>6, MoveIs DEF Moved
  <1> QED
    BY <1>7, <1>8

\* The script is loaded: what was put aside is in the list again.
LEMMA EndLoadIsTakeUp == ASSUME TimersInv, TimersInv', EndLoad PROVE AlarmClock!TakeUp
  <1>1. /\ TypeOK /\ ListsInv /\ OrderInv /\ frames = <<>>
    BY DEF TimersInv, EndLoad
  <1>2. delayed' = <<>> /\ UNCHANGED <<now, timeout>>
    BY DEF EndLoad
  <1>3. PICK r : r = schedule'
    OBVIOUS
  <1>4. \A e : e \in ToSet(r) <=> e \in ToSet(schedule) \/ e \in ToSet(delayed)
    <2>1. r = AllInserted
      BY <1>3 DEF EndLoad
    <2> QED
      BY <1>1, <2>1, IdleIs, AllInsertedIs DEF TypeOK
  <1>5. SameTimes({})
    BY <1>2 DEF SameTimes, Id
  <1>6. PICK as : as = AlarmClock!In({"aside"})
    OBVIOUS
  <1>7. \A a \in Id : a \in as <=> StageNow(a) = "aside"
    BY <1>6, InIs DEF StageNow
  <1>8. \A a \in Id : StageAfter(a) = IF a \in as THEN "waits" ELSE StageNow(a)
    <2>1. SUFFICES ASSUME NEW a \in Id
                   PROVE  StageAfter(a) = IF StageNow(a) = "aside" THEN "waits" ELSE StageNow(a)
      BY <1>7
    <2>2. StageAfter(a) = StageAt(timeout, r, <<>>, a)
      BY <1>2, <1>3 DEF StageAfter
    <2>3. ~\E i \in DOMAIN <<>> : <<>>[i] = a
      OBVIOUS
    <2>4. StageAfter(a) = IF \E i \in DOMAIN r : r[i] = a THEN "waits" ELSE "over"
      BY <1>1, <2>2, <2>3, IdleStages
    <2>5. StageNow(a) = IF \E i \in DOMAIN delayed : delayed[i] = a THEN "aside"
                        ELSE IF \E i \in DOMAIN schedule : schedule[i] = a THEN "waits" ELSE "over"
      BY <1>1, IdleStages DEF StageNow
    <2>6. (\E i \in DOMAIN r : r[i] = a) <=> \/ \E i \in DOMAIN schedule : schedule[i] = a
                                             \/ \E i \in DOMAIN delayed : delayed[i] = a
      BY <1>4 DEF ToSet
    <2> QED
      BY <2>4, <2>5, <2>6
  <1>9. AlarmClock!Move(as, "waits")
    BY <1>5, <1>8, MoveIs DEF Moved
  <1> QED
    BY <1>6, <1>9 DEF AlarmClock!TakeUp

------------------------------------------------------------------------------
(* Alarms are set and cancelled *)

\* A timeout is inserted and nothing is lost.
LEMMA InsertedHas ==
    ASSUME NEW S, NEW list \in Seq(S), NEW id \in S, NEW when,
           NEW r, r = Inserted(list, id, when)
    PROVE  /\ r \in Seq(S)
           /\ \A e : e \in ToSet(r) <=> e \in ToSet(list) \/ e = id
  <1>1. PICK k \in 0..Len(list) :
          /\ r \in Seq(S)
          /\ Len(list) \in Nat
          /\ Len(r) = Len(list) + 1
          /\ DOMAIN r = 1..(Len(list) + 1)
          /\ \A i \in 1..(Len(list) + 1) : r[i] =
               IF i <= k THEN list[i] ELSE IF i = k + 1 THEN id ELSE list[i - 1]
          /\ k # 0 => timeout[list[k]].when <= when \/ ~IsUnmarked(list[k])
          /\ \A i \in DOMAIN list : k < i =>
               ~(timeout[list[i]].when <= when) /\ IsUnmarked(list[i])
    BY InsertedIs
  <1>2. DOMAIN list = 1..Len(list)
    OBVIOUS
  <1>3. r[k + 1] = id /\ k + 1 \in DOMAIN r
    BY <1>1
  <1>4. \A i \in DOMAIN list : \E j \in DOMAIN r : r[j] = list[i]
    <2>1. SUFFICES ASSUME NEW i \in DOMAIN list PROVE \E j \in DOMAIN r : r[j] = list[i]
      OBVIOUS
    <2>2. CASE i <= k
      <3>1. i \in DOMAIN r /\ r[i] = list[i]
        BY <1>1, <1>2, <2>2
      <3> QED
        BY <3>1
    <2>3. CASE ~(i <= k)
      <3>1. i + 1 \in DOMAIN r /\ r[i + 1] = list[i]
        BY <1>1, <1>2, <2>3
      <3> QED
        BY <3>1
    <2> QED
      BY <2>2, <2>3
  <1>5. \A j \in DOMAIN r : r[j] = id \/ \E i \in DOMAIN list : list[i] = r[j]
    <2>1. SUFFICES ASSUME NEW j \in DOMAIN r, r[j] # id
                   PROVE  \E i \in DOMAIN list : list[i] = r[j]
      OBVIOUS
    <2>2. CASE j <= k
      <3>1. j \in DOMAIN list /\ r[j] = list[j]
        BY <1>1, <1>2, <2>2
      <3> QED
        BY <3>1
    <2>3. CASE ~(j <= k)
      <3>1. j - 1 \in DOMAIN list /\ r[j] = list[j - 1]
        BY <1>1, <1>2, <2>1, <2>3
      <3> QED
        BY <3>1
    <2> QED
      BY <2>2, <2>3
  <1>6. \A e : (\E i \in DOMAIN r : r[i] = e) <=> (\E i \in DOMAIN list : list[i] = e) \/ e = id
    BY ONLY <1>3, <1>4, <1>5
  <1>7. \A e : e \in ToSet(r) <=> e \in ToSet(list) \/ e = id
    BY <1>6 DEF ToSet
  <1> QED
    BY ONLY <1>1, <1>7

LEMMA CreateTimeoutIsSet ==
    ASSUME TimersInv, TimersInv', NEW delay \in Delay, NEW repeated \in BOOLEAN,
           CreateTimeout(delay, repeated)
    PROVE  AlarmClock!Set(delay, repeated)
  <1>1. /\ TypeOK /\ timeout \in Seq(Timeout) /\ schedule \in Seq(Id) /\ now \in Nat
    BY DEF TimersInv, TypeOK
  <1>2. PICK new : new = [when |-> now + delay, interval |-> delay, repeated |-> repeated,
                          firing |-> 0, running |-> FALSE, script |-> script]
    OBVIOUS
  <1>3. PICK id : id = Len(timeout) + 1
    OBVIOUS
  <1>4. PICK r : r = schedule'
    OBVIOUS
  <1>5. PICK ts : ts = timeout'
    OBVIOUS
  <1>6. /\ ts = Append(timeout, new) /\ r = Inserted(schedule, id, now + delay)
        /\ repeated => delay > 0
        /\ UNCHANGED <<now, delayed>>
    BY <1>2, <1>3, <1>4, <1>5 DEF CreateTimeout
  <1>7. /\ Id = 1..Len(timeout) /\ Len(timeout) \in Nat /\ id \notin Id
        /\ \A i \in DOMAIN schedule : schedule[i] \in Id
        /\ \A i \in DOMAIN delayed : delayed[i] \in Id
    BY <1>1, <1>3, ListedIs
  <1>8. /\ Id' = 1..id /\ ts[id] = new /\ \A a \in Id : ts[a] = timeout[a]
    BY <1>1, <1>3, <1>5, <1>6, <1>7 DEF Id
  <1>9. \A e : (\E i \in DOMAIN r : r[i] = e) <=> (\E i \in DOMAIN schedule : schedule[i] = e) \/ e = id
    <2>1. PICK S : S = Id \cup {id}
      OBVIOUS
    <2>2. schedule \in Seq(S) /\ id \in S
      <3>1. schedule \in [1..Len(schedule) -> Id] /\ Len(schedule) \in Nat
        BY <1>1
      <3>2. schedule \in [1..Len(schedule) -> S]
        BY <2>1, <3>1
      <3> QED
        BY <2>1, <3>1, <3>2
    <2>3. PICK w : w = now + delay
      OBVIOUS
    <2>4. r = Inserted(schedule, id, w)
      BY <1>6, <2>3
    <2>5. /\ r \in Seq(S)
          /\ \A e : e \in ToSet(r) <=> e \in ToSet(schedule) \/ e = id
      BY ONLY <2>2, <2>4, InsertedHas
    <2> QED
      BY <2>5 DEF ToSet
  <1>10. PICK A : A = Shown
    OBVIOUS
  <1>11. PICK B : B = Shown'
    OBVIOUS
  <1>12. DOMAIN A = Id /\ \A a \in Id : A[a] = AlarmAt(timeout, schedule, delayed, a)
    BY <1>10, ShownIs
  <1>13. DOMAIN B = 1..id /\ \A a \in 1..id : B[a] = AlarmAt(ts, r, delayed, a)
    BY <1>4, <1>5, <1>6, <1>8, <1>11, ShownNextIs
  <1>14. \A a \in Id : B[a] = A[a]
    <2>1. SUFFICES ASSUME NEW a \in Id PROVE B[a] = A[a]
      OBVIOUS
    <2>2. a \in 1..id /\ a # id /\ ts[a] = timeout[a]
      BY <1>3, <1>7, <1>8
    <2>3. (\E i \in DOMAIN r : r[i] = a) <=> (\E i \in DOMAIN schedule : schedule[i] = a)
      BY <1>9, <2>2
    <2>4. StageAt(ts, r, delayed, a) = StageAt(timeout, schedule, delayed, a)
      BY <2>2, <2>3 DEF StageAt
    <2> QED
      BY <1>12, <1>13, <2>2, <2>4 DEF AlarmAt
  <1>15. PICK alarm : alarm = [stage |-> "waits", due |-> now + delay, every |-> delay,
                               again |-> repeated]
    OBVIOUS
  <1>16. B[id] = alarm
    <2>1. /\ ~ts[id].running /\ ts[id].firing = 0 /\ ts[id].when = now + delay
          /\ ts[id].interval = delay /\ ts[id].repeated = repeated
      BY <1>2, <1>8
    <2>2. ~\E i \in DOMAIN delayed : delayed[i] = id
      BY <1>7
    <2>3. \E i \in DOMAIN r : r[i] = id
      BY <1>9
    <2>4. StageAt(ts, r, delayed, id) = "waits"
      BY <2>1, <2>2, <2>3 DEF StageAt
    <2>5. id \in 1..id
      BY <1>3, <1>7
    <2> QED
      BY <1>13, <1>15, <2>1, <2>4, <2>5 DEF AlarmAt
  <1>17. B = Append(A, alarm)
    <2>1. A = [a \in 1..Len(timeout) |-> A[a]] /\ B = [a \in 1..id |-> B[a]]
      BY <1>5, <1>7, <1>8, <1>10, <1>11, <1>12, <1>13 DEF Shown
    <2>2. A \in Seq({A[a] : a \in Id})
      BY <1>7, <2>1
    <2>3. Len(A) = Len(timeout)
      BY <1>7, <1>12, <2>2
    <2>4. PICK C : C = Append(A, alarm)
      OBVIOUS
    <2>5. /\ DOMAIN C = 1..id /\ C = [a \in 1..id |-> C[a]]
          /\ C[id] = alarm /\ \A a \in Id : C[a] = A[a]
      <3>1. PICK T : T = {A[a] : a \in Id} \cup {alarm}
        OBVIOUS
      <3>2. A \in Seq(T) /\ alarm \in T
        BY <1>7, <2>1, <3>1
      <3>3. C \in Seq(T) /\ Len(C) = Len(A) + 1
        BY <2>4, <3>2
      <3>4. C[Len(A) + 1] = alarm /\ \A a \in 1..Len(A) : C[a] = A[a]
        BY <2>4, <3>2
      <3>5. DOMAIN C = 1..id /\ C = [a \in 1..id |-> C[a]]
        BY <1>3, <2>3, <3>3
      <3> QED
        BY <1>3, <1>7, <2>3, <3>4, <3>5
    <2>6. \A a \in 1..id : a \in Id \/ a = id
      BY <1>3, <1>7
    <2>7. \A a \in 1..id : B[a] = C[a]
      BY <1>14, <1>16, <2>5, <2>6
    <2> QED
      BY <2>1, <2>4, <2>5, <2>7
  <1> QED
    BY <1>6, <1>10, <1>11, <1>15, <1>17 DEF AlarmClock!Set

\* ClearTimeout cancels an alarm, unless it rings: then it rings for the last time.
LEMMA ClearTimeoutIsCancel ==
    ASSUME TimersInv, TimersInv', NEW id \in Id, ClearTimeout(id)
    PROVE  \/ UNCHANGED AlarmClock!alarmVars
           \/ id \in AlarmClock!In({"rings"}) /\ AlarmClock!RingNoMore(id)
           \/ /\ {id} \in SUBSET AlarmClock!In({"waits", "claimed", "aside"})
              /\ AlarmClock!Move({id}, "over")
  <1>1. /\ TypeOK /\ ListsInv /\ timeout \in Seq(Timeout) /\ schedule \in Seq(Id)
        /\ UNCHANGED <<now, delayed>>
    BY DEF TimersInv, TypeOK, ClearTimeout
  <1>2. DOMAIN timeout = Id /\ \A e \in Id : timeout[e] \in Timeout
    BY <1>1, ListedIs
  <1>3. CASE ~Contains(schedule, id)
    <2>1. UNCHANGED <<timeout, schedule>>
      BY <1>3 DEF ClearTimeout
    <2> QED
      BY <1>1, <2>1, SameLists
  <1>4. CASE Contains(schedule, id) /\ timeout[id].running
    <2>1. timeout' = DisableRepeat(id) /\ UNCHANGED schedule
      BY <1>4 DEF ClearTimeout
    <2>2. PICK t : t = [timeout[id] EXCEPT !.repeated = FALSE]
      OBVIOUS
    <2>3. /\ t.when = timeout[id].when /\ t.interval = timeout[id].interval
          /\ t.firing = timeout[id].firing /\ t.running = timeout[id].running /\ ~t.repeated
          /\ t.repeated = FALSE
      BY <1>2, <2>2 DEF Timeout
    <2>4. PICK us : us = timeout'
      OBVIOUS
    <2>5. /\ DOMAIN us = Id /\ us[id] = t /\ \A e \in Id : e # id => us[e] = timeout[e]
      BY <1>2, <2>1, <2>2, <2>4 DEF DisableRepeat
    <2>6. Id' = Id
      BY <2>4, <2>5 DEF Id
    <2>7. PICK A : A = Shown
      OBVIOUS
    <2>8. PICK B : B = Shown'
      OBVIOUS
    <2>9. DOMAIN A = Id /\ \A a \in Id : A[a] = AlarmAt(timeout, schedule, delayed, a)
      BY <2>7, ShownIs
    <2>10. DOMAIN B = Id /\ \A a \in Id : B[a] = AlarmAt(us, schedule, delayed, a)
      BY <1>1, <2>1, <2>4, <2>6, <2>8, ShownNextIs
    <2>11. \A a \in Id : a # id => B[a] = A[a]
      BY <2>5, <2>9, <2>10 DEF AlarmAt, StageAt
    <2>12. B[id] = [A[id] EXCEPT !.again = FALSE]
      <3>1. StageAt(us, schedule, delayed, id) = StageAt(timeout, schedule, delayed, id)
        BY <2>3, <2>5 DEF StageAt
      <3> QED
        BY <2>3, <2>5, <2>9, <2>10, <3>1 DEF AlarmAt
    <2>13. B = [A EXCEPT ![id].again = FALSE]
      <3>1. PICK C : C = [A EXCEPT ![id].again = FALSE]
        OBVIOUS
      <3>2. /\ DOMAIN C = Id /\ C = [a \in Id |-> C[a]] /\ C[id] = [A[id] EXCEPT !.again = FALSE]
            /\ \A a \in Id : a # id => C[a] = A[a]
        BY <2>9, <3>1
      <3>3. B = [a \in Id |-> B[a]]
        BY <2>6, <2>8 DEF Shown
      <3>4. \A a \in Id : B[a] = C[a]
        BY <2>11, <2>12, <3>2
      <3> QED
        BY <3>1, <3>2, <3>3, <3>4
    <2>14. AlarmClock!RingNoMore(id)
      BY <1>1, <2>7, <2>8, <2>13 DEF AlarmClock!RingNoMore
    <2>15. id \in AlarmClock!In({"rings"})
      BY <1>4, InIs DEF StageAt
    <2> QED
      BY <2>14, <2>15
  <1>5. CASE Contains(schedule, id) /\ ~timeout[id].running
    <2>1. PICK r : r = Without(schedule, id)
      OBVIOUS
    <2>2. schedule' = r /\ UNCHANGED timeout
      BY <1>5, <2>1 DEF ClearTimeout
    <2>3. PICK p \in DOMAIN schedule : schedule[p] = id
      BY <1>1, <1>5 DEF Contains
    <2>4. \A e : e \in ToSet(r) <=> e \in ToSet(schedule) /\ e # id
      BY <1>1, <2>1, <2>3, WithoutKeeps DEF ListsInv
    <2>5. \A e : (\E i \in DOMAIN r : r[i] = e) <=> (\E i \in DOMAIN schedule : schedule[i] = e) /\ e # id
      BY <2>4 DEF ToSet
    <2>6. ~\E i \in DOMAIN delayed : delayed[i] = id
      BY <1>1, <2>3 DEF ListsInv, Apart
    <2>7. SameTimes({})
      BY <1>1, <2>2 DEF SameTimes, Id
    <2>8. \A a \in Id : StageAfter(a) = IF a \in {id} THEN "over" ELSE StageNow(a)
      <3>1. SUFFICES ASSUME NEW a \in Id
                     PROVE  StageAt(timeout, r, delayed, a) = IF a = id THEN "over" ELSE StageNow(a)
        BY <1>1, <2>2 DEF StageAfter
      <3>2. CASE a = id
        <4>1. ~\E i \in DOMAIN r : r[i] = a
          BY <2>5, <3>2
        <4> QED
          BY <1>5, <2>6, <3>2, <4>1 DEF StageAt
      <3>3. CASE a # id
        <4>1. (\E i \in DOMAIN r : r[i] = a) <=> (\E i \in DOMAIN schedule : schedule[i] = a)
          BY <2>5, <3>3
        <4> QED
          BY <3>3, <4>1 DEF StageAt, StageNow
      <3> QED
        BY <3>2, <3>3
    <2>9. AlarmClock!Move({id}, "over")
      BY <2>7, <2>8, MoveIs DEF Moved
    <2>10. StageAt(timeout, schedule, delayed, id) \in {"waits", "claimed", "aside"}
      BY <1>5, <2>3, <2>6 DEF StageAt
    <2>11. id \in AlarmClock!In({"waits", "claimed", "aside"})
      BY <2>10, InIs
    <2> QED
      BY <2>9, <2>11
  <1> QED
    BY <1>3, <1>4, <1>5

------------------------------------------------------------------------------
(* A round of alarms *)

\* A RunTimeout that goes on leaves the alarms as they are; when it returns, those that
\* it has claimed and not called wait again.
Released(ts, us, list, other) ==
    /\ DOMAIN us = DOMAIN ts
    /\ \A e \in DOMAIN ts : /\ us[e].when = ts[e].when /\ us[e].interval = ts[e].interval
                            /\ us[e].repeated = ts[e].repeated
    /\ \E as \in SUBSET DOMAIN ts :
         /\ \A e \in as : StageAt(ts, list, other, e) = "claimed"
         /\ \A e \in DOMAIN ts : StageAt(us, list, other, e) =
              IF e \in as THEN "waits" ELSE StageAt(ts, list, other, e)

LEMMA ReleasedIs ==
    ASSUME frames \in Seq(Frame), frames # <<>>,
           NEW ts \in Seq(Timeout), \A id \in DOMAIN ts : ts[id].firing \in 0..Depth,
           NEW us, us = ts \/ us = Unmarked(ts), NEW list, NEW other
    PROVE  Released(ts, us, list, other)
  <1>1. CASE us = ts
    <2>1. PICK as : as = {}
      OBVIOUS
    <2>2. as \in SUBSET DOMAIN ts /\ \A e : e \notin as
      BY <2>1
    <2> QED
      BY <1>1, <2>2 DEF Released
  <1>2. CASE us = Unmarked(ts)
    <2>1. /\ DOMAIN us = DOMAIN ts
          /\ \A e \in DOMAIN ts :
               /\ us[e].firing = IF ts[e].firing = Depth THEN 0 ELSE ts[e].firing
               /\ us[e].when = ts[e].when /\ us[e].interval = ts[e].interval
               /\ us[e].running = ts[e].running /\ us[e].repeated = ts[e].repeated
      BY <1>2, UnmarkedIs
    <2>2. PICK as : as = {e \in DOMAIN ts : /\ StageAt(ts, list, other, e) = "claimed"
                                            /\ ts[e].firing = Depth}
      OBVIOUS
    <2>3. as \in SUBSET DOMAIN ts /\ \A e \in as : StageAt(ts, list, other, e) = "claimed"
      BY <2>2
    <2>4. ASSUME NEW e \in DOMAIN ts
          PROVE  StageAt(us, list, other, e) =
                   IF e \in as THEN "waits" ELSE StageAt(ts, list, other, e)
      <3>1. /\ us[e].firing = IF ts[e].firing = Depth THEN 0 ELSE ts[e].firing
            /\ us[e].running = ts[e].running
        BY <2>1
      <3>2. e \in as <=> StageAt(ts, list, other, e) = "claimed" /\ ts[e].firing = Depth
        BY <2>2
      <3>3. Depth # 0
        BY PoppedIs
      <3>4. CASE ts[e].firing # Depth
        BY <3>1, <3>2, <3>4 DEF StageAt
      <3>5. CASE ts[e].firing = Depth /\ StageAt(ts, list, other, e) = "claimed"
        BY <3>1, <3>2, <3>3, <3>5 DEF StageAt
      <3>6. CASE ts[e].firing = Depth /\ StageAt(ts, list, other, e) # "claimed"
        BY <3>1, <3>2, <3>3, <3>6 DEF StageAt
      <3> QED
        BY <3>4, <3>5, <3>6
    <2> QED
      BY <2>1, <2>3, <2>4 DEF Released
  <1> QED
    BY <1>1, <1>2

LEMMA LoopEndsIsRelease ==
    ASSUME TimersInv, TimersInv', LoopEnds
    PROVE  \E as \in SUBSET AlarmClock!In({"claimed"}) : AlarmClock!Move(as, "waits")
  <1>1. /\ TopIs("loop") /\ UNCHANGED <<now, schedule, delayed>> /\ timeout' = Unmarked(timeout)
    BY DEF LoopEnds, RunTimeoutReturns
  <1>2. /\ frames \in Seq(Frame) /\ frames # <<>> /\ timeout \in Seq(Timeout)
        /\ DOMAIN timeout = Id /\ \A id \in Id : timeout[id].firing \in 0..Depth
    BY <1>1, LoopIs DEF TimersInv, TypeOK, Id
  <1>3. PICK us : us = timeout'
    OBVIOUS
  <1>4. Released(timeout, us, schedule, delayed)
    BY <1>1, <1>2, <1>3, ReleasedIs
  <1>5. PICK as \in SUBSET Id :
          /\ DOMAIN us = Id
          /\ \A e \in Id : /\ us[e].when = timeout[e].when /\ us[e].interval = timeout[e].interval
                           /\ us[e].repeated = timeout[e].repeated
          /\ \A e \in as : StageAt(timeout, schedule, delayed, e) = "claimed"
          /\ \A e \in Id : StageAt(us, schedule, delayed, e) =
               IF e \in as THEN "waits" ELSE StageAt(timeout, schedule, delayed, e)
    BY <1>2, <1>4 DEF Released
  <1>6. SameTimes({})
    BY <1>1, <1>3, <1>5 DEF SameTimes, Id
  <1>7. \A a \in Id : StageAfter(a) = IF a \in as THEN "waits" ELSE StageNow(a)
    BY <1>1, <1>3, <1>5 DEF StageAfter, StageNow
  <1>8. PICK claimed : claimed = AlarmClock!In({"claimed"})
    OBVIOUS
  <1>9. claimed = {a \in Id : StageAt(timeout, schedule, delayed, a) \in {"claimed"}}
    BY <1>8, InIs
  <1>10. as \in SUBSET claimed
    BY <1>5, <1>9
  <1>11. Moved(as, "waits")
    BY <1>6, <1>7 DEF Moved
  <1>12. AlarmClock!Move(as, "waits")
    BY <1>11, MoveIs
  <1> QED
    BY <1>8, <1>10, <1>12

\* A timeout that comes due during a load is put aside.
LEMMA DeferTimeoutIsPutAside ==
    ASSUME TimersInv, TimersInv', DeferTimeout
    PROVE  \E as \in SUBSET AlarmClock!In({"claimed"}) :
             \E a \in AlarmClock!In({"claimed"}) \ as : AlarmClock!PutAside(a, as)
  <1>1. PICK id : id = NextToRun
    OBVIOUS
  <1>2. PICK r : r = Without(schedule, id)
    OBVIOUS
  <1>3. PICK l : l = Append(delayed, id)
    OBVIOUS
  <1>4. PICK us : us = timeout'
    OBVIOUS
  <1>5. /\ TopIs("loop") /\ id # End /\ schedule' = r /\ delayed' = l /\ UNCHANGED now
        /\ us = timeout \/ us = Unmarked(timeout)
    BY <1>1, <1>2, <1>3, <1>4 DEF DeferTimeout, GoOnOrStop, RunTimeoutReturns
  <1>6. /\ frames \in Seq(Frame) /\ frames # <<>> /\ timeout \in Seq(Timeout)
        /\ DOMAIN timeout = Id /\ \A e \in Id : timeout[e].firing \in 0..Depth
        /\ schedule \in Seq(Id) /\ delayed \in Seq(Id) /\ ListsInv
        /\ Depth \in Nat \ {0}
    BY <1>5, LoopIs DEF TimersInv, TypeOK, Id
  <1>7. PICK p \in DOMAIN schedule : schedule[p] = id /\ timeout[id].firing = Depth
    BY <1>1, <1>5, NextToRunIs
  <1>8. id \in Id
    BY <1>6, <1>7
  <1>9. \A e : (\E i \in DOMAIN r : r[i] = e) <=> (\E i \in DOMAIN schedule : schedule[i] = e) /\ e # id
    <2>1. \A e : e \in ToSet(r) <=> e \in ToSet(schedule) /\ e # id
      BY <1>2, <1>6, <1>7, WithoutKeeps DEF ListsInv
    <2> QED
      BY <2>1 DEF ToSet
  <1>10. \A e : (\E i \in DOMAIN l : l[i] = e) <=> (\E i \in DOMAIN delayed : delayed[i] = e) \/ e = id
    <2>1. /\ DOMAIN l = DOMAIN delayed \cup {Len(delayed) + 1}
          /\ Len(delayed) + 1 \notin DOMAIN delayed
          /\ l[Len(delayed) + 1] = id /\ \A i \in DOMAIN delayed : l[i] = delayed[i]
      BY <1>3, <1>6, <1>8
    <2> QED
      BY <2>1
  <1>11. ~timeout[id].running
    BY <1>5, <1>7, NextIsNotRunning
  <1>12. /\ StageAt(timeout, schedule, delayed, id) = "claimed"
         /\ StageAt(timeout, r, l, id) = "aside"
    <2>1. ~\E i \in DOMAIN delayed : delayed[i] = id
      BY <1>6, <1>7 DEF ListsInv, Apart
    <2>2. \E i \in DOMAIN l : l[i] = id
      BY <1>10
    <2> QED
      BY <1>6, <1>7, <1>11, <2>1, <2>2 DEF StageAt
  <1>13. ASSUME NEW e \in Id, e # id
         PROVE  StageAt(timeout, r, l, e) = StageAt(timeout, schedule, delayed, e)
    <2>1. /\ (\E i \in DOMAIN r : r[i] = e) <=> (\E i \in DOMAIN schedule : schedule[i] = e)
          /\ (\E i \in DOMAIN l : l[i] = e) <=> (\E i \in DOMAIN delayed : delayed[i] = e)
      BY <1>9, <1>10, <1>13
    <2> QED
      BY <2>1 DEF StageAt
  <1>14. Released(timeout, us, r, l)
    BY <1>5, <1>6, ReleasedIs
  <1>15. PICK as \in SUBSET Id :
          /\ DOMAIN us = Id
          /\ \A e \in Id : /\ us[e].when = timeout[e].when /\ us[e].interval = timeout[e].interval
                           /\ us[e].repeated = timeout[e].repeated
          /\ \A e \in as : StageAt(timeout, r, l, e) = "claimed"
          /\ \A e \in Id : StageAt(us, r, l, e) =
               IF e \in as THEN "waits" ELSE StageAt(timeout, r, l, e)
    BY <1>6, <1>14 DEF Released
  <1>16. id \notin as
    BY <1>12, <1>15
  <1>17. as \in SUBSET AlarmClock!In({"claimed"}) /\ id \in AlarmClock!In({"claimed"}) \ as
    <2>1. \A e \in as : StageAt(timeout, schedule, delayed, e) = "claimed"
      BY <1>13, <1>15, <1>16
    <2> QED
      BY <1>8, <1>12, <1>15, <1>16, <2>1, InIs
  <1>18. SameTimes({id})
    BY <1>4, <1>5, <1>15 DEF SameTimes, Id
  <1>19. \A e \in Id \ {id} : StageAfter(e) = IF e \in as THEN "waits" ELSE StageNow(e)
    BY <1>4, <1>5, <1>13, <1>15 DEF StageAfter, StageNow
  <1>20. PICK A : A = Shown
    OBVIOUS
  <1>21. A[id] = AlarmAt(timeout, schedule, delayed, id)
    BY <1>8, <1>20, ShownIs
  <1>22. AlarmAt(timeout', schedule', delayed', id) = [A[id] EXCEPT !.stage = "aside"]
    <2>1. StageAt(us, r, l, id) = "aside"
      BY <1>8, <1>12, <1>15, <1>16
    <2> QED
      BY <1>4, <1>5, <1>8, <1>15, <1>21, <2>1 DEF AlarmAt
  <1>23. PICK new : new = [A[id] EXCEPT !.stage = "aside"]
    OBVIOUS
  <1>24. AlarmClock!Leave(id, new, as)
    BY <1>8, <1>18, <1>19, <1>22, <1>23, LeaveIs DEF Left
  <1> QED
    BY <1>17, <1>20, <1>23, <1>24 DEF AlarmClock!PutAside

\* A callback is called: its alarm was claimed, it is due, and nothing that waits was due
\* earlier.
LEMMA CallTimeoutIsRing ==
    ASSUME TimersInv, TimersInv', CallTimeout
    PROVE  \E a \in AlarmClock!In({"claimed"}) : AlarmClock!Ring(a)
  <1>1. PICK id : id = NextToRun
    OBVIOUS
  <1>2. /\ TopIs("loop") /\ id # End /\ UNCHANGED <<now, schedule, delayed>>
        /\ timeout' = [timeout EXCEPT ![id].running = TRUE]
    BY <1>1 DEF CallTimeout
  <1>3. /\ DOMAIN timeout = Id /\ \A e \in Id : timeout[e] \in Timeout
        /\ \A i \in DOMAIN schedule : schedule[i] \in Id
        /\ ListsInv /\ Depth \in Nat \ {0}
    BY <1>2, LoopIs, ListedIs DEF TimersInv
  <1>4. PICK p \in DOMAIN schedule : schedule[p] = id /\ timeout[id].firing = Depth
    BY <1>1, <1>2, NextToRunIs
  <1>5. id \in Id
    BY <1>3, <1>4
  <1>6. PICK t : t = [timeout[id] EXCEPT !.running = TRUE]
    OBVIOUS
  <1>7. /\ t.when = timeout[id].when /\ t.interval = timeout[id].interval
        /\ t.repeated = timeout[id].repeated /\ t.running
    BY <1>3, <1>5, <1>6 DEF Timeout
  <1>8. PICK us : us = timeout'
    OBVIOUS
  <1>9. DOMAIN us = Id /\ us[id] = t /\ \A e \in Id : e # id => us[e] = timeout[e]
    BY <1>2, <1>3, <1>5, <1>6, <1>8
  <1>10. SameTimes({})
    BY <1>2, <1>7, <1>8, <1>9 DEF SameTimes, Id
  <1>11. \A a \in Id : StageAfter(a) = IF a \in {id} THEN "rings" ELSE StageNow(a)
    <2>1. SUFFICES ASSUME NEW a \in Id
                   PROVE  StageAt(us, schedule, delayed, a) = IF a = id THEN "rings" ELSE StageNow(a)
      BY <1>2, <1>8 DEF StageAfter
    <2>2. CASE a = id
      BY <1>7, <1>9, <2>2 DEF StageAt
    <2>3. CASE a # id
      BY <1>9, <2>3 DEF StageAt, StageNow
    <2> QED
      BY <2>2, <2>3
  <1>12. Moved({id}, "rings")
    BY <1>10, <1>11 DEF Moved
  <1>13. AlarmClock!Move({id}, "rings")
    BY <1>12, MoveIs
  <1>14. StageAt(timeout, schedule, delayed, id) = "claimed"
    <2>1. ~timeout[id].running
      BY <1>2, <1>4, NextIsNotRunning
    <2>2. ~\E i \in DOMAIN delayed : delayed[i] = id
      BY <1>3, <1>4 DEF ListsInv, Apart
    <2> QED
      BY <1>3, <1>4, <2>1, <2>2 DEF StageAt
  <1>15. PICK A : A = Shown
    OBVIOUS
  <1>16. \A a \in Id : A[a].due = timeout[a].when
    BY <1>15, ShownIs
  <1>17. /\ timeout[id].when <= now + AllowedEarly
         /\ \A q \in DOMAIN schedule : timeout[schedule[q]].firing = 0 =>
              timeout[id].when <= timeout[schedule[q]].when + AllowedEarly
    BY <1>2, <1>4, NextIsFirst DEF Limit
  <1>18. PICK waits : waits = AlarmClock!In({"waits"})
    OBVIOUS
  <1>19. \A b \in waits : b \in Id /\ StageAt(timeout, schedule, delayed, b) = "waits"
    BY <1>18, InIs
  <1>20. \A b \in waits : A[id].due <= A[b].due + AllowedEarly
    <2>1. SUFFICES ASSUME NEW b \in waits PROVE timeout[id].when <= timeout[b].when + AllowedEarly
      BY <1>5, <1>16, <1>19
    <2>2. timeout[b].firing = 0 /\ \E q \in DOMAIN schedule : schedule[q] = b
      BY <1>19 DEF StageAt
    <2> QED
      BY <1>17, <2>2
  <1>21. A[id].due <= now + AllowedEarly
    BY <1>5, <1>16, <1>17
  <1>22. AlarmClock!Ring(id)
    BY <1>13, <1>15, <1>18, <1>20, <1>21 DEF AlarmClock!Ring
  <1>23. id \in AlarmClock!In({"claimed"})
    BY <1>5, <1>14, InIs
  <1> QED
    BY <1>22, <1>23

\* A timeout is running only while it is marked.
LEMMA RunningIsMarked ==
    ASSUME TimersInv, NEW id \in Id, timeout[id].running
    PROVE  timeout[id].firing # 0
  <1>2. Len(frames) \in Nat
    BY DEF TimersInv, TypeOK
  <1>3. \/ Calls(timeout, schedule, frames, Len(frames))
        \/ Calls(timeout, schedule, frames, Len(frames) - 1)
    BY DEF TimersInv, Stack
  <1>4. ASSUME NEW m \in Int, Calls(timeout, schedule, frames, m) PROVE timeout[id].firing # 0
    <2>1. PICK f \in 1..m : frames[f].at = id
      BY <1>4 DEF Calls, Id
    <2>2. timeout[frames[f].at].firing = f
      BY <1>4, <2>1 DEF Calls
    <2> QED
      BY <1>4, <2>1, <2>2
  <1> QED
    BY <1>2, <1>3, <1>4

\* RunTimeout claims what waits and is due, from the front of the list.
LEMMA RunTimeoutIsClaim ==
    ASSUME TimersInv, TimersInv', UNCHANGED <<now, schedule, delayed>>, NEW c,
           NEW deadline \in Nat, deadline <= now + AllowedEarly, RunTimeout(c, deadline)
    PROVE  \E marks \in SUBSET AlarmClock!In({"waits"}) : AlarmClock!Claim(marks)
  <1>1. /\ TypeOK /\ ListsInv /\ Sorted(timeout, schedule, Limit)
    BY DEF TimersInv, OrderInv
  <1>2. /\ DOMAIN timeout = Id /\ now \in Nat
        /\ \A i \in DOMAIN schedule : schedule[i] \in Id
        /\ \A e \in Id : timeout[e].when \in Nat /\ timeout[e].firing \in 0..Depth
        /\ DOMAIN schedule = 1..Len(schedule) /\ Len(schedule) \in Nat
        /\ Depth + 1 \in Nat /\ Depth + 1 # 0
    BY <1>1, ListedIs DEF TypeOK, Depth
  <1>3. PICK k : k = Upcoming(deadline)
    OBVIOUS
  <1>4. PICK due : due = IF k = 0 THEN Len(schedule) ELSE k - 1
    OBVIOUS
  <1>5. /\ k = 0 => \A i \in DOMAIN schedule : timeout[schedule[i]].when <= deadline
        /\ k # 0 => /\ k \in DOMAIN schedule
                    /\ \A i \in DOMAIN schedule : i < k => timeout[schedule[i]].when <= deadline
    BY <1>1, <1>2, <1>3, UpcomingIs
  <1>6. /\ due \in Nat /\ due <= Len(schedule)
        /\ \A i \in DOMAIN schedule : i <= due => timeout[schedule[i]].when <= deadline
    BY <1>2, <1>4, <1>5
  <1>7. PICK n \in 0..due : timeout' = Marked(Expired(n), Depth + 1)
    BY <1>3, <1>4 DEF RunTimeout
  <1>8. PICK marks : marks = Expired(n)
    OBVIOUS
  <1>9. n \in Nat /\ n <= Len(schedule) /\ n <= due
    BY <1>2, <1>6, <1>7
  <1>10. /\ marks \subseteq Id
         /\ \A e \in marks : timeout[e].firing = 0
         /\ \A i \in DOMAIN schedule :
              schedule[i] \in marks <=> i <= n /\ timeout[schedule[i]].firing = 0
         /\ \A e \in marks : \E i \in DOMAIN schedule : i <= n /\ e = schedule[i]
    BY <1>1, <1>8, <1>9, ExpiredIs
  <1>11. PICK us : us = timeout'
    OBVIOUS
  <1>12. /\ DOMAIN us = Id
         /\ \A e \in Id :
              /\ us[e].firing = IF e \in marks THEN Depth + 1 ELSE timeout[e].firing
              /\ us[e].when = timeout[e].when /\ us[e].interval = timeout[e].interval
              /\ us[e].running = timeout[e].running /\ us[e].repeated = timeout[e].repeated
    <2>1. us = Marked(marks, Depth + 1)
      BY <1>7, <1>8, <1>11
    <2>2. TypeOK /\ Depth + 1 \in Nat
      BY <1>1, <1>2
    <2>3. \A e \in Id : us[e].firing = IF e \in marks THEN Depth + 1 ELSE timeout[e].firing
      BY <2>1, <2>2, MarkedIs
    <2>4. \A e \in Id : /\ us[e].when = timeout[e].when /\ us[e].interval = timeout[e].interval
                        /\ us[e].running = timeout[e].running
                        /\ us[e].repeated = timeout[e].repeated
      BY <2>1, <2>2, MarkedIs
    <2>5. DOMAIN us = Id
      BY <2>1, <2>2, MarkedIs
    <2> QED
      BY <2>3, <2>4, <2>5
  <1>13. \A e \in marks : StageAt(timeout, schedule, delayed, e) = "waits"
    <2>1. SUFFICES ASSUME NEW e \in marks PROVE StageAt(timeout, schedule, delayed, e) = "waits"
      OBVIOUS
    <2>2. PICK i \in DOMAIN schedule : schedule[i] = e
      BY <1>10
    <2>3. ~\E j \in DOMAIN delayed : delayed[j] = e
      BY <1>1, <2>2 DEF ListsInv, Apart
    <2>4. timeout[e].firing = 0 /\ e \in Id
      BY <1>10
    <2>5. ~timeout[e].running
      BY <2>4, RunningIsMarked
    <2> QED
      BY <2>2, <2>3, <2>4, <2>5 DEF StageAt
  <1>14. SameTimes({})
    BY <1>2, <1>11, <1>12 DEF SameTimes, Id
  <1>15. \A a \in Id : StageAfter(a) = IF a \in marks THEN "claimed" ELSE StageNow(a)
    <2>1. SUFFICES ASSUME NEW a \in Id
                   PROVE  StageAt(us, schedule, delayed, a) =
                            IF a \in marks THEN "claimed" ELSE StageAt(timeout, schedule, delayed, a)
      BY <1>11 DEF StageAfter, StageNow
    <2>2. /\ us[a].firing = IF a \in marks THEN Depth + 1 ELSE timeout[a].firing
          /\ us[a].running = timeout[a].running
      BY <1>12
    <2>3. CASE a \in marks
      <3>1. StageAt(timeout, schedule, delayed, a) = "waits"
        BY <1>13, <2>3
      <3> QED
        BY <1>2, <2>2, <2>3, <3>1 DEF StageAt
    <2>4. CASE a \notin marks
      BY <2>2, <2>4 DEF StageAt
    <2> QED
      BY <2>3, <2>4
  <1>16. Moved(marks, "claimed")
    BY <1>14, <1>15 DEF Moved
  <1>17. AlarmClock!Move(marks, "claimed")
    BY <1>16, MoveIs
  <1>18. PICK waits : waits = AlarmClock!In({"waits"})
    OBVIOUS
  <1>19. /\ marks \subseteq waits
         /\ \A b \in waits : b \in Id /\ StageAt(timeout, schedule, delayed, b) = "waits"
    <2>1. waits = {a \in Id : StageAt(timeout, schedule, delayed, a) \in {"waits"}}
      BY <1>18, InIs
    <2> QED
      BY <1>10, <1>13, <2>1
  <1>20. PICK A : A = Shown
    OBVIOUS
  <1>21. \A a \in Id : A[a].due = timeout[a].when
    BY <1>20, ShownIs
  <1>22. \A a \in marks : A[a].due <= now + AllowedEarly
    <2>1. SUFFICES ASSUME NEW a \in marks PROVE A[a].due <= now + AllowedEarly
      OBVIOUS
    <2>2. PICK i \in DOMAIN schedule : i <= n /\ a = schedule[i]
      BY <1>10
    <2>3. i <= due
      BY <1>2, <1>6, <1>9, <2>2
    <2>4. A[a].due = timeout[a].when
      BY <1>10, <1>21
    <2>5. timeout[a].when <= deadline
      BY <1>6, <2>2, <2>3
    <2>6. timeout[a].when \in Nat
      BY <1>2, <1>10
    <2> QED
      BY <1>2, <2>4, <2>5, <2>6, ClockAssumption
  <1>23. \A a \in marks, b \in waits \ marks : A[a].due <= A[b].due + AllowedEarly
    <2>1. SUFFICES ASSUME NEW a \in marks, NEW b \in waits \ marks
                   PROVE  timeout[a].when <= timeout[b].when + AllowedEarly
      BY <1>10, <1>19, <1>21
    <2>2. PICK i \in DOMAIN schedule : i <= n /\ a = schedule[i]
      BY <1>10
    <2>3. timeout[b].firing = 0 /\ \E j \in DOMAIN schedule : schedule[j] = b
      BY <1>19 DEF StageAt
    <2>4. PICK j \in DOMAIN schedule : schedule[j] = b
      BY <2>3
    <2>5. ~(j <= n)
      BY <1>10, <2>3, <2>4
    <2>6. i < j
      BY <1>2, <1>9, <2>2, <2>5
    <2> QED
      BY <1>1, <2>2, <2>4, <2>6 DEF Sorted, NoLater
  <1>24. AlarmClock!Claim(marks)
    BY <1>17, <1>18, <1>20, <1>22, <1>23 DEF AlarmClock!Claim
  <1> QED
    BY <1>18, <1>19, <1>24

LEMMA ReceiveIsClaim ==
    ASSUME TimersInv, TimersInv', Receive
    PROVE  \/ UNCHANGED AlarmClock!alarmVars
           \/ \E as \in SUBSET AlarmClock!In({"waits"}) : AlarmClock!Claim(as)
  <1>1. UNCHANGED <<now, schedule, delayed>>
    BY DEF Receive
  <1>2. PICK x : x = [wake EXCEPT !.mail = Tail(@)]
    OBVIOUS
  <1>3. CASE Matches(Head(wake.mail))
    <2>1. MaybeExecute(x)
      BY <1>2, <1>3 DEF Receive
    <2>2. PICK t : t = IF TargetDeadline > now THEN TargetDeadline ELSE now
      OBVIOUS
    <2>3. t \in Nat /\ t <= now + AllowedEarly
      BY <2>2, TargetIs DEF TimersInv, TypeOK, Limit
    <2>4. RunTimeout(Cancelled(x), t)
      BY <2>1, <2>2 DEF MaybeExecute
    <2> QED
      BY <1>1, <2>3, <2>4, RunTimeoutIsClaim
  <1>4. CASE ~Matches(Head(wake.mail))
    <2>1. UNCHANGED timeout
      BY <1>4 DEF Receive
    <2> QED
      BY <1>1, <2>1, SameLists
  <1> QED
    BY <1>3, <1>4

\* A timeout that was running is in the list for its next time, or in none.
Returned(id, ts, list) ==
    /\ ts \in Seq(Timeout) /\ DOMAIN ts = Id
    /\ ~ts[id].running /\ ts[id].firing = 0
    /\ ts[id].interval = timeout[id].interval /\ ts[id].repeated = timeout[id].repeated
    /\ \A e \in Id : e # id => ts[e] = timeout[e]
    /\ timeout' = ts \/ timeout' = Unmarked(ts)
    /\ schedule' = list
    /\ \A e \in Id : e # id =>
         ((\E i \in DOMAIN list : list[i] = e) <=> \E i \in DOMAIN schedule : schedule[i] = e)

NextAlarm(id, ts, list) ==
    [stage |-> IF \E i \in DOMAIN list : list[i] = id THEN "waits" ELSE "over",
     due |-> ts[id].when, every |-> timeout[id].interval, again |-> timeout[id].repeated]

\* The alarm that has rung leaves; others that its round has claimed may wait again.
LEMMA ReturnedIsLeave ==
    ASSUME TimersInv, TimersInv', TopIs("callback"), UNCHANGED <<now, delayed>>,
           NEW id, id = Top.at, NEW ts, NEW list, Returned(id, ts, list)
    PROVE  \E as \in SUBSET AlarmClock!In({"claimed"}) :
             AlarmClock!Leave(id, NextAlarm(id, ts, list), as)
  <1>1. PICK new : new = NextAlarm(id, ts, list)
    OBVIOUS
  <1>2. /\ frames \in Seq(Frame) /\ frames # <<>> /\ id \in Id /\ timeout[id].firing = Depth
        /\ \A e \in Id : timeout[e].firing \in 0..Depth
        /\ Depth \in Nat \ {0} /\ ListsInv
    BY CallbackIs DEF TimersInv, TypeOK
  <1>3. \A e \in Id : ts[e].firing \in 0..Depth
    BY <1>2 DEF Returned
  <1>4. PICK us : us = timeout'
    OBVIOUS
  <1>5. DOMAIN ts = Id /\ ts \in Seq(Timeout) /\ (us = ts \/ us = Unmarked(ts))
    BY <1>4 DEF Returned
  <1>6. Released(ts, us, list, delayed)
    BY <1>2, <1>3, <1>5, ReleasedIs
  <1>7. PICK freed \in SUBSET Id :
          /\ DOMAIN us = Id
          /\ \A e \in Id : /\ us[e].when = ts[e].when /\ us[e].interval = ts[e].interval
                           /\ us[e].repeated = ts[e].repeated
          /\ \A e \in freed : StageAt(ts, list, delayed, e) = "claimed"
          /\ \A e \in Id : StageAt(us, list, delayed, e) =
               IF e \in freed THEN "waits" ELSE StageAt(ts, list, delayed, e)
    BY <1>6, <1>5 DEF Released
  <1>8. ASSUME NEW e \in Id, e # id
        PROVE  StageAt(ts, list, delayed, e) = StageAt(timeout, schedule, delayed, e)
    <2>1. /\ ts[e] = timeout[e]
          /\ (\E i \in DOMAIN list : list[i] = e) <=> \E i \in DOMAIN schedule : schedule[i] = e
      BY <1>8 DEF Returned
    <2> QED
      BY <2>1 DEF StageAt
  <1>9. StageAt(ts, list, delayed, id) = new.stage /\ new.stage # "claimed"
    <2>1. \E i \in DOMAIN schedule : schedule[i] = id
      <3>1. Ahead(timeout, schedule, id, Depth)
        BY CallbackIs
      <3>2. id # End
        BY <1>2, ListedIs DEF TimersInv, End
      <3> QED
        BY <3>1, <3>2 DEF Ahead
    <2>2. ~\E i \in DOMAIN delayed : delayed[i] = id
      BY <1>2, <2>1 DEF ListsInv, Apart
    <2>3. new.stage = IF \E i \in DOMAIN list : list[i] = id THEN "waits" ELSE "over"
      BY <1>1 DEF NextAlarm
    <2>4. ~ts[id].running /\ ts[id].firing = 0
      BY DEF Returned
    <2> QED
      BY <2>2, <2>3, <2>4 DEF StageAt
  <1>10. id \notin freed
    BY <1>7, <1>9
  <1>11. PICK claimed : claimed = AlarmClock!In({"claimed"})
    OBVIOUS
  <1>12. claimed = {a \in Id : StageAt(timeout, schedule, delayed, a) \in {"claimed"}}
    BY <1>11, InIs
  <1>13. freed \in SUBSET claimed
    <2>1. ASSUME NEW e \in freed PROVE e \in claimed
      <3>1. e \in Id /\ e # id /\ StageAt(ts, list, delayed, e) = "claimed"
        BY <1>7, <1>10, <2>1
      <3> QED
        BY <1>8, <1>12, <3>1
    <2> QED
      BY <2>1
  <1>14. SameTimes({id})
    <2>1. Id' = Id
      BY <1>4, <1>7 DEF Id
    <2>2. \A e \in Id \ {id} : /\ us[e].when = timeout[e].when
                               /\ us[e].interval = timeout[e].interval
                               /\ us[e].repeated = timeout[e].repeated
      BY <1>7 DEF Returned
    <2> QED
      BY <1>4, <2>1, <2>2 DEF SameTimes
  <1>15. schedule' = list
    BY DEF Returned
  <1>16. \A e \in Id \ {id} : StageAfter(e) = IF e \in freed THEN "waits" ELSE StageNow(e)
    BY <1>4, <1>7, <1>8, <1>15 DEF StageAfter, StageNow
  <1>17. Left(id, freed)
    BY <1>14, <1>16 DEF Left
  <1>18. AlarmAt(timeout', schedule', delayed', id) = new
    <2>1. StageAt(us, list, delayed, id) = new.stage
      BY <1>2, <1>7, <1>9, <1>10
    <2>2. /\ us[id].when = ts[id].when /\ us[id].interval = timeout[id].interval
          /\ us[id].repeated = timeout[id].repeated
      BY <1>2, <1>7 DEF Returned
    <2>3. new = [stage |-> new.stage, due |-> ts[id].when, every |-> timeout[id].interval,
                 again |-> timeout[id].repeated]
      BY <1>1 DEF NextAlarm
    <2>4. AlarmAt(us, list, delayed, id) = new
      BY <2>1, <2>2, <2>3 DEF AlarmAt
    <2> QED
      BY <1>4, <1>15, <2>4
  <1>19. AlarmClock!Leave(id, new, freed)
    BY <1>2, <1>17, <1>18, LeaveIs
  <1> QED
    BY <1>11, <1>13, <1>19, <1>1

\* A RunTimeout has looked at the clock before.
LastInv == \A f \in DOMAIN frames : frames[f].last <= now

LEMMA LastIs ==
    ASSUME TimersInv, LastInv, TopIs("callback") PROVE Top.last <= now
  <1>1. frames \in Seq(Frame) /\ frames # <<>>
    BY CallbackIs DEF TimersInv, TypeOK
  <1>2. Depth \in DOMAIN frames
    BY <1>1 DEF Depth
  <1> QED
    BY <1>2 DEF LastInv, Top

\* The callback has returned: a timeout is over, and an interval is due again within its
\* period.
LEMMA CallbackReturnsIsReturn ==
    ASSUME TimersInv, TimersInv', LastInv, CallbackReturns
    PROVE  \E as \in SUBSET AlarmClock!In({"claimed"}) :
             \E a \in AlarmClock!In({"rings"}) : AlarmClock!Return(a, as)
  <1>1. PICK id : id = Top.at
    OBVIOUS
  <1>2. PICK t : t = timeout[id]
    OBVIOUS
  <1>3. PICK r : r = Without(schedule, id)
    OBVIOUS
  <1>4. /\ TopIs("callback") /\ id \in Id /\ t.running /\ t.firing = Depth
        /\ Ahead(timeout, schedule, id, Depth) /\ Top \in Frame
    BY <1>1, <1>2, CallbackIs DEF CallbackReturns
  <1>5. /\ DOMAIN timeout = Id /\ t \in Timeout /\ timeout \in Seq(Timeout) /\ ListsInv
        /\ schedule \in Seq(Id) /\ Id \subseteq Nat \ {0} /\ now \in Nat
    BY <1>2, <1>4, ListedIs DEF TimersInv, TypeOK
  <1>6. UNCHANGED <<now, delayed>>
    BY DEF CallbackReturns
  <1>7. PICK p \in DOMAIN schedule : schedule[p] = id
    BY <1>4, <1>5 DEF Ahead, End
  <1>8. r \in Seq(Id) /\ \A e : e \in ToSet(r) <=> e \in ToSet(schedule) /\ e # id
    BY <1>3, <1>5, <1>7, WithoutKeeps DEF ListsInv
  <1>9. \A e : (\E i \in DOMAIN r : r[i] = e) <=> (\E i \in DOMAIN schedule : schedule[i] = e) /\ e # id
    BY <1>8 DEF ToSet
  <1>10. PICK A : A = Shown
    OBVIOUS
  <1>11. A[id] = AlarmAt(timeout, schedule, delayed, id)
    BY <1>4, <1>10, ShownIs
  <1>12. /\ A[id] = [stage |-> A[id].stage, due |-> t.when, every |-> t.interval,
                     again |-> t.repeated]
         /\ A[id].again = t.repeated /\ A[id].every = t.interval
    BY <1>2, <1>11 DEF AlarmAt
  <1>13. id \in AlarmClock!In({"rings"})
    <2>1. StageAt(timeout, schedule, delayed, id) = "rings"
      BY <1>2, <1>4 DEF StageAt
    <2> QED
      BY <1>4, <2>1, InIs
  <1>14. CASE ~t.repeated
    <2>1. PICK u : u = [[t EXCEPT !.running = FALSE] EXCEPT !.firing = 0]
      OBVIOUS
    <2>2. /\ u \in Timeout /\ ~u.running /\ u.firing = 0 /\ u.interval = t.interval
          /\ u.repeated = t.repeated /\ u.when = t.when
      BY <1>5, <2>1 DEF Timeout
    <2>3. PICK ts : ts = [timeout EXCEPT ![id] = u]
      OBVIOUS
    <2>4. schedule' = r /\ (timeout' = ts \/ timeout' = Unmarked(ts))
      BY <1>1, <1>2, <1>3, <1>14, <2>1, <2>3 DEF CallbackReturns, GoOnOrStop, RunTimeoutReturns
    <2>5. /\ ts \in Seq(Timeout) /\ DOMAIN ts = Id
          /\ ts[id] = u /\ \A e \in Id : e # id => ts[e] = timeout[e]
      BY <1>4, <1>5, <2>2, <2>3, ExceptIs
    <2>6. /\ ~ts[id].running /\ ts[id].firing = 0 /\ ts[id].interval = timeout[id].interval
          /\ ts[id].repeated = timeout[id].repeated /\ ts[id].when = t.when
      BY <1>2, <2>2, <2>5
    <2>7. \A e \in Id : e # id =>
            ((\E i \in DOMAIN r : r[i] = e) <=> \E i \in DOMAIN schedule : schedule[i] = e)
      BY <1>9
    <2>8. Returned(id, ts, r)
      BY <2>4, <2>5, <2>6, <2>7 DEF Returned
    <2>9. PICK as \in SUBSET AlarmClock!In({"claimed"}) :
            AlarmClock!Leave(id, NextAlarm(id, ts, r), as)
      BY <1>1, <1>4, <1>6, <2>8, ReturnedIsLeave
    <2>10. NextAlarm(id, ts, r) = [A[id] EXCEPT !.stage = "over"]
      <3>1. ~\E i \in DOMAIN r : r[i] = id
        BY <1>9
      <3> QED
        BY <1>2, <1>12, <2>6, <3>1 DEF NextAlarm
    <2>11. AlarmClock!Return(id, as)
      BY <1>10, <1>12, <1>14, <2>9, <2>10 DEF AlarmClock!Return
    <2> QED
      BY <1>13, <2>11
  <1>15. CASE t.repeated
    <2>1. PICK w : w = NextWhen(t)
      OBVIOUS
    <2>2. w \in Nat /\ w \in now..(now + t.interval)
      <3>1. Top.last \in Nat /\ t.interval \in Nat /\ Top.last <= now
        BY <1>4, <1>5, LastIs DEF Frame, Timeout
      <3>2. w = IF Top.last + t.interval < now THEN now ELSE Top.last + t.interval
        BY ONLY <2>1 DEF NextWhen
      <3>3. now \in Nat
        BY <1>5
      <3> QED
        BY ONLY <3>1, <3>2, <3>3
    <2>3. PICK u : u = [[t EXCEPT !.running = FALSE] EXCEPT !.when = w, !.firing = 0]
      OBVIOUS
    <2>4. /\ u \in Timeout /\ ~u.running /\ u.firing = 0 /\ u.when = w
          /\ u.interval = t.interval /\ u.repeated = t.repeated
      BY <1>5, <2>2, <2>3 DEF Timeout
    <2>5. PICK ts : ts = [timeout EXCEPT ![id] = u]
      OBVIOUS
    <2>6. PICK q : q = Inserted(r, id, w)
      OBVIOUS
    <2>7. schedule' = q /\ (timeout' = ts \/ timeout' = Unmarked(ts))
      BY <1>1, <1>2, <1>3, <1>15, <2>1, <2>3, <2>5, <2>6
         DEF CallbackReturns, GoOnOrStop, RunTimeoutReturns
    <2>8. /\ ts \in Seq(Timeout) /\ DOMAIN ts = Id
          /\ ts[id] = u /\ \A e \in Id : e # id => ts[e] = timeout[e]
      BY <1>4, <1>5, <2>4, <2>5, ExceptIs
    <2>9. /\ ~ts[id].running /\ ts[id].firing = 0 /\ ts[id].interval = timeout[id].interval
          /\ ts[id].repeated = timeout[id].repeated /\ ts[id].when = w
      BY <1>2, <2>4, <2>8
    <2>10. q \in Seq(Id) /\ \A e : e \in ToSet(q) <=> e \in ToSet(r) \/ e = id
      BY <1>4, <1>8, <2>6, InsertedHas
    <2>11. \A e : (\E i \in DOMAIN q : q[i] = e) <=> (\E i \in DOMAIN r : r[i] = e) \/ e = id
      BY <2>10 DEF ToSet
    <2>12. \A e \in Id : e # id =>
             ((\E i \in DOMAIN q : q[i] = e) <=> \E i \in DOMAIN schedule : schedule[i] = e)
      BY <1>9, <2>11
    <2>13. Returned(id, ts, q)
      BY <2>7, <2>8, <2>9, <2>12 DEF Returned
    <2>14. PICK as \in SUBSET AlarmClock!In({"claimed"}) :
             AlarmClock!Leave(id, NextAlarm(id, ts, q), as)
      BY <1>1, <1>4, <1>6, <2>13, ReturnedIsLeave
    <2>15. NextAlarm(id, ts, q) = [A[id] EXCEPT !.stage = "waits", !.due = w]
      <3>1. \E i \in DOMAIN q : q[i] = id
        BY <2>11
      <3>2. NextAlarm(id, ts, q) = [stage |-> "waits", due |-> w, every |-> t.interval,
                                    again |-> t.repeated]
        BY <1>2, <2>9, <3>1 DEF NextAlarm
      <3>3. PICK b : b = [A[id] EXCEPT !.stage = "waits"]
        OBVIOUS
      <3>4. b = [stage |-> "waits", due |-> t.when, every |-> t.interval, again |-> t.repeated]
        BY <1>12, <3>3
      <3>5. [b EXCEPT !.due = w] = [stage |-> "waits", due |-> w, every |-> t.interval,
                                    again |-> t.repeated]
        BY <3>4
      <3> QED
        BY <3>2, <3>3, <3>5
    <2>16. AlarmClock!Return(id, as)
      <3>1. Shown[id].again /\ w \in now..(now + Shown[id].every)
        BY <1>10, <1>12, <1>15, <2>2
      <3>2. AlarmClock!Leave(id, [Shown[id] EXCEPT !.stage = "waits", !.due = w], as)
        BY <1>10, <2>14, <2>15, Zenon
      <3> QED
        BY ONLY <3>1, <3>2, Zenon DEF AlarmClock!Return
    <2> QED
      BY <1>13, <2>16
  <1> QED
    BY <1>14, <1>15

\* The callback throws: it alone was on the stack, and every other alarm is over with it,
\* except for those that were put aside.
LEMMA CallbackFailsIsFail ==
    ASSUME TimersInv, TimersInv', CallbackFails
    PROVE  \E a \in AlarmClock!In({"rings"}) : AlarmClock!Fail(a)
  <1>1. PICK id : id = Top.at
    OBVIOUS
  <1>2. PICK ts : ts = [timeout EXCEPT ![id].running = FALSE]
    OBVIOUS
  <1>3. /\ TopIs("callback") /\ Depth = 1 /\ schedule' = <<>>
        /\ timeout' = Unmarked(ts) /\ UNCHANGED <<now, delayed>>
    BY <1>1, <1>2 DEF CallbackFails, StopAllTimeouts, RunTimeoutReturns
  <1>4. /\ frames \in Seq(Frame) /\ frames # <<>> /\ id \in Id
        /\ timeout \in Seq(Timeout) /\ \A e \in Id : timeout[e].firing \in 0..Depth
        /\ Calls(timeout, schedule, frames, 1) /\ timeout[id].running
    BY <1>1, <1>3, CallbackIs DEF TimersInv, TypeOK
  <1>5. PICK t : t = [timeout[id] EXCEPT !.running = FALSE]
    OBVIOUS
  <1>6. DOMAIN timeout = Id /\ \A e \in Id : timeout[e] \in Timeout
    BY ListedIs DEF TimersInv
  <1>7. /\ t \in Timeout /\ ~t.running /\ t.when = timeout[id].when
        /\ t.interval = timeout[id].interval /\ t.repeated = timeout[id].repeated
        /\ t.firing = timeout[id].firing
    BY <1>4, <1>5, <1>6 DEF Timeout
  <1>8. /\ ts \in Seq(Timeout) /\ DOMAIN ts = Id
        /\ ts[id] = t /\ \A e \in Id : e # id => ts[e] = timeout[e]
    <2>1. ts = [timeout EXCEPT ![id] = t]
      BY <1>2, <1>4, <1>5, <1>6
    <2> QED
      BY <1>4, <1>6, <1>7, <2>1, ExceptIs
  <1>9. \A e \in Id : /\ ts[e].when = timeout[e].when /\ ts[e].interval = timeout[e].interval
                      /\ ts[e].repeated = timeout[e].repeated
                      /\ ts[e].firing \in 0..Depth
    BY <1>4, <1>7, <1>8
  <1>10. \A e \in Id : ~ts[e].running /\ (timeout[e].running <=> e = id)
    <2>1. frames[1].at = id
      BY <1>1, <1>3 DEF Top
    <2>2. \A e \in Id : timeout[e].running <=> \E f \in 1..1 : frames[f].at = e
      BY <1>4, <1>6 DEF Calls
    <2> QED
      BY <1>7, <1>8, <2>1, <2>2
  <1>11. PICK us : us = timeout'
    OBVIOUS
  <1>12. /\ DOMAIN us = Id
         /\ \A e \in Id : /\ us[e].when = timeout[e].when /\ us[e].interval = timeout[e].interval
                          /\ us[e].repeated = timeout[e].repeated /\ ~us[e].running
    <2>1. us = Unmarked(ts)
      BY <1>3, <1>11
    <2>2. /\ DOMAIN us = Id
          /\ \A e \in Id : /\ us[e].when = ts[e].when /\ us[e].interval = ts[e].interval
                           /\ us[e].repeated = ts[e].repeated /\ us[e].running = ts[e].running
      BY <1>4, <1>8, <1>9, <2>1, UnmarkedIs
    <2> QED
      BY <1>9, <1>10, <2>2
  <1>13. PICK ends : ends = AlarmClock!In({"waits", "claimed"}) \cup {id}
    OBVIOUS
  <1>14. \A a \in Id : a \in ends <=>
           a = id \/ StageAt(timeout, schedule, delayed, a) \in {"waits", "claimed"}
    BY <1>13, InIs
  <1>15. \A a \in Id : StageAfter(a) = IF a \in ends THEN "over" ELSE StageNow(a)
    <2>1. SUFFICES ASSUME NEW a \in Id
                   PROVE  StageAt(us, <<>>, delayed, a) =
                            IF a \in ends THEN "over" ELSE StageAt(timeout, schedule, delayed, a)
      BY <1>3, <1>11 DEF StageAfter, StageNow
    <2>2. ~\E i \in DOMAIN <<>> : <<>>[i] = a
      OBVIOUS
    <2>3. StageAt(us, <<>>, delayed, a) =
            IF \E i \in DOMAIN delayed : delayed[i] = a THEN "aside" ELSE "over"
      BY <1>12, <2>2 DEF StageAt
    <2>4. CASE a = id
      <3>1. id \in ToSet(schedule)
        <4>1. Ahead(timeout, schedule, id, Depth) /\ id # End
          BY <1>1, <1>3, <1>4, CallbackIs, ListedIs DEF TimersInv, End
        <4> QED
          BY <4>1 DEF Ahead, ToSet
      <3>2. ~\E i \in DOMAIN delayed : delayed[i] = id
        BY <3>1 DEF TimersInv, ListsInv, Apart, ToSet
      <3> QED
        BY <1>14, <2>3, <2>4, <3>2
    <2>5. CASE a # id
      <3>1. ~timeout[a].running
        BY <1>10, <2>5
      <3> QED
        BY <1>14, <2>3, <2>5, <3>1 DEF StageAt
    <2> QED
      BY <2>4, <2>5
  <1>16. SameTimes({})
    BY <1>3, <1>11, <1>12 DEF SameTimes, Id
  <1>17. Moved(ends, "over")
    BY <1>15, <1>16 DEF Moved
  <1>18. AlarmClock!Move(ends, "over")
    BY <1>17, MoveIs
  <1>19. AlarmClock!Fail(id)
    BY <1>13, <1>18 DEF AlarmClock!Fail
  <1>20. id \in AlarmClock!In({"rings"})
    <2>1. StageAt(timeout, schedule, delayed, id) = "rings"
      BY <1>4 DEF StageAt
    <2> QED
      BY <1>4, <2>1, InIs
  <1> QED
    BY <1>19, <1>20

------------------------------------------------------------------------------
(* The refinement *)

\* Time goes on, and a RunTimeout looks at the clock anew.
LEMMA LastKeeps == ASSUME TimersInv, LastInv, [Next]_vars PROVE LastInv'
  <1>1. frames \in Seq(Frame) /\ now \in Nat /\ \A f \in DOMAIN frames : frames[f].last \in Nat
    <2>1. frames \in Seq(Frame) /\ now \in Nat
      BY DEF TimersInv, TypeOK
    <2>2. \A f \in DOMAIN frames : frames[f] \in Frame
      BY <2>1
    <2> QED
      BY <2>1, <2>2 DEF Frame
  <1>2. PICK d : d = Depth
    OBVIOUS
  <1>3. d \in Nat /\ d = Len(frames) /\ DOMAIN frames = 1..d
    BY <1>1, <1>2 DEF Depth
  <1>4. ASSUME frames' = frames, now' = now \/ now' = now + 1 PROVE LastInv'
    BY <1>1, <1>4 DEF LastInv
  <1>5. ASSUME frames # <<>>, frames' = SubSeq(frames, 1, Depth - 1), now' = now PROVE LastInv'
    <2>1. PICK fs : fs = SubSeq(frames, 1, Depth - 1)
      OBVIOUS
    <2>2. DOMAIN fs = 1..(d - 1) /\ \A f \in 1..(d - 1) : fs[f] = frames[f]
      <3>1. /\ fs \in Seq(Frame) /\ Len(fs) = Depth - 1 /\ Depth \in Nat \ {0}
            /\ \A f \in 1..(Depth - 1) : fs[f] = frames[f]
        BY <1>1, <1>5, <2>1, PoppedIs
      <3> QED
        BY <1>2, <3>1
    <2>3. \A f \in DOMAIN fs : fs[f].last <= now
      BY <1>3, <2>2 DEF LastInv
    <2> QED
      BY <1>5, <2>1, <2>3 DEF LastInv
  <1>6. ASSUME NEW fr, fr.last <= now, frames' = [frames EXCEPT ![Depth] = fr], now' = now
        PROVE  LastInv'
    <2>1. PICK fs : fs = frames'
      OBVIOUS
    <2>2. DOMAIN fs = DOMAIN frames /\ \A f \in DOMAIN fs : fs[f] = fr \/ fs[f] = frames[f]
      BY <1>2, <1>6, <2>1
    <2>3. \A f \in DOMAIN fs : fs[f].last <= now
      BY <1>6, <2>2 DEF LastInv
    <2> QED
      BY <1>6, <2>1, <2>3 DEF LastInv
  <1>7. ASSUME frames # <<>>, NEW ts, NEW x, NEW next, NEW last, last <= now,
               GoOnOrStop(ts, x, next, last), now' = now
        PROVE  LastInv'
    <2>1. PICK fr : fr = [pc |-> "loop", at |-> next, last |-> last]
      OBVIOUS
    <2>2. fr.last <= now
      BY <1>7, <2>1
    <2>3. frames' = [frames EXCEPT ![Depth] = fr] \/ frames' = SubSeq(frames, 1, Depth - 1)
      BY <1>7, <2>1 DEF GoOnOrStop, RunTimeoutReturns
    <2> QED
      BY <1>5, <1>6, <1>7, <2>2, <2>3
  <1>8. CASE Receive
    <2>1. PICK fr : fr = [pc |-> "loop", at |-> schedule[1], last |-> now]
      OBVIOUS
    <2>2. frames' = frames \/ frames' = Append(frames, fr)
      BY <1>8, <2>1 DEF Receive, MaybeExecute, RunTimeout
    <2>3. now' = now
      BY <1>8 DEF Receive
    <2>4. CASE frames' = Append(frames, fr)
      <3>1. PICK fs : fs = Append(frames, fr)
        OBVIOUS
      <3>2. DOMAIN fs = 1..(d + 1) /\ fs[d + 1] = fr /\ \A f \in 1..d : fs[f] = frames[f]
        BY <1>1, <1>3, <3>1
      <3>3. fr.last <= now
        BY <1>1, <2>1
      <3>4. \A f \in 1..(d + 1) : f \in 1..d \/ f = d + 1
        BY <1>3
      <3>5. \A f \in DOMAIN fs : fs[f].last <= now
        BY <1>3, <3>2, <3>3, <3>4 DEF LastInv
      <3> QED
        BY <2>3, <2>4, <3>1, <3>5 DEF LastInv
    <2> QED
      BY <1>4, <2>2, <2>3, <2>4
  <1>9. CASE LoopEnds \/ CallbackFails
    <2>1. frames # <<>>
      BY <1>9 DEF LoopEnds, CallbackFails, TopIs
    <2>2. frames' = SubSeq(frames, 1, Depth - 1) /\ now' = now
      BY <1>9 DEF LoopEnds, CallbackFails, RunTimeoutReturns
    <2> QED
      BY <1>5, <2>1, <2>2
  <1>10. CASE DeferTimeout
    <2>1. frames # <<>> /\ now' = now
      BY <1>10 DEF DeferTimeout, TopIs
    <2>2. PICK last : last = Top.last
      OBVIOUS
    <2>3. last <= now
      <3>1. Depth \in DOMAIN frames
        BY <1>1, <2>1 DEF Depth
      <3> QED
        BY <2>2, <3>1 DEF LastInv, Top
    <2>4. \E next : GoOnOrStop(timeout, wake, next, last)
      BY <1>10, <2>2 DEF DeferTimeout
    <2> QED
      BY <1>7, <2>1, <2>3, <2>4
  <1>11. CASE CallTimeout
    <2>1. PICK fr : fr = [frames[d] EXCEPT !.pc = "callback", !.at = NextToRun]
      OBVIOUS
    <2>2. d \in DOMAIN frames
      BY <1>1, <1>3, <1>11 DEF CallTimeout, TopIs
    <2>3. frames[d] \in Frame
      BY <1>1, <2>2
    <2>4. fr.last = frames[d].last
      BY <2>1, <2>3 DEF Frame
    <2>5. frames' = [frames EXCEPT ![Depth] = fr] /\ now' = now
      BY <1>2, <1>11, <2>1, <2>2 DEF CallTimeout
    <2>6. fr.last <= now
      BY <2>2, <2>4 DEF LastInv
    <2> QED
      BY <1>6, <2>5, <2>6
  <1>12. CASE CallbackReturns
    <2>1. frames # <<>> /\ now' = now
      BY <1>12 DEF CallbackReturns, TopIs
    <2>2. \E ts, x, next : GoOnOrStop(ts, x, next, now)
      BY <1>12 DEF CallbackReturns
    <2>3. now <= now
      BY <1>1
    <2> QED
      BY <1>7, <2>1, <2>2, <2>3
  <1>13. CASE \/ TimerProcStarts \/ TimerProcPosts \/ Tick
              \/ BeginLoad \/ EndLoad \/ UnloadScript \/ OnDestroy
              \/ (\E e \in Delay, r \in BOOLEAN : CreateTimeout(e, r))
              \/ (\E e \in Id : ClearTimeout(e))
              \/ UNCHANGED vars
    <2>1. frames' = frames /\ (now' = now \/ now' = now + 1)
      BY <1>13 DEF TimerProcStarts, TimerProcPosts, Tick, BeginLoad, EndLoad, UnloadScript,
         OnDestroy, CreateTimeout, ClearTimeout, vars
    <2> QED
      BY <1>4, <2>1
  <1> QED
    BY <1>8, <1>9, <1>10, <1>11, <1>12, <1>13
       DEF Next, MainStep, TimerThread, ScriptStep, Loading

LEMMA AlarmsStep ==
    TimersInv /\ TimersInv' /\ LastInv /\ [Next]_vars => [AlarmClock!Next]_(AlarmClock!alarmVars)
  <1> SUFFICES ASSUME TimersInv, TimersInv', LastInv, [Next]_vars
               PROVE  AlarmClock!Next \/ UNCHANGED AlarmClock!alarmVars
    OBVIOUS
  <1>1. CASE Receive
    BY <1>1, ReceiveIsClaim DEF AlarmClock!Next
  <1>2. CASE LoopEnds
    BY <1>2, LoopEndsIsRelease DEF AlarmClock!Next
  <1>3. CASE DeferTimeout
    BY <1>3, DeferTimeoutIsPutAside DEF AlarmClock!Next
  <1>4. CASE CallTimeout
    BY <1>4, CallTimeoutIsRing DEF AlarmClock!Next
  <1>5. CASE CallbackReturns
    BY <1>5, CallbackReturnsIsReturn DEF AlarmClock!Next
  <1>6. CASE TimerProcStarts \/ TimerProcPosts \/ UNCHANGED vars
    <2>1. UNCHANGED <<now, timeout, schedule, delayed>>
      BY <1>6 DEF TimerProcStarts, TimerProcPosts, vars
    <2> QED
      BY <2>1, SameLists
  <1>7. ASSUME NEW d \in Delay, NEW r \in BOOLEAN, CreateTimeout(d, r) PROVE AlarmClock!Next
    BY <1>7, CreateTimeoutIsSet DEF AlarmClock!Next
  <1>8. ASSUME NEW id \in Id, ClearTimeout(id)
        PROVE  AlarmClock!Next \/ UNCHANGED AlarmClock!alarmVars
    BY <1>8, ClearTimeoutIsCancel DEF AlarmClock!Next
  <1>9. CASE CallbackFails
    BY <1>9, CallbackFailsIsFail DEF AlarmClock!Next
  <1>10. CASE BeginLoad
    <2>1. CASE isLoading
      <3>1. UNCHANGED <<now, timeout, schedule, delayed>>
        BY <1>10, <2>1 DEF BeginLoad
      <3> QED
        BY <3>1, SameLists
    <2>2. CASE ~isLoading
      <3>1. frames = <<>> /\ UNCHANGED <<now, timeout>> /\ schedule' = <<>> /\ delayed' = delayed
        BY <1>10, <2>2 DEF BeginLoad, StopAllTimeouts
      <3> QED
        BY <3>1, EmptiedIsDrop DEF AlarmClock!Next
    <2> QED
      BY <2>1, <2>2
  <1>11. CASE EndLoad
    BY <1>11, EndLoadIsTakeUp DEF AlarmClock!Next
  <1>12. CASE UnloadScript
    <2>1. frames = <<>> /\ UNCHANGED <<now, timeout>> /\ schedule' = <<>> /\ delayed' = delayed
      BY <1>12 DEF UnloadScript, StopAllTimeouts
    <2> QED
      BY <2>1, EmptiedIsDrop DEF AlarmClock!Next
  <1>13. CASE OnDestroy
    <2>1. frames = <<>> /\ UNCHANGED <<now, timeout>> /\ schedule' = <<>> /\ delayed' = <<>>
      BY <1>13 DEF OnDestroy
    <2> QED
      BY <2>1, EmptiedIsDrop DEF AlarmClock!Next
  <1>14. CASE Tick
    BY <1>14, TickIsPass DEF AlarmClock!Next
  <1> QED
    BY <1>1, <1>2, <1>3, <1>4, <1>5, <1>6, <1>7, <1>8, <1>9, <1>10, <1>11, <1>12, <1>13, <1>14
       DEF Next, MainStep, TimerThread, ScriptStep, Loading

LEMMA AlarmsInit == Init => AlarmClock!Init
  <1> SUFFICES ASSUME Init PROVE AlarmClock!Init
    OBVIOUS
  <1>1. now = 0 /\ timeout = <<>>
    BY DEF Init
  <1>2. Id = {}
    BY <1>1 DEF Id
  <1>3. Shown = <<>>
    BY <1>2 DEF Shown
  <1> QED
    BY <1>1, <1>3 DEF AlarmClock!Init

LEMMA LastInitHolds == Init => LastInv
  BY DEF Init, LastInv

\* The list, the marks, the nested RunTimeout calls, the loads and the failures together
\* are the alarm clock that a script expects: rounds claim what is due, the earliest
\* first; nothing rings that was not claimed, or before its time, or while it rings; an
\* interval is due again within its period, and what is over stays over.
THEOREM ImplementsAlarms == Spec => AlarmsSpec
  <1>1. Init => AlarmClock!Init
    BY AlarmsInit
  <1>2. Init => LastInv
    BY LastInitHolds
  <1>3. TimersInv /\ LastInv /\ [Next]_vars => LastInv'
    BY LastKeeps
  <1>4. TimersInv /\ TimersInv' /\ LastInv /\ [Next]_vars =>
          [AlarmClock!Next]_(AlarmClock!alarmVars)
    BY AlarmsStep
  <1> QED
    BY <1>1, <1>2, <1>3, <1>4, TimersInvariant, PTL DEF Spec, AlarmsSpec, AlarmClock!Spec

=============================================================================
