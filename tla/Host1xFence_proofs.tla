-------------------------- MODULE Host1xFence_proofs --------------------------
(***************************************************************************)
(* For any number of fences, any counter range and any backlog that keeps  *)
(* thresholds comparable: references are accounted for, a fence that       *)
(* reports success has reached its threshold, a callback that was removed  *)
(* and a fence that was cancelled are out of everyone's reach, and no      *)
(* fence in the list is missed.                                            *)
(*                                                                         *)
(* The inductive invariant ties the three actors that reach a fence to     *)
(* each other (Accounted, Staged), the thresholds to the counter and to    *)
(* the values read before (Told, Lag), and the list to the comparator      *)
(* (Ordered, Programmed).                                                  *)
(***************************************************************************)
EXTENDS Host1xFence, SequenceTheorems, WellFoundedInduction, TLAPS

In(f) == Contains(list, f)

\* The references f has: its user's, the list's or the handler's, the work item's.
Accounted(f) ==
  fence[f].refs =
    One(user[f] # "none") + One(In(f)) + One(isr_fence = f)
      + One(fence[f].timeout /\ work[f] # "off")

\* Threshold t is at most Backlog behind counter value v, or ahead of it by
\* no more than an offset somebody asked for.
Near(v, t) ==
  \/ Ahead(v, t) <= Backlog
  \/ \E k \in Offsets : Ahead(t, v) <= k

\* Where the three actors can be with f.
Staged(f) ==
  /\ ~ fence[f].timeout /\ work[f] # "off" => user[f] = "flush"
  /\ user[f] = "made" => work[f] = "off" /\ ~ In(f) /\ isr_fence # f /\ ~ fence[f].signaling
  /\ fence[f].signaling /\ In(f) => work[f] = "remove"
  /\ isr_fence = f => ~ In(f)
  /\ work[f] \in {"error", "signal", "callback", "put"} => ~ In(f)
  /\ user[f] = "flush" /\ work[f] = "off" => ~ In(f)
  /\ user[f] \in {"cancelled", "done"} => work[f] = "off" /\ ~ In(f)
  /\ user[f] = "done" => isr_fence # f

\* Whose callback may still be called, and who is calling it.
Calls(f) ==
  /\ cb[f] # "none" => user[f] = "wait"
  /\ cb[f] = "running" => isr_fence = f \/ work[f] = "callback"

\* The threshold and what has been said about it.
Told(f) ==
  /\ fence[f].refs = 0 => ~ fence[f].signaled
  /\ fence[f].refs > 0 => Near(value, fence[f].threshold)
  /\ isr_fence = f => Reached(f)
  /\ fence[f].signaled /\ ~ fence[f].error => Reached(f)
  /\ work[f] = "signal" => fence[f].error

FenceOK(f) == Accounted(f) /\ Staged(f) /\ Calls(f) /\ Told(f)

FencesOK == \A f \in Fences : FenceOK(f)

\* The values read last lag behind the counter by no more than the backlog.
Lag ==
  /\ Ahead(value, min_val) <= Backlog
  /\ isr \in HasValue => Ahead(value, isr_val) <= Backlog
  /\ isr \in {"signal", "callback"} <=> isr_fence \in Fences

\* Every fence is in the list once, in the order of the thresholds.
Ordered ==
  \A i, j \in 1..Len(list) :
    i < j => /\ list[i] # list[j]
             /\ ~ Before(fence[list[j]].threshold, fence[list[i]].threshold)

\* The comparator holds the first threshold, and the interrupt is pending if that
\* is reached, unless the handler runs.
Programmed ==
  /\ isr = "idle" => /\ enabled <=> list # <<>>
                     /\ list # <<>> => thresh = fence[Head(list)].threshold
                     /\ enabled /\ ~ Before(value, thresh) => status

IInv == TypeOK /\ FencesOK /\ Lag /\ Ordered /\ Programmed

--------------------------------------------------------------------------------
(* The counter. *)

Points == 0..(Mod - 1)

LEMMA HalfFacts ==
  /\ Mod \div 2 \in Nat /\ Mod = 2 * (Mod \div 2)
  /\ Backlog \in Nat /\ Backlog < Mod \div 2
  /\ \A k \in Offsets : k \in Points /\ Backlog + k < Mod \div 2
BY ModAssumption, BacklogAssumption, OffsetsAssumption, ComparableAssumption DEF Points

LEMMA AheadIs ==
  \A a, b \in Points : Ahead(a, b) = IF a >= b THEN a - b ELSE a - b + Mod
<1> SUFFICES ASSUME NEW a \in Points, NEW b \in Points
    PROVE Ahead(a, b) = IF a >= b THEN a - b ELSE a - b + Mod
  OBVIOUS
<1>1. \A x \in 0..(Mod - 1) : x % Mod = x
  BY ModAssumption
<1>2. \A x \in Mod..(2 * Mod - 1) : x % Mod = x - Mod
  BY ModAssumption
<1> QED BY <1>1, <1>2, ModAssumption DEF Ahead, Points

LEMMA AddIs ==
  \A a, k \in Points : Add(a, k) = IF a + k < Mod THEN a + k ELSE a + k - Mod
<1> SUFFICES ASSUME NEW a \in Points, NEW k \in Points
    PROVE Add(a, k) = IF a + k < Mod THEN a + k ELSE a + k - Mod
  OBVIOUS
<1>1. \A x \in 0..(Mod - 1) : x % Mod = x
  BY ModAssumption
<1>2. \A x \in Mod..(2 * Mod - 1) : x % Mod = x - Mod
  BY ModAssumption
<1> QED BY <1>1, <1>2, ModAssumption DEF Add, Points

\* An old value that is past a threshold in use proves that the counter is.
LEMMA ExpiredIsReached ==
  \A v, m, t \in Points :
    Near(v, t) /\ Ahead(v, m) <= Backlog /\ ~ Before(m, t) => ~ Before(v, t)
<1> SUFFICES ASSUME NEW v \in Points, NEW m \in Points, NEW t \in Points,
                    Near(v, t), Ahead(v, m) <= Backlog, ~ Before(m, t), Before(v, t)
    PROVE FALSE
  OBVIOUS
<1> DEFINE half == Mod \div 2
<1>1. half \in Nat /\ Mod = 2 * half /\ Backlog \in Nat /\ Backlog < half
  BY HalfFacts
<1> HIDE DEF half
<1>2. ~ Ahead(v, t) <= Backlog
  BY <1>1, AheadIs DEF Before, Points, half
<1>3. PICK k \in Offsets : Ahead(t, v) <= k
  BY <1>2 DEF Near
<1>4. k \in Points /\ Backlog + k < half
  BY HalfFacts DEF half
<1>5. /\ Ahead(t, v) = IF t >= v THEN t - v ELSE t - v + Mod
      /\ Ahead(v, m) = IF v >= m THEN v - m ELSE v - m + Mod
      /\ Ahead(m, t) = IF m >= t THEN m - t ELSE m - t + Mod
      /\ Ahead(v, t) = IF v >= t THEN v - t ELSE v - t + Mod
  BY AheadIs
<1>6. Ahead(m, t) < half /\ Ahead(v, t) >= half
  BY <1>1, <1>5 DEF Before, Points, half
<1> QED BY <1>1, <1>3, <1>4, <1>5, <1>6 DEF Points

\* One increment keeps a threshold in use near, and reached if it was.
LEMMA IncrementFacts ==
  \A v \in Points :
    /\ Add(v, 1) \in Points
    /\ \A m \in Points : Ahead(v, m) < Backlog => Ahead(Add(v, 1), m) <= Backlog
    /\ \A t \in Points :
         Near(v, t) /\ (~ Before(v, t) => Ahead(v, t) < Backlog)
           => /\ Near(Add(v, 1), t)
              /\ ~ Before(v, t) => ~ Before(Add(v, 1), t)
<1> SUFFICES ASSUME NEW v \in Points
    PROVE  /\ Add(v, 1) \in Points
           /\ \A m \in Points : Ahead(v, m) < Backlog => Ahead(Add(v, 1), m) <= Backlog
           /\ \A t \in Points :
                Near(v, t) /\ (~ Before(v, t) => Ahead(v, t) < Backlog)
                  => /\ Near(Add(v, 1), t)
                     /\ ~ Before(v, t) => ~ Before(Add(v, 1), t)
  OBVIOUS
<1> DEFINE half == Mod \div 2
           w == Add(v, 1)
<1>1. half \in Nat /\ Mod = 2 * half /\ Backlog \in Nat /\ Backlog < half
  BY HalfFacts
<1> HIDE DEF half
<1>2. w = (IF v + 1 < Mod THEN v + 1 ELSE v + 1 - Mod) /\ w \in Points
  <2>1. 1 \in Points
    BY <1>1 DEF Points
  <2> QED BY <2>1, AddIs, ModAssumption DEF Points
<1> HIDE DEF w
<1>3. ASSUME NEW m \in Points, Ahead(v, m) < Backlog PROVE Ahead(w, m) = Ahead(v, m) + 1
  <2>1. /\ Ahead(v, m) = IF v >= m THEN v - m ELSE v - m + Mod
        /\ Ahead(w, m) = IF w >= m THEN w - m ELSE w - m + Mod
    BY <1>2, AheadIs
  <2> QED BY <1>1, <1>2, <1>3, <2>1 DEF Points
<1>4. ASSUME NEW t \in Points, Near(v, t), ~ Before(v, t) => Ahead(v, t) < Backlog
      PROVE  Near(w, t) /\ (~ Before(v, t) => ~ Before(w, t))
  <2>1. CASE ~ Before(v, t)
    <3>1. Ahead(w, t) = Ahead(v, t) + 1 /\ Ahead(v, t) \in Nat
      BY <1>3, <1>4, <2>1, AheadIs, ModAssumption DEF Points
    <3> QED BY <1>1, <1>4, <2>1, <3>1 DEF Near, Before, half
  <2>2. CASE Before(v, t)
    <3>1. ~ Ahead(v, t) <= Backlog
      BY <1>1, <2>2, AheadIs DEF Before, half, Points
    <3>2. PICK k \in Offsets : Ahead(t, v) <= k
      BY <1>4, <3>1 DEF Near
    <3>3. /\ Ahead(t, v) = IF t >= v THEN t - v ELSE t - v + Mod
          /\ Ahead(v, t) = IF v >= t THEN v - t ELSE v - t + Mod
          /\ Ahead(t, w) = IF t >= w THEN t - w ELSE t - w + Mod
      BY <1>2, AheadIs
    <3>4. k \in Nat /\ Backlog + k < half
      BY HalfFacts DEF half, Points
    <3>5. Ahead(v, t) >= half
      BY <2>2 DEF Before, half
    <3>6. Ahead(t, w) <= k
      BY <1>1, <1>2, <3>2, <3>3, <3>4, <3>5 DEF Points
    <3> QED BY <2>2, <3>6 DEF Near
  <2> QED BY <2>1, <2>2
<1>5. ASSUME NEW m \in Points, Ahead(v, m) < Backlog PROVE Ahead(w, m) <= Backlog
  <2>1. Ahead(w, m) = Ahead(v, m) + 1 /\ Ahead(v, m) \in Nat
    BY <1>3, <1>5, AheadIs, ModAssumption DEF Points
  <2> QED BY <1>1, <1>5, <2>1
<1> QED BY <1>2, <1>4, <1>5 DEF w

LEMMA NewThreshold ==
  \A v, m \in Points : \A k \in Offsets :
    Ahead(v, m) <= Backlog => Add(m, k) \in Points /\ Near(v, Add(m, k))
<1> SUFFICES ASSUME NEW v \in Points, NEW m \in Points, NEW k \in Offsets,
                    Ahead(v, m) <= Backlog
    PROVE Add(m, k) \in Points /\ Near(v, Add(m, k))
  OBVIOUS
<1> DEFINE half == Mod \div 2
           t == Add(m, k)
<1>1. /\ half \in Nat /\ Mod = 2 * half /\ Backlog \in Nat /\ Backlog < half
      /\ k \in Points /\ Backlog + k < half
  BY HalfFacts
<1> HIDE DEF half
<1>2. t = (IF m + k < Mod THEN m + k ELSE m + k - Mod) /\ t \in Points
  BY <1>1, AddIs, ModAssumption DEF Points
<1> HIDE DEF t
<1>3. /\ Ahead(v, t) = IF v >= t THEN v - t ELSE v - t + Mod
      /\ Ahead(t, v) = IF t >= v THEN t - v ELSE t - v + Mod
      /\ Ahead(v, m) = IF v >= m THEN v - m ELSE v - m + Mod
  BY <1>2, AheadIs
<1>4. Ahead(v, t) <= Backlog \/ Ahead(t, v) <= k
  BY <1>1, <1>2, <1>3 DEF Points
<1> QED BY <1>2, <1>4 DEF Near, t

\* Thresholds in use are linearly ordered, the reached ones first.
LEMMA OrderFacts ==
  \A v, r, s, t \in Points :
    Near(v, r) /\ Near(v, s) /\ Near(v, t)
      => /\ ~ Before(s, r) /\ ~ Before(t, s) => ~ Before(t, r)
         /\ Before(t, s) => ~ Before(s, t)
         /\ ~ Before(t, s) /\ ~ Before(v, t) => ~ Before(v, s)
<1> SUFFICES ASSUME NEW v \in Points, NEW r \in Points, NEW s \in Points, NEW t \in Points,
                    Near(v, r), Near(v, s), Near(v, t)
    PROVE /\ ~ Before(s, r) /\ ~ Before(t, s) => ~ Before(t, r)
          /\ Before(t, s) => ~ Before(s, t)
          /\ ~ Before(t, s) /\ ~ Before(v, t) => ~ Before(v, s)
  OBVIOUS
<1> DEFINE half == Mod \div 2
           off(x) == IF Ahead(v, x) <= Backlog THEN - Ahead(v, x) ELSE Ahead(x, v)
<1>1. half \in Nat /\ Mod = 2 * half /\ Backlog \in Nat /\ Backlog < half
  BY HalfFacts
<1> HIDE DEF half
<1>2. ASSUME NEW x \in Points, Near(v, x)
      PROVE  /\ off(x) \in Int /\ - Backlog <= off(x) /\ off(x) + Backlog < half
             /\ x = v + off(x) \/ x = v + off(x) + Mod \/ x = v + off(x) - Mod
  <2>1. /\ Ahead(v, x) = IF v >= x THEN v - x ELSE v - x + Mod
        /\ Ahead(x, v) = IF x >= v THEN x - v ELSE x - v + Mod
    BY AheadIs
  <2>2. CASE Ahead(v, x) <= Backlog
    BY <1>1, <2>1, <2>2 DEF Points
  <2>3. CASE ~ Ahead(v, x) <= Backlog
    <3>1. PICK k \in Offsets : Ahead(x, v) <= k
      BY <1>2, <2>3 DEF Near
    <3>2. k \in Nat /\ Backlog + k < half
      BY HalfFacts DEF half, Points
    <3> QED BY <1>1, <2>1, <2>3, <3>1, <3>2 DEF Points
  <2> QED BY <2>2, <2>3
<1> HIDE DEF off
<1>3. ASSUME NEW x \in Points, NEW y \in Points, Near(v, x), Near(v, y)
      PROVE  Before(x, y) <=> off(x) < off(y)
  <2>1. Ahead(x, y) = IF x >= y THEN x - y ELSE x - y + Mod
    BY AheadIs
  <2> QED BY <1>1, <1>2, <1>3, <2>1 DEF Before, Points, half
<1>4. Near(v, v) /\ off(v) = 0
  BY <1>1, AheadIs DEF Near, off, Points
<1> QED BY <1>2, <1>3, <1>4

--------------------------------------------------------------------------------
(* The list. *)

LEMMA InsertFacts ==
  ASSUME NEW S, NEW l \in Seq(S), NEW k \in 1..(Len(l) + 1), NEW f \in S
  PROVE  /\ InsertAt(l, k, f) \in Seq(S)
         /\ Len(InsertAt(l, k, f)) = Len(l) + 1
         /\ \A i \in 1..(k - 1) : InsertAt(l, k, f)[i] = l[i]
         /\ InsertAt(l, k, f)[k] = f
         /\ \A i \in (k + 1)..(Len(l) + 1) : InsertAt(l, k, f)[i] = l[i - 1]
<1> DEFINE a == SubSeq(l, 1, k - 1)
           b == SubSeq(l, k, Len(l))
           c == a \o <<f>>
           r == InsertAt(l, k, f)
<1>1. Len(l) \in Nat
  OBVIOUS
<1>2. /\ a \in Seq(S) /\ Len(a) = k - 1 /\ \A i \in 1..(k - 1) : a[i] = l[i]
      /\ b \in Seq(S) /\ Len(b) = Len(l) - (k - 1)
      /\ \A i \in 1..(Len(l) - (k - 1)) : b[i] = l[(k - 1) + i]
  BY <1>1
<1>3. r = c \o b
  BY DEF InsertAt
<1> HIDE DEF a, b, r
<1>4. /\ c \in Seq(S) /\ Len(c) = k
      /\ \A i \in 1..(k - 1) : c[i] = l[i]
      /\ c[k] = f
  BY <1>2
<1> HIDE DEF c
<1>5. r \in Seq(S) /\ Len(r) = Len(l) + 1
  <2>1. r \in Seq(S) /\ Len(r) = Len(c) + Len(b)
    BY <1>2, <1>3, <1>4, ConcatProperties
  <2> QED BY <1>1, <1>2, <1>4, <2>1
<1>6. /\ \A i \in 1..(k - 1) : r[i] = l[i]
      /\ r[k] = f
  BY <1>1, <1>2, <1>3, <1>4
<1>7. ASSUME NEW i \in (k + 1)..(Len(l) + 1) PROVE r[i] = l[i - 1]
  <2>1. i - k \in 1..(Len(l) - (k - 1)) /\ (k - 1) + (i - k) = i - 1
    BY <1>1
  <2>2. r[i] = b[i - k]
    <3>1. i \in 1..(Len(c) + Len(b)) /\ ~ i <= Len(c)
      BY <1>1, <1>2, <1>4, <1>7
    <3>2. r[i] = b[i - Len(c)]
      BY <1>2, <1>3, <1>4, <3>1, ConcatProperties
    <3> QED BY <1>4, <3>2
  <2> QED BY <1>2, <2>1, <2>2
<1> QED BY <1>5, <1>6, <1>7 DEF r

LEMMA RemoveFacts ==
  ASSUME NEW S, NEW l \in Seq(S), NEW n \in 1..Len(l)
  PROVE  /\ RemoveAt(l, n) \in Seq(S) /\ Len(RemoveAt(l, n)) = Len(l) - 1
         /\ \A i \in 1..(n - 1) : RemoveAt(l, n)[i] = l[i]
         /\ \A i \in n..(Len(l) - 1) : RemoveAt(l, n)[i] = l[i + 1]
<1> DEFINE a == SubSeq(l, 1, n - 1)
           b == SubSeq(l, n + 1, Len(l))
           r == RemoveAt(l, n)
<1>1. Len(l) \in Nat
  OBVIOUS
<1>2. /\ a \in Seq(S) /\ Len(a) = n - 1 /\ \A i \in 1..(n - 1) : a[i] = l[i]
      /\ b \in Seq(S) /\ Len(b) = Len(l) - n
      /\ \A i \in 1..(Len(l) - n) : b[i] = l[n + i]
  BY <1>1
<1>3. r = a \o b
  BY DEF RemoveAt
<1> HIDE DEF a, b, r
<1>4. r \in Seq(S) /\ Len(r) = Len(l) - 1 /\ \A i \in 1..(n - 1) : r[i] = l[i]
  BY <1>1, <1>2, <1>3
<1>5. ASSUME NEW i \in n..(Len(l) - 1) PROVE r[i] = l[i + 1]
  <2>1. i - (n - 1) \in 1..(Len(l) - n) /\ n + (i - (n - 1)) = i + 1
    BY <1>1
  <2>2. r[i] = b[i - (n - 1)]
    <3>1. i \in 1..(Len(a) + Len(b)) /\ ~ i <= Len(a)
      BY <1>1, <1>2, <1>5
    <3>2. r[i] = b[i - Len(a)]
      BY <1>2, <1>3, <3>1, ConcatProperties
    <3> QED BY <1>2, <3>2
  <2> QED BY <1>2, <2>1, <2>2
<1> QED BY <1>4, <1>5 DEF r

LEMMA MaxFacts ==
  ASSUME NEW n \in Nat, NEW S \in SUBSET (1..n), S # {}
  PROVE  Max(S) \in S /\ \A y \in S : Max(S) >= y
<1> DEFINE T == {n - x : x \in S}
<1>1. T \subseteq Nat
  OBVIOUS
<1>2. T # {}
  <2>1. PICK x : x \in S
    OBVIOUS
  <2> QED BY <2>1
<1>3. PICK m \in T : \A y \in T : ~ (y < m)
  <2>1. PICK m \in T : \A y \in T : ~ (<<y, m>> \in OpToRel(<, Nat))
    BY <1>1, <1>2, WFMin, NatLessThanWellFounded
  <2> QED BY <1>1, <2>1 DEF OpToRel
<1>4. PICK x \in S : m = n - x
  BY <1>3
<1>5. \A y \in S : x >= y
  <2> TAKE y \in S
  <2>1. n - y \in T
    OBVIOUS
  <2>2. ~ (n - y < n - x)
    BY <1>3, <1>4, <2>1
  <2> QED BY <2>2
<1> QED BY <1>5 DEF Max

LEMMA InFacts ==
  ASSUME TypeOK
  PROVE  /\ \A i \in 1..Len(list) : list[i] \in Fences /\ In(list[i])
         /\ list # <<>> => Head(list) = list[1] /\ 1 \in 1..Len(list)
BY DEF TypeOK, In, Contains

LEMMA HasRef ==
  ASSUME TypeOK, NEW f \in Fences, Accounted(f)
  PROVE  /\ fence[f].refs \in Nat
         /\ \/ user[f] # "none" \/ In(f) \/ isr_fence = f
            \/ fence[f].timeout /\ work[f] # "off"
            => fence[f].refs > 0
<1>1. fence[f].refs \in Nat
  BY DEF TypeOK
<1> QED BY <1>1 DEF Accounted, One

\* Removing the entry at place n takes that fence out and no other, and leaves
\* the rest in order.
LEMMA TakeOut ==
  ASSUME TypeOK, Ordered, NEW n \in 1..Len(list), list' = RemoveAt(list, n)
  PROVE  /\ list' \in Seq(Fences)
         /\ \A g \in Fences : In(g)' <=> In(g) /\ g # list[n]
         /\ (\A g \in Fences : In(g)' => fence'[g].threshold = fence[g].threshold) => Ordered'
<1>1. list \in Seq(Fences) /\ Len(list) \in Nat
  BY DEF TypeOK
<1>2. /\ list' \in Seq(Fences) /\ Len(list') = Len(list) - 1
      /\ \A i \in 1..(n - 1) : list'[i] = list[i]
      /\ \A i \in n..(Len(list) - 1) : list'[i] = list[i + 1]
  BY <1>1, RemoveFacts
<1> DEFINE old(i) == IF i < n THEN i ELSE i + 1
<1>3. ASSUME NEW i \in 1..Len(list')
      PROVE  old(i) \in 1..Len(list) /\ old(i) # n /\ list'[i] = list[old(i)]
  BY <1>1, <1>2
<1>4. ASSUME NEW g \in Fences PROVE In(g)' <=> In(g) /\ g # list[n]
  <2>1. In(g)' => In(g) /\ g # list[n]
    <3> SUFFICES ASSUME In(g)' PROVE In(g) /\ g # list[n]
      OBVIOUS
    <3>1. PICK i \in 1..Len(list') : list'[i] = g
      BY DEF In, Contains
    <3>2. old(i) \in 1..Len(list) /\ old(i) # n /\ list[old(i)] = g
      BY <1>3, <3>1
    <3> HIDE DEF old
    <3>3. list[old(i)] # list[n]
      BY <1>1, <3>2 DEF Ordered
    <3> QED BY <3>2, <3>3 DEF In, Contains
  <2>2. In(g) /\ g # list[n] => In(g)'
    <3> SUFFICES ASSUME In(g), g # list[n] PROVE In(g)'
      OBVIOUS
    <3>1. PICK i \in 1..Len(list) : list[i] = g
      BY DEF In, Contains
    <3>2. CASE i < n
      <4>1. i \in 1..Len(list') /\ list'[i] = g
        BY <1>1, <1>2, <3>1, <3>2
      <4> QED BY <4>1 DEF In, Contains
    <3>3. CASE i > n
      <4>1. i - 1 \in 1..Len(list') /\ list'[i - 1] = g
        BY <1>1, <1>2, <3>1, <3>3
      <4> QED BY <4>1 DEF In, Contains
    <3> QED BY <3>1, <3>2, <3>3
  <2> QED BY <2>1, <2>2
<1>5. ASSUME \A g \in Fences : In(g)' => fence'[g].threshold = fence[g].threshold
      PROVE  Ordered'
  <2> SUFFICES ASSUME NEW i \in 1..Len(list'), NEW j \in 1..Len(list'), i < j
      PROVE /\ list'[i] # list'[j]
            /\ ~ Before(fence'[list'[j]].threshold, fence'[list'[i]].threshold)
    BY DEF Ordered
  <2>1. /\ old(i) \in 1..Len(list) /\ list'[i] = list[old(i)]
        /\ old(j) \in 1..Len(list) /\ list'[j] = list[old(j)]
        /\ old(i) < old(j)
    BY <1>1, <1>2, <1>3
  <2> HIDE DEF old
  <2>2. /\ list[old(i)] # list[old(j)]
        /\ ~ Before(fence[list[old(j)]].threshold, fence[list[old(i)]].threshold)
    BY <2>1 DEF Ordered
  <2>3. \A x \in 1..Len(list') :
           list'[x] \in Fences /\ \A g \in Fences : g = list'[x] => In(g)'
    BY <1>2 DEF In, Contains
  <2> QED BY <1>5, <2>1, <2>2, <2>3
<1> QED BY <1>2, <1>4, <1>5

\* The place host1x_intr_add_fence_to_list finds: every fence up to it is not
\* behind f, every later one is.
LEMMA PutIn ==
  ASSUME TypeOK, Ordered, FencesOK, NEW f \in Fences, ~ In(f), Near(value, fence[f].threshold),
         list' = add_fence_to_list(list, f)
  PROVE  /\ list' \in Seq(Fences) /\ list' # <<>>
         /\ \A g \in Fences : In(g)' <=> In(g) \/ g = f
         /\ (\A g \in Fences : fence'[g].threshold = fence[g].threshold) => Ordered'
<1> DEFINE th(g) == fence[g].threshold
           first == {i \in 1..Len(list) : ~ Before(th(f), th(list[i]))}
           n == IF first = {} THEN 0 ELSE Max(first)
<1>1. list \in Seq(Fences) /\ Len(list) \in Nat
  BY DEF TypeOK
<1>2. \A i \in 1..Len(list) :
         /\ list[i] \in Fences /\ list[i] # f
         /\ th(list[i]) \in Points /\ Near(value, th(list[i]))
  <2> TAKE i \in 1..Len(list)
  <2>1. list[i] \in Fences /\ In(list[i])
    BY InFacts
  <2>2. fence[list[i]].refs > 0
    BY <2>1, HasRef DEF FencesOK, FenceOK
  <2> QED BY <2>1, <2>2 DEF FencesOK, FenceOK, Told, TypeOK, Points
<1>3. th(f) \in Points /\ value \in Points
  BY DEF TypeOK, Points
<1>4. /\ n \in 0..Len(list)
      /\ n > 0 => ~ Before(th(f), th(list[n]))
      /\ \A i \in (n + 1)..Len(list) : Before(th(f), th(list[i]))
  <2>1. CASE first = {}
    BY <1>1, <2>1
  <2>2. CASE first # {}
    <3>1. Max(first) \in first /\ \A y \in first : Max(first) >= y
      BY <1>1, <2>2, MaxFacts
    <3>2. n = Max(first)
      BY <2>2
    <3> HIDE DEF n
    <3>3. n \in 1..Len(list) /\ ~ Before(th(f), th(list[n]))
      BY <3>1, <3>2
    <3>4. ASSUME NEW i \in (n + 1)..Len(list) PROVE Before(th(f), th(list[i]))
      <4>1. i \in 1..Len(list) /\ ~ n >= i
        BY <1>1, <3>3
      <4>2. i \notin first
        BY <3>1, <3>2, <4>1
      <4> QED BY <4>1, <4>2
    <3> QED BY <1>1, <3>3, <3>4
  <2> QED BY <2>1, <2>2
<1>5. list' = InsertAt(list, n + 1, f)
  BY DEF add_fence_to_list
<1> HIDE DEF first, n, th
<1>6. \A i \in 1..Len(list) : i <= n => ~ Before(th(f), th(list[i]))
  <2> TAKE i \in 1..Len(list)
  <2> SUFFICES ASSUME i < n PROVE ~ Before(th(f), th(list[i]))
    BY <1>1, <1>4
  <2>1. n \in 1..Len(list) /\ ~ Before(th(list[n]), th(list[i])) /\ ~ Before(th(f), th(list[n]))
    BY <1>1, <1>4 DEF Ordered, th
  <2>2. Near(value, th(f))
    BY DEF th
  <2> QED BY <1>2, <1>3, <2>1, <2>2, OrderFacts
<1>7. \A i \in 1..Len(list) : i > n => ~ Before(th(list[i]), th(f))
  <2> TAKE i \in 1..Len(list)
  <2> SUFFICES ASSUME i > n PROVE ~ Before(th(list[i]), th(f))
    OBVIOUS
  <2>1. Before(th(f), th(list[i]))
    BY <1>1, <1>4
  <2>2. Near(value, th(f))
    BY DEF th
  <2> QED BY <1>2, <1>3, <2>1, <2>2, OrderFacts
<1>8. /\ list' \in Seq(Fences) /\ Len(list') = Len(list) + 1
      /\ \A i \in 1..n : list'[i] = list[i]
      /\ list'[n + 1] = f
      /\ \A i \in (n + 2)..(Len(list) + 1) : list'[i] = list[i - 1]
  <2>1. n \in 0..Len(list)
    BY <1>4
  <2> DEFINE k == n + 1
  <2>2. k \in 1..(Len(list) + 1) /\ k - 1 = n /\ k + 1 = n + 2
    BY <1>1, <2>1
  <2> HIDE DEF k
  <2>3. /\ InsertAt(list, k, f) \in Seq(Fences)
        /\ Len(InsertAt(list, k, f)) = Len(list) + 1
        /\ \A i \in 1..(k - 1) : InsertAt(list, k, f)[i] = list[i]
        /\ InsertAt(list, k, f)[k] = f
        /\ \A i \in (k + 1)..(Len(list) + 1) : InsertAt(list, k, f)[i] = list[i - 1]
    BY <1>1, <2>2, InsertFacts
  <2>4. list' = InsertAt(list, k, f)
    BY <1>5 DEF k
  <2>5. /\ list' \in Seq(Fences) /\ Len(list') = Len(list) + 1
        /\ \A i \in 1..n : list'[i] = list[i]
        /\ list'[k] = f
        /\ \A i \in (n + 2)..(Len(list) + 1) : list'[i] = list[i - 1]
    BY <2>2, <2>3, <2>4, Zenon
  <2> QED BY <2>5 DEF k
<1> DEFINE old(i) == IF i <= n THEN i ELSE i - 1
<1>9. ASSUME NEW i \in 1..Len(list'), i # n + 1
      PROVE  old(i) \in 1..Len(list) /\ list'[i] = list[old(i)]
  BY <1>1, <1>4, <1>8, <1>9
<1>10. ASSUME NEW g \in Fences PROVE In(g)' <=> In(g) \/ g = f
  <2>1. In(g)' => In(g) \/ g = f
    <3> SUFFICES ASSUME In(g)', g # f PROVE In(g)
      OBVIOUS
    <3>1. PICK i \in 1..Len(list') : list'[i] = g
      BY DEF In, Contains
    <3>2. old(i) \in 1..Len(list) /\ list[old(i)] = g
      BY <1>8, <1>9, <3>1
    <3> HIDE DEF old
    <3> QED BY <3>2 DEF In, Contains
  <2>2. In(f)'
    <3>1. n + 1 \in 1..Len(list')
      BY <1>1, <1>4, <1>8
    <3> QED BY <1>8, <3>1 DEF In, Contains
  <2>3. In(g) => In(g)'
    <3> SUFFICES ASSUME In(g) PROVE In(g)'
      OBVIOUS
    <3>1. PICK i \in 1..Len(list) : list[i] = g
      BY DEF In, Contains
    <3>2. CASE i <= n
      <4>1. i \in 1..Len(list') /\ list'[i] = g
        BY <1>1, <1>4, <1>8, <3>1, <3>2
      <4> QED BY <4>1 DEF In, Contains
    <3>3. CASE i > n
      <4>1. i + 1 \in 1..Len(list') /\ list'[i + 1] = g
        BY <1>1, <1>4, <1>8, <3>1, <3>3
      <4> QED BY <4>1 DEF In, Contains
    <3> QED BY <1>4, <3>1, <3>2, <3>3
  <2> QED BY <2>1, <2>2, <2>3
<1>11. ASSUME \A g \in Fences : fence'[g].threshold = fence[g].threshold
       PROVE  Ordered'
  <2> SUFFICES ASSUME NEW i \in 1..Len(list'), NEW j \in 1..Len(list'), i < j
      PROVE /\ list'[i] # list'[j]
            /\ ~ Before(th(list'[j]), th(list'[i]))
    BY <1>8, <1>11 DEF Ordered, th
  <2>1. CASE i = n + 1
    <3>1. j # n + 1 /\ old(j) \in 1..Len(list) /\ old(j) > n /\ list'[j] = list[old(j)]
      BY <1>4, <1>8, <1>9, <2>1
    <3> HIDE DEF old
    <3> QED BY <1>2, <1>7, <1>8, <2>1, <3>1
  <2>2. CASE j = n + 1
    <3>1. i # n + 1 /\ old(i) \in 1..Len(list) /\ old(i) <= n /\ list'[i] = list[old(i)]
      BY <1>4, <1>8, <1>9, <2>2
    <3> HIDE DEF old
    <3> QED BY <1>2, <1>6, <1>8, <2>2, <3>1
  <2>3. CASE i # n + 1 /\ j # n + 1
    <3>1. /\ old(i) \in 1..Len(list) /\ list'[i] = list[old(i)]
          /\ old(j) \in 1..Len(list) /\ list'[j] = list[old(j)]
          /\ old(i) < old(j)
      BY <1>1, <1>4, <1>8, <1>9, <2>3
    <3> HIDE DEF old
    <3> QED BY <3>1 DEF Ordered, th
  <2> QED BY <2>1, <2>2, <2>3
<1>12. list' # <<>>
  BY <1>1, <1>8
<1> QED BY <1>8, <1>10, <1>11, <1>12

--------------------------------------------------------------------------------
(* The invariant is inductive. *)

FenceType ==
  [refs : Nat, threshold : 0..(Mod - 1), timeout : BOOLEAN, signaling : BOOLEAN,
   signaled : BOOLEAN, error : BOOLEAN]

LEMMA FreedFacts ==
  /\ Freed \in FenceType
  /\ Freed.refs = 0 /\ Freed.timeout = FALSE /\ Freed.signaling = FALSE
  /\ Freed.signaled = FALSE
BY ModAssumption DEF Freed, FenceType

\* Giving a reference back: one less, and nothing else changes unless it was
\* the last.
LEMMA PutFacts ==
  ASSUME NEW r \in FenceType, r.refs > 0
  PROVE  /\ Put(r) \in FenceType
         /\ Put(r).refs = r.refs - 1
         /\ r.refs = 1 => Put(r) = Freed
         /\ r.refs # 1 => /\ Put(r).threshold = r.threshold /\ Put(r).timeout = r.timeout
                          /\ Put(r).signaling = r.signaling /\ Put(r).signaled = r.signaled
                          /\ Put(r).error = r.error
<1>1. CASE r.refs = 1
  BY <1>1, FreedFacts DEF Put
<1>2. CASE r.refs # 1
  <2>1. Put(r) = [r EXCEPT !.refs = r.refs - 1]
    BY <1>2 DEF Put
  <2> QED BY <1>2, <2>1 DEF FenceType
<1> QED BY <1>1, <1>2

LEMMA InitIInv == Init => IInv
<1> SUFFICES ASSUME Init PROVE IInv
  OBVIOUS
<1>1. TypeOK
  <2>1. fence \in [Fences -> FenceType]
    BY FreedFacts DEF Init
  <2>2. list \in Seq(Fences)
    BY DEF Init
  <2>3. 0 \in 0..(Mod - 1)
    BY ModAssumption
  <2>4. /\ work \in [Fences -> Workings]
        /\ user \in [Fences -> Using] /\ cb \in [Fences -> Calling]
    BY DEF Init, Workings, Using, Calling
  <2>5. /\ value \in 0..(Mod - 1) /\ min_val \in 0..(Mod - 1) /\ thresh \in 0..(Mod - 1)
        /\ enabled \in BOOLEAN /\ status \in BOOLEAN
        /\ isr \in Handling
        /\ isr_val \in 0..(Mod - 1) /\ isr_fence \in Fences \cup {NoFence}
    BY <2>3 DEF Init, Handling
  <2> QED BY <2>1, <2>2, <2>4, <2>5 DEF TypeOK, FenceType
<1>2. list = <<>> /\ Len(list) = 0 /\ \A f \in Fences : ~ In(f)
  BY DEF Init, In, Contains
<1>3. FencesOK
  BY <1>2, FreedFacts, NoFenceAssumption
    DEF Init, FencesOK, FenceOK, Accounted, One, Staged, Calls, Told
<1>4. Lag
  <2>1. 0 \in Points
    BY ModAssumption DEF Points
  <2>2. Ahead(0, 0) = 0
    BY <2>1, AheadIs
  <2> QED BY <2>2, BacklogAssumption, NoFenceAssumption DEF Init, Lag, HasValue
<1>5. Ordered /\ Programmed
  BY <1>2 DEF Init, Ordered, Programmed
<1> QED BY <1>1, <1>3, <1>4, <1>5 DEF IInv

LEMMA OtherFence ==
  ASSUME NEW g \in Fences, FenceOK(g), value' = value,
         fence'[g] = fence[g], user'[g] = user[g], work'[g] = work[g], cb'[g] = cb[g],
         In(g)' <=> In(g), isr_fence' = g <=> isr_fence = g
  PROVE  FenceOK(g)'
<1>1. Accounted(g)'
  BY DEF FenceOK, Accounted, One
<1>2. Staged(g)' /\ Calls(g)'
  BY DEF FenceOK, Staged, Calls
<1>3. Told(g)'
  BY DEF FenceOK, Told, Reached
<1> QED BY <1>1, <1>2, <1>3 DEF FenceOK

\* Steps of the user or the work item of f that leave the list, the hardware and
\* the handler alone.
QuietFor(f) ==
  /\ UNCHANGED <<value, thresh, enabled, status, min_val, list, isr, isr_val, isr_fence>>
  /\ fence' \in [Fences -> FenceType]
  /\ work' \in [Fences -> Workings]
  /\ user' \in [Fences -> Using]
  /\ cb' \in [Fences -> Calling]
  /\ \A g \in Fences : g # f =>
       /\ fence'[g] = fence[g] /\ work'[g] = work[g] /\ user'[g] = user[g]
       /\ cb'[g] = cb[g]
  /\ In(f) => fence'[f].threshold = fence[f].threshold

LEMMA QuietStep ==
  ASSUME IInv, NEW f \in Fences, QuietFor(f), FenceOK(f)'
  PROVE  IInv'
<1> USE DEF IInv
<1>1. TypeOK'
  BY DEF TypeOK, QuietFor, FenceType
<1>2. FencesOK'
  <2>1. ASSUME NEW g \in Fences, g # f PROVE FenceOK(g)'
    BY <2>1, OtherFence DEF FencesOK, QuietFor, In
  <2> QED BY <2>1 DEF FencesOK
<1>3. Lag'
  BY DEF Lag, QuietFor
<1>4. \A i \in 1..Len(list) : fence'[list[i]].threshold = fence[list[i]].threshold
  BY InFacts DEF QuietFor
<1>5. Ordered'
  BY <1>4 DEF Ordered, QuietFor
<1>6. Programmed'
  <2>1. list # <<>> => fence'[Head(list)].threshold = fence[Head(list)].threshold
    BY <1>4, InFacts
  <2> QED BY <2>1 DEF Programmed, QuietFor
<1> QED BY <1>1, <1>2, <1>3, <1>5, <1>6

LEMMA UserSteps ==
  ASSUME IInv, NEW f \in Fences,
         \/ \E k \in Offsets, t \in BOOLEAN : host1x_fence_create(f, k, t)
         \/ IsSignaled(f) \/ remove_callback(f) \/ host1x_fence_cancel(f) \/ Flushed(f)
         \/ LockUnlock(f) \/ UserPut(f)
  PROVE  IInv'
<1> USE DEF IInv
<1>1. /\ fence \in [Fences -> FenceType] /\ work \in [Fences -> Workings]
      /\ user \in [Fences -> Using] /\ cb \in [Fences -> Calling]
      /\ value \in Points /\ min_val \in Points
  BY DEF TypeOK, FenceType, Points
<1>2. fence[f] \in FenceType /\ fence[f].refs \in Nat
  BY <1>1 DEF FenceType
<1>3. Accounted(f) /\ Staged(f) /\ Calls(f) /\ Told(f)
  BY DEF FencesOK, FenceOK
<1>4. ASSUME NEW k \in Offsets, NEW t \in BOOLEAN, host1x_fence_create(f, k, t)
      PROVE  IInv'
  <2> DEFINE r == [Freed EXCEPT !.refs = 1, !.threshold = Add(min_val, k), !.timeout = t]
  <2>1. Add(min_val, k) \in Points /\ Near(value, Add(min_val, k))
    BY <1>1, NewThreshold DEF Lag
  <2>2. /\ r \in FenceType /\ r.refs = 1 /\ r.threshold = Add(min_val, k) /\ r.timeout = t
        /\ r.signaling = FALSE /\ r.signaled = FALSE
    BY <2>1 DEF Freed, FenceType, Points
  <2> HIDE DEF r
  <2>3. /\ user[f] = "none" /\ fence[f].refs = 0
        /\ fence' = [fence EXCEPT ![f] = r] /\ user' = [user EXCEPT ![f] = "made"]
        /\ UNCHANGED <<value, thresh, enabled, status, min_val, list, isr, isr_val, isr_fence, work, cb>>
    BY <1>4 DEF host1x_fence_create, hw, r
  <2>4. fence'[f] = r /\ user'[f] = "made" /\ work'[f] = work[f]
    BY <1>1, <2>3
  <2>5. ~ In(f) /\ isr_fence # f
    BY <1>3, <2>3, HasRef
  <2>6. work[f] = "off"
    BY <1>3, <2>3, HasRef DEF Staged
  <2>7. QuietFor(f)
    BY <1>1, <2>2, <2>3, <2>5 DEF QuietFor, Using
  <2>8. Accounted(f)' /\ Staged(f)' /\ Calls(f)'
    BY <1>3, <2>2, <2>3, <2>4, <2>5, <2>6 DEF Accounted, One, Staged, Calls, In
  <2>9. Told(f)'
    BY <2>1, <2>2, <2>3, <2>4, <2>5, <2>6 DEF Told, In
  <2> QED BY <2>7, <2>8, <2>9, QuietStep DEF FenceOK
<1>5. CASE IsSignaled(f)
  <2>1. /\ user[f] = "wait" /\ (is_expired(f) \/ fence[f].error)
        /\ fence' = [fence EXCEPT ![f] = Signal(fence[f])]
        /\ cb' = [cb EXCEPT ![f] = "none"]
        /\ UNCHANGED <<value, thresh, enabled, status, min_val, list, isr, isr_val, isr_fence, work, user>>
    BY <1>5 DEF IsSignaled, hw
  <2>2. /\ fence'[f] \in FenceType /\ fence'[f].refs = fence[f].refs
        /\ fence'[f].threshold = fence[f].threshold /\ fence'[f].timeout = fence[f].timeout
        /\ fence'[f].signaling = fence[f].signaling /\ fence'[f].error = fence[f].error
    BY <1>1, <1>2, <2>1 DEF Signal, FenceType
  <2>3. QuietFor(f)
    BY <1>1, <2>1, <2>2 DEF QuietFor, Calling
  <2>4. fence[f].refs > 0 /\ Near(value, fence[f].threshold)
    BY <1>3, <2>1, HasRef DEF Told
  <2>5. is_expired(f) => Reached(f)
    BY <1>1, <1>2, <2>4, ExpiredIsReached DEF is_expired, Reached, Lag, FenceType, Points
  <2>6. Accounted(f)' /\ Staged(f)' /\ Calls(f)'
    BY <1>1, <1>3, <2>1, <2>2 DEF Accounted, One, Staged, Calls, In
  <2>7. Told(f)'
    BY <1>2, <1>3, <2>1, <2>2, <2>4, <2>5 DEF Told, Reached
  <2> QED BY <2>3, <2>6, <2>7, QuietStep DEF FenceOK
<1>6. CASE remove_callback(f) \/ host1x_fence_cancel(f) \/ Flushed(f) \/ LockUnlock(f)
  <2> USE DEF remove_callback, host1x_fence_cancel, Flushed, LockUnlock
  <2>1. UNCHANGED <<value, thresh, enabled, status, min_val, list, isr, isr_val, isr_fence, fence>>
    BY <1>6 DEF hw
  <2>2. QuietFor(f)
    BY <1>1, <1>6, <2>1 DEF QuietFor, Workings, Using, Calling
  <2>3. LockFree => isr_fence # f /\ work[f] # "callback"
    BY DEF LockFree, Lag
  <2>4. Accounted(f)'
    BY <1>1, <1>3, <1>6, <2>1 DEF Accounted, One, In
  <2>5. Staged(f)'
    BY <1>1, <1>3, <1>6, <2>1, <2>3 DEF Staged, In
  <2>6. Calls(f)'
    BY <1>1, <1>3, <1>6, <2>1, <2>3 DEF Calls, Calling
  <2>7. Told(f)'
    BY <1>1, <1>3, <1>6, <2>1 DEF Told, Reached
  <2> QED BY <2>2, <2>4, <2>5, <2>6, <2>7, QuietStep DEF FenceOK
<1>7. CASE UserPut(f)
  <2>1. /\ user[f] \in {"made", "removed", "cancelled", "done"}
        /\ user' = [user EXCEPT ![f] = "none"]
        /\ fence' = [fence EXCEPT ![f] = Put(fence[f])]
        /\ UNCHANGED <<value, thresh, enabled, status, min_val, list, isr, isr_val, isr_fence, work, cb>>
    BY <1>7 DEF UserPut, hw
  <2>2. fence[f].refs > 0
    BY <1>3, <2>1, HasRef
  <2>3. fence'[f] = Put(fence[f]) /\ user'[f] = "none"
    BY <1>1, <2>1
  <2>4. /\ fence'[f] \in FenceType /\ fence'[f].refs = fence[f].refs - 1
        /\ fence[f].refs = 1 => fence'[f] = Freed
        /\ fence[f].refs # 1 =>
             /\ fence'[f].threshold = fence[f].threshold /\ fence'[f].timeout = fence[f].timeout
             /\ fence'[f].signaling = fence[f].signaling /\ fence'[f].signaled = fence[f].signaled
             /\ fence'[f].error = fence[f].error
    BY <1>2, <2>2, <2>3, PutFacts
  <2>5. fence[f].refs = 1 => ~ In(f) /\ isr_fence # f /\ ~ (fence[f].timeout /\ work[f] # "off")
    BY <1>3, <2>1 DEF Accounted, One
  <2>6. QuietFor(f)
    BY <1>1, <2>1, <2>4, <2>5 DEF QuietFor, Using
  <2>7. Accounted(f)'
    BY <1>2, <1>3, <2>1, <2>3, <2>4, <2>5, FreedFacts DEF Accounted, One, In
  <2>8. Staged(f)' /\ Calls(f)'
    BY <1>3, <2>1, <2>3, <2>4, <2>5, FreedFacts DEF Staged, Calls, In
  <2>9. Told(f)'
    <3>1. fence[f].refs = 1 => work[f] # "signal"
      BY <1>3, <2>1, <2>5 DEF Staged
    <3> QED BY <1>2, <1>3, <2>1, <2>2, <2>4, <2>5, <3>1, FreedFacts DEF Told, Reached
  <2> QED BY <2>6, <2>7, <2>8, <2>9, QuietStep DEF FenceOK
<1> QED BY <1>4, <1>5, <1>6, <1>7

LEMMA WorkSteps ==
  ASSUME IInv, NEW f \in Fences,
         \/ WorkStart(f) \/ WorkExchange(f) \/ WorkError(f) \/ WorkSignal(f)
         \/ WorkCallback(f) \/ WorkPut(f)
  PROVE  IInv'
<1> USE DEF IInv
<1>1. /\ fence \in [Fences -> FenceType] /\ work \in [Fences -> Workings]
      /\ user \in [Fences -> Using] /\ cb \in [Fences -> Calling]
      /\ value \in Points /\ min_val \in Points
  BY DEF TypeOK, FenceType, Points
<1>2. fence[f] \in FenceType /\ fence[f].refs \in Nat /\ fence[f].timeout \in BOOLEAN
  BY <1>1 DEF FenceType
<1>3. Accounted(f) /\ Staged(f) /\ Calls(f) /\ Told(f)
  BY DEF FencesOK, FenceOK
<1>4. UNCHANGED <<value, thresh, enabled, status, min_val, list, isr, isr_val, isr_fence, user>>
  BY DEF WorkStart, WorkExchange, WorkError, WorkSignal, WorkCallback, WorkPut, hw
<1>5. CASE WorkStart(f)
  <2>1. work[f] = "armed" /\ work' = [work EXCEPT ![f] = "run"]
        /\ UNCHANGED <<fence, cb>>
    BY <1>5 DEF WorkStart
  <2>2. QuietFor(f)
    BY <1>1, <1>4, <2>1 DEF QuietFor, Workings
  <2>3. Accounted(f)' /\ Staged(f)' /\ Calls(f)' /\ Told(f)'
    BY <1>1, <1>3, <1>4, <2>1 DEF Accounted, One, Staged, Calls, Told, Reached, In
  <2> QED BY <2>2, <2>3, QuietStep DEF FenceOK
\* The work item is done with f: its reference, if it has one, is given back.
<1>6. ASSUME work[f] \in {"run", "put"}, work' = [work EXCEPT ![f] = "off"],
             fence' = [fence EXCEPT ![f] = PutTimeout(fence[f])], ~ In(f), UNCHANGED cb
      PROVE  IInv'
  <2>1. work'[f] = "off" /\ fence'[f] = PutTimeout(fence[f])
    BY <1>1, <1>6
  <2>2. CASE fence[f].timeout
    <3>1. fence[f].refs > 0
      BY <1>3, <1>6, <2>2, HasRef
    <3>2. fence'[f] = Put(fence[f])
      BY <2>1, <2>2 DEF PutTimeout
    <3>3. /\ fence'[f] \in FenceType /\ fence'[f].refs = fence[f].refs - 1
          /\ fence[f].refs = 1 => fence'[f] = Freed
          /\ fence[f].refs # 1 =>
               /\ fence'[f].threshold = fence[f].threshold /\ fence'[f].timeout = fence[f].timeout
               /\ fence'[f].signaling = fence[f].signaling /\ fence'[f].signaled = fence[f].signaled
               /\ fence'[f].error = fence[f].error
      BY <1>2, <3>1, <3>2, PutFacts
    <3>4. fence[f].refs = 1 => isr_fence # f /\ user[f] = "none"
      BY <1>3, <1>6, <2>2 DEF Accounted, One
    <3>5. QuietFor(f)
      BY <1>1, <1>4, <1>6, <3>3 DEF QuietFor, Workings
    <3>6. Accounted(f)'
      BY <1>2, <1>3, <1>4, <1>6, <2>1, <2>2, <3>3, <3>4, FreedFacts DEF Accounted, One, In
    <3>7. Staged(f)' /\ Calls(f)'
      BY <1>3, <1>4, <1>6, <2>1, <3>3, <3>4, FreedFacts DEF Staged, Calls, In
    <3>8. Told(f)'
      BY <1>2, <1>3, <1>4, <2>1, <3>1, <3>3, <3>4, FreedFacts DEF Told, Reached
    <3> QED BY <3>5, <3>6, <3>7, <3>8, QuietStep DEF FenceOK
  <2>3. CASE ~ fence[f].timeout
    <3>1. UNCHANGED fence
      BY <1>1, <1>6, <2>3 DEF PutTimeout
    <3>2. QuietFor(f)
      BY <1>1, <1>4, <1>6, <3>1 DEF QuietFor, Workings
    <3>3. Accounted(f)' /\ Staged(f)' /\ Calls(f)' /\ Told(f)'
      BY <1>1, <1>3, <1>4, <1>6, <2>1, <2>3, <3>1
        DEF Accounted, One, Staged, Calls, Told, Reached, In
    <3> QED BY <3>2, <3>3, QuietStep DEF FenceOK
  <2> QED BY <1>2, <2>2, <2>3
<1>7. CASE WorkExchange(f)
  <2>1. CASE fence[f].signaling
    <3>1. ~ In(f)
      BY <1>3, <1>7, <2>1 DEF WorkExchange, Staged
    <3> QED BY <1>6, <1>7, <2>1, <3>1 DEF WorkExchange
  <2>2. CASE ~ fence[f].signaling
    <3>1. /\ work[f] = "run" /\ work' = [work EXCEPT ![f] = "remove"]
          /\ fence' = [fence EXCEPT ![f].signaling = TRUE] /\ UNCHANGED cb
      BY <1>7, <2>2 DEF WorkExchange
    <3>2. /\ fence'[f] \in FenceType /\ fence'[f].refs = fence[f].refs
          /\ fence'[f].threshold = fence[f].threshold /\ fence'[f].timeout = fence[f].timeout
          /\ fence'[f].signaled = fence[f].signaled /\ fence'[f].error = fence[f].error
      BY <1>1, <1>2, <3>1 DEF FenceType
    <3>3. QuietFor(f)
      BY <1>1, <1>4, <3>1, <3>2 DEF QuietFor, Workings
    <3>4. Accounted(f)' /\ Staged(f)' /\ Calls(f)'
      BY <1>1, <1>3, <1>4, <3>1, <3>2 DEF Accounted, One, Staged, Calls, In
    <3>5. Told(f)'
      BY <1>1, <1>3, <1>4, <3>1, <3>2 DEF Told, Reached
    <3> QED BY <3>3, <3>4, <3>5, QuietStep DEF FenceOK
  <2> QED BY <2>1, <2>2
<1>8. CASE WorkError(f)
  <2>1. /\ work[f] = "error" /\ work' = [work EXCEPT ![f] = "signal"]
        /\ fence' = [fence EXCEPT ![f].error = TRUE] /\ UNCHANGED cb
    BY <1>8 DEF WorkError
  <2>2. /\ fence'[f] \in FenceType /\ fence'[f].refs = fence[f].refs
        /\ fence'[f].threshold = fence[f].threshold /\ fence'[f].timeout = fence[f].timeout
        /\ fence'[f].signaling = fence[f].signaling /\ fence'[f].signaled = fence[f].signaled
        /\ fence'[f].error = TRUE
    BY <1>1, <1>2, <2>1 DEF FenceType
  <2>3. QuietFor(f)
    BY <1>1, <1>4, <2>1, <2>2 DEF QuietFor, Workings
  <2>4. Accounted(f)' /\ Staged(f)' /\ Calls(f)'
    BY <1>1, <1>3, <1>4, <2>1, <2>2 DEF Accounted, One, Staged, Calls, In
  <2>5. Told(f)'
    BY <1>3, <1>4, <2>2 DEF Told, Reached
  <2> QED BY <2>3, <2>4, <2>5, QuietStep DEF FenceOK
<1>9. CASE WorkSignal(f)
  <2>1. /\ work[f] = "signal" /\ work' = [work EXCEPT ![f] = "callback"]
        /\ fence' = [fence EXCEPT ![f] = Signal(fence[f])]
        /\ cb' = [cb EXCEPT ![f] = IF cb[f] = "set" THEN "running" ELSE cb[f]]
    BY <1>9 DEF WorkSignal, Called
  <2>2. /\ fence'[f] \in FenceType /\ fence'[f].refs = fence[f].refs
        /\ fence'[f].threshold = fence[f].threshold /\ fence'[f].timeout = fence[f].timeout
        /\ fence'[f].signaling = fence[f].signaling /\ fence'[f].error = fence[f].error
    BY <1>1, <1>2, <2>1 DEF Signal, FenceType
  <2>3. QuietFor(f)
    BY <1>1, <1>4, <2>1, <2>2 DEF QuietFor, Workings, Calling
  <2>4. Accounted(f)' /\ Staged(f)' /\ Calls(f)'
    BY <1>1, <1>3, <1>4, <2>1, <2>2 DEF Accounted, One, Staged, Calls, In
  <2>5. fence[f].refs > 0 /\ fence[f].error
    BY <1>2, <1>3, <2>1, HasRef DEF Staged, Told
  <2>6. Told(f)'
    BY <1>3, <1>4, <2>2, <2>5 DEF Told, Reached
  <2> QED BY <2>3, <2>4, <2>6, QuietStep DEF FenceOK
<1>10. CASE WorkCallback(f)
  <2>1. /\ work[f] = "callback" /\ work' = [work EXCEPT ![f] = "put"]
        /\ cb' = [cb EXCEPT ![f] = "none"] /\ UNCHANGED fence
    BY <1>10 DEF WorkCallback
  <2>2. QuietFor(f)
    BY <1>1, <1>4, <2>1 DEF QuietFor, Workings, Calling
  <2>3. Accounted(f)' /\ Staged(f)' /\ Calls(f)' /\ Told(f)'
    BY <1>1, <1>3, <1>4, <2>1 DEF Accounted, One, Staged, Calls, Told, Reached, In
  <2> QED BY <2>2, <2>3, QuietStep DEF FenceOK
<1>11. CASE WorkPut(f)
  <2>1. ~ In(f)
    BY <1>3, <1>11 DEF WorkPut, Staged
  <2> QED BY <1>6, <1>11, <2>1 DEF WorkPut
<1> QED BY <1>5, <1>7, <1>8, <1>9, <1>10, <1>11

\* A step that changes the list or the handler's fence, and one fence.
ListFor(f) ==
  /\ UNCHANGED <<value, min_val>>
  /\ thresh' \in Points /\ enabled' \in BOOLEAN /\ status' \in BOOLEAN
  /\ list' \in Seq(Fences)
  /\ isr' \in Handling
  /\ isr_val' \in Points /\ isr_fence' \in Fences \cup {NoFence}
  /\ fence' \in [Fences -> FenceType]
  /\ work' \in [Fences -> Workings]
  /\ user' \in [Fences -> Using]
  /\ cb' \in [Fences -> Calling]
  /\ \A g \in Fences : g # f =>
       /\ fence'[g] = fence[g] /\ work'[g] = work[g] /\ user'[g] = user[g]
       /\ cb'[g] = cb[g]
       /\ In(g)' <=> In(g)
       /\ isr_fence' = g <=> isr_fence = g

LEMMA ListStep ==
  ASSUME IInv, NEW f \in Fences, ListFor(f), FenceOK(f)', Lag', Ordered', Programmed'
  PROVE  IInv'
<1> USE DEF IInv
<1>1. TypeOK'
  BY DEF TypeOK, ListFor, FenceType, Points
<1>2. FencesOK'
  <2>1. ASSUME NEW g \in Fences, g # f PROVE FenceOK(g)'
    BY <2>1, OtherFence DEF FencesOK, ListFor
  <2> QED BY <2>1 DEF FencesOK
<1> QED BY <1>1, <1>2

\* host1x_intr_update_hw_state programs the comparator for the new list.
LEMMA Reprogram ==
  ASSUME TypeOK, list' \in Seq(Fences), update_hw_state(list'),
         \A g \in Fences : In(g)' => fence'[g].threshold = fence[g].threshold
  PROVE  /\ value' = value /\ Programmed'
         /\ thresh' \in Points /\ enabled' \in BOOLEAN /\ status' \in BOOLEAN
<1>1. /\ value' = value
      /\ list' # <<>> => /\ thresh' = fence[Head(list')].threshold /\ enabled' = TRUE
                         /\ status' = (status \/ ~ Before(value, thresh'))
      /\ list' = <<>> => thresh' = thresh /\ enabled' = FALSE /\ status' = FALSE
  BY DEF update_hw_state, disable_syncpt_intr, Raise
<1>2. ASSUME list' # <<>>
      PROVE  /\ Head(list') \in Fences
             /\ fence'[Head(list')].threshold = fence[Head(list')].threshold
  <2>1. PICK h \in Fences : h = Head(list') /\ 1 \in 1..Len(list') /\ list'[1] = h
    BY <1>2
  <2>2. In(h)'
    BY <2>1 DEF In, Contains
  <2> QED BY <2>1, <2>2
<1>3. thresh' \in Points
  BY <1>1, <1>2 DEF TypeOK, Points
<1>4. enabled' \in BOOLEAN /\ status' \in BOOLEAN
  BY <1>1 DEF TypeOK
<1>5. Programmed'
  BY <1>1, <1>2 DEF Programmed
<1> QED BY <1>1, <1>3, <1>4, <1>5

LEMMA EnableStep ==
  ASSUME IInv, NEW f \in Fences, enable_signaling(f)
  PROVE  IInv'
<1> USE DEF IInv
<1>1. /\ fence \in [Fences -> FenceType] /\ work \in [Fences -> Workings]
      /\ user \in [Fences -> Using] /\ cb \in [Fences -> Calling]
      /\ value \in Points /\ min_val \in Points
  BY DEF TypeOK, FenceType, Points
<1>2. fence[f] \in FenceType /\ fence[f].refs \in Nat /\ fence[f].timeout \in BOOLEAN
  BY <1>1 DEF FenceType
<1>3. Accounted(f) /\ Staged(f) /\ Calls(f) /\ Told(f)
  BY DEF FencesOK, FenceOK
<1>4. user[f] = "made" /\ LockFree /\ UNCHANGED <<min_val, isr, isr_val, isr_fence>>
  BY DEF enable_signaling
<1>5. work[f] = "off" /\ ~ In(f) /\ isr_fence # f /\ ~ fence[f].signaling /\ fence[f].refs = 1
  BY <1>3, <1>4 DEF Staged, Accounted, One
<1>6. Near(value, fence[f].threshold)
  BY <1>3, <1>5 DEF Told
<1>7. CASE is_expired(f)
  <2>1. /\ fence' = [fence EXCEPT ![f] = Signal(fence[f])]
        /\ user' = [user EXCEPT ![f] = "done"]
        /\ UNCHANGED <<value, thresh, enabled, status, list, work, cb>>
    BY <1>7 DEF enable_signaling, hw
  <2>2. /\ fence'[f] \in FenceType /\ fence'[f].refs = fence[f].refs
        /\ fence'[f].threshold = fence[f].threshold /\ fence'[f].timeout = fence[f].timeout
        /\ fence'[f].signaling = fence[f].signaling /\ fence'[f].error = fence[f].error
    BY <1>1, <1>2, <2>1 DEF Signal, FenceType
  <2>3. QuietFor(f)
    BY <1>1, <1>4, <2>1, <2>2 DEF QuietFor, Using
  <2>4. Reached(f)
    BY <1>1, <1>2, <1>6, <1>7, ExpiredIsReached DEF is_expired, Reached, Lag, FenceType, Points
  <2>5. Accounted(f)' /\ Staged(f)' /\ Calls(f)'
    BY <1>1, <1>3, <1>4, <1>5, <2>1, <2>2 DEF Accounted, One, Staged, Calls, In
  <2>6. Told(f)'
    BY <1>2, <1>3, <1>5, <1>6, <2>1, <2>2, <2>4 DEF Told, Reached
  <2> QED BY <2>3, <2>5, <2>6, QuietStep DEF FenceOK
<1>8. CASE ~ is_expired(f)
  <2> DEFINE add == IF fence[f].timeout THEN 2 ELSE 1
  <2>1. /\ fence' = [fence EXCEPT ![f].refs = fence[f].refs + add]
        /\ work' = [work EXCEPT ![f] = IF fence[f].timeout THEN "armed" ELSE work[f]]
        /\ list' = add_fence_to_list(list, f)
        /\ update_hw_state(list')
        /\ cb' = [cb EXCEPT ![f] = "set"]
        /\ user' = [user EXCEPT ![f] = "wait"]
    BY <1>8 DEF enable_signaling
  <2>2. /\ fence'[f] \in FenceType /\ fence'[f].refs = fence[f].refs + add
        /\ fence'[f].threshold = fence[f].threshold /\ fence'[f].timeout = fence[f].timeout
        /\ fence'[f].signaling = fence[f].signaling /\ fence'[f].error = fence[f].error
        /\ fence'[f].signaled = fence[f].signaled
        /\ fence' \in [Fences -> FenceType]
        /\ \A g \in Fences : g # f => fence'[g] = fence[g]
    BY <1>1, <1>2, <2>1 DEF FenceType
  <2>3. /\ list' \in Seq(Fences) /\ list' # <<>>
        /\ \A g \in Fences : In(g)' <=> In(g) \/ g = f
        /\ (\A g \in Fences : fence'[g].threshold = fence[g].threshold) => Ordered'
    BY <1>5, <1>6, <2>1, PutIn
  <2>4. \A g \in Fences : fence'[g].threshold = fence[g].threshold
    BY <2>2
  <2>5. Ordered'
    BY <2>3, <2>4
  <2>6. /\ value' = value /\ Programmed'
        /\ thresh' \in Points /\ enabled' \in BOOLEAN /\ status' \in BOOLEAN
    BY <2>1, <2>3, <2>4, Reprogram
  <2>7. work' \in [Fences -> Workings] /\ user' \in [Fences -> Using] /\ cb' \in [Fences -> Calling]
    BY <1>1, <2>1 DEF Workings, Using, Calling
  <2>8. ListFor(f)
    BY <1>1, <1>4, <2>1, <2>2, <2>3, <2>6, <2>7 DEF ListFor, TypeOK, Points
  <2>9. Lag'
    BY <1>4, <2>6 DEF Lag
  <2>10. /\ user'[f] = "wait" /\ work'[f] = (IF fence[f].timeout THEN "armed" ELSE "off")
         /\ In(f)' /\ cb'[f] = "set"
    BY <1>1, <1>5, <2>1, <2>3
  <2>11. Accounted(f)'
    BY <1>2, <1>4, <1>5, <2>2, <2>10 DEF Accounted, One
  <2>12. Staged(f)' /\ Calls(f)'
    BY <1>2, <1>4, <1>5, <2>2, <2>10 DEF Staged, Calls
  <2>13. Told(f)'
    BY <1>2, <1>3, <1>4, <1>5, <1>6, <2>2, <2>6, <2>10 DEF Told, Reached
  <2> QED BY <2>5, <2>6, <2>8, <2>9, <2>11, <2>12, <2>13, ListStep DEF FenceOK
<1> QED BY <1>7, <1>8

LEMMA WorkRemoveStep ==
  ASSUME IInv, NEW f \in Fences, WorkRemove(f)
  PROVE  IInv'
<1> USE DEF IInv
<1>1. /\ fence \in [Fences -> FenceType] /\ work \in [Fences -> Workings]
      /\ user \in [Fences -> Using] /\ cb \in [Fences -> Calling]
      /\ value \in Points /\ min_val \in Points
  BY DEF TypeOK, FenceType, Points
<1>2. fence[f] \in FenceType /\ fence[f].refs \in Nat /\ fence[f].timeout \in BOOLEAN
  BY <1>1 DEF FenceType
<1>3. Accounted(f) /\ Staged(f) /\ Calls(f) /\ Told(f)
  BY DEF FencesOK, FenceOK
<1>4. /\ work[f] = "remove" /\ LockFree /\ UNCHANGED <<min_val, isr, isr_val, isr_fence, cb, user>>
      /\ work' = [work EXCEPT ![f] = "error"]
  BY DEF WorkRemove
<1>5. work'[f] = "error" /\ work' \in [Fences -> Workings]
  BY <1>1, <1>4 DEF Workings
<1>6. CASE ~ In(f)
  <2>1. UNCHANGED <<value, thresh, enabled, status, list, fence>>
    BY <1>6 DEF WorkRemove, In, hw
  <2>2. QuietFor(f)
    BY <1>1, <1>4, <1>5, <2>1 DEF QuietFor
  <2>3. Accounted(f)' /\ Staged(f)' /\ Calls(f)' /\ Told(f)'
    BY <1>3, <1>4, <1>5, <1>6, <2>1 DEF Accounted, One, Staged, Calls, Told, Reached, In
  <2> QED BY <2>2, <2>3, QuietStep DEF FenceOK
<1>7. CASE In(f)
  <2>1. PICK i \in 1..Len(list) : list[i] = f /\ list' = RemoveAt(list, i)
    BY <1>7 DEF WorkRemove, In
  <2>2. update_hw_state(list') /\ fence' = [fence EXCEPT ![f] = Put(fence[f])]
    BY <1>7 DEF WorkRemove, In
  <2>3. fence[f].refs > 1
    BY <1>2, <1>3, <1>4, <1>7 DEF Accounted, One, Staged
  <2>4. /\ fence'[f] \in FenceType /\ fence'[f].refs = fence[f].refs - 1
        /\ fence'[f].threshold = fence[f].threshold /\ fence'[f].timeout = fence[f].timeout
        /\ fence'[f].signaling = fence[f].signaling /\ fence'[f].signaled = fence[f].signaled
        /\ fence'[f].error = fence[f].error
    BY <1>1, <1>2, <2>2, <2>3, PutFacts
  <2>5. /\ fence' \in [Fences -> FenceType]
        /\ \A g \in Fences : g # f => fence'[g] = fence[g]
    BY <1>1, <2>2, <2>4
  <2>6. /\ list' \in Seq(Fences)
        /\ \A g \in Fences : In(g)' <=> In(g) /\ g # f
        /\ (\A g \in Fences : In(g)' => fence'[g].threshold = fence[g].threshold) => Ordered'
    BY <2>1, TakeOut
  <2>7. \A g \in Fences : fence'[g].threshold = fence[g].threshold
    BY <2>4, <2>5
  <2>8. Ordered'
    BY <2>6, <2>7
  <2>9. /\ value' = value /\ Programmed'
        /\ thresh' \in Points /\ enabled' \in BOOLEAN /\ status' \in BOOLEAN
    BY <2>2, <2>6, <2>7, Reprogram
  <2>10. ListFor(f)
    BY <1>1, <1>4, <1>5, <2>5, <2>6, <2>9 DEF ListFor, TypeOK, Points
  <2>11. Lag'
    BY <1>4, <2>9 DEF Lag
  <2>12. Accounted(f)'
    BY <1>2, <1>3, <1>4, <1>5, <1>7, <2>4, <2>6 DEF Accounted, One
  <2>13. Staged(f)' /\ Calls(f)'
    BY <1>3, <1>4, <1>5, <1>7, <2>4, <2>6 DEF Staged, Calls
  <2>14. Told(f)'
    BY <1>2, <1>3, <1>4, <1>5, <2>3, <2>4, <2>9 DEF Told, Reached
  <2> QED BY <2>8, <2>9, <2>10, <2>11, <2>12, <2>13, <2>14, ListStep DEF FenceOK
<1> QED BY <1>6, <1>7

\* Steps that leave the fences, the list and their users alone.
LEMMA CounterSteps ==
  ASSUME IInv,
         \/ HwIncrement \/ syncpt_load \/ IsrStatus \/ IsrDisable \/ IsrClear
         \/ IsrLoad \/ IsrLock \/ IsrDone
  PROVE  IInv'
<1> USE DEF IInv
<1>1. /\ value \in Points /\ min_val \in Points /\ isr_val \in Points /\ thresh \in Points
      /\ enabled \in BOOLEAN /\ status \in BOOLEAN /\ list \in Seq(Fences)
  BY DEF TypeOK, Points
<1>2. UNCHANGED <<list, isr_fence, fence, work, cb, user>>
  BY DEF HwIncrement, syncpt_load, IsrStatus, IsrDisable, IsrClear, IsrLoad, IsrLock, IsrDone
<1>3. Ordered'
  BY <1>2 DEF Ordered
<1>4. Ahead(value, value) <= Backlog
  BY <1>1, AheadIs, BacklogAssumption DEF Points
<1>5. value' = value => FencesOK'
  <2> SUFFICES ASSUME value' = value, NEW g \in Fences PROVE FenceOK(g)'
    BY DEF FencesOK
  <2> QED BY <1>2, OtherFence DEF FencesOK, In
<1>6. CASE HwIncrement
  <2>1. /\ Ahead(value, min_val) < Backlog
        /\ isr \in HasValue => Ahead(value, isr_val) < Backlog
        /\ \A f \in Fences :
             fence[f].refs > 0 /\ ~ Before(value, fence[f].threshold)
               => Ahead(value, fence[f].threshold) < Backlog
        /\ value' = Add(value, 1)
        /\ status' = (status \/ (enabled /\ ~ Before(value', thresh)))
        /\ UNCHANGED <<min_val, thresh, enabled, isr, isr_val>>
    BY <1>6 DEF HwIncrement, Raise
  <2>2. value' \in Points /\ Ahead(value', min_val) <= Backlog
    BY <1>1, <2>1, IncrementFacts
  <2>3. isr \in HasValue => Ahead(value', isr_val) <= Backlog
    BY <1>1, <2>1, IncrementFacts
  <2>4. TypeOK'
    BY <1>2, <2>1, <2>2 DEF TypeOK, Points
  <2>5. Lag'
    BY <1>2, <2>1, <2>2, <2>3 DEF Lag
  <2>6. Programmed'
    BY <1>2, <2>1 DEF Programmed
  <2>7. ASSUME NEW g \in Fences PROVE FenceOK(g)'
    <3>1. Accounted(g) /\ Staged(g) /\ Calls(g) /\ Told(g)
      BY DEF FencesOK, FenceOK
    <3>2. Accounted(g)' /\ Staged(g)' /\ Calls(g)'
      BY <1>2, <3>1 DEF Accounted, Staged, Calls, One, In
    <3>3. fence[g].threshold \in Points /\ fence[g].refs \in Nat
      BY DEF TypeOK, Points
    <3>4. fence[g].refs > 0 =>
            /\ Near(value', fence[g].threshold)
            /\ Reached(g) => ~ Before(value', fence[g].threshold)
      BY <1>1, <2>1, <3>1, <3>3, IncrementFacts DEF Told, Reached
    <3>5. isr_fence = g => fence[g].refs > 0
      BY <3>1, HasRef
    <3>6. Told(g)'
      BY <1>2, <3>1, <3>3, <3>4, <3>5 DEF Told, Reached
    <3> QED BY <3>2, <3>6 DEF FenceOK
  <2> QED BY <1>3, <2>4, <2>5, <2>6, <2>7 DEF FencesOK
<1>7. CASE syncpt_load
  <2>1. min_val' = value /\ UNCHANGED <<value, thresh, enabled, status, isr, isr_val>>
    BY <1>7 DEF syncpt_load, hw
  <2>2. TypeOK' /\ Lag' /\ Programmed'
    BY <1>1, <1>2, <1>4, <2>1 DEF TypeOK, Lag, Programmed, Points
  <2> QED BY <1>3, <1>5, <2>1, <2>2
<1>8. CASE IsrStatus \/ IsrDisable \/ IsrClear
  <2>1. /\ isr \in {"idle", "disable", "clear"} /\ isr' \in {"disable", "clear", "load"}
        /\ enabled' \in BOOLEAN /\ status' \in BOOLEAN
        /\ UNCHANGED <<value, min_val, thresh, isr_val>>
    BY <1>1, <1>8 DEF IsrStatus, IsrDisable, IsrClear, hw
  <2>2. TypeOK'
    BY <1>1, <1>2, <2>1 DEF TypeOK, Points, Handling
  <2>3. Lag' /\ Programmed'
    BY <1>1, <1>2, <2>1 DEF Lag, HasValue, Programmed
  <2> QED BY <1>3, <1>5, <2>1, <2>2, <2>3
<1>9. CASE IsrLoad
  <2>1. /\ isr = "load" /\ min_val' = value /\ isr_val' = value /\ isr' = "lock"
        /\ UNCHANGED <<value, thresh, enabled, status>>
    BY <1>9 DEF IsrLoad, hw
  <2>2. TypeOK' /\ Lag' /\ Programmed'
    BY <1>1, <1>2, <1>4, <2>1 DEF TypeOK, Lag, HasValue, Programmed, Points, Handling
  <2> QED BY <1>3, <1>5, <2>1, <2>2
<1>10. CASE IsrLock
  <2>1. /\ isr = "lock" /\ isr' = "loop"
        /\ UNCHANGED <<value, min_val, thresh, enabled, status, isr_val>>
    BY <1>10 DEF IsrLock, hw
  <2>2. TypeOK' /\ Lag' /\ Programmed'
    BY <1>1, <1>2, <2>1 DEF TypeOK, Lag, HasValue, Programmed, Points, Handling
  <2> QED BY <1>3, <1>5, <2>1, <2>2
<1>11. CASE IsrDone
  <2>1. /\ isr = "loop" /\ isr' = "idle" /\ isr_val' = 0 /\ UNCHANGED min_val
        /\ update_hw_state(list')
    BY <1>2, <1>11 DEF IsrDone
  <2>2. /\ value' = value /\ Programmed'
        /\ thresh' \in Points /\ enabled' \in BOOLEAN /\ status' \in BOOLEAN
    BY <1>1, <1>2, <2>1, Reprogram
  <2>3. 0 \in Points
    BY ModAssumption DEF Points
  <2>4. TypeOK' /\ Lag'
    BY <1>1, <1>2, <2>1, <2>2, <2>3 DEF TypeOK, Lag, HasValue, Points, Handling
  <2> QED BY <1>3, <1>5, <2>2, <2>4
<1> QED BY <1>6, <1>7, <1>8, <1>9, <1>10, <1>11

LEMMA TailIsRemove ==
  ASSUME NEW S, NEW l \in Seq(S), l # <<>>
  PROVE  Tail(l) = RemoveAt(l, 1)
<1>1. Len(l) \in Nat /\ 1 \in 1..Len(l)
  OBVIOUS
<1> DEFINE r == RemoveAt(l, 1)
<1>2. /\ r \in Seq(S) /\ Len(r) = Len(l) - 1
      /\ \A i \in 1..(Len(l) - 1) : r[i] = l[i + 1]
  BY <1>1, RemoveFacts
<1> HIDE DEF r
<1>3. /\ Tail(l) \in Seq(S) /\ Len(Tail(l)) = Len(l) - 1
      /\ \A i \in 1..(Len(l) - 1) : Tail(l)[i] = l[i + 1]
  BY <1>1
<1>4. Tail(l) = r
  BY <1>2, <1>3, SeqEqual
<1> QED BY <1>4 DEF r

LEMMA IsrTakeStep ==
  ASSUME IInv, IsrTake
  PROVE  IInv'
<1> USE DEF IInv
<1>1. /\ fence \in [Fences -> FenceType] /\ work \in [Fences -> Workings]
      /\ user \in [Fences -> Using] /\ cb \in [Fences -> Calling]
      /\ value \in Points /\ isr_val \in Points /\ list \in Seq(Fences)
  BY DEF TypeOK, FenceType, Points
<1>2. /\ isr = "loop" /\ list # <<>> /\ ~ Before(isr_val, fence[Head(list)].threshold)
      /\ UNCHANGED <<value, thresh, enabled, status, min_val, isr_val, work, cb, user>>
  BY DEF IsrTake, HeadExpired, hw
<1>3. PICK f \in Fences : f = Head(list) /\ f = list[1] /\ In(f) /\ 1 \in 1..Len(list)
  BY <1>2, InFacts
<1>4. list' = RemoveAt(list, 1)
  BY <1>1, <1>2, TailIsRemove DEF IsrTake
<1>5. fence[f] \in FenceType /\ fence[f].refs \in Nat /\ fence[f].timeout \in BOOLEAN
  BY <1>1 DEF FenceType
<1>6. Accounted(f) /\ Staged(f) /\ Calls(f) /\ Told(f)
  BY DEF FencesOK, FenceOK
<1>7. isr_fence \notin Fences
  BY <1>2 DEF Lag
<1>8. fence[f].refs > 0 /\ Reached(f)
  <2>1. fence[f].refs > 0 /\ Near(value, fence[f].threshold)
    BY <1>3, <1>6, HasRef DEF Told
  <2>2. Ahead(value, isr_val) <= Backlog
    BY <1>2 DEF Lag, HasValue
  <2> QED BY <1>1, <1>2, <1>3, <1>5, <2>1, <2>2, ExpiredIsReached DEF Reached, FenceType, Points
<1>9. /\ list' \in Seq(Fences)
      /\ \A g \in Fences : In(g)' <=> In(g) /\ g # f
      /\ (\A g \in Fences : In(g)' => fence'[g].threshold = fence[g].threshold) => Ordered'
  BY <1>3, <1>4, TakeOut
<1>10. ASSUME fence' \in [Fences -> FenceType], fence'[f].threshold = fence[f].threshold,
              \A g \in Fences : g # f => fence'[g] = fence[g],
              isr' \in {"loop", "signal"}, isr_fence' \in Fences \cup {NoFence},
              isr' = "signal" <=> isr_fence' \in Fences,
              isr_fence' \in Fences => isr_fence' = f, FenceOK(f)'
       PROVE  IInv'
  <2>1. \A g \in Fences : fence'[g].threshold = fence[g].threshold
    BY <1>10
  <2>2. Ordered'
    BY <1>9, <2>1
  <2>3. Lag'
    BY <1>2, <1>10 DEF Lag, HasValue
  <2>4. Programmed'
    BY <1>2, <1>10 DEF Programmed
  <2>5. ListFor(f)
    BY <1>1, <1>2, <1>7, <1>9, <1>10 DEF ListFor, TypeOK, Points, Handling
  <2> QED BY <1>10, <2>2, <2>3, <2>4, <2>5, ListStep
<1>11. CASE fence[f].signaling
  <2>1. fence' = [fence EXCEPT ![f] = Put(fence[f])] /\ UNCHANGED <<isr, isr_fence>>
    BY <1>3, <1>11 DEF IsrTake
  <2>2. work[f] = "remove" /\ fence[f].refs > 1
    BY <1>3, <1>5, <1>6, <1>11 DEF Accounted, One, Staged
  <2>3. /\ fence'[f] \in FenceType /\ fence'[f].refs = fence[f].refs - 1
        /\ fence'[f].threshold = fence[f].threshold /\ fence'[f].timeout = fence[f].timeout
        /\ fence'[f].signaling = fence[f].signaling /\ fence'[f].signaled = fence[f].signaled
        /\ fence'[f].error = fence[f].error
    BY <1>1, <1>5, <2>1, <2>2, PutFacts
  <2>4. fence' \in [Fences -> FenceType] /\ \A g \in Fences : g # f => fence'[g] = fence[g]
    BY <1>1, <2>1, <2>3
  <2>5. Accounted(f)'
    BY <1>2, <1>3, <1>5, <1>6, <1>9, <2>1, <2>3 DEF Accounted, One
  <2>6. Staged(f)' /\ Calls(f)'
    BY <1>2, <1>3, <1>6, <1>9, <2>1, <2>2, <2>3 DEF Staged, Calls
  <2>7. Told(f)'
    BY <1>2, <1>5, <1>6, <2>1, <2>2, <2>3 DEF Told, Reached
  <2>8. FenceOK(f)'
    BY <2>5, <2>6, <2>7 DEF FenceOK
  <2>9. /\ isr' \in {"loop", "signal"} /\ isr_fence' \in Fences \cup {NoFence}
        /\ isr' = "signal" <=> isr_fence' \in Fences
        /\ isr_fence' \in Fences => isr_fence' = f
    BY <1>2, <1>7, <2>1 DEF TypeOK
  <2> QED BY <1>10, <2>3, <2>4, <2>8, <2>9
<1>12. CASE ~ fence[f].signaling
  <2>1. /\ fence' = [fence EXCEPT ![f].signaling = TRUE]
        /\ isr' = "signal" /\ isr_fence' = f
    BY <1>3, <1>12 DEF IsrTake
  <2>2. /\ fence'[f] \in FenceType /\ fence'[f].refs = fence[f].refs
        /\ fence'[f].threshold = fence[f].threshold /\ fence'[f].timeout = fence[f].timeout
        /\ fence'[f].signaled = fence[f].signaled /\ fence'[f].error = fence[f].error
        /\ fence' \in [Fences -> FenceType] /\ \A g \in Fences : g # f => fence'[g] = fence[g]
    BY <1>1, <1>5, <2>1 DEF FenceType
  <2>3. Accounted(f)'
    BY <1>2, <1>3, <1>5, <1>6, <1>7, <1>9, <2>1, <2>2 DEF Accounted, One
  <2>4. Staged(f)' /\ Calls(f)'
    BY <1>2, <1>3, <1>6, <1>9, <2>1, <2>2 DEF Staged, Calls
  <2>5. Told(f)'
    BY <1>2, <1>5, <1>6, <1>8, <2>1, <2>2 DEF Told, Reached
  <2>6. FenceOK(f)'
    BY <2>3, <2>4, <2>5 DEF FenceOK
  <2> QED BY <1>10, <2>1, <2>2, <2>6
<1> QED BY <1>11, <1>12

LEMMA IsrSignalStep ==
  ASSUME IInv, IsrSignal
  PROVE  IInv'
<1> USE DEF IInv
<1>1. /\ fence \in [Fences -> FenceType] /\ work \in [Fences -> Workings]
      /\ user \in [Fences -> Using] /\ cb \in [Fences -> Calling]
      /\ value \in Points /\ isr_val \in Points /\ list \in Seq(Fences)
  BY DEF TypeOK, FenceType, Points
<1>2. PICK f \in Fences : f = isr_fence
  BY DEF IsrSignal, Lag
<1> DEFINE cancelled == fence[f].timeout /\ work[f] = "armed"
           r == Signal(fence[f])
<1>3. /\ isr = "signal" /\ isr' = "callback"
      /\ work' = [work EXCEPT ![f] = IF cancelled THEN "off" ELSE work[f]]
      /\ fence' = [fence EXCEPT ![f] = IF cancelled THEN Put(r) ELSE r]
      /\ cb' = [cb EXCEPT ![f] = IF cb[f] = "set" THEN "running" ELSE cb[f]]
      /\ UNCHANGED <<value, thresh, enabled, status, min_val, list, isr_val, isr_fence, user>>
  BY <1>2 DEF IsrSignal, Called, hw
<1>4. fence[f] \in FenceType /\ fence[f].refs \in Nat /\ fence[f].timeout \in BOOLEAN
  BY <1>1 DEF FenceType
<1>5. Accounted(f) /\ Staged(f) /\ Calls(f) /\ Told(f)
  BY DEF FencesOK, FenceOK
<1>6. /\ r \in FenceType /\ r.refs = fence[f].refs /\ r.threshold = fence[f].threshold
      /\ r.timeout = fence[f].timeout /\ r.signaling = fence[f].signaling
      /\ r.signaled = TRUE /\ r.error = fence[f].error
  BY <1>4 DEF Signal, FenceType
<1> HIDE DEF r
<1>7. fence[f].refs > 0 /\ ~ In(f) /\ Reached(f) /\ user[f] # "made"
      /\ Near(value, fence[f].threshold)
  BY <1>2, <1>5, HasRef DEF Staged, Told
<1>8. /\ fence'[f] = IF cancelled THEN Put(r) ELSE r
      /\ work'[f] = IF cancelled THEN "off" ELSE work[f]
      /\ cb'[f] = IF cb[f] = "set" THEN "running" ELSE cb[f]
      /\ isr_fence' = f /\ ~ In(f)' /\ user'[f] = user[f]
      /\ work' \in [Fences -> Workings] /\ cb' \in [Fences -> Calling]
      /\ \A g \in Fences : g # f =>
           fence'[g] = fence[g] /\ work'[g] = work[g] /\ cb'[g] = cb[g]
  BY <1>1, <1>2, <1>3, <1>7 DEF In, Workings, Calling
\* Apart from the handler's own, what is left of f is what its user and a work
\* item not cancelled hold.
<1>9. /\ fence'[f] \in FenceType
      /\ fence'[f].refs = fence[f].refs - One(cancelled) /\ fence'[f].refs > 0
      /\ fence'[f].threshold = fence[f].threshold /\ fence'[f].timeout = fence[f].timeout
      /\ fence'[f].signaling = fence[f].signaling /\ fence'[f].error = fence[f].error
  <2>1. CASE cancelled
    <3>1. r.refs > 1
      BY <1>2, <1>4, <1>5, <1>6, <2>1 DEF Accounted, One
    <3>2. /\ Put(r) \in FenceType /\ Put(r).refs = r.refs - 1
          /\ Put(r).threshold = r.threshold /\ Put(r).timeout = r.timeout
          /\ Put(r).signaling = r.signaling /\ Put(r).error = r.error
      BY <1>4, <1>6, <3>1, PutFacts
    <3>3. fence'[f] = Put(r) /\ One(cancelled) = 1
      BY <1>8, <2>1 DEF One
    <3> QED BY <1>4, <1>6, <3>1, <3>2, <3>3
  <2>2. CASE ~ cancelled
    BY <1>4, <1>6, <1>7, <1>8, <2>2 DEF One
  <2> QED BY <2>1, <2>2
<1>10. fence' \in [Fences -> FenceType]
  BY <1>1, <1>3, <1>8, <1>9
<1>11. ListFor(f)
  BY <1>1, <1>2, <1>3, <1>8, <1>10 DEF ListFor, TypeOK, Points, In, Handling
<1>12. Lag'
  BY <1>3 DEF Lag, HasValue
<1>13. Ordered' /\ Programmed'
  <2>1. \A i \in 1..Len(list) : list[i] \in Fences /\ list[i] # f
    BY <1>7, InFacts
  <2>2. Ordered'
    BY <1>3, <1>8, <2>1 DEF Ordered
  <2>3. Programmed'
    BY <1>3 DEF Programmed
  <2> QED BY <2>2, <2>3
<1>14. Accounted(f)'
  BY <1>2, <1>4, <1>5, <1>7, <1>8, <1>9 DEF Accounted, One
<1>15. Staged(f)' /\ Calls(f)'
  BY <1>2, <1>5, <1>7, <1>8, <1>9 DEF Staged, Calls
<1>16. Told(f)'
  BY <1>3, <1>5, <1>7, <1>8, <1>9 DEF Told, Reached
<1> QED BY <1>11, <1>12, <1>13, <1>14, <1>15, <1>16, ListStep DEF FenceOK

LEMMA IsrCallbackStep ==
  ASSUME IInv, IsrCallback
  PROVE  IInv'
<1> USE DEF IInv
<1>1. /\ fence \in [Fences -> FenceType] /\ work \in [Fences -> Workings]
      /\ user \in [Fences -> Using] /\ cb \in [Fences -> Calling]
      /\ value \in Points /\ isr_val \in Points /\ list \in Seq(Fences)
  BY DEF TypeOK, FenceType, Points
<1>2. PICK f \in Fences : f = isr_fence
  BY DEF IsrCallback, Lag
<1>3. /\ isr = "callback" /\ isr' = "loop" /\ isr_fence' = NoFence
      /\ fence' = [fence EXCEPT ![f] = Put(fence[f])]
      /\ cb' = [cb EXCEPT ![f] = "none"]
      /\ UNCHANGED <<value, thresh, enabled, status, min_val, list, isr_val, work, user>>
  BY <1>2 DEF IsrCallback, hw
<1>4. fence[f] \in FenceType /\ fence[f].refs \in Nat /\ fence[f].timeout \in BOOLEAN
  BY <1>1 DEF FenceType
<1>5. Accounted(f) /\ Staged(f) /\ Calls(f) /\ Told(f)
  BY DEF FencesOK, FenceOK
<1>6. fence[f].refs > 0 /\ ~ In(f) /\ Reached(f) /\ user[f] # "made"
      /\ Near(value, fence[f].threshold)
  BY <1>2, <1>5, HasRef DEF Staged, Told
<1>7. /\ fence'[f] = Put(fence[f]) /\ cb'[f] = "none" /\ work'[f] = work[f]
      /\ isr_fence' # f /\ ~ In(f)' /\ user'[f] = user[f]
      /\ cb' \in [Fences -> Calling]
      /\ \A g \in Fences : g # f => fence'[g] = fence[g] /\ cb'[g] = cb[g]
  BY <1>1, <1>3, <1>6, NoFenceAssumption DEF In, Calling
<1>8. /\ fence'[f] \in FenceType /\ fence'[f].refs = fence[f].refs - 1
      /\ fence[f].refs = 1 => fence'[f] = Freed
      /\ fence[f].refs # 1 =>
           /\ fence'[f].threshold = fence[f].threshold /\ fence'[f].timeout = fence[f].timeout
           /\ fence'[f].signaling = fence[f].signaling /\ fence'[f].signaled = fence[f].signaled
           /\ fence'[f].error = fence[f].error
  BY <1>4, <1>6, <1>7, PutFacts
<1>9. fence[f].refs = 1 => user[f] = "none" /\ work[f] = "off"
  BY <1>2, <1>4, <1>5, <1>6 DEF Accounted, One, Staged
<1>10. fence' \in [Fences -> FenceType]
  BY <1>1, <1>3, <1>8
<1>11. ListFor(f)
  BY <1>1, <1>2, <1>3, <1>7, <1>10, NoFenceAssumption DEF ListFor, TypeOK, Points, In, Handling
<1>12. Lag'
  BY <1>3, NoFenceAssumption DEF Lag, HasValue
<1>13. Ordered' /\ Programmed'
  <2>1. \A i \in 1..Len(list) : list[i] \in Fences /\ list[i] # f
    BY <1>6, InFacts
  <2>2. Ordered'
    BY <1>3, <1>7, <2>1 DEF Ordered
  <2>3. Programmed'
    BY <1>3 DEF Programmed
  <2> QED BY <2>2, <2>3
<1>14. Accounted(f)'
  BY <1>2, <1>4, <1>5, <1>6, <1>7, <1>8, <1>9, FreedFacts DEF Accounted, One
<1>15. Staged(f)' /\ Calls(f)'
  BY <1>2, <1>5, <1>6, <1>7, <1>8, <1>9, FreedFacts DEF Staged, Calls
<1>16. Told(f)'
  BY <1>3, <1>4, <1>5, <1>6, <1>7, <1>8, <1>9, FreedFacts DEF Told, Reached
<1> QED BY <1>11, <1>12, <1>13, <1>14, <1>15, <1>16, ListStep DEF FenceOK

LEMMA NextIInv == IInv /\ [Next]_vars => IInv'
<1> SUFFICES ASSUME IInv, [Next]_vars PROVE IInv'
  OBVIOUS
<1>1. CASE \/ HwIncrement \/ syncpt_load \/ IsrStatus \/ IsrDisable \/ IsrClear
           \/ IsrLoad \/ IsrLock \/ IsrDone
  BY <1>1, CounterSteps
<1>2. CASE IsrTake
  BY <1>2, IsrTakeStep
<1>3. CASE IsrSignal \/ IsrCallback
  BY <1>3, IsrSignalStep, IsrCallbackStep
<1>4. ASSUME NEW f \in Fences, User(f) PROVE IInv'
  BY <1>4, UserSteps, EnableStep DEF User
<1>5. ASSUME NEW f \in Fences, Work(f) PROVE IInv'
  BY <1>5, WorkSteps, WorkRemoveStep DEF Work
<1>6. CASE UNCHANGED vars
  <2>1. UNCHANGED <<value, min_val, thresh, enabled, status, list, isr, isr_val,
                    isr_fence, fence, work, cb, user>>
    BY <1>6 DEF vars
  <2>2. TypeOK' /\ Lag' /\ Ordered' /\ Programmed'
    BY <2>1 DEF IInv, TypeOK, Lag, Ordered, Programmed
  <2>3. FencesOK'
    BY <2>1 DEF IInv, FencesOK, FenceOK, Accounted, One, Staged, Calls, Told, Reached, In
  <2> QED BY <2>2, <2>3 DEF IInv
<1> QED BY <1>1, <1>2, <1>3, <1>4, <1>5, <1>6 DEF Next, Isr

LEMMA Invariance == Spec => []IInv
BY InitIInv, NextIInv, PTL DEF Spec

--------------------------------------------------------------------------------
(* The theorems. *)

\* Every variable keeps its type, whatever the actors do in whatever order.
THEOREM Typed == Spec => []TypeOK
<1>1. IInv => TypeOK
  BY DEF IInv
<1> QED BY <1>1, Invariance, PTL

\* The references of a fence are its user's, the list's or the handler's, and the
\* work item's: the exchange on "signaling" in host1x_fence_signal and
\* do_fence_timeout decides rightly, for any number of fences, who gives back whose.
THEOREM ReferencesAreAccounted == Spec => []RefsAccounted
<1>1. IInv => RefsAccounted
  BY DEF IInv, FencesOK, FenceOK, Accounted, RefsAccounted, In
<1> QED BY <1>1, Invariance, PTL

\* A fence that reports success has reached its threshold, although it is
\* compared with values read before the lock is taken.
THEOREM SuccessIsReached == Spec => []SignaledMeansReached
<1>1. IInv => SignaledMeansReached
  BY DEF IInv, FencesOK, FenceOK, Told, SignaledMeansReached
<1> QED BY <1>1, Invariance, PTL

\* A user that has removed its callback may free what the callback uses: nobody
\* runs it or will, be it the handler, the work item or the poller.  After
\* host1x_fence_cancel the work item is over and the fence out of the list, and
\* once the lock has been taken and released no handler has it in hand.
THEOREM CancelTakesOut == Spec => []CancelIsFinal
<1>1. IInv => CancelIsFinal
  BY DEF IInv, FencesOK, FenceOK, Staged, Calls, CancelIsFinal, In
<1> QED BY <1>1, Invariance, PTL

\* A fence in the list that is reached is about to be seen: the list is in the
\* order of the thresholds, so the first is reached too, and the comparator is
\* set to the first whenever the handler is not running.  This holds although the
\* status bit is cleared, by the handler without the lock and whenever the list
\* becomes empty.  It is a theorem about thresholds less than half the range apart
\* (ComparableAssumption), which the fence ioctl does not enforce.
THEOREM NoFenceIsMissed == Spec => []NoMissedFence
<1>1. IInv => NoMissedFence
  <2> SUFFICES ASSUME IInv, NEW i \in 1..Len(list), Reached(list[i]), isr = "idle"
      PROVE  status
    BY DEF NoMissedFence
  <2> USE DEF IInv
  <2>1. /\ list \in Seq(Fences) /\ Len(list) \in Nat /\ list # <<>>
        /\ Head(list) = list[1] /\ 1 \in 1..Len(list) /\ value \in Points
    BY DEF TypeOK, Points
  <2>2. ASSUME NEW j \in 1..Len(list)
        PROVE  fence[list[j]].threshold \in Points /\ Near(value, fence[list[j]].threshold)
    <3>1. list[j] \in Fences /\ In(list[j])
      BY InFacts
    <3>2. fence[list[j]].refs > 0
      BY <3>1, HasRef DEF FencesOK, FenceOK
    <3> QED BY <3>1, <3>2 DEF FencesOK, FenceOK, Told, TypeOK, Points
  <2>3. Reached(list[1])
    <3>1. CASE i = 1
      BY <3>1
    <3>2. CASE i # 1
      <4>1. ~ Before(fence[list[i]].threshold, fence[list[1]].threshold)
        BY <2>1, <3>2 DEF Ordered
      <4> QED BY <2>1, <2>2, <4>1, OrderFacts DEF Reached
    <3> QED BY <3>1, <3>2
  <2>4. enabled /\ thresh = fence[list[1]].threshold
    BY <2>1 DEF Programmed
  <2> QED BY <2>3, <2>4 DEF Programmed, Reached
<1> QED BY <1>1, Invariance, PTL
================================================================================
