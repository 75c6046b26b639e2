--------------------------- MODULE Host1xCdma_proofs ---------------------------
(***************************************************************************)
(* Proofs about Host1xCdma, for every set of jobs, every ring size and     *)
(* every program of pushes: the accounting of the push buffer holds while  *)
(* submitter, update work, timeout handler and cdma_stop interleave, and   *)
(* the timer watches the job at the head of the queue.                     *)
(***************************************************************************)
EXTENDS Host1xCdma, WellFoundedInduction, TLAPS

(* Induction over the naturals as the existence of a least element. *)
LEMMA Least ==
  ASSUME NEW T \in SUBSET Nat, T # {}
  PROVE  \E x \in T : \A y \in T : x <= y
<1>1. \E x \in T : \A y \in T : ~ (<<y, x>> \in OpToRel(<, Nat))
  BY NatLessThanWellFounded, WFMin, Zenon
<1>2. PICK x \in T : \A y \in T : ~ (<<y, x>> \in OpToRel(<, Nat))
  BY <1>1, Zenon
<1>3. ASSUME NEW y \in T PROVE x <= y
  <2>1. ~ (<<y, x>> \in OpToRel(<, Nat))
    BY <1>2, <1>3, Zenon
  <2>2. ~ (y < x)
    BY <2>1 DEF OpToRel
  <2> QED
    BY <2>2
<1> QED
  BY <1>3

--------------------------------------------------------------------------------
(* Ring positions. *)

LEMMA StepType ==
  ASSUME NEW p \in Int, NEW n \in Int
  PROVE  Step(p, n) \in 0..(Slots - 1)
  BY SlotsAssumption DEF Step, SlotsAssumption

LEMMA StepCases ==
  ASSUME NEW p \in 0..(Slots - 1), NEW n \in 0..Slots
  PROVE  Step(p, n) = IF p + n < Slots THEN p + n ELSE p + n - Slots
<1>1. Slots \in Nat /\ Slots > 1
  BY SlotsAssumption DEF SlotsAssumption
<1>2. \A x \in 0..(Slots - 1) : x % Slots = x
  BY <1>1
<1>3. \A x \in Slots..(2 * Slots - 1) : x % Slots = x - Slots
  BY <1>1
<1> QED
  BY <1>1, <1>2, <1>3 DEF Step

LEMMA StepStep ==
  ASSUME NEW p \in 0..(Slots - 1), NEW m \in Nat, NEW n \in Nat, m + n <= Slots
  PROVE  Step(Step(p, m), n) = Step(p, m + n)
<1>1. Slots \in Nat /\ Slots > 1
  BY SlotsAssumption DEF SlotsAssumption
<1>2. m \in 0..Slots /\ n \in 0..Slots /\ m + n \in 0..Slots
  BY <1>1
<1>3. Step(p, m) \in 0..(Slots - 1)
  BY <1>1, <1>2, StepType
<1>4. Step(p, m) = IF p + m < Slots THEN p + m ELSE p + m - Slots
  BY <1>2, StepCases
<1>5. Step(p, m + n) = IF p + (m + n) < Slots THEN p + (m + n) ELSE p + (m + n) - Slots
  BY <1>2, StepCases
<1>6. Step(Step(p, m), n) = IF Step(p, m) + n < Slots THEN Step(p, m) + n ELSE Step(p, m) + n - Slots
  BY <1>2, <1>3, StepCases
<1> HIDE DEF Step
<1> QED
  BY <1>1, <1>4, <1>5, <1>6

(* The free slots when u are in use. *)
LEMMA SpaceLeft ==
  ASSUME NEW f \in 0..(Slots - 1), NEW u \in Nat, u < Slots
  PROVE  (f - Step(f, 1 + u) + Slots) % Slots = Slots - 1 - u
<1>1. Slots \in Nat /\ Slots > 1 /\ 1 + u \in 0..Slots
  BY SlotsAssumption DEF SlotsAssumption
<1>2. \A x \in 0..(Slots - 1) : x % Slots = x
  BY <1>1
<1>3. \A x \in Slots..(2 * Slots - 1) : x % Slots = x - Slots
  BY <1>1
<1>4. Step(f, 1 + u) = IF f + (1 + u) < Slots THEN f + (1 + u) ELSE f + (1 + u) - Slots
  BY <1>1, StepCases
<1>5. CASE f + (1 + u) < Slots
  <2>1. f - Step(f, 1 + u) + Slots = Slots - 1 - u
    BY <1>1, <1>4, <1>5
  <2> QED
    BY <1>1, <1>2, <2>1
<1>6. CASE f + (1 + u) >= Slots
  <2>1. f - Step(f, 1 + u) + Slots = 2 * Slots - 1 - u
    BY <1>1, <1>4, <1>6
  <2> QED
    BY <1>1, <1>3, <2>1
<1> QED
  BY <1>1, <1>5, <1>6

--------------------------------------------------------------------------------
(* The slots of the first jobs of a queue. *)

(* g[i] is the sum of the first i of the n numbers in w. *)
Sums(g, n, w) ==
  /\ g \in [0..n -> Nat] /\ g[0] = 0
  /\ \A i \in 1..n : g[i] = g[i - 1] + w[i]

LEMMA SumsExist ==
  ASSUME NEW n \in Nat, NEW w \in [1..n -> Nat]
  PROVE  \E g : Sums(g, n, w)
<1> DEFINE T == {m \in Nat : m <= n /\ ~ \E g : Sums(g, m, w)}
<1>0. n \notin T => \E g : Sums(g, n, w)
  OBVIOUS
<1>1. SUFFICES ASSUME T # {} PROVE FALSE
  BY <1>0
<1>2. PICK m \in T : \A k \in T : m <= k
  BY <1>1, Least
<1>3. CASE m = 0
  <2>1. Sums([i \in 0..0 |-> 0], 0, w)
    BY DEF Sums
  <2> QED
    BY <1>3, <2>1
<1>4. CASE m # 0
  <2>1. m - 1 \in Nat /\ m - 1 <= n /\ m - 1 \notin T /\ m \in 1..n /\ w[m] \in Nat
    BY <1>2, <1>4
  <2>2. PICK g : Sums(g, m - 1, w)
    BY <2>1
  <2>3. g[m - 1] + w[m] \in Nat
    BY <2>1, <2>2 DEF Sums
  <2>4. PICK h : h = [i \in 0..m |-> IF i = m THEN g[m - 1] + w[m] ELSE g[i]]
    OBVIOUS
  <2>5. Sums(h, m, w)
    BY <2>1, <2>2, <2>3, <2>4 DEF Sums
  <2> QED
    BY <2>5
<1> QED
  BY <1>3, <1>4

(* v holds the m numbers after the first k of the n in w. *)
Part(v, m, w, n, k) ==
  /\ n \in Nat /\ m \in Nat /\ k \in Nat /\ k + m <= n /\ v \in [1..m -> Nat]
  /\ \A i \in 1..m : v[i] = w[k + i]

(* The sums of a part of the numbers are differences of sums. *)
LEMMA SumsShift ==
  ASSUME NEW n, NEW m, NEW k, NEW w, NEW v, Part(v, m, w, n, k),
         NEW g, NEW h, Sums(g, n, w), Sums(h, m, v)
  PROVE  \A i \in 0..m : g[k + i] = g[k] + h[i]
<1>0. n \in Nat /\ m \in Nat /\ k \in Nat /\ k + m <= n /\ v \in [1..m -> Nat]
  BY DEF Part
<1> DEFINE T == {i \in Nat : i <= m /\ g[k + i] # g[k] + h[i]}
<1>1. SUFFICES ASSUME T # {} PROVE FALSE
  BY <1>0
<1>2. PICK i \in T : \A j \in T : i <= j
  BY <1>1, Least
<1>3. CASE i = 0
  BY <1>0, <1>2, <1>3 DEF Sums
<1>4. CASE i # 0
  <2>1. /\ i - 1 \in Nat /\ i - 1 <= m /\ i - 1 \notin T /\ i \in 1..m /\ k + i \in 1..n
        /\ (k + i) - 1 = k + (i - 1) /\ i - 1 \in 0..m /\ k + (i - 1) \in 0..n /\ k \in 0..n
    BY <1>0, <1>2, <1>4
  <2>2. g[k + (i - 1)] = g[k] + h[i - 1]
    BY <1>0, <2>1
  <2>3. g[k + i] = g[k + (i - 1)] + w[k + i]
    BY <2>1 DEF Sums
  <2>4. h[i] = h[i - 1] + v[i] /\ v[i] = w[k + i]
    BY <2>1 DEF Sums, Part
  <2>5. g[k] \in Nat /\ h[i - 1] \in Nat /\ g[k + (i - 1)] \in Nat /\ h[i] \in Nat /\ g[k + i] \in Nat
    BY <2>1 DEF Sums
  <2>6. v[i] \in Nat
    BY <1>0, <2>1
  <2> QED
    BY <1>2, <2>2, <2>3, <2>4, <2>5, <2>6
<1> QED
  BY <1>3, <1>4

LEMMA SumsGrow ==
  ASSUME NEW n \in Nat, NEW w \in [1..n -> Nat], NEW g, Sums(g, n, w), NEW i \in 0..n
  PROVE  g[i] <= g[n]
<1> DEFINE T == {d \in Nat : d <= n /\ ~ (g[n - d] <= g[n])}
<1>1. T = {}
  <2> SUFFICES ASSUME T # {} PROVE FALSE
    OBVIOUS
  <2>1. PICK d \in T : \A e \in T : d <= e
    BY Least
  <2>2. CASE d = 0
    BY <2>1, <2>2 DEF Sums
  <2>3. CASE d # 0
    <3>0. d \in Nat /\ d <= n /\ d # 0
      BY <2>1, <2>3
    <3>1. /\ d - 1 \in Nat /\ d - 1 <= n /\ n - d \in 0..n
          /\ n - (d - 1) \in 1..n /\ (n - (d - 1)) - 1 = n - d /\ ~ (d <= d - 1)
      BY <3>0
    <3>2. g[n - (d - 1)] <= g[n]
      BY <2>1, <3>1
    <3>3. g[n - (d - 1)] = g[n - d] + w[n - (d - 1)]
      BY <3>1 DEF Sums
    <3>4. g[n - d] \in Nat /\ w[n - (d - 1)] \in Nat /\ g[n] \in Nat
      BY <3>1 DEF Sums
    <3> QED
      BY <2>1, <3>2, <3>3, <3>4
  <2> QED
    BY <2>2, <2>3
<1>2. n - i \in Nat /\ n - i <= n /\ n - (n - i) = i
  OBVIOUS
<1> QED
  BY <1>1, <1>2

(* What the update computes is such a sum. *)
Weights(q, jb) == [i \in 1..Len(q) |-> jb[q[i]].num_slots]

LEMMA FirstSlotsAreSums ==
  ASSUME NEW q \in Seq(Jobs), NEW jb, \A j \in Jobs : jb[j].num_slots \in Nat
  PROVE  /\ Sums(FirstSlots(q, jb), Len(q), Weights(q, jb))
         /\ Weights(q, jb) \in [1..Len(q) -> Nat]
<1>1. Len(q) \in Nat /\ \A i \in 1..Len(q) : q[i] \in Jobs
  OBVIOUS
<1>2. Weights(q, jb) \in [1..Len(q) -> Nat]
  BY <1>1 DEF Weights
<1>3. PICK g : Sums(g, Len(q), Weights(q, jb))
  BY <1>1, <1>2, SumsExist
<1>4. g = [i \in 0..Len(q) |-> IF i = 0 THEN 0 ELSE g[i - 1] + jb[q[i]].num_slots]
  <2>1. g \in [0..Len(q) -> Nat] /\ g[0] = 0
    BY <1>3 DEF Sums
  <2>2. ASSUME NEW i \in 0..Len(q) PROVE g[i] = IF i = 0 THEN 0 ELSE g[i - 1] + jb[q[i]].num_slots
    <3>1. CASE i = 0
      BY <2>1, <3>1
    <3>2. CASE i # 0
      BY <1>1, <1>3, <2>2, <3>2 DEF Sums, Weights
    <3> QED
      BY <3>1, <3>2
  <2> QED
    BY <2>1, <2>2
<1>5. FirstSlots(q, jb) =
        [i \in 0..Len(q) |-> IF i = 0 THEN 0 ELSE FirstSlots(q, jb)[i - 1] + jb[q[i]].num_slots]
  BY <1>4, Zenon DEF FirstSlots
<1>6. PICK f : f = FirstSlots(q, jb)
  OBVIOUS
<1>7. f = [i \in 0..Len(q) |-> IF i = 0 THEN 0 ELSE f[i - 1] + jb[q[i]].num_slots]
  BY <1>5, <1>6
<1>8. f[0] = 0 /\ \A i \in 1..Len(q) : f[i] = f[i - 1] + jb[q[i]].num_slots
  BY <1>1, <1>7
<1>9. \A i \in 0..Len(q) : f[i] = g[i]
  <2> DEFINE T == {i \in Nat : i <= Len(q) /\ f[i] # g[i]}
  <2>1. SUFFICES ASSUME T # {} PROVE FALSE
    OBVIOUS
  <2>2. PICK i \in T : \A k \in T : i <= k
    BY <2>1, Least
  <2>3. CASE i = 0
    BY <1>3, <1>8, <2>2, <2>3 DEF Sums
  <2>4. CASE i # 0
    <3>1. i \in Nat /\ i <= Len(q) /\ i # 0 /\ f[i] # g[i]
      BY <2>2, <2>4
    <3>2. i - 1 \in Nat /\ i - 1 <= Len(q) /\ ~ (i <= i - 1) /\ i \in 1..Len(q)
      BY <1>1, <3>1
    <3>3. f[i - 1] = g[i - 1]
      BY <2>2, <3>2
    <3>4. g[i] = g[i - 1] + jb[q[i]].num_slots
      BY <1>3, <3>2 DEF Sums, Weights
    <3> QED
      BY <1>8, <3>1, <3>2, <3>3, <3>4
  <2> QED
    BY <2>3, <2>4
<1>10. f = g
  <2>1. /\ g = [i \in 0..Len(q) |-> g[i]] /\ f = [i \in 0..Len(q) |-> f[i]]
    BY <1>3, <1>7 DEF Sums
  <2> QED
    BY <1>9, <2>1
<1> QED
  BY <1>2, <1>3, <1>6, <1>10

--------------------------------------------------------------------------------
(* The inductive invariant. *)

JobRecords ==
  [st : {"new", "refused", "pushing", "queued", "done"}, first_get : 0..(Slots - 1),
   num_slots : Nat, syncpt_end : 0..(Mod - 1), thresh : 0..(Mod - 1),
   cancelled : BOOLEAN, timeout : BOOLEAN, cb : {"none", "armed", "late", "fired"}]

SubRecords ==
  [pc : {"idle", "push", "sleep", "yield"}, j : Jobs \union {NoJob}, k : Nat \ {0},
   first_get : 0..(Slots - 1), free : Nat, used : Nat]

(* TypeOK with the records and the ring. *)
Types ==
  /\ TypeOK
  /\ job \in [Jobs -> JobRecords] /\ sub \in SubRecords
  /\ ring \in [0..(Slots - 1) -> (Jobs \union {NoJob}) \X Nat]

(* A job is in the queue once, and the one being pushed is not in it yet. *)
Queued ==
  /\ \A i \in 1..Len(queue) : job[queue[i]].st = "queued"
  /\ \A i \in 1..Len(queue), k \in 1..Len(queue) : queue[i] = queue[k] => i = k
  /\ sub.pc = "idle" => sub = Idle
  /\ sub.pc # "idle" => sub.j \in Jobs /\ job[sub.j].st = "pushing"

(* slots_free never promises more than the ring has, whatever was popped   *)
(* while the submitter slept.                                              *)
FreeIsThere == FirstSlots(queue, job)[Len(queue)] + sub.used + sub.free < Slots

(* The timer is set for the head of the queue (without HeadIsTimed's claim *)
(* about the counters).                                                    *)
HeadIsWatched ==
  /\ queue = <<>> => client = NoJob /\ ~ armed
  /\ queue # <<>> /\ job[queue[1]].timeout => client = queue[1]

(* The handler that tears down has the lock and a job to deal with. *)
Tearing == handler = "held" => sub.pc # "push" /\ client # NoJob

RInv == Types /\ Queued /\ Tearing /\ RingAccounted /\ FreeIsThere

LEMMA CounterType ==
  ASSUME NEW a \in Int, NEW k \in Int
  PROVE  Add(a, k) \in 0..(Mod - 1)
  BY ModAssumption DEF Add, ModAssumption

LEMMA RingBounds == Slots \in Nat /\ Slots > 1 /\ 0 \in 0..(Slots - 1) /\ 0 \in 0..(Mod - 1)
  BY SlotsAssumption, ModAssumption DEF SlotsAssumption, ModAssumption

(* What is left of a job that the update frees. *)
Freed == [New EXCEPT !.st = "done"]

LEMMA Records == New \in JobRecords /\ Freed \in JobRecords /\ Idle \in SubRecords
<1>1. New \in JobRecords
  BY RingBounds DEF New, JobRecords
<1>2. \A r \in JobRecords : [r EXCEPT !.st = "done"] \in JobRecords
  BY DEF JobRecords
<1>3. Freed \in JobRecords
  BY <1>1, <1>2, Zenon DEF Freed
<1>4. Idle \in SubRecords
  BY RingBounds DEF Idle, SubRecords
<1> QED
  BY <1>1, <1>3, <1>4

LEMMA InitTypes == Init => Types
<1> SUFFICES ASSUME Init PROVE Types
  OBVIOUS
<1>1. Base \in 0..(Mod - 1) /\ <<NoJob, 0>> \in (Jobs \union {NoJob}) \X Nat
  BY ModAssumption DEF ModAssumption
<1>2. ring \in [0..(Slots - 1) -> (Jobs \union {NoJob}) \X Nat]
  BY <1>1 DEF Init
<1>3. job \in [Jobs -> JobRecords] /\ sub \in SubRecords /\ sub.pc = "idle"
  BY Records DEF Init, Idle
<1>4. TypeOK
  BY <1>1, <1>3, RingBounds DEF Init, TypeOK
<1> QED
  BY <1>2, <1>3, <1>4 DEF Types

(* Where the walk of update_cdma_locked stops. *)
LEMMA FinishedType ==
  ASSUME NEW jb, NEW mv, queue \in Seq(Jobs)
  PROVE  Finished(jb, mv) \in 0..Len(queue)
<1> DEFINE T == {i \in Nat : i \in 1..Len(queue) /\ ~ Done(jb, mv, queue[i])}
           P(n) == /\ \A i \in 1..n : Done(jb, mv, queue[i])
                   /\ n < Len(queue) => ~ Done(jb, mv, queue[n + 1])
<1>1. \E n \in 0..Len(queue) : P(n)
  <2>1. CASE T = {}
    <3>1. Len(queue) \in 0..Len(queue) /\ P(Len(queue))
      BY <2>1
    <3> QED
      BY <3>1
  <2>2. CASE T # {}
    <3>1. PICK m \in T : \A k \in T : m <= k
      BY <2>2, Least
    <3>2. m \in 1..Len(queue) /\ ~ Done(jb, mv, queue[m]) /\ m - 1 \in 0..Len(queue) /\ (m - 1) + 1 = m
      BY <3>1
    <3>3. ASSUME NEW i \in 1..(m - 1) PROVE Done(jb, mv, queue[i])
      <4>1. i \in Nat /\ i \in 1..Len(queue) /\ ~ (m <= i)
        BY <3>2, <3>3
      <4> QED
        BY <3>1, <4>1
    <3>4. P(m - 1)
      BY <3>2, <3>3
    <3> QED
      BY <3>2, <3>4
  <2> QED
    BY <2>1, <2>2
<1>2. Finished(jb, mv) = CHOOSE n \in 0..Len(queue) : P(n)
  BY Zenon DEF Finished
<1> HIDE DEF P
<1> QED
  BY <1>1, <1>2, Zenon

(* The queue without its first n jobs. *)
LEMMA RestType ==
  ASSUME queue \in Seq(Jobs), NEW n \in 0..Len(queue), NEW rest, rest = SubSeq(queue, n + 1, Len(queue))
  PROVE  /\ rest \in Seq(Jobs) /\ Len(rest) = Len(queue) - n
         /\ \A i \in 1..Len(rest) : n + i \in 1..Len(queue) /\ rest[i] = queue[n + i]
         /\ rest # <<>> => rest[1] \in Jobs
<1>1. rest \in Seq(Jobs) /\ Len(rest) = Len(queue) - n
  OBVIOUS
<1>2. ASSUME NEW i \in 1..Len(rest) PROVE n + i \in 1..Len(queue) /\ rest[i] = queue[n + i]
  <2>1. i \in 1..(Len(queue) - n) /\ n + i \in 1..Len(queue) /\ (n + 1) + i - 1 = n + i
    BY <1>1, <1>2
  <2> QED
    BY <2>1
<1> QED
  BY <1>1, <1>2

(* update_cdma_locked, by its effects. *)
LEMMA UpdateEffects ==
  ASSUME Types, NEW jb \in [Jobs -> JobRecords], NEW mv, update_cdma_locked(jb, mv)
  PROVE  \E n \in 0..Len(queue) :
           /\ queue' = SubSeq(queue, n + 1, Len(queue))
           /\ fence' = Step(fence, FirstSlots(queue, jb)[n])
           /\ job' = [j \in Jobs |-> IF j \notin {queue[i] : i \in 1..n} THEN jb[j]
                                     ELSE Freed]
           /\ client' = IF TimerStarts(jb, n, queue') THEN queue'[1] ELSE IF n > 0 THEN NoJob ELSE client
           /\ armed' = IF TimerStarts(jb, n, queue') THEN TRUE ELSE IF n > 0 THEN FALSE ELSE armed
           /\ event' \in {"NONE", event} /\ complete' \in {complete, complete + 1}
<1>1. Finished(jb, mv) \in 0..Len(queue)
  BY FinishedType DEF Types, TypeOK
<1> QED
  BY <1>1, Zenon DEF update_cdma_locked, Freed

LEMMA UpdateTypes ==
  ASSUME Types, NEW jb \in [Jobs -> JobRecords], NEW mv, update_cdma_locked(jb, mv)
  PROVE  /\ queue' \in Seq(Jobs) /\ fence' \in 0..(Slots - 1) /\ job' \in [Jobs -> JobRecords]
         /\ client' \in Jobs \union {NoJob} /\ event' \in {"NONE", "SPACE", "EMPTY"} /\ complete' \in Nat
<1>1. PICK n \in 0..Len(queue) :
           /\ queue' = SubSeq(queue, n + 1, Len(queue))
           /\ fence' = Step(fence, FirstSlots(queue, jb)[n])
           /\ job' = [j \in Jobs |-> IF j \notin {queue[i] : i \in 1..n} THEN jb[j]
                                     ELSE Freed]
           /\ client' = IF TimerStarts(jb, n, queue') THEN queue'[1] ELSE IF n > 0 THEN NoJob ELSE client
           /\ event' \in {"NONE", event} /\ complete' \in {complete, complete + 1}
  BY UpdateEffects
<1>2. queue \in Seq(Jobs) /\ fence \in 0..(Slots - 1) /\ complete \in Nat
      /\ event \in {"NONE", "SPACE", "EMPTY"} /\ client \in Jobs \union {NoJob}
  BY DEF Types, TypeOK
<1>3. queue' \in Seq(Jobs) /\ (queue' # <<>> => queue'[1] \in Jobs)
  BY <1>1, <1>2, RestType
<1>4. \A j \in Jobs : jb[j].num_slots \in Nat
  BY DEF JobRecords
<1>5. FirstSlots(queue, jb)[n] \in Nat
  BY <1>2, <1>4, FirstSlotsAreSums DEF Sums
<1>6. fence' \in 0..(Slots - 1)
  <2>1. PICK m \in Nat : m = FirstSlots(queue, jb)[n]
    BY <1>5
  <2>2. fence' = Step(fence, m)
    BY <1>1, <2>1
  <2>3. fence \in Int /\ m \in Int
    BY <1>2
  <2> QED
    BY <2>2, <2>3, StepType
<1>7. job' \in [Jobs -> JobRecords]
  BY <1>1, Records
<1>8. client' \in Jobs \union {NoJob}
  BY <1>1, <1>2, <1>3 DEF TimerStarts
<1>9. event' \in {"NONE", "SPACE", "EMPTY"} /\ complete' \in Nat
  BY <1>1, <1>2
<1> QED
  BY <1>3, <1>6, <1>7, <1>8, <1>9

--------------------------------------------------------------------------------
(* Types are kept. *)

(* The parts of the submitter's next push. *)
LEMMA PushFacts ==
  ASSUME Types, Queued, sub.pc = "push", sub.k <= Len(Program[sub.j])
  PROVE  /\ sub.j \in Jobs /\ Padding \in {0, 1} /\ Needed \in 1..3 /\ (Width = 1 => Needed = 1)
         /\ space \in 0..(Slots - 1)
<1>1. sub.j \in Jobs /\ sub.k \in Nat \ {0}
  BY DEF Queued, Types, SubRecords
<1>2. Program[sub.j] \in Seq({1, 2})
  BY <1>1, ProgramAssumption DEF ProgramAssumption
<1>3. Width \in {1, 2}
  BY <1>1, <1>2 DEF Width
<1>4. Padding \in {0, 1} /\ (Width = 1 => Padding = 0)
  BY <1>3 DEF Padding
<1>5. Needed \in 1..3 /\ (Width = 1 => Needed = 1)
  BY <1>3, <1>4 DEF Needed
<1>6. space \in 0..(Slots - 1)
  BY RingBounds DEF space, Types, TypeOK
<1> QED
  BY <1>1, <1>4, <1>5, <1>6

(* What a push takes is there to be taken. *)
LEMMA PushEffects ==
  ASSUME Types, Queued, Push
  PROVE  \E avail \in Nat, need \in 1..3 :
           /\ sub' = [sub EXCEPT !.k = @ + 1, !.free = avail - need, !.used = @ + need]
           /\ avail >= need /\ pos' = Step(pos, need)
           /\ avail = space \/ (avail = sub.free /\ need = 1)
           /\ sub.pc = "push" /\ UNCHANGED <<fence, queue, job, client, armed>>
<1>1. /\ Padding \in {0, 1} /\ Needed \in 1..3 /\ (Width = 1 => Needed = 1)
      /\ space \in 0..(Slots - 1) /\ sub.free \in Nat
  BY PushFacts DEF Push, Types, SubRecords
<1>2. PICK avail : avail = IF Width = 1 /\ sub.free > 0 THEN sub.free ELSE space
  OBVIOUS
<1>3. avail \in Nat /\ avail >= Needed /\ (avail = space \/ (avail = sub.free /\ Needed = 1))
  BY <1>1, <1>2 DEF Push, HaveSpace
<1>4. sub' = [sub EXCEPT !.k = @ + 1, !.free = avail - Needed, !.used = @ + Needed]
  BY <1>2 DEF Push
<1>5. pos' = Step(pos, Needed) /\ sub.pc = "push" /\ UNCHANGED <<fence, queue, job, client, armed>>
  BY DEF Push, timer
<1>6. PICK need : need = Needed
  OBVIOUS
<1> QED
  BY <1>1, <1>3, <1>4, <1>5, <1>6

LEMMA PushTypes ==
  ASSUME Types, Queued, Push
  PROVE  Types'
<1>1. PICK avail \in Nat, need \in 1..3 :
           /\ sub' = [sub EXCEPT !.k = @ + 1, !.free = avail - need, !.used = @ + need]
           /\ avail >= need /\ pos' = Step(pos, need)
  BY PushEffects
<1>2. sub \in SubRecords /\ pos \in 0..(Slots - 1)
  BY DEF Types, TypeOK
<1>3. sub' \in SubRecords /\ sub'.pc = sub.pc
  <2>1. sub.k \in Nat \ {0} /\ sub.used \in Nat
    BY <1>2 DEF SubRecords
  <2>2. PICK k \in Nat \ {0}, f \in Nat, u \in Nat : k = sub.k + 1 /\ f = avail - need /\ u = sub.used + need
    BY <1>1, <2>1
  <2>3. sub' = [sub EXCEPT !.k = k, !.free = f, !.used = u]
    BY <1>1, <2>2
  <2> QED
    BY <1>2, <2>3 DEF SubRecords
<1>4. pos' \in 0..(Slots - 1)
  BY <1>1, <1>2, StepType
<1>5. ring' \in [0..(Slots - 1) -> (Jobs \union {NoJob}) \X Nat]
  <2>1. <<sub.j, sub.k>> \in (Jobs \union {NoJob}) \X Nat /\ <<sub.j, 0>> \in (Jobs \union {NoJob}) \X Nat
        /\ <<NoJob, 0>> \in (Jobs \union {NoJob}) \X Nat
    BY <1>2 DEF SubRecords
  <2>2. ring \in [0..(Slots - 1) -> (Jobs \union {NoJob}) \X Nat]
    BY DEF Types
  <2>3. \E at0, at1 : ring' = [p \in DOMAIN ring |->
                      CASE p = at0 -> <<sub.j, sub.k>>
                        [] p # at0 /\ Width = 2 /\ p = at1 -> <<sub.j, 0>>
                        [] p # at0 /\ Padding = 1 /\ p = pos -> <<NoJob, 0>>
                        [] OTHER -> ring[p]]
    BY DEF Push
  <2> QED
    BY <2>1, <2>2, <2>3
<1>6. /\ last_pos' \in {pos, last_pos}
      /\ UNCHANGED <<fence, get, busy, value, min_val, max_val, queue, job, stop, event, complete, client, handler>>
  BY DEF Push, hw, waiting, timer
<1> QED
  BY <1>2, <1>3, <1>4, <1>5, <1>6 DEF Types, TypeOK

LEMMA BeginTypes ==
  ASSUME Types, NEW j \in Jobs, host1x_cdma_begin(j)
  PROVE  Types'
<1>1. job \in [Jobs -> JobRecords] /\ sub \in SubRecords /\ pos \in 0..(Slots - 1)
      /\ last_pos \in 0..(Slots - 1) /\ get \in 0..(Slots - 1)
  BY DEF Types, TypeOK
<1>2. \E st \in {"refused", "pushing"} : job' = [job EXCEPT ![j].st = st]
  BY DEF host1x_cdma_begin
<1>3. job' \in [Jobs -> JobRecords]
  BY <1>1, <1>2 DEF JobRecords
<1>4. [Idle EXCEPT !.pc = "push", !.j = j, !.first_get = pos] \in SubRecords
  BY <1>1, Records DEF SubRecords
<1>5. sub' \in SubRecords
  BY <1>1, <1>4 DEF host1x_cdma_begin
<1>6. last_pos' \in {pos, last_pos} /\ get' \in {pos, get}
  BY DEF host1x_cdma_begin
<1>7. UNCHANGED <<ring, pos, fence, busy, value, min_val, max_val, queue, stop, event, complete, client, handler>>
  BY DEF host1x_cdma_begin, waiting, timer
<1> QED
  BY <1>1, <1>3, <1>5, <1>6, <1>7 DEF Types, TypeOK, SubRecords

(* The rest of channel_submit, by its effects. *)
LEMMA EndTypes ==
  ASSUME Types, Queued, host1x_cdma_end
  PROVE  Types'
<1>1. /\ job \in [Jobs -> JobRecords] /\ sub \in SubRecords /\ pos \in 0..(Slots - 1)
      /\ queue \in Seq(Jobs) /\ max_val \in [Syncpts -> 0..(Mod - 1)]
  BY DEF Types, TypeOK
<1>2. sub.j \in Jobs /\ SyncptOf[sub.j] \in Syncpts
  BY SyncptOfAssumption DEF Queued, host1x_cdma_end, SyncptOfAssumption
<1>3. PICK s : s = SyncptOf[sub.j] /\ s \in Syncpts
  BY <1>2
<1>4. SyncptEnd(s) \in 0..(Mod - 1) /\ FenceValue(s) \in 0..(Mod - 1)
  <2>0. Mod \in Nat /\ max_val[s] \in 0..(Mod - 1)
    BY <1>1, <1>3, ModAssumption DEF ModAssumption
  <2>1. PICK m \in Int : m = max_val[s]
    BY <2>0
  <2>2. SyncptEnd(s) \in 0..(Mod - 1)
    <3>1. Add(m, 1) \in 0..(Mod - 1)
      BY CounterType
    <3> QED
      BY <2>1, <3>1 DEF SyncptEnd
  <2>3. Add(SyncptEnd(s), 1) \in 0..(Mod - 1)
    <3>1. PICK e \in Int : e = SyncptEnd(s)
      BY <2>0, <2>2
    <3> QED
      BY <3>1, CounterType
  <2> QED
    BY <2>2, <2>3 DEF FenceValue
<1>5. max_val' \in [Syncpts -> 0..(Mod - 1)]
  <2>1. max_val' = [max_val EXCEPT ![s] = FenceValue(s)]
    BY <1>3 DEF host1x_cdma_end
  <2> QED
    BY <1>1, <1>3, <1>4, <2>1
<1>6. job' \in [Jobs -> JobRecords]
  <2>1. PICK cb \in {"late", "armed"} : job' = [job EXCEPT ![sub.j] =
             [@ EXCEPT !.st = "queued", !.first_get = sub.first_get, !.num_slots = sub.used,
                       !.syncpt_end = SyncptEnd(s), !.thresh = FenceValue(s), !.cb = cb]]
    BY <1>3 DEF host1x_cdma_end
  <2>2. sub.first_get \in 0..(Slots - 1) /\ sub.used \in Nat /\ job[sub.j] \in JobRecords
    BY <1>1, <1>2 DEF SubRecords
  <2>3. PICK e \in 0..(Mod - 1), f \in 0..(Mod - 1) : e = SyncptEnd(s) /\ f = FenceValue(s)
    BY <1>4
  <2>4. [job[sub.j] EXCEPT !.st = "queued", !.first_get = sub.first_get, !.num_slots = sub.used,
                       !.syncpt_end = e, !.thresh = f, !.cb = cb] \in JobRecords
    BY <2>2 DEF JobRecords
  <2> QED
    BY <1>1, <1>2, <2>1, <2>3, <2>4
<1>7. /\ last_pos' = pos /\ queue' = Append(queue, sub.j) /\ client' \in {client, sub.j} /\ sub' = Idle
      /\ UNCHANGED <<ring, pos, fence, get, busy, value, min_val, stop, event, complete, handler>>
  BY DEF host1x_cdma_end, hw, waiting
<1>8. queue' \in Seq(Jobs) /\ client' \in Jobs \union {NoJob}
  BY <1>1, <1>2, <1>7 DEF Types, TypeOK
<1> QED
  BY <1>1, <1>5, <1>6, <1>7, <1>8, Records DEF Types, TypeOK, SubRecords

(* The steps that leave ring, jobs and counters alone. *)
LEMMA WaitTypes ==
  ASSUME Types, PushWaits \/ PushWakes \/ cdma_stop \/ StopWakes \/ TimerExpires
  PROVE  Types'
<1>1. UNCHANGED <<ring, pos, fence, get, busy, value, min_val, max_val, queue, job, client>>
  BY DEF PushWaits, PushWakes, cdma_stop, StopWakes, TimerExpires, hw, timer, waiting
<1>2. last_pos' \in {pos, last_pos}
  BY DEF PushWaits, PushWakes, cdma_stop, StopWakes, TimerExpires
<1>3. \E pc \in {"push", "sleep", "yield"} : sub' \in {sub, [sub EXCEPT !.pc = pc]}
  BY DEF PushWaits, PushWakes, cdma_stop, StopWakes, TimerExpires
<1>4. sub' \in SubRecords
  BY <1>3 DEF Types, SubRecords
<1>5. /\ event' \in {"NONE", "SPACE", "EMPTY"} /\ stop' \in {"idle", "yield", "sleep", "done"}
      /\ handler' \in {"idle", "start", "held"}
  BY DEF PushWaits, PushWakes, cdma_stop, StopWakes, TimerExpires, Types, TypeOK, waiting, timer
<1>6. complete' \in {complete, complete - 1} /\ (complete' # complete => complete > 0)
  BY DEF PushWaits, PushWakes, cdma_stop, StopWakes, TimerExpires, waiting
<1>7. complete' \in Nat
  BY <1>6 DEF Types, TypeOK
<1>8. sub'.pc \in {"idle", "push", "sleep", "yield"}
  BY <1>4 DEF SubRecords
<1> QED
  BY <1>1, <1>2, <1>4, <1>5, <1>7, <1>8 DEF Types, TypeOK

(* The steps of the interrupt, of the handler's first half and of the      *)
(* hardware only move counters, DMAGET and the state of callbacks.         *)
LEMMA CallbackTypes ==
  ASSUME Types, NEW j \in Jobs, job_complete_callback(j)
  PROVE  Types'
<1>1. job \in [Jobs -> JobRecords] /\ value \in [Syncpts -> 0..(Mod - 1)] /\ min_val \in [Syncpts -> 0..(Mod - 1)]
      /\ SyncptOf[j] \in Syncpts
  BY SyncptOfAssumption DEF Types, TypeOK, SyncptOfAssumption
<1>2. job' \in [Jobs -> JobRecords]
  BY <1>1 DEF job_complete_callback, JobRecords
<1>3. min_val' \in [Syncpts -> 0..(Mod - 1)]
  BY <1>1 DEF job_complete_callback
<1>4. UNCHANGED <<ring, pos, fence, last_pos, get, busy, value, max_val, queue, sub, stop, event, complete, client, handler>>
  BY DEF job_complete_callback, hw, waiting, timer
<1> QED
  BY <1>2, <1>3, <1>4 DEF Types, TypeOK

LEMMA HandlerTypes ==
  ASSUME Types, cdma_timeout_handler
  PROVE  Types'
<1>1. value \in [Syncpts -> 0..(Mod - 1)] /\ min_val \in [Syncpts -> 0..(Mod - 1)]
      /\ (client # NoJob => SyncptOf[client] \in Syncpts)
  BY SyncptOfAssumption DEF Types, TypeOK, SyncptOfAssumption
<1>2. min_val' \in [Syncpts -> 0..(Mod - 1)] /\ handler' \in {"idle", "start", "held"}
  BY <1>1 DEF cdma_timeout_handler
<1>3. UNCHANGED <<ring, pos, fence, last_pos, get, busy, value, max_val, queue, job, sub, stop, event, complete, client>>
  BY DEF cdma_timeout_handler, hw, waiting, timer
<1> QED
  BY <1>2, <1>3 DEF Types, TypeOK

(* A counter that is incremented. *)
LEMMA Increment ==
  ASSUME NEW val \in [Syncpts -> 0..(Mod - 1)], NEW s \in Syncpts
  PROVE  [val EXCEPT ![s] = Add(@, 1)] \in [Syncpts -> 0..(Mod - 1)]
<1>1. Mod \in Nat /\ val[s] \in 0..(Mod - 1)
  BY ModAssumption DEF ModAssumption
<1>2. PICK m \in Int : m = val[s]
  BY <1>1
<1>3. Add(m, 1) \in 0..(Mod - 1)
  BY <1>2, CounterType
<1> QED
  BY <1>2, <1>3

LEMMA HardwareTypes ==
  ASSUME Types, Fetch \/ EngineDone
  PROVE  Types'
<1>1. /\ value \in [Syncpts -> 0..(Mod - 1)] /\ get \in 0..(Slots - 1)
      /\ busy \in Jobs \union {NoJob} /\ ring \in [0..(Slots - 1) -> (Jobs \union {NoJob}) \X Nat]
  BY DEF Types, TypeOK
<1>2. \A j \in Jobs : SyncptOf[j] \in Syncpts
  BY SyncptOfAssumption DEF SyncptOfAssumption
<1>3. PICK j \in Jobs \union {NoJob} : j = ring[get][1]
  BY <1>1
<1>4. CASE Fetch
  <2>1. get' = Step(get, 1)
    BY <1>4 DEF Fetch
  <2>2. get' \in 0..(Slots - 1)
    BY <1>1, <2>1, StepType, RingBounds
  <2>3. busy' \in {j, busy}
    BY <1>3, <1>4 DEF Fetch
  <2>4. value' = value \/ (j \in Jobs /\ value' = [value EXCEPT ![SyncptOf[j]] = Add(@, 1)])
    BY <1>3, <1>4 DEF Fetch
  <2>5. value' \in [Syncpts -> 0..(Mod - 1)]
    BY <1>1, <1>2, <2>4, Increment
  <2>6. UNCHANGED <<ring, pos, fence, last_pos, min_val, max_val, queue, job, sub, stop, event, complete, client, handler>>
    BY <1>4 DEF Fetch, waiting, timer
  <2> QED
    BY <1>1, <2>2, <2>3, <2>5, <2>6 DEF Types, TypeOK
<1>5. CASE EngineDone
  <2>1. busy' = NoJob /\ busy \in Jobs /\ value' = [value EXCEPT ![SyncptOf[busy]] = Add(@, 1)]
    BY <1>1, <1>5 DEF EngineDone
  <2>2. value' \in [Syncpts -> 0..(Mod - 1)]
    BY <1>1, <1>2, <2>1, Increment
  <2>3. UNCHANGED <<ring, pos, fence, last_pos, get, min_val, max_val, queue, job, sub, stop, event, complete, client, handler>>
    BY <1>5 DEF EngineDone, waiting, timer
  <2> QED
    BY <2>1, <2>2, <2>3 DEF Types, TypeOK
<1> QED
  BY <1>4, <1>5

LEMMA WorkTypes ==
  ASSUME Types, cdma_update_work
  PROVE  Types'
<1>1. job \in [Jobs -> JobRecords] /\ update_cdma_locked(job, min_val)
  BY DEF Types, cdma_update_work
<1>2. /\ queue' \in Seq(Jobs) /\ fence' \in 0..(Slots - 1) /\ job' \in [Jobs -> JobRecords]
      /\ client' \in Jobs \union {NoJob} /\ event' \in {"NONE", "SPACE", "EMPTY"} /\ complete' \in Nat
  BY <1>1, UpdateTypes
<1>3. UNCHANGED <<ring, pos, last_pos, get, busy, value, min_val, max_val, sub, stop, handler>>
  BY DEF cdma_update_work, hw
<1> QED
  BY <1>2, <1>3 DEF Types, TypeOK

(* The failed job is one of the queue. *)
LEMMA PendingType ==
  ASSUME queue \in Seq(Jobs), NEW val
  PROVE  FirstPending(val) \in 0..Len(queue)
<1> DEFINE pending == {i \in 1..Len(queue) : val < job[queue[i]].syncpt_end}
<1>1. CASE pending = {}
  BY <1>1 DEF FirstPending
<1>2. CASE pending # {}
  <2>1. pending \in SUBSET Nat
    OBVIOUS
  <2>2. \E x \in pending : \A y \in pending : x <= y
    BY <1>2, <2>1, Least
  <2>3. FirstPending(val) = CHOOSE x \in pending : \A y \in pending : x <= y
    BY <1>2, Zenon DEF FirstPending, Min
  <2>4. FirstPending(val) \in pending
    BY <2>2, <2>3, Zenon
  <2> QED
    BY <2>4
<1> QED
  BY <1>1, <1>2

(* The jobs as the recovery marks them. *)
Marked(failed, recover, cancel) ==
  [j \in Jobs |-> [job[j] EXCEPT !.cancelled = @ \/ j \in cancel,
                                 !.timeout = @ /\ ~ (recover /\ j = failed)]]

(* What the recovery leaves of the queue, by its effects: it marks jobs as *)
(* cancelled or as no longer timed, and may then update the queue.         *)
LEMMA RecoveryEffects ==
  ASSUME Types, host1x_cdma_update_sync_queue
  PROVE  \E jb, mv :
           /\ jb \in [Jobs -> JobRecords]
           /\ \A j \in Jobs : /\ jb[j].st = job[j].st /\ jb[j].first_get = job[j].first_get
                              /\ jb[j].num_slots = job[j].num_slots
                              /\ jb[j].timeout => job[j].timeout
           /\ \/ job' = jb /\ UNCHANGED <<queue, fence, client, armed, event, complete>>
              \/ update_cdma_locked(jb, mv)
<1>1. job \in [Jobs -> JobRecords]
  BY DEF Types
<1> DEFINE s == SyncptOf[client]
           val == value[s]
           i == FirstPending(val)
           failed == IF i = 0 THEN NoJob ELSE queue[i]
           recover == i # 0 /\ failed \in Recovery
           cancel == IF i = 0 \/ recover THEN {} ELSE Cancelled(i)
           mv == [min_val EXCEPT ![s] = IF recover THEN Add(val, job[failed].syncpt_end - val)
                                                   ELSE val]
<1>2. IF cancel = {} THEN job' = Marked(failed, recover, cancel)
                          /\ UNCHANGED <<queue, fence, client, armed, event, complete>>
      ELSE update_cdma_locked(Marked(failed, recover, cancel), mv)
  BY Zenon DEF host1x_cdma_update_sync_queue, Marked, timer, waiting
<1>3. PICK jb : jb = Marked(failed, recover, cancel)
  OBVIOUS
<1>4. \/ job' = jb /\ UNCHANGED <<queue, fence, client, armed, event, complete>>
      \/ update_cdma_locked(jb, mv)
  BY <1>2, <1>3, Zenon
<1> HIDE DEF s, val, i, failed, recover, cancel, mv
<1>5. ASSUME NEW j \in Jobs
      PROVE  /\ jb[j] \in JobRecords /\ jb[j].st = job[j].st /\ jb[j].first_get = job[j].first_get
             /\ jb[j].num_slots = job[j].num_slots /\ (jb[j].timeout => job[j].timeout)
  <2>1. job[j] \in JobRecords
    BY <1>1
  <2>2. PICK c \in BOOLEAN, t \in BOOLEAN : c = (job[j].cancelled \/ j \in cancel)
                                            /\ t = (job[j].timeout /\ ~ (recover /\ j = failed))
    OBVIOUS
  <2>3. jb[j] = [job[j] EXCEPT !.cancelled = c, !.timeout = t]
    BY <1>3, <2>2, Zenon DEF Marked
  <2>4. t => job[j].timeout
    BY <2>2, Zenon
  <2> QED
    BY <2>1, <2>3, <2>4 DEF JobRecords
<1>6. jb \in [Jobs -> JobRecords]
  <2>1. jb = [j \in Jobs |-> jb[j]]
    BY <1>3 DEF Marked
  <2> QED
    BY <1>5, <2>1, Zenon
<1> QED
  BY <1>4, <1>5, <1>6

LEMMA RecoveryTypes ==
  ASSUME Types, Tearing, host1x_cdma_update_sync_queue
  PROVE  Types'
<1>1. /\ queue' \in Seq(Jobs) /\ fence' \in 0..(Slots - 1) /\ job' \in [Jobs -> JobRecords]
      /\ client' \in Jobs \union {NoJob} /\ event' \in {"NONE", "SPACE", "EMPTY"} /\ complete' \in Nat
  <2>1. PICK jb, mv :
           /\ jb \in [Jobs -> JobRecords]
           /\ \/ job' = jb /\ UNCHANGED <<queue, fence, client, armed, event, complete>>
              \/ update_cdma_locked(jb, mv)
    BY RecoveryEffects
  <2>2. CASE job' = jb /\ UNCHANGED <<queue, fence, client, armed, event, complete>>
    BY <2>1, <2>2 DEF Types, TypeOK
  <2>3. CASE update_cdma_locked(jb, mv)
    BY <2>1, <2>3, UpdateTypes
  <2> QED
    BY <2>1, <2>2, <2>3
<1>2. /\ job \in [Jobs -> JobRecords] /\ queue \in Seq(Jobs) /\ last_pos \in 0..(Slots - 1)
      /\ value \in [Syncpts -> 0..(Mod - 1)] /\ min_val \in [Syncpts -> 0..(Mod - 1)]
  BY DEF Types, TypeOK
<1>3. PICK s \in Syncpts : s = SyncptOf[client]
  BY SyncptOfAssumption DEF SyncptOfAssumption, Types, TypeOK, Tearing, host1x_cdma_update_sync_queue
<1>4. PICK val \in 0..(Mod - 1) : val = value[s]
  BY <1>2
<1>5. PICK i \in 0..Len(queue) : i = FirstPending(val)
  BY <1>2, PendingType
<1>6. get' \in 0..(Slots - 1)
  <2>1. get' = IF i # 0 /\ i < Len(queue) THEN job[queue[i + 1]].first_get ELSE last_pos
    BY <1>3, <1>4, <1>5 DEF host1x_cdma_update_sync_queue
  <2>2. CASE i # 0 /\ i < Len(queue)
    <3>1. i + 1 \in 1..Len(queue)
      BY <1>2, <1>5, <2>2
    <3>2. queue[i + 1] \in Jobs
      BY <1>2, <3>1
    <3>3. job[queue[i + 1]].first_get \in 0..(Slots - 1)
      BY <1>2, <3>2 DEF JobRecords
    <3> QED
      BY <2>1, <2>2, <3>3
  <2> QED
    BY <1>2, <2>1, <2>2
<1>7. PICK failed : failed = IF i = 0 THEN NoJob ELSE queue[i]
  OBVIOUS
<1>8. PICK v : v = IF i # 0 /\ failed \in Recovery THEN Add(val, job[failed].syncpt_end - val) ELSE val
  OBVIOUS
<1>9. v \in 0..(Mod - 1)
  <2>1. CASE i # 0 /\ failed \in Recovery
    <3>0. i \in 1..Len(queue)
      BY <1>2, <1>5, <2>1
    <3>1. failed \in Jobs /\ Mod \in Nat
      BY <1>2, <1>7, <2>1, <3>0, ModAssumption DEF ModAssumption
    <3>2. job[failed].syncpt_end \in 0..(Mod - 1)
      BY <1>2, <3>1 DEF JobRecords
    <3>3. PICK d \in Int : d = job[failed].syncpt_end - val
      BY <1>4, <3>1, <3>2
    <3>4. val \in Int
      BY <1>4, <3>1
    <3>5. Add(val, d) \in 0..(Mod - 1)
      BY <3>3, <3>4, CounterType
    <3> QED
      BY <1>8, <2>1, <3>3, <3>5
  <2> QED
    BY <1>4, <1>8, <2>1
<1>10. min_val' = [min_val EXCEPT ![s] = v] /\ value' = [value EXCEPT ![s] = v]
  <2>1. min_val' = [min_val EXCEPT ![s] = v]
    BY <1>3, <1>4, <1>5, <1>7, <1>8, Zenon DEF host1x_cdma_update_sync_queue
  <2>2. value' = [value EXCEPT ![s] = min_val'[s]]
    BY <1>3, Zenon DEF host1x_cdma_update_sync_queue
  <2>3. min_val'[s] = v
    BY <1>2, <2>1
  <2> QED
    BY <2>1, <2>2, <2>3
<1>11. min_val' \in [Syncpts -> 0..(Mod - 1)] /\ value' \in [Syncpts -> 0..(Mod - 1)]
  BY <1>2, <1>9, <1>10
<1>12. ring' \in [0..(Slots - 1) -> (Jobs \union {NoJob}) \X Nat]
  <2> DEFINE cancel == IF i = 0 \/ (i # 0 /\ failed \in Recovery) THEN {} ELSE Cancelled(i)
  <2>0. PICK nops : nops = UNION {SlotsOf(j) : j \in cancel \ {failed}}
    OBVIOUS
  <2>1. ring' = [p \in DOMAIN ring |-> IF p \in nops THEN <<NoJob, 0>> ELSE ring[p]]
    BY <1>3, <1>4, <1>5, <1>7, <2>0, Zenon DEF host1x_cdma_update_sync_queue
  <2>2. ring \in [0..(Slots - 1) -> (Jobs \union {NoJob}) \X Nat]
    BY DEF Types
  <2> QED
    BY <2>1, <2>2
<1>13. /\ handler' = "idle" /\ busy' = NoJob /\ last_pos' = pos /\ pos' = pos /\ max_val' = max_val
       /\ sub' = sub /\ stop' = stop
  BY DEF host1x_cdma_update_sync_queue
<1> QED
  BY <1>1, <1>6, <1>11, <1>12, <1>13 DEF Types, TypeOK

--------------------------------------------------------------------------------
(* The accounting of the ring is kept. *)

(* The ring of queue q, jobs jb, fence f, position p and submitter sb, with *)
(* the slots of the first jobs as u.                                       *)
Accounted(q, jb, f, p, sb, u) ==
  /\ Sums(u, Len(q), Weights(q, jb))
  /\ \A i \in 1..Len(q) : jb[q[i]].first_get = Step(f, 1 + u[i - 1])
  /\ sb.pc # "idle" => sb.first_get = Step(f, 1 + u[Len(q)])
  /\ p = Step(Step(f, 1 + u[Len(q)]), sb.used)
  /\ u[Len(q)] + sb.used + sb.free < Slots

LEMMA SumsUnique ==
  ASSUME NEW n \in Nat, NEW w \in [1..n -> Nat], NEW g, NEW h, Sums(g, n, w), Sums(h, n, w)
  PROVE  g = h
<1>0. Part(w, n, w, n, 0)
  BY DEF Part
<1>1. \A i \in 0..n : g[0 + i] = g[0] + h[i]
  BY <1>0, SumsShift
<1>2. g \in [0..n -> Nat] /\ h \in [0..n -> Nat] /\ g[0] = 0
  BY DEF Sums
<1>3. \A i \in 0..n : g[i] = h[i]
  BY <1>1, <1>2
<1> QED
  BY <1>2, <1>3

LEMMA RingIff ==
  Types => (RingAccounted /\ FreeIsThere
             <=> \E u : Accounted(queue, job, fence, pos, sub, u))
<1> SUFFICES ASSUME Types
             PROVE  RingAccounted /\ FreeIsThere
                     <=> \E u : Accounted(queue, job, fence, pos, sub, u)
  OBVIOUS
<1>1. queue \in Seq(Jobs) /\ (\A j \in Jobs : job[j].num_slots \in Nat) /\ sub.used \in Nat /\ sub.free \in Nat
  BY DEF Types, TypeOK, JobRecords, SubRecords
<1>2. /\ Sums(FirstSlots(queue, job), Len(queue), Weights(queue, job))
      /\ Weights(queue, job) \in [1..Len(queue) -> Nat]
  BY <1>1, FirstSlotsAreSums
<1>3. Len(queue) \in Nat /\ Len(queue) + 1 - 1 = Len(queue)
  BY <1>1
<1>4. FirstSlots(queue, job)[Len(queue)] \in Nat
  BY <1>2, <1>3 DEF Sums
<1>5. RingAccounted <=>
        /\ \A i \in 1..Len(queue) : job[queue[i]].first_get = Step(fence, 1 + FirstSlots(queue, job)[i - 1])
        /\ sub.pc # "idle" => sub.first_get = Step(fence, 1 + FirstSlots(queue, job)[Len(queue) + 1 - 1])
        /\ pos = Step(Step(fence, 1 + FirstSlots(queue, job)[Len(queue) + 1 - 1]), sub.used)
        /\ FirstSlots(queue, job)[Len(queue)] + sub.used < Slots
  BY DEF RingAccounted
<1>6. ASSUME RingAccounted, FreeIsThere PROVE Accounted(queue, job, fence, pos, sub, FirstSlots(queue, job))
  BY <1>2, <1>3, <1>5, <1>6 DEF Accounted, FreeIsThere
<1>7. ASSUME NEW u, Accounted(queue, job, fence, pos, sub, u) PROVE RingAccounted /\ FreeIsThere
  <2>1. u = FirstSlots(queue, job)
    BY <1>2, <1>3, <1>7, SumsUnique DEF Accounted
  <2>2. Accounted(queue, job, fence, pos, sub, FirstSlots(queue, job))
    BY <1>7, <2>1
  <2>3. FreeIsThere
    BY <2>2 DEF Accounted, FreeIsThere
  <2>4. FirstSlots(queue, job)[Len(queue)] + sub.used < Slots
    BY <1>1, <1>4, <2>3, RingBounds DEF FreeIsThere
  <2>5. RingAccounted
    BY <1>3, <1>5, <2>2, <2>4 DEF Accounted
  <2> QED
    BY <2>3, <2>5
<1> QED
  BY <1>6, <1>7

(* A step that leaves queue, fence and position alone, and of the jobs and *)
(* the submitter what the accounting reads.                                *)
LEMMA QuietRing ==
  ASSUME NEW q, NEW jb, NEW f, NEW p, NEW sb, NEW u, Accounted(q, jb, f, p, sb, u),
         NEW jc, NEW sc,
         \A i \in 1..Len(q) : jc[q[i]].num_slots = jb[q[i]].num_slots /\ jc[q[i]].first_get = jb[q[i]].first_get,
         sc.used = sb.used /\ sc.free = sb.free /\ sc.first_get = sb.first_get,
         sb.pc = "idle" => sc.pc = "idle"
  PROVE  Accounted(q, jc, f, p, sc, u)
<1>1. Weights(q, jc) = Weights(q, jb)
  BY DEF Weights
<1> QED
  BY <1>1 DEF Accounted

(* Accounted, with positions as sums. *)
LEMMA AccountedSums ==
  ASSUME NEW q \in Seq(Jobs), NEW jb, NEW f \in 0..(Slots - 1), NEW p, NEW sb, NEW u,
         sb.used \in Nat, sb.free \in Nat, Accounted(q, jb, f, p, sb, u)
  PROVE  /\ Len(q) \in Nat /\ u[Len(q)] \in Nat /\ u[Len(q)] + sb.used + sb.free < Slots
         /\ p = Step(f, 1 + (u[Len(q)] + sb.used))
         /\ (sb.used = 0 => p = Step(f, 1 + u[Len(q)]))
<1>1. PICK n \in Nat : n = Len(q)
  OBVIOUS
<1>2. PICK g \in Nat : g = u[n]
  BY <1>1 DEF Accounted, Sums
<1>3. PICK used \in Nat : used = sb.used
  OBVIOUS
<1>4. g + used + sb.free < Slots /\ p = Step(Step(f, 1 + g), used)
  BY <1>1, <1>2, <1>3 DEF Accounted
<1>5. (1 + g) + used <= Slots /\ 1 + g \in Nat /\ (1 + g) + used = 1 + (g + used)
  BY <1>4, RingBounds
<1>6. p = Step(f, 1 + (g + used))
  BY <1>4, <1>5, StepStep
<1>7. used = 0 => 1 + (g + used) = 1 + g
  OBVIOUS
<1> QED
  BY <1>1, <1>2, <1>3, <1>4, <1>6, <1>7

(* host1x_pushbuffer_space, of any fence and position. *)
Between(f, p) == (f - p + Slots) % Slots

(* A push takes slots from the front of the free ones. *)
LEMMA PushRing ==
  ASSUME NEW q \in Seq(Jobs), NEW jb, NEW f \in 0..(Slots - 1), NEW p, NEW sb \in SubRecords, NEW u,
         Accounted(q, jb, f, p, sb, u), NEW avail \in Nat, NEW need \in 1..3, avail >= need,
         avail = Between(f, p) \/ avail = sb.free, sb.pc = "push"
  PROVE  Accounted(q, jb, f, Step(p, need),
                   [sb EXCEPT !.k = @ + 1, !.free = avail - need, !.used = @ + need], u)
<1>1. sb.used \in Nat /\ sb.free \in Nat
  BY DEF SubRecords
<1>2. PICK g \in Nat, used \in Nat, free \in Nat :
        /\ g = u[Len(q)] /\ used = sb.used /\ free = sb.free
        /\ g + used + free < Slots /\ p = Step(f, 1 + (g + used))
  BY <1>1, AccountedSums
<1>3. g + used + free < Slots /\ p = Step(f, 1 + (g + used))
  BY <1>2
<1>4. Slots \in Nat /\ g + used \in Nat /\ g + used < Slots
  BY <1>3, RingBounds
<1>5. g + (used + need) + (avail - need) < Slots /\ (1 + g) + (used + need) <= Slots
  <2>1. CASE avail = Between(f, p)
    <3>1. Between(f, p) = Slots - 1 - (g + used)
      BY <1>3, <1>4, SpaceLeft DEF Between
    <3> QED
      BY <1>4, <2>1, <3>1
  <2>2. CASE avail = sb.free
    <3>1. avail = free
      BY <1>2, <2>2
    <3> QED
      BY <1>3, <1>4, <3>1
  <2> QED
    BY <2>1, <2>2
<1>6. Step(p, need) = Step(Step(f, 1 + g), used + need)
  <2>1. Step(p, need) = Step(f, (1 + (g + used)) + need)
    <3>1. (1 + (g + used)) + need <= Slots /\ 1 + (g + used) \in Nat
      BY <1>4, <1>5
    <3> QED
      BY <1>3, <3>1, StepStep
  <2>2. Step(Step(f, 1 + g), used + need) = Step(f, (1 + g) + (used + need))
    BY <1>5, StepStep
  <2>3. (1 + (g + used)) + need = (1 + g) + (used + need)
    OBVIOUS
  <2> QED
    BY <2>1, <2>2, <2>3
<1>7. PICK sc : sc = [sb EXCEPT !.k = @ + 1, !.free = avail - need, !.used = @ + need]
  OBVIOUS
<1>8. sc.used = used + need /\ sc.free = avail - need /\ sc.pc = sb.pc /\ sc.first_get = sb.first_get
  BY <1>2, <1>7 DEF SubRecords
<1> QED
  BY <1>2, <1>5, <1>6, <1>7, <1>8 DEF Accounted

(* A submitter that begins does so where the last job ends. *)
LEMMA BeginRing ==
  ASSUME NEW q \in Seq(Jobs), NEW jb, NEW f \in 0..(Slots - 1), NEW p, NEW sb, NEW u,
         Accounted(q, jb, f, p, sb, u), sb.used = 0, sb.free = 0,
         NEW jc, \A i \in 1..Len(q) : jc[q[i]].num_slots = jb[q[i]].num_slots /\ jc[q[i]].first_get = jb[q[i]].first_get,
         NEW sc, sc.used = 0 /\ sc.free = 0 /\ sc.first_get = p
  PROVE  Accounted(q, jc, f, p, sc, u)
<1>1. p = Step(f, 1 + u[Len(q)])
  BY AccountedSums
<1>2. Weights(q, jc) = Weights(q, jb)
  BY DEF Weights
<1> QED
  BY <1>1, <1>2 DEF Accounted

(* The job that was pushed takes its slots with it into the queue. *)
LEMMA EndRing ==
  ASSUME NEW q \in Seq(Jobs), NEW jb, NEW f \in 0..(Slots - 1), NEW p, NEW sb \in SubRecords, NEW u,
         Accounted(q, jb, f, p, sb, u), sb.pc # "idle", NEW j \in Jobs,
         NEW jc, \A i \in 1..Len(q) : jc[q[i]].num_slots = jb[q[i]].num_slots /\ jc[q[i]].first_get = jb[q[i]].first_get,
         jc[j].num_slots = sb.used /\ jc[j].first_get = sb.first_get,
         NEW sc, sc.used = 0 /\ sc.free = 0 /\ sc.pc = "idle"
  PROVE  \E v : Accounted(Append(q, j), jc, f, p, sc, v)
<1>1. sb.used \in Nat /\ sb.free \in Nat
  BY DEF SubRecords
<1>2. PICK n \in Nat, g \in Nat, used \in Nat :
        /\ n = Len(q) /\ g = u[Len(q)] /\ used = sb.used
        /\ g + used + sb.free < Slots /\ p = Step(f, 1 + (g + used))
  BY <1>1, AccountedSums
<1>3. PICK r : r = Append(q, j)
  OBVIOUS
<1>4. /\ Len(r) = n + 1 /\ \A i \in 1..n : r[i] = q[i]
      /\ r[n + 1] = j
  BY <1>2, <1>3
<1>5. PICK v : v = [i \in 0..(n + 1) |-> IF i = n + 1 THEN g + used ELSE u[i]]
  OBVIOUS
<1>6. u \in [0..n -> Nat] /\ u[0] = 0 /\ \A i \in 1..n : u[i] = u[i - 1] + jb[q[i]].num_slots
  BY <1>2 DEF Accounted, Sums, Weights
<1>7. v \in [0..(n + 1) -> Nat] /\ (\A i \in 0..n : v[i] = u[i]) /\ v[n + 1] = g + used
  <2>1. g + used \in Nat /\ n + 1 \in 0..(n + 1) /\ \A i \in 0..n : i \in 0..(n + 1) /\ i # n + 1
    BY <1>2
  <2>2. \A i \in 0..(n + 1) : i # n + 1 => i \in 0..n
    BY <1>2
  <2>3. \A i \in 0..(n + 1) : v[i] = IF i = n + 1 THEN g + used ELSE u[i]
    BY <1>5
  <2>4. \A i \in 0..(n + 1) : v[i] \in Nat
    BY <1>6, <2>1, <2>2, <2>3
  <2>5. v \in [0..(n + 1) -> Nat]
    BY <1>5, <2>4
  <2> QED
    BY <2>1, <2>3, <2>5
<1>8. Sums(v, Len(r), Weights(r, jc))
  <2>1. ASSUME NEW i \in 1..(n + 1) PROVE v[i] = v[i - 1] + jc[r[i]].num_slots
    <3>1. CASE i = n + 1
      <4>1. i - 1 = n /\ n \in 0..n
        BY <3>1, <1>2
      <4>2. v[i - 1] = g /\ v[i] = g + used /\ r[i] = j
        BY <1>2, <1>4, <1>7, <3>1, <4>1
      <4> QED
        BY <1>2, <4>2
    <3>2. CASE i # n + 1
      <4>1. i \in 1..n /\ i \in 0..n /\ i - 1 \in 0..n
        BY <2>1, <3>2, <1>2
      <4>2. v[i] = u[i] /\ v[i - 1] = u[i - 1] /\ r[i] = q[i] /\ jc[q[i]].num_slots = jb[q[i]].num_slots
        BY <1>2, <1>4, <1>7, <4>1
      <4> QED
        BY <1>6, <4>1, <4>2
    <3> QED
      BY <3>1, <3>2
  <2>2. v[0] = 0
    BY <1>2, <1>6, <1>7
  <2> QED
    BY <1>4, <1>7, <2>1, <2>2 DEF Sums, Weights
<1>9. ASSUME NEW i \in 1..(n + 1) PROVE jc[r[i]].first_get = Step(f, 1 + v[i - 1])
  <2>1. CASE i = n + 1
    <3>1. i - 1 = n /\ n \in 0..n
      BY <2>1, <1>2
    <3>2. v[i - 1] = g /\ r[i] = j
      BY <1>2, <1>4, <1>7, <2>1, <3>1
    <3>3. sb.first_get = Step(f, 1 + g)
      BY <1>2 DEF Accounted
    <3> QED
      BY <3>2, <3>3
  <2>2. CASE i # n + 1
    <3>1. i \in 1..n /\ i - 1 \in 0..n
      BY <1>9, <2>2, <1>2
    <3>2. v[i - 1] = u[i - 1] /\ r[i] = q[i] /\ jc[q[i]].first_get = jb[q[i]].first_get
      BY <1>2, <1>4, <1>7, <3>1
    <3>3. jb[q[i]].first_get = Step(f, 1 + u[i - 1])
      BY <1>2, <3>1 DEF Accounted
    <3> QED
      BY <3>2, <3>3
  <2> QED
    BY <2>1, <2>2
<1>10. p = Step(Step(f, 1 + v[n + 1]), 0) /\ v[n + 1] + 0 + 0 < Slots
  <2>1. 1 + (g + used) \in Nat /\ (1 + (g + used)) + 0 <= Slots /\ (1 + (g + used)) + 0 = 1 + (g + used)
        /\ g + used + 0 + 0 < Slots
    BY <1>1, <1>2, RingBounds
  <2>2. Step(Step(f, 1 + (g + used)), 0) = Step(f, 1 + (g + used))
    BY <2>1, StepStep
  <2> QED
    BY <1>2, <1>7, <2>1, <2>2
<1>11. Accounted(r, jc, f, p, sc, v)
  BY <1>4, <1>8, <1>9, <1>10 DEF Accounted
<1> QED
  BY <1>3, <1>11

(* r is q without its first n jobs; jc agrees with jb on the slots of r. *)
Remains(r, q, n) ==
  /\ n \in 0..Len(q) /\ r \in Seq(Jobs) /\ Len(r) = Len(q) - n
  /\ \A i \in 1..Len(r) : n + i \in 1..Len(q) /\ r[i] = q[n + i]
SameSlots(jc, jb, r) ==
  /\ \A j \in Jobs : jc[j].num_slots \in Nat /\ jb[j].num_slots \in Nat
  /\ \A i \in 1..Len(r) : jc[r[i]].num_slots = jb[r[i]].num_slots /\ jc[r[i]].first_get = jb[r[i]].first_get

(* The jobs that the update removes give back the slots before the rest's. *)
LEMMA UpdateRing ==
  ASSUME NEW q \in Seq(Jobs), NEW jb, NEW f \in 0..(Slots - 1), NEW p, NEW sb \in SubRecords, NEW u,
         Accounted(q, jb, f, p, sb, u), NEW n \in Nat, NEW r, Remains(r, q, n), NEW jc, SameSlots(jc, jb, r)
  PROVE  \E v : Accounted(r, jc, Step(f, u[n]), p, sb, v)
<1>0. /\ n \in 0..Len(q) /\ r \in Seq(Jobs) /\ Len(r) = Len(q) - n
      /\ \A i \in 1..Len(r) : n + i \in 1..Len(q) /\ r[i] = q[n + i]
      /\ \A j \in Jobs : jc[j].num_slots \in Nat /\ jb[j].num_slots \in Nat
      /\ \A i \in 1..Len(r) : jc[r[i]].num_slots = jb[r[i]].num_slots /\ jc[r[i]].first_get = jb[r[i]].first_get
  BY DEF Remains, SameSlots
<1>1. sb.used \in Nat /\ sb.free \in Nat
  BY DEF SubRecords
<1>2. PICK l \in Nat, m \in Nat : l = Len(q) /\ m = Len(r) /\ n + m = l
  BY <1>0
<1>3. PICK v : v = FirstSlots(r, jc)
  OBVIOUS
<1>4. Sums(v, m, Weights(r, jc)) /\ Weights(r, jc) \in [1..m -> Nat]
  BY <1>0, <1>2, <1>3, FirstSlotsAreSums
<1>5. Sums(u, l, Weights(q, jb)) /\ Weights(q, jb) \in [1..l -> Nat]
  <2>1. Weights(q, jb) \in [1..l -> Nat]
    BY <1>0, <1>2, FirstSlotsAreSums
  <2> QED
    BY <1>2, <2>1 DEF Accounted
<1>6. \A i \in 1..m : Weights(r, jc)[i] = Weights(q, jb)[n + i]
  BY <1>0, <1>2 DEF Weights
<1>7. \A i \in 0..m : u[n + i] = u[n] + v[i]
  <2>1. n + m <= l
    BY <1>2
  <2>2. PICK x, y : y \in [1..m -> Nat] /\ y = Weights(r, jc) /\ x = Weights(q, jb)
    BY <1>4
  <2>3. Sums(u, l, x) /\ Sums(v, m, y)
    BY <1>4, <1>5, <2>2
  <2>4. Part(y, m, x, l, n)
    BY <1>6, <2>1, <2>2 DEF Part
  <2> QED
    BY <2>3, <2>4, SumsShift
<1>8. \A i \in 0..m : v[i] \in Nat /\ u[n + i] \in Nat /\ u[n + i] <= u[l]
  <2>1. ASSUME NEW i \in 0..m PROVE v[i] \in Nat /\ u[n + i] \in Nat /\ u[n + i] <= u[l]
    <3>1. n + i \in 0..l
      BY <1>0, <1>2, <2>1
    <3> QED
      BY <1>4, <1>5, <2>1, <3>1, SumsGrow DEF Sums
  <2> QED
    BY <2>1
<1>9. PICK g \in Nat, h \in Nat, used \in Nat, free \in Nat :
         g = u[n] /\ h = v[m] /\ used = sb.used /\ free = sb.free
  <2>1. 0 \in 0..m /\ m \in 0..m /\ n + 0 = n
    BY <1>0, <1>2
  <2>2. u[n] \in Nat /\ v[m] \in Nat
    BY <1>8, <2>1
  <2> QED
    BY <1>1, <2>2
<1>10. u[l] = g + h /\ (g + h) + used + free < Slots /\ p = Step(f, 1 + ((g + h) + used))
  <2>0. m \in 0..m
    BY <1>2
  <2>1. u[n + m] = u[n] + v[m]
    BY <1>7, <2>0
  <2>2. u[l] = g + h
    BY <1>2, <1>9, <2>1
  <2> QED
    BY <1>1, <1>2, <1>9, <2>2, AccountedSums
<1>11. (g + h) + used + free < Slots
  BY <1>10
<1>12. \A i \in 0..m : Step(Step(f, g), 1 + v[i]) = Step(f, 1 + u[n + i])
  <2>1. ASSUME NEW i \in 0..m PROVE Step(Step(f, g), 1 + v[i]) = Step(f, 1 + u[n + i])
    <3>1. PICK a \in Nat : a = v[i] /\ u[n + i] = g + a /\ g + a <= g + h
      BY <1>7, <1>8, <1>9, <1>10, <2>1
    <3>2. g + a <= g + h
      BY <3>1
    <3>3. g + (1 + a) <= Slots /\ g + (1 + a) = 1 + (g + a) /\ 1 + a \in Nat
      BY <1>11, <3>2, RingBounds
    <3>4. Step(Step(f, g), 1 + a) = Step(f, g + (1 + a))
      BY <3>3, StepStep
    <3> QED
      BY <3>1, <3>3, <3>4
  <2> QED
    BY <2>1
<1>13. ASSUME NEW i \in 1..m PROVE jc[r[i]].first_get = Step(Step(f, g), 1 + v[i - 1])
  <2>1. i - 1 \in 0..m /\ n + i \in 1..l /\ (n + i) - 1 = n + (i - 1)
    BY <1>0, <1>2, <1>13
  <2>2. jc[r[i]].first_get = jb[q[n + i]].first_get
    BY <1>0, <1>2, <1>13
  <2>3. jb[q[n + i]].first_get = Step(f, 1 + u[n + (i - 1)])
    BY <1>2, <2>1 DEF Accounted
  <2> QED
    BY <1>12, <2>1, <2>2, <2>3
<1>14. Step(Step(f, g), 1 + h) = Step(f, 1 + u[l])
  <2>1. m \in 0..m
    BY <1>2
  <2> QED
    BY <1>2, <1>9, <1>12, <2>1
<1>15. p = Step(Step(Step(f, g), 1 + h), used) /\ (sb.pc # "idle" => sb.first_get = Step(Step(f, g), 1 + h))
  BY <1>2, <1>9, <1>14 DEF Accounted
<1>16. h + used + free < Slots
  BY <1>11, RingBounds
<1>17. Accounted(r, jc, Step(f, g), p, sb, v)
  BY <1>2, <1>4, <1>9, <1>13, <1>15, <1>16 DEF Accounted
<1> QED
  BY <1>9, <1>17

--------------------------------------------------------------------------------
(* Every step keeps the invariant. *)

LEMMA RingIffNext ==
  Types' => (RingAccounted' /\ FreeIsThere'
              <=> \E u : Accounted(queue', job', fence', pos', sub', u))
<1> DEFINE There == \E u : Accounted(queue, job, fence, pos, sub, u)
<1>1. Types => (RingAccounted /\ FreeIsThere <=> There)
  BY RingIff
<1>2. Types' => (RingAccounted' /\ FreeIsThere' <=> There')
  <2> HIDE DEF There
  <2> QED
    BY <1>1, PTL
<1> QED
  BY <1>2

LEMMA QuietStep ==
  ASSUME Types, RingAccounted, FreeIsThere, Types', queue' = queue, fence' = fence, pos' = pos,
         \A j \in Jobs : job'[j].num_slots = job[j].num_slots /\ job'[j].first_get = job[j].first_get,
         sub'.used = sub.used, sub'.free = sub.free, sub'.first_get = sub.first_get,
         sub.pc = "idle" => sub'.pc = "idle"
  PROVE  RingAccounted' /\ FreeIsThere'
<1>1. PICK u : Accounted(queue, job, fence, pos, sub, u)
  BY RingIff
<1>2. \A i \in 1..Len(queue) : queue[i] \in Jobs
  BY DEF Types, TypeOK
<1>3. Accounted(queue, job', fence, pos, sub', u)
  BY <1>1, <1>2, QuietRing
<1>4. Accounted(queue', job', fence', pos', sub', u)
  BY <1>3
<1> QED
  BY <1>4, RingIffNext

(* What the steps that are no part of a push or an update change. *)
LEMMA QuietEffects ==
  ASSUME Types, Queued, NEW j,
         \/ (j \in Jobs /\ job_complete_callback(j)) \/ PushWaits \/ PushWakes \/ cdma_stop \/ StopWakes
         \/ TimerExpires \/ cdma_timeout_handler \/ Fetch \/ EngineDone
  PROVE  /\ queue' = queue /\ fence' = fence /\ pos' = pos
         /\ \A i \in Jobs : /\ job'[i].num_slots = job[i].num_slots /\ job'[i].first_get = job[i].first_get
                            /\ job'[i].st = job[i].st /\ job'[i].timeout = job[i].timeout
         /\ sub'.used = sub.used /\ sub'.free = sub.free /\ sub'.first_get = sub.first_get /\ sub'.j = sub.j
         /\ (sub.pc = "idle" => sub' = sub) /\ (sub.pc # "idle" => sub'.pc # "idle")
<1>1. UNCHANGED <<queue, fence, pos>>
  BY DEF job_complete_callback, PushWaits, PushWakes, cdma_stop, StopWakes, TimerExpires,
         cdma_timeout_handler, Fetch, EngineDone
<1>2. job' = job \/ (j \in Jobs /\ job' = [job EXCEPT ![j].cb = "fired"])
  BY DEF job_complete_callback, PushWaits, PushWakes, cdma_stop, StopWakes, TimerExpires,
         cdma_timeout_handler, Fetch, EngineDone
<1>3. sub' = sub \/ (sub.pc # "idle" /\ \E pc \in {"push", "sleep", "yield"} : sub' = [sub EXCEPT !.pc = pc])
  BY DEF job_complete_callback, PushWaits, PushWakes, cdma_stop, StopWakes, TimerExpires,
         cdma_timeout_handler, Fetch, EngineDone
<1>4. job \in [Jobs -> JobRecords] /\ sub \in SubRecords
  BY DEF Types
<1>5. \A i \in Jobs : /\ job'[i].num_slots = job[i].num_slots /\ job'[i].first_get = job[i].first_get
                      /\ job'[i].st = job[i].st /\ job'[i].timeout = job[i].timeout
  BY <1>2, <1>4 DEF JobRecords
<1>6. /\ sub'.used = sub.used /\ sub'.free = sub.free /\ sub'.first_get = sub.first_get /\ sub'.j = sub.j
      /\ (sub.pc = "idle" => sub' = sub) /\ (sub.pc # "idle" => sub'.pc # "idle")
  BY <1>3, <1>4 DEF SubRecords
<1> QED
  BY <1>1, <1>5, <1>6

LEMMA QuietKeeps ==
  ASSUME RInv, NEW j,
         \/ (j \in Jobs /\ job_complete_callback(j)) \/ PushWaits \/ PushWakes \/ cdma_stop \/ StopWakes
         \/ TimerExpires \/ cdma_timeout_handler \/ Fetch \/ EngineDone
  PROVE  RInv'
<1>0. Types /\ Queued /\ Tearing /\ RingAccounted /\ FreeIsThere
  BY DEF RInv
<1>1. Types'
  BY <1>0, WaitTypes, CallbackTypes, HandlerTypes, HardwareTypes
<1>2. /\ queue' = queue /\ fence' = fence /\ pos' = pos
      /\ \A i \in Jobs : /\ job'[i].num_slots = job[i].num_slots /\ job'[i].first_get = job[i].first_get
                         /\ job'[i].st = job[i].st
      /\ sub'.used = sub.used /\ sub'.free = sub.free /\ sub'.first_get = sub.first_get /\ sub'.j = sub.j
      /\ (sub.pc = "idle" => sub' = sub) /\ (sub.pc # "idle" => sub'.pc # "idle")
  BY <1>0, QuietEffects
<1>3. RingAccounted' /\ FreeIsThere'
  BY <1>0, <1>1, <1>2, QuietStep
<1>4. Queued'
  <2>1. \A i \in 1..Len(queue) : queue[i] \in Jobs
    BY <1>0 DEF Types, TypeOK
  <2> QED
    BY <1>0, <1>2, <2>1 DEF Queued, Idle
<1>5. Tearing'
  <2>1. client' = client
    BY DEF job_complete_callback, PushWaits, PushWakes, cdma_stop, StopWakes, TimerExpires,
           cdma_timeout_handler, Fetch, EngineDone, timer
  <2>2. CASE cdma_timeout_handler
    BY <2>1, <2>2 DEF cdma_timeout_handler, Tearing, LockFree
  <2>3. CASE PushWakes
    BY <2>3 DEF PushWakes, Tearing, LockFree
  <2>4. CASE ~ cdma_timeout_handler /\ ~ PushWakes
    <3>1. handler' = "held" => handler = "held"
      BY <2>4 DEF job_complete_callback, PushWaits, cdma_stop, StopWakes, TimerExpires, Fetch, EngineDone
    <3>2. sub.pc # "push" => sub' = sub
      BY <2>4 DEF job_complete_callback, PushWaits, cdma_stop, StopWakes, TimerExpires, Fetch, EngineDone
    <3> QED
      BY <1>0, <2>1, <3>1, <3>2 DEF Tearing
  <2> QED
    BY <2>2, <2>3, <2>4
<1> QED
  BY <1>1, <1>3, <1>4, <1>5 DEF RInv

LEMMA PushKeeps ==
  ASSUME RInv, Push
  PROVE  RInv'
<1>0. Types /\ Queued /\ Tearing /\ RingAccounted /\ FreeIsThere
  BY DEF RInv
<1>1. Types'
  BY <1>0, PushTypes
<1>2. PICK avail \in Nat, need \in 1..3 :
           /\ sub' = [sub EXCEPT !.k = @ + 1, !.free = avail - need, !.used = @ + need]
           /\ avail >= need /\ pos' = Step(pos, need)
           /\ avail = space \/ (avail = sub.free /\ need = 1)
           /\ sub.pc = "push" /\ UNCHANGED <<fence, queue, job, client, armed>>
  BY <1>0, PushEffects
<1>3. PICK u : Accounted(queue, job, fence, pos, sub, u)
  BY <1>0, RingIff
<1>4. queue \in Seq(Jobs) /\ fence \in 0..(Slots - 1) /\ sub \in SubRecords
  BY <1>0 DEF Types, TypeOK
<1>5. space = Between(fence, pos)
  BY DEF space, Between
<1>6. Accounted(queue, job, fence, pos', sub', u)
  BY <1>2, <1>3, <1>4, <1>5, PushRing
<1>7. RingAccounted' /\ FreeIsThere'
  BY <1>1, <1>2, <1>6, RingIffNext
<1>8. sub'.pc = sub.pc /\ sub'.j = sub.j
  BY <1>2, <1>4 DEF SubRecords
<1>9. Queued'
  BY <1>0, <1>2, <1>8 DEF Queued
<1>10. Tearing'
  BY <1>0, <1>2, <1>8 DEF Tearing, Push
<1> QED
  BY <1>1, <1>7, <1>9, <1>10 DEF RInv

LEMMA BeginKeeps ==
  ASSUME RInv, NEW j \in Jobs, host1x_cdma_begin(j)
  PROVE  RInv'
<1>0. Types /\ Queued /\ Tearing /\ RingAccounted /\ FreeIsThere
  BY DEF RInv
<1>1. Types'
  BY <1>0, BeginTypes
<1>2. /\ UNCHANGED <<queue, fence, pos, client, handler>> /\ sub.pc = "idle" /\ job[j].st = "new" /\ handler # "held"
      /\ \/ job' = [job EXCEPT ![j].st = "refused"] /\ sub' = sub
         \/ job' = [job EXCEPT ![j].st = "pushing"] /\ sub' = [Idle EXCEPT !.pc = "push", !.j = j, !.first_get = pos]
  BY DEF host1x_cdma_begin, LockFree, timer
<1>3. /\ job \in [Jobs -> JobRecords] /\ queue \in Seq(Jobs) /\ fence \in 0..(Slots - 1) /\ sub = Idle
      /\ \A i \in 1..Len(queue) : queue[i] \in Jobs /\ queue[i] # j
  BY <1>0, <1>2 DEF Types, TypeOK, Queued
<1>4. \A i \in Jobs : /\ job'[i].num_slots = job[i].num_slots /\ job'[i].first_get = job[i].first_get
                      /\ i # j => job'[i].st = job[i].st
  BY <1>2, <1>3 DEF JobRecords
<1>5. /\ Idle.used = 0 /\ Idle.free = 0 /\ Idle.pc = "idle"
      /\ sub' # sub => sub'.pc = "push" /\ sub'.j = j /\ sub'.first_get = pos /\ sub'.used = 0 /\ sub'.free = 0
  BY <1>2 DEF Idle
<1>6. CASE sub' = sub
  <2>1. RingAccounted' /\ FreeIsThere'
    BY <1>0, <1>1, <1>2, <1>4, <1>6, QuietStep
  <2>2. Queued'
    BY <1>0, <1>2, <1>3, <1>4, <1>6 DEF Queued
  <2>3. Tearing'
    BY <1>2 DEF Tearing
  <2> QED
    BY <1>1, <2>1, <2>2, <2>3 DEF RInv
<1>7. CASE sub' # sub
  <2>1. PICK u : Accounted(queue, job, fence, pos, sub, u)
    BY <1>0, RingIff
  <2>2. Accounted(queue, job', fence, pos, sub', u)
    BY <1>3, <1>4, <1>5, <1>7, <2>1, BeginRing
  <2>3. RingAccounted' /\ FreeIsThere'
    BY <1>1, <1>2, <2>2, RingIffNext
  <2>4. job'[j].st = "pushing"
    BY <1>2, <1>3, <1>7 DEF JobRecords
  <2>5. Queued'
    BY <1>0, <1>2, <1>3, <1>4, <1>5, <1>7, <2>4 DEF Queued
  <2>6. Tearing'
    BY <1>2 DEF Tearing
  <2> QED
    BY <1>1, <2>3, <2>5, <2>6 DEF RInv
<1> QED
  BY <1>6, <1>7

(* The rest of channel_submit, by its effects on queue and ring. *)
LEMMA EndEffects ==
  ASSUME Types, Queued, host1x_cdma_end
  PROVE  /\ sub.j \in Jobs /\ sub.pc = "push" /\ sub' = Idle /\ queue' = Append(queue, sub.j)
         /\ job'[sub.j].st = "queued" /\ job'[sub.j].num_slots = sub.used
         /\ job'[sub.j].first_get = sub.first_get
         /\ \A i \in Jobs : i # sub.j => job'[i] = job[i]
         /\ UNCHANGED <<fence, pos, handler>>
         /\ client' = IF queue = <<>> /\ client = NoJob THEN sub.j ELSE client
         /\ armed' = ((queue = <<>> /\ client = NoJob) \/ armed)
         /\ job'[sub.j].timeout = job[sub.j].timeout
<1>1. sub.j \in Jobs /\ sub.pc = "push" /\ job \in [Jobs -> JobRecords]
  BY DEF host1x_cdma_end, Queued, Types
<1>2. PICK e, t, cb : job' = [job EXCEPT ![sub.j] =
             [@ EXCEPT !.st = "queued", !.first_get = sub.first_get, !.num_slots = sub.used,
                       !.syncpt_end = e, !.thresh = t, !.cb = cb]]
  BY DEF host1x_cdma_end
<1>3. job[sub.j] \in JobRecords
  BY <1>1
<1>4. job'[sub.j] = [job[sub.j] EXCEPT !.st = "queued", !.first_get = sub.first_get, !.num_slots = sub.used,
                       !.syncpt_end = e, !.thresh = t, !.cb = cb]
  BY <1>1, <1>2
<1>5. /\ job'[sub.j].st = "queued" /\ job'[sub.j].num_slots = sub.used
      /\ job'[sub.j].first_get = sub.first_get /\ job'[sub.j].timeout = job[sub.j].timeout
  BY <1>3, <1>4 DEF JobRecords
<1>6. \A i \in Jobs : i # sub.j => job'[i] = job[i]
  BY <1>1, <1>2
<1>7. /\ sub' = Idle /\ queue' = Append(queue, sub.j) /\ UNCHANGED <<fence, pos, handler>>
      /\ client' = IF queue = <<>> /\ client = NoJob THEN sub.j ELSE client
      /\ armed' = ((queue = <<>> /\ client = NoJob) \/ armed)
  BY DEF host1x_cdma_end
<1> QED
  BY <1>1, <1>5, <1>6, <1>7

LEMMA EndKeeps ==
  ASSUME RInv, host1x_cdma_end
  PROVE  RInv'
<1>0. Types /\ Queued /\ Tearing /\ RingAccounted /\ FreeIsThere
  BY DEF RInv
<1>1. Types'
  BY <1>0, EndTypes
<1>2. /\ sub.j \in Jobs /\ sub.pc = "push" /\ sub' = Idle /\ queue' = Append(queue, sub.j)
      /\ job'[sub.j].st = "queued" /\ job'[sub.j].num_slots = sub.used
      /\ job'[sub.j].first_get = sub.first_get
      /\ \A i \in Jobs : i # sub.j => job'[i] = job[i]
      /\ UNCHANGED <<fence, pos, handler>>
  BY <1>0, EndEffects
<1>3. /\ queue \in Seq(Jobs) /\ fence \in 0..(Slots - 1) /\ sub \in SubRecords
      /\ \A i \in 1..Len(queue) : queue[i] \in Jobs /\ queue[i] # sub.j
  BY <1>0, <1>2 DEF Types, TypeOK, Queued
<1>4. Idle.used = 0 /\ Idle.free = 0 /\ Idle.pc = "idle"
  BY DEF Idle
<1>5. PICK u : Accounted(queue, job, fence, pos, sub, u)
  BY <1>0, RingIff
<1>6. \A i \in 1..Len(queue) : job'[queue[i]].num_slots = job[queue[i]].num_slots
                               /\ job'[queue[i]].first_get = job[queue[i]].first_get
  BY <1>2, <1>3
<1>7. PICK j \in Jobs : j = sub.j
  BY <1>2
<1>8. \E v : Accounted(Append(queue, j), job', fence, pos, sub', v)
  <2>1. sub.pc # "idle" /\ job'[j].num_slots = sub.used /\ job'[j].first_get = sub.first_get
        /\ sub'.used = 0 /\ sub'.free = 0 /\ sub'.pc = "idle"
    BY <1>2, <1>4, <1>7
  <2> QED
    BY <1>3, <1>5, <1>6, <2>1, EndRing
<1>9. RingAccounted' /\ FreeIsThere'
  BY <1>1, <1>2, <1>7, <1>8, RingIffNext
<1>10. Queued'
  <2>1. PICK n \in Nat : n = Len(queue)
    BY <1>3
  <2>2. Len(queue') = n + 1 /\ queue'[n + 1] = sub.j /\ \A i \in 1..n : queue'[i] = queue[i]
    BY <1>2, <1>3, <2>1
  <2>3. \A i \in 1..(n + 1) : i \in 1..n \/ i = n + 1
    OBVIOUS
  <2>4. \A i \in 1..(n + 1) : job'[queue'[i]].st = "queued"
    BY <1>0, <1>2, <1>3, <2>1, <2>2, <2>3 DEF Queued
  <2>5. \A i \in 1..(n + 1), k \in 1..(n + 1) : queue'[i] = queue'[k] => i = k
    BY <1>0, <1>2, <1>3, <2>1, <2>2, <2>3 DEF Queued
  <2> QED
    BY <1>2, <1>4, <2>2, <2>4, <2>5 DEF Queued
<1>11. Tearing'
  BY <1>0, <1>2 DEF Tearing
<1> QED
  BY <1>1, <1>9, <1>10, <1>11 DEF RInv

(* update_cdma_locked, for jobs whose marks may have changed. *)
LEMMA UpdateKeeps ==
  ASSUME RInv, Types', NEW jb \in [Jobs -> JobRecords], NEW mv, update_cdma_locked(jb, mv),
         \A j \in Jobs : jb[j].st = job[j].st /\ jb[j].first_get = job[j].first_get /\ jb[j].num_slots = job[j].num_slots,
         pos' = pos, sub' = sub
  PROVE  Queued' /\ RingAccounted' /\ FreeIsThere'
<1>0. Types /\ Queued /\ RingAccounted /\ FreeIsThere
  BY DEF RInv
<1>1. PICK n \in 0..Len(queue) :
           /\ queue' = SubSeq(queue, n + 1, Len(queue))
           /\ fence' = Step(fence, FirstSlots(queue, jb)[n])
           /\ job' = [j \in Jobs |-> IF j \notin {queue[i] : i \in 1..n} THEN jb[j] ELSE Freed]
  BY <1>0, UpdateEffects
<1>2. /\ queue \in Seq(Jobs) /\ fence \in 0..(Slots - 1) /\ sub \in SubRecords
      /\ (\A i \in 1..Len(queue) : queue[i] \in Jobs) /\ \A j \in Jobs : jb[j].num_slots \in Nat
  <2>1. queue \in Seq(Jobs) /\ fence \in 0..(Slots - 1) /\ sub \in SubRecords
    BY <1>0 DEF Types, TypeOK
  <2>2. \A j \in Jobs : jb[j].num_slots \in Nat
    BY DEF JobRecords
  <2> QED
    BY <2>1, <2>2
<1>3. /\ queue' \in Seq(Jobs) /\ Len(queue') = Len(queue) - n
      /\ \A i \in 1..Len(queue') : n + i \in 1..Len(queue) /\ queue'[i] = queue[n + i]
  BY <1>1, <1>2, RestType
<1>4. PICK u : Accounted(queue, job, fence, pos, sub, u)
  BY <1>0, RingIff
<1>5. Accounted(queue, jb, fence, pos, sub, u)
  BY <1>2, <1>4, QuietRing
<1>6. FirstSlots(queue, jb) = u
  <2>1. Sums(FirstSlots(queue, jb), Len(queue), Weights(queue, jb)) /\ Weights(queue, jb) \in [1..Len(queue) -> Nat]
    BY <1>2, FirstSlotsAreSums
  <2>2. Sums(u, Len(queue), Weights(queue, jb)) /\ Len(queue) \in Nat
    BY <1>2, <1>5 DEF Accounted
  <2> QED
    BY <2>1, <2>2, SumsUnique
<1>7. ASSUME NEW i \in 1..Len(queue') PROVE job'[queue'[i]] = jb[queue'[i]] /\ queue'[i] \in Jobs
  <2>1. n + i \in 1..Len(queue) /\ queue'[i] = queue[n + i] /\ queue'[i] \in Jobs
    BY <1>2, <1>3, <1>7
  <2>2. ASSUME NEW k \in 1..n, queue[k] = queue[n + i] PROVE FALSE
    <3>1. k \in 1..Len(queue) /\ k # n + i
      BY <1>2, <1>7, <2>2
    <3> QED
      BY <1>0, <2>1, <2>2, <3>1 DEF Queued
  <2> QED
    BY <1>1, <2>1, <2>2
<1>8. \A j \in Jobs : job'[j].num_slots \in Nat
  BY DEF Types, JobRecords
<1>9. \E v : Accounted(queue', job', Step(fence, u[n]), pos, sub, v)
  <2>1. PICK r, jc : r \in Seq(Jobs) /\ r = queue' /\ jc = job'
    BY <1>3
  <2>2. SameSlots(jc, jb, r)
    BY <1>2, <1>7, <1>8, <2>1 DEF SameSlots
  <2>3. Remains(r, queue, n)
    BY <1>2, <1>3, <2>1 DEF Remains
  <2>4. n \in Nat
    BY <1>2
  <2>5. \E v : Accounted(r, jc, Step(fence, u[n]), pos, sub, v)
    BY <1>2, <1>5, <2>2, <2>3, <2>4, UpdateRing
  <2> QED
    BY <2>1, <2>5
<1>10. RingAccounted' /\ FreeIsThere'
  BY <1>1, <1>6, <1>9, RingIffNext
<1>11. Queued'
  <2>1. \A i \in 1..Len(queue') : job'[queue'[i]].st = "queued"
    BY <1>0, <1>3, <1>7 DEF Queued
  <2>2. ASSUME NEW i \in 1..Len(queue'), NEW k \in 1..Len(queue'), queue'[i] = queue'[k] PROVE i = k
    <3>1. n + i \in 1..Len(queue) /\ n + k \in 1..Len(queue) /\ queue[n + i] = queue[n + k]
      BY <1>3, <2>2
    <3>2. n + i = n + k
      BY <1>0, <3>1 DEF Queued
    <3>3. i \in Int /\ k \in Int /\ n \in Int
      BY <1>2, <1>3
    <3> QED
      BY <3>2, <3>3
  <2>3. sub.pc # "idle" => job'[sub.j].st = "pushing"
    <3>1. SUFFICES ASSUME sub.pc # "idle" PROVE job'[sub.j].st = "pushing"
      OBVIOUS
    <3>2. sub.j \in Jobs /\ job[sub.j].st = "pushing"
      BY <1>0, <3>1 DEF Queued
    <3>3. ASSUME NEW k \in 1..n PROVE queue[k] # sub.j
      BY <1>0, <1>2, <3>2, <3>3 DEF Queued
    <3>4. job'[sub.j] = jb[sub.j]
      BY <1>1, <3>2, <3>3
    <3> QED
      BY <3>2, <3>4
  <2> QED
    BY <1>0, <2>1, <2>2, <2>3 DEF Queued
<1> QED
  BY <1>10, <1>11

LEMMA WorkKeeps ==
  ASSUME RInv, cdma_update_work
  PROVE  RInv'
<1>0. Types /\ Tearing /\ job \in [Jobs -> JobRecords]
  BY DEF RInv, Types
<1>1. Types'
  BY <1>0, WorkTypes
<1>2. update_cdma_locked(job, min_val) /\ pos' = pos /\ sub' = sub /\ handler' = handler /\ handler # "held"
  BY DEF cdma_update_work, LockFree
<1>3. Queued' /\ RingAccounted' /\ FreeIsThere'
  BY <1>0, <1>1, <1>2, UpdateKeeps
<1> QED
  BY <1>1, <1>2, <1>3 DEF RInv, Tearing

LEMMA RecoveryKeeps ==
  ASSUME RInv, host1x_cdma_update_sync_queue
  PROVE  RInv'
<1>0. Types /\ Queued /\ Tearing /\ RingAccounted /\ FreeIsThere
  BY DEF RInv
<1>1. Types'
  BY <1>0, RecoveryTypes
<1>2. pos' = pos /\ sub' = sub /\ handler' = "idle"
  BY DEF host1x_cdma_update_sync_queue
<1>3. PICK jb, mv :
           /\ jb \in [Jobs -> JobRecords]
           /\ \A j \in Jobs : /\ jb[j].st = job[j].st /\ jb[j].first_get = job[j].first_get
                              /\ jb[j].num_slots = job[j].num_slots
           /\ \/ job' = jb /\ UNCHANGED <<queue, fence>>
              \/ update_cdma_locked(jb, mv)
  BY <1>0, RecoveryEffects
<1>4. Queued' /\ RingAccounted' /\ FreeIsThere'
  <2>1. CASE job' = jb /\ UNCHANGED <<queue, fence>>
    <3>1. RingAccounted' /\ FreeIsThere'
      BY <1>0, <1>1, <1>2, <1>3, <2>1, QuietStep
    <3>2. \A i \in 1..Len(queue) : queue[i] \in Jobs
      BY <1>0 DEF Types, TypeOK
    <3>3. Queued'
      BY <1>0, <1>2, <1>3, <2>1, <3>2 DEF Queued
    <3> QED
      BY <3>1, <3>3
  <2>2. CASE update_cdma_locked(jb, mv)
    BY <1>1, <1>2, <1>3, <2>2, UpdateKeeps
  <2> QED
    BY <1>3, <2>1, <2>2
<1> QED
  BY <1>1, <1>2, <1>4 DEF RInv, Tearing

LEMMA InitRing == Init => RInv
<1> SUFFICES ASSUME Init PROVE RInv
  OBVIOUS
<1>1. Types
  BY InitTypes
<1>2. queue = <<>> /\ fence = Slots - 1 /\ pos = 0 /\ sub = Idle /\ handler = "idle"
  BY DEF Init
<1>3. Len(queue) = 0 /\ Idle.pc = "idle" /\ Idle.used = 0 /\ Idle.free = 0
  BY <1>2 DEF Idle
<1>4. Queued /\ Tearing
  BY <1>2, <1>3 DEF Queued, Tearing
<1>5. PICK u : u = [i \in 0..0 |-> 0]
  OBVIOUS
<1>6. Sums(u, 0, Weights(queue, job)) /\ u[0] = 0
  BY <1>5 DEF Sums
<1>7. Step(Slots - 1, 1) = 0 /\ Step(0, 0) = 0
  <2>1. /\ Slots - 1 \in 0..(Slots - 1) /\ 1 \in 0..Slots /\ ~ ((Slots - 1) + 1 < Slots)
        /\ (Slots - 1) + 1 - Slots = 0 /\ 0 \in 0..(Slots - 1) /\ 0 \in 0..Slots /\ 0 + 0 = 0 /\ 0 < Slots
    BY RingBounds
  <2> QED
    BY <2>1, StepCases
<1>8. Accounted(queue, job, fence, pos, sub, u)
  <2>1. 1 + u[0] = 1 /\ u[0] + 0 + 0 < Slots
    BY <1>6, RingBounds
  <2> QED
    BY <1>2, <1>3, <1>6, <1>7, <2>1 DEF Accounted
<1>9. RingAccounted /\ FreeIsThere
  BY <1>1, <1>8, RingIff
<1> QED
  BY <1>1, <1>4, <1>9 DEF RInv

LEMMA StepKeepsRing == RInv /\ [Next]_vars => RInv'
<1> SUFFICES ASSUME RInv, [Next]_vars PROVE RInv'
  OBVIOUS
<1>1. CASE UNCHANGED vars
  BY <1>1 DEF RInv, Types, TypeOK, Queued, Tearing, RingAccounted, FreeIsThere, vars
<1>2. ASSUME NEW j \in Jobs, host1x_cdma_begin(j) PROVE RInv'
  BY <1>2, BeginKeeps
<1>3. ASSUME NEW j \in Jobs, job_complete_callback(j) PROVE RInv'
  BY <1>3, QuietKeeps
<1>4. CASE Push
  BY <1>4, PushKeeps
<1>5. CASE host1x_cdma_end
  BY <1>5, EndKeeps
<1>6. CASE cdma_update_work
  BY <1>6, WorkKeeps
<1>7. CASE host1x_cdma_update_sync_queue
  BY <1>7, RecoveryKeeps
<1>8. CASE PushWaits \/ PushWakes \/ cdma_stop \/ StopWakes \/ TimerExpires \/ cdma_timeout_handler
           \/ Fetch \/ EngineDone
  BY <1>8, QuietKeeps
<1> QED
  BY <1>1, <1>2, <1>3, <1>4, <1>5, <1>6, <1>7, <1>8 DEF Next

(* The push buffer is accounted for in every state: the slots between the  *)
(* fence and pos are those of the queued jobs and of the half-pushed one,  *)
(* back to back, however submitter, update work, timeout handler and       *)
(* cdma_stop interleave (host1x_pushbuffer_push, host1x_pushbuffer_pop,    *)
(* host1x_cdma_push and update_cdma_locked).                               *)
THEOREM RingIsAccounted == Spec => []RingAccounted
<1>1. RInv => RingAccounted
  BY DEF RInv
<1> QED
  BY <1>1, InitRing, StepKeepsRing, PTL DEF Spec

(* Every variable of the channel keeps its range, DMAGET and the syncpoint *)
(* counters through a recovery included (host1x_cdma_update_sync_queue).   *)
THEOREM TypeIsKept == Spec => []TypeOK
<1>1. RInv => TypeOK
  BY DEF RInv, Types
<1> QED
  BY <1>1, InitRing, StepKeepsRing, PTL DEF Spec

(* slots_free, which host1x_cdma_push trusts without reading the ring,     *)
(* never promises a slot that is in use, whatever was popped while the     *)
(* submitter slept without the lock (host1x_cdma_wait_pushbuffer_space).   *)
THEOREM SlotsFreeAreThere == Spec => []FreeIsThere
<1>1. RInv => FreeIsThere
  BY DEF RInv
<1> QED
  BY <1>1, InitRing, StepKeepsRing, PTL DEF Spec

(* A timeout handler that decided to tear down finds timeout.client still  *)
(* set, and no submitter is pushing beside it: what it read before         *)
(* cdma_freeze is what host1x_cdma_update_sync_queue works on.             *)
THEOREM TearingHasItsJob == Spec => []Tearing
<1>1. RInv => Tearing
  BY DEF RInv
<1> QED
  BY <1>1, InitRing, StepKeepsRing, PTL DEF Spec

--------------------------------------------------------------------------------
(* The timer of the job at the head of the queue. *)

LEMMA UpdateWatches ==
  ASSUME RInv, HeadIsWatched, NEW jb \in [Jobs -> JobRecords], NEW mv, update_cdma_locked(jb, mv),
         \A j \in Jobs : jb[j].timeout => job[j].timeout
  PROVE  HeadIsWatched'
<1>0. Types /\ Queued /\ queue \in Seq(Jobs)
  BY DEF RInv, Types, TypeOK
<1>1. PICK n \in 0..Len(queue) :
           /\ queue' = SubSeq(queue, n + 1, Len(queue))
           /\ job' = [j \in Jobs |-> IF j \notin {queue[i] : i \in 1..n} THEN jb[j] ELSE Freed]
           /\ client' = IF TimerStarts(jb, n, queue') THEN queue'[1] ELSE IF n > 0 THEN NoJob ELSE client
           /\ armed' = IF TimerStarts(jb, n, queue') THEN TRUE ELSE IF n > 0 THEN FALSE ELSE armed
  BY <1>0, UpdateEffects
<1>2. /\ queue' \in Seq(Jobs) /\ Len(queue') = Len(queue) - n
      /\ \A i \in 1..Len(queue') : n + i \in 1..Len(queue) /\ queue'[i] = queue[n + i]
  BY <1>0, <1>1, RestType
<1>3. n = 0 => queue' = queue
  BY <1>0, <1>1
<1>4. CASE queue' = <<>>
  <2>1. ~ TimerStarts(jb, n, queue')
    BY <1>4 DEF TimerStarts
  <2>2. CASE n > 0
    BY <1>1, <1>4, <2>1, <2>2 DEF HeadIsWatched
  <2>3. CASE n = 0
    BY <1>1, <1>3, <1>4, <2>1, <2>3 DEF HeadIsWatched
  <2> QED
    BY <1>1, <2>2, <2>3
<1>5. CASE queue' # <<>>
  <2> SUFFICES ASSUME job'[queue'[1]].timeout PROVE client' = queue'[1]
    BY <1>5 DEF HeadIsWatched
  <2>1. 1 \in 1..Len(queue') /\ n + 1 \in 1..Len(queue) /\ queue'[1] = queue[n + 1] /\ queue'[1] \in Jobs
    BY <1>2, <1>5
  <2>2. ASSUME NEW k \in 1..n PROVE queue[k] # queue[n + 1]
    <3>1. k \in 1..Len(queue) /\ k # n + 1
      BY <1>0, <2>2
    <3> QED
      BY <1>0, <2>1, <3>1 DEF Queued
  <2>3. job'[queue'[1]] = jb[queue'[1]]
    BY <1>1, <2>1, <2>2
  <2>4. jb[queue'[1]].timeout /\ job[queue'[1]].timeout
    BY <2>1, <2>3
  <2>5. CASE n > 0 \/ client = NoJob
    BY <1>1, <1>5, <2>4, <2>5 DEF TimerStarts
  <2>6. CASE ~ (n > 0) /\ client # NoJob
    <3>1. n = 0 /\ ~ TimerStarts(jb, n, queue')
      BY <1>0, <2>6 DEF TimerStarts
    <3>2. client' = client /\ queue' = queue
      BY <1>1, <1>3, <2>6, <3>1
    <3> QED
      BY <1>5, <2>4, <3>2 DEF HeadIsWatched
  <2> QED
    BY <2>5, <2>6
<1> QED
  BY <1>4, <1>5

LEMMA StepWatches == RInv /\ HeadIsWatched /\ [Next]_vars => HeadIsWatched'
<1> SUFFICES ASSUME RInv, HeadIsWatched, [Next]_vars PROVE HeadIsWatched'
  OBVIOUS
<1>0. /\ Types /\ Queued /\ queue \in Seq(Jobs) /\ job \in [Jobs -> JobRecords]
      /\ (queue # <<>> => 1 \in 1..Len(queue) /\ queue[1] \in Jobs /\ job[queue[1]].st = "queued")
  <2>1. Types /\ Queued /\ queue \in Seq(Jobs) /\ job \in [Jobs -> JobRecords]
    BY DEF RInv, Types, TypeOK
  <2>2. queue # <<>> => 1 \in 1..Len(queue) /\ queue[1] \in Jobs
    BY <2>1
  <2> QED
    BY <2>1, <2>2 DEF Queued
<1>1. CASE UNCHANGED vars
  BY <1>1 DEF HeadIsWatched, vars
<1>2. ASSUME NEW j \in Jobs, host1x_cdma_begin(j) PROVE HeadIsWatched'
  <2>1. UNCHANGED <<queue, client, armed>> /\ \E st \in {"refused", "pushing"} : job' = [job EXCEPT ![j].st = st]
    BY <1>2 DEF host1x_cdma_begin, timer
  <2>2. \A i \in Jobs : job'[i].timeout = job[i].timeout
    BY <1>0, <2>1 DEF JobRecords
  <2> QED
    BY <1>0, <2>1, <2>2 DEF HeadIsWatched
<1>3. CASE Push
  BY <1>3 DEF Push, timer, HeadIsWatched
<1>4. CASE host1x_cdma_end
  <2>1. /\ sub.j \in Jobs /\ sub.pc = "push" /\ queue' = Append(queue, sub.j)
        /\ (\A i \in Jobs : i # sub.j => job'[i] = job[i])
        /\ client' = IF queue = <<>> /\ client = NoJob THEN sub.j ELSE client
    BY <1>0, <1>4, EndEffects
  <2>2. queue' # <<>>
    BY <1>0, <2>1
  <2>3. CASE queue = <<>>
    <3>1. client = NoJob /\ queue'[1] = sub.j
      BY <2>1, <2>3 DEF HeadIsWatched
    <3> QED
      BY <2>1, <2>2, <2>3, <3>1 DEF HeadIsWatched
  <2>4. CASE queue # <<>>
    <3>1. queue'[1] = queue[1] /\ queue[1] # sub.j /\ client' = client
      BY <1>0, <2>1, <2>4 DEF Queued
    <3>2. job'[queue[1]] = job[queue[1]]
      BY <1>0, <2>1, <2>4, <3>1
    <3> QED
      BY <2>2, <2>4, <3>1, <3>2 DEF HeadIsWatched
  <2> QED
    BY <2>3, <2>4
<1>5. CASE cdma_update_work
  <2>1. update_cdma_locked(job, min_val)
    BY <1>5 DEF cdma_update_work
  <2> QED
    BY <1>0, <2>1, UpdateWatches
<1>6. CASE host1x_cdma_update_sync_queue
  <2>1. PICK jb, mv :
           /\ jb \in [Jobs -> JobRecords]
           /\ \A j \in Jobs : jb[j].timeout => job[j].timeout
           /\ \/ job' = jb /\ UNCHANGED <<queue, client, armed>>
              \/ update_cdma_locked(jb, mv)
    BY <1>0, <1>6, RecoveryEffects
  <2>2. CASE job' = jb /\ UNCHANGED <<queue, client, armed>>
    BY <1>0, <2>1, <2>2 DEF HeadIsWatched
  <2>3. CASE update_cdma_locked(jb, mv)
    BY <2>1, <2>3, UpdateWatches
  <2> QED
    BY <2>1, <2>2, <2>3
<1>7. ASSUME NEW j, \/ (j \in Jobs /\ job_complete_callback(j)) \/ PushWaits \/ PushWakes \/ cdma_stop \/ StopWakes
                    \/ TimerExpires \/ cdma_timeout_handler \/ Fetch \/ EngineDone
      PROVE HeadIsWatched'
  <2>1. queue' = queue /\ \A i \in Jobs : job'[i].timeout = job[i].timeout
    BY <1>0, <1>7, QuietEffects
  <2>2. client' = client /\ (armed' = armed \/ armed' = FALSE)
    BY <1>7 DEF job_complete_callback, PushWaits, PushWakes, cdma_stop, StopWakes, TimerExpires,
                cdma_timeout_handler, Fetch, EngineDone, timer
  <2> QED
    BY <1>0, <2>1, <2>2 DEF HeadIsWatched
<1> QED
  BY <1>1, <1>2, <1>3, <1>4, <1>5, <1>6, <1>7 DEF Next

(* The timer is set for the job at the head of the queue, unless a         *)
(* recovery took that job's timeout away, and for none when the queue is   *)
(* empty: every path that changes the head, a recovery in the middle of a  *)
(* submission included, sets it again (cdma_start_timer_locked and         *)
(* stop_cdma_timer_locked).                                                *)
THEOREM TheHeadIsWatched == Spec => []HeadIsWatched
<1>1. Init => HeadIsWatched
  BY DEF Init, HeadIsWatched
<1> QED
  BY <1>1, InitRing, StepKeepsRing, StepWatches, PTL DEF Spec
================================================================================
