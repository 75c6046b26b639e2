----------------------------- MODULE IvcFifo_proofs -----------------------------
(***************************************************************************)
(* For every ring size that divides the range of the counters, and clients *)
(* that do not reset a channel while a handshake is under way: the rings,  *)
(* counters and handshake of tegra-ivc.c implement the pair of FIFO queues *)
(* of IvcFifo.                                                             *)
(*                                                                         *)
(* On top of the invariant of Ivc_proofs: the positions each end keeps are *)
(* its counters modulo the ring size (Positions), so that the writer's     *)
(* position is as far ahead of the reader's as the counters say (Linked);  *)
(* and a frame on its way between a client and a slot is whole (Held).     *)
(***************************************************************************)
EXTENDS Ivc_proofs

Divides == Mod % NFrames = 0

\* The slot i places after slot p of a ring.
At(p, i) == IF p + i < NFrames THEN p + i ELSE p + i - NFrames

SomeUsing == \E x \in Ends : Using(x)

Positions ==
  \A e \in Ends : /\ w_pos[e] = w_count[e] % NFrames
                  /\ r_pos[e] = r_count[e] % NFrames

Linked ==
  SomeUsing => \A e \in Ends : w_pos[e] = At(r_pos[Peer(e)], avail_count(e))

HeldAt(e) ==
  /\ pc[e] = "r_adv" => frame[e] = ring[Peer(e)][r_pos[e]]
  /\ pc[e] = "w_store" => frame[e] \in Frames
  /\ pc[e] = "w_adv" => ring[e][w_pos[e]] \in Frames

Held == \A e \in Ends : HeldAt(e)

RInv == IInv /\ Positions /\ Linked /\ Held

--------------------------------------------------------------------------------
(* Arithmetic of the positions. *)

LEMMA Division ==
  ASSUME NEW c \in Nat
  PROVE  /\ c = NFrames * (c \div NFrames) + (c % NFrames)
         /\ c \div NFrames \in Nat
         /\ c % NFrames \in 0..(NFrames - 1)
BY NFramesAssumption

LEMMA RemainderIsUnique ==
  ASSUME NEW q \in Nat, NEW r \in 0..(NFrames - 1)
  PROVE  (NFrames * q + r) % NFrames = r
<1> DEFINE x == NFrames * q + r
           s == x \div NFrames
           t == x % NFrames
<1> USE NFramesAssumption
<1>1. NFrames * q \in Nat
  OBVIOUS
<1>2. x \in Nat
  BY <1>1
<1>3. x = NFrames * s + t /\ s \in Nat /\ t \in 0..(NFrames - 1)
  BY <1>2, Division
<1> HIDE DEF s, t
<1>4. NFrames * (q - s) = t - r
  <2>1. NFrames * (q - s) = NFrames * q - NFrames * s
    BY <1>3
  <2> QED BY <2>1, <1>1, <1>3
<1>5. q - s = 0
  <2>1. CASE q - s >= 1
    <3>1. NFrames * (q - s) >= NFrames
      BY <2>1, <1>3
    <3> QED BY <3>1, <1>3, <1>4
  <2>2. CASE q - s <= -1
    <3>1. NFrames * (q - s) <= -NFrames
      BY <2>2, <1>3
    <3> QED BY <3>1, <1>3, <1>4
  <2> QED BY <2>1, <2>2, <1>3
<1> QED BY <1>3, <1>4, <1>5 DEF t

LEMMA NextRemainder ==
  ASSUME NEW c \in Nat
  PROVE  (c + 1) % NFrames = NextPos(c % NFrames)
<1> DEFINE q == c \div NFrames
           r == c % NFrames
<1> USE NFramesAssumption
<1>1. c = NFrames * q + r /\ q \in Nat /\ r \in 0..(NFrames - 1)
  BY Division
<1> HIDE DEF q, r
<1>2. CASE r = NFrames - 1
  <2>1. c + 1 = NFrames * (q + 1) + 0
    BY <1>1, <1>2
  <2>2. (NFrames * (q + 1) + 0) % NFrames = 0
    BY <1>1, RemainderIsUnique
  <2> QED BY <2>1, <2>2, <1>2 DEF r, NextPos
<1>3. CASE r # NFrames - 1
  <2>1. c + 1 = NFrames * q + (r + 1)
    BY <1>1, <1>3
  <2>2. (NFrames * q + (r + 1)) % NFrames = r + 1
    BY <1>1, <1>3, RemainderIsUnique
  <2> QED BY <2>1, <2>2, <1>3 DEF r, NextPos
<1> QED BY <1>2, <1>3

\* A counter and the position that goes with it advance together, also when
\* the counter wraps.
LEMMA CounterAndPosition ==
  ASSUME Divides
  PROVE  /\ 0 % NFrames = 0
         /\ \A c \in 0..(Mod - 1) : Inc(c) % NFrames = NextPos(c % NFrames)
<1>1. 0 % NFrames = 0
  BY NFramesAssumption
<1>2. ASSUME NEW c \in 0..(Mod - 1) PROVE Inc(c) % NFrames = NextPos(c % NFrames)
  <2>1. c \in Nat /\ (c + 1) % NFrames = NextPos(c % NFrames)
    BY NextRemainder, ModAssumption
  <2>2. CASE c = Mod - 1
    <3>1. (c + 1) % NFrames = 0
      BY <2>2, ModAssumption DEF Divides
    <3> QED BY <2>1, <2>2, <3>1, <1>1 DEF Inc
  <2>3. CASE c # Mod - 1
    BY <2>1, <2>3 DEF Inc
  <2> QED BY <2>2, <2>3
<1> QED BY <1>1, <1>2

LEMMA AtFacts ==
  \A p \in 0..(NFrames - 1) :
    /\ At(p, 0) = p
    /\ \A i \in 0..NFrames :
         /\ At(p, i) \in 0..(NFrames - 1)
         /\ i < NFrames => NextPos(At(p, i)) = At(p, i + 1)
         /\ i > 0 => At(NextPos(p), i - 1) = At(p, i)
         /\ i < NFrames => (p + i) % NFrames = At(p, i)
         /\ \A j \in 0..(i - 1) : i < NFrames => At(p, j) # At(p, i)
<1> USE NFramesAssumption
<1>1. \A x \in 0..(NFrames - 1) : x % NFrames = x
  OBVIOUS
<1>2. \A x \in NFrames..(2 * NFrames - 1) : x % NFrames = x - NFrames
  OBVIOUS
<1> SUFFICES ASSUME NEW p \in 0..(NFrames - 1), NEW i \in 0..NFrames
    PROVE /\ At(p, 0) = p
          /\ At(p, i) \in 0..(NFrames - 1)
          /\ i < NFrames => NextPos(At(p, i)) = At(p, i + 1)
          /\ i > 0 => At(NextPos(p), i - 1) = At(p, i)
          /\ i < NFrames => (p + i) % NFrames = At(p, i)
          /\ \A j \in 0..(i - 1) : i < NFrames => At(p, j) # At(p, i)
  OBVIOUS
<1>3. i < NFrames => (p + i) % NFrames = At(p, i)
  BY <1>1, <1>2 DEF At
<1>4. /\ At(p, 0) = p
      /\ At(p, i) \in 0..(NFrames - 1)
      /\ i < NFrames => NextPos(At(p, i)) = At(p, i + 1)
      /\ i > 0 => At(NextPos(p), i - 1) = At(p, i)
  BY DEF At, NextPos
<1>5. \A j \in 0..(i - 1) : i < NFrames => At(p, j) # At(p, i)
  BY DEF At
<1> QED BY <1>3, <1>4, <1>5

--------------------------------------------------------------------------------
(* Sequences given as functions. *)

LEMMA AppendIs ==
  ASSUME NEW S, NEW n \in Nat, NEW s \in [1..n -> S], NEW t \in [1..(n + 1) -> S],
         \A i \in 1..n : t[i] = s[i]
  PROVE  t = Append(s, t[n + 1])
<1>1. s \in Seq(S) /\ Len(s) = n
  OBVIOUS
<1>2. t \in Seq(S) /\ Len(t) = n + 1
  OBVIOUS
<1> QED BY <1>1, <1>2

LEMMA TailIs ==
  ASSUME NEW S, NEW n \in Nat \ {0}, NEW s \in [1..n -> S], NEW t \in [1..(n - 1) -> S],
         \A i \in 1..(n - 1) : t[i] = s[i + 1]
  PROVE  t = Tail(s) /\ Head(s) = s[1]
<1>1. s \in Seq(S) /\ Len(s) = n
  OBVIOUS
<1>2. t \in Seq(S) /\ Len(t) = n - 1
  OBVIOUS
<1> QED BY <1>1, <1>2

--------------------------------------------------------------------------------
(* The invariant. *)

LEMMA InitRInv == Init => RInv
<1> SUFFICES ASSUME Init PROVE RInv
  OBVIOUS
<1>1. IInv
  BY InitIInv
<1>2. 0 % NFrames = 0 /\ At(0, 0) = 0
  BY NFramesAssumption DEF At
<1>3. Positions /\ Held
  BY <1>2 DEF Init, Positions, Held, HeldAt
<1>4. Linked
  <2>1. \A e \in Ends : avail_count(e) = 0
    <3> TAKE e \in Ends
    <3>1. w_count[e] = 0 /\ r_count[Peer(e)] = 0
      BY PeerFacts DEF Init
    <3> QED BY <3>1 DEF avail_count, Sub
  <2> QED BY <2>1, <1>2, PeerFacts DEF Init, Linked
<1> QED BY <1>1, <1>3, <1>4 DEF RInv

LEMMA NextPositions == Divides /\ TypeOK /\ Positions /\ [Next]_vars => Positions'
<1> SUFFICES ASSUME Divides, TypeOK, Positions, [Next]_vars PROVE Positions'
  OBVIOUS
<1>1. CASE UNCHANGED vars
  BY <1>1 DEF vars, Positions
<1>2. ASSUME NEW e \in Ends, Step(e) \/ Client(e) PROVE Positions'
  <2>1. CASE UNCHANGED <<w_count, r_count, w_pos, r_pos>>
    BY <2>1 DEF Positions
  <2>2. CASE ClearCounters(e)
    BY <2>2, CounterAndPosition DEF ClearCounters, Positions, TypeOK
  <2>3. CASE advance_rx(e)
    <3>1. Inc(r_count[e]) % NFrames = NextPos(r_count[e] % NFrames)
      BY CounterAndPosition DEF TypeOK
    <3> QED BY <2>3, <3>1 DEF advance_rx, Positions, TypeOK
  <2>4. CASE advance_tx(e)
    <3>1. Inc(w_count[e]) % NFrames = NextPos(w_count[e] % NFrames)
      BY CounterAndPosition DEF TypeOK
    <3> QED BY <2>4, <3>1 DEF advance_tx, Positions, TypeOK
  <2>5. CASE Reboot(e)
    BY <2>5 DEF Reboot, channel_sync, shared, Positions, TypeOK
  <2> QED BY <1>2, <2>1, <2>2, <2>3, <2>4, <2>5
      DEF Step, Client, shared, ResetNotify, Interrupt, ReadPeerState, StoreState,
          StateNotify, NotifiedReturn, ReadCheck, ReadCopy, ReadNotify, WriteStore,
          WriteNotify, channel_reset, WriteCheck
<1> QED BY <1>1, <1>2 DEF Next

\* tegra_ivc_channel_sync of a reboot finds the positions it had.
LEMMA RebootKeepsPositions ==
  ASSUME TypeOK, Positions, NEW e \in Ends, Reboot(e)
  PROVE  UNCHANGED <<w_pos, r_pos>>
BY DEF TypeOK, Positions, Reboot, channel_sync

\* Between an end in use and its peer the counters and the positions advance in
\* step; an end that comes up starts from zero on both sides.
LEMMA NextLinked ==
  RInv /\ IInv' /\ Positions' /\ [Next]_vars => Linked'
<1> SUFFICES ASSUME RInv, IInv', Positions', [Next]_vars, SomeUsing'
    PROVE Linked'
  BY DEF Linked
<1> USE DEF RInv, IInv
<1>1. CASE UNCHANGED vars
  BY <1>1 DEF vars, Linked, SomeUsing, Using, avail_count
<1>2. ASSUME NEW e \in Ends, Step(e) \/ Client(e) PROVE Linked'
  <2>1. PICK p \in Ends : p # e /\ Peer(e) = p /\ Peer(p) = e /\ Ends = {e, p}
    BY PeerFacts
  <2>2. CASE UNCHANGED <<w_count, r_count, w_pos, r_pos>> /\ SomeUsing
    BY <2>2 DEF Linked, avail_count
  <2>3. CASE UNCHANGED <<w_count, r_count, w_pos, r_pos>> /\ ~ SomeUsing
    <3>1. StoreState(e) /\ pc[e] = "n_est"
      BY <2>3, <1>2, <2>1
        DEF SomeUsing, Using, Step, Client, shared, ResetNotify, Interrupt, ReadPeerState,
          ClearCounters, StoreState, Goto, TypeOK, Branch, Handshake, InFrame, 
          StateNotify, NotifiedReturn, ReadCheck, ReadCopy, ReadNotify, WriteStore,
          WriteNotify, channel_reset, WriteCheck, Reboot, advance_rx, advance_tx
    <3>2. /\ w_count[e] = 0 /\ r_count[e] = 0 /\ w_count[p] = 0 /\ r_count[p] = 0
      BY <2>1, <2>3, <3>1 DEF SomeUsing, Using, Cleared, Handshake, TypeOK, States
    <3>3. /\ w_pos[e] = 0 /\ r_pos[e] = 0 /\ w_pos[p] = 0 /\ r_pos[p] = 0
      BY <2>1, <3>2, NFramesAssumption DEF Positions
    <3>4. Sub(0, 0) = 0 /\ At(0, 0) = 0
      BY NFramesAssumption DEF Sub, At
    <3> QED BY <2>1, <2>3, <3>2, <3>3, <3>4 DEF Linked, avail_count
  <2>4. CASE ClearCounters(e)
    <3>1. InUse(p)
      BY <2>1, <2>4 DEF ClearCounters, Goto, SomeUsing, Using, InUse, TypeOK, Handshake, Moving
    <3>2. w_count[e] = 0 /\ r_count[e] = 0
      BY <2>1, <2>4, <3>1, ClearIsHarmless DEF CountersNotInUse, Clearing, ClearCounters
    <3>3. w_pos[e] = 0 /\ r_pos[e] = 0
      BY <3>2, NFramesAssumption DEF Positions
    <3>4. UNCHANGED <<w_count, r_count, w_pos, r_pos>>
      BY <2>4, <3>2, <3>3 DEF ClearCounters, TypeOK
    <3>5. SomeUsing
      BY <2>1, <3>1 DEF SomeUsing, Using, InUse
    <3> QED BY <3>4, <3>5 DEF Linked, avail_count
  <2>5. /\ w_count[e] \in 0..(Mod - 1) /\ r_count[e] \in 0..(Mod - 1)
        /\ w_count[p] \in 0..(Mod - 1) /\ r_count[p] \in 0..(Mod - 1)
        /\ r_pos[e] \in 0..(NFrames - 1) /\ r_pos[p] \in 0..(NFrames - 1)
    BY <2>1 DEF TypeOK
  <2>6. CASE advance_rx(e)
    <3>1. Using(e) /\ avail_count(p) > 0
      BY <2>1, <2>6 DEF advance_rx, Using, Handshake, InFrame, Reserved
    <3>2. avail_count(p) \in 0..NFrames
      BY <3>1, <2>1, AvailIsNat, NFramesAssumption DEF RingsFit
    <3>3. avail_count(p)' = avail_count(p) - 1
      BY <2>1, <2>5, <2>6, <3>1, SubBounds DEF advance_rx, avail_count, TypeOK
    <3>4. At(NextPos(r_pos[e]), avail_count(p) - 1) = At(r_pos[e], avail_count(p))
      BY <2>5, <3>1, <3>2, AtFacts
    <3>5. w_pos[p] = At(r_pos[e], avail_count(p)) /\ w_pos[e] = At(r_pos[p], avail_count(e))
      BY <2>1, <3>1 DEF Linked, SomeUsing
    <3>6. w_pos'[p] = At(r_pos'[e], avail_count(p)')
      BY <2>6, <3>3, <3>4, <3>5 DEF advance_rx, TypeOK
    <3>7. w_pos'[e] = At(r_pos'[p], avail_count(e)')
      BY <2>1, <2>6, <3>5 DEF advance_rx, TypeOK, avail_count
    <3> QED BY <2>1, <3>6, <3>7 DEF Linked
  <2>7. CASE advance_tx(e)
    <3>1. Using(e) /\ avail_count(e) < NFrames
      BY <2>1, <2>7 DEF advance_tx, Using, Handshake, InFrame, Reserved
    <3>2. avail_count(e) \in 0..NFrames
      BY <3>1, <2>1, AvailIsNat, NFramesAssumption DEF RingsFit
    <3>3. avail_count(e)' = avail_count(e) + 1
      BY <2>1, <2>5, <2>7, <3>1, SubBounds DEF advance_tx, avail_count, TypeOK
    <3>4. NextPos(At(r_pos[p], avail_count(e))) = At(r_pos[p], avail_count(e) + 1)
      BY <2>5, <3>1, <3>2, AtFacts
    <3>5. w_pos[p] = At(r_pos[e], avail_count(p)) /\ w_pos[e] = At(r_pos[p], avail_count(e))
      BY <2>1, <3>1 DEF Linked, SomeUsing
    <3>6. w_pos'[e] = At(r_pos'[p], avail_count(e)')
      BY <2>7, <3>3, <3>4, <3>5 DEF advance_tx, TypeOK
    <3>7. w_pos'[p] = At(r_pos'[e], avail_count(p)')
      BY <2>1, <2>7, <3>5 DEF advance_tx, TypeOK, avail_count
    <3> QED BY <2>1, <3>6, <3>7 DEF Linked
  <2>8. CASE Reboot(e)
    <3>1. UNCHANGED <<w_count, r_count, w_pos, r_pos>>
      BY <2>8, RebootKeepsPositions DEF Reboot, shared
    <3> QED BY <3>1, <2>2, <2>3
  <2> QED BY <1>2, <2>2, <2>3, <2>4, <2>6, <2>7, <2>8
      DEF Step, Client, shared, ResetNotify, Interrupt, ReadPeerState, StoreState,
          StateNotify, NotifiedReturn, ReadCheck, ReadCopy, ReadNotify, WriteStore,
          WriteNotify, channel_reset, WriteCheck
<1> QED BY <1>1, <1>2 DEF Next

\* While e may write into its ring, the slot it writes is none of the slots that
\* hold a frame for the peer.
LEMMA WriteSlotIsFree ==
  ASSUME RInv, NEW e \in Ends, Using(e), avail_count(e) < NFrames,
         NEW i \in 0..(avail_count(e) - 1)
  PROVE  At(r_pos[Peer(e)], i) # w_pos[e]
<1>1. avail_count(e) \in 0..NFrames /\ r_pos[Peer(e)] \in 0..(NFrames - 1)
  BY AvailIsNat, NFramesAssumption, PeerFacts DEF RInv, IInv, TypeOK
<1>2. w_pos[e] = At(r_pos[Peer(e)], avail_count(e))
  BY DEF RInv, Linked, SomeUsing
<1> QED BY <1>1, <1>2, AtFacts

LEMMA NextHeld == RInv /\ [Next]_vars => Held'
<1> SUFFICES ASSUME RInv, [Next]_vars PROVE Held'
  OBVIOUS
<1> USE DEF RInv, IInv
<1>1. CASE UNCHANGED vars
  BY <1>1 DEF vars, Held, HeldAt
<1>2. ASSUME NEW e \in Ends, Step(e) \/ Client(e) PROVE Held'
  <2>1. PICK p \in Ends : p # e /\ Peer(e) = p /\ Peer(p) = e /\ Ends = {e, p}
    BY PeerFacts
  <2>2. CASE /\ UNCHANGED <<ring, w_pos, r_pos, frame>>
             /\ \E l \in Labels \ {"r_adv", "w_store", "w_adv"} : Goto(e, l)
    <3>1. HeldAt(e)'
      BY <2>2 DEF HeldAt, TypeOK, Goto, Labels
    <3>2. HeldAt(p)'
      BY <2>1, <2>2 DEF Held, HeldAt, TypeOK, Goto
    <3> QED BY <2>1, <3>1, <3>2 DEF Held
  <2>3. CASE ReadCopy(e)
    BY <2>1, <2>3 DEF ReadCopy, Held, HeldAt, TypeOK, Goto, shared
  <2>4. CASE advance_rx(e)
    BY <2>1, <2>4 DEF advance_rx, Held, HeldAt, TypeOK, Goto
  <2>5. CASE advance_tx(e)
    BY <2>1, <2>5 DEF advance_tx, Held, HeldAt, TypeOK, Goto
  <2>6. CASE ClearCounters(e)
    BY <2>1, <2>6 DEF ClearCounters, Held, HeldAt, TypeOK, Goto
  <2>7. CASE Reboot(e)
    BY <2>1, <2>7, RebootKeepsPositions DEF Reboot, Held, HeldAt, TypeOK, Goto, shared
  <2>8. ASSUME Using(e), avail_count(e) < NFrames, pc[p] = "r_adv"
        PROVE  r_pos[p] # w_pos[e]
    <3>1. 0 \in 0..(avail_count(e) - 1)
      BY <2>1, <2>8, AvailIsNat DEF Reserved
    <3>2. At(r_pos[p], 0) = r_pos[p]
      BY AtFacts DEF TypeOK
    <3> QED BY <2>1, <2>8, <3>1, <3>2, WriteSlotIsFree
  <2>9. CASE WriteStore(e)
    <3>1. Using(e) /\ avail_count(e) < NFrames
      BY <2>9 DEF WriteStore, Using, Handshake, InFrame, Reserved
    <3>2. ring'[e] = [ring[e] EXCEPT ![w_pos[e]] = frame[e]] /\ ring'[p] = ring[p]
      BY <2>1, <2>9 DEF WriteStore, TypeOK
    <3>3. ring'[e][w_pos[e]] = frame[e] /\ frame[e] \in Frames
      <4>1. ring[e] \in [0..(NFrames - 1) -> Frames \cup {Torn}] /\ w_pos[e] \in 0..(NFrames - 1)
        BY DEF TypeOK
      <4>2. frame[e] \in Frames
        BY <2>9 DEF WriteStore, Held, HeldAt
      <4> QED BY <3>2, <4>1, <4>2
    <3>4. pc[p] = "r_adv" => ring'[e][r_pos[p]] = ring[e][r_pos[p]]
      BY <2>1, <2>8, <3>1, <3>2 DEF TypeOK
    <3>5. HeldAt(e)'
      BY <2>9, <3>3 DEF WriteStore, HeldAt, TypeOK, Goto
    <3>6. HeldAt(p)'
      BY <2>1, <2>9, <3>2, <3>4 DEF WriteStore, Held, HeldAt, TypeOK, Goto
    <3> QED BY <2>1, <3>5, <3>6 DEF Held
  <2>10. ASSUME NEW f \in Frames, WriteCheck(e, f) PROVE Held'
    <3>1. CASE check_write(e)
      <4>1. Using(e) /\ avail_count(e) < NFrames
        BY <2>10, <3>1, AvailIsNat, NFramesAssumption
          DEF WriteCheck, check_write, channel_full, Using
      <4>2. ring'[e] = [ring[e] EXCEPT ![w_pos[e]] = Torn] /\ ring'[p] = ring[p]
        BY <2>1, <2>10, <3>1 DEF WriteCheck, TypeOK
      <4>3. pc[p] = "r_adv" => ring'[e][r_pos[p]] = ring[e][r_pos[p]]
        BY <2>1, <2>8, <4>1, <4>2 DEF TypeOK
      <4>4. HeldAt(e)'
        BY <2>10, <3>1 DEF WriteCheck, HeldAt, TypeOK, Goto
      <4>5. HeldAt(p)'
        BY <2>1, <2>10, <3>1, <4>2, <4>3 DEF WriteCheck, Held, HeldAt, TypeOK, Goto
      <4> QED BY <2>1, <4>4, <4>5 DEF Held
    <3>2. CASE ~ check_write(e)
      BY <2>1, <2>10, <3>2 DEF WriteCheck, Held, HeldAt
    <3> QED BY <3>1, <3>2
  <2>11. CASE ReadPeerState(e)
    BY <2>1, <2>11 DEF ReadPeerState, Branch, Held, HeldAt, TypeOK, Goto, shared
  <2> QED BY <1>2, <2>2, <2>3, <2>4, <2>5, <2>6, <2>7, <2>9, <2>10, <2>11
      DEF Step, Client, shared, Labels, ResetNotify, Interrupt, StoreState,
          StateNotify, NotifiedReturn, ReadCheck, ReadNotify, WriteNotify, channel_reset
<1> QED BY <1>1, <1>2 DEF Next

LEMMA RInvInductive == ~ RepeatedReset /\ Divides /\ RInv /\ [Next]_vars => RInv'
<1> SUFFICES ASSUME ~ RepeatedReset, Divides, RInv, [Next]_vars PROVE RInv'
  OBVIOUS
<1>1. IInv'
  BY IInvInductive DEF RInv
<1>2. Positions'
  BY NextPositions DEF RInv, IInv
<1>3. Linked'
  BY <1>1, <1>2, NextLinked
<1>4. Held'
  BY NextHeld
<1> QED BY <1>1, <1>2, <1>3, <1>4 DEF RInv

--------------------------------------------------------------------------------
(* The refinement. *)

\* What a queue of IvcFifo holds, in the terms of the invariant.
ContentShape(e) ==
  /\ avail_count(e) \in Nat /\ (SomeUsing => avail_count(e) <= NFrames)
  /\ SomeUsing => Content(e) \in [1..avail_count(e) -> Frames \cup {Torn}]
  /\ Content(e) = IF SomeUsing
                    THEN [i \in 1..avail_count(e) |-> ring[e][At(r_pos[Peer(e)], i - 1)]]
                    ELSE <<>>

Shapes == \A e \in Ends : ContentShape(e)

LEMMA StatusIs ==
  \A e \in Ends : /\ Status(e) = "up" <=> Using(e)
                  /\ Status(e) = "down" <=> state[e] = "sync" /\ ~ Flushed(e)
                  /\ Status(e) \in {"up", "down", "clean"}
BY DEF Status, Using

LEMMA ContentIs == RInv => Shapes
<1> SUFFICES ASSUME RInv, NEW e \in Ends PROVE ContentShape(e)
  BY DEF Shapes
<1> USE DEF RInv, IInv
<1>1. SomeUsing <=> ~ \A x \in Ends : Status(x) # "up"
  BY StatusIs DEF SomeUsing
<1>2. avail_count(e) \in Nat
  BY AvailIsNat
<1>3. CASE SomeUsing
  <2>1. avail_count(e) <= NFrames
    BY <1>3, PeerFacts DEF SomeUsing, RingsFit
  <2>2. ASSUME NEW i \in 1..avail_count(e)
        PROVE  (r_pos[Peer(e)] + i - 1) % NFrames = At(r_pos[Peer(e)], i - 1)
    <3>1. r_pos[Peer(e)] \in 0..(NFrames - 1)
      BY PeerFacts DEF TypeOK
    <3>2. i - 1 \in 0..NFrames /\ i - 1 < NFrames
      BY <1>2, <2>1, <2>2, NFramesAssumption
    <3>3. (r_pos[Peer(e)] + (i - 1)) % NFrames = At(r_pos[Peer(e)], i - 1)
      BY <3>1, <3>2, AtFacts
    <3>4. r_pos[Peer(e)] + i - 1 = r_pos[Peer(e)] + (i - 1)
      BY <3>1, <3>2, NFramesAssumption
    <3> QED BY <3>3, <3>4
  <2>3. Content(e) = [i \in 1..avail_count(e) |-> ring[e][At(r_pos[Peer(e)], i - 1)]]
    BY <1>1, <1>3, <2>2 DEF Content
  <2>4. ASSUME NEW i \in 1..avail_count(e)
        PROVE  ring[e][At(r_pos[Peer(e)], i - 1)] \in Frames \cup {Torn}
    <3>1. At(r_pos[Peer(e)], i - 1) \in 0..(NFrames - 1)
      <4>1. r_pos[Peer(e)] \in 0..(NFrames - 1) /\ i - 1 \in 0..NFrames
        BY <1>2, <2>1, <2>4, NFramesAssumption, PeerFacts DEF TypeOK
      <4> QED BY <4>1, AtFacts
    <3> QED BY <3>1 DEF TypeOK
  <2> QED BY <1>2, <1>3, <2>1, <2>3, <2>4 DEF ContentShape
<1>4. CASE ~ SomeUsing
  BY <1>1, <1>2, <1>4 DEF ContentShape, Content
<1> QED BY <1>3, <1>4

LEMMA ContentIsNext == RInv' => Shapes'
BY ContentIs, PTL

\* The queue of e is the same after a step that leaves its counters, the reader's
\* position and the slots in use alone.
LEMMA SameContent ==
  ASSUME Shapes, Shapes', NEW e \in Ends, SomeUsing' <=> SomeUsing,
         SomeUsing => /\ avail_count(e)' = avail_count(e)
                      /\ r_pos'[Peer(e)] = r_pos[Peer(e)]
                      /\ \A i \in 0..(avail_count(e) - 1) :
                           ring'[e][At(r_pos[Peer(e)], i)] = ring[e][At(r_pos[Peer(e)], i)]
  PROVE  Content(e)' = Content(e)
<1>1. CASE SomeUsing
  <2>1. /\ Content(e) = [i \in 1..avail_count(e) |-> ring[e][At(r_pos[Peer(e)], i - 1)]]
        /\ Content(e)' = [i \in 1..avail_count(e) |-> ring'[e][At(r_pos[Peer(e)], i - 1)]]
        /\ avail_count(e) \in Nat
    BY <1>1 DEF Shapes, ContentShape
  <2>2. \A i \in 1..avail_count(e) :
          ring'[e][At(r_pos[Peer(e)], i - 1)] = ring[e][At(r_pos[Peer(e)], i - 1)]
    <3> TAKE i \in 1..avail_count(e)
    <3>1. i - 1 \in 0..(avail_count(e) - 1)
      BY <2>1
    <3> QED BY <1>1, <3>1
  <2> QED BY <2>1, <2>2
<1>2. CASE ~ SomeUsing
  BY <1>2 DEF Shapes, ContentShape
<1> QED BY <1>1, <1>2

LEMMA SameAbstraction ==
  ASSUME \A x \in Ends : Status(x)' = Status(x) /\ Content(x)' = Content(x), rcvd' = rcvd
  PROVE  UNCHANGED Fifo!vars
BY DEF Fifo!vars

LEMMA EmptyContent ==
  ASSUME Shapes, NEW e \in Ends, avail_count(e) = 0
  PROVE  Content(e) = <<>>
<1>1. CASE SomeUsing
  <2>1. Content(e) \in [1..0 -> Frames \cup {Torn}]
    BY <1>1 DEF Shapes, ContentShape
  <2> QED BY <2>1
<1>2. CASE ~ SomeUsing
  BY <1>2 DEF Shapes, ContentShape
<1> QED BY <1>1, <1>2

LEMMA InitRefines == Init => Fifo!Init
<1> SUFFICES ASSUME Init PROVE Fifo!Init
  OBVIOUS
<1>1. Shapes
  BY InitRInv, ContentIs
<1>2. \A e \in Ends : Using(e) /\ Status(e) = "up"
  BY StatusIs DEF Init, Using
<1>3. \A e \in Ends : avail_count(e) = 0
  <2> TAKE e \in Ends
  <2>1. w_count[e] = 0 /\ r_count[Peer(e)] = 0
    BY PeerFacts DEF Init
  <2> QED BY <2>1 DEF avail_count, Sub
<1>4. \A e \in Ends : Content(e) = <<>>
  BY <1>1, <1>3, EmptyContent
<1>5. rcvd = [e \in Ends |-> Torn]
  BY DEF Init
<1> QED BY <1>2, <1>4, <1>5 DEF Fifo!Init

\* Steps that move a thread along without an effect the clients can see.
LEMMA QuietRefines ==
  ASSUME RInv, RInv', NEW e \in Ends, UNCHANGED <<w_count, r_count, state, ring, rcvd>>,
         UNCHANGED <<w_pos, r_pos>>,
         \A x \in Ends : Status(x)' = Status(x)
  PROVE  UNCHANGED Fifo!vars
<1>1. Shapes /\ Shapes'
  BY ContentIs, ContentIsNext
<1>2. SomeUsing' <=> SomeUsing
  BY StatusIs DEF SomeUsing, Status, Using
<1>3. \A x \in Ends : Content(x)' = Content(x)
  BY <1>1, <1>2, SameContent DEF avail_count
<1> QED BY <1>3, SameAbstraction

\* advance_tx: the frame stored last becomes the last of the queue.
LEMMA SendRefines ==
  ASSUME RInv, RInv', NEW e \in Ends, advance_tx(e)
  PROVE  \E f \in Frames : Fifo!Send(e, f)
<1> USE DEF RInv, IInv
<1> DEFINE n == avail_count(e)
           f == ring[e][w_pos[e]]
<1>1. PICK p \in Ends : p # e /\ Peer(e) = p /\ Peer(p) = e /\ Ends = {e, p}
  BY PeerFacts
<1>2. Shapes /\ Shapes'
  BY ContentIs, ContentIsNext
<1>3. Using(e) /\ Using(e)' /\ n \in Nat /\ n < NFrames /\ f \in Frames
  BY <1>2 DEF advance_tx, Using, Handshake, InFrame, Reserved, Held, HeldAt, TypeOK, Goto,
              Shapes, ContentShape
<1>4. SomeUsing /\ SomeUsing'
  BY <1>3 DEF SomeUsing
<1>5. \A x \in Ends : Status(x)' = Status(x)
  BY <1>1 DEF advance_tx, Status, Flushed, TypeOK, Goto
<1>6. Content(p)' = Content(p)
  BY <1>1, <1>2, <1>4, SameContent DEF advance_tx, avail_count, TypeOK
<1>7. n' = n + 1
  <2>1. w_count[e] \in 0..(Mod - 1) /\ r_count[p] \in 0..(Mod - 1)
    BY <1>1 DEF TypeOK
  <2> QED BY <1>1, <1>3, <2>1, SubBounds DEF advance_tx, avail_count, TypeOK
<1>8. Content(e)' = Append(Content(e), f) /\ Len(Content(e)) = n
  <2>1. /\ Content(e) = [i \in 1..n |-> ring[e][At(r_pos[p], i - 1)]]
        /\ Content(e) \in [1..n -> Frames \cup {Torn}]
    BY <1>1, <1>2, <1>4 DEF Shapes, ContentShape
  <2>2. /\ Content(e)' = [i \in 1..(n + 1) |-> ring[e][At(r_pos[p], i - 1)]]
        /\ Content(e)' \in [1..(n + 1) -> Frames \cup {Torn}]
    BY <1>1, <1>2, <1>4, <1>7 DEF Shapes, ContentShape, advance_tx
  <2>3. (Content(e)')[n + 1] = f
    <3>1. w_pos[e] = At(r_pos[p], n)
      BY <1>1, <1>4 DEF Linked
    <3>2. n + 1 \in 1..(n + 1) /\ (n + 1) - 1 = n
      BY <1>3
    <3> QED BY <2>2, <3>1, <3>2
  <2>4. \A i \in 1..n : (Content(e)')[i] = Content(e)[i]
    <3> HIDE DEF n
    <3> QED BY <1>3, <2>1, <2>2
  <2> HIDE DEF n, f
  <2>5. Content(e)' = Append(Content(e), f)
    BY <1>3, <2>1, <2>2, <2>3, <2>4, AppendIs
  <2>6. Len(Content(e)) = n
    BY <1>3, <2>1
  <2> QED BY <2>5, <2>6
<1>9. Status(e) = "up"
  BY <1>3, StatusIs
<1>10. UNCHANGED rcvd
  BY DEF advance_tx
<1>11. Fifo!Send(e, f)
  <2> HIDE DEF n, f
  <2>1. [x \in Ends |-> Content(x)'] =
          [[x \in Ends |-> Content(x)] EXCEPT ![e] = Append(@, f)]
    BY <1>1, <1>6, <1>8
  <2> QED BY <2>1, <1>3, <1>5, <1>8, <1>9, <1>10 DEF Fifo!Send
<1> QED BY <1>3, <1>11

\* advance_rx: the client gets the first frame of the queue.
LEMMA ReceiveRefines ==
  ASSUME RInv, RInv', NEW e \in Ends, advance_rx(e)
  PROVE  Fifo!Receive(e)
<1> USE DEF RInv, IInv
<1>1. PICK p \in Ends : p # e /\ Peer(e) = p /\ Peer(p) = e /\ Ends = {e, p}
  BY PeerFacts
<1> DEFINE n == avail_count(p)
<1>2. Shapes /\ Shapes'
  BY ContentIs, ContentIsNext
<1>3. Using(e) /\ Using(e)' /\ n \in Nat \ {0} /\ n <= NFrames
  BY <1>1, <1>2 DEF advance_rx, Using, Handshake, InFrame, Reserved, RingsFit, TypeOK, Goto,
              Shapes, ContentShape
<1>4. SomeUsing /\ SomeUsing'
  BY <1>3 DEF SomeUsing
<1>5. \A x \in Ends : Status(x)' = Status(x)
  BY <1>1 DEF advance_rx, Status, Flushed, TypeOK, Goto
<1>6. Content(e)' = Content(e)
  BY <1>1, <1>2, <1>4, SameContent DEF advance_rx, avail_count, TypeOK
<1>7. n' = n - 1
  <2>1. w_count[p] \in 0..(Mod - 1) /\ r_count[e] \in 0..(Mod - 1)
    BY <1>1 DEF TypeOK
  <2>2. Sub(w_count[p], r_count[e]) > 0
    BY <1>1, <1>3 DEF avail_count
  <2>3. Sub(w_count[p], Inc(r_count[e])) = Sub(w_count[p], r_count[e]) - 1
    BY <2>1, <2>2, SubBounds
  <2> QED BY <1>1, <2>3 DEF advance_rx, avail_count, TypeOK
<1>8. /\ Content(p)' = Tail(Content(p))
      /\ Head(Content(p)) = frame[e]
      /\ Content(p) # <<>>
  <2>1. /\ Content(p) = [i \in 1..n |-> ring[p][At(r_pos[e], i - 1)]]
        /\ Content(p) \in [1..n -> Frames \cup {Torn}]
    BY <1>1, <1>2, <1>4 DEF Shapes, ContentShape
  <2>2. /\ Content(p)' = [i \in 1..(n - 1) |-> ring[p][At(NextPos(r_pos[e]), i - 1)]]
        /\ Content(p)' \in [1..(n - 1) -> Frames \cup {Torn}]
    BY <1>1, <1>2, <1>4, <1>7 DEF Shapes, ContentShape, advance_rx, TypeOK
  <2>3. ASSUME NEW i \in 1..(n - 1) PROVE (Content(p)')[i] = Content(p)[i + 1]
    <3> HIDE DEF n
    <3>1. r_pos[e] \in 0..(NFrames - 1)
      BY DEF TypeOK
    <3>2. i \in 0..NFrames /\ i > 0 /\ i + 1 \in 1..n /\ (i + 1) - 1 = i
      BY <1>3, <2>3, NFramesAssumption
    <3>3. At(NextPos(r_pos[e]), i - 1) = At(r_pos[e], i)
      BY <3>1, <3>2, AtFacts
    <3> QED BY <2>1, <2>2, <3>2, <3>3
  <2>4. Content(p)[1] = frame[e]
    <3>1. At(r_pos[e], 0) = r_pos[e]
      BY AtFacts DEF TypeOK
    <3>2. frame[e] = ring[p][r_pos[e]]
      BY <1>1 DEF Held, HeldAt, advance_rx
    <3>3. 1 \in 1..n /\ 1 - 1 = 0
      BY <1>3
    <3> QED BY <2>1, <3>1, <3>2, <3>3
  <2> HIDE DEF n
  <2>5. Content(p)' = Tail(Content(p)) /\ Head(Content(p)) = Content(p)[1]
    <3> DEFINE s == Content(p)
               t == Content(p)'
    <3>1. /\ s \in [1..n -> Frames \cup {Torn}]
          /\ t \in [1..(n - 1) -> Frames \cup {Torn}]
          /\ \A i \in 1..(n - 1) : t[i] = s[i + 1]
      BY <2>1, <2>2, <2>3
    <3> HIDE DEF s, t
    <3>2. t = Tail(s) /\ Head(s) = s[1]
      BY <1>3, <3>1, TailIs
    <3> QED BY <3>2 DEF s, t
  <2>6. Content(p) # <<>>
    BY <1>3, <2>1
  <2> QED BY <2>4, <2>5, <2>6
<1>9. Status(e) = "up"
  BY <1>3, StatusIs
<1>10. rcvd' = [rcvd EXCEPT ![e] = frame[e]]
  BY DEF advance_rx
<1>11. [x \in Ends |-> Content(x)'] =
          [[x \in Ends |-> Content(x)] EXCEPT ![p] = Tail(@)]
  BY <1>1, <1>6, <1>8
<1>12. Fifo!Peer(e) = p
  BY <1>1 DEF Fifo!Peer, Peer
<1> QED BY <1>1, <1>5, <1>8, <1>9, <1>10, <1>11, <1>12 DEF Fifo!Receive

\* Stores into the slot at w_pos, which the reader may not see yet.
LEMMA StoreIsQuiet ==
  ASSUME RInv, RInv', NEW e \in Ends, Using(e), avail_count(e) < NFrames, NEW v,
         ring' = [ring EXCEPT ![e][w_pos[e]] = v],
         UNCHANGED <<w_count, r_count, state, w_pos, r_pos, rcvd>>,
         \A x \in Ends : Status(x)' = Status(x)
  PROVE  UNCHANGED Fifo!vars
<1> USE DEF RInv, IInv
<1>1. PICK p \in Ends : p # e /\ Peer(e) = p /\ Peer(p) = e /\ Ends = {e, p}
  BY PeerFacts
<1>2. Shapes /\ Shapes'
  BY ContentIs, ContentIsNext
<1>3. SomeUsing /\ SomeUsing'
  BY StatusIs DEF SomeUsing, Status, Using
<1>4. Content(p)' = Content(p)
  BY <1>1, <1>2, <1>3, SameContent DEF avail_count, TypeOK
<1>5. Content(e)' = Content(e)
  <2>1. ASSUME NEW i \in 0..(avail_count(e) - 1)
        PROVE  ring'[e][At(r_pos[p], i)] = ring[e][At(r_pos[p], i)]
    <3>1. At(r_pos[p], i) # w_pos[e]
      BY <1>1, <2>1, WriteSlotIsFree
    <3>2. At(r_pos[p], i) \in 0..(NFrames - 1)
      <4>1. avail_count(e) \in Nat /\ r_pos[p] \in 0..(NFrames - 1)
        BY <1>1, AvailIsNat DEF TypeOK
      <4>2. i \in 0..NFrames
        BY <4>1, <2>1, NFramesAssumption
      <4> QED BY <4>1, <4>2, AtFacts
    <3> QED BY <3>1, <3>2 DEF TypeOK
  <2>2. avail_count(e)' = avail_count(e)
    BY DEF avail_count
  <2> QED BY <1>1, <1>2, <1>3, <2>1, <2>2, SameContent
<1> QED BY <1>1, <1>4, <1>5, SameAbstraction

\* Clearing the counters takes a requested reset into effect, or clears again
\* what is clear already.
LEMMA ClearRefines ==
  ASSUME RInv, RInv', NEW e \in Ends, ClearCounters(e)
  PROVE  Fifo!Flush \/ UNCHANGED Fifo!vars
<1> USE DEF RInv, IInv
<1>1. PICK p \in Ends : p # e /\ Peer(e) = p /\ Peer(p) = e /\ Ends = {e, p}
  BY PeerFacts
<1>2. Shapes /\ Shapes'
  BY ContentIs, ContentIsNext
<1>3. CASE pc[e] = "n_clear_ack" /\ state[e] # "ack" /\ ~ Flushed(e) /\ ~ Flushed(p)
  <2>1. state[p] = "sync"
    BY <1>1, <1>3 DEF Flushed, Handshake, TypeOK, States, Moving
  <2>2. Status(p) = "down"
    BY <1>1, <1>3, <2>1, StatusIs
  <2>3. ~ SomeUsing'
    BY <1>1, <1>3, <2>1 DEF ClearCounters, Goto, SomeUsing, Using, TypeOK
  <2>4. \A x \in Ends : Status(x)' = "clean"
    BY <1>1, <1>3, <2>1 DEF ClearCounters, Goto, Status, Flushed, TypeOK, States
  <2>5. \A x \in Ends : Content(x)' = <<>>
    BY <1>2, <2>3 DEF Shapes, ContentShape
  <2>6. UNCHANGED rcvd
    BY DEF ClearCounters
  <2> QED BY <2>2, <2>4, <2>5, <2>6 DEF Fifo!Flush
<1>4. CASE ~ (pc[e] = "n_clear_ack" /\ state[e] # "ack" /\ ~ Flushed(e) /\ ~ Flushed(p))
  <2>1. \A x \in Ends : Status(x)' = Status(x)
    BY <1>1, <1>4 DEF ClearCounters, Goto, Status, Flushed, TypeOK, States, Handshake, Moving
  <2>2. SomeUsing' <=> SomeUsing
    BY <1>1, <1>4 DEF ClearCounters, Goto, SomeUsing, Using, Flushed, TypeOK, States, Handshake, Moving
  <2>3. SomeUsing => UNCHANGED <<w_count, r_count, w_pos, r_pos>>
    <3> SUFFICES ASSUME SomeUsing PROVE UNCHANGED <<w_count, r_count, w_pos, r_pos>>
      OBVIOUS
    <3>1. InUse(p)
      BY <1>1, <1>4, <2>2 DEF ClearCounters, Goto, SomeUsing, Using, InUse, TypeOK, States, Handshake, Moving
    <3>2. w_count[e] = 0 /\ r_count[e] = 0
      BY <1>1, <3>1, ClearIsHarmless DEF CountersNotInUse, Clearing, ClearCounters
    <3>3. w_pos[e] = 0 /\ r_pos[e] = 0
      BY <3>2, NFramesAssumption DEF Positions
    <3> QED BY <3>2, <3>3 DEF ClearCounters, TypeOK
  <2>4. UNCHANGED <<ring, rcvd>>
    BY DEF ClearCounters
  <2>5. \A x \in Ends : Content(x)' = Content(x)
    BY <1>2, <2>2, <2>3, <2>4, SameContent DEF avail_count
  <2> QED BY <2>1, <2>4, <2>5, SameAbstraction
<1> QED BY <1>3, <1>4

\* Announcing ACK changes nothing for the clients; announcing ESTABLISHED
\* connects an end whose queues are empty, or holds what the peer that is up
\* already has sent.
LEMMA StoreStateRefines ==
  ASSUME RInv, RInv', NEW e \in Ends, StoreState(e)
  PROVE  Fifo!Connect(e) \/ UNCHANGED Fifo!vars
<1> USE DEF RInv, IInv
<1>1. PICK p \in Ends : p # e /\ Peer(e) = p /\ Peer(p) = e /\ Ends = {e, p}
  BY PeerFacts
<1>2. Shapes /\ Shapes'
  BY ContentIs, ContentIsNext
<1>3. UNCHANGED <<w_count, r_count, ring, w_pos, r_pos, rcvd>>
  BY DEF StoreState
<1>4. CASE pc[e] = "n_ack"
  <2>1. \A x \in Ends : Status(x)' = Status(x)
    BY <1>1, <1>4 DEF StoreState, Goto, Status, Flushed, TypeOK, States
  <2>2. SomeUsing' <=> SomeUsing
    BY <1>1, <1>4 DEF StoreState, Goto, SomeUsing, Using, TypeOK, States
  <2>3. \A x \in Ends : Content(x)' = Content(x)
    BY <1>2, <1>3, <2>2, SameContent DEF avail_count
  <2> QED BY <1>3, <2>1, <2>3, SameAbstraction
<1>5. CASE pc[e] = "n_est"
  <2>1. Status(e) = "clean" /\ Status(e)' = "up" /\ Status(p)' = Status(p)
    BY <1>1, <1>5 DEF StoreState, Goto, Status, Flushed, TypeOK, States, Handshake
  <2>2. SomeUsing'
    BY <1>1, <1>5 DEF StoreState, Goto, SomeUsing, Using, TypeOK, States
  <2>3. \A x \in Ends : Content(x)' = Content(x)
    <3>1. CASE SomeUsing
      BY <1>2, <1>3, <2>2, <3>1, SameContent DEF avail_count
    <3>2. CASE ~ SomeUsing
      <4>1. w_count[e] = 0 /\ r_count[e] = 0 /\ w_count[p] = 0 /\ r_count[p] = 0
        BY <1>1, <1>5, <3>2 DEF SomeUsing, Using, Cleared, Handshake, TypeOK, States
      <4>2. \A x \in Ends : avail_count(x) = 0 /\ avail_count(x)' = 0
        BY <1>1, <1>3, <4>1, ModAssumption DEF avail_count, Sub
      <4>3. \A x \in Ends : Content(x) = <<>>
        BY <1>2, <4>2, EmptyContent
      <4>4. \A x \in Ends : Content(x)' \in [1..0 -> Frames \cup {Torn}]
        BY <1>2, <2>2, <4>2 DEF Shapes, ContentShape
      <4>5. \A x \in Ends : Content(x)' = <<>>
        <5>1. \A S : \A s \in [1..0 -> S] : s = <<>>
          OBVIOUS
        <5> QED BY <4>4, <5>1
      <4> QED BY <4>3, <4>5
    <3> QED BY <3>1, <3>2
  <2> QED BY <1>1, <1>3, <2>1, <2>3 DEF Fifo!Connect
<1> QED BY <1>4, <1>5 DEF StoreState

\* tegra_ivc_channel_reset.
LEMMA ResetRefines ==
  ASSUME ~ RepeatedReset, RInv, RInv', NEW e \in Ends, channel_reset(e)
  PROVE  Fifo!Reset(e) \/ UNCHANGED Fifo!vars
<1> USE DEF RInv, IInv
<1>1. PICK p \in Ends : p # e /\ Peer(e) = p /\ Peer(p) = e /\ Ends = {e, p}
  BY PeerFacts
<1>2. Shapes /\ Shapes'
  BY ContentIs, ContentIsNext
<1>3. UNCHANGED <<w_count, r_count, ring, w_pos, r_pos, rcvd>>
  BY DEF channel_reset
<1>4. state[e] # "ack" /\ state[p] # "ack"
  BY <1>1 DEF channel_reset
<1>5. CASE state[e] = "sync"
  <2>1. UNCHANGED state
    BY <1>5 DEF channel_reset, TypeOK
  <2>2. \A x \in Ends : Status(x)' = Status(x)
    BY <1>1, <1>5, <2>1 DEF channel_reset, Goto, Status, Flushed, TypeOK
  <2> QED BY <1>3, <2>1, <2>2, QuietRefines
<1>6. CASE state[e] = "est"
  <2>1. Status(e) = "up" /\ Status(e)' = "down" /\ Status(p)' = Status(p)
    BY <1>1, <1>4, <1>6 DEF channel_reset, Goto, Status, Flushed, TypeOK, States, Handshake, Moving
  <2>2. SomeUsing' <=> Status(p) = "up"
    BY <1>1, <1>6 DEF channel_reset, Goto, SomeUsing, Using, Status, TypeOK, States
  <2>3. SomeUsing
    BY <2>1, StatusIs DEF SomeUsing
  <2>4. CASE Status(p) = "up"
    <3>1. \A x \in Ends : Content(x)' = Content(x)
      BY <1>2, <1>3, <2>2, <2>3, <2>4, SameContent DEF avail_count
    <3>2. [x \in Ends |-> Content(x)'] = [x \in Ends |-> Content(x)]
      BY <3>1
    <3> QED BY <1>1, <1>3, <2>1, <2>4, <3>2 DEF Fifo!Reset, Fifo!Peer, Peer
  <2>5. CASE Status(p) # "up"
    <3>1. \A x \in Ends : Content(x)' = <<>>
      BY <1>2, <2>2, <2>5 DEF Shapes, ContentShape
    <3>2. [x \in Ends |-> Content(x)'] = [x \in Ends |-> <<>>]
      BY <3>1
    <3> QED BY <1>1, <1>3, <2>1, <2>5, <3>2 DEF Fifo!Reset, Fifo!Peer, Peer
  <2> QED BY <2>4, <2>5
<1> QED BY <1>4, <1>5, <1>6 DEF TypeOK, States

\* Every step of the rings is a step of the queues or changes nothing of them.
LEMMA NextRefines ==
  ASSUME ~ RepeatedReset, RInv, RInv', [Next]_vars
  PROVE  [Fifo!Next]_(Fifo!vars)
<1> USE DEF RInv, IInv
<1>1. CASE UNCHANGED vars
  <2>1. \A x \in Ends : Status(x)' = Status(x)
    BY <1>1 DEF vars, Status, Flushed
  <2> QED BY <1>1, <2>1, EndsAssumption, QuietRefines DEF vars
<1>2. ASSUME NEW e \in Ends, Step(e) \/ Client(e) PROVE [Fifo!Next]_(Fifo!vars)
  <2>1. PICK p \in Ends : p # e /\ Peer(e) = p /\ Peer(p) = e /\ Ends = {e, p}
    BY PeerFacts
  <2>2. CASE \/ ResetNotify(e) \/ Interrupt(e) \/ StateNotify(e) \/ NotifiedReturn(e)
             \/ ReadCheck(e) \/ ReadCopy(e) \/ ReadNotify(e) \/ WriteNotify(e)
    <3>1. UNCHANGED <<w_count, r_count, state, ring, w_pos, r_pos, rcvd>>
      BY <2>2 DEF ResetNotify, Interrupt, StateNotify, NotifiedReturn, ReadCheck, ReadCopy,
                  ReadNotify, WriteNotify, shared
    <3>2. \A x \in Ends : Status(x)' = Status(x)
      BY <2>1, <2>2, <3>1
        DEF ResetNotify, Interrupt, StateNotify, NotifiedReturn, ReadCheck, ReadCopy,
            ReadNotify, WriteNotify, Goto, Status, Flushed, TypeOK
    <3> QED BY <3>1, <3>2, QuietRefines
  <2>3. CASE ReadPeerState(e)
    <3>1. UNCHANGED <<w_count, r_count, state, ring, w_pos, r_pos, rcvd>>
      BY <2>3 DEF ReadPeerState, shared
    <3>2. \A x \in Ends : Status(x)' = Status(x)
      BY <2>1, <2>3, <3>1
        DEF ReadPeerState, Branch, Goto, Status, Flushed, TypeOK, States, Handshake
    <3> QED BY <3>1, <3>2, QuietRefines
  <2>4. CASE Reboot(e)
    <3>1. UNCHANGED <<w_count, r_count, state, ring, w_pos, r_pos, rcvd>>
      BY <2>4, RebootKeepsPositions DEF Reboot, shared
    <3>2. \A x \in Ends : Status(x)' = Status(x)
      BY <2>1, <2>4, <3>1 DEF Reboot, Goto, Status, Flushed, TypeOK
    <3> QED BY <3>1, <3>2, QuietRefines
  <2>5. CASE WriteStore(e)
    <3>1. Using(e) /\ avail_count(e) < NFrames
      BY <2>5 DEF WriteStore, Using, Handshake, InFrame, Reserved
    <3>2. \A x \in Ends : Status(x)' = Status(x)
      BY <2>1, <2>5 DEF WriteStore, Goto, Status, Flushed, TypeOK
    <3>3. /\ ring' = [ring EXCEPT ![e][w_pos[e]] = frame[e]]
          /\ UNCHANGED <<w_count, r_count, state, w_pos, r_pos, rcvd>>
      BY <2>5 DEF WriteStore
    <3> QED BY <3>1, <3>2, <3>3, StoreIsQuiet
  <2>6. ASSUME NEW f \in Frames, WriteCheck(e, f) PROVE UNCHANGED Fifo!vars
    <3>1. CASE check_write(e)
      <4>1. Using(e) /\ avail_count(e) < NFrames
        BY <2>6, <3>1, AvailIsNat, NFramesAssumption
          DEF WriteCheck, check_write, channel_full, Using
      <4>2. \A x \in Ends : Status(x)' = Status(x)
        BY <2>1, <2>6, <3>1 DEF WriteCheck, Goto, Status, Flushed, TypeOK
      <4>3. /\ ring' = [ring EXCEPT ![e][w_pos[e]] = Torn]
            /\ UNCHANGED <<w_count, r_count, state, w_pos, r_pos, rcvd>>
        BY <2>6, <3>1 DEF WriteCheck
      <4> QED BY <4>1, <4>2, <4>3, StoreIsQuiet
    <3>2. CASE ~ check_write(e)
      <4>1. UNCHANGED <<w_count, r_count, state, ring, w_pos, r_pos, rcvd, pc>>
        BY <2>6, <3>2 DEF WriteCheck
      <4>2. \A x \in Ends : Status(x)' = Status(x)
        BY <4>1 DEF Status, Flushed
      <4> QED BY <4>1, <4>2, QuietRefines
    <3> QED BY <3>1, <3>2
  <2>7. CASE advance_rx(e)
    BY <2>7, ReceiveRefines DEF Fifo!Next
  <2>8. CASE advance_tx(e)
    BY <2>8, SendRefines DEF Fifo!Next
  <2>9. CASE ClearCounters(e)
    BY <2>9, ClearRefines DEF Fifo!Next
  <2>10. CASE StoreState(e)
    BY <2>10, StoreStateRefines DEF Fifo!Next
  <2>11. CASE channel_reset(e)
    BY <2>11, ResetRefines DEF Fifo!Next
  <2> QED BY <1>2, <2>2, <2>3, <2>4, <2>5, <2>6, <2>7, <2>8, <2>9, <2>10, <2>11
      DEF Step, Client
<1> QED BY <1>1, <1>2 DEF Next

\* No frame is lost, repeated, torn or overtaken, and none from before a reset
\* is delivered after it: the rings implement the FIFO queues of IvcFifo for
\* every ring size that divides the counters' range, across their wrap and
\* reboots, as long as clients do not reset during a handshake.
THEOREM RingsAreFifo ==
  ASSUME ~ RepeatedReset, Divides
  PROVE  Spec => IsFifo
<1>1. Init => RInv /\ Fifo!Init
  BY InitRInv, InitRefines
<1>2. RInv /\ [Next]_vars => RInv'
  BY RInvInductive
<1>3. RInv /\ RInv' /\ [Next]_vars => [Fifo!Next]_(Fifo!vars)
  BY NextRefines
<1> QED BY <1>1, <1>2, <1>3, PTL DEF Spec, IsFifo, Fifo!Spec
================================================================================
