------------------------------- MODULE Ivc_proofs -------------------------------
(***************************************************************************)
(* For every ring size and counter range, and clients that do not reset a  *)
(* channel while a handshake is under way: an end never clears counters    *)
(* the peer is using, what a client found readable or writable stays so    *)
(* until it advances, and nobody waits for a doorbell that was left out.   *)
(*                                                                         *)
(* The inductive invariant says how far the state of one end restricts     *)
(* where the other can be in tegra_ivc_channel_notified (Handshake), that  *)
(* an end which has announced cleared counters has cleared them (Cleared), *)
(* and that the counters are consistent while an end may use them          *)
(* (RingsFit, Reserved).  Wakeups adds where a skipped doorbell leaves the *)
(* peer.                                                                   *)
(***************************************************************************)
EXTENDS Ivc, TLAPS

\* tegra_ivc_channel_notified is entered with a handshake left to do.
Moving == {"n_clear_ack", "n_ack", "n_clear_est", "n_est"}

\* Inside ivc_read_frame or ivc_write_frame.
InFrame == {"r_check", "r_copy", "r_adv", "r_note", "w_store", "w_adv", "w_note"}

Handshake ==
  \A e \in Ends :
    /\ state[e] = "est" => pc[e] \notin {"n_clear_est", "n_est"}
    /\ state[e] = "ack" => pc[e] # "n_clear_est"
    /\ pc[e] \in InFrame => state[e] = "est"
    /\ pc[e] = "s_note" => state[e] = "sync"
    /\ state[e] = "sync" /\ pc[e] \in {"n_clear_est", "n_est"} => state[Peer(e)] = "ack"
    /\ state[e] = "ack" /\ pc[e] = "n_est" => state[Peer(e)] # "sync"
    /\ state[e] = "sync" /\ state[Peer(e)] = "est" => pc[e] \notin Moving
    /\ state[e] = "est" /\ pc[e] \in {"n_clear_ack", "n_ack"} => state[Peer(e)] = "sync"

Cleared ==
  \A e \in Ends :
    state[e] = "ack" \/ pc[e] \in {"n_ack", "n_est"} => w_count[e] = 0 /\ r_count[e] = 0

\* An end whose counters agree with the peer's.
Using(e) == state[e] = "est" /\ pc[e] # "n_ack"

RingsFit ==
  \A e \in Ends : Using(e) => /\ avail_count(e) <= NFrames
                              /\ avail_count(Peer(e)) <= NFrames

Reserved ==
  \A e \in Ends :
    /\ pc[e] \in {"r_copy", "r_adv"} => avail_count(Peer(e)) > 0
    /\ pc[e] \in {"w_store", "w_adv"} => avail_count(e) < NFrames

IInv == TypeOK /\ Handshake /\ Cleared /\ RingsFit /\ Reserved

LEMMA PeerFacts ==
  \A e \in Ends : /\ Peer(e) \in Ends
                  /\ Peer(e) # e
                  /\ Peer(Peer(e)) = e
                  /\ \A x \in Ends : x = e \/ x = Peer(e)
<1> SUFFICES ASSUME NEW e \in Ends
    PROVE /\ Peer(e) \in Ends
          /\ Peer(e) # e
          /\ Peer(Peer(e)) = e
          /\ \A x \in Ends : x = e \/ x = Peer(e)
  OBVIOUS
<1>1. PICK a \in Ends, b \in Ends : a # b /\ Ends = {a, b}
  BY EndsAssumption
<1>2. \A x \in Ends : Peer(x) \in Ends /\ Peer(x) # x
  <2> TAKE x \in Ends
  <2>1. \E o \in Ends : o # x
    BY <1>1
  <2> QED BY <2>1 DEF Peer
<1> QED BY <1>1, <1>2

LEMMA SubBounds ==
  \A a, b \in 0..(Mod - 1) :
    /\ Sub(a, b) \in 0..(Mod - 1)
    /\ Inc(a) \in 0..(Mod - 1)
    /\ Sub(a, b) < NFrames => Sub(Inc(a), b) = Sub(a, b) + 1
    /\ Sub(a, b) > 0 => Sub(a, Inc(b)) = Sub(a, b) - 1
    /\ Sub(0, 0) = 0
BY ModAssumption, NFramesAssumption DEF Sub, Inc

LEMMA AvailIsNat == TypeOK => \A e \in Ends : avail_count(e) \in Nat
<1> SUFFICES ASSUME TypeOK, NEW e \in Ends PROVE avail_count(e) \in Nat
  OBVIOUS
<1>1. w_count[e] \in 0..(Mod - 1) /\ r_count[Peer(e)] \in 0..(Mod - 1)
  BY PeerFacts DEF TypeOK
<1>2. avail_count(e) \in 0..(Mod - 1)
  BY <1>1, SubBounds DEF avail_count
<1> QED BY <1>2, ModAssumption

LEMMA PosBounds ==
  /\ \A p \in 0..(NFrames - 1) : NextPos(p) \in 0..(NFrames - 1)
  /\ \A c \in Nat : c % NFrames \in 0..(NFrames - 1)
BY NFramesAssumption DEF NextPos

LEMMA InitIInv == Init => IInv
<1> SUFFICES ASSUME Init PROVE IInv
  OBVIOUS
<1> USE ModAssumption, NFramesAssumption
<1>1. TypeOK
  BY DEF Init, TypeOK, States, Labels
<1>2. Handshake /\ Cleared /\ Reserved
  BY PeerFacts DEF Init, Handshake, Cleared, Reserved, InFrame, Moving
<1>3. RingsFit
  <2>1. \A e \in Ends : avail_count(e) = 0
    <3> TAKE e \in Ends
    <3>1. w_count[e] = 0 /\ r_count[Peer(e)] = 0
      BY PeerFacts DEF Init
    <3> QED BY <3>1 DEF avail_count, Sub
  <2> QED BY <2>1, PeerFacts DEF RingsFit
<1> QED BY <1>1, <1>2, <1>3 DEF IInv

LEMMA NextTypeOK == TypeOK /\ [Next]_vars => TypeOK'
<1> SUFFICES ASSUME TypeOK, [Next]_vars PROVE TypeOK'
  OBVIOUS
<1> USE ModAssumption, NFramesAssumption DEF TypeOK, States, Labels
<1>1. CASE UNCHANGED vars
  BY <1>1 DEF vars
<1>2. ASSUME NEW e \in Ends, Step(e) PROVE TypeOK'
  <2>1. CASE ResetNotify(e) \/ Interrupt(e) \/ StateNotify(e)
    BY <2>1, PeerFacts DEF ResetNotify, Interrupt, StateNotify, Notify, Goto, shared
  <2>2. CASE ReadPeerState(e)
    BY <2>2, PeerFacts DEF ReadPeerState, Branch, Goto, shared
  <2>3. CASE ClearCounters(e)
    BY <2>3 DEF ClearCounters, Goto
  <2>4. CASE StoreState(e)
    BY <2>4 DEF StoreState, Goto
  <2>5. CASE NotifiedReturn(e)
    BY <2>5 DEF NotifiedReturn, Goto, shared
  <2>6. CASE ReadCheck(e)
    BY <2>6 DEF ReadCheck, Goto, shared
  <2>7. CASE ReadCopy(e)
    BY <2>7, PeerFacts DEF ReadCopy, Goto, shared
  <2>8. CASE advance_rx(e)
    <3>1. Inc(r_count[e]) \in 0..(Mod - 1) /\ NextPos(r_pos[e]) \in 0..(NFrames - 1)
      BY SubBounds, PosBounds
    <3> QED BY <2>8, <3>1 DEF advance_rx, Goto
  <2>9. CASE ReadNotify(e) \/ WriteNotify(e)
    BY <2>9, PeerFacts DEF ReadNotify, WriteNotify, Notify, Goto, shared
  <2>10. CASE WriteStore(e)
    BY <2>10 DEF WriteStore, Goto
  <2>11. CASE advance_tx(e)
    <3>1. Inc(w_count[e]) \in 0..(Mod - 1) /\ NextPos(w_pos[e]) \in 0..(NFrames - 1)
      BY SubBounds, PosBounds
    <3> QED BY <2>11, <3>1 DEF advance_tx, Goto
  <2> QED BY <1>2, <2>1, <2>2, <2>3, <2>4, <2>5, <2>6, <2>7, <2>8, <2>9, <2>10, <2>11
      DEF Step
<1>3. ASSUME NEW e \in Ends, Client(e) PROVE TypeOK'
  <2>1. CASE channel_reset(e)
    BY <2>1 DEF channel_reset, Goto
  <2>2. CASE Reboot(e)
    <3> HIDE ModAssumption, NFramesAssumption
    <3>1. w_count[e] \in Nat /\ r_count[e] \in Nat
      BY ModAssumption
    <3>2. w_count[e] % NFrames \in 0..(NFrames - 1) /\ r_count[e] % NFrames \in 0..(NFrames - 1)
      BY <3>1, PosBounds
    <3> QED BY <2>2, <3>2 DEF Reboot, channel_sync, Goto, shared
  <2>3. ASSUME NEW f \in Frames, WriteCheck(e, f) PROVE TypeOK'
    <3>1. ring' \in [Ends -> [0..(NFrames - 1) -> Frames \cup {Torn}]]
      <4>1. [ring[e] EXCEPT ![w_pos[e]] = Torn] \in [0..(NFrames - 1) -> Frames \cup {Torn}]
        OBVIOUS
      <4> QED BY <2>3, <4>1 DEF WriteCheck
    <3> QED BY <2>3, <3>1 DEF WriteCheck, Goto
  <2> QED BY <1>3, <2>1, <2>2, <2>3 DEF Client
<1> QED BY <1>1, <1>2, <1>3 DEF Next

\* The handshake: what one step of end e, whose peer is p, does to it.
LEMMA NextHandshake ==
  ~ RepeatedReset /\ TypeOK /\ Handshake /\ [Next]_vars => Handshake'
<1> SUFFICES ASSUME ~ RepeatedReset, TypeOK, Handshake, [Next]_vars PROVE Handshake'
  OBVIOUS
<1>1. CASE UNCHANGED vars
  BY <1>1 DEF vars, Handshake
<1>2. ASSUME NEW e \in Ends, Step(e) \/ Client(e) PROVE Handshake'
  <2>1. PICK p \in Ends : p # e /\ Peer(e) = p /\ Peer(p) = e /\ Ends = {e, p}
    BY PeerFacts
  <2> USE <2>1 DEF TypeOK, States, Labels, Handshake, InFrame, Moving, Goto
  <2>2. CASE ResetNotify(e)
    BY <2>2 DEF ResetNotify, shared
  <2>3. CASE Interrupt(e)
    BY <2>3 DEF Interrupt, shared
  <2>4. CASE ReadPeerState(e)
    BY <2>4 DEF ReadPeerState, shared, Branch
  <2>5. CASE ClearCounters(e)
    BY <2>5 DEF ClearCounters
  <2>6. CASE StoreState(e)
    BY <2>6 DEF StoreState
  <2>7. CASE StateNotify(e)
    BY <2>7 DEF StateNotify, shared
  <2>8. CASE NotifiedReturn(e)
    BY <2>8 DEF NotifiedReturn, shared
  <2>9. CASE ReadCheck(e)
    BY <2>9 DEF ReadCheck, shared, check_read
  <2>10. CASE ReadCopy(e)
    BY <2>10 DEF ReadCopy, shared
  <2>11. CASE advance_rx(e)
    BY <2>11 DEF advance_rx
  <2>12. CASE ReadNotify(e)
    BY <2>12 DEF ReadNotify, shared
  <2>13. CASE WriteStore(e)
    BY <2>13 DEF WriteStore
  <2>14. CASE advance_tx(e)
    BY <2>14 DEF advance_tx
  <2>15. CASE WriteNotify(e)
    BY <2>15 DEF WriteNotify, shared
  <2>16. CASE channel_reset(e)
    BY <2>16 DEF channel_reset
  <2>17. CASE Reboot(e)
    BY <2>17 DEF Reboot, shared
  <2>18. ASSUME NEW f \in Frames, WriteCheck(e, f) PROVE Handshake'
    BY <2>18 DEF WriteCheck, check_write
  <2> QED BY <1>2, <2>2, <2>3, <2>4, <2>5, <2>6, <2>7, <2>8, <2>9, <2>10, <2>11, <2>12, <2>13, <2>14, <2>15, <2>16, <2>17, <2>18 DEF Step, Client
<1> QED BY <1>1, <1>2 DEF Next

\* An end that says it has cleared its counters has.
LEMMA NextCleared ==
  TypeOK /\ Handshake /\ Cleared /\ [Next]_vars => Cleared'
<1> SUFFICES ASSUME TypeOK, Handshake, Cleared, [Next]_vars PROVE Cleared'
  OBVIOUS
<1>1. CASE UNCHANGED vars
  BY <1>1 DEF vars, Cleared
<1>2. ASSUME NEW e \in Ends, Step(e) \/ Client(e) PROVE Cleared'
  <2> USE DEF TypeOK, States, Labels, Handshake, InFrame, Cleared, Goto
  <2>1. CASE ResetNotify(e)
    BY <2>1 DEF ResetNotify, shared
  <2>2. CASE Interrupt(e)
    BY <2>2 DEF Interrupt, shared
  <2>3. CASE ReadPeerState(e)
    BY <2>3 DEF ReadPeerState, shared, Branch
  <2>4. CASE ClearCounters(e)
    BY <2>4 DEF ClearCounters
  <2>5. CASE StoreState(e)
    BY <2>5 DEF StoreState
  <2>6. CASE StateNotify(e)
    BY <2>6 DEF StateNotify, shared
  <2>7. CASE NotifiedReturn(e)
    BY <2>7 DEF NotifiedReturn, shared
  <2>8. CASE ReadCheck(e)
    BY <2>8 DEF ReadCheck, shared
  <2>9. CASE ReadCopy(e)
    BY <2>9 DEF ReadCopy, shared
  <2>10. CASE advance_rx(e)
    BY <2>10 DEF advance_rx
  <2>11. CASE ReadNotify(e)
    BY <2>11 DEF ReadNotify, shared
  <2>12. CASE WriteStore(e)
    BY <2>12 DEF WriteStore
  <2>13. CASE advance_tx(e)
    BY <2>13 DEF advance_tx
  <2>14. CASE WriteNotify(e)
    BY <2>14 DEF WriteNotify, shared
  <2>15. CASE channel_reset(e)
    BY <2>15 DEF channel_reset
  <2>16. CASE Reboot(e)
    BY <2>16 DEF Reboot, shared
  <2>17. ASSUME NEW f \in Frames, WriteCheck(e, f) PROVE Cleared'
    BY <2>17 DEF WriteCheck
  <2> QED BY <1>2, <2>1, <2>2, <2>3, <2>4, <2>5, <2>6, <2>7, <2>8, <2>9, <2>10, <2>11, <2>12, <2>13, <2>14, <2>15, <2>16, <2>17 DEF Step, Client
<1> QED BY <1>1, <1>2 DEF Next

\* When an end clears its counters, the counters of an end in use do not move.
LEMMA ClearIsHarmless ==
  ASSUME TypeOK, Handshake, Cleared
  PROVE  CountersNotInUse
<1> SUFFICES ASSUME NEW e \in Ends, Clearing(e), InUse(Peer(e))
    PROVE w_count[e] = 0 /\ r_count[e] = 0
  BY DEF CountersNotInUse
<1> QED BY PeerFacts DEF TypeOK, States, Handshake, Cleared, Clearing, InUse, Moving

\* The counters: the rings of an end in use hold at most NFrames frames, and
\* what a client has found readable or writable stays so.
LEMMA NextRings ==
  /\ TypeOK /\ Handshake /\ Cleared /\ RingsFit /\ Reserved
  /\ Handshake'
  /\ [Next]_vars
  => RingsFit' /\ Reserved'
<1> SUFFICES ASSUME TypeOK, Handshake, Cleared, RingsFit, Reserved, Handshake', [Next]_vars
    PROVE RingsFit' /\ Reserved'
  OBVIOUS
<1>1. CASE UNCHANGED vars
  BY <1>1 DEF vars, RingsFit, Reserved, Using, avail_count
<1>2. ASSUME NEW e \in Ends, Step(e) \/ Client(e) PROVE RingsFit' /\ Reserved'
  <2>1. PICK p \in Ends : p # e /\ Peer(e) = p /\ Peer(p) = e /\ Ends = {e, p}
    BY PeerFacts
  <2>2. /\ w_count[e] \in 0..(Mod - 1) /\ r_count[e] \in 0..(Mod - 1)
        /\ w_count[p] \in 0..(Mod - 1) /\ r_count[p] \in 0..(Mod - 1)
    BY <2>1 DEF TypeOK
  <2>3. /\ Sub(w_count[p], r_count[e]) \in Nat
        /\ Sub(w_count[e], r_count[p]) \in Nat
        /\ NFrames \in Nat \ {0}
    BY <2>1, AvailIsNat, NFramesAssumption DEF avail_count
  <2>4. /\ Sub(w_count[p], r_count[e]) > 0
            => Sub(w_count[p], Inc(r_count[e])) = Sub(w_count[p], r_count[e]) - 1
        /\ Sub(w_count[e], r_count[p]) < NFrames
            => Sub(Inc(w_count[e]), r_count[p]) = Sub(w_count[e], r_count[p]) + 1
        /\ Sub(0, 0) = 0
    BY <2>2, SubBounds
  <2> USE <2>1 DEF TypeOK, States, Labels, Handshake, InFrame, Moving, RingsFit, Reserved, Using, Goto, avail_count
  <2>5. CASE ResetNotify(e)
    BY <2>5 DEF ResetNotify, shared
  <2>6. CASE Interrupt(e)
    BY <2>6 DEF Interrupt, shared
  <2>7. CASE ReadPeerState(e)
    BY <2>7 DEF ReadPeerState, shared, Branch
  <2>8. CASE StateNotify(e)
    BY <2>8 DEF StateNotify, shared
  <2>9. CASE NotifiedReturn(e)
    BY <2>9 DEF NotifiedReturn, shared
  <2>10. CASE ReadCopy(e)
    BY <2>10 DEF ReadCopy, shared
  <2>11. CASE ReadNotify(e)
    BY <2>11 DEF ReadNotify, shared
  <2>12. CASE WriteStore(e)
    BY <2>12 DEF WriteStore
  <2>13. CASE WriteNotify(e)
    BY <2>13 DEF WriteNotify, shared
  <2>14. CASE channel_reset(e)
    BY <2>14 DEF channel_reset
  <2>15. CASE Reboot(e)
    BY <2>15 DEF Reboot, shared
  <2>16. CASE ReadCheck(e)
    BY <2>16, <2>3 DEF ReadCheck, shared, check_read, channel_empty
  <2>17. ASSUME NEW f \in Frames, WriteCheck(e, f) PROVE RingsFit' /\ Reserved'
    BY <2>17, <2>3 DEF WriteCheck, check_write, channel_full
  <2>18. CASE ClearCounters(e)
    <3>1. CASE InUse(p)
      <4>1. w_count[e] = 0 /\ r_count[e] = 0
        BY <2>18, <3>1, ClearIsHarmless DEF CountersNotInUse, Clearing, ClearCounters
      <4> QED BY <2>18, <4>1 DEF ClearCounters
    <3>2. CASE ~ InUse(p)
      BY <2>18, <3>2 DEF ClearCounters, InUse
    <3> QED BY <3>1, <3>2
  <2>19. CASE StoreState(e)
    BY <2>19, <2>3, <2>4 DEF StoreState, Cleared
  <2>20. CASE advance_rx(e)
    <3>1. Sub(w_count[p], r_count[e]) > 0
      BY <2>20 DEF advance_rx
    <3>2. Sub(w_count[p], r_count'[e]) = Sub(w_count[p], r_count[e]) - 1
      BY <2>20, <2>4, <3>1 DEF advance_rx
    <3> QED BY <2>20, <2>3, <3>1, <3>2 DEF advance_rx
  <2>21. CASE advance_tx(e)
    <3>1. Sub(w_count[e], r_count[p]) < NFrames
      BY <2>21 DEF advance_tx
    <3>2. Sub(w_count'[e], r_count[p]) = Sub(w_count[e], r_count[p]) + 1
      BY <2>21, <2>4, <3>1 DEF advance_tx
    <3> QED BY <2>21, <2>3, <3>1, <3>2 DEF advance_tx
  <2> QED BY <1>2, <2>5, <2>6, <2>7, <2>8, <2>9, <2>10, <2>11, <2>12, <2>13, <2>14, <2>15, <2>16, <2>17, <2>18, <2>19, <2>20, <2>21 DEF Step, Client
<1> QED BY <1>1, <1>2 DEF Next

LEMMA IInvInductive == ~ RepeatedReset /\ IInv /\ [Next]_vars => IInv'
BY NextTypeOK, NextHandshake, NextCleared, NextRings DEF IInv

LEMMA IInvMeansReserved == IInv => AdvanceCheckPasses
<1> SUFFICES ASSUME IInv PROVE AdvanceCheckPasses
  OBVIOUS
<1>1. ASSUME NEW e \in Ends, pc[e] \in {"r_copy", "r_adv"} PROVE check_read(e)
  <2>1. state[e] = "est" /\ Using(e) /\ avail_count(Peer(e)) > 0 /\ avail_count(Peer(e)) <= NFrames
    BY <1>1 DEF IInv, Handshake, InFrame, RingsFit, Reserved, Using
  <2>2. avail_count(Peer(e)) \in Nat
    BY PeerFacts, AvailIsNat DEF IInv
  <2> QED BY <2>1, <2>2, NFramesAssumption DEF check_read, channel_empty
<1>2. ASSUME NEW e \in Ends, pc[e] \in {"w_store", "w_adv"} PROVE check_write(e)
  <2>1. state[e] = "est" /\ avail_count(e) < NFrames
    BY <1>2 DEF IInv, Handshake, InFrame, Reserved
  <2>2. avail_count(e) \in Nat
    BY PeerFacts, AvailIsNat DEF IInv
  <2> QED BY <2>1, <2>2, NFramesAssumption DEF check_write, channel_full
<1> QED BY <1>1, <1>2 DEF AdvanceCheckPasses

\* The comments of tegra_ivc_channel_notified ("the counters are not in use at
\* this time") hold for every ring size and counter range, as long as clients
\* do not reset during a handshake.
THEOREM CountersAreNotInUse ==
  ASSUME ~ RepeatedReset
  PROVE  Spec => []CountersNotInUse
<1>1. Init => IInv
  BY InitIInv
<1>2. IInv /\ [Next]_vars => IInv'
  BY IInvInductive
<1>3. IInv => CountersNotInUse
  BY ClearIsHarmless DEF IInv
<1> QED BY <1>1, <1>2, <1>3, PTL DEF Spec

\* The rechecks of tegra_ivc_read_advance and tegra_ivc_write_advance never
\* fail, for every ring size and counter range.
THEOREM AdvanceChecksPass ==
  ASSUME ~ RepeatedReset
  PROVE  Spec => []AdvanceCheckPasses
<1>1. Init => IInv
  BY InitIInv
<1>2. IInv /\ [Next]_vars => IInv'
  BY IInvInductive
<1>3. IInv => AdvanceCheckPasses
  BY IInvMeansReserved
<1> QED BY <1>1, <1>2, <1>3, PTL DEF Spec

--------------------------------------------------------------------------------
(* Wake-ups.  A thread in ivc_write_frame goes back to sleep without another
   look at the ring it reads, so it counts as asleep; one that reads looks once
   more before it sleeps, and has no write waiting. *)

Asleep == {"idle", "w_store", "w_adv", "w_note"}

\* e may sleep on: nothing has been sent to wake it and nothing is about to be,
\* other than by an advance.
Unheard(e) ==
  /\ pc[e] \in Asleep /\ ~ bell[e]
  /\ state[e] = "est" /\ state[Peer(e)] = "est"
  /\ ~ AboutToRing(Peer(e))

FrameHeard(e) ==
  avail_count(Peer(e)) > 0 => pc[Peer(e)] = "w_note" /\ avail_count(Peer(e)) = 1

RoomHeard(e) ==
  blocked[e] /\ avail_count(e) < NFrames
    => pc[Peer(e)] = "r_note" /\ avail_count(e) = NFrames - 1

Unblocked == \A e \in Ends : pc[e] \in InFrame => ~ blocked[e]

Wakeups ==
  /\ Unblocked
  /\ \A e \in Ends : Unheard(e) => FrameHeard(e) /\ RoomHeard(e)

LEMMA InitWakeups == Init => Wakeups
<1> SUFFICES ASSUME Init PROVE Wakeups
  OBVIOUS
<1>1. Unblocked
  BY DEF Init, Unblocked
<1>2. \A e \in Ends : ~ blocked[e] /\ avail_count(Peer(e)) = 0
  <2> TAKE e \in Ends
  <2>1. w_count[Peer(e)] = 0 /\ r_count[Peer(Peer(e))] = 0 /\ ~ blocked[e]
    BY PeerFacts DEF Init
  <2> QED BY <2>1 DEF avail_count, Sub
<1> QED BY <1>1, <1>2 DEF Wakeups, FrameHeard, RoomHeard

LEMMA NextUnblocked == TypeOK /\ Unblocked /\ [Next]_vars => Unblocked'
<1> SUFFICES ASSUME TypeOK, Unblocked, [Next]_vars PROVE Unblocked'
  OBVIOUS
<1> USE DEF TypeOK, Unblocked, InFrame, Goto
<1>1. CASE UNCHANGED vars
  BY <1>1 DEF vars
<1>2. ASSUME NEW e \in Ends, Step(e) PROVE Unblocked'
  <2>1. CASE NotifiedReturn(e)
    BY <2>1 DEF NotifiedReturn
  <2>2. CASE ReadPeerState(e)
    BY <2>2 DEF ReadPeerState, Branch
  <2> QED BY <1>2, <2>1, <2>2 DEF Step, ResetNotify, Interrupt, ClearCounters, StoreState,
      StateNotify, ReadCheck, ReadCopy, advance_rx, ReadNotify, WriteStore, advance_tx,
      WriteNotify
<1>3. ASSUME NEW e \in Ends, Client(e) PROVE Unblocked'
  BY <1>3 DEF Client, channel_reset, Reboot, WriteCheck
<1> QED BY <1>1, <1>2, <1>3 DEF Next

\* An end that goes on sleeping has nothing to do after any step, its own or the
\* peer's, or the peer is at the test that will wake it.
LEMMA NextWakeups ==
  ~ RepeatedReset /\ IInv /\ IInv' /\ Wakeups /\ [Next]_vars => Wakeups'
<1> SUFFICES ASSUME ~ RepeatedReset, IInv, IInv', Wakeups, [Next]_vars PROVE Wakeups'
  OBVIOUS
<1>1. Unblocked /\ Unblocked'
  BY NextUnblocked DEF IInv, Wakeups
<1>2. CASE UNCHANGED vars
  BY <1>2 DEF vars, Wakeups, Unblocked, Unheard, AboutToRing, FrameHeard, RoomHeard, avail_count
<1>3. ASSUME NEW a \in Ends, Step(a) \/ Client(a), NEW e \in Ends, Unheard(e)'
      PROVE  FrameHeard(e)' /\ RoomHeard(e)'
  <2>1. PICK p \in Ends : p # e /\ Peer(e) = p /\ Peer(p) = e /\ Ends = {e, p}
    BY PeerFacts
  <2>2. /\ w_count[e] \in 0..(Mod - 1) /\ r_count[e] \in 0..(Mod - 1)
        /\ w_count[p] \in 0..(Mod - 1) /\ r_count[p] \in 0..(Mod - 1)
    BY <2>1 DEF IInv, TypeOK
  <2>3. avail_count(e) \in Nat /\ avail_count(p) \in Nat /\ NFrames \in Nat \ {0}
    BY AvailIsNat, NFramesAssumption DEF IInv
  <2>4. Unheard(e) => FrameHeard(e) /\ RoomHeard(e)
    BY DEF Wakeups
  <2>5. /\ pc'[e] \in Asleep /\ ~ bell'[e] /\ state'[e] = "est" /\ state'[p] = "est"
        /\ pc'[p] \notin {"s_note", "n_note"}
    BY <1>3, <2>1 DEF Unheard, AboutToRing
  <2> USE <2>1, <2>5 DEF Unheard, AboutToRing, Asleep, Goto
  <2>6. CASE a = p
    <3> USE <2>6
    <3>1. CASE \/ ResetNotify(p) \/ StateNotify(p)
      BY <3>1 DEF ResetNotify, StateNotify, Notify, IInv, TypeOK
    <3>2. CASE channel_reset(p) \/ StoreState(p)
      BY <3>2 DEF channel_reset, StoreState, IInv, TypeOK
    <3>3. CASE ClearCounters(p)
      BY <3>3 DEF ClearCounters, IInv, TypeOK, Handshake
    <3>4. CASE advance_tx(p)
      <4>1. Unheard(e) /\ avail_count(p) = 0
        BY <2>3, <2>4, <3>4 DEF advance_tx, IInv, TypeOK, FrameHeard
      <4>2. avail_count(p)' = 1 /\ avail_count(e)' = avail_count(e)
        <5>1. Sub(w_count[p], r_count[e]) = 0
          BY <4>1 DEF avail_count
        <5>2. Sub(w_count[p], r_count[e]) < NFrames
          BY <5>1, NFramesAssumption
        <5>3. Sub(Inc(w_count[p]), r_count[e]) = Sub(w_count[p], r_count[e]) + 1
          BY <2>2, <5>2, SubBounds
        <5> QED BY <3>4, <5>1, <5>3 DEF advance_tx, IInv, TypeOK, avail_count
      <4> QED BY <2>3, <2>4, <3>4, <4>1, <4>2 DEF advance_tx, IInv, TypeOK, FrameHeard, RoomHeard
    <3>5. CASE advance_rx(p)
      <4>1. Unheard(e) /\ pc[p] = "r_adv"
        BY <3>5 DEF advance_rx, IInv, TypeOK
      <4>2. avail_count(e) > 0 /\ avail_count(e) <= NFrames
        BY <2>3, <4>1 DEF IInv, Reserved, RingsFit, Using
      <4>3. avail_count(e)' = avail_count(e) - 1 /\ avail_count(p)' = avail_count(p)
        <5>1. Sub(w_count[e], Inc(r_count[p])) = Sub(w_count[e], r_count[p]) - 1
          BY <2>2, <4>2, SubBounds DEF avail_count
        <5> QED BY <3>5, <5>1 DEF advance_rx, IInv, TypeOK, avail_count
      <4>4. FrameHeard(e) /\ RoomHeard(e)
        BY <2>4, <4>1
      <4>5. FrameHeard(e)'
        BY <4>1, <4>3, <4>4 DEF FrameHeard
      <4>6. RoomHeard(e)'
        <5>1. pc'[p] = "r_note" /\ UNCHANGED blocked
          BY <3>5 DEF advance_rx, IInv, TypeOK
        <5>2. blocked[e] => avail_count(e) = NFrames
          BY <2>3, <4>1, <4>2, <4>4 DEF RoomHeard
        <5>3. blocked'[e] => avail_count(e)' = NFrames - 1
          BY <4>3, <5>1, <5>2
        <5> QED BY <5>1, <5>3 DEF RoomHeard
      <4> QED BY <4>5, <4>6
    <3>6. CASE WriteNotify(p)
      <4>1. UNCHANGED <<w_count, r_count, state, blocked>> /\ pc' = [pc EXCEPT ![p] = "idle"]
        BY <3>6 DEF WriteNotify, shared
      <4>2. avail_count(p) # 1 /\ UNCHANGED bell
        BY <3>6, <4>1 DEF WriteNotify, Notify, IInv, TypeOK
      <4>3. FrameHeard(e) /\ RoomHeard(e)
        BY <2>4, <3>6, <4>1, <4>2 DEF WriteNotify, IInv, TypeOK
      <4> QED BY <3>6, <4>1, <4>2, <4>3 DEF WriteNotify, FrameHeard, RoomHeard, avail_count, IInv, TypeOK
    <3>7. CASE ReadNotify(p)
      <4>1. UNCHANGED <<w_count, r_count, state, blocked>> /\ pc' = [pc EXCEPT ![p] = "r_check"]
        BY <3>7 DEF ReadNotify, shared
      <4>2. avail_count(e) # NFrames - 1 /\ UNCHANGED bell
        BY <3>7, <4>1 DEF ReadNotify, Notify, IInv, TypeOK
      <4>3. FrameHeard(e) /\ RoomHeard(e)
        BY <2>4, <3>7, <4>1, <4>2 DEF ReadNotify, IInv, TypeOK
      <4> QED BY <3>7, <4>1, <4>2, <4>3 DEF ReadNotify, FrameHeard, RoomHeard, avail_count, IInv, TypeOK
    <3>8. CASE \/ Interrupt(p) \/ ReadPeerState(p) \/ NotifiedReturn(p) \/ ReadCheck(p)
               \/ ReadCopy(p) \/ WriteStore(p) \/ Reboot(p)
               \/ \E f \in Frames : WriteCheck(p, f)
      <4>1. /\ UNCHANGED <<w_count, r_count, state>>
            /\ pc'[e] = pc[e] /\ bell'[e] = bell[e] /\ blocked'[e] = blocked[e]
            /\ pc[p] \notin {"w_note", "r_note"}
            /\ ~ AboutToRing(p)
        BY <3>8 DEF Interrupt, ReadPeerState, NotifiedReturn, ReadCheck, ReadCopy, WriteStore,
                    Reboot, WriteCheck, shared, IInv, TypeOK
      <4> QED BY <2>4, <4>1 DEF FrameHeard, RoomHeard, avail_count
    <3> QED BY <1>3, <3>1, <3>2, <3>3, <3>4, <3>5, <3>6, <3>7, <3>8 DEF Step, Client
  <2>7. CASE a = e
    <3> USE <2>7
    <3>1. CASE ReadCheck(e)
      <4>1. pc'[e] = "idle" /\ ~ check_read(e) /\ ~ blocked'[e]
        BY <1>1, <3>1 DEF ReadCheck, IInv, TypeOK, Unblocked, InFrame
      <4>2. state[e] = "est" /\ avail_count(p) <= NFrames
        BY <3>1 DEF ReadCheck, IInv, Handshake, InFrame, RingsFit, Using
      <4>3. avail_count(p) = 0 /\ avail_count(p)' = 0
        BY <2>3, <3>1, <4>1, <4>2 DEF ReadCheck, check_read, channel_empty, shared, avail_count
      <4> QED BY <4>1, <4>3 DEF FrameHeard, RoomHeard
    <3>2. CASE advance_tx(e)
      <4>1. Unheard(e) /\ ~ blocked'[e]
        BY <1>1, <3>2 DEF advance_tx, IInv, TypeOK, Unblocked, InFrame
      <4>2. avail_count(p)' = avail_count(p) /\ pc'[p] = pc[p]
        BY <3>2 DEF advance_tx, avail_count, IInv, TypeOK
      <4> QED BY <2>4, <4>1, <4>2 DEF FrameHeard, RoomHeard
    <3>3. CASE WriteStore(e) \/ WriteNotify(e)
      <4>1. Unheard(e) /\ ~ blocked'[e]
        BY <1>1, <3>3 DEF WriteStore, WriteNotify, Notify, IInv, TypeOK, Unblocked, InFrame, shared
      <4>2. avail_count(p)' = avail_count(p) /\ pc'[p] = pc[p]
        BY <3>3 DEF WriteStore, WriteNotify, shared, avail_count, IInv, TypeOK
      <4> QED BY <2>4, <4>1, <4>2 DEF FrameHeard, RoomHeard
    <3>4. ASSUME NEW f \in Frames, WriteCheck(e, f) PROVE FrameHeard(e)' /\ RoomHeard(e)'
      <4>1. Unheard(e) /\ pc'[p] = pc[p] /\ avail_count(p)' = avail_count(p) /\ avail_count(e)' = avail_count(e)
        BY <3>4 DEF WriteCheck, IInv, TypeOK, avail_count
      <4>2. ~ blocked'[e] \/ avail_count(e) >= NFrames
        BY <3>4, <4>1 DEF WriteCheck, check_write, channel_full, IInv, TypeOK
      <4>3. RoomHeard(e)'
        BY <2>3, <4>1, <4>2 DEF RoomHeard
      <4> QED BY <2>4, <4>1, <4>3 DEF FrameHeard
    <3>5. CASE \/ ResetNotify(e) \/ Interrupt(e) \/ ReadPeerState(e) \/ ClearCounters(e)
               \/ StoreState(e) \/ StateNotify(e) \/ NotifiedReturn(e) \/ ReadCopy(e)
               \/ advance_rx(e) \/ ReadNotify(e) \/ channel_reset(e) \/ Reboot(e)
      <4>1. state'[e] # "est" \/ pc'[e] \notin Asleep
        BY <3>5 DEF ResetNotify, Interrupt, ReadPeerState, Branch, ClearCounters, StoreState,
             StateNotify, NotifiedReturn, ReadCopy, advance_rx, ReadNotify, channel_reset,
             Reboot, shared, IInv, TypeOK, Handshake
      <4> QED BY <4>1
    <3> QED BY <1>3, <3>1, <3>2, <3>3, <3>4, <3>5 DEF Step, Client
  <2> QED BY <2>1, <2>6, <2>7
<1> QED BY <1>1, <1>2, <1>3 DEF Next, Wakeups

LEMMA WakeupsMeansNoLost == IInv /\ Wakeups => NoLostWakeup
<1> SUFFICES ASSUME IInv, Wakeups, NEW e \in Ends,
                    pc[e] = "idle", ~ bell[e], state[e] = "est", state[Peer(e)] = "est",
                    ~ AboutToRing(Peer(e))
    PROVE /\ ~ channel_empty(Peer(e))
               => pc[Peer(e)] = "w_note" /\ avail_count(Peer(e)) = 1
          /\ blocked[e] /\ ~ channel_full(e)
               => pc[Peer(e)] = "r_note" /\ avail_count(e) = NFrames - 1
  BY DEF NoLostWakeup
<1>1. avail_count(e) \in Nat /\ avail_count(Peer(e)) \in Nat /\ NFrames \in Nat
  BY AvailIsNat, PeerFacts, NFramesAssumption DEF IInv
<1>2. FrameHeard(e) /\ RoomHeard(e)
  BY DEF Wakeups, Unheard, Asleep
<1> QED BY <1>1, <1>2 DEF FrameHeard, RoomHeard, channel_empty, channel_full

\* Ringing the doorbell only on the step from empty to non-empty and from full
\* to non-full loses no wake-up, for every ring size and counter range, whatever
\* the peer does between the advance and the test of the count.
THEOREM NoWakeupIsLost ==
  ASSUME ~ RepeatedReset
  PROVE  Spec => []NoLostWakeup
<1>1. Init => IInv /\ Wakeups
  BY InitIInv, InitWakeups
<1>2. IInv /\ Wakeups /\ [Next]_vars => IInv' /\ Wakeups'
  BY IInvInductive, NextWakeups
<1>3. IInv /\ Wakeups => NoLostWakeup
  BY WakeupsMeansNoLost
<1> QED BY <1>1, <1>2, <1>3, PTL DEF Spec
================================================================================
