---------------------------------- MODULE Ivc ----------------------------------
(***************************************************************************)
(* The IVC transport of drivers/platform/tegra/tegra-ivc.c: two rings of   *)
(* frames in memory shared by two ends (processors or virtual machines),   *)
(* free running counters, a doorbell in each direction and the three-state *)
(* reset handshake.                                                        *)
(*                                                                         *)
(* w_count[e] and state[e] are the fields of the header e transmits        *)
(* through, r_count[e] is the field e owns in the header it receives       *)
(* through.  Each end runs one thread: a client of this library serialises *)
(* its calls.  A step is one store or one load of the shared memory that   *)
(* the peer can tell apart; the barriers and cache maintenance of the code *)
(* are what makes the steps happen in this order.                          *)
(***************************************************************************)
EXTENDS Integers, Sequences

CONSTANTS
  Ends,          \* the two ends of the channel
  Writers,       \* the ends whose clients send frames
  Frames,        \* the frames a client may send
  Torn,          \* the content of a slot that holds no complete frame
  NFrames,       \* nframes: slots of a ring
  Mod,           \* the counters are uint32_t: 2^32 in the code, small here
  RepeatedReset  \* a client may reset while a handshake is under way

ASSUME EndsAssumption == \E a \in Ends, b \in Ends : a # b /\ Ends = {a, b}
ASSUME WritersAssumption == Writers \subseteq Ends
ASSUME FramesAssumption == Torn \notin Frames
ASSUME NFramesAssumption == NFrames \in Nat /\ NFrames > 0
ASSUME ModAssumption == Mod \in Nat /\ Mod > NFrames
ASSUME RepeatedResetAssumption == RepeatedReset \in BOOLEAN

VARIABLES
  w_count, r_count, state,   \* the shared headers
  ring,                      \* ring[e][i]: slot i of the ring e writes
  w_pos, r_pos,              \* struct ivc of each end
  bell,                      \* bell[e]: a notification of e is pending
  pc,                        \* where the thread of e is
  frame,                     \* the frame e is writing or reading
  blocked,                   \* e's client waits to be able to write
  rcvd                       \* the frame e's client received last

shared == <<w_count, r_count, state, ring>>
vars == <<w_count, r_count, state, ring, w_pos, r_pos, bell, pc, frame,
          blocked, rcvd>>

Peer(e) == CHOOSE o \in Ends : o # e

States == {"est", "sync", "ack"}

Labels ==
  {"idle",                                  \* outside the library
   "n_read", "n_clear_ack", "n_clear_est",  \* tegra_ivc_channel_notified
   "n_ack", "n_est", "n_note", "n_done",
   "r_check", "r_copy", "r_adv", "r_note",  \* ivc_read_frame
   "w_store", "w_adv", "w_note",            \* ivc_write_frame
   "s_note"}                                \* tegra_ivc_channel_reset

--------------------------------------------------------------------------------
(* uint32_t arithmetic on the counters. *)

Inc(c) == IF c = Mod - 1 THEN 0 ELSE c + 1
Sub(a, b) == IF a >= b THEN a - b ELSE a - b + Mod

(* The rings.  Full and Empty treat an impossible count as "nothing to do". *)

avail_count(e) == Sub(w_count[e], r_count[Peer(e)])

channel_empty(e) == avail_count(e) > NFrames \/ avail_count(e) = 0

\* Plausible slip: the ring is allowed one frame too many.
Mut_channel_full(e) == avail_count(e) > NFrames

channel_full(e) == avail_count(e) >= NFrames

NextPos(p) == IF p = NFrames - 1 THEN 0 ELSE p + 1

check_read(e) == state[e] = "est" /\ ~ channel_empty(Peer(e))
check_write(e) == state[e] = "est" /\ ~ channel_full(e)

Goto(e, l) == pc' = [pc EXCEPT ![e] = l]

\* ivc->notify: ring the peer's doorbell (external: hypervisor or HSP).
Notify(e) == bell' = [bell EXCEPT ![Peer(e)] = TRUE]

--------------------------------------------------------------------------------
(* tegra_ivc_channel_reset *)

channel_reset(e) ==
  /\ pc[e] = "idle"
  /\ RepeatedReset \/ \A x \in Ends : state[x] # "ack"
  /\ state' = [state EXCEPT ![e] = "sync"]
  /\ Goto(e, "s_note")
  /\ UNCHANGED <<w_count, r_count, ring, w_pos, r_pos, bell, frame, blocked, rcvd>>

ResetNotify(e) ==
  /\ pc[e] = "s_note"
  /\ Notify(e)
  /\ Goto(e, "idle")
  /\ UNCHANGED <<shared, w_pos, r_pos, frame, blocked, rcvd>>

--------------------------------------------------------------------------------
(* tegra_ivc_channel_notified *)

\* The doorbell interrupt: the client calls tegra_ivc_channel_notified.
Interrupt(e) ==
  /\ pc[e] = "idle"
  /\ bell[e]
  /\ bell' = [bell EXCEPT ![e] = FALSE]
  /\ Goto(e, "n_read")
  /\ UNCHANGED <<shared, w_pos, r_pos, frame, blocked, rcvd>>

\* Plausible slip: the test of the local state is lost, an established end
\* that sees ACK clears its counters too.
Mut_Branch(e, peer_state) ==
  CASE peer_state = "sync" -> "n_clear_ack"
    [] peer_state = "ack" -> "n_clear_est"
    [] peer_state = "est" /\ state[e] = "ack" -> "n_est"
    [] OTHER -> "n_done"

\* The state transition table above tegra_ivc_channel_notified.
Branch(e, peer_state) ==
  CASE peer_state = "sync" -> "n_clear_ack"
    [] peer_state = "ack" /\ state[e] = "sync" -> "n_clear_est"
    [] peer_state # "sync" /\ state[e] = "ack" -> "n_est"
    [] OTHER -> "n_done"

\* Copy the peer's state out of shared memory.
ReadPeerState(e) ==
  /\ pc[e] = "n_read"
  /\ Goto(e, Branch(e, state[Peer(e)]))
  /\ UNCHANGED <<shared, w_pos, r_pos, bell, frame, blocked, rcvd>>

\* Both branches that clear the counters e owns.  One step for the two stores:
\* the peer uses neither counter here (CountersNotInUse), and where it does the
\* property is violated whichever store comes first.
ClearCounters(e) ==
  /\ pc[e] \in {"n_clear_ack", "n_clear_est"}
  /\ w_count' = [w_count EXCEPT ![e] = 0]
  /\ r_count' = [r_count EXCEPT ![e] = 0]
  /\ w_pos' = [w_pos EXCEPT ![e] = 0]
  /\ r_pos' = [r_pos EXCEPT ![e] = 0]
  /\ Goto(e, IF pc[e] = "n_clear_ack" THEN "n_ack" ELSE "n_est")
  /\ UNCHANGED <<state, ring, bell, frame, blocked, rcvd>>

StoreState(e) ==
  /\ pc[e] \in {"n_ack", "n_est"}
  /\ state' = [state EXCEPT ![e] = IF pc[e] = "n_ack" THEN "ack" ELSE "est"]
  /\ Goto(e, "n_note")
  /\ UNCHANGED <<w_count, r_count, ring, w_pos, r_pos, bell, frame, blocked, rcvd>>

\* Plausible slip: no notification of the new state.
Mut_StateNotify(e) ==
  /\ pc[e] = "n_note"
  /\ Goto(e, "n_done")
  /\ UNCHANGED <<shared, w_pos, r_pos, bell, frame, blocked, rcvd>>

StateNotify(e) ==
  /\ pc[e] = "n_note"
  /\ Notify(e)
  /\ Goto(e, "n_done")
  /\ UNCHANGED <<shared, w_pos, r_pos, frame, blocked, rcvd>>

\* The return value: 0 lets the client use the channel (it reads what there
\* is and retries a write it has waiting), -EAGAIN sends it back to wait.
NotifiedReturn(e) ==
  /\ pc[e] = "n_done"
  /\ IF state[e] = "est"
       THEN blocked' = [blocked EXCEPT ![e] = FALSE] /\ Goto(e, "r_check")
       ELSE UNCHANGED blocked /\ Goto(e, "idle")
  /\ UNCHANGED <<shared, w_pos, r_pos, bell, frame, rcvd>>

--------------------------------------------------------------------------------
(* ivc_read_frame, called until it finds nothing; the zero-copy variant is
   tegra_ivc_read_get_next_frame (check and copy) with tegra_ivc_read_advance. *)

ReadCheck(e) ==
  /\ pc[e] = "r_check"
  /\ Goto(e, IF check_read(e) THEN "r_copy" ELSE "idle")
  /\ UNCHANGED <<shared, w_pos, r_pos, bell, frame, blocked, rcvd>>

ReadCopy(e) ==
  /\ pc[e] = "r_copy"
  /\ frame' = [frame EXCEPT ![e] = ring[Peer(e)][r_pos[e]]]
  /\ Goto(e, "r_adv")
  /\ UNCHANGED <<shared, w_pos, r_pos, bell, blocked, rcvd>>

advance_rx(e) ==
  /\ pc[e] = "r_adv"
  /\ r_count' = [r_count EXCEPT ![e] = Inc(@)]
  /\ r_pos' = [r_pos EXCEPT ![e] = NextPos(@)]
  /\ rcvd' = [rcvd EXCEPT ![e] = frame[e]]
  /\ frame' = [frame EXCEPT ![e] = Torn]
  /\ Goto(e, "r_note")
  /\ UNCHANGED <<w_count, state, ring, w_pos, bell, blocked>>

\* Plausible slip: the count is compared as if it had been read before the
\* advance.
Mut_ReadNotify(e) ==
  /\ pc[e] = "r_note"
  /\ IF avail_count(Peer(e)) = NFrames THEN Notify(e) ELSE UNCHANGED bell
  /\ Goto(e, "r_check")
  /\ UNCHANGED <<shared, w_pos, r_pos, frame, blocked, rcvd>>

\* Notify only upon transition from full to non-full.
ReadNotify(e) ==
  /\ pc[e] = "r_note"
  /\ IF avail_count(Peer(e)) = NFrames - 1 THEN Notify(e) ELSE UNCHANGED bell
  /\ Goto(e, "r_check")
  /\ UNCHANGED <<shared, w_pos, r_pos, frame, blocked, rcvd>>

--------------------------------------------------------------------------------
(* ivc_write_frame; the zero-copy variant is tegra_ivc_write_get_next_frame
   (check), the client's stores and tegra_ivc_write_advance. *)

\* ivc_check_write; a client that may not write waits for a notification.
WriteCheck(e, f) ==
  /\ e \in Writers
  /\ pc[e] = "idle"
  /\ ~ blocked[e]
  /\ IF check_write(e)
       THEN /\ frame' = [frame EXCEPT ![e] = f]
            /\ ring' = [ring EXCEPT ![e][w_pos[e]] = Torn]
            /\ Goto(e, "w_store")
            /\ UNCHANGED blocked
       ELSE /\ blocked' = [blocked EXCEPT ![e] = TRUE]
            /\ UNCHANGED <<frame, ring, pc>>
  /\ UNCHANGED <<w_count, r_count, state, w_pos, r_pos, bell, rcvd>>

WriteStore(e) ==
  /\ pc[e] = "w_store"
  /\ ring' = [ring EXCEPT ![e][w_pos[e]] = frame[e]]
  /\ frame' = [frame EXCEPT ![e] = Torn]
  /\ Goto(e, "w_adv")
  /\ UNCHANGED <<w_count, r_count, state, w_pos, r_pos, bell, blocked, rcvd>>

advance_tx(e) ==
  /\ pc[e] = "w_adv"
  /\ w_count' = [w_count EXCEPT ![e] = Inc(@)]
  /\ w_pos' = [w_pos EXCEPT ![e] = NextPos(@)]
  /\ Goto(e, "w_note")
  /\ UNCHANGED <<r_count, state, ring, r_pos, bell, frame, blocked, rcvd>>

\* Plausible slip: the same on the write side.
Mut_WriteNotify(e) ==
  /\ pc[e] = "w_note"
  /\ IF avail_count(e) = 0 THEN Notify(e) ELSE UNCHANGED bell
  /\ Goto(e, "idle")
  /\ UNCHANGED <<shared, w_pos, r_pos, frame, blocked, rcvd>>

\* Notify only upon transition from empty to non-empty.
WriteNotify(e) ==
  /\ pc[e] = "w_note"
  /\ IF avail_count(e) = 1 THEN Notify(e) ELSE UNCHANGED bell
  /\ Goto(e, "idle")
  /\ UNCHANGED <<shared, w_pos, r_pos, frame, blocked, rcvd>>

--------------------------------------------------------------------------------
(* A reboot of one end while the channel is active: tegra_ivc_init and
   tegra_ivc_channel_sync recompute the positions from the shared counters.
   The client then starts with tegra_ivc_channel_notified.  A reboot that
   swallows a notification already owed to the peer is left out: one between a
   store of the state or of a counter and the doorbell that follows it, and so
   one in the middle of a handshake. *)

\* Plausible slip: the positions tegra_ivc_init sets are taken as they are.
Mut_channel_sync(e) ==
  /\ w_pos' = [w_pos EXCEPT ![e] = 0]
  /\ r_pos' = [r_pos EXCEPT ![e] = 0]

channel_sync(e) ==
  /\ w_pos' = [w_pos EXCEPT ![e] = w_count[e] % NFrames]
  /\ r_pos' = [r_pos EXCEPT ![e] = r_count[e] % NFrames]

Reboot(e) ==
  /\ pc[e] \in {"idle", "r_check", "r_copy", "r_adv", "w_store", "w_adv"}
  /\ channel_sync(e)
  /\ bell' = [bell EXCEPT ![e] = FALSE]
  /\ blocked' = [blocked EXCEPT ![e] = FALSE]
  /\ frame' = [frame EXCEPT ![e] = Torn]
  /\ Goto(e, "n_read")
  /\ UNCHANGED <<shared, rcvd>>

--------------------------------------------------------------------------------

Init ==
  /\ w_count = [e \in Ends |-> 0]
  /\ r_count = [e \in Ends |-> 0]
  /\ state = [e \in Ends |-> "est"]
  /\ ring = [e \in Ends |-> [i \in 0..(NFrames - 1) |-> Torn]]
  /\ w_pos = [e \in Ends |-> 0]
  /\ r_pos = [e \in Ends |-> 0]
  /\ bell = [e \in Ends |-> FALSE]
  /\ pc = [e \in Ends |-> "idle"]
  /\ frame = [e \in Ends |-> Torn]
  /\ blocked = [e \in Ends |-> FALSE]
  /\ rcvd = [e \in Ends |-> Torn]

\* The steps of the library, once a client has called it.
Step(e) ==
  \/ ResetNotify(e)
  \/ Interrupt(e) \/ ReadPeerState(e) \/ ClearCounters(e) \/ StoreState(e)
  \/ StateNotify(e) \/ NotifiedReturn(e)
  \/ ReadCheck(e) \/ ReadCopy(e) \/ advance_rx(e) \/ ReadNotify(e)
  \/ WriteStore(e) \/ advance_tx(e) \/ WriteNotify(e)

\* What a client or the machine does of its own accord.
Client(e) ==
  \/ channel_reset(e)
  \/ Reboot(e)
  \/ \E f \in Frames : WriteCheck(e, f)

Next == \E e \in Ends : Step(e) \/ Client(e)

Spec == Init /\ [][Next]_vars

--------------------------------------------------------------------------------
(* Properties *)

TypeOK ==
  /\ w_count \in [Ends -> 0..(Mod - 1)]
  /\ r_count \in [Ends -> 0..(Mod - 1)]
  /\ state \in [Ends -> States]
  /\ ring \in [Ends -> [0..(NFrames - 1) -> Frames \cup {Torn}]]
  /\ w_pos \in [Ends -> 0..(NFrames - 1)]
  /\ r_pos \in [Ends -> 0..(NFrames - 1)]
  /\ bell \in [Ends -> BOOLEAN]
  /\ pc \in [Ends -> Labels]
  /\ frame \in [Ends -> Frames \cup {Torn}]
  /\ blocked \in [Ends -> BOOLEAN]
  /\ rcvd \in [Ends -> Frames \cup {Torn}]

Clearing(e) == pc[e] \in {"n_clear_ack", "n_clear_est"}

\* An end whose client may move frames: established, and not about to give
\* that up for a reset of the peer.
InUse(e) == state[e] = "est" /\ pc[e] \notin {"n_clear_ack", "n_ack"}

\* Both comments of tegra_ivc_channel_notified on clearing the counters: the
\* remote end "won't make progress until we change our state, so the counters
\* are not in use at this time."  An end in ACK that is notified again clears
\* again what it has already cleared; anything else would be taken from under
\* a peer that is moving frames.
CountersNotInUse ==
  \A e \in Ends :
    Clearing(e) /\ InUse(Peer(e)) => w_count[e] = 0 /\ r_count[e] = 0

\* The recheck in tegra_ivc_read_advance ("just to catch programming errors")
\* and the one in tegra_ivc_write_advance never fail: what a client found
\* readable or writable still is when it advances, whatever the peer does in
\* between.
AdvanceCheckPasses ==
  \A e \in Ends :
    /\ pc[e] \in {"r_copy", "r_adv"} => check_read(e)
    /\ pc[e] \in {"w_store", "w_adv"} => check_write(e)

AboutToRing(e) == pc[e] \in {"s_note", "n_note"}

\* Notifying only on the step from empty to non-empty and from full to
\* non-full loses no wake-up: a reader asleep with a frame in the ring, and a
\* writer waiting although there is room, have a notification pending or the
\* peer is about to send one.
NoLostWakeup ==
  \A e \in Ends :
    (pc[e] = "idle" /\ ~ bell[e] /\ state[e] = "est" /\ state[Peer(e)] = "est")
      => \/ AboutToRing(Peer(e))
         \/ /\ ~ channel_empty(Peer(e))
              => pc[Peer(e)] = "w_note" /\ avail_count(Peer(e)) = 1
            /\ blocked[e] /\ ~ channel_full(e)
              => pc[Peer(e)] = "r_note" /\ avail_count(e) = NFrames - 1

(* The abstraction: what the clients can still tell of the rings. *)

\* The reset that e, in SYNC, has asked for has taken effect: the peer has
\* cleared its counters.
Flushed(e) ==
  \/ state[Peer(e)] = "ack" \/ pc[Peer(e)] = "n_ack"
  \/ pc[e] \in {"n_ack", "n_clear_est", "n_est"}

Status(e) ==
  CASE state[e] = "est" /\ pc[e] # "n_ack" -> "up"
    [] state[e] = "sync" /\ ~ Flushed(e) -> "down"
    [] OTHER -> "clean"

Content(e) ==
  IF \A x \in Ends : Status(x) # "up"
    THEN <<>>
    ELSE [i \in 1..avail_count(e) |->
            ring[e][(r_pos[Peer(e)] + i - 1) % NFrames]]

Fifo == INSTANCE IvcFifo WITH
  q <- [e \in Ends |-> Content(e)],
  status <- [e \in Ends |-> Status(e)],
  None <- Torn

\* The rings, the counters and the handshake implement a bounded FIFO in each
\* direction whose reset delivers nothing from before it: no frame is lost,
\* repeated, torn or overtaken, across counter wrap, resets and reboots.
IsFifo == Fifo!Spec

--------------------------------------------------------------------------------
(* Liveness *)

\* A thread inside the library runs on; a doorbell interrupt is not kept
\* waiting for ever by a client that keeps calling.
Fairness == \A e \in Ends : WF_vars(Step(e)) /\ SF_vars(Interrupt(e))

FairSpec == Spec /\ Fairness

\* Resets and reboots come to an end.
Calm == <>[][\A e \in Ends : ~ channel_reset(e) /\ ~ Reboot(e)]_vars

\* The handshake of tegra_ivc_channel_notified ends: once nobody resets any
\* more, both ends become established for good, whoever asked and however the
\* notifications crossed.
Reconnects == Calm => <>[](\A e \in Ends : state[e] = "est")

\* A frame that was sent is read, and a client that waits to write goes on.
FramesAreRead ==
  Calm => \A e \in Ends :
    /\ \A c \in 0..(Mod - 1) :
         (r_count[e] = c /\ avail_count(Peer(e)) > 0)
            ~> (r_count[e] # c \/ avail_count(Peer(e)) = 0)
    /\ blocked[e] ~> ~ blocked[e]
================================================================================
