-------------------------------- MODULE IvcFifo --------------------------------
(***************************************************************************)
(* What an IVC channel promises to its two clients: a bounded FIFO in each *)
(* direction, and a reset after which neither end receives a frame that    *)
(* was sent before it.                                                     *)
(*                                                                         *)
(* An end is up (it may send and receive), down (its client has asked for  *)
(* a reset) or clean (the reset has taken effect, the end may come up).    *)
(***************************************************************************)
EXTENDS Naturals, Sequences

CONSTANTS
  Ends,      \* the two ends of the channel
  Frames,    \* the frames a client may send
  NFrames,   \* capacity of a queue
  None       \* no frame received yet

VARIABLES
  q,         \* q[e]: the frames e has sent and its peer has not received
  status,    \* status[e]: "up", "down" or "clean"
  rcvd       \* rcvd[e]: the frame e's client received last

vars == <<q, status, rcvd>>

Peer(e) == CHOOSE o \in Ends : o # e

Init ==
  /\ q = [e \in Ends |-> <<>>]
  /\ status = [e \in Ends |-> "up"]
  /\ rcvd = [e \in Ends |-> None]

Send(e, f) ==
  /\ status[e] = "up"
  /\ Len(q[e]) < NFrames
  /\ q' = [q EXCEPT ![e] = Append(@, f)]
  /\ UNCHANGED <<status, rcvd>>

Receive(e) ==
  /\ status[e] = "up"
  /\ q[Peer(e)] # <<>>
  /\ rcvd' = [rcvd EXCEPT ![e] = Head(q[Peer(e)])]
  /\ q' = [q EXCEPT ![Peer(e)] = Tail(@)]
  /\ UNCHANGED status

\* The client of e asks for a reset.  When the peer is not up either, nothing
\* is left of the queues, and a reset of the peer that had taken effect may
\* have to be done again.
Reset(e) ==
  /\ status[e] # "down"
  /\ \E s \in {status[Peer(e)], "down"} :
       /\ status[Peer(e)] = "up" => s = "up"
       /\ status' = [x \in Ends |-> IF x = e THEN "down" ELSE s]
  /\ q' = IF status[Peer(e)] = "up" THEN q ELSE [x \in Ends |-> <<>>]
  /\ UNCHANGED rcvd

\* A requested reset takes effect: both queues are emptied at once, and no
\* end is up until it has reconnected.
Flush ==
  /\ \E e \in Ends : status[e] = "down"
  /\ q' = [e \in Ends |-> <<>>]
  /\ status' = [e \in Ends |-> "clean"]
  /\ UNCHANGED rcvd

Connect(e) ==
  /\ status[e] = "clean"
  /\ status' = [status EXCEPT ![e] = "up"]
  /\ UNCHANGED <<q, rcvd>>

Next ==
  \/ Flush
  \/ \E e \in Ends :
       \/ \E f \in Frames : Send(e, f)
       \/ Receive(e)
       \/ Reset(e)
       \/ Connect(e)

Spec == Init /\ [][Next]_vars
================================================================================
