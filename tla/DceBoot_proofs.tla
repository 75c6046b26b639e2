--------------------------- MODULE DceBoot_proofs ---------------------------
(***************************************************************************)
(* Proofs about DceBoot, for every set of users, every choice of who may   *)
(* be interrupted, every queue size, and with or without firmware errors   *)
(* and spontaneous interrupts.                                             *)
(***************************************************************************)
EXTENDS DceBoot, SequenceTheorems, TLAPS

(* The sequences the flows walk through. *)
LEMMA AdminSeqFacts ==
  /\ Len(AdminSeq) = 4
  /\ \A i \in 1 .. 4 : AdminSeq[i] \in AdminCmds
  /\ AdminSeq[1] = "VERSION" /\ AdminSeq[4] = "RM_BOOTSTRAP"
  /\ AdminSeq[2] = "IPC_CREATE_RM" /\ AdminSeq[3] = "IPC_CREATE_RM_NOTIFY"
  BY DEF AdminSeq, AdminCmds

LEMMA NumBootCmdsFact == NumBootCmds = 15
  BY DEF NumBootCmds, BootCmdSeq

(* What the FSM's tables return. *)
LEMMA FsmTables ==
  ASSUME NEW e \in Events, NEW r \in SUBSET Waits
  PROVE  StateAfter(e) \in States /\ RequestedAfter(e, r) \in SUBSET Waits
  BY DEF StateAfter, RequestedAfter, States, Waits, Events, AnswerEvents, AbortEvents

LEMMA SetStateType ==
  ASSUME FsmTypeOK, NEW e \in Events, dce_fsm_set_state(e)
  PROVE  c_state' \in States /\ requested_ipcs' \subseteq Waits
  BY FsmTables DEF dce_fsm_set_state, FsmTypeOK

LEMMA PostType ==
  ASSUME TypeOK, NEW t \in Threads, NEW e \in Events,
         NEW yes \in PcLabels, NEW no \in PcLabels, Post(t, e, yes, no)
  PROVE  /\ c_state' \in States /\ requested_ipcs' \subseteq Waits
         /\ prev' \in [Threads -> States] /\ pc' \in [Threads -> PcLabels]
         /\ pc' = [pc EXCEPT ![t] = yes] \/ pc' = [pc EXCEPT ![t] = no]
<1> USE DEF TypeOK, FsmTypeOK, ThrTypeOK
<1>1. CASE dce_fsm_validate_event(c_state, e)
  <2>1. dce_fsm_set_state(e) /\ prev' = [prev EXCEPT ![t] = c_state] /\ pc' = [pc EXCEPT ![t] = yes]
    BY <1>1 DEF Post, Goto
  <2> QED
    BY <2>1, SetStateType
<1>2. CASE ~ dce_fsm_validate_event(c_state, e)
  <2>1. UNCHANGED <<c_state, requested_ipcs, prev>> /\ pc' = [pc EXCEPT ![t] = no]
    BY <1>2 DEF Post, Goto
  <2> QED
    BY <2>1
<1> QED
  BY <1>1, <1>2
-----------------------------------------------------------------------------
(* Typing needs to know where the admin sequence is: a worker in an RPC    *)
(* has a command to send, and resets only channels it had created.         *)
RpcLabels == {"rpc_post", "rpc_send", "rpc_wait", "rpc_woken", "rpc_read",
              "rpc_fail", "rpc_ok", "rpc_err"}
BootLabels == {"bc_post", "bc_check", "bc_nested", "bc_nwake", "bc_reset", "bc_int", "bc_wait",
               "bc_done", "cmd_post", "cmd_send", "cmd_wait", "cmd_status", "cmd_fail", "boot_fail"}

PlaceOf(l, a) ==
    /\ l \in RpcLabels => a \in 1 .. 4
    /\ l \in {"ch_reset", "ch_ready"} => a \in {0, 2, 3}
    /\ l = "seq_alloc" => a = 1
    /\ l \in BootLabels => a = 0

SeqPlace == \A w \in Workers : PlaceOf(pc[w], asi[w])

TInv == TypeOK /\ SeqPlace

(* A step that moves one thread and leaves every place in AdminSeq alone. *)
LEMMA MovePlace ==
  ASSUME TInv, NEW t \in Threads, NEW l \in PcLabels, pc' = [pc EXCEPT ![t] = l],
         UNCHANGED asi, t \in Workers => PlaceOf(l, asi[t])
  PROVE  SeqPlace' /\ pc' \in [Threads -> PcLabels]
  BY DEF TInv, TypeOK, ThrTypeOK, SeqPlace, Threads

LEMMA TInit == Init => TInv
<1> SUFFICES ASSUME Init PROVE TInv
  OBVIOUS
<1> USE BootAssumption, NumBootCmdsFact, AdminSeqFacts DEF BootAssumption
<1>1. FsmTypeOK /\ boot_status \subseteq StatusFlags
  BY DEF Init, FsmInit, FsmTypeOK, States
<1>2. NoStatus \in Statuses /\ NoReply \in Replies
  BY DEF NoStatus, Irq, Statuses, NoReply, Replies, Threads, AdminCmds
<1>2a. 0 \in 0 .. NumBootCmds
  OBVIOUS
<1>3. MbTypeOK
  BY <1>2, <1>2a DEF Init, MbTypeOK
<1>4. <<>> \in Seq(Messages) /\ <<>> \in Seq(Replies) /\ Len(<<>>) = 0
  BY EmptySeq
<1>5. ChTypeOK
  BY <1>4 DEF Init, ChTypeOK
<1>6. ThrTypeOK
  BY <1>2 DEF Init, ThrTypeOK, PcLabels, States, Workers
<1>7. IsrTypeOK
  BY DEF Init, IsrTypeOK, IsrLabels
<1>8. FwTypeOK
  BY <1>2a, EmptySeq DEF Init, FwTypeOK
<1>9. SeqPlace
  BY DEF Init, SeqPlace, PlaceOf, RpcLabels, BootLabels, Threads
<1> QED
  BY <1>1, <1>3, <1>5, <1>6, <1>7, <1>8, <1>9 DEF TInv, TypeOK

(* What a step leaves alone keeps its type. *)
LEMMA Frame ==
  ASSUME TypeOK
  PROVE  /\ UNCHANGED fsmVars => FsmTypeOK'
         /\ UNCHANGED boot_status => (boot_status \subseteq StatusFlags)'
         /\ UNCHANGED mbVars => MbTypeOK'
         /\ UNCHANGED chVars => ChTypeOK'
         /\ UNCHANGED thrVars => ThrTypeOK'
         /\ UNCHANGED isrVars => IsrTypeOK'
         /\ UNCHANGED fwVars => FwTypeOK'
<1> USE DEF TypeOK
<1>1. UNCHANGED fsmVars => FsmTypeOK'
  BY DEF fsmVars, FsmTypeOK
<1>2. UNCHANGED mbVars => MbTypeOK'
  BY DEF mbVars, MbTypeOK
<1>3. UNCHANGED chVars => ChTypeOK'
  BY DEF chVars, ChTypeOK
<1>4. UNCHANGED thrVars => ThrTypeOK'
  BY DEF thrVars, ThrTypeOK
<1>5. UNCHANGED isrVars => IsrTypeOK'
  BY DEF isrVars, IsrTypeOK
<1>6. UNCHANGED fwVars => FwTypeOK'
  BY DEF fwVars, FwTypeOK
<1> QED
  BY <1>1, <1>2, <1>3, <1>4, <1>5, <1>6

(* The typing of a step by its groups of variables. *)
LEMMA Together ==
  ASSUME FsmTypeOK', (boot_status \subseteq StatusFlags)', MbTypeOK', ChTypeOK',
         ThrTypeOK', IsrTypeOK', FwTypeOK', SeqPlace'
  PROVE  TInv'
  BY DEF TInv, TypeOK

(* Thread t goes to label l and changes nothing else of the threads. *)
LEMMA ThreadMoves ==
  ASSUME TInv, NEW t \in Threads, NEW l \in PcLabels, Goto(t, l),
         UNCHANGED <<prev, resp, bci, asi, work>>,
         t \in Workers => PlaceOf(l, asi[t])
  PROVE  ThrTypeOK' /\ SeqPlace'
<1>1. SeqPlace' /\ pc' \in [Threads -> PcLabels]
  BY MovePlace DEF Goto
<1> QED
  BY <1>1 DEF TInv, TypeOK, ThrTypeOK

(* A post moves thread t to one of two labels and records its state. *)
LEMMA ThreadPosts ==
  ASSUME TInv, NEW t \in Threads, NEW e \in Events, NEW yes \in PcLabels, NEW no \in PcLabels,
         Post(t, e, yes, no), UNCHANGED <<complete, resp, bci, asi>>, work' \subseteq Workers,
         t \in Workers => PlaceOf(yes, asi[t]) /\ PlaceOf(no, asi[t])
  PROVE  FsmTypeOK' /\ ThrTypeOK' /\ SeqPlace'
<1>1. TypeOK
  BY DEF TInv
<1>2. /\ c_state' \in States /\ requested_ipcs' \subseteq Waits
      /\ prev' \in [Threads -> States] /\ pc' \in [Threads -> PcLabels]
      /\ pc' = [pc EXCEPT ![t] = yes] \/ pc' = [pc EXCEPT ![t] = no]
  BY <1>1, PostType
<1>3. SeqPlace'
  BY <1>2, MovePlace
<1> QED
  BY <1>1, <1>2, <1>3 DEF TypeOK, FsmTypeOK, ThrTypeOK

(* The waits only write complete. *)
LEMMA ConsumeType ==
  ASSUME FsmTypeOK, NEW w \in Waits, WaitConsume(w) \/ dce_cond_wait_reset(w) \/ dce_wakeup_interruptible(w),
         UNCHANGED <<c_state, requested_ipcs>>
  PROVE  FsmTypeOK'
  BY DEF FsmTypeOK, WaitConsume, dce_cond_wait_reset, dce_wakeup_interruptible

LEMMA RestoreType ==
  ASSUME FsmTypeOK, NEW s \in States, PostRestore(s), UNCHANGED complete
  PROVE  FsmTypeOK'
  BY DEF FsmTypeOK, PostRestore

LEMMA RequestType ==
  ASSUME TInv, NEW t \in Threads, pc[t] \in RpcLabels
  PROVE  Request(t) \in Messages
<1>1. CASE t \in Workers
  <2>1. asi[t] \in 1 .. 4
    BY <1>1 DEF TInv, SeqPlace, PlaceOf
  <2>2. AdminSeq[asi[t]] \in AdminCmds
    BY <2>1, AdminSeqFacts
  <2>3. Request(t) = [src |-> t, cmd |-> AdminSeq[asi[t]]]
    BY <1>1 DEF Request, Workers
  <2> QED
    BY <2>2, <2>3 DEF Messages
<1>2. CASE t \notin Workers
  <2>1. Request(t).cmd \in {"PREPARE_SC7", "ECHO"} /\ Request(t) = [src |-> t, cmd |-> Request(t).cmd]
    BY <1>2 DEF Request
  <2> QED
    BY <2>1 DEF Messages, AdminCmds
<1> QED
  BY <1>1, <1>2

(* The steps of an RPC. *)
LEMMA RpcTyped ==
  ASSUME TInv, NEW t \in Threads, RpcStep(t) \/ RpcInterrupt(t)
  PROVE  TInv'
<1> TypeOK /\ (t \in Workers => PlaceOf(pc[t], asi[t]))
  BY DEF TInv, SeqPlace
<1> USE Frame, Together DEF PcLabels, PlaceOf, RpcLabels, BootLabels
<1>1. CASE RpcPost(t)
  <2>1. /\ pc[t] = "rpc_post" /\ Post(t, "ADMIN_IPC_MSG_REQUESTED", "rpc_send", "rpc_err")
        /\ UNCHANGED <<complete, resp, bci, asi>> /\ work' \subseteq Workers
    BY <1>1 DEF RpcPost, TypeOK, ThrTypeOK
  <2>2. t \in Workers => PlaceOf("rpc_send", asi[t]) /\ PlaceOf("rpc_err", asi[t])
    BY <2>1
  <2>3. "ADMIN_IPC_MSG_REQUESTED" \in Events /\ "rpc_send" \in PcLabels /\ "rpc_err" \in PcLabels
    BY DEF Events
  <2>4. FsmTypeOK' /\ ThrTypeOK' /\ SeqPlace'
    BY <2>1, <2>2, <2>3, ThreadPosts
  <2> QED
    BY <1>1, <2>4 DEF RpcPost
<1>2. CASE RpcSend(t)
  <2>1. pc[t] = "rpc_send" /\ (Goto(t, "rpc_wait") \/ Goto(t, "rpc_fail"))
    BY <1>2 DEF CanSend, RpcSend
  <2>2. ThrTypeOK' /\ SeqPlace'
    BY <1>2, <2>1, ThreadMoves DEF CanSend, RpcSend
  <2>3. Request(t) \in Messages
    BY <2>1, RequestType
  <2>4. ChTypeOK'
    <3>1. CASE UNCHANGED tx
      BY <1>2, <3>1 DEF CanSend, RpcSend, TypeOK, ChTypeOK
    <3>2. CASE tx' = Append(tx, Request(t)) /\ Len(tx) < NFrames
      BY <1>2, <2>3, <3>2, AppendProperties, BootAssumption
         DEF CanSend, RpcSend, TypeOK, ChTypeOK, BootAssumption
    <3> QED
      BY <1>2, <3>1, <3>2 DEF CanSend, RpcSend
  <2> QED
    BY <1>2, <2>2, <2>4 DEF CanSend, RpcSend
<1>3. CASE RpcWait(t)
  <2>1. ThrTypeOK' /\ SeqPlace'
    BY <1>3, ThreadMoves DEF RpcWait
  <2> QED
    BY <1>3, <2>1 DEF RpcWait
<1>4. CASE RpcInterrupt(t)
  <2>1. ThrTypeOK' /\ SeqPlace'
    BY <1>4, ThreadMoves DEF RpcInterrupt
  <2> QED
    BY <1>4, <2>1 DEF RpcInterrupt
<1>5. CASE RpcConsume(t)
  <2>1. ThrTypeOK' /\ SeqPlace'
    BY <1>5, ThreadMoves DEF RpcConsume
  <2>2. FsmTypeOK'
    BY <1>5, ConsumeType DEF RpcConsume, TypeOK, FsmTypeOK, Waits
  <2> QED
    BY <1>5, <2>1, <2>2 DEF RpcConsume
<1>6. CASE RpcRead(t)
  <2>1. pc[t] = "rpc_read" /\ (Goto(t, "rpc_ok") \/ Goto(t, "rpc_fail"))
    BY <1>6 DEF RpcRead
  <2>2. SeqPlace' /\ pc' \in [Threads -> PcLabels]
    BY <1>6, <2>1, MovePlace DEF RpcRead, Goto
  <2>3. rx # <<>> => Head(rx) \in Replies /\ Tail(rx) \in Seq(Replies) /\ Len(Tail(rx)) = Len(rx) - 1
    BY HeadTailProperties DEF TypeOK, ChTypeOK
  <2>4. resp' \in [Threads -> Replies]
    BY <1>6, <2>3 DEF RpcRead, TypeOK, ThrTypeOK
  <2>5. rx' \in Seq(Replies) /\ Len(rx') <= NFrames
    <3>1. rx' = rx \/ (rx # <<>> /\ rx' = Tail(rx))
      BY <1>6 DEF RpcRead
    <3>2. rx \in Seq(Replies) /\ Len(rx) <= NFrames /\ Len(rx) \in Nat /\ NFrames \in Nat
      BY LenProperties, BootAssumption DEF TypeOK, ChTypeOK, BootAssumption
    <3> QED
      BY <2>3, <3>1, <3>2
  <2>6. ChTypeOK'
    BY <1>6, <2>5 DEF RpcRead, TypeOK, ChTypeOK
  <2>7. ThrTypeOK'
    BY <1>6, <2>2, <2>4 DEF RpcRead, TypeOK, ThrTypeOK
  <2> QED
    BY <1>6, <2>2, <2>6, <2>7 DEF RpcRead
<1>7. CASE RpcFail(t)
  <2>1. ThrTypeOK' /\ SeqPlace'
    BY <1>7, ThreadMoves DEF RpcFail
  <2>2. FsmTypeOK'
    BY <1>7, RestoreType DEF RpcFail, TypeOK, ThrTypeOK
  <2> QED
    BY <1>7, <2>1, <2>2 DEF RpcFail
<1> QED
  BY <1>1, <1>2, <1>3, <1>4, <1>5, <1>6, <1>7 DEF RpcStep

(* The boot workers up to the last boot command. *)
LEMMA BootTyped ==
  ASSUME TInv, NEW w \in Workers,
         \/ WorkStart(w) \/ BootCompletePost(w) \/ BootCompleteCheck(w)
         \/ BootCompleteNested(w) \/ BootCompleteNestedWake(w) \/ BootCompleteReset(w)
         \/ BootCompleteRequest(w) \/ BootCompleteWait(w) \/ BootCompleteDone(w)
  PROVE  TInv'
<1> TypeOK /\ PlaceOf(pc[w], asi[w]) /\ w \in Threads
  BY DEF TInv, SeqPlace, Threads
<1>0. ASSUME Post(w, "FSM_START", "bc_post", "idle")
      PROVE  /\ c_state' \in States /\ requested_ipcs' \subseteq Waits /\ prev' \in [Threads -> States]
             /\ pc' = [pc EXCEPT ![w] = "bc_post"] \/ pc' = [pc EXCEPT ![w] = "idle"]
  <2>1. "FSM_START" \in Events /\ "bc_post" \in PcLabels /\ "idle" \in PcLabels
    BY DEF Events, PcLabels
  <2> QED
    BY <1>0, <2>1, PostType
<1> USE Frame, Together DEF PcLabels, PlaceOf, RpcLabels, BootLabels
<1>1. CASE WorkStart(w)
  <2>1. /\ bci' = [bci EXCEPT ![w] = 1] /\ asi' = [asi EXCEPT ![w] = 0] /\ work' \subseteq Workers
        /\ UNCHANGED <<complete, resp>>
    BY <1>1 DEF WorkStart, TypeOK, ThrTypeOK
  <2>3. /\ c_state' \in States /\ requested_ipcs' \subseteq Waits /\ prev' \in [Threads -> States]
        /\ pc' = [pc EXCEPT ![w] = "bc_post"] \/ pc' = [pc EXCEPT ![w] = "idle"]
    <3>1. CASE Post(w, "FSM_START", "bc_post", "idle")
      BY <3>1, <1>0
    <3>2. CASE Goto(w, "bc_post") /\ UNCHANGED <<c_state, requested_ipcs, prev>>
      BY <3>2 DEF Goto, TypeOK, FsmTypeOK, ThrTypeOK
    <3> QED
      BY <1>1, <3>1, <3>2 DEF WorkStart
  <2>4. FsmTypeOK'
    BY <2>1, <2>3 DEF TypeOK, FsmTypeOK
  <2>5. bci' \in [Workers -> 1 .. NumBootCmds] /\ asi' \in [Workers -> 0 .. Len(AdminSeq)]
    BY <2>1, NumBootCmdsFact, AdminSeqFacts DEF TypeOK, ThrTypeOK
  <2>6. ThrTypeOK'
    BY <2>1, <2>3, <2>5 DEF TypeOK, ThrTypeOK
  <2>7. SeqPlace'
    BY <2>1, <2>3 DEF TInv, SeqPlace, TypeOK, ThrTypeOK, Threads
  <2> QED
    BY <1>1, <2>4, <2>6, <2>7 DEF WorkStart
<1>2. CASE BootCompletePost(w)
  <2>1. /\ pc[w] = "bc_post" /\ Post(w, "BOOT_COMPLETE_REQUESTED", "bc_check", "idle")
        /\ UNCHANGED <<complete, resp, bci, asi>> /\ work' \subseteq Workers
    BY <1>2 DEF BootCompletePost, TypeOK, ThrTypeOK
  <2>2. "BOOT_COMPLETE_REQUESTED" \in Events /\ "bc_check" \in PcLabels /\ "idle" \in PcLabels
    BY DEF Events
  <2>3. PlaceOf("bc_check", asi[w]) /\ PlaceOf("idle", asi[w])
    BY <2>1
  <2>4. FsmTypeOK' /\ ThrTypeOK' /\ SeqPlace'
    BY <2>1, <2>2, <2>3, ThreadPosts
  <2> QED
    BY <1>2, <2>4 DEF BootCompletePost
<1>3. CASE BootCompleteCheck(w)
  <2>1. ThrTypeOK' /\ SeqPlace'
    BY <1>3, ThreadMoves DEF BootCompleteCheck
  <2>2. (boot_status \subseteq StatusFlags)'
    BY <1>3 DEF BootCompleteCheck, SetStatus, StatusFlags, TypeOK
  <2> QED
    BY <1>3, <2>1, <2>2 DEF BootCompleteCheck
<1>4. CASE BootCompleteNested(w)
  <2>1. ThrTypeOK' /\ SeqPlace'
    BY <1>4, ThreadMoves DEF BootCompleteNested
  <2>2. "BOOT_COMPLETE_RECEIVED" \in Events /\ "BOOT_COMPLETE" \in Waits
    BY DEF Events, AnswerEvents, Waits
  <2>3. FsmTypeOK'
    <3>1. CASE dce_fsm_set_state("BOOT_COMPLETE_RECEIVED") /\ UNCHANGED complete
      BY <3>1, <2>2, SetStateType DEF TypeOK, FsmTypeOK
    <3>2. CASE dce_cond_wait_reset("BOOT_COMPLETE") /\ PostRestore(prev[w])
      BY <3>2, <2>2 DEF TypeOK, FsmTypeOK, ThrTypeOK, dce_cond_wait_reset, PostRestore
    <3> QED
      BY <1>4, <3>1, <3>2 DEF BootCompleteNested
  <2>4. (boot_status \subseteq StatusFlags)'
    BY <1>4 DEF BootCompleteNested, SetStatus, StatusFlags, TypeOK
  <2> QED
    BY <1>4, <2>1, <2>3, <2>4 DEF BootCompleteNested
<1>5. CASE BootCompleteNestedWake(w)
  <2>1. ThrTypeOK' /\ SeqPlace'
    BY <1>5, ThreadMoves DEF BootCompleteNestedWake
  <2>2. FsmTypeOK'
    BY <1>5, ConsumeType DEF BootCompleteNestedWake, TypeOK, Waits
  <2> QED
    BY <1>5, <2>1, <2>2 DEF BootCompleteNestedWake
<1>6. CASE BootCompleteReset(w)
  <2>1. ThrTypeOK' /\ SeqPlace'
    BY <1>6, ThreadMoves DEF BootCompleteReset
  <2>2. FsmTypeOK'
    BY <1>6, ConsumeType DEF BootCompleteReset, TypeOK, Waits
  <2> QED
    BY <1>6, <2>1, <2>2 DEF BootCompleteReset
<1>7. CASE BootCompleteRequest(w)
  <2>1. ThrTypeOK' /\ SeqPlace'
    BY <1>7, ThreadMoves DEF BootCompleteRequest
  <2>2. FwTypeOK'
    BY <1>7 DEF BootCompleteRequest, FwTypeOK, TypeOK
  <2> QED
    BY <1>7, <2>1, <2>2 DEF BootCompleteRequest
<1>8. CASE BootCompleteWait(w)
  <2>1. ThrTypeOK' /\ SeqPlace'
    BY <1>8, ThreadMoves DEF BootCompleteWait
  <2>2. FsmTypeOK'
    BY <1>8, ConsumeType DEF BootCompleteWait, TypeOK, Waits
  <2> QED
    BY <1>8, <2>1, <2>2 DEF BootCompleteWait
<1>9. CASE BootCompleteDone(w)
  <2>1. ThrTypeOK' /\ SeqPlace'
    BY <1>9, ThreadMoves DEF BootCompleteDone
  <2>2. (boot_status \subseteq StatusFlags)'
    BY <1>9 DEF BootCompleteDone, SetStatus, StatusFlags, TypeOK
  <2> QED
    BY <1>9, <2>1, <2>2 DEF BootCompleteDone
<1> QED
  BY <1>1, <1>2, <1>3, <1>4, <1>5, <1>6, <1>7, <1>8, <1>9

(* The boot commands. *)
LEMMA CmdTyped ==
  ASSUME TInv, NEW w \in Workers,
         CmdPost(w) \/ CmdSend(w) \/ CmdWait(w) \/ CmdStatus(w) \/ CmdFail(w) \/ BootFail(w)
  PROVE  TInv'
<1> TypeOK /\ PlaceOf(pc[w], asi[w]) /\ w \in Threads
  BY DEF TInv, SeqPlace, Threads
<1> USE Frame, Together DEF PcLabels, PlaceOf, RpcLabels, BootLabels
<1>1. CASE CmdPost(w)
  <2>1. /\ pc[w] = "cmd_post" /\ Post(w, "BOOT_CMD_MSG_REQUESTED", "cmd_send", "boot_fail")
        /\ UNCHANGED <<complete, resp, bci, asi>> /\ work' \subseteq Workers
    BY <1>1 DEF CmdPost, TypeOK, ThrTypeOK
  <2>2. "BOOT_CMD_MSG_REQUESTED" \in Events /\ "cmd_send" \in PcLabels /\ "boot_fail" \in PcLabels
    BY DEF Events
  <2>3. PlaceOf("cmd_send", asi[w]) /\ PlaceOf("boot_fail", asi[w])
    BY <2>1
  <2>4. FsmTypeOK' /\ ThrTypeOK' /\ SeqPlace'
    BY <2>1, <2>2, <2>3, ThreadPosts
  <2> QED
    BY <1>1, <2>4 DEF CmdPost
<1>2. CASE CmdSend(w)
  <2>1. ThrTypeOK' /\ SeqPlace'
    BY <1>2, ThreadMoves DEF CmdSend
  <2>2. bci[w] \in 0 .. NumBootCmds
    BY NumBootCmdsFact DEF TypeOK, ThrTypeOK
  <2>3. NoStatus \in Statuses
    BY NumBootCmdsFact DEF NoStatus, Irq, Statuses
  <2>4. cmd_mb' \in 0 .. NumBootCmds
    BY <1>2, <2>2 DEF CmdSend, TypeOK, MbTypeOK
  <2>5. MbTypeOK'
    BY <1>2, <2>3, <2>4 DEF CmdSend, TypeOK, MbTypeOK
  <2> QED
    BY <1>2, <2>1, <2>5 DEF CmdSend
<1>3. CASE CmdWait(w)
  <2>1. ThrTypeOK' /\ SeqPlace'
    BY <1>3, ThreadMoves DEF CmdWait
  <2>2. FsmTypeOK'
    BY <1>3, ConsumeType DEF CmdWait, TypeOK, Waits
  <2> QED
    BY <1>3, <2>1, <2>2 DEF CmdWait
<1>4. CASE CmdStatus(w)
  <2>1. pc[w] = "cmd_status" /\ UNCHANGED <<prev, resp, asi, work>>
        /\ (Goto(w, "cmd_fail") \/ Goto(w, "cmd_post") \/ Goto(w, "ch_reset"))
    BY <1>4 DEF CmdStatus
  <2>2. SeqPlace' /\ pc' \in [Threads -> PcLabels]
    BY <2>1, MovePlace DEF Goto
  <2>3. bci' \in [Workers -> 1 .. NumBootCmds]
    <3>1. bci' = bci \/ (bci[w] < NumBootCmds /\ bci' = [bci EXCEPT ![w] = bci[w] + 1])
      BY <1>4 DEF CmdStatus
    <3>2. bci \in [Workers -> 1 .. NumBootCmds]
      BY DEF TypeOK, ThrTypeOK
    <3> QED
      BY <3>1, <3>2, NumBootCmdsFact
  <2>4. ThrTypeOK'
    BY <2>1, <2>2, <2>3 DEF TypeOK, ThrTypeOK
  <2>5. (boot_status \subseteq StatusFlags)'
    BY <1>4 DEF CmdStatus, SetStatus, StatusFlags, TypeOK
  <2> QED
    BY <1>4, <2>2, <2>4, <2>5 DEF CmdStatus
<1>5. CASE CmdFail(w)
  <2>1. ThrTypeOK' /\ SeqPlace'
    BY <1>5, ThreadMoves DEF CmdFail
  <2>2. FsmTypeOK'
    BY <1>5, RestoreType DEF CmdFail, TypeOK, ThrTypeOK
  <2> QED
    BY <1>5, <2>1, <2>2 DEF CmdFail
<1>6. CASE BootFail(w)
  <2>1. ThrTypeOK' /\ SeqPlace'
    BY <1>6, ThreadMoves DEF BootFail
  <2>2. (boot_status \subseteq StatusFlags)'
    BY <1>6 DEF BootFail, SetStatus, StatusFlags, TypeOK
  <2> QED
    BY <1>6, <2>1, <2>2 DEF BootFail
<1> QED
  BY <1>1, <1>2, <1>3, <1>4, <1>5, <1>6

(* The channel resets and the admin sequence. *)
LEMMA SeqTyped ==
  ASSUME TInv, NEW w \in Workers,
         ChannelReset(w) \/ ChannelReady(w) \/ SeqStart(w) \/ SeqReply(w)
  PROVE  TInv'
<1> TypeOK /\ PlaceOf(pc[w], asi[w]) /\ w \in Threads
  BY DEF TInv, SeqPlace, Threads
<1> USE Frame, Together DEF PcLabels, PlaceOf, RpcLabels, BootLabels
<1>1. CASE ChannelReset(w)
  <2>1. ThrTypeOK' /\ SeqPlace'
    BY <1>1, ThreadMoves DEF ChannelReset
  <2>2. ChTypeOK'
    BY <1>1 DEF ChannelReset, ChTypeOK, TypeOK
  <2> QED
    BY <1>1, <2>1, <2>2 DEF ChannelReset
<1>2. CASE ChannelReady(w)
  <2>1. /\ pc[w] = "ch_ready" /\ UNCHANGED <<prev, resp, bci, work>>
        /\ asi' = [asi EXCEPT ![w] = asi[w] + 1]
        /\ pc' = [pc EXCEPT ![w] = IF asi[w] = 0 THEN "seq_alloc" ELSE "rpc_post"]
    BY <1>2 DEF ChannelReady, Goto
  <2>2. asi[w] \in {0, 2, 3}
    BY <2>1
  <2>3. asi' \in [Workers -> 0 .. Len(AdminSeq)]
    BY <2>1, <2>2, AdminSeqFacts DEF TypeOK, ThrTypeOK
  <2>4. pc' \in [Threads -> PcLabels]
    BY <2>1 DEF TypeOK, ThrTypeOK
  <2>5. ThrTypeOK'
    BY <2>1, <2>3, <2>4 DEF TypeOK, ThrTypeOK
  <2>6. PlaceOf(pc'[w], asi'[w])
    BY <2>1, <2>2 DEF TypeOK, ThrTypeOK
  <2>7. \A v \in Workers : v # w => pc'[v] = pc[v] /\ asi'[v] = asi[v]
    BY <2>1 DEF TypeOK, ThrTypeOK, Threads
  <2>8. SeqPlace'
    BY <2>6, <2>7 DEF TInv, SeqPlace
  <2>9. ChTypeOK'
    BY <1>2 DEF ChannelReady, ChTypeOK, TypeOK
  <2> QED
    BY <1>2, <2>5, <2>8, <2>9 DEF ChannelReady
<1>3. CASE SeqStart(w)
  <2>1. ThrTypeOK' /\ SeqPlace'
    BY <1>3, ThreadMoves DEF SeqStart
  <2>2. (boot_status \subseteq StatusFlags)'
    BY <1>3 DEF SeqStart, SetStatus, StatusFlags, TypeOK
  <2> QED
    BY <1>3, <2>1, <2>2 DEF SeqStart
<1>4. CASE SeqReply(w)
  <2>1. asi[w] \in 1 .. 4 /\ UNCHANGED <<prev, bci, work>>
    BY <1>4 DEF SeqReply
  <2>2. NoReply \in Replies
    BY DEF NoReply, Replies, Threads, AdminCmds
  <2>3. resp' \in [Threads -> Replies]
    BY <1>4, <2>2 DEF SeqReply, TypeOK, ThrTypeOK
  <2>4. \/ UNCHANGED asi /\ Goto(w, "idle")
        \/ /\ AdminSeq[asi[w]] = "VERSION"
           /\ asi' = [asi EXCEPT ![w] = asi[w] + 1] /\ Goto(w, "rpc_post")
        \/ asi' = [asi EXCEPT ![w] = Len(AdminSeq)] /\ Goto(w, "rpc_post")
        \/ /\ AdminSeq[asi[w]] \in {"IPC_CREATE_RM", "IPC_CREATE_RM_NOTIFY"}
           /\ UNCHANGED asi /\ Goto(w, "ch_reset")
    BY <1>4 DEF SeqReply
  <2>5. /\ AdminSeq[asi[w]] = "VERSION" => asi[w] = 1
        /\ AdminSeq[asi[w]] \in {"IPC_CREATE_RM", "IPC_CREATE_RM_NOTIFY"} => asi[w] \in {2, 3}
    <3>1. asi[w] = 1 \/ asi[w] = 2 \/ asi[w] = 3 \/ asi[w] = 4
      BY <2>1
    <3> QED
      BY <3>1, AdminSeqFacts
  <2>6. asi' \in [Workers -> 0 .. Len(AdminSeq)] /\ pc' \in [Threads -> PcLabels]
    BY <2>4, <2>5, AdminSeqFacts DEF Goto, TypeOK, ThrTypeOK
  <2>7. ThrTypeOK'
    BY <2>1, <2>3, <2>6 DEF TypeOK, ThrTypeOK
  <2>8. PlaceOf(pc'[w], asi'[w])
    BY <2>4, <2>5, AdminSeqFacts DEF Goto, TypeOK, ThrTypeOK
  <2>9. \A v \in Workers : v # w => pc'[v] = pc[v] /\ asi'[v] = asi[v]
    BY <2>4 DEF Goto, TypeOK, ThrTypeOK, Threads
  <2>10. SeqPlace'
    BY <2>8, <2>9 DEF TInv, SeqPlace
  <2>11. (boot_status \subseteq StatusFlags)'
    BY <1>4 DEF SeqReply, SetStatus, StatusFlags, TypeOK
  <2> QED
    BY <1>4, <2>7, <2>10, <2>11 DEF SeqReply
<1> QED
  BY <1>1, <1>2, <1>3, <1>4

(* Suspend and resume, with the power cycle between them. *)
LEMMA PmTyped ==
  ASSUME TInv, PmSuspend \/ PmStep \/ PmEnterAllocFail \/ PmEnterInterrupt
  PROVE  TInv'
<1> TypeOK /\ "pm" \in Threads /\ "pm" \notin Workers
  BY DEF TInv, Threads, Workers
<1>0. ASSUME NEW e \in {"SC7_ENTER_REQUESTED", "SC7_EXIT_RECEIVED"}, NEW yes \in {"sc7_send", "idle"},
             Post("pm", e, yes, "idle"), UNCHANGED <<complete, resp, bci, asi>>, work' \subseteq Workers
      PROVE  FsmTypeOK' /\ ThrTypeOK' /\ SeqPlace'
  <2>1. e \in Events /\ yes \in PcLabels /\ "idle" \in PcLabels
    BY DEF Events, PcLabels
  <2> QED
    BY <1>0, <2>1, ThreadPosts
<1> USE Frame, Together DEF PcLabels
<1>1. CASE PmSuspend
  <2>1. ThrTypeOK' /\ SeqPlace'
    BY <1>1, ThreadMoves DEF PmSuspend
  <2>2. MbTypeOK'
    BY <1>1 DEF PmSuspend, MbTypeOK, TypeOK
  <2> QED
    BY <1>1, <2>1, <2>2 DEF PmSuspend
<1>2. CASE PmPrepared
  <2>1. SeqPlace' /\ pc' \in [Threads -> PcLabels]
    BY <1>2, MovePlace DEF PmPrepared, Goto
  <2>2. NoReply \in Replies
    BY DEF NoReply, Replies, Threads, AdminCmds
  <2>3. ThrTypeOK'
    BY <1>2, <2>1, <2>2 DEF PmPrepared, TypeOK, ThrTypeOK
  <2> QED
    BY <1>2, <2>1, <2>3 DEF PmPrepared
<1>3. CASE PmEnterPost
  <2>1. FsmTypeOK' /\ ThrTypeOK' /\ SeqPlace'
    BY <1>3, <1>0 DEF PmEnterPost, TypeOK, ThrTypeOK
  <2> QED
    BY <1>3, <2>1 DEF PmEnterPost
<1>4. CASE PmEnterSend
  <2>1. ThrTypeOK' /\ SeqPlace'
    BY <1>4, ThreadMoves DEF CanSend, PmEnterSend
  <2>2. [src |-> "pm", cmd |-> "ENTER_SC7"] \in Messages
    BY DEF Messages, AdminCmds
  <2>3. ChTypeOK'
    <3>1. CASE UNCHANGED tx
      BY <1>4, <3>1 DEF CanSend, PmEnterSend, TypeOK, ChTypeOK
    <3>2. CASE tx' = Append(tx, [src |-> "pm", cmd |-> "ENTER_SC7"]) /\ Len(tx) < NFrames
      BY <1>4, <2>2, <3>2, AppendProperties, BootAssumption
         DEF CanSend, PmEnterSend, TypeOK, ChTypeOK, BootAssumption
    <3> QED
      BY <1>4, <3>1, <3>2 DEF CanSend, PmEnterSend
  <2> QED
    BY <1>4, <2>1, <2>3 DEF CanSend, PmEnterSend
<1>5. CASE PmEnterAllocFail
  <2>1. ThrTypeOK' /\ SeqPlace'
    BY <1>5, ThreadMoves DEF PmEnterAllocFail
  <2> QED
    BY <1>5, <2>1 DEF PmEnterAllocFail
<1>6. CASE PmEnterWait
  <2>1. ThrTypeOK' /\ SeqPlace'
    BY <1>6, ThreadMoves DEF PmEnterWait
  <2>2. FsmTypeOK'
    BY <1>6, ConsumeType DEF PmEnterWait, TypeOK, Waits
  <2> QED
    BY <1>6, <2>1, <2>2 DEF PmEnterWait
<1>7. CASE PmEnterInterrupt
  <2>1. ThrTypeOK' /\ SeqPlace'
    BY <1>7, ThreadMoves DEF PmEnterInterrupt
  <2> QED
    BY <1>7, <2>1 DEF PmEnterInterrupt
<1>8. CASE PmEnterDone
  <2>1. ThrTypeOK' /\ SeqPlace'
    BY <1>8, ThreadMoves DEF PmEnterDone
  <2>2. (boot_status \subseteq StatusFlags)'
    BY <1>8 DEF PmEnterDone, SetStatus, StatusFlags, TypeOK
  <2> QED
    BY <1>8, <2>1, <2>2 DEF PmEnterDone
<1>9. CASE PmEnterFail
  <2>1. ThrTypeOK' /\ SeqPlace'
    BY <1>9, ThreadMoves DEF PmEnterFail
  <2>2. FsmTypeOK'
    BY <1>9, RestoreType DEF PmEnterFail, TypeOK, ThrTypeOK
  <2> QED
    BY <1>9, <2>1, <2>2 DEF PmEnterFail
<1>10. CASE PowerCycle
  <2>1. ThrTypeOK' /\ SeqPlace'
    BY <1>10, ThreadMoves DEF PowerCycle
  <2>2. NoStatus \in Statuses /\ 0 \in 0 .. NumBootCmds
    BY NumBootCmdsFact DEF NoStatus, Irq, Statuses
  <2>3. MbTypeOK'
    BY <1>10, <2>2 DEF PowerCycle, MbTypeOK, TypeOK
  <2>4. FwTypeOK'
    BY <1>10, <2>2, EmptySeq DEF PowerCycle, FwTypeOK
  <2> QED
    BY <1>10, <2>1, <2>3, <2>4 DEF PowerCycle
<1>11. CASE PmResume
  <2>1. work' \subseteq Workers
    BY <1>11 DEF PmResume, TypeOK, ThrTypeOK, Workers
  <2>2. FsmTypeOK' /\ ThrTypeOK' /\ SeqPlace'
    BY <1>11, <1>0, <2>1 DEF PmResume
  <2>3. MbTypeOK'
    BY <1>11 DEF PmResume, MbTypeOK, TypeOK
  <2> QED
    BY <1>11, <2>2, <2>3 DEF PmResume
<1> QED
  BY <1>1, <1>2, <1>3, <1>4, <1>5, <1>6, <1>7, <1>8, <1>9, <1>10, <1>11 DEF PmStep

LEMMA UserTyped ==
  ASSUME TInv, NEW u \in Users, UserCall(u) \/ UserReturn(u)
  PROVE  TInv'
<1> TypeOK /\ u \in Threads /\ u \notin Workers
  BY BootAssumption DEF BootAssumption, TInv, Threads
<1> USE Frame, Together DEF PcLabels
<1>1. CASE UserCall(u)
  <2>1. ThrTypeOK' /\ SeqPlace'
    BY <1>1, ThreadMoves DEF UserCall
  <2> QED
    BY <1>1, <2>1 DEF UserCall
<1>2. CASE UserReturn(u)
  <2>1. SeqPlace' /\ pc' \in [Threads -> PcLabels]
    BY <1>2, MovePlace DEF UserReturn, Goto
  <2>2. NoReply \in Replies
    BY DEF NoReply, Replies, Threads, AdminCmds
  <2>3. ThrTypeOK'
    BY <1>2, <2>1, <2>2 DEF UserReturn, TypeOK, ThrTypeOK
  <2> QED
    BY <1>2, <2>1, <2>3 DEF UserReturn
<1> QED
  BY <1>1, <1>2

(* The interrupt handler. *)
LEMMA IsrTyped ==
  ASSUME TInv, IsrStep
  PROVE  TInv'
<1> TypeOK /\ SeqPlace
  BY DEF TInv
<1>0. UNCHANGED thrVars => SeqPlace'
  BY DEF thrVars, SeqPlace
<1> USE Frame, Together, <1>0
<1>1. CASE IsrEnter
  BY <1>1 DEF IsrEnter, IsrTypeOK, IsrLabels, TypeOK
<1>2. CASE IsrBootRead
  <2>1. IsrTypeOK'
    BY <1>2 DEF IsrBootRead, IsrTypeOK, IsrLabels, TypeOK
  <2>2. NoStatus \in Statuses
    BY NumBootCmdsFact DEF NoStatus, Irq, Statuses
  <2>3. MbTypeOK'
    BY <1>2, <2>2 DEF IsrBootRead, MbTypeOK, TypeOK
  <2> QED
    BY <1>2, <2>1, <2>3 DEF IsrBootRead
<1>3. CASE IsrBootPost
  <2>1. WakesFor(ack.kind) \subseteq Waits /\ AfterBoot \in IsrLabels
    BY DEF WakesFor, Waits, AfterBoot, IsrLabels
  <2>2. IsrTypeOK'
    BY <1>3, <2>1 DEF IsrBootPost, IsrTypeOK, IsrLabels, TypeOK
  <2>3. EventFor(ack.kind) \in Events
    BY DEF EventFor, Events, AnswerEvents, AbortEvents
  <2>4. FsmTypeOK'
    <3>1. CASE UNCHANGED <<c_state, requested_ipcs>>
      BY <1>3, <3>1 DEF IsrBootPost, TypeOK, FsmTypeOK
    <3>2. CASE dce_fsm_set_state(EventFor(ack.kind))
      BY <1>3, <2>3, <3>2, SetStateType DEF IsrBootPost, TypeOK, FsmTypeOK
    <3> QED
      BY <1>3, <3>1, <3>2 DEF IsrBootPost
  <2> QED
    BY <1>3, <2>2, <2>4 DEF IsrBootPost
<1>4. CASE IsrBootWake
  <2>1. FsmTypeOK'
    BY <1>4 DEF IsrBootWake, FsmTypeOK, TypeOK
  <2>2. IsrTypeOK'
    BY <1>4 DEF IsrBootWake, AfterBoot, IsrTypeOK, IsrLabels, TypeOK
  <2> QED
    BY <1>4, <2>1, <2>2 DEF IsrBootWake
<1>5. CASE IsrAdminRead
  <2>1. MbTypeOK' /\ IsrTypeOK'
    BY <1>5 DEF IsrAdminRead, MbTypeOK, IsrTypeOK, IsrLabels, TypeOK
  <2> QED
    BY <1>5, <2>1 DEF IsrAdminRead
<1>6. CASE IsrAdminPost \/ IsrAdminLate
  <2>1. "ADMIN_IPC_MSG_RECEIVED" \in Events
    BY DEF Events, AnswerEvents
  <2>2. FsmTypeOK'
    BY <1>6, <2>1, SetStateType DEF IsrAdminPost, IsrAdminLate, FsmTypeOK, TypeOK
  <2>3. IsrTypeOK'
    BY <1>6 DEF IsrAdminPost, IsrAdminLate, IsrTypeOK, IsrLabels, TypeOK
  <2> QED
    BY <1>6, <2>2, <2>3 DEF IsrAdminPost, IsrAdminLate
<1>7. CASE IsrAdminSeen
  <2>1. IsrTypeOK'
    BY <1>7 DEF IsrAdminSeen, IsrTypeOK, IsrLabels, TypeOK
  <2> QED
    BY <1>7, <2>1 DEF IsrAdminSeen
<1>8. CASE IsrAdminWake
  <2>1. FsmTypeOK'
    BY <1>8, ConsumeType DEF IsrAdminWake, TypeOK, Waits
  <2>2. IsrTypeOK'
    BY <1>8 DEF IsrAdminWake, IsrTypeOK, IsrLabels, TypeOK
  <2> QED
    BY <1>8, <2>1, <2>2 DEF IsrAdminWake
<1> QED
  BY <1>1, <1>2, <1>3, <1>4, <1>5, <1>6, <1>7, <1>8 DEF IsrStep

(* The firmware. *)
LEMMA FwTyped ==
  ASSUME TInv, FwStep \/ \E k \in FwIrqs : FwIrq(k)
  PROVE  TInv'
<1> TypeOK /\ SeqPlace
  BY DEF TInv
<1>0. UNCHANGED thrVars => SeqPlace'
  BY DEF thrVars, SeqPlace
<1>a. \A err \in {FALSE} \cup {FwErr} : err \in BOOLEAN
  BY BootAssumption DEF BootAssumption
<1> USE Frame, Together, <1>0
<1>1. CASE FwBooted
  <2>1. FwTypeOK'
    BY <1>1 DEF FwBooted, FwTypeOK, TypeOK
  <2> QED
    BY <1>1, <2>1 DEF FwBooted
<1>2. CASE FwReady
  <2>1. Irq("READY") \in Statuses
    BY NumBootCmdsFact DEF Irq, Statuses, IrqKinds
  <2>2. MbTypeOK'
    BY <1>2, <2>1 DEF FwReady, MbTypeOK, TypeOK
  <2>3. FwTypeOK'
    BY <1>2 DEF FwReady, FwTypeOK, TypeOK
  <2> QED
    BY <1>2, <2>2, <2>3 DEF FwReady
<1>3. CASE FwTakeCmd
  <2>1. cmd_mb \in 0 .. NumBootCmds /\ cmd_mb \in 1 .. NumBootCmds /\ 0 \in 0 .. NumBootCmds
    BY <1>3, NumBootCmdsFact DEF FwTakeCmd, MbTypeOK, TypeOK
  <2>2. BootCmdSeq[cmd_mb] \in {BootCmdSeq[i] : i \in 1 .. NumBootCmds}
    BY <2>1
  <2>3. Append(fw_cmds, BootCmdSeq[cmd_mb]) \in Seq({BootCmdSeq[i] : i \in 1 .. NumBootCmds})
    BY <2>2, AppendProperties DEF FwTypeOK, TypeOK
  <2>4. FwTypeOK'
    BY <1>3, <2>1, <2>3 DEF FwTakeCmd, FwTypeOK, TypeOK
  <2>5. MbTypeOK'
    BY <1>3, <2>1 DEF FwTakeCmd, MbTypeOK, TypeOK
  <2> QED
    BY <1>3, <2>4, <2>5 DEF FwTakeCmd
<1>4. CASE FwAckCmd
  <2>1. PICK err \in {FALSE} \cup {FwErr} :
           /\ irq_mb' = [kind |-> "BOOT_CMD", cmd |-> fw_cmd, err |-> err]
           /\ fw_err' = (fw_err \/ err)
           /\ fw_chans' = IF BootCmdSeq[fw_cmd] = "CHANNEL_INIT" /\ ~ err
                          THEN fw_chans \cup {"ADMIN"} ELSE fw_chans
    BY <1>4 DEF FwAckCmd
  <2>0. fw_cmd \in 0 .. NumBootCmds /\ 0 \in 0 .. NumBootCmds
    BY NumBootCmdsFact DEF FwTypeOK, TypeOK
  <2>2. irq_mb' \in Statuses /\ 0 \in 0 .. NumBootCmds
    <3>1. /\ [kind |-> "BOOT_CMD", cmd |-> fw_cmd, err |-> TRUE] \in Statuses
          /\ [kind |-> "BOOT_CMD", cmd |-> fw_cmd, err |-> FALSE] \in Statuses
      BY <2>0 DEF Statuses
    <3> QED
      BY <1>a, <2>0, <2>1, <3>1
  <2>3. fw_chans' \subseteq Channels /\ fw_err' \in BOOLEAN
    BY <1>a, <2>1 DEF FwTypeOK, TypeOK, Channels
  <2>4. MbTypeOK'
    BY <1>4, <2>2 DEF FwAckCmd, MbTypeOK, TypeOK
  <2>5. FwTypeOK'
    BY <1>4, <2>2, <2>3 DEF FwAckCmd, FwTypeOK, TypeOK
  <2> QED
    BY <1>4, <2>4, <2>5 DEF FwAckCmd
<1>5. CASE FwReply
  <2>1. PICK err \in {FALSE} \cup {FwErr} :
           /\ rx' = Append(rx, [src |-> Head(tx).src, cmd |-> Head(tx).cmd, err |-> err])
           /\ fw_chans' = IF Head(tx).cmd \in {"IPC_CREATE_RM", "IPC_CREATE_RM_NOTIFY"} /\ ~ err
                          THEN fw_chans \cup {ChannelOf(Head(tx).cmd)} ELSE fw_chans
           /\ fw_rm' = (fw_rm \/ (Head(tx).cmd = "RM_BOOTSTRAP" /\ ~ err))
    BY <1>5 DEF FwReply
  <2>2. /\ tx \in Seq(Messages) /\ tx # <<>> /\ tx' = Tail(tx) /\ ch' = ch
        /\ Len(tx) <= NFrames /\ rx \in Seq(Replies) /\ Len(rx) < NFrames /\ NFrames \in Nat
    BY <1>5, BootAssumption DEF FwReply, FwServes, ChTypeOK, TypeOK, BootAssumption
  <2>3. Head(tx) \in Messages /\ tx' \in Seq(Messages) /\ Len(tx') = Len(tx) - 1 /\ Len(tx) \in Nat
    BY <2>2, HeadTailProperties, LenProperties
  <2>4. [src |-> Head(tx).src, cmd |-> Head(tx).cmd, err |-> TRUE] \in Replies
        /\ [src |-> Head(tx).src, cmd |-> Head(tx).cmd, err |-> FALSE] \in Replies
    BY <2>3 DEF Messages, Replies
  <2>5. [src |-> Head(tx).src, cmd |-> Head(tx).cmd, err |-> err] \in Replies
    BY <1>a, <2>4
  <2>6. rx' \in Seq(Replies) /\ Len(rx') = Len(rx) + 1 /\ Len(rx) \in Nat
    BY <2>1, <2>2, <2>5, AppendProperties, LenProperties
  <2>7. Len(tx') <= NFrames /\ Len(rx') <= NFrames
    BY <2>2, <2>3, <2>6
  <2>8. ChTypeOK'
    BY <2>2, <2>3, <2>6, <2>7 DEF ChTypeOK, TypeOK
  <2>9. fw_chans' \subseteq Channels /\ fw_rm' \in BOOLEAN
    BY <1>a, <2>1 DEF FwTypeOK, TypeOK, Channels, ChannelOf
  <2>10. FwTypeOK'
    BY <1>5, <2>9 DEF FwReply, FwTypeOK, TypeOK
  <2>11. MbTypeOK'
    BY <1>5 DEF FwReply, MbTypeOK, TypeOK
  <2> QED
    BY <1>5, <2>8, <2>10, <2>11 DEF FwReply
<1>6. CASE FwEnterSC7
  <2>1. Irq("SC7_ENTERED") \in Statuses
    BY NumBootCmdsFact DEF Irq, Statuses, IrqKinds
  <2>2. tx \in Seq(Messages) /\ tx # <<>> /\ tx' = Tail(tx) /\ Len(tx) <= NFrames /\ NFrames \in Nat
    BY <1>6, BootAssumption DEF FwEnterSC7, FwServes, ChTypeOK, TypeOK, BootAssumption
  <2>3. tx' \in Seq(Messages) /\ Len(tx') = Len(tx) - 1 /\ Len(tx) \in Nat
    BY <2>2, HeadTailProperties, LenProperties
  <2>4. ChTypeOK'
    BY <1>6, <2>2, <2>3 DEF FwEnterSC7, ChTypeOK, TypeOK
  <2>5. MbTypeOK'
    BY <1>6, <2>1 DEF FwEnterSC7, MbTypeOK, TypeOK
  <2>6. FwTypeOK'
    BY <1>6 DEF FwEnterSC7, FwTypeOK, TypeOK
  <2> QED
    BY <1>6, <2>4, <2>5, <2>6 DEF FwEnterSC7
<1>7. ASSUME NEW c \in Channels, FwEstablish(c) PROVE TInv'
  <2>1. ChTypeOK'
    BY <1>7, EmptySeq, BootAssumption DEF FwEstablish, ChTypeOK, TypeOK, BootAssumption
  <2>2. MbTypeOK'
    BY <1>7 DEF FwEstablish, MbTypeOK, TypeOK
  <2> QED
    BY <1>7, <2>1, <2>2 DEF FwEstablish
<1>8. ASSUME NEW k \in FwIrqs, FwIrq(k) PROVE TInv'
  <2>1. Irq(k) \in Statuses
    BY NumBootCmdsFact, BootAssumption DEF Irq, Statuses, IrqKinds, BootAssumption
  <2>2. MbTypeOK'
    BY <1>8, <2>1 DEF FwIrq, MbTypeOK, TypeOK
  <2> QED
    BY <1>8, <2>2 DEF FwIrq
<1> QED
  BY <1>1, <1>2, <1>3, <1>4, <1>5, <1>6, <1>7, <1>8 DEF FwStep

LEMMA TStep == TInv /\ [Next]_vars => TInv'
<1> SUFFICES ASSUME TInv, [Next]_vars PROVE TInv'
  OBVIOUS
<1>1. CASE UNCHANGED vars
  <2>1. SeqPlace'
    BY <1>1 DEF vars, thrVars, TInv, SeqPlace
  <2> QED
    BY <1>1, <2>1, Frame, Together DEF vars, TInv
<1>2. ASSUME NEW w \in Workers, WorkerStep(w) PROVE TInv'
  BY <1>2, BootTyped, CmdTyped, SeqTyped DEF WorkerStep
<1> QED
  BY <1>1, <1>2, RpcTyped, PmTyped, UserTyped, IsrTyped, FwTyped DEF Next

(* Every variable of the boot model keeps its type; in particular no       *)
(* worker runs past the end of the boot commands or of the admin sequence, *)
(* and the admin queues never hold more than their frames.                 *)
THEOREM TypeCorrect == Spec => []TypeOK
<1>1. TInv => TypeOK
  BY DEF TInv
<1> QED
  BY <1>1, TInit, TStep, PTL DEF Spec
-----------------------------------------------------------------------------
(* The suspend.  OneSc7Report becomes inductive with the typing and with   *)
(* the handler's place: it holds a wake-up to give only at "boot_wake".    *)
HandlerHolds == isr_wait # {} => isr = "boot_wake"

SInv == TInv /\ OneSc7Report /\ HandlerHolds

LEMMA SInit == Init => SInv
<1> SUFFICES ASSUME Init PROVE SInv
  OBVIOUS
<1>1. pc["pm"] = "idle" /\ ~ complete["SC7_ENTER"]
  BY DEF Init, FsmInit, Threads, Waits
<1>2. OneSc7Report
  BY <1>1 DEF Init, OneSc7Report, Sc7InMailbox, Sc7InHandler, Sc7ToWake, Sc7Woken, Sc7Used,
              NoStatus, Irq
<1> QED
  BY <1>2, TInit DEF SInv, HandlerHolds, Init

(* A step that neither makes nor moves a report of SC7 entry. *)
LEMMA NoReport ==
  ASSUME SInv, UNCHANGED <<irq_mb, isr, isr_wait, fw>>,
         ack' = ack \/ ack' = NoStatus,
         complete'["SC7_ENTER"] => complete["SC7_ENTER"],
         Sc7Used' => Sc7Used
  PROVE  OneSc7Report' /\ HandlerHolds'
  BY DEF SInv, OneSc7Report, HandlerHolds, Sc7InMailbox, Sc7InHandler, Sc7ToWake, Sc7Woken, Sc7Used,
         NoStatus, Irq

(* A thread that goes anywhere but to the end of a suspend. *)
LEMMA MovesElsewhere ==
  ASSUME TypeOK, NEW t \in Threads, NEW l, Goto(t, l), t = "pm" => l \notin {"sc7_done", "suspended"}
  PROVE  Sc7Used' => Sc7Used
  BY DEF TypeOK, ThrTypeOK, Goto, Sc7Used, Threads

LEMMA PostsElsewhere ==
  ASSUME TypeOK, NEW t \in Threads, NEW e, NEW yes, NEW no, Post(t, e, yes, no),
         t = "pm" => {yes, no} \cap {"sc7_done", "suspended"} = {}
  PROVE  Sc7Used' => Sc7Used
<1>1. Goto(t, yes) \/ Goto(t, no)
  BY DEF Post
<1> QED
  BY <1>1, MovesElsewhere

(* The waits of the other threads leave the one for SC7 alone. *)
LEMMA OtherWait ==
  ASSUME TypeOK, NEW w \in Waits \ {"SC7_ENTER"},
         \/ WaitConsume(w) \/ dce_cond_wait_reset(w) \/ dce_wakeup_interruptible(w)
  PROVE  complete'["SC7_ENTER"] => complete["SC7_ENTER"]
  BY DEF TypeOK, FsmTypeOK, Waits, WaitConsume, dce_cond_wait_reset, dce_wakeup_interruptible

LEMMA RpcSafe ==
  ASSUME SInv, NEW t \in Threads, RpcStep(t) \/ RpcInterrupt(t)
  PROVE  OneSc7Report' /\ HandlerHolds'
<1> TypeOK /\ "ADMIN_IPC" \in Waits \ {"SC7_ENTER"}
  BY DEF SInv, TInv, Waits
<1> USE NoReport, MovesElsewhere, OtherWait DEF fsmVars, mbVars, isrVars, fwVars
<1>1. CASE RpcPost(t)
  BY <1>1, PostsElsewhere DEF RpcPost
<1>2. CASE RpcSend(t)
  BY <1>2 DEF CanSend, RpcSend
<1>3. CASE RpcWait(t)
  BY <1>3 DEF RpcWait
<1>4. CASE RpcConsume(t)
  BY <1>4 DEF RpcConsume
<1>5. CASE RpcRead(t)
  BY <1>5 DEF RpcRead
<1>6. CASE RpcFail(t)
  BY <1>6 DEF RpcFail
<1>7. CASE RpcInterrupt(t)
  BY <1>7 DEF RpcInterrupt
<1> QED
  BY <1>1, <1>2, <1>3, <1>4, <1>5, <1>6, <1>7 DEF RpcStep

LEMMA WorkerSafe ==
  ASSUME SInv, NEW w \in Workers, WorkerStep(w)
  PROVE  OneSc7Report' /\ HandlerHolds'
<1> /\ TypeOK /\ w \in Threads /\ w # "pm"
    /\ "BOOT_COMPLETE" \in Waits \ {"SC7_ENTER"} /\ "BOOT_CMD" \in Waits \ {"SC7_ENTER"}
  BY DEF SInv, TInv, Waits, Workers, Threads
<1> USE NoReport, MovesElsewhere, OtherWait DEF fsmVars, mbVars, isrVars, fwVars
<1>1. CASE WorkStart(w)
  BY <1>1, PostsElsewhere DEF WorkStart
<1>2. CASE BootCompletePost(w)
  BY <1>2, PostsElsewhere DEF BootCompletePost
<1>3. CASE BootCompleteCheck(w)
  BY <1>3 DEF BootCompleteCheck
<1>4. CASE BootCompleteNested(w)
  BY <1>4 DEF BootCompleteNested
<1>5. CASE BootCompleteNestedWake(w)
  BY <1>5 DEF BootCompleteNestedWake
<1>6. CASE BootCompleteReset(w)
  BY <1>6 DEF BootCompleteReset
<1>7. CASE BootCompleteRequest(w)
  BY <1>7 DEF BootCompleteRequest
<1>8. CASE BootCompleteWait(w)
  BY <1>8 DEF BootCompleteWait
<1>9. CASE BootCompleteDone(w)
  BY <1>9 DEF BootCompleteDone
<1>10. CASE CmdPost(w)
  BY <1>10, PostsElsewhere DEF CmdPost
<1>11. CASE CmdSend(w)
  BY <1>11 DEF CmdSend
<1>12. CASE CmdWait(w)
  BY <1>12 DEF CmdWait
<1>13. CASE CmdStatus(w)
  BY <1>13 DEF CmdStatus
<1>14. CASE CmdFail(w)
  BY <1>14 DEF CmdFail
<1>15. CASE BootFail(w)
  BY <1>15 DEF BootFail
<1>16. CASE ChannelReset(w)
  BY <1>16 DEF ChannelReset
<1>17. CASE ChannelReady(w)
  BY <1>17 DEF ChannelReady
<1>18. CASE SeqStart(w)
  BY <1>18 DEF SeqStart
<1>19. CASE SeqReply(w)
  BY <1>19 DEF SeqReply
<1> QED
  BY <1>1, <1>2, <1>3, <1>4, <1>5, <1>6, <1>7, <1>8, <1>9, <1>10, <1>11, <1>12, <1>13, <1>14,
     <1>15, <1>16, <1>17, <1>18, <1>19 DEF WorkerStep

(* Only here the assumptions on suspend are needed: an early suspend and   *)
(* a failed allocation both return success with the firmware running.      *)
LEMMA PmSafe ==
  ASSUME SInv, ~ EarlySuspend, ~ AllocFail,
         PmSuspend \/ PmStep \/ PmEnterAllocFail \/ PmEnterInterrupt
  PROVE  OneSc7Report' /\ HandlerHolds'
<1> TypeOK /\ "pm" \in Threads
  BY DEF SInv, TInv, Threads
<1> USE NoReport, MovesElsewhere DEF fsmVars, mbVars, isrVars, fwVars
<1>1. CASE PmSuspend
  BY <1>1 DEF PmSuspend
<1>2. CASE PmPrepared
  BY <1>2 DEF PmPrepared
<1>3. CASE PmEnterPost
  BY <1>3, PostsElsewhere DEF PmEnterPost
<1>4. CASE PmEnterSend
  BY <1>4 DEF CanSend, PmEnterSend
<1>5. CASE PmEnterAllocFail
  BY <1>5 DEF PmEnterAllocFail
<1>6. CASE PmEnterWait
  <2>1. complete["SC7_ENTER"] /\ ~ complete'["SC7_ENTER"] /\ pc'["pm"] = "sc7_done"
    BY <1>6 DEF PmEnterWait, WaitConsume, Goto, TypeOK, FsmTypeOK, ThrTypeOK, Waits
  <2> QED
    BY <1>6, <2>1 DEF PmEnterWait, SInv, OneSc7Report, HandlerHolds, Sc7InMailbox, Sc7InHandler,
                      Sc7ToWake, Sc7Woken, Sc7Used
<1>7. CASE PmEnterInterrupt
  BY <1>7 DEF PmEnterInterrupt
<1>8. CASE PmEnterDone
  BY <1>8 DEF PmEnterDone, Sc7Used
<1>9. CASE PmEnterFail
  BY <1>9 DEF PmEnterFail
<1>10. CASE PowerCycle
  <2>1. pc'["pm"] = "powered" /\ Sc7Used
    BY <1>10 DEF PowerCycle, Goto, TypeOK, ThrTypeOK, Sc7Used
  <2> QED
    BY <1>10, <2>1 DEF PowerCycle, SInv, OneSc7Report, HandlerHolds, Sc7InMailbox, Sc7InHandler,
                       Sc7ToWake, Sc7Woken, Sc7Used, NoStatus, Irq
<1>11. CASE PmResume
  BY <1>11, PostsElsewhere DEF PmResume
<1> QED
  BY <1>1, <1>2, <1>3, <1>4, <1>5, <1>6, <1>7, <1>8, <1>9, <1>10, <1>11 DEF PmStep

LEMMA UserSafe ==
  ASSUME SInv, NEW u \in Users, UserCall(u) \/ UserReturn(u)
  PROVE  OneSc7Report' /\ HandlerHolds'
<1> TypeOK /\ u \in Threads /\ u # "pm"
  BY BootAssumption DEF SInv, TInv, Threads, BootAssumption
<1> USE NoReport, MovesElsewhere DEF fsmVars, mbVars, isrVars, fwVars
<1>1. CASE UserCall(u)
  BY <1>1 DEF UserCall
<1>2. CASE UserReturn(u)
  BY <1>2 DEF UserReturn
<1> QED
  BY <1>1, <1>2

(* The handler carries the report from the mailbox to the waiter. *)
LEMMA IsrSafe ==
  ASSUME SInv, IsrStep
  PROVE  OneSc7Report' /\ HandlerHolds'
<1> TypeOK
  BY DEF SInv, TInv
<1> USE DEF SInv, OneSc7Report, HandlerHolds, Sc7InMailbox, Sc7InHandler, Sc7ToWake, Sc7Woken,
            Sc7Used, fsmVars, mbVars, thrVars, isrVars, fwVars, NoStatus, Irq
<1>1. CASE IsrEnter
  BY <1>1 DEF IsrEnter
<1>2. CASE IsrBootRead
  BY <1>2 DEF IsrBootRead
<1>3. CASE IsrBootPost
  BY <1>3 DEF IsrBootPost, WakesFor, AfterBoot
<1>4. CASE IsrBootWake
  <2>1. complete'["SC7_ENTER"] = (complete["SC7_ENTER"] \/ "SC7_ENTER" \in isr_wait)
    BY <1>4 DEF IsrBootWake, Waits
  <2> QED
    BY <1>4, <2>1 DEF IsrBootWake, AfterBoot
<1>5. CASE IsrAdminRead
  BY <1>5 DEF IsrAdminRead
<1>6. CASE IsrAdminPost \/ IsrAdminSeen \/ IsrAdminLate
  BY <1>6 DEF IsrAdminPost, IsrAdminSeen, IsrAdminLate
<1>7. CASE IsrAdminWake
  <2>1. complete'["SC7_ENTER"] = complete["SC7_ENTER"]
    BY <1>7 DEF IsrAdminWake, dce_wakeup_interruptible, TypeOK, FsmTypeOK, Waits
  <2> QED
    BY <1>7, <2>1 DEF IsrAdminWake
<1> QED
  BY <1>1, <1>2, <1>3, <1>4, <1>5, <1>6, <1>7 DEF IsrStep

(* The firmware makes a report once per power-up: in SC7 it serves nobody. *)
LEMMA FwSafe ==
  ASSUME SInv, FwStep \/ \E k \in FwIrqs : FwIrq(k)
  PROVE  OneSc7Report' /\ HandlerHolds'
<1> USE DEF SInv, OneSc7Report, HandlerHolds, Sc7InMailbox, Sc7InHandler, Sc7ToWake, Sc7Woken,
            Sc7Used, fsmVars, mbVars, thrVars, isrVars, fwVars, NoStatus, Irq
<1>1. CASE FwBooted
  BY <1>1 DEF FwBooted
<1>2. CASE FwReady
  BY <1>2 DEF FwReady
<1>3. CASE FwTakeCmd
  BY <1>3 DEF FwTakeCmd
<1>4. CASE FwAckCmd
  BY <1>4 DEF FwAckCmd
<1>5. CASE FwReply
  BY <1>5 DEF FwReply
<1>6. CASE FwEnterSC7
  BY <1>6 DEF FwEnterSC7, FwServes
<1>7. ASSUME NEW c \in Channels, FwEstablish(c) PROVE OneSc7Report' /\ HandlerHolds'
  BY <1>7 DEF FwEstablish
<1>8. ASSUME NEW k \in FwIrqs, FwIrq(k) PROVE OneSc7Report' /\ HandlerHolds'
  <2>1. k # "SC7_ENTERED"
    BY BootAssumption DEF BootAssumption
  <2> QED
    BY <1>8, <2>1 DEF FwIrq
<1> QED
  BY <1>1, <1>2, <1>3, <1>4, <1>5, <1>6, <1>7, <1>8 DEF FwStep

LEMMA SStep ==
  ASSUME ~ EarlySuspend, ~ AllocFail
  PROVE  SInv /\ [Next]_vars => SInv'
<1> SUFFICES ASSUME SInv, [Next]_vars PROVE SInv'
  OBVIOUS
<1>1. TInv'
  BY TStep DEF SInv
<1>2. OneSc7Report' /\ HandlerHolds'
  <2>1. CASE UNCHANGED vars
    BY <2>1, NoReport DEF vars, fsmVars, mbVars, thrVars, isrVars, fwVars, Sc7Used
  <2> QED
    BY <2>1, RpcSafe, WorkerSafe, PmSafe, UserSafe, IsrSafe, FwSafe DEF Next
<1> QED
  BY <1>1, <1>2 DEF SInv

(* As long as no suspend comes before the boot is done and no message      *)
(* allocation fails, a report of SC7 entry is used for the suspend that    *)
(* asked for it and for no other, in spite of signals, errors and stray    *)
(* interrupts (the wake flag and the handler of dce-pm.c and               *)
(* dce-bootstrap.c).                                                       *)
THEOREM ReportUsedOnce ==
  ASSUME ~ EarlySuspend, ~ AllocFail
  PROVE  Spec => []OneSc7Report
<1>1. SInv => OneSc7Report
  BY DEF SInv
<1> QED
  BY <1>1, SInit, SStep, PTL DEF Spec

(* Under the same conditions dce_pm_enter_sc7 returns 0 only when the      *)
(* firmware has saved its state.                                           *)
THEOREM SafeSuspend ==
  ASSUME ~ EarlySuspend, ~ AllocFail
  PROVE  Spec => []SuspendedIsSafe
<1>1. SInv => SuspendedIsSafe
  BY DEF SInv, OneSc7Report, Sc7Used, SuspendedIsSafe
<1> QED
  BY <1>1, SInit, SStep, PTL DEF Spec

(* Only the end of a suspend takes DCE_FW_BOOT_DONE back. *)
LEMMA OnlyPmClears ==
  ASSUME Next, BootDone, "BOOT_DONE" \notin boot_status'
  PROVE  PmEnterDone
<1> USE DEF BootDone, SetStatus
<1>1. ASSUME NEW t \in Threads, RpcStep(t) \/ RpcInterrupt(t) PROVE UNCHANGED boot_status
  BY <1>1 DEF RpcStep, RpcPost, RpcSend, RpcWait, RpcInterrupt, RpcConsume, RpcRead, RpcFail
<1>2. ASSUME NEW w \in Workers, WorkerStep(w) PROVE boot_status \subseteq boot_status'
  BY <1>2 DEF WorkerStep, WorkStart, BootCompletePost, BootCompleteCheck, BootCompleteNested,
              BootCompleteNestedWake, BootCompleteReset, BootCompleteRequest, BootCompleteWait,
              BootCompleteDone, CmdPost, CmdSend, CmdWait, CmdStatus, CmdFail, BootFail,
              ChannelReset, ChannelReady, SeqStart, SeqReply
<1>3. CASE PmSuspend \/ PmStep \/ PmEnterAllocFail \/ PmEnterInterrupt
  BY <1>3 DEF PmSuspend, PmStep, PmEnterAllocFail, PmEnterInterrupt, PmPrepared, PmEnterPost,
              PmEnterSend, PmEnterWait, PmEnterDone, PmEnterFail, PowerCycle, PmResume
<1>4. ASSUME NEW u \in Users, UserCall(u) \/ UserReturn(u) PROVE UNCHANGED boot_status
  BY <1>4 DEF UserCall, UserReturn
<1>5. CASE IsrStep
  BY <1>5 DEF IsrStep, IsrEnter, IsrBootRead, IsrBootPost, IsrBootWake, IsrAdminRead,
              IsrAdminPost, IsrAdminSeen, IsrAdminLate, IsrAdminWake
<1>6. CASE FwStep \/ \E k \in FwIrqs : FwIrq(k)
  BY <1>6 DEF FwStep, FwBooted, FwReady, FwTakeCmd, FwAckCmd, FwReply, FwEnterSC7, FwEstablish, FwIrq
<1> QED
  BY <1>1, <1>2, <1>3, <1>4, <1>5, <1>6 DEF Next

(* DCE_FW_BOOT_DONE is taken back only while the firmware is in SC7: a     *)
(* suspend that fails leaves the debugfs commands and the clients enabled  *)
(* (dce_pm_enter_sc7).                                                     *)
THEOREM BootDoneKeptUntilSc7 ==
  ASSUME ~ EarlySuspend, ~ AllocFail
  PROVE  Spec => BootDoneClearedInSc7
<1>1. SInv /\ [Next]_vars => [BootDone /\ "BOOT_DONE" \notin boot_status' => fw = "sc7"]_vars
  BY OnlyPmClears DEF SInv, OneSc7Report, Sc7Used, PmEnterDone
<1> QED
  BY <1>1, SInit, SStep, PTL DEF Spec, BootDoneClearedInSc7
=============================================================================
