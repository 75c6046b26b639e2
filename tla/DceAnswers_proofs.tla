-------------------------- MODULE DceAnswers_proofs --------------------------
(***************************************************************************)
(* More of DceBoot, for every set of users and every queue size: what the  *)
(* firmware reports is taken for what it is.  A suspend that is not broken *)
(* off by a signal leaves no ENTER_SC7 behind, so only the resume takes    *)
(* the FSM out of SC7_ENTERED; the status a worker reads is the answer to  *)
(* its command, so an error stops the boot; and a boot without errors sets *)
(* up all channels.  Then, for one user at most: nobody sleeps for an      *)
(* answer the FSM would refuse; and without signals, and with nobody       *)
(* overtaking the handler between its look at the admin channel and its    *)
(* event, every reply is to the request it is taken for, requested_ipcs    *)
(* agrees with the FSM's state, no wait starts with an old wake-up, and    *)
(* nobody sleeps for an answer that cannot come.                           *)
(***************************************************************************)
EXTENDS DceFlow_proofs

(* ENTER_SC7 is in the queue once at most, only while the suspend waits    *)
(* for it, and before the firmware has obeyed it.                          *)
OneEnter ==
    /\ \A i \in 1 .. Len(tx) : tx[i].cmd = "ENTER_SC7" => pc["pm"] = "sc7_wait" /\ fw # "sc7"
    /\ \A i \in 1 .. Len(tx), j \in 1 .. Len(tx) :
          tx[i].cmd = "ENTER_SC7" /\ tx[j].cmd = "ENTER_SC7" => i = j

(* Who is in SC7: the suspend, and after it the FSM until the resume. *)
Sc7Held ==
    /\ fw = "sc7" => pc["pm"] \in {"sc7_wait", "sc7_done", "suspended"}
    /\ c_state = "SC7_ENTERED" => fw = "sc7" \/ pc["pm"] = "powered"

(* The labels at which a callback may still fail and restore the state. *)
CallbackLabels == {"bc_check", "bc_nested", "cmd_send", "cmd_wait", "cmd_status", "cmd_fail",
                   "rpc_send", "rpc_wait", "rpc_woken", "rpc_read", "rpc_fail",
                   "sc7_send", "sc7_wait", "sc7_fail"}

SavedStates == \A t \in Threads : pc[t] \in CallbackLabels => prev[t] # "SC7_ENTERED"

Sc7Kept == OneEnter /\ Sc7Held /\ SavedStates

HInv == FInv /\ Sc7Kept

LEMMA HInit == Init => HInv
<1> SUFFICES ASSUME Init PROVE HInv
  OBVIOUS
<1>1. FInv
  BY FInit
<1>2. tx = <<>> /\ Len(tx) = 0
  BY DEF Init
<1>3. OneEnter
  BY <1>2 DEF OneEnter
<1>4. Sc7Held /\ SavedStates
  BY DEF Init, FsmInit, Sc7Held, SavedStates
<1> QED
  BY <1>1, <1>3, <1>4 DEF HInv, Sc7Kept

LEMMA HInvParts ==
  ASSUME HInv
  PROVE  /\ FInv /\ SInv /\ TypeOK /\ Alone /\ OneEnter /\ Sc7Held /\ SavedStates
         /\ "pm" \in Threads /\ Workers \subseteq Threads /\ Users \subseteq Threads
         /\ "pm" \notin Workers /\ "pm" \notin Users
  BY BootAssumption DEF HInv, Sc7Kept, FInv, SInv, TInv, Threads, Workers, BootAssumption

(* The queue changes in ways that bring no ENTER_SC7. *)
LEMMA EnterKept ==
  ASSUME TypeOK, OneEnter,
         \/ tx' = tx \/ tx' = <<>> \/ (tx # <<>> /\ tx' = Tail(tx))
         \/ \E m \in Messages : tx' = Append(tx, m) /\ m.cmd # "ENTER_SC7",
         pc["pm"] = "sc7_wait" /\ fw # "sc7" => pc'["pm"] = "sc7_wait" /\ fw' # "sc7"
  PROVE  OneEnter'
<1>1. tx \in Seq(Messages)
  BY DEF TypeOK, ChTypeOK
<1>2. CASE tx' = tx
  BY <1>2 DEF OneEnter
<1>3. CASE tx' = <<>>
  <2>1. Len(tx') = 0
    BY <1>3
  <2> QED
    BY <2>1 DEF OneEnter
<1>4. CASE tx # <<>> /\ tx' = Tail(tx)
  <2>1. Len(tx) \in Nat /\ Len(tx') = Len(tx) - 1 /\ \A i \in 1 .. Len(tx') : tx'[i] = tx[i + 1]
    BY <1>1, <1>4
  <2>2. \A i \in 1 .. Len(tx') : i + 1 \in 1 .. Len(tx)
    BY <2>1
  <2>3. \A i \in 1 .. Len(tx') : tx'[i].cmd = "ENTER_SC7" => pc'["pm"] = "sc7_wait" /\ fw' # "sc7"
    BY <2>1, <2>2 DEF OneEnter
  <2>4. ASSUME NEW i \in 1 .. Len(tx'), NEW j \in 1 .. Len(tx'),
               tx'[i].cmd = "ENTER_SC7", tx'[j].cmd = "ENTER_SC7"
        PROVE  i = j
    <3>1. i + 1 = j + 1
      BY <2>1, <2>2, <2>4 DEF OneEnter
    <3> QED
      BY <3>1, <2>1
  <2> QED
    BY <2>3, <2>4 DEF OneEnter
<1>5. CASE \E m \in Messages : tx' = Append(tx, m) /\ m.cmd # "ENTER_SC7"
  <2>1. PICK m \in Messages : tx' = Append(tx, m) /\ m.cmd # "ENTER_SC7"
    BY <1>5
  <2>2. /\ Len(tx) \in Nat /\ Len(tx') = Len(tx) + 1 /\ tx'[Len(tx) + 1] = m
        /\ \A i \in 1 .. Len(tx) : tx'[i] = tx[i]
    BY <1>1, <2>1
  <2>3. \A i \in 1 .. Len(tx') : tx'[i].cmd = "ENTER_SC7" => i \in 1 .. Len(tx) /\ tx[i].cmd = "ENTER_SC7"
    BY <2>1, <2>2
  <2> QED
    BY <2>3 DEF OneEnter
<1> QED
  BY <1>2, <1>3, <1>4, <1>5

(* A thread moves, and has nothing to do with SC7. *)
LEMMA ThreadKeeps ==
  ASSUME HInv, NEW t \in Threads, NEW l, Goto(t, l), UNCHANGED fw,
         tx' = tx \/ \E m \in Messages : tx' = Append(tx, m) /\ m.cmd # "ENTER_SC7",
         c_state' = c_state \/ c_state' # "SC7_ENTERED",
         \A s \in Threads : s # t => prev'[s] = prev[s],
         l \in CallbackLabels => prev'[t] # "SC7_ENTERED",
         t = "pm" => pc["pm"] \notin {"sc7_wait", "sc7_done", "suspended", "powered"}
  PROVE  Sc7Kept'
<1> USE HInvParts
<1>1. pc'[t] = l /\ \A s \in Threads : s # t => pc'[s] = pc[s]
  BY DEF Goto, TypeOK, ThrTypeOK
<1>2. pc["pm"] \in {"sc7_wait", "sc7_done", "suspended", "powered"} => pc'["pm"] = pc["pm"]
  BY <1>1
<1>3. OneEnter'
  BY <1>2, EnterKept
<1>4. Sc7Held'
  BY <1>2 DEF Sc7Held
<1>5. SavedStates'
  BY <1>1 DEF SavedStates
<1> QED
  BY <1>3, <1>4, <1>5 DEF Sc7Kept

(* A post neither enters nor leaves SC7, unless it is the report or the    *)
(* resume.                                                                 *)
LEMMA PostKeeps ==
  ASSUME HInv, NEW t \in Threads, NEW e \in Events \ {"SC7_ENTERED_RECEIVED", "SC7_EXIT_RECEIVED"},
         NEW yes, NEW no, Post(t, e, yes, no)
  PROVE  /\ c_state' = c_state \/ c_state' # "SC7_ENTERED"
         /\ c_state = "SC7_ENTERED" => c_state' = c_state
         /\ \A s \in Threads : s # t => prev'[s] = prev[s]
         /\ \/ Goto(t, yes) /\ prev'[t] # "SC7_ENTERED"
            \/ Goto(t, no) /\ prev' = prev
<1> USE HInvParts
<1>1. CASE dce_fsm_validate_event(c_state, e)
  <2>1. c_state # "SC7_ENTERED" /\ StateAfter(e) # "SC7_ENTERED"
    BY <1>1 DEF dce_fsm_validate_event, StateAfter
  <2>2. /\ c_state' = StateAfter(e) /\ prev' = [prev EXCEPT ![t] = c_state] /\ Goto(t, yes)
    BY <1>1 DEF Post, dce_fsm_set_state
  <2> QED
    BY <2>1, <2>2 DEF TypeOK, ThrTypeOK
<1>2. CASE ~ dce_fsm_validate_event(c_state, e)
  BY <1>2 DEF Post
<1> QED
  BY <1>1, <1>2

LEMMA RpcKeeps ==
  ASSUME HInv, NEW t \in Threads, RpcStep(t) \/ RpcInterrupt(t)
  PROVE  Sc7Kept' /\ (c_state = "SC7_ENTERED" => c_state' = c_state \/ pc[t] = "rpc_fail")
<1> USE HInvParts
<1>1. UNCHANGED fw /\ pc[t] \in RpcLabels
  BY DEF RpcStep, RpcPost, RpcSend, RpcWait, RpcInterrupt, RpcConsume, RpcRead, RpcFail, fwVars, RpcLabels
<1>2. t = "pm" => pc["pm"] \notin {"sc7_wait", "sc7_done", "suspended", "powered"}
  BY <1>1 DEF RpcLabels
<1>3. pc[t] \in CallbackLabels => prev[t] # "SC7_ENTERED"
  BY DEF SavedStates
<1>4. CASE RpcPost(t)
  <2>1. /\ Post(t, "ADMIN_IPC_MSG_REQUESTED", "rpc_send", "rpc_err") /\ tx' = tx
        /\ "ADMIN_IPC_MSG_REQUESTED" \in Events \ {"SC7_ENTERED_RECEIVED", "SC7_EXIT_RECEIVED"}
    BY <1>4 DEF RpcPost, chVars, Events
  <2>2. /\ c_state' = c_state \/ c_state' # "SC7_ENTERED"
        /\ c_state = "SC7_ENTERED" => c_state' = c_state
        /\ \A s \in Threads : s # t => prev'[s] = prev[s]
        /\ \/ Goto(t, "rpc_send") /\ prev'[t] # "SC7_ENTERED"
           \/ Goto(t, "rpc_err") /\ prev' = prev
    BY <2>1, PostKeeps
  <2> QED
    BY <1>1, <1>2, <2>1, <2>2, ThreadKeeps DEF CallbackLabels
<1>5. CASE RpcSend(t)
  <2>1. PICK l \in {"rpc_wait", "rpc_fail"} : Goto(t, l)
    BY <1>5 DEF RpcSend
  <2>2. Request(t) \in Messages
    BY <1>1, RequestType DEF SInv
  <2>3. Request(t).cmd # "ENTER_SC7"
    <3>1. CASE t \in Workers
      <4>1. Request(t).cmd = AdminSeq[asi[t]] /\ asi[t] \in 1 .. 4
        BY <1>1, <3>1 DEF Request, Workers, SInv, TInv, SeqPlace, PlaceOf
      <4>2. asi[t] = 1 \/ asi[t] = 2 \/ asi[t] = 3 \/ asi[t] = 4
        BY <4>1
      <4> QED
        BY <4>1, <4>2, AdminSeqFacts
    <3>2. CASE t \notin Workers
      BY <3>2 DEF Request
    <3> QED
      BY <3>1, <3>2
  <2>4. prev' = prev /\ c_state' = c_state /\ (tx' = tx \/ tx' = Append(tx, Request(t))) /\ pc[t] = "rpc_send"
    BY <1>5 DEF RpcSend, fsmVars
  <2> QED
    BY <1>1, <1>2, <1>3, <2>1, <2>2, <2>3, <2>4, ThreadKeeps DEF CallbackLabels
<1>6. CASE RpcWait(t) \/ RpcConsume(t) \/ RpcRead(t) \/ RpcInterrupt(t)
  <2>1. /\ pc[t] \in CallbackLabels /\ prev' = prev /\ c_state' = c_state /\ tx' = tx
        /\ \E l \in RpcLabels : Goto(t, l)
    BY <1>6 DEF RpcWait, RpcConsume, RpcRead, RpcInterrupt, CallbackLabels, RpcLabels, fsmVars, chVars
  <2> QED
    BY <1>1, <1>2, <1>3, <2>1, ThreadKeeps
<1>7. CASE RpcFail(t)
  <2>1. /\ pc[t] = "rpc_fail" /\ c_state' = prev[t] /\ prev' = prev /\ tx' = tx /\ Goto(t, "rpc_err")
    BY <1>7 DEF RpcFail, PostRestore, chVars
  <2> QED
    BY <1>1, <1>2, <1>3, <2>1, ThreadKeeps DEF CallbackLabels
<1> QED
  BY <1>4, <1>5, <1>6, <1>7 DEF RpcStep

LEMMA WorkerKeeps ==
  ASSUME HInv, NEW w \in Workers, WorkerStep(w)
  PROVE  Sc7Kept' /\ (c_state = "SC7_ENTERED" => c_state' = c_state)
<1> USE HInvParts
<1>1. w # "pm" /\ w \in Threads /\ UNCHANGED <<fw, tx>>
  BY DEF WorkerStep, WorkStart, BootCompletePost, BootCompleteCheck, BootCompleteNested,
         BootCompleteNestedWake, BootCompleteReset, BootCompleteRequest, BootCompleteWait,
         BootCompleteDone, CmdPost, CmdSend, CmdWait, CmdStatus, CmdFail, BootFail,
         ChannelReset, ChannelReady, SeqStart, SeqReply, fwVars, chVars
<1>2. c_state # "SC7_ENTERED"
  <2>1. Active(w)
    BY DEF Active, WorkerStep, WorkStart, BootCompletePost, BootCompleteCheck, BootCompleteNested,
           BootCompleteNestedWake, BootCompleteReset, BootCompleteRequest, BootCompleteWait,
           BootCompleteDone, CmdPost, CmdSend, CmdWait, CmdStatus, CmdFail, BootFail,
           ChannelReset, ChannelReady, SeqStart, SeqReply
  <2>2. pc["pm"] = "idle"
    BY <2>1 DEF Alone
  <2> QED
    BY <2>2 DEF Sc7Held
<1>3. pc[w] \in CallbackLabels => prev[w] # "SC7_ENTERED"
  BY <1>1 DEF SavedStates
<1>4. ASSUME NEW e \in {"FSM_START", "BOOT_COMPLETE_REQUESTED", "BOOT_CMD_MSG_REQUESTED"},
             NEW yes, NEW no \in {"idle", "boot_fail"}, Post(w, e, yes, no)
      PROVE  Sc7Kept'
  <2>1. e \in Events \ {"SC7_ENTERED_RECEIVED", "SC7_EXIT_RECEIVED"}
    BY DEF Events
  <2>2. /\ c_state' = c_state \/ c_state' # "SC7_ENTERED"
        /\ \A s \in Threads : s # w => prev'[s] = prev[s]
        /\ \/ Goto(w, yes) /\ prev'[w] # "SC7_ENTERED"
           \/ Goto(w, no) /\ prev' = prev
    BY <1>1, <1>4, <2>1, PostKeeps
  <2> QED
    BY <1>1, <2>2, ThreadKeeps DEF CallbackLabels
<1>5. ASSUME NEW l, Goto(w, l), prev' = prev, c_state' = c_state \/ c_state' # "SC7_ENTERED",
             l \in CallbackLabels => pc[w] \in CallbackLabels
      PROVE  Sc7Kept'
  BY <1>1, <1>3, <1>5, ThreadKeeps
<1>6. CASE WorkStart(w)
  <2>1. \/ Post(w, "FSM_START", "bc_post", "idle")
        \/ Goto(w, "bc_post") /\ UNCHANGED <<c_state, requested_ipcs, prev>>
    BY <1>6 DEF WorkStart
  <2> QED
    BY <1>2, <1>4, <1>5, <2>1 DEF CallbackLabels
<1>7. CASE BootCompletePost(w)
  BY <1>2, <1>4, <1>7 DEF BootCompletePost
<1>8. CASE BootCompleteCheck(w)
  BY <1>2, <1>5, <1>8 DEF BootCompleteCheck, CallbackLabels, fsmVars
<1>9. CASE BootCompleteNested(w)
  <2>1. /\ pc[w] = "bc_nested" /\ prev' = prev
        /\ \/ c_state' = StateAfter("BOOT_COMPLETE_RECEIVED") /\ Goto(w, "bc_nwake")
           \/ c_state' = prev[w] /\ Goto(w, "idle")
    BY <1>9 DEF BootCompleteNested, dce_fsm_set_state, PostRestore
  <2>2. StateAfter("BOOT_COMPLETE_RECEIVED") # "SC7_ENTERED"
    BY DEF StateAfter
  <2> QED
    BY <1>2, <1>3, <1>5, <2>1, <2>2 DEF CallbackLabels
<1>10. CASE BootCompleteNestedWake(w) \/ BootCompleteReset(w) \/ BootCompleteRequest(w)
            \/ BootCompleteWait(w) \/ BootCompleteDone(w)
  <2>1. prev' = prev /\ c_state' = c_state /\ \E l : Goto(w, l) /\ l \notin CallbackLabels
    BY <1>10 DEF BootCompleteNestedWake, BootCompleteReset, BootCompleteRequest,
                 BootCompleteWait, BootCompleteDone, CallbackLabels, fsmVars
  <2> QED
    BY <1>2, <1>5, <2>1
<1>11. CASE CmdPost(w)
  BY <1>2, <1>4, <1>11 DEF CmdPost
<1>12. CASE CmdSend(w) \/ CmdWait(w) \/ CmdStatus(w)
  <2>1. pc[w] \in CallbackLabels /\ prev' = prev /\ c_state' = c_state /\ \E l : Goto(w, l)
    BY <1>12 DEF CmdSend, CmdWait, CmdStatus, CallbackLabels, fsmVars
  <2> QED
    BY <1>2, <1>5, <2>1
<1>13. CASE CmdFail(w)
  <2>1. pc[w] = "cmd_fail" /\ prev' = prev /\ c_state' = prev[w] /\ Goto(w, "boot_fail")
    BY <1>13 DEF CmdFail, PostRestore
  <2> QED
    BY <1>2, <1>3, <1>5, <2>1 DEF CallbackLabels
<1>14. CASE BootFail(w) \/ ChannelReset(w) \/ ChannelReady(w) \/ SeqStart(w) \/ SeqReply(w)
  <2>1. /\ prev' = prev /\ c_state' = c_state
        /\ \E l \in {"idle", "ch_ready", "seq_alloc", "rpc_post", "ch_reset"} : Goto(w, l)
    BY <1>14 DEF BootFail, ChannelReset, ChannelReady, SeqStart, SeqReply, fsmVars
  <2> QED
    BY <1>2, <1>5, <2>1 DEF CallbackLabels
<1> QED
  BY <1>2, <1>6, <1>7, <1>8, <1>9, <1>10, <1>11, <1>12, <1>13, <1>14 DEF WorkerStep

(* The suspend, which no signal breaks off. *)
LEMMA PmKeeps ==
  ASSUME HInv, ~ EarlySuspend, ~ AllocFail, "pm" \notin Interruptible,
         PmSuspend \/ PmStep \/ PmEnterAllocFail \/ PmEnterInterrupt
  PROVE  Sc7Kept' /\ (c_state = "SC7_ENTERED" => c_state' = c_state \/ pc["pm"] = "powered")
<1> USE HInvParts
<1>1. ASSUME NEW l, Goto("pm", l)
      PROVE  pc'["pm"] = l /\ \A t \in Threads : t # "pm" => pc'[t] = pc[t]
  BY <1>1 DEF Goto, TypeOK, ThrTypeOK
<1>2. pc["pm"] \notin {"sc7_wait", "sc7_done", "suspended", "powered"} =>
        c_state # "SC7_ENTERED" /\ fw # "sc7"
  BY DEF Sc7Held
<1>3. ASSUME NEW l, Goto("pm", l), UNCHANGED <<fw, tx, prev>>,
             pc["pm"] \notin {"sc7_wait", "sc7_done", "suspended", "powered"},
             c_state' # "SC7_ENTERED", l \in CallbackLabels => pc["pm"] \in CallbackLabels
      PROVE  Sc7Kept'
  BY <1>3, ThreadKeeps DEF SavedStates
<1>4. CASE PmSuspend
  BY <1>2, <1>3, <1>4 DEF PmSuspend, fsmVars, chVars, fwVars, CallbackLabels
<1>5. CASE PmPrepared
  BY <1>2, <1>3, <1>5 DEF PmPrepared, fsmVars, chVars, fwVars, CallbackLabels
<1>6. CASE PmEnterPost
  <2>1. /\ Post("pm", "SC7_ENTER_REQUESTED", "sc7_send", "idle") /\ UNCHANGED <<tx, fw>>
        /\ pc["pm"] = "sc7_post"
        /\ "SC7_ENTER_REQUESTED" \in Events \ {"SC7_ENTERED_RECEIVED", "SC7_EXIT_RECEIVED"}
    BY <1>6 DEF PmEnterPost, chVars, fwVars, Events
  <2>2. /\ c_state' = c_state \/ c_state' # "SC7_ENTERED"
        /\ \A s \in Threads : s # "pm" => prev'[s] = prev[s]
        /\ \/ Goto("pm", "sc7_send") /\ prev'["pm"] # "SC7_ENTERED"
           \/ Goto("pm", "idle") /\ prev' = prev
    BY <2>1, PostKeeps
  <2> QED
    BY <1>2, <2>1, <2>2, ThreadKeeps DEF CallbackLabels
<1>7. CASE PmEnterSend
  <2>1. pc["pm"] = "sc7_send" /\ UNCHANGED <<fw, prev, c_state>>
    BY <1>7 DEF PmEnterSend, fsmVars, fwVars
  <2>2. CASE UNCHANGED tx /\ Goto("pm", "sc7_fail")
    BY <1>2, <1>3, <2>1, <2>2 DEF CallbackLabels
  <2>3. CASE tx' = Append(tx, [src |-> "pm", cmd |-> "ENTER_SC7"]) /\ Goto("pm", "sc7_wait")
    <3>1. \A i \in 1 .. Len(tx) : tx[i].cmd # "ENTER_SC7"
      BY <2>1 DEF OneEnter
    <3>2. tx \in Seq(Messages) /\ Len(tx) \in Nat
      BY DEF TypeOK, ChTypeOK
    <3>3. Len(tx') = Len(tx) + 1 /\ \A i \in 1 .. Len(tx) : tx'[i] = tx[i]
      BY <2>3, <3>2
    <3>4. \A i \in 1 .. Len(tx') : tx'[i].cmd = "ENTER_SC7" => i = Len(tx) + 1
      BY <3>1, <3>2, <3>3
    <3>5. pc'["pm"] = "sc7_wait" /\ fw' # "sc7"
      BY <1>1, <1>2, <2>1, <2>3
    <3>6. OneEnter'
      BY <3>4, <3>5 DEF OneEnter
    <3>7. Sc7Held'
      BY <1>2, <2>1, <3>5 DEF Sc7Held
    <3>8. SavedStates'
      BY <1>1, <2>1, <2>3 DEF SavedStates, CallbackLabels
    <3> QED
      BY <2>1, <3>6, <3>7, <3>8 DEF Sc7Kept
  <2> QED
    BY <1>2, <1>7, <2>1, <2>2, <2>3 DEF PmEnterSend
<1>8. CASE PmEnterAllocFail \/ PmEnterInterrupt
  BY <1>8 DEF PmEnterAllocFail, PmEnterInterrupt
<1>9. CASE PmEnterWait \/ PmEnterDone \/ PowerCycle
  <2>1. /\ \/ pc["pm"] = "sc7_wait" /\ complete["SC7_ENTER"] /\ Goto("pm", "sc7_done") /\ fw' = fw
           \/ pc["pm"] = "sc7_done" /\ Goto("pm", "suspended") /\ fw' = fw
           \/ pc["pm"] = "suspended" /\ Goto("pm", "powered") /\ fw' = "booting"
        /\ UNCHANGED <<c_state, tx, prev>>
    BY <1>9 DEF PmEnterWait, PmEnterDone, PowerCycle, WaitConsume, fsmVars, chVars, fwVars
  <2>2. fw = "sc7"
    BY <2>1 DEF SInv, OneSc7Report, Sc7Woken, Sc7Used
  <2>3. \A i \in 1 .. Len(tx) : tx[i].cmd # "ENTER_SC7"
    BY <2>2 DEF OneEnter
  <2>4. OneEnter'
    BY <2>1, <2>3 DEF OneEnter
  <2>5. Sc7Held'
    BY <1>1, <2>1, <2>2 DEF Sc7Held
  <2>6. SavedStates'
    BY <1>1, <2>1 DEF SavedStates, CallbackLabels
  <2> QED
    BY <2>1, <2>4, <2>5, <2>6 DEF Sc7Kept
<1>10. CASE PmEnterFail
  <2>1. /\ pc["pm"] = "sc7_fail" /\ c_state' = prev["pm"] /\ Goto("pm", "idle") /\ UNCHANGED <<fw, tx, prev>>
    BY <1>10 DEF PmEnterFail, PostRestore, chVars, fwVars
  <2>2. prev["pm"] # "SC7_ENTERED"
    BY <2>1 DEF SavedStates, CallbackLabels
  <2> QED
    BY <1>2, <1>3, <2>1, <2>2 DEF CallbackLabels
<1>11. CASE PmResume
  <2>1. /\ pc["pm"] = "powered" /\ Goto("pm", "idle") /\ UNCHANGED <<fw, tx>>
        /\ \A t \in Threads : t # "pm" => prev'[t] = prev[t]
    BY <1>11 DEF PmResume, Post, chVars, fwVars, TypeOK, ThrTypeOK
  <2>2. fw # "sc7"
    BY <2>1 DEF Sc7Held
  <2>3. c_state' # "SC7_ENTERED"
    <3>1. CASE dce_fsm_validate_event(c_state, "SC7_EXIT_RECEIVED")
      BY <1>11, <3>1 DEF PmResume, Post, dce_fsm_set_state, StateAfter, AbortEvents
    <3>2. CASE ~ dce_fsm_validate_event(c_state, "SC7_EXIT_RECEIVED")
      BY <1>11, <3>2 DEF PmResume, Post, dce_fsm_validate_event
    <3> QED
      BY <3>1, <3>2
  <2>4. OneEnter'
    BY <2>1, EnterKept
  <2>5. Sc7Held'
    BY <2>1, <2>2, <2>3 DEF Sc7Held
  <2>6. SavedStates'
    BY <1>1, <2>1 DEF SavedStates, CallbackLabels
  <2> QED
    BY <2>1, <2>4, <2>5, <2>6 DEF Sc7Kept
<1> QED
  BY <1>2, <1>4, <1>5, <1>6, <1>7, <1>8, <1>9, <1>10, <1>11 DEF PmStep, PmSuspend, PmPrepared, fsmVars

(* The users, the handler and the firmware. *)
LEMMA UserKeeps ==
  ASSUME HInv, NEW u \in Users, UserCall(u) \/ UserReturn(u)
  PROVE  Sc7Kept' /\ c_state' = c_state
<1> USE HInvParts
<1>1. /\ UNCHANGED <<fw, tx, prev, c_state>> /\ u \in Threads /\ u # "pm"
      /\ \E l \in {"rpc_post", "idle"} : Goto(u, l)
  BY DEF UserCall, UserReturn, fsmVars, chVars, fwVars
<1> QED
  BY <1>1, ThreadKeeps DEF CallbackLabels

LEMMA IsrKeeps ==
  ASSUME HInv, IsrStep
  PROVE  Sc7Kept' /\ (c_state = "SC7_ENTERED" => c_state' = c_state)
<1> USE HInvParts
<1>1. UNCHANGED <<fw, tx, pc, prev>>
  BY DEF IsrStep, IsrEnter, IsrBootRead, IsrBootPost, IsrBootWake, IsrAdminRead,
         IsrAdminPost, IsrAdminSeen, IsrAdminLate, IsrAdminWake, thrVars, chVars, fwVars
<1>2. /\ c_state' = "SC7_ENTERED" => c_state = "SC7_ENTERED" \/ fw = "sc7"
      /\ c_state = "SC7_ENTERED" => c_state' = c_state
  <2>1. CASE IsrBootPost
    <3>1. CASE UNCHANGED c_state
      BY <3>1
    <3>2. CASE /\ isr = "boot_post" /\ ack.kind # "none" /\ c_state' = StateAfter(EventFor(ack.kind))
               /\ dce_fsm_validate_event(c_state, EventFor(ack.kind))
      <4>1. c_state # "SC7_ENTERED"
        BY <3>2 DEF dce_fsm_validate_event, EventFor
      <4>2. StateAfter(EventFor(ack.kind)) = "SC7_ENTERED" => ack.kind = "SC7_ENTERED"
        BY DEF StateAfter, EventFor, AbortEvents
      <4> QED
        BY <3>2, <4>1, <4>2 DEF SInv, OneSc7Report, Sc7InHandler
    <3> QED
      BY <2>1, <3>1, <3>2 DEF IsrBootPost, dce_fsm_set_state
  <2>2. CASE IsrAdminPost \/ IsrAdminLate
    <3>1. StateAfter("ADMIN_IPC_MSG_RECEIVED") # "SC7_ENTERED"
      BY DEF StateAfter, AbortEvents
    <3> QED
      BY <2>2, <3>1 DEF IsrAdminPost, IsrAdminLate, dce_fsm_validate_event, dce_fsm_set_state
  <2>3. CASE IsrEnter \/ IsrBootRead \/ IsrBootWake \/ IsrAdminRead \/ IsrAdminSeen \/ IsrAdminWake
    BY <2>3 DEF IsrEnter, IsrBootRead, IsrBootWake, IsrAdminRead, IsrAdminSeen, IsrAdminWake, fsmVars
  <2> QED
    BY <2>1, <2>2, <2>3 DEF IsrStep
<1> QED
  BY <1>1, <1>2, EnterKept DEF Sc7Kept, Sc7Held, SavedStates

LEMMA FwKeeps ==
  ASSUME HInv, FwStep \/ \E k \in FwIrqs : FwIrq(k)
  PROVE  Sc7Kept' /\ c_state' = c_state
<1> USE HInvParts
<1>1. UNCHANGED <<pc, prev, c_state>>
  BY DEF FwStep, FwBooted, FwReady, FwTakeCmd, FwAckCmd, FwReply, FwEnterSC7, FwEstablish, FwIrq,
         fsmVars, thrVars
<1>2. CASE FwEnterSC7
  <2>1. /\ fw = "up" /\ fw' = "sc7" /\ tx # <<>> /\ tx' = Tail(tx) /\ Head(tx).cmd = "ENTER_SC7"
        /\ tx \in Seq(Messages)
    BY <1>2 DEF FwEnterSC7, FwServes, TypeOK, ChTypeOK
  <2>2. Len(tx) \in Nat \ {0} /\ tx[1].cmd = "ENTER_SC7"
    BY <2>1
  <2>3. pc["pm"] = "sc7_wait" /\ \A j \in 1 .. Len(tx) : tx[j].cmd = "ENTER_SC7" => j = 1
    BY <2>2 DEF OneEnter
  <2>4. Len(tx') = Len(tx) - 1 /\ \A i \in 1 .. Len(tx') : tx'[i] = tx[i + 1]
    BY <2>1
  <2>5. \A i \in 1 .. Len(tx') : i + 1 \in 1 .. Len(tx) /\ i + 1 # 1
    BY <2>2, <2>4
  <2>6. \A i \in 1 .. Len(tx') : tx'[i].cmd # "ENTER_SC7"
    BY <2>3, <2>4, <2>5
  <2> QED
    BY <1>1, <2>1, <2>3, <2>6 DEF Sc7Kept, OneEnter, Sc7Held, SavedStates
<1>3. CASE ~ FwEnterSC7
  <2>1. /\ tx' = tx \/ tx' = <<>> \/ (tx # <<>> /\ tx' = Tail(tx))
        /\ fw' = fw \/ (fw = "booting" /\ fw' = "up")
    BY <1>3 DEF FwStep, FwBooted, FwReady, FwTakeCmd, FwAckCmd, FwReply, FwServes, FwEstablish, FwIrq,
                chVars, fwVars
  <2> QED
    BY <1>1, <2>1, EnterKept DEF Sc7Kept, Sc7Held, SavedStates
<1> QED
  BY <1>2, <1>3

LEMMA HStep ==
  ASSUME ~ EarlySuspend, ~ AllocFail, "pm" \notin Interruptible
  PROVE  HInv /\ [Next]_vars => HInv'
<1> SUFFICES ASSUME HInv, [Next]_vars PROVE HInv'
  OBVIOUS
<1>1. FInv'
  BY FStep DEF HInv
<1>2. Sc7Kept'
  <2>1. CASE UNCHANGED vars
    BY <2>1 DEF vars, fsmVars, chVars, thrVars, fwVars, HInv, Sc7Kept, OneEnter, Sc7Held, SavedStates
  <2> QED
    BY <2>1, RpcKeeps, WorkerKeeps, PmKeeps, UserKeeps, IsrKeeps, FwKeeps DEF Next
<1> QED
  BY <1>1, <1>2 DEF HInv

(* When no signal breaks off a suspend, only the resume takes the FSM out  *)
(* of SC7_ENTERED, in spite of trace-log and abort interrupts, firmware    *)
(* errors, and any number of users: dce_fsm_validate_event rejects every   *)
(* other event, and no callback is left that could fail and restore an     *)
(* older state.                                                            *)
THEOREM Sc7LeftByResumeOnly ==
  ASSUME ~ EarlySuspend, ~ AllocFail, "pm" \notin Interruptible
  PROVE  Spec => Sc7LeftByResume
<1>1. HInv /\ [Next]_vars => [c_state = "SC7_ENTERED" /\ c_state' # c_state => pc["pm"] = "powered"]_vars
  <2> SUFFICES ASSUME HInv, Next, c_state = "SC7_ENTERED", c_state' # c_state
               PROVE  pc["pm"] = "powered"
    BY DEF vars, fsmVars
  <2>1. ASSUME NEW t \in Threads, RpcStep(t) \/ RpcInterrupt(t) PROVE FALSE
    <3>1. pc[t] = "rpc_fail" /\ pc["pm"] \in {"sc7_wait", "sc7_done", "suspended", "powered"}
      BY <2>1, RpcKeeps, HInvParts DEF Sc7Held
    <3>2. t # "pm" /\ pc[t] # "idle"
      BY <3>1
    <3> QED
      BY <3>1, <3>2, HInvParts DEF Alone, Active, Threads
  <2> QED
    BY <2>1, WorkerKeeps, PmKeeps, UserKeeps, IsrKeeps, FwKeeps DEF Next
<1> QED
  BY <1>1, HInit, HStep, PTL DEF Spec, Sc7LeftByResume
-----------------------------------------------------------------------------
(* The answers of the firmware during the boot.                            *)

(* The places the firmware's report that it is up can be in. *)
ReadyAsked == boot_int
ReadyInIrq == irq_mb.kind = "READY"
ReadyInHandler == isr = "boot_post" /\ ack.kind = "READY"
ReadyToWake == "BOOT_COMPLETE" \in isr_wait
ReadyWoken == complete["BOOT_COMPLETE"]

(* It is in one at most, and nowhere unless a worker waits for it, or has  *)
(* made it itself and takes it back.                                       *)
OneReady ==
    /\ ReadyAsked => ~ (ReadyInIrq \/ ReadyInHandler \/ ReadyToWake \/ ReadyWoken)
    /\ ReadyInIrq => ~ (ReadyInHandler \/ ReadyToWake \/ ReadyWoken)
    /\ ReadyInHandler => ~ (ReadyToWake \/ ReadyWoken)
    /\ ReadyToWake => ~ ReadyWoken
    /\ (\A w \in Workers : pc[w] # "bc_wait") =>
          ~ (ReadyAsked \/ ReadyInIrq \/ ReadyInHandler \/ ReadyToWake)
    /\ (\A w \in Workers : pc[w] \notin {"bc_wait", "bc_reset"}) => ~ ReadyWoken

RInv == HInv /\ OneReady

LEMMA RInit == Init => RInv
<1> SUFFICES ASSUME Init PROVE RInv
  OBVIOUS
<1>1. HInv
  BY HInit
<1>2. \A w \in Workers : pc[w] = "idle"
  BY DEF Init, Threads
<1>3. OneReady
  BY <1>2 DEF Init, FsmInit, OneReady, ReadyAsked, ReadyInIrq, ReadyInHandler, ReadyToWake, ReadyWoken,
              NoStatus, Irq, Waits
<1> QED
  BY <1>1, <1>3 DEF RInv

LEMMA RInvParts ==
  ASSUME RInv
  PROVE  /\ HInv /\ FInv /\ SInv /\ TypeOK /\ Alone /\ OneCmd /\ OneEnter /\ Sc7Held /\ OneReady /\ HandlerHolds
         /\ "pm" \in Threads /\ Workers \subseteq Threads /\ Users \subseteq Threads
         /\ "pm" \notin Workers /\ "pm" \notin Users /\ Workers \cap Users = {}
         /\ "BOOT_CMD" \in Waits /\ "BOOT_COMPLETE" \in Waits
  BY HInvParts, BootAssumption DEF RInv, FInv, SInv, BootAssumption, Waits, Workers

(* A thread moves and touches nothing of the report. *)
LEMMA ReadyMoves ==
  ASSUME RInv, NEW t \in Threads, NEW l, Goto(t, l),
         UNCHANGED <<irq_mb, isr_wait, boot_int>>, ReadyInHandler' => ReadyInHandler,
         complete'["BOOT_COMPLETE"] = complete["BOOT_COMPLETE"],
         t \in Workers => {pc[t], l} \cap {"bc_wait", "bc_reset"} = {}
  PROVE  OneReady'
<1> USE RInvParts
<1>1. pc'[t] = l /\ \A s \in Threads : s # t => pc'[s] = pc[s]
  BY DEF Goto, TypeOK, ThrTypeOK
<1>2. \A w \in Workers : /\ pc'[w] = "bc_wait" <=> pc[w] = "bc_wait"
                         /\ pc'[w] = "bc_reset" <=> pc[w] = "bc_reset"
  BY <1>1
<1>3. /\ ReadyAsked' <=> ReadyAsked
      /\ ReadyInIrq' <=> ReadyInIrq
      /\ ReadyToWake' <=> ReadyToWake
      /\ ReadyWoken' <=> ReadyWoken
  BY DEF ReadyAsked, ReadyInIrq, ReadyToWake, ReadyWoken
<1> QED
  BY <1>2, <1>3 DEF OneReady

LEMMA ReadyThreads ==
  ASSUME RInv, \/ \E t \in Threads : RpcStep(t) \/ RpcInterrupt(t)
               \/ \E u \in Users : UserCall(u) \/ UserReturn(u)
               \/ PmSuspend \/ PmStep \/ PmEnterAllocFail \/ PmEnterInterrupt
  PROVE  OneReady'
<1> USE RInvParts
<1>1. ASSUME NEW t \in Threads, RpcStep(t) \/ RpcInterrupt(t) PROVE OneReady'
  <2>1. /\ UNCHANGED <<irq_mb, ack, isr, isr_wait, boot_int>> /\ pc[t] \in RpcLabels
        /\ \E l \in RpcLabels : Goto(t, l)
        /\ complete' = complete \/ complete' = [complete EXCEPT !["ADMIN_IPC"] = FALSE]
    BY <1>1 DEF RpcStep, RpcPost, RpcSend, RpcWait, RpcInterrupt, RpcConsume, RpcRead, RpcFail, Post, WaitConsume,
         fsmVars, mbVars, isrVars, fwVars, RpcLabels
  <2>2. complete'["BOOT_COMPLETE"] = complete["BOOT_COMPLETE"] /\ (ReadyInHandler' => ReadyInHandler)
    BY <2>1 DEF TypeOK, FsmTypeOK, ReadyInHandler
  <2>3. PICK l \in RpcLabels : Goto(t, l)
    BY <2>1
  <2>4. {pc[t], l} \cap {"bc_wait", "bc_reset"} = {}
    BY <2>1, <2>3 DEF RpcLabels
  <2> QED
    BY <2>1, <2>2, <2>3, <2>4, ReadyMoves
<1>2. ASSUME NEW u \in Users, UserCall(u) \/ UserReturn(u) PROVE OneReady'
  <2>1. /\ UNCHANGED <<irq_mb, ack, isr, isr_wait, boot_int, complete>>
        /\ u \in Threads /\ u \notin Workers /\ \E l : Goto(u, l)
    BY <1>2 DEF UserCall, UserReturn, fsmVars, mbVars, isrVars, fwVars
  <2> QED
    BY <2>1, ReadyMoves DEF ReadyInHandler
<1>3. CASE PowerCycle
  <2>1. /\ pc["pm"] = "suspended" /\ isr' = "idle" /\ Goto("pm", "powered")
        /\ irq_mb' = NoStatus /\ boot_int' = FALSE /\ UNCHANGED <<complete, isr_wait>>
    BY <1>3 DEF PowerCycle, fsmVars, isrVars
  <2>2. \A w \in Workers : pc[w] = "idle" /\ pc'[w] = "idle"
    BY <2>1 DEF Alone, Active, Goto, TypeOK, ThrTypeOK
  <2> QED
    BY <2>1, <2>2 DEF OneReady, ReadyAsked, ReadyInIrq, ReadyInHandler, ReadyToWake, ReadyWoken, NoStatus, Irq
<1>4. CASE (PmSuspend \/ PmStep \/ PmEnterAllocFail \/ PmEnterInterrupt) /\ ~ PowerCycle
  <2>1. /\ UNCHANGED <<irq_mb, ack, isr, isr_wait, boot_int>> /\ \E l : Goto("pm", l)
        /\ complete' = complete \/ complete' = [complete EXCEPT !["SC7_ENTER"] = FALSE]
    BY <1>4 DEF PmSuspend, PmStep, PmEnterAllocFail, PmEnterInterrupt, PmPrepared, PmEnterPost,
                PmEnterSend, PmEnterWait, PmEnterDone, PmEnterFail, PmResume, Post, WaitConsume,
                fsmVars, mbVars, isrVars, fwVars
  <2>2. complete'["BOOT_COMPLETE"] = complete["BOOT_COMPLETE"] /\ (ReadyInHandler' => ReadyInHandler)
    BY <2>1 DEF TypeOK, FsmTypeOK, ReadyInHandler
  <2> QED
    BY <2>1, <2>2, ReadyMoves
<1> QED
  BY <1>1, <1>2, <1>3, <1>4

(* The report as the worker asks for it, makes it and consumes it. *)
LEMMA ReadyWorker ==
  ASSUME RInv, NEW w \in Workers, WorkerStep(w)
  PROVE  OneReady'
<1> USE RInvParts
<1>1. Active(w) /\ UNCHANGED <<irq_mb, isr, isr_wait>> /\ (ack' = ack \/ ack' = NoStatus)
  BY DEF WorkerStep, WorkStart, BootCompletePost, BootCompleteCheck, BootCompleteNested, BootCompleteNestedWake,
         BootCompleteReset, BootCompleteRequest, BootCompleteWait, BootCompleteDone, CmdPost, CmdSend, CmdWait,
         CmdStatus, CmdFail, BootFail, ChannelReset, ChannelReady, SeqStart, SeqReply, mbVars, isrVars, Active
<1>2. w \in Threads /\ (\A v \in Workers : v # w => pc[v] = "idle") /\ (ReadyInHandler' => ReadyInHandler)
  BY <1>1, WorkerAlone DEF ReadyInHandler, NoStatus, Irq
<1>3. ASSUME NEW l, Goto(w, l) PROVE pc'[w] = l /\ \A v \in Workers : v # w => pc'[v] = "idle"
  BY <1>2, <1>3 DEF Goto, TypeOK, ThrTypeOK
<1>4. pc[w] # "bc_wait" => ~ (ReadyAsked \/ ReadyInIrq \/ ReadyInHandler \/ ReadyToWake)
  BY <1>2 DEF OneReady
<1>5. pc[w] \notin {"bc_wait", "bc_reset"} => ~ ReadyWoken
  BY <1>2 DEF OneReady
<1>6. CASE BootCompleteNestedWake(w)
  <2>1. pc[w] = "bc_nwake" /\ pc'[w] = "bc_reset" /\ UNCHANGED boot_int
    BY <1>3, <1>6 DEF BootCompleteNestedWake, fwVars
  <2> QED
    BY <1>1, <1>2, <1>4, <2>1 DEF OneReady, ReadyAsked, ReadyInIrq, ReadyToWake, ReadyWoken
<1>7. CASE BootCompleteReset(w)
  <2>1. pc[w] = "bc_reset" /\ UNCHANGED boot_int /\ ~ complete'["BOOT_COMPLETE"]
    BY <1>7 DEF BootCompleteReset, dce_cond_wait_reset, TypeOK, FsmTypeOK, fwVars
  <2> QED
    BY <1>1, <1>2, <1>4, <2>1 DEF OneReady, ReadyAsked, ReadyInIrq, ReadyToWake, ReadyWoken
<1>8. CASE BootCompleteRequest(w)
  <2>1. pc[w] = "bc_int" /\ pc'[w] = "bc_wait" /\ UNCHANGED complete
    BY <1>3, <1>8 DEF BootCompleteRequest, fsmVars
  <2> QED
    BY <1>1, <1>2, <1>4, <1>5, <2>1 DEF OneReady, ReadyAsked, ReadyInIrq, ReadyToWake, ReadyWoken
<1>9. CASE BootCompleteWait(w)
  <2>1. ReadyWoken /\ UNCHANGED boot_int /\ ~ complete'["BOOT_COMPLETE"]
    BY <1>9 DEF BootCompleteWait, WaitConsume, TypeOK, FsmTypeOK, ReadyWoken, fwVars
  <2> QED
    BY <1>1, <1>2, <2>1 DEF OneReady, ReadyAsked, ReadyInIrq, ReadyToWake, ReadyWoken
<1>10. CASE ~ (BootCompleteNestedWake(w) \/ BootCompleteReset(w) \/ BootCompleteRequest(w) \/ BootCompleteWait(w))
  <2>1. /\ UNCHANGED boot_int /\ pc[w] \notin {"bc_wait", "bc_reset"}
        /\ \/ complete' = complete \/ complete' = [complete EXCEPT !["BOOT_CMD"] = FALSE]
           \/ complete' = [complete EXCEPT !["BOOT_COMPLETE"] = FALSE]
    BY <1>10 DEF WorkerStep, WorkStart, BootCompletePost, BootCompleteCheck, BootCompleteNested, BootCompleteDone,
         CmdPost, CmdSend, CmdWait, CmdStatus, CmdFail, BootFail, ChannelReset, ChannelReady, SeqStart, SeqReply,
         fsmVars, fwVars, WaitConsume, dce_cond_wait_reset
  <2>2. \E l \in {"idle", "bc_post", "bc_check", "bc_nested", "bc_int", "bc_nwake", "cmd_post", "cmd_send", "cmd_wait",
                  "cmd_status", "cmd_fail", "boot_fail", "ch_reset", "ch_ready", "seq_alloc", "rpc_post"} : Goto(w, l)
    BY <1>10 DEF WorkerStep, WorkStart, BootCompletePost, BootCompleteCheck, BootCompleteNested, BootCompleteDone,
         CmdPost, CmdSend, CmdWait, CmdStatus, CmdFail, BootFail, ChannelReset, ChannelReady, SeqStart, SeqReply, Post
  <2>3. complete'["BOOT_COMPLETE"] = complete["BOOT_COMPLETE"]
    BY <1>5, <2>1 DEF TypeOK, FsmTypeOK, ReadyWoken
  <2>4. PICK l : Goto(w, l) /\ l \notin {"bc_wait", "bc_reset"}
    BY <2>2
  <2> QED
    BY <1>1, <1>2, <2>1, <2>3, <2>4, ReadyMoves
<1> QED
  BY <1>6, <1>7, <1>8, <1>9, <1>10

(* The report as the handler and the firmware move it on; a trace-log or   *)
(* abort interrupt finds room only when the report is not in the mailbox.  *)
LEMMA ReadyMovesOn ==
  ASSUME RInv, IsrStep \/ FwStep \/ \E k \in FwIrqs : FwIrq(k)
  PROVE  OneReady'
<1> USE RInvParts DEF OneReady, ReadyAsked, ReadyInIrq, ReadyInHandler, ReadyToWake, ReadyWoken, HandlerHolds
<1>1. CASE IsrStep
  <2>1. UNCHANGED <<pc, boot_int>>
    BY <1>1 DEF IsrStep, IsrEnter, IsrBootRead, IsrBootPost, IsrBootWake, IsrAdminRead, IsrAdminPost,
         IsrAdminSeen, IsrAdminLate, IsrAdminWake,
         thrVars, fwVars
  <2>2. CASE IsrBootPost
    <3>1. isr = "boot_post" /\ UNCHANGED <<complete, irq_mb, ack>> /\ isr' # "boot_post"
      BY <2>2 DEF IsrBootPost, mbVars, AfterBoot
    <3>2. "BOOT_COMPLETE" \in isr_wait' => ack.kind = "READY"
      BY <2>2 DEF IsrBootPost, WakesFor
    <3> QED
      BY <2>1, <3>1, <3>2
  <2>3. CASE IsrBootWake
    <3>1. /\ complete'["BOOT_COMPLETE"] = (complete["BOOT_COMPLETE"] \/ "BOOT_COMPLETE" \in isr_wait)
          /\ UNCHANGED <<irq_mb, ack>> /\ isr_wait' = {} /\ isr = "boot_wake" /\ isr' # "boot_post"
      BY <2>3 DEF IsrBootWake, mbVars, AfterBoot
    <3> QED
      BY <2>1, <3>1
  <2>4. CASE IsrAdminRead \/ IsrAdminPost \/ IsrAdminSeen \/ IsrAdminLate \/ IsrAdminWake \/ IsrEnter
    <3>1. /\ UNCHANGED <<irq_mb, ack, isr_wait>> /\ isr # "boot_post" /\ isr' # "boot_post"
          /\ complete'["BOOT_COMPLETE"] = complete["BOOT_COMPLETE"]
      BY <2>4 DEF IsrAdminRead, IsrAdminPost, IsrAdminSeen, IsrAdminLate, IsrAdminWake, IsrEnter, dce_wakeup_interruptible, TypeOK, FsmTypeOK,
                  fsmVars, mbVars
    <3> QED
      BY <2>1, <3>1
  <2>5. CASE IsrBootRead
    <3>1. /\ ack' = irq_mb /\ irq_mb' = NoStatus /\ isr = "boot_read" /\ isr' = "boot_post"
          /\ UNCHANGED <<isr_wait, complete>>
      BY <2>5 DEF IsrBootRead, fsmVars
    <3> QED
      BY <2>1, <3>1 DEF NoStatus, Irq
  <2> QED
    BY <1>1, <2>2, <2>3, <2>4, <2>5 DEF IsrStep
<1>2. CASE FwReady
  <2>1. boot_int /\ ~ boot_int' /\ irq_mb' = Irq("READY") /\ UNCHANGED <<complete, pc, isr, isr_wait, ack>>
    BY <1>2 DEF FwReady, fsmVars, thrVars, isrVars
  <2> QED
    BY <2>1
<1>3. CASE (FwStep \/ \E k \in FwIrqs : FwIrq(k)) /\ ~ FwReady
  <2>1. UNCHANGED <<boot_int, complete, pc, isr, isr_wait, ack>> /\ (irq_mb' = irq_mb \/ irq_mb'.kind # "READY")
    BY <1>3, BootAssumption DEF FwStep, FwBooted, FwTakeCmd, FwAckCmd, FwReply, FwEnterSC7, FwEstablish, FwIrq,
         fsmVars, thrVars, isrVars, mbVars, fwVars, Irq, BootAssumption
  <2> QED
    BY <2>1
<1> QED
  BY <1>1, <1>2, <1>3

LEMMA RStep ==
  ASSUME ~ EarlySuspend, ~ AllocFail, "pm" \notin Interruptible
  PROVE  RInv /\ [Next]_vars => RInv'
<1> SUFFICES ASSUME RInv, [Next]_vars PROVE RInv'
  OBVIOUS
<1>1. HInv'
  BY HStep, RInvParts
<1>2. OneReady'
  <2>1. CASE UNCHANGED vars
    BY <2>1 DEF RInv, vars, fsmVars, mbVars, thrVars, isrVars, fwVars, OneReady, ReadyAsked, ReadyInIrq,
                ReadyInHandler, ReadyToWake, ReadyWoken
  <2> QED
    BY <2>1, ReadyThreads, ReadyWorker, ReadyMovesOn DEF Next
<1> QED
  BY <1>1, <1>2 DEF RInv

(* The handler that was entered for a status word finds one. *)
WordThere ==
    /\ irq_mb.kind = "none" => irq_mb = NoStatus
    /\ isr = "boot_read" => irq_mb.kind # "none"
    /\ irq_mb.kind \notin {"LOG_READY", "ABORT"}

(* The status on its way to a worker at label l belongs to its command b,  *)
(* and carries the firmware's error.                                       *)
StatusAt(l, b) ==
    /\ l = "cmd_wait" /\ CmdInFw => fw_cmd = b
    /\ l = "cmd_wait" /\ CmdInIrq => irq_mb.cmd = b /\ (fw_err => irq_mb.err)
    /\ (l = "cmd_wait" /\ (CmdInHandler \/ CmdToWake \/ CmdWoken)) \/ l = "cmd_status" =>
          ack.kind = "BOOT_CMD" /\ ack.cmd = b /\ (fw_err => ack.err)

Statused == \A w \in Workers : StatusAt(pc[w], bci[w])

(* After an error nobody gets beyond the command that failed. *)
ErrorLabels == {"idle", "cmd_wait", "cmd_status", "cmd_fail", "boot_fail"}

Stopped ==
    fw_err => /\ ~ BootDone /\ pc["pm"] = "idle" /\ work = {}
              /\ ~ CmdInMailbox /\ ~ CmdInFw
              /\ \A w \in Workers : pc[w] \in ErrorLabels

Answered == WordThere /\ Statused /\ Stopped

AInv == RInv /\ Answered

LEMMA AInit == Init => AInv
<1> SUFFICES ASSUME Init PROVE AInv
  OBVIOUS
<1>1. RInv
  BY RInit
<1>2. \A w \in Workers : pc[w] = "idle"
  BY DEF Init, Threads
<1>3. WordThere
  BY <1>2 DEF Init, WordThere, NoStatus, Irq
<1>4. Statused /\ Stopped
  BY <1>2 DEF Init, Statused, StatusAt, Stopped
<1> QED
  BY <1>1, <1>3, <1>4 DEF AInv, Answered

LEMMA AInvParts ==
  ASSUME AInv
  PROVE  /\ RInv /\ HInv /\ FInv /\ SInv /\ TypeOK /\ Alone /\ OneCmd /\ Sc7Held
         /\ OneReady /\ WordThere /\ Statused /\ Stopped
         /\ "pm" \in Threads /\ Workers \subseteq Threads /\ Users \subseteq Threads
         /\ "pm" \notin Workers /\ "pm" \notin Users /\ Workers \cap Users = {}
         /\ "BOOT_CMD" \in Waits /\ "BOOT_COMPLETE" \in Waits
  BY RInvParts DEF AInv, Answered

(* A thread moves and touches nothing of the answers. *)
LEMMA QuietStep ==
  ASSUME AInv, NEW t \in Threads, NEW l, Goto(t, l),
         UNCHANGED <<irq_mb, ack, isr, isr_wait, fw_cmd, fw_err, cmd_mb, boot_int>>,
         complete'["BOOT_CMD"] = complete["BOOT_CMD"],
         \A v \in Workers : v # t => pc[v] = "idle" \/ bci'[v] = bci[v],
         t \in Workers => l \notin {"cmd_wait", "cmd_status"},
         ~ fw_err \/ /\ t \in Workers /\ l \in ErrorLabels
                     /\ (BootDone' <=> BootDone) /\ UNCHANGED work
  PROVE  Answered'
<1> USE AInvParts
<1>1. pc'[t] = l /\ \A s \in Threads : s # t => pc'[s] = pc[s]
  BY DEF Goto, TypeOK, ThrTypeOK
<1>4. WordThere'
  BY DEF WordThere
<1>5. ASSUME NEW w \in Workers PROVE StatusAt(pc[w], bci[w])'
  <2>1. CASE w = t \/ pc[w] = "idle"
    BY <1>1, <1>5, <2>1 DEF StatusAt
  <2>2. CASE w # t /\ pc[w] # "idle"
    BY <1>1, <1>5, <2>2 DEF Statused, StatusAt, CmdInFw, CmdInIrq, CmdInHandler, CmdToWake, CmdWoken
  <2> QED
    BY <2>1, <2>2
<1>6. Stopped'
  BY <1>1 DEF Stopped, CmdInMailbox, CmdInFw
<1> QED
  BY <1>4, <1>5, <1>6 DEF Answered, Statused

(* Threads other than the workers act only in a boot without errors. *)
LEMMA NotStopped ==
  ASSUME AInv, NEW t \in Threads,
         \/ BootDone \/ pc["pm"] # "idle" \/ t \in work
         \/ t \in Workers /\ pc[t] \notin ErrorLabels
         \/ t \notin Workers /\ pc[t] # "idle"
  PROVE  ~ fw_err
<1> USE AInvParts
<1>1. CASE t \in Users /\ pc[t] # "idle"
  BY <1>1 DEF Alone, Stopped
<1> QED
  BY <1>1 DEF Stopped, Threads

LEMMA RpcAnswered ==
  ASSUME AInv, NEW t \in Threads, RpcStep(t) \/ RpcInterrupt(t)
  PROVE  Answered'
<1> USE AInvParts
<1>1. /\ UNCHANGED <<irq_mb, ack, isr, isr_wait, fw_cmd, fw_err, cmd_mb, boot_int, bci>>
      /\ pc[t] \in RpcLabels
      /\ \E l \in RpcLabels : Goto(t, l)
      /\ complete' = complete \/ complete' = [complete EXCEPT !["ADMIN_IPC"] = FALSE]
  BY DEF RpcStep, RpcPost, RpcSend, RpcWait, RpcInterrupt, RpcConsume, RpcRead, RpcFail, Post, WaitConsume,
         fsmVars, mbVars, isrVars, fwVars, RpcLabels
<1>2. complete'["BOOT_CMD"] = complete["BOOT_CMD"]
  BY <1>1 DEF TypeOK, FsmTypeOK
<1>3. ~ fw_err
  BY <1>1, NotStopped DEF RpcLabels, ErrorLabels
<1>4. PICK l \in RpcLabels : Goto(t, l)
  BY <1>1
<1>5. l \notin {"cmd_wait", "cmd_status"}
  BY <1>4 DEF RpcLabels
<1> QED
  BY <1>1, <1>2, <1>3, <1>4, <1>5, QuietStep

LEMMA UserAnswered ==
  ASSUME AInv, NEW u \in Users, UserCall(u) \/ UserReturn(u)
  PROVE  Answered'
<1> USE AInvParts
<1>1. /\ UNCHANGED <<irq_mb, ack, isr, isr_wait, fw_cmd, fw_err, cmd_mb, boot_int, bci, complete>>
      /\ u \in Threads /\ u \notin Workers /\ \E l : Goto(u, l)
      /\ BootDone \/ pc[u] # "idle"
  BY DEF UserCall, UserReturn, fsmVars, mbVars, isrVars, fwVars
<1>2. ~ fw_err
  BY <1>1, NotStopped
<1> QED
  BY <1>1, <1>2, QuietStep

LEMMA PmAnswered ==
  ASSUME AInv, ~ EarlySuspend, PmSuspend \/ PmStep \/ PmEnterAllocFail \/ PmEnterInterrupt
  PROVE  Answered'
<1> USE AInvParts
<1>1. ~ fw_err
  <2>1. BootDone \/ pc["pm"] # "idle"
    BY DEF PmSuspend, PmStep, PmEnterAllocFail, PmEnterInterrupt, PmPrepared, PmEnterPost,
           PmEnterSend, PmEnterWait, PmEnterDone, PmEnterFail, PowerCycle, PmResume
  <2> QED
    BY <2>1, NotStopped
<1>2. CASE PowerCycle
  <2>1. /\ pc["pm"] = "suspended" /\ isr = "idle" /\ isr' = "idle" /\ Goto("pm", "powered")
        /\ irq_mb' = NoStatus /\ boot_int' = FALSE /\ fw_err' = FALSE /\ UNCHANGED <<complete, isr_wait>>
    BY <1>2 DEF PowerCycle, fsmVars, isrVars
  <2>2. \A w \in Workers : pc[w] = "idle" /\ pc'[w] = "idle"
    BY <2>1 DEF Alone, Active, Goto, TypeOK, ThrTypeOK
  <2>3. WordThere'
    BY <2>1 DEF WordThere, NoStatus, Irq
  <2>4. Statused' /\ Stopped'
    BY <2>1, <2>2 DEF Statused, StatusAt, Stopped
  <2> QED
    BY <2>3, <2>4 DEF Answered
<1>3. CASE ~ PowerCycle
  <2>1. /\ UNCHANGED <<irq_mb, ack, isr, isr_wait, fw_cmd, fw_err, cmd_mb, boot_int, bci>>
        /\ \E l : Goto("pm", l)
        /\ complete' = complete \/ complete' = [complete EXCEPT !["SC7_ENTER"] = FALSE]
    BY <1>3 DEF PmSuspend, PmStep, PmEnterAllocFail, PmEnterInterrupt, PmPrepared, PmEnterPost,
                PmEnterSend, PmEnterWait, PmEnterDone, PmEnterFail, PmResume, Post, WaitConsume,
                fsmVars, mbVars, isrVars, fwVars
  <2>2. complete'["BOOT_CMD"] = complete["BOOT_CMD"]
    BY <2>1 DEF TypeOK, FsmTypeOK
  <2> QED
    BY <1>1, <2>1, <2>2, QuietStep
<1> QED
  BY <1>2, <1>3

(* The worker's steps that carry no answer. *)
LEMMA WorkerQuiet ==
  ASSUME AInv, NEW w \in Workers,
         \/ WorkStart(w) \/ BootCompletePost(w) \/ BootCompleteCheck(w) \/ BootCompleteNested(w)
         \/ BootCompleteDone(w) \/ CmdPost(w) \/ CmdStatus(w) \/ CmdFail(w) \/ BootFail(w)
         \/ ChannelReset(w) \/ ChannelReady(w) \/ SeqStart(w) \/ SeqReply(w)
  PROVE  Answered'
<1> USE AInvParts
<1>1. Active(w)
  BY DEF WorkStart, BootCompletePost, BootCompleteCheck, BootCompleteNested, BootCompleteDone, CmdPost,
         CmdStatus, CmdFail, BootFail, ChannelReset, ChannelReady, SeqStart, SeqReply, Active
<1>2. w \in Threads /\ ~ BootDone /\ \A v \in Workers : v # w => pc[v] = "idle"
  BY <1>1, WorkerAlone
<1>3. UNCHANGED <<irq_mb, ack, isr, isr_wait, fw_cmd, fw_err, cmd_mb, boot_int>>
  BY DEF WorkStart, BootCompletePost, BootCompleteCheck, BootCompleteNested, BootCompleteDone, CmdPost,
         CmdStatus, CmdFail, BootFail, ChannelReset, ChannelReady, SeqStart, SeqReply, mbVars, isrVars, fwVars
<1>4. pc[w] # "cmd_wait"
  BY DEF WorkStart, BootCompletePost, BootCompleteCheck, BootCompleteNested, BootCompleteDone, CmdPost,
         CmdStatus, CmdFail, BootFail, ChannelReset, ChannelReady, SeqStart, SeqReply
<1>6. complete' = complete \/ complete' = [complete EXCEPT !["BOOT_COMPLETE"] = FALSE]
  BY DEF WorkStart, BootCompletePost, BootCompleteCheck, BootCompleteNested, BootCompleteDone, CmdPost,
         CmdStatus, CmdFail, BootFail, ChannelReset, ChannelReady, SeqStart, SeqReply, fsmVars,
         dce_cond_wait_reset
<1>7. complete'["BOOT_CMD"] = complete["BOOT_CMD"]
  BY <1>6 DEF TypeOK, FsmTypeOK
<1>8. ASSUME NEW l, Goto(w, l), l \notin {"cmd_wait", "cmd_status"},
             ~ fw_err \/ (l \in ErrorLabels /\ ~ BootDone' /\ UNCHANGED work)
      PROVE  Answered'
  BY <1>2, <1>3, <1>7, <1>8, QuietStep
<1>9. CASE fw_err
  <2>1. pc[w] \in {"cmd_status", "cmd_fail", "boot_fail"}
    BY <1>2, <1>4, <1>9, NotStopped DEF ErrorLabels, WorkStart, BootCompletePost, BootCompleteCheck, BootCompleteNested,
       BootCompleteDone, CmdPost, CmdStatus, CmdFail, BootFail, ChannelReset, ChannelReady, SeqStart, SeqReply
  <2>2. CmdStatus(w) \/ CmdFail(w) \/ BootFail(w)
    BY <2>1 DEF WorkStart, BootCompletePost, BootCompleteCheck, BootCompleteNested, BootCompleteDone, CmdPost,
       ChannelReset, ChannelReady, SeqStart, SeqReply
  <2>3. pc[w] = "cmd_status" => StatusErr(ack)
    BY <1>9 DEF Statused, StatusAt, StatusErr
  <2>4. /\ \E l \in {"cmd_fail", "boot_fail", "idle"} : Goto(w, l)
        /\ ~ BootDone' /\ UNCHANGED work
    BY <1>2, <2>2, <2>3 DEF CmdStatus, CmdFail, BootFail, BootDone, SetStatus
  <2> QED
    BY <1>8, <2>4 DEF ErrorLabels
<1>10. CASE ~ fw_err
  <2>1. \E l \in {"idle", "bc_post", "bc_check", "bc_nested", "bc_int", "bc_nwake", "cmd_post", "cmd_send",
                  "cmd_fail", "boot_fail", "ch_reset", "ch_ready", "seq_alloc", "rpc_post"} : Goto(w, l)
    BY DEF WorkStart, BootCompletePost, BootCompleteCheck, BootCompleteNested, BootCompleteDone, CmdPost,
         CmdStatus, CmdFail, BootFail, ChannelReset, ChannelReady, SeqStart, SeqReply, Post
  <2> QED
    BY <1>8, <1>10, <2>1
<1> QED
  BY <1>9, <1>10

(* The worker's steps with the report that the firmware is up. *)
LEMMA WorkerReady ==
  ASSUME AInv, NEW w \in Workers,
         \/ BootCompleteNestedWake(w) \/ BootCompleteReset(w)
         \/ BootCompleteRequest(w) \/ BootCompleteWait(w)
  PROVE  Answered'
<1> USE AInvParts
<1>1. Active(w) /\ pc[w] \in {"bc_nwake", "bc_reset", "bc_int", "bc_wait"}
  BY DEF BootCompleteNestedWake, BootCompleteReset, BootCompleteRequest, BootCompleteWait, Active
<1>2. w \in Threads /\ \A v \in Workers : v # w => pc[v] = "idle"
  BY <1>1, WorkerAlone
<1>3. ~ fw_err
  BY <1>1, <1>2, NotStopped DEF ErrorLabels
<1>4. /\ UNCHANGED <<irq_mb, ack, isr, isr_wait, fw_cmd, fw_err, bci>>
      /\ \E l \in {"bc_reset", "bc_done", "bc_wait"} : Goto(w, l)
  BY DEF BootCompleteNestedWake, BootCompleteReset, BootCompleteRequest, BootCompleteWait, mbVars, isrVars, fwVars
<1>5. \A v \in Workers : v # w => pc'[v] = "idle"
  BY <1>2, <1>4 DEF Goto, TypeOK, ThrTypeOK
<1>6. pc'[w] \in {"bc_reset", "bc_done", "bc_wait"}
  BY <1>2, <1>4 DEF Goto, TypeOK, ThrTypeOK
<1>7. WordThere' /\ Statused' /\ Stopped'
  BY <1>3, <1>4, <1>5, <1>6 DEF WordThere, Statused, StatusAt, Stopped
<1> QED
  BY <1>7 DEF Answered

(* A boot command and its answer, as the worker sends and takes them. *)
LEMMA WorkerCmd ==
  ASSUME AInv, NEW w \in Workers, CmdSend(w) \/ CmdWait(w)
  PROVE  Answered'
<1> USE AInvParts
<1>1. Active(w) /\ pc[w] \in {"cmd_send", "cmd_wait"}
  BY DEF CmdSend, CmdWait, Active
<1>2. w \in Threads /\ ~ BootDone /\ pc["pm"] = "idle" /\ \A v \in Workers : v # w => pc[v] = "idle"
  BY <1>1, WorkerAlone
<1>3. ~ mb_locked
  BY DEF FInv
<1>4. /\ UNCHANGED <<irq_mb, isr, isr_wait, fw_cmd, fw_err, bci, boot_int, work, boot_status>>
      /\ \E l \in {"cmd_wait", "cmd_fail", "cmd_status"} : Goto(w, l)
  BY DEF CmdSend, CmdWait, WaitConsume, mbVars, isrVars, fwVars, fsmVars, TypeOK, FsmTypeOK
<1>5. /\ \A s \in Threads : s # w => pc'[s] = pc[s]
      /\ pc'[w] \in {"cmd_wait", "cmd_fail", "cmd_status"}
  BY <1>2, <1>4 DEF Goto, TypeOK, ThrTypeOK
<1>6. WordThere'
  BY <1>4 DEF WordThere
<1>8. CASE CmdSend(w)
  <2>1. NoCmd
    BY <1>2, <1>8 DEF OneCmd, CmdSend
  <2>2. /\ pc[w] = "cmd_send" /\ cmd_mb' = bci[w] /\ ack' = NoStatus /\ pc'[w] = "cmd_wait"
        /\ UNCHANGED complete
    BY <1>2, <1>8, <2>1 DEF CmdSend, NoCmd, CmdInMailbox, Goto, TypeOK, ThrTypeOK, fsmVars
  <2>3. ~ fw_err
    BY <1>2, <2>2, NotStopped DEF ErrorLabels
  <2>5. ~ (CmdInFw \/ CmdInIrq \/ CmdInHandler \/ CmdToWake \/ CmdWoken)'
    BY <1>4, <2>1, <2>2 DEF NoCmd, CmdInFw, CmdInIrq, CmdInHandler, CmdToWake, CmdWoken, NoStatus, Irq
  <2>6. Statused' /\ Stopped'
    BY <1>2, <1>4, <1>5, <2>2, <2>3, <2>5 DEF Statused, StatusAt, Stopped
  <2> QED
    BY <1>6, <2>6 DEF Answered
<1>9. CASE CmdWait(w)
  <2>1. /\ pc[w] = "cmd_wait" /\ CmdWoken /\ pc'[w] = "cmd_status" /\ UNCHANGED <<ack, cmd_mb>>
    BY <1>2, <1>9 DEF CmdWait, WaitConsume, CmdWoken, Goto, TypeOK, ThrTypeOK, mbVars
  <2>3. ack.kind = "BOOT_CMD" /\ ack.cmd = bci[w] /\ (fw_err => ack.err)
    BY <2>1 DEF Statused, StatusAt
  <2>4. Statused'
    BY <1>2, <1>4, <1>5, <2>1, <2>3 DEF Statused, StatusAt
  <2>5. Stopped'
    BY <1>2, <1>4, <1>5, <2>1 DEF Stopped, ErrorLabels, CmdInMailbox, CmdInFw, BootDone
  <2> QED
    BY <1>6, <2>4, <2>5 DEF Answered
<1> QED
  BY <1>8, <1>9

LEMMA WorkerAnswered ==
  ASSUME AInv, NEW w \in Workers, WorkerStep(w)
  PROVE  Answered'
  BY WorkerQuiet, WorkerReady, WorkerCmd DEF WorkerStep

(* Only a worker that waits for it has a command or a report under way. *)
LEMMA CmdWaiter ==
  ASSUME AInv, ~ NoCmd
  PROVE  \E w \in Workers : pc[w] = "cmd_wait"
  BY AInvParts DEF OneCmd

LEMMA IsrAnswered ==
  ASSUME AInv, IsrStep
  PROVE  Answered'
<1> USE AInvParts
<1>1. /\ UNCHANGED <<boot_status, thrVars, fwVars, cmd_mb>> /\ HandlerHolds
  BY DEF SInv, IsrStep, IsrEnter, IsrBootRead, IsrBootPost, IsrBootWake, IsrAdminRead,
         IsrAdminPost, IsrAdminSeen, IsrAdminLate, IsrAdminWake, mbVars
<1>2. Stopped'
  BY <1>1 DEF Stopped, CmdInMailbox, CmdInFw, BootDone, thrVars, fwVars
<1>3. IsrBootPost => isr_wait' = isr_wait \/ isr_wait' = WakesFor(ack.kind)
  BY DEF IsrBootPost
<1>4. IsrBootPost => /\ "BOOT_CMD" \in isr_wait' => ack.kind = "BOOT_CMD"
  BY <1>1, <1>3 DEF WakesFor, HandlerHolds, IsrBootPost
<1>5. IsrBootPost => UNCHANGED <<complete, irq_mb, ack>> /\ isr = "boot_post" /\ isr' \notin {"boot_read", "boot_post"}
  BY DEF IsrBootPost, mbVars, AfterBoot
<1>6. IsrBootWake => /\ complete'["BOOT_CMD"] = (complete["BOOT_CMD"] \/ "BOOT_CMD" \in isr_wait)
                     /\ UNCHANGED <<irq_mb, ack>> /\ isr_wait' = {}
                     /\ isr = "boot_wake" /\ isr' \notin {"boot_read", "boot_post"}
  BY DEF IsrBootWake, mbVars, AfterBoot
<1>7. IsrAdminRead \/ IsrAdminPost \/ IsrAdminSeen \/ IsrAdminLate \/ IsrAdminWake =>
         /\ UNCHANGED <<irq_mb, ack, isr_wait>>
         /\ isr # "boot_post" /\ isr' \notin {"boot_read", "boot_post"}
         /\ complete'["BOOT_CMD"] = complete["BOOT_CMD"]
  BY DEF IsrAdminRead, IsrAdminPost, IsrAdminSeen, IsrAdminLate, IsrAdminWake, dce_wakeup_interruptible,
         TypeOK, FsmTypeOK, fsmVars, mbVars
<1>8. IsrEnter => /\ UNCHANGED <<irq_mb, ack, isr_wait, complete>>
                  /\ isr = "idle" /\ isr' # "boot_post" /\ (isr' = "boot_read" => irq_mb # NoStatus)
  BY DEF IsrEnter, mbVars, fsmVars
<1>9. IsrBootRead => /\ ack' = irq_mb /\ irq_mb' = NoStatus /\ isr = "boot_read" /\ isr' = "boot_post"
                     /\ UNCHANGED <<isr_wait, complete>>
  BY DEF IsrBootRead, fsmVars
<1>10. WordThere'
  BY <1>5, <1>6, <1>7, <1>8, <1>9 DEF WordThere, NoStatus, Irq, IsrStep
<1>12. ASSUME NEW w \in Workers PROVE StatusAt(pc[w], bci[w])'
  <2> USE <1>1 DEF StatusAt, CmdInFw, CmdInIrq, CmdInHandler, CmdToWake, CmdWoken, HandlerHolds, thrVars, fwVars
  <2>0. StatusAt(pc[w], bci[w])
    BY <1>12 DEF Statused
  <2>1. CASE IsrBootPost
    BY <1>4, <1>5, <2>0, <2>1
  <2>2. CASE IsrBootWake
    BY <1>6, <2>0, <2>2
  <2>3. CASE IsrAdminRead \/ IsrAdminPost \/ IsrAdminSeen \/ IsrAdminLate \/ IsrAdminWake
    BY <1>7, <2>0, <2>3
  <2>4. CASE IsrEnter
    BY <1>8, <2>0, <2>4
  <2>5. CASE IsrBootRead
    <3>1. CASE pc[w] \notin {"cmd_wait", "cmd_status"}
      BY <3>1
    <3>2. CASE pc[w] \in {"cmd_wait", "cmd_status"}
      <4>1. pc["pm"] = "idle" /\ \A v \in Workers : v # w => pc[v] = "idle"
        BY <1>12, <3>2, WorkerAlone DEF Active
      <4>2. irq_mb.kind # "READY"
        BY <3>2, <4>1 DEF OneReady, ReadyInIrq
      <4>3. irq_mb.kind # "SC7_ENTERED"
        BY <4>1 DEF SInv, OneSc7Report, Sc7InMailbox, Sc7Held
      <4>4. irq_mb.kind = "BOOT_CMD"
        BY <1>9, <2>5, <4>2, <4>3 DEF WordThere, TypeOK, MbTypeOK, Statuses, IrqKinds
      <4>5. pc[w] = "cmd_wait"
        BY <3>2, <4>1, <4>4 DEF OneCmd, NoCmd
      <4> QED
        BY <1>9, <2>0, <2>5, <4>4, <4>5 DEF NoStatus, Irq
    <3> QED
      BY <3>1, <3>2
  <2> QED
    BY <2>1, <2>2, <2>3, <2>4, <2>5 DEF IsrStep
<1> QED
  BY <1>2, <1>10, <1>12 DEF Answered, Statused

LEMMA FwAnswered ==
  ASSUME AInv, FwStep
  PROVE  Answered'
<1> USE AInvParts
<1>1. UNCHANGED <<complete, boot_status, thrVars, isrVars, ack>>
  BY DEF FwStep, FwBooted, FwReady, FwTakeCmd, FwAckCmd, FwReply, FwEnterSC7, FwEstablish, fsmVars, mbVars
<1>2. CASE FwTakeCmd
  <2>1. /\ CmdInMailbox /\ fw_cmd' = cmd_mb /\ cmd_mb' = 0 /\ UNCHANGED <<irq_mb, boot_int, fw_err>>
    BY <1>2 DEF FwTakeCmd, CmdInMailbox
  <2>2. ~ fw_err
    BY <2>1 DEF Stopped
  <2>3. \A w \in Workers : pc[w] = "cmd_wait" => cmd_mb = bci[w]
    BY <2>1 DEF FInv, Progress, TakenAt
  <2>4. \A w \in Workers : pc[w] # "cmd_status"
    <3>1. PICK v \in Workers : pc[v] = "cmd_wait"
      BY <2>1, CmdWaiter DEF NoCmd
    <3> QED
      BY <3>1, WorkerAlone DEF Active
  <2>5. WordThere' /\ Stopped'
    BY <1>1, <2>1, <2>2 DEF WordThere, Stopped, isrVars, thrVars
  <2>6. Statused'
    BY <1>1, <2>1, <2>3, <2>4 DEF Statused, StatusAt, CmdInFw, CmdInIrq, CmdInHandler, CmdToWake, CmdWoken,
                                  isrVars, thrVars, OneCmd, CmdInMailbox
  <2> QED
    BY <2>5, <2>6 DEF Answered
<1>3. CASE FwAckCmd
  <2>1. /\ CmdInFw /\ fw_cmd' = 0 /\ irq_mb = NoStatus /\ UNCHANGED <<cmd_mb, boot_int>>
        /\ irq_mb'.kind = "BOOT_CMD" /\ irq_mb'.cmd = fw_cmd /\ fw_err' = (fw_err \/ irq_mb'.err)
    BY <1>3 DEF FwAckCmd, CmdInFw
  <2>2. ~ fw_err
    BY <2>1 DEF Stopped
  <2>3. ~ (CmdInMailbox \/ CmdInIrq \/ CmdInHandler \/ CmdToWake \/ CmdWoken)
    BY <2>1 DEF OneCmd
  <2>4. PICK v \in Workers : pc[v] = "cmd_wait"
    BY <2>1, CmdWaiter DEF NoCmd
  <2>5. /\ ~ BootDone /\ pc["pm"] = "idle" /\ v \notin work
        /\ \A u \in Workers : u # v => pc[u] = "idle" /\ u \notin work
    BY <2>4, WorkerAlone DEF Active
  <2>6. work = {}
    BY <2>5 DEF TypeOK, ThrTypeOK
  <2>8. WordThere'
    BY <2>1 DEF WordThere
  <2>9. Stopped'
    BY <1>1, <2>1, <2>3, <2>4, <2>5, <2>6 DEF Stopped, CmdInMailbox, CmdInFw, BootDone, ErrorLabels, thrVars
  <2>10. StatusAt(pc[v], bci[v])
    BY <2>4 DEF Statused
  <2>11. fw_cmd = bci[v]
    BY <2>1, <2>4, <2>10 DEF StatusAt
  <2>12. ASSUME NEW w \in Workers PROVE StatusAt(pc[w], bci[w])'
    <3>1. CASE w # v
      BY <1>1, <2>5, <2>12, <3>1 DEF StatusAt, thrVars
    <3>2. CASE w = v
      BY <1>1, <2>1, <2>2, <2>3, <2>4, <2>11, <3>2 DEF StatusAt, CmdInFw, CmdInIrq, CmdInHandler, CmdToWake,
         CmdWoken, thrVars, isrVars
    <3> QED
      BY <3>1, <3>2
  <2> QED
    BY <2>8, <2>9, <2>12 DEF Answered, Statused
<1>4. CASE FwReady
  <2>1. /\ boot_int /\ ~ boot_int' /\ irq_mb = NoStatus /\ irq_mb' = Irq("READY")
        /\ UNCHANGED <<cmd_mb, fw_cmd, fw_err>>
    BY <1>4 DEF FwReady
  <2>2. WordThere'
    BY <1>1, <2>1 DEF WordThere, Irq, isrVars
  <2>3. Statused' /\ Stopped'
    BY <1>1, <2>1 DEF Statused, StatusAt, CmdInFw, CmdInIrq, CmdInHandler, CmdToWake, CmdWoken, Irq,
                      Stopped, CmdInMailbox, BootDone, isrVars, thrVars
  <2> QED
    BY <2>2, <2>3 DEF Answered
<1>5. CASE FwBooted \/ FwReply \/ FwEnterSC7 \/ \E c \in Channels : FwEstablish(c)
  <2>1. /\ UNCHANGED <<cmd_mb, boot_int, fw_cmd, fw_err>>
        /\ irq_mb' = irq_mb \/ (irq_mb = NoStatus /\ irq_mb' = Irq("SC7_ENTERED"))
    BY <1>5 DEF FwBooted, FwReply, FwEnterSC7, FwEstablish, mbVars, fwVars
  <2>2. WordThere'
    BY <1>1, <2>1 DEF WordThere, Irq, NoStatus, isrVars
  <2>3. Statused' /\ Stopped'
    BY <1>1, <2>1 DEF Statused, StatusAt, CmdInFw, CmdInIrq, CmdInHandler, CmdToWake, CmdWoken, Irq, NoStatus,
                      Stopped, CmdInMailbox, BootDone, isrVars, thrVars
  <2> QED
    BY <2>2, <2>3 DEF Answered
<1> QED
  BY <1>2, <1>3, <1>4, <1>5 DEF FwStep

LEMMA AStep ==
  ASSUME ~ EarlySuspend, ~ AllocFail, "pm" \notin Interruptible, FwIrqs = {}
  PROVE  AInv /\ [Next]_vars => AInv'
<1> SUFFICES ASSUME AInv, [Next]_vars PROVE AInv'
  OBVIOUS
<1>1. RInv'
  BY RStep, AInvParts
<1>2. Answered'
  <2>1. CASE UNCHANGED vars
    BY <2>1 DEF AInv, Answered, vars, fsmVars, mbVars, thrVars, isrVars, fwVars, WordThere, Statused, StatusAt, CmdInFw, CmdInIrq,
                CmdInHandler, CmdToWake, CmdWoken, Stopped, CmdInMailbox, BootDone
  <2> QED
    BY <2>1, RpcAnswered, WorkerAnswered, PmAnswered, UserAnswered, IsrAnswered, FwAnswered DEF Next
<1> QED
  BY <1>1, <1>2 DEF AInv

(* The status a worker reads after a boot command is the firmware's answer *)
(* to that command: with no trace-log or abort interrupt and no broken-off *)
(* suspend, nothing overwrites the slot of dce_mailbox_wait_boot_interface *)
(* between the handler's wake-up and the worker's read.                    *)
THEOREM StatusIsTheAnswer ==
  ASSUME ~ EarlySuspend, ~ AllocFail, "pm" \notin Interruptible, FwIrqs = {}
  PROVE  Spec => []AckAnswersCmd
<1>1. AInv => AckAnswersCmd
  BY DEF AInv, Answered, Statused, StatusAt, AckAnswersCmd
<1> QED
  BY <1>1, AInit, AStep, PTL DEF Spec

(* Under the same conditions a boot command that the firmware answered     *)
(* with an error is the last thing it is asked: no thread gets as far as   *)
(* the admin channel until the firmware has been powered up again.         *)
THEOREM ErrorEndsTheBoot ==
  ASSUME ~ EarlySuspend, ~ AllocFail, "pm" \notin Interruptible, FwIrqs = {}
  PROVE  Spec => []ErrorStopsBoot
<1>1. AInv => ErrorStopsBoot
  <2> SUFFICES ASSUME AInv, fw_err, NEW t \in Threads
               PROVE  pc[t] \notin {"ch_reset", "rpc_post", "rpc_send", "rpc_wait"}
    BY DEF ErrorStopsBoot
  <2>1. CASE t \in Workers
    BY <2>1, AInvParts DEF Stopped, ErrorLabels
  <2>2. CASE t \notin Workers
    BY <2>2, NotStopped
  <2> QED
    BY <2>1, <2>2
<1> QED
  BY <1>1, AInit, AStep, PTL DEF Spec
-----------------------------------------------------------------------------
(* A boot without errors.                                                  *)

NoErrors ==
    /\ \A i \in 1 .. Len(rx) : ~ rx[i].err
    /\ \A t \in Threads : ~ resp[t].err

(* The client channels that are set up when a worker is at label l with    *)
(* admin command a.                                                        *)
ChannelsAt(l, a) ==
    l \in RpcLabels \cup {"ch_reset", "ch_ready"} =>
       /\ a >= 3 => ch["RM"] = "synced"
       /\ a = 4 => ch["RM_NOTIFY"] = "synced"

ChannelsSet ==
    /\ \A w \in Workers : ChannelsAt(pc[w], asi[w])
    /\ BootDone => ch["RM"] = "synced" /\ ch["RM_NOTIFY"] = "synced"

CInv == FInv /\ NoErrors /\ ChannelsSet

LEMMA CInit == Init => CInv
<1> SUFFICES ASSUME Init PROVE CInv
  OBVIOUS
<1>1. FInv
  BY FInit
<1>2. rx = <<>> /\ Len(rx) = 0
  BY DEF Init
<1>3. NoErrors
  BY <1>2 DEF NoErrors, Init, NoReply
<1>4. ChannelsSet
  BY DEF Init, ChannelsSet, ChannelsAt, BootDone, RpcLabels, Threads
<1> QED
  BY <1>1, <1>3, <1>4 DEF CInv

LEMMA CInvParts ==
  ASSUME CInv
  PROVE  /\ FInv /\ SInv /\ TypeOK /\ Alone /\ NoErrors /\ ChannelsSet
         /\ "pm" \in Threads /\ Workers \subseteq Threads /\ Users \subseteq Threads
         /\ "pm" \notin Workers /\ "pm" \notin Users /\ Workers \cap Users = {}
  BY BootAssumption DEF CInv, FInv, SInv, TInv, Threads, Workers, BootAssumption

(* The ways the replies change when the firmware reports no error. *)
RxMoves == \/ rx' = rx \/ rx' = <<>> \/ (rx # <<>> /\ rx' = Tail(rx))
           \/ \E m \in Messages : rx' = Append(rx, [src |-> m.src, cmd |-> m.cmd, err |-> FALSE])
RespMoves == \/ resp' = resp
             \/ \E t \in Threads : resp' = [resp EXCEPT ![t] = NoReply]
             \/ \E t \in Threads : rx # <<>> /\ resp' = [resp EXCEPT ![t] = Head(rx)]

LEMMA NoErrorsKept ==
  ASSUME TypeOK, NoErrors, RxMoves, RespMoves
  PROVE  NoErrors'
<1>1. rx \in Seq(Replies) /\ resp \in [Threads -> Replies]
  BY DEF TypeOK, ChTypeOK, ThrTypeOK
<1>2. \A i \in 1 .. Len(rx') : ~ rx'[i].err
  <2>1. CASE rx' = rx \/ rx' = <<>>
    BY <1>1, <2>1 DEF NoErrors
  <2>2. CASE rx # <<>> /\ rx' = Tail(rx)
    <3>1. Len(rx') = Len(rx) - 1 /\ \A i \in 1 .. Len(rx') : rx'[i] = rx[i + 1] /\ i + 1 \in 1 .. Len(rx)
      BY <1>1, <2>2
    <3> QED
      BY <3>1 DEF NoErrors
  <2>3. ASSUME NEW m \in Messages, rx' = Append(rx, [src |-> m.src, cmd |-> m.cmd, err |-> FALSE])
        PROVE  \A i \in 1 .. Len(rx') : ~ rx'[i].err
    <3>1. PICK r : r = [src |-> m.src, cmd |-> m.cmd, err |-> FALSE]
      OBVIOUS
    <3>2. r \in Replies /\ ~ r.err
      BY <2>3, <3>1 DEF Messages, Replies
    <3>3. rx' = Append(rx, r)
      BY <2>3, <3>1
    <3>4. Len(rx') = Len(rx) + 1 /\ rx'[Len(rx) + 1] = r /\ \A i \in 1 .. Len(rx) : rx'[i] = rx[i]
      BY <1>1, <3>2, <3>3
    <3> QED
      BY <1>1, <3>2, <3>4 DEF NoErrors
  <2> QED
    BY <2>1, <2>2, <2>3 DEF RxMoves
<1>3. \A t \in Threads : ~ resp'[t].err
  <2>1. CASE resp' = resp
    BY <2>1 DEF NoErrors
  <2>2. ASSUME NEW t \in Threads, resp' = [resp EXCEPT ![t] = NoReply]
        PROVE  \A s \in Threads : ~ resp'[s].err
    BY <1>1, <2>2 DEF NoErrors, NoReply
  <2>3. ASSUME NEW t \in Threads, rx # <<>>, resp' = [resp EXCEPT ![t] = Head(rx)]
        PROVE  \A s \in Threads : ~ resp'[s].err
    <3>1. Head(rx) = rx[1] /\ 1 \in 1 .. Len(rx)
      BY <1>1, <2>3
    <3> QED
      BY <1>1, <2>3, <3>1 DEF NoErrors
  <2> QED
    BY <2>1, <2>2, <2>3 DEF RespMoves
<1> QED
  BY <1>2, <1>3 DEF NoErrors

(* A step of a thread that leaves the channels alone. *)
LEMMA ChannelsKept ==
  ASSUME CInv, NEW t \in Threads, NEW l, Goto(t, l), UNCHANGED ch,
         BootDone' => BootDone,
         t \in Workers => ChannelsAt(l, asi[t])',
         \A v \in Workers : v # t => asi'[v] = asi[v]
  PROVE  ChannelsSet'
<1> USE CInvParts
<1>1. pc'[t] = l /\ \A s \in Threads : s # t => pc'[s] = pc[s]
  BY DEF Goto, TypeOK, ThrTypeOK
<1>2. ASSUME NEW w \in Workers PROVE ChannelsAt(pc[w], asi[w])'
  <2>1. CASE w = t
    BY <1>1, <1>2, <2>1 DEF ChannelsAt
  <2>2. CASE w # t
    BY <1>1, <1>2, <2>2 DEF ChannelsAt, ChannelsSet
  <2> QED
    BY <2>1, <2>2
<1> QED
  BY <1>2 DEF ChannelsSet

LEMMA RpcChannels ==
  ASSUME CInv, NEW t \in Threads, RpcStep(t) \/ RpcInterrupt(t)
  PROVE  NoErrors' /\ ChannelsSet'
<1> USE CInvParts
<1>1. /\ UNCHANGED <<ch, boot_status, asi>> /\ pc[t] \in RpcLabels
      /\ \E l \in RpcLabels : Goto(t, l)
      /\ RxMoves /\ RespMoves
  BY DEF RpcStep, RpcPost, RpcSend, RpcWait, RpcInterrupt, RpcConsume, RpcRead, RpcFail, Post,
         chVars, RpcLabels, RxMoves, RespMoves
<1>2. t \in Workers => \A l \in RpcLabels : ChannelsAt(l, asi[t])'
  BY <1>1 DEF ChannelsAt, ChannelsSet
<1> QED
  BY <1>1, <1>2, NoErrorsKept, ChannelsKept DEF BootDone

LEMMA UserChannels ==
  ASSUME CInv, NEW u \in Users, UserCall(u) \/ UserReturn(u)
  PROVE  NoErrors' /\ ChannelsSet'
<1> USE CInvParts
<1>1. /\ UNCHANGED <<ch, boot_status, asi>> /\ u \in Threads /\ u \notin Workers
      /\ \E l : Goto(u, l)
      /\ RxMoves /\ RespMoves
  BY DEF UserCall, UserReturn, chVars, RxMoves, RespMoves
<1> QED
  BY <1>1, NoErrorsKept, ChannelsKept DEF BootDone

LEMMA PmChannels ==
  ASSUME CInv, PmSuspend \/ PmStep \/ PmEnterAllocFail \/ PmEnterInterrupt
  PROVE  NoErrors' /\ ChannelsSet'
<1> USE CInvParts
<1>1. /\ UNCHANGED <<ch, asi, rx>> /\ \E l : Goto("pm", l)
      /\ RespMoves /\ (BootDone' => BootDone)
  BY DEF PmSuspend, PmStep, PmEnterAllocFail, PmEnterInterrupt, PmPrepared, PmEnterPost, PmEnterSend,
         PmEnterWait, PmEnterDone, PmEnterFail, PowerCycle, PmResume, Post, chVars, RespMoves, BootDone
<1>2. NoErrors'
  BY <1>1, NoErrorsKept DEF RxMoves
<1>3. ChannelsSet'
  BY <1>1, ChannelsKept
<1> QED
  BY <1>2, <1>3

(* The worker sets the channels up one after the other. *)
LEMMA WorkerChannels ==
  ASSUME CInv, NEW w \in Workers, WorkerStep(w)
  PROVE  NoErrors' /\ ChannelsSet'
<1> USE CInvParts
<1>1. UNCHANGED rx /\ RespMoves
  BY DEF WorkerStep, WorkStart, BootCompletePost, BootCompleteCheck, BootCompleteNested, BootCompleteNestedWake,
         BootCompleteReset, BootCompleteRequest, BootCompleteWait, BootCompleteDone, CmdPost, CmdSend, CmdWait,
         CmdStatus, CmdFail, BootFail, ChannelReset, ChannelReady, SeqStart, SeqReply, RespMoves, chVars
<1>2. NoErrors'
  BY <1>1, NoErrorsKept DEF RxMoves
<1> SUFFICES ChannelsSet'
  BY <1>2
<1>3. Active(w)
  BY DEF WorkerStep, WorkStart, BootCompletePost, BootCompleteCheck, BootCompleteNested, BootCompleteNestedWake,
         BootCompleteReset, BootCompleteRequest, BootCompleteWait, BootCompleteDone, CmdPost, CmdSend, CmdWait,
         CmdStatus, CmdFail, BootFail, ChannelReset, ChannelReady, SeqStart, SeqReply, Active
<1>4. w \in Threads /\ ~ BootDone /\ \A v \in Workers : v # w => pc[v] = "idle"
  BY <1>3, WorkerAlone
<1>5. PlaceOf(pc[w], asi[w]) /\ ChannelsAt(pc[w], asi[w])
  BY DEF SInv, TInv, SeqPlace, ChannelsSet
<1>6. ASSUME NEW l, Goto(w, l), ChannelsAt(l, asi[w])',
             BootDone' => ch'["RM"] = "synced" /\ ch'["RM_NOTIFY"] = "synced"
      PROVE  ChannelsSet'
  <2>1. pc'[w] = l /\ \A v \in Workers : v # w => pc'[v] = "idle"
    BY <1>4, <1>6 DEF Goto, TypeOK, ThrTypeOK
  <2>2. ASSUME NEW v \in Workers PROVE ChannelsAt(pc[v], asi[v])'
    BY <1>6, <2>1, <2>2 DEF ChannelsAt, RpcLabels
  <2> QED
    BY <1>6, <2>2 DEF ChannelsSet
<1>7. CASE ChannelReset(w)
  <2>1. /\ asi[w] \in {0, 2, 3} /\ Goto(w, "ch_ready") /\ UNCHANGED <<asi, boot_status>>
        /\ ch' = [ch EXCEPT ![ResetChannel(w)] = "sync"] /\ pc[w] = "ch_reset"
    BY <1>5, <1>7 DEF ChannelReset, PlaceOf
  <2>2. asi[w] = 3 => ResetChannel(w) = "RM_NOTIFY" /\ ch["RM"] = "synced"
    BY <1>5, <2>1, AdminSeqFacts DEF ResetChannel, ChannelOf, ChannelsAt
  <2>3. ChannelsAt("ch_ready", asi[w])'
    BY <2>1, <2>2 DEF ChannelsAt, TypeOK, ChTypeOK, Channels
  <2> QED
    BY <1>4, <1>6, <2>1, <2>3 DEF BootDone
<1>8. CASE ChannelReady(w)
  <2>1. /\ asi[w] \in {0, 2, 3} /\ UNCHANGED boot_status /\ pc[w] = "ch_ready"
        /\ \E l \in {"seq_alloc", "rpc_post"} : Goto(w, l)
        /\ ch' = [ch EXCEPT ![ResetChannel(w)] = "synced"]
        /\ asi'[w] = asi[w] + 1
    BY <1>5, <1>8 DEF ChannelReady, PlaceOf, TypeOK, ThrTypeOK
  <2>2. /\ asi[w] = 3 => ResetChannel(w) = "RM_NOTIFY" /\ ch["RM"] = "synced"
        /\ asi[w] = 2 => ResetChannel(w) = "RM"
    BY <1>5, <2>1, AdminSeqFacts DEF ResetChannel, ChannelOf, ChannelsAt
  <2>3. /\ asi'[w] >= 3 => ch'["RM"] = "synced"
        /\ asi'[w] = 4 => ch'["RM_NOTIFY"] = "synced"
    BY <2>1, <2>2 DEF TypeOK, ChTypeOK, Channels
  <2>4. \A l \in {"seq_alloc", "rpc_post"} : ChannelsAt(l, asi[w])'
    BY <2>3 DEF ChannelsAt
  <2> QED
    BY <1>4, <1>6, <2>1, <2>4 DEF BootDone
<1>9. CASE SeqStart(w)
  <2>1. /\ pc[w] = "seq_alloc" /\ asi[w] = 1 /\ UNCHANGED <<asi, ch>> /\ ~ BootDone'
        /\ \E l : Goto(w, l)
    BY <1>4, <1>5, <1>9 DEF SeqStart, PlaceOf, BootDone, SetStatus, chVars
  <2> QED
    BY <1>6, <2>1 DEF ChannelsAt
<1>10. CASE SeqReply(w)
  <2>1. /\ pc[w] \in RpcLabels /\ asi[w] \in 1 .. 4 /\ UNCHANGED ch /\ ~ resp[w].err
    BY <1>4, <1>5, <1>10 DEF SeqReply, PlaceOf, RpcLabels, chVars, NoErrors
  <2>2. asi[w] = 1 \/ asi[w] = 2 \/ asi[w] = 3 \/ asi[w] = 4
    BY <2>1
  <2>3. /\ asi[w] >= 3 => ch["RM"] = "synced"
        /\ asi[w] = 4 => ch["RM_NOTIFY"] = "synced"
    BY <1>5, <2>1 DEF ChannelsAt
  <2>4. CASE /\ Goto(w, "idle") /\ UNCHANGED asi
             /\ BootDone' => AdminSeq[asi[w]] = "RM_BOOTSTRAP"
    <3>1. BootDone' => asi[w] = 4
      BY <2>2, <2>4, AdminSeqFacts
    <3> QED
      BY <1>6, <2>1, <2>3, <2>4, <3>1 DEF ChannelsAt, RpcLabels
  <2>5. CASE /\ AdminSeq[asi[w]] = "VERSION" /\ Goto(w, "rpc_post") /\ UNCHANGED boot_status
             /\ asi' = [asi EXCEPT ![w] = @ + 1]
    <3>1. asi'[w] = 2
      BY <2>2, <2>5, AdminSeqFacts DEF TypeOK, ThrTypeOK
    <3> QED
      BY <1>4, <1>6, <2>5, <3>1 DEF ChannelsAt, BootDone
  <2>6. CASE UNCHANGED <<asi, boot_status>> /\ Goto(w, "ch_reset")
    BY <1>4, <1>6, <2>1, <2>3, <2>6 DEF ChannelsAt, BootDone
  <2> QED
    BY <1>4, <1>10, <2>1, <2>4, <2>5, <2>6 DEF SeqReply, SetStatus, BootDone
<1>11. CASE ~ (ChannelReset(w) \/ ChannelReady(w) \/ SeqStart(w) \/ SeqReply(w))
  <2>1. WorkStart(w) \/ (pc[w] \in BootLabels /\ UNCHANGED asi)
    BY <1>11 DEF WorkerStep, BootCompletePost, BootCompleteCheck, BootCompleteNested, BootCompleteNestedWake,
       BootCompleteReset, BootCompleteRequest, BootCompleteWait, BootCompleteDone, CmdPost, CmdSend, CmdWait,
       CmdStatus, CmdFail, BootFail, BootLabels
  <2>2. asi'[w] = 0
    BY <1>5, <2>1 DEF WorkStart, PlaceOf, TypeOK, ThrTypeOK
  <2>3. /\ UNCHANGED ch /\ ~ BootDone' /\ \E l : Goto(w, l)
    BY <1>4, <1>11 DEF WorkerStep, WorkStart, BootCompletePost, BootCompleteCheck, BootCompleteNested,
       BootCompleteNestedWake, BootCompleteReset, BootCompleteRequest, BootCompleteWait, BootCompleteDone,
       CmdPost, CmdSend, CmdWait, CmdStatus, CmdFail, BootFail, Post, SetStatus, BootDone, chVars
  <2> QED
    BY <1>6, <2>2, <2>3 DEF ChannelsAt
<1> QED
  BY <1>7, <1>8, <1>9, <1>10, <1>11

LEMMA IsrChannels ==
  ASSUME CInv, IsrStep
  PROVE  NoErrors' /\ ChannelsSet'
<1>1. UNCHANGED <<boot_status, chVars, thrVars>>
  BY DEF IsrStep, IsrEnter, IsrBootRead, IsrBootPost, IsrBootWake, IsrAdminRead, IsrAdminPost,
         IsrAdminSeen, IsrAdminLate, IsrAdminWake
<1> QED
  BY <1>1, CInvParts DEF NoErrors, ChannelsSet, ChannelsAt, BootDone, chVars, thrVars

LEMMA FwChannels ==
  ASSUME ~ FwErr, CInv, FwStep \/ \E k \in FwIrqs : FwIrq(k)
  PROVE  NoErrors' /\ ChannelsSet'
<1> USE CInvParts
<1>1. UNCHANGED <<boot_status, thrVars>>
  BY DEF FwStep, FwBooted, FwReady, FwTakeCmd, FwAckCmd, FwReply, FwEnterSC7, FwEstablish, FwIrq
<1>2. \A c \in Channels : ch[c] = "synced" => ch'[c] = "synced"
  BY DEF FwStep, FwBooted, FwReady, FwTakeCmd, FwAckCmd, FwReply, FwEnterSC7, FwEstablish, FwIrq, chVars,
         TypeOK, ChTypeOK
<1>3. RxMoves
  <2>1. CASE FwReply
    <3>1. PICK err \in {FALSE} \cup {FwErr} :
             rx' = Append(rx, [src |-> Head(tx).src, cmd |-> Head(tx).cmd, err |-> err])
      BY <2>1 DEF FwReply
    <3>2. FwErr = FALSE
      BY BootAssumption DEF BootAssumption
    <3>3. Head(tx) \in Messages
      BY <2>1 DEF FwReply, FwServes, TypeOK, ChTypeOK
    <3> QED
      BY <3>1, <3>2, <3>3 DEF RxMoves
  <2>2. CASE ~ FwReply
    BY <2>2 DEF FwStep, FwBooted, FwReady, FwTakeCmd, FwAckCmd, FwEnterSC7, FwEstablish, FwIrq, chVars, RxMoves
  <2> QED
    BY <2>1, <2>2
<1>4. NoErrors'
  BY <1>1, <1>3, NoErrorsKept DEF RespMoves, thrVars
<1>5. ChannelsSet'
  BY <1>1, <1>2 DEF ChannelsSet, ChannelsAt, BootDone, Channels, thrVars
<1> QED
  BY <1>4, <1>5

LEMMA CStep ==
  ASSUME ~ EarlySuspend, ~ AllocFail, ~ FwErr
  PROVE  CInv /\ [Next]_vars => CInv'
<1> SUFFICES ASSUME CInv, [Next]_vars PROVE CInv'
  OBVIOUS
<1>1. FInv'
  BY FStep, CInvParts
<1>2. NoErrors' /\ ChannelsSet'
  <2>1. CASE UNCHANGED vars
    BY <2>1 DEF CInv, vars, chVars, thrVars, NoErrors, ChannelsSet, ChannelsAt, BootDone
  <2> QED
    BY <2>1, RpcChannels, WorkerChannels, PmChannels, UserChannels, IsrChannels, FwChannels DEF Next
<1> QED
  BY <1>1, <1>2 DEF CInv

(* When the firmware reports no error, every client channel is synced once *)
(* DCE_FW_BOOT_DONE is set, across suspends and resumes and whatever       *)
(* signals and interrupts come in.  (With an error it need not be:         *)
(* dce_admin_setup_clients_ipc gives up and returns success.)              *)
THEOREM ChannelsAreSetUp ==
  ASSUME ~ EarlySuspend, ~ AllocFail, ~ FwErr
  PROVE  Spec => []BootDoneMeansChannels
<1>1. CInv => BootDoneMeansChannels
  BY CInvParts DEF FInv, Serving, ChannelsSet, BootDoneMeansChannels, Channels
<1> QED
  BY <1>1, CInit, CStep, PTL DEF Spec
-----------------------------------------------------------------------------
(* Answers of a driver with one user.                                      *)

(* At most one process uses the debugfs nodes at a time. *)
OneUser == \A u \in Users, v \in Users : u = v

(* The wait a thread at label l has posted a request for and has not been  *)
(* let out of yet.                                                         *)
AsksFor(l) ==
    CASE l \in {"bc_check", "bc_nested", "bc_int", "bc_wait"} -> {"BOOT_COMPLETE"}
      [] l \in {"cmd_send", "cmd_wait"}                       -> {"BOOT_CMD"}
      [] l \in {"rpc_send", "rpc_wait"}                       -> {"ADMIN_IPC"}
      [] l \in {"sc7_send", "sc7_wait"}                       -> {"SC7_ENTER"}
      [] OTHER                                                -> {}

(* The answer has been accepted: the wake-up is coming or there. *)
Woken(w) == complete[w] \/ w \in isr_wait \/ (w = "ADMIN_IPC" /\ isr = "adm_wake")

(* Until then the FSM is in the state that accepts it. *)
Expected == \A t \in Threads : \A w \in AsksFor(pc[t]) : Woken(w) \/ w \in WaitOf(c_state)

(* The places a request or its answer can be in on its way to the handler; *)
(* a frame that an interrupted call left behind does not count.            *)
Sent(enter) == tx # <<>> /\ (tx[Len(tx)].cmd = "ENTER_SC7" <=> enter)

UnderWay(w) ==
    \/ /\ w = "BOOT_COMPLETE"
       /\ boot_int \/ irq_mb.kind = "READY" \/ (isr = "boot_post" /\ ack.kind = "READY")
    \/ /\ w = "BOOT_CMD"
       /\ \/ cmd_mb # 0 \/ fw_cmd # 0 \/ irq_mb.kind = "BOOT_CMD"
          \/ isr = "boot_post" /\ ack.kind = "BOOT_CMD"
    \/ /\ w = "ADMIN_IPC"
       /\ Sent(FALSE) \/ isr = "adm_seen" \/ (rx # <<>> /\ (adm_mb \/ isr = "adm_post"))
    \/ /\ w = "SC7_ENTER"
       /\ \/ Sent(TRUE) \/ irq_mb.kind = "SC7_ENTERED"
          \/ isr = "boot_post" /\ ack.kind = "SC7_ENTERED"

WaitLabels == {"bc_wait", "cmd_wait", "rpc_wait", "sc7_wait"}

Coming == \A t \in Threads : pc[t] \in WaitLabels =>
             \A w \in AsksFor(pc[t]) : Woken(w) \/ UnderWay(w)

(* No abort is reported, the boot interface wakes no admin call, only the  *)
(* suspend asks for SC7, and the handler's look at the admin channel is    *)
(* overtaken only if that may happen.                                      *)
InPlace ==
    /\ irq_mb.kind # "ABORT" /\ ack.kind # "ABORT"
    /\ "ADMIN_IPC" \notin isr_wait
    /\ \A w \in Workers : pc[w] \notin {"sc7_send", "sc7_wait"}
    /\ isr = "adm_seen" => Overtaken

Awaited == InPlace /\ Expected /\ Coming

WInv == FInv /\ Awaited

LEMMA WInit == Init => WInv
<1> SUFFICES ASSUME Init PROVE WInv
  OBVIOUS
<1>1. FInv
  BY FInit
<1>2. \A t \in Threads : pc[t] = "idle" /\ AsksFor(pc[t]) = {}
  BY DEF Init, AsksFor
<1>3. Workers \subseteq Threads
  BY DEF Threads
<1>4. InPlace
  BY <1>2, <1>3 DEF Init, InPlace, NoStatus, Irq
<1> QED
  BY <1>1, <1>2, <1>4 DEF WInv, Awaited, Expected, Coming

LEMMA WInvParts ==
  ASSUME WInv
  PROVE  /\ FInv /\ SInv /\ TypeOK /\ Alone /\ HandlerHolds /\ InPlace /\ Expected /\ Coming
         /\ "pm" \in Threads /\ Workers \subseteq Threads /\ Users \subseteq Threads
         /\ "pm" \notin Workers /\ "pm" \notin Users /\ Workers \cap Users = {}
  BY BootAssumption DEF WInv, Awaited, FInv, SInv, TInv, Threads, Workers, BootAssumption

(* Which labels ask for what. *)
LEMMA AskLabels ==
  /\ \A l : "BOOT_COMPLETE" \in AsksFor(l) <=> l \in {"bc_check", "bc_nested", "bc_int", "bc_wait"}
  /\ \A l : "BOOT_CMD" \in AsksFor(l) <=> l \in {"cmd_send", "cmd_wait"}
  /\ \A l : "ADMIN_IPC" \in AsksFor(l) <=> l \in {"rpc_send", "rpc_wait"}
  /\ \A l : "SC7_ENTER" \in AsksFor(l) <=> l \in {"sc7_send", "sc7_wait"}
  /\ \A l : AsksFor(l) \subseteq {"BOOT_COMPLETE", "BOOT_CMD", "ADMIN_IPC", "SC7_ENTER"}
  /\ \A l : \A v \in AsksFor(l), w \in AsksFor(l) : v = w
  BY DEF AsksFor

(* A thread that is neither idle nor suspended. *)
Busy(t) == pc[t] \notin {"idle", "suspended", "powered"}

LEMMA AskersAreBusy ==
  ASSUME NEW t \in Threads, ~ Busy(t)
  PROVE  AsksFor(pc[t]) = {} /\ pc[t] \notin WaitLabels
  BY DEF AsksFor, Busy, WaitLabels

(* A thread that acts, or may start to, has the driver to itself. *)
LEMMA OthersQuiet ==
  ASSUME FInv, OneUser, NEW t \in Threads,
         \/ Busy(t) \/ t \in work
         \/ t = "pm" /\ pc["pm"] # "idle"
         \/ t = "pm" /\ BootDone /\ \A u \in Users : pc[u] = "idle"
         \/ t \in Users /\ BootDone /\ pc["pm"] = "idle"
  PROVE  \A s \in Threads : s # t => ~ Busy(s)
<1> USE DEF FInv
<1>1. /\ Alone /\ work \subseteq Workers /\ "pm" \notin Workers /\ "pm" \notin Users /\ Workers \cap Users = {}
  BY BootAssumption DEF SInv, TInv, TypeOK, ThrTypeOK, BootAssumption, Workers
<1> SUFFICES ASSUME NEW s \in Threads, s # t, Busy(s) PROVE FALSE
  OBVIOUS
<1>2. pc[s] # "idle" /\ (Busy(t) => pc[t] # "idle")
  BY DEF Busy
<1>3. CASE t \in Workers
  <2>1. Active(t)
    BY <1>1, <1>2, <1>3 DEF Active
  <2>2. ~ BootDone /\ pc["pm"] = "idle" /\ \A v \in Workers : v # t => ~ Active(v)
    BY <1>1, <1>3, <2>1 DEF Alone
  <2> QED
    BY <1>1, <1>2, <2>2 DEF Alone, Active, Threads
<1>4. CASE s \in Workers /\ t \notin Workers
  <2>1. ~ BootDone /\ pc["pm"] = "idle"
    BY <1>1, <1>2, <1>4 DEF Alone, Active
  <2>2. \A u \in Users : pc[u] = "idle"
    BY <1>1, <2>1 DEF Alone
  <2> QED
    BY <1>1, <1>2, <1>4, <2>1, <2>2 DEF Threads
<1>5. CASE s \notin Workers /\ t \notin Workers
  <2>1. CASE t = "pm"
    <3>1. s \in Users /\ pc["pm"] = "idle"
      BY <1>1, <1>2, <1>5, <2>1 DEF Threads, Alone
    <3> QED
      BY <1>1, <1>2, <2>1, <3>1
  <2>2. CASE s = "pm"
    <3>1. t \in Users /\ pc["pm"] # "idle"
      BY <1>1, <1>2, <1>5, <2>2 DEF Threads
    <3> QED
      BY <1>1, <1>2, <2>2, <3>1 DEF Alone
  <2>3. CASE s \in Users /\ t \in Users
    BY <2>3 DEF OneUser
  <2> QED
    BY <1>5, <2>1, <2>2, <2>3 DEF Threads
<1> QED
  BY <1>3, <1>4, <1>5

(* A thread that has the driver to itself moves to label l. *)
LEMMA AskerMoves ==
  ASSUME WInv, NEW t \in Threads, NEW l, Goto(t, l),
         \A s \in Threads : s # t => ~ Busy(s),
         UNCHANGED <<isr, isr_wait>>, irq_mb'.kind # "ABORT", ack'.kind # "ABORT",
         t \in Workers => l \notin {"sc7_send", "sc7_wait"},
         \A w \in AsksFor(l) : Woken(w)' \/ w \in WaitOf(c_state'),
         l \in WaitLabels => \A w \in AsksFor(l) : Woken(w)' \/ UnderWay(w)'
  PROVE  Awaited'
<1> USE WInvParts
<1>1. pc'[t] = l /\ \A s \in Threads : s # t => pc'[s] = pc[s]
  BY DEF Goto, TypeOK, ThrTypeOK
<1>2. \A s \in Threads : s # t => AsksFor(pc'[s]) = {} /\ pc'[s] \notin WaitLabels
  BY <1>1, AskersAreBusy
<1>3. InPlace'
  BY <1>1 DEF InPlace
<1>4. Expected'
  <2> SUFFICES ASSUME NEW s \in Threads, NEW w \in AsksFor(pc'[s])
               PROVE  Woken(w)' \/ w \in WaitOf(c_state')
    BY DEF Expected
  <2>1. s = t
    BY <1>2
  <2> QED
    BY <1>1, <2>1
<1>5. Coming'
  <2> SUFFICES ASSUME NEW s \in Threads, pc'[s] \in WaitLabels, NEW w \in AsksFor(pc'[s])
               PROVE  Woken(w)' \/ UnderWay(w)'
    BY DEF Coming
  <2>1. s = t
    BY <1>2
  <2> QED
    BY <1>1, <2>1
<1> QED
  BY <1>3, <1>4, <1>5 DEF Awaited

(* It asks for nothing there. *)
LEMMA RestMoves ==
  ASSUME WInv, NEW t \in Threads, NEW l, Goto(t, l), AsksFor(l) = {},
         \A s \in Threads : s # t => ~ Busy(s),
         UNCHANGED <<isr, isr_wait>>, irq_mb'.kind # "ABORT", ack'.kind # "ABORT"
  PROVE  Awaited'
<1>1. l \notin {"sc7_send", "sc7_wait"}
  BY AskLabels
<1> QED
  BY <1>1, AskerMoves

(* An admin call never sends ENTER_SC7. *)
LEMMA CallIsNoEnter ==
  ASSUME SInv, NEW t \in Threads, pc[t] \in RpcLabels
  PROVE  Request(t) \in Messages /\ Request(t).cmd # "ENTER_SC7"
<1>1. Request(t) \in Messages
  BY RequestType DEF SInv
<1>2. CASE t \in Workers
  <2>1. Request(t).cmd = AdminSeq[asi[t]] /\ asi[t] \in 1 .. 4
    BY <1>2 DEF Request, Workers, SInv, TInv, SeqPlace, PlaceOf
  <2>2. asi[t] = 1 \/ asi[t] = 2 \/ asi[t] = 3 \/ asi[t] = 4
    BY <2>1
  <2> QED
    BY <1>1, <2>1, <2>2, AdminSeqFacts
<1>3. CASE t \notin Workers
  BY <1>1, <1>3 DEF Request
<1> QED
  BY <1>2, <1>3

LEMMA SentLast ==
  ASSUME TypeOK, NEW m \in Messages, tx' = Append(tx, m)
  PROVE  Sent(m.cmd = "ENTER_SC7")'
<1>1. tx \in Seq(Messages)
  BY DEF TypeOK, ChTypeOK
<1>2. Len(tx') = Len(tx) + 1 /\ tx'[Len(tx) + 1] = m /\ tx' # <<>>
  BY <1>1
<1> QED
  BY <1>2 DEF Sent

LEMMA RpcAwaits ==
  ASSUME WInv, OneUser, NEW t \in Threads, RpcStep(t) \/ RpcInterrupt(t)
  PROVE  Awaited'
<1> USE WInvParts
<1>1. /\ pc[t] \in RpcLabels /\ Busy(t)
      /\ UNCHANGED <<irq_mb, ack, isr, isr_wait>> /\ irq_mb'.kind # "ABORT" /\ ack'.kind # "ABORT"
  BY DEF RpcStep, RpcPost, RpcSend, RpcWait, RpcInterrupt, RpcConsume, RpcRead, RpcFail, RpcLabels,
         Busy, mbVars, isrVars, InPlace
<1>2. \A s \in Threads : s # t => ~ Busy(s)
  BY <1>1, OthersQuiet
<1>3. CASE RpcPost(t)
  <2>1. CASE dce_fsm_validate_event(c_state, "ADMIN_IPC_MSG_REQUESTED")
    <3>1. Goto(t, "rpc_send") /\ c_state' = "ADMIN_WFI"
      BY <1>3, <2>1 DEF RpcPost, Post, dce_fsm_set_state, StateAfter, AbortEvents
    <3>2. AsksFor("rpc_send") = {"ADMIN_IPC"} /\ "ADMIN_IPC" \in WaitOf(c_state') /\ "rpc_send" \notin WaitLabels
      BY <3>1 DEF AsksFor, WaitOf, WaitLabels
    <3> QED
      BY <1>1, <1>2, <3>1, <3>2, AskerMoves
  <2>2. CASE ~ dce_fsm_validate_event(c_state, "ADMIN_IPC_MSG_REQUESTED")
    <3>1. Goto(t, "rpc_err") /\ AsksFor("rpc_err") = {}
      BY <1>3, <2>2 DEF RpcPost, Post, AsksFor
    <3> QED
      BY <1>1, <1>2, <3>1, RestMoves
  <2> QED
    BY <2>1, <2>2
<1>4. CASE RpcSend(t)
  <2>1. CASE tx' = Append(tx, Request(t)) /\ Goto(t, "rpc_wait")
    <3>1. Sent(FALSE)'
      <4>1. PICK m : m = Request(t)
        OBVIOUS
      <4>2. m \in Messages /\ m.cmd # "ENTER_SC7" /\ tx' = Append(tx, m)
        BY <1>1, <2>1, <4>1, CallIsNoEnter
      <4>3. Sent(m.cmd = "ENTER_SC7")'
        BY <4>2, SentLast
      <4> QED
        BY <4>2, <4>3 DEF Sent
    <3>2. AsksFor("rpc_wait") = {"ADMIN_IPC"} /\ AsksFor("rpc_send") = {"ADMIN_IPC"}
      BY DEF AsksFor
    <3>3. Woken("ADMIN_IPC") \/ "ADMIN_IPC" \in WaitOf(c_state)
      BY <1>4, <3>2 DEF RpcSend, Expected
    <3>4. Woken("ADMIN_IPC")' \/ "ADMIN_IPC" \in WaitOf(c_state')
      BY <1>1, <1>4, <3>3 DEF RpcSend, Woken, fsmVars
    <3>5. UnderWay("ADMIN_IPC")'
      BY <3>1 DEF UnderWay
    <3> QED
      BY <1>1, <1>2, <2>1, <3>2, <3>4, <3>5, AskerMoves
  <2>2. CASE Goto(t, "rpc_fail")
    BY <1>1, <1>2, <2>2, RestMoves DEF AsksFor
  <2> QED
    BY <1>4, <2>1, <2>2 DEF RpcSend
<1>5. CASE RpcWait(t) \/ RpcInterrupt(t) \/ RpcConsume(t) \/ RpcRead(t) \/ RpcFail(t)
  <2>1. PICK l \in {"rpc_woken", "rpc_read", "rpc_fail", "rpc_ok", "rpc_err"} : Goto(t, l)
    BY <1>5 DEF RpcWait, RpcInterrupt, RpcConsume, RpcRead, RpcFail
  <2>2. AsksFor(l) = {}
    BY <2>1 DEF AsksFor
  <2> QED
    BY <1>1, <1>2, <2>1, <2>2, RestMoves
<1> QED
  BY <1>3, <1>4, <1>5 DEF RpcStep

LEMMA UserAwaits ==
  ASSUME WInv, OneUser, NEW u \in Users, UserCall(u) \/ UserReturn(u)
  PROVE  Awaited'
<1> USE WInvParts
<1>1. /\ u \in Threads /\ UNCHANGED <<irq_mb, ack, isr, isr_wait>> /\ irq_mb'.kind # "ABORT" /\ ack'.kind # "ABORT"
      /\ \E l \in {"rpc_post", "idle"} : Goto(u, l)
      /\ Busy(u) \/ (BootDone /\ pc["pm"] = "idle")
  BY DEF UserCall, UserReturn, mbVars, isrVars, Busy, InPlace
<1>2. \A s \in Threads : s # u => ~ Busy(s)
  BY <1>1, OthersQuiet
<1>3. PICK l \in {"rpc_post", "idle"} : Goto(u, l)
  BY <1>1
<1>4. AsksFor(l) = {}
  BY <1>3 DEF AsksFor
<1> QED
  BY <1>1, <1>2, <1>3, <1>4, RestMoves

(* Suspend and resume. *)
LEMMA PmAwaits ==
  ASSUME WInv, OneUser, ~ EarlySuspend, PmSuspend \/ PmStep \/ PmEnterAllocFail \/ PmEnterInterrupt
  PROVE  Awaited'
<1> USE WInvParts
<1>1. /\ UNCHANGED <<ack, isr_wait, isr>> /\ irq_mb'.kind # "ABORT" /\ ack'.kind # "ABORT"
      /\ pc["pm"] # "idle" \/ (BootDone /\ \A u \in Users : pc[u] = "idle")
  BY DEF PmSuspend, PmStep, PmEnterAllocFail, PmEnterInterrupt, PmPrepared, PmEnterPost, PmEnterSend,
         PmEnterWait, PmEnterDone, PmEnterFail, PowerCycle, PmResume, mbVars, isrVars, InPlace, NoStatus, Irq
<1>2. \A s \in Threads : s # "pm" => ~ Busy(s)
  BY <1>1, OthersQuiet
<1>3. CASE PmEnterPost
  <2>1. CASE dce_fsm_validate_event(c_state, "SC7_ENTER_REQUESTED")
    <3>1. Goto("pm", "sc7_send") /\ c_state' = "SC7_ENTER_WFI"
      BY <1>3, <2>1 DEF PmEnterPost, Post, dce_fsm_set_state, StateAfter, AbortEvents
    <3>2. AsksFor("sc7_send") = {"SC7_ENTER"} /\ "SC7_ENTER" \in WaitOf(c_state') /\ "sc7_send" \notin WaitLabels
      BY <3>1 DEF AsksFor, WaitOf, WaitLabels
    <3> QED
      BY <1>1, <1>2, <3>1, <3>2, AskerMoves
  <2>2. CASE ~ dce_fsm_validate_event(c_state, "SC7_ENTER_REQUESTED")
    <3>1. Goto("pm", "idle") /\ AsksFor("idle") = {}
      BY <1>3, <2>2 DEF PmEnterPost, Post, AsksFor
    <3> QED
      BY <1>1, <1>2, <3>1, RestMoves
  <2> QED
    BY <2>1, <2>2
<1>4. CASE PmEnterSend
  <2>1. CASE tx' = Append(tx, [src |-> "pm", cmd |-> "ENTER_SC7"]) /\ Goto("pm", "sc7_wait")
    <3>1. Sent(TRUE)'
      <4>1. PICK m : m = [src |-> "pm", cmd |-> "ENTER_SC7"]
        OBVIOUS
      <4>2. m \in Messages /\ m.cmd = "ENTER_SC7" /\ tx' = Append(tx, m)
        BY <2>1, <4>1 DEF Messages, AdminCmds
      <4>3. Sent(m.cmd = "ENTER_SC7")'
        BY <4>2, SentLast
      <4> QED
        BY <4>2, <4>3 DEF Sent
    <3>2. AsksFor("sc7_wait") = {"SC7_ENTER"} /\ AsksFor("sc7_send") = {"SC7_ENTER"}
      BY DEF AsksFor
    <3>3. Woken("SC7_ENTER") \/ "SC7_ENTER" \in WaitOf(c_state)
      BY <1>4, <3>2 DEF PmEnterSend, Expected
    <3>4. Woken("SC7_ENTER")' \/ "SC7_ENTER" \in WaitOf(c_state')
      BY <1>1, <1>4, <3>3 DEF PmEnterSend, Woken, fsmVars
    <3>5. UnderWay("SC7_ENTER")'
      BY <3>1 DEF UnderWay
    <3> QED
      BY <1>1, <1>2, <2>1, <3>2, <3>4, <3>5, AskerMoves
  <2>2. CASE Goto("pm", "sc7_fail")
    BY <1>1, <1>2, <2>2, RestMoves DEF AsksFor
  <2> QED
    BY <1>4, <2>1, <2>2 DEF PmEnterSend
<1>5. CASE ~ PmEnterPost /\ ~ PmEnterSend
  <2>1. \E l \in {"rpc_post", "suspended", "sc7_post", "idle", "sc7_done", "sc7_fail", "powered"} : Goto("pm", l)
    BY <1>5 DEF PmSuspend, PmStep, PmEnterAllocFail, PmEnterInterrupt, PmPrepared, PmEnterWait, PmEnterDone,
                PmEnterFail, PowerCycle, PmResume, Post
  <2>2. PICK l \in {"rpc_post", "suspended", "sc7_post", "idle", "sc7_done", "sc7_fail", "powered"} : Goto("pm", l)
    BY <2>1
  <2>3. AsksFor(l) = {}
    BY <2>2 DEF AsksFor
  <2> QED
    BY <1>1, <1>2, <2>2, <2>3, RestMoves
<1> QED
  BY <1>3, <1>4, <1>5

(* The boot workers. *)
LEMMA WorkerAwaits ==
  ASSUME WInv, OneUser, NEW w \in Workers, WorkerStep(w)
  PROVE  Awaited'
<1> USE WInvParts
<1>1. /\ w \in Threads /\ UNCHANGED <<irq_mb, isr, isr_wait>> /\ irq_mb'.kind # "ABORT"
      /\ Busy(w) \/ w \in work
  BY DEF WorkerStep, WorkStart, BootCompletePost, BootCompleteCheck, BootCompleteNested, BootCompleteNestedWake,
         BootCompleteReset, BootCompleteRequest, BootCompleteWait, BootCompleteDone, CmdPost, CmdSend, CmdWait,
         CmdStatus, CmdFail, BootFail, ChannelReset, ChannelReady, SeqStart, SeqReply, mbVars, isrVars, InPlace, Busy
<1>2. ack'.kind # "ABORT"
  BY DEF WorkerStep, WorkStart, BootCompletePost, BootCompleteCheck, BootCompleteNested, BootCompleteNestedWake,
         BootCompleteReset, BootCompleteRequest, BootCompleteWait, BootCompleteDone, CmdPost, CmdSend, CmdWait,
         CmdStatus, CmdFail, BootFail, ChannelReset, ChannelReady, SeqStart, SeqReply, mbVars, InPlace, NoStatus, Irq
<1>3. \A s \in Threads : s # w => ~ Busy(s)
  BY <1>1, OthersQuiet
<1>4. ASSUME NEW l, Goto(w, l), AsksFor(l) = {} PROVE Awaited'
  BY <1>1, <1>2, <1>3, <1>4, RestMoves
<1>5. ASSUME NEW l, Goto(w, l), NEW x, AsksFor(l) = {x}, l \notin {"sc7_send", "sc7_wait"},
             Woken(x)' \/ x \in WaitOf(c_state'),
             l \in WaitLabels => Woken(x)' \/ UnderWay(x)'
      PROVE  Awaited'
  BY <1>1, <1>2, <1>3, <1>5, AskerMoves
<1>6. ASSUME NEW x \in AsksFor(pc[w]), UNCHANGED <<c_state, complete>>
      PROVE  Woken(x)' \/ x \in WaitOf(c_state')
  BY <1>1, <1>6 DEF Expected, Woken
<1>7. CASE BootCompletePost(w)
  <2>1. CASE dce_fsm_validate_event(c_state, "BOOT_COMPLETE_REQUESTED")
    <3>1. Goto(w, "bc_check") /\ c_state' = "BOOT_WAIT"
      BY <1>7, <2>1 DEF BootCompletePost, Post, dce_fsm_set_state, StateAfter, AbortEvents
    <3>2. AsksFor("bc_check") = {"BOOT_COMPLETE"} /\ "BOOT_COMPLETE" \in WaitOf(c_state') /\ "bc_check" \notin WaitLabels
      BY <3>1 DEF AsksFor, WaitOf, WaitLabels
    <3> QED
      BY <1>5, <3>1, <3>2
  <2>2. CASE ~ dce_fsm_validate_event(c_state, "BOOT_COMPLETE_REQUESTED")
    BY <1>4, <1>7, <2>2 DEF BootCompletePost, Post, AsksFor
  <2> QED
    BY <2>1, <2>2
<1>8. CASE BootCompleteCheck(w)
  <2>1. pc[w] = "bc_check" /\ UNCHANGED <<c_state, complete>> /\ \E l \in {"bc_nested", "bc_int"} : Goto(w, l)
    BY <1>8 DEF BootCompleteCheck, fsmVars
  <2>2. PICK l \in {"bc_nested", "bc_int"} : Goto(w, l)
    BY <2>1
  <2>3. AsksFor(l) = {"BOOT_COMPLETE"} /\ l \notin WaitLabels /\ "BOOT_COMPLETE" \in AsksFor(pc[w])
    BY <2>1, <2>2 DEF AsksFor, WaitLabels
  <2>4. Woken("BOOT_COMPLETE")' \/ "BOOT_COMPLETE" \in WaitOf(c_state')
    BY <1>6, <2>1, <2>3
  <2> QED
    BY <1>5, <2>2, <2>3, <2>4
<1>9. CASE BootCompleteRequest(w)
  <2>1. pc[w] = "bc_int" /\ UNCHANGED <<c_state, complete>> /\ Goto(w, "bc_wait") /\ boot_int'
    BY <1>9 DEF BootCompleteRequest, fsmVars
  <2>2. AsksFor("bc_wait") = {"BOOT_COMPLETE"} /\ "BOOT_COMPLETE" \in AsksFor(pc[w])
    BY <2>1 DEF AsksFor
  <2>3. Woken("BOOT_COMPLETE")' \/ "BOOT_COMPLETE" \in WaitOf(c_state')
    BY <1>6, <2>1, <2>2
  <2>4. UnderWay("BOOT_COMPLETE")'
    BY <2>1 DEF UnderWay
  <2> QED
    BY <1>5, <2>1, <2>2, <2>3, <2>4
<1>10. CASE CmdPost(w)
  <2>1. CASE dce_fsm_validate_event(c_state, "BOOT_CMD_MSG_REQUESTED")
    <3>1. Goto(w, "cmd_send") /\ c_state' = "BOOTCMD_WFI"
      BY <1>10, <2>1 DEF CmdPost, Post, dce_fsm_set_state, StateAfter, AbortEvents
    <3>2. AsksFor("cmd_send") = {"BOOT_CMD"} /\ "BOOT_CMD" \in WaitOf(c_state') /\ "cmd_send" \notin WaitLabels
      BY <3>1 DEF AsksFor, WaitOf, WaitLabels
    <3> QED
      BY <1>5, <3>1, <3>2
  <2>2. CASE ~ dce_fsm_validate_event(c_state, "BOOT_CMD_MSG_REQUESTED")
    BY <1>4, <1>10, <2>2 DEF CmdPost, Post, AsksFor
  <2> QED
    BY <2>1, <2>2
<1>11. CASE CmdSend(w)
  <2>1. CASE cmd_mb' = bci[w] /\ Goto(w, "cmd_wait")
    <3>1. pc[w] = "cmd_send" /\ UNCHANGED <<c_state, complete>>
      BY <1>11 DEF CmdSend, fsmVars
    <3>2. AsksFor("cmd_wait") = {"BOOT_CMD"} /\ "BOOT_CMD" \in AsksFor(pc[w])
      BY <3>1 DEF AsksFor
    <3>3. Woken("BOOT_CMD")' \/ "BOOT_CMD" \in WaitOf(c_state')
      BY <1>6, <3>1, <3>2
    <3>4. cmd_mb' # 0
      BY <2>1, NumBootCmdsFact DEF TypeOK, ThrTypeOK
    <3>5. UnderWay("BOOT_CMD")'
      BY <3>4 DEF UnderWay
    <3> QED
      BY <1>5, <2>1, <3>2, <3>3, <3>5
  <2>2. CASE Goto(w, "cmd_fail")
    BY <1>4, <2>2 DEF AsksFor
  <2> QED
    BY <1>11, <2>1, <2>2 DEF CmdSend
<1>12. CASE ~ (BootCompletePost(w) \/ BootCompleteCheck(w) \/ BootCompleteRequest(w) \/ CmdPost(w) \/ CmdSend(w))
  <2>1. \E l \in {"idle", "bc_post", "bc_nwake", "bc_reset", "bc_done", "cmd_post", "cmd_status",
                  "cmd_fail", "boot_fail", "ch_reset", "ch_ready", "seq_alloc", "rpc_post"} : Goto(w, l)
    BY <1>12 DEF WorkerStep, WorkStart, BootCompleteNested, BootCompleteNestedWake,
         BootCompleteReset, BootCompleteWait, BootCompleteDone, CmdWait,
         CmdStatus, CmdFail, BootFail, ChannelReset, ChannelReady, SeqStart, SeqReply, Post
  <2>2. PICK l \in {"idle", "bc_post", "bc_nwake", "bc_reset", "bc_done", "cmd_post", "cmd_status",
                    "cmd_fail", "boot_fail", "ch_reset", "ch_ready", "seq_alloc", "rpc_post"} : Goto(w, l)
    BY <2>1
  <2>3. AsksFor(l) = {}
    BY <2>2 DEF AsksFor
  <2> QED
    BY <1>4, <2>2, <2>3
<1> QED
  BY <1>7, <1>8, <1>9, <1>10, <1>11, <1>12

(* What a waiting state accepts from the boot interface is the answer it   *)
(* waits for.                                                              *)
LEMMA AcceptedIsAwaited ==
  ASSUME NEW s \in States, NEW k \in {"READY", "SC7_ENTERED", "BOOT_CMD"}, NEW w \in WaitOf(s),
         dce_fsm_validate_event(s, EventFor(k))
  PROVE  w \in WakesFor(k)
<1>1. /\ s = "BOOT_WAIT" => w = "BOOT_COMPLETE"
      /\ s = "BOOTCMD_WFI" => w = "BOOT_CMD"
      /\ s = "ADMIN_WFI" => w = "ADMIN_IPC"
      /\ s = "SC7_ENTER_WFI" => w = "SC7_ENTER"
      /\ s = "LOG_READY_WFI" => w = "LOG"
      /\ s \in {"BOOT_WAIT", "BOOTCMD_WFI", "ADMIN_WFI", "SC7_ENTER_WFI", "LOG_READY_WFI"}
  BY DEF WaitOf, States
<1>2. EventFor(k) \in {"BOOT_COMPLETE_RECEIVED", "SC7_ENTERED_RECEIVED", "BOOT_CMD_MSG_RECEIVED"}
  BY DEF EventFor
<1>3. CASE k = "READY"
  <2>1. EventFor(k) = "BOOT_COMPLETE_RECEIVED" /\ WakesFor(k) = {"BOOT_COMPLETE"}
    BY <1>3 DEF EventFor, WakesFor
  <2> QED
    BY <1>1, <2>1 DEF dce_fsm_validate_event, AlwaysAccepted, AbortEvents
<1>4. CASE k = "SC7_ENTERED"
  <2>1. EventFor(k) = "SC7_ENTERED_RECEIVED" /\ WakesFor(k) = {"SC7_ENTER"}
    BY <1>4 DEF EventFor, WakesFor
  <2> QED
    BY <1>1, <2>1 DEF dce_fsm_validate_event, AlwaysAccepted, AbortEvents
<1>5. CASE k = "BOOT_CMD"
  <2>1. EventFor(k) = "BOOT_CMD_MSG_RECEIVED" /\ WakesFor(k) = {"BOOT_CMD"}
    BY <1>5 DEF EventFor, WakesFor
  <2> QED
    BY <1>1, <2>1 DEF dce_fsm_validate_event, AlwaysAccepted, AbortEvents
<1> QED
  BY <1>3, <1>4, <1>5

(* Conversely a waiting state accepts the answer it waits for. *)
LEMMA AwaitedIsAccepted ==
  ASSUME NEW s \in States
  PROVE  /\ "BOOT_COMPLETE" \in WaitOf(s) => dce_fsm_validate_event(s, EventFor("READY"))
         /\ "BOOT_CMD" \in WaitOf(s) => dce_fsm_validate_event(s, EventFor("BOOT_CMD"))
         /\ "SC7_ENTER" \in WaitOf(s) => dce_fsm_validate_event(s, EventFor("SC7_ENTERED"))
         /\ "ADMIN_IPC" \in WaitOf(s) <=> s = "ADMIN_WFI"
         /\ "ADMIN_IPC" \in WaitOf(s) => dce_fsm_validate_event(s, "ADMIN_IPC_MSG_RECEIVED")
         /\ WaitOf(s) # {} /\ dce_fsm_validate_event(s, "ADMIN_IPC_MSG_RECEIVED") => s = "ADMIN_WFI"
<1>1. /\ "BOOT_COMPLETE" \in WaitOf(s) <=> s = "BOOT_WAIT"
      /\ "BOOT_CMD" \in WaitOf(s) <=> s = "BOOTCMD_WFI"
      /\ "ADMIN_IPC" \in WaitOf(s) <=> s = "ADMIN_WFI"
      /\ "SC7_ENTER" \in WaitOf(s) <=> s = "SC7_ENTER_WFI"
      /\ s = "ABORT" => WaitOf(s) = {}
  BY DEF WaitOf, States
<1>2. /\ EventFor("READY") = "BOOT_COMPLETE_RECEIVED" /\ EventFor("BOOT_CMD") = "BOOT_CMD_MSG_RECEIVED"
      /\ EventFor("SC7_ENTERED") = "SC7_ENTERED_RECEIVED"
  BY DEF EventFor
<1>3. dce_fsm_validate_event(s, "ADMIN_IPC_MSG_RECEIVED") => s \in {"ADMIN_WFI", "ABORT"}
  BY DEF dce_fsm_validate_event, AnswerEvents, AbortEvents, AlwaysAccepted
<1> QED
  BY <1>1, <1>2, <1>3 DEF dce_fsm_validate_event

(* Whoever uses the admin channel finds it synced. *)
LEMMA SyncedForAsker ==
  ASSUME WInv, NEW t \in Threads, pc[t] \in {"rpc_send", "rpc_wait", "sc7_send", "sc7_wait"}
  PROVE  ch["ADMIN"] = "synced"
<1> USE WInvParts
<1>1. CASE t \in Workers
  <2>1. pc[t] \in RpcLabels /\ ServedAt(t, pc[t], asi[t])
    BY <1>1 DEF InPlace, RpcLabels, FInv, Serving
  <2> QED
    BY <2>1 DEF ServedAt
<1>2. CASE t \notin Workers
  <2>1. BootDone
    BY <1>2 DEF Alone, Threads
  <2> QED
    BY <2>1 DEF FInv, Serving
<1> QED
  BY <1>1, <1>2

LEMMA IsrAwaits ==
  ASSUME WInv, IsrStep
  PROVE  Awaited'
<1> USE WInvParts
<1>1. UNCHANGED <<pc, boot_int, cmd_mb, fw_cmd, tx, rx>>
  BY DEF IsrStep, IsrEnter, IsrBootRead, IsrBootPost, IsrBootWake, IsrAdminRead, IsrAdminPost,
         IsrAdminSeen, IsrAdminLate, IsrAdminWake,
         thrVars, chVars, fwVars, mbVars
<1>2. InPlace'
  <2>1. CASE IsrBootRead
    BY <1>1, <2>1 DEF IsrBootRead, InPlace, NoStatus, Irq
  <2>2. CASE IsrBootPost
    <3>1. "ADMIN_IPC" \notin WakesFor(ack.kind)
      BY DEF WakesFor
    <3> QED
      BY <1>1, <2>2, <3>1 DEF IsrBootPost, AfterBoot, InPlace, mbVars
  <2>3. CASE IsrEnter \/ IsrBootWake \/ IsrAdminRead \/ IsrAdminPost
    BY <1>1, <2>3 DEF IsrEnter, IsrBootWake, IsrAdminRead, IsrAdminPost, AfterBoot, InPlace, mbVars
  <2>4. CASE IsrAdminSeen \/ IsrAdminLate \/ IsrAdminWake
    BY <1>1, <2>4 DEF IsrAdminSeen, IsrAdminLate, IsrAdminWake, InPlace, mbVars
  <2> QED
    BY <2>1, <2>2, <2>3, <2>4 DEF IsrStep
<1> SUFFICES ASSUME NEW t \in Threads, NEW w \in AsksFor(pc[t])
             PROVE  /\ Woken(w)' \/ w \in WaitOf(c_state')
                    /\ pc[t] \in WaitLabels => Woken(w)' \/ UnderWay(w)'
  BY <1>1, <1>2 DEF Awaited, Expected, Coming
<1>3. /\ w \in {"BOOT_COMPLETE", "BOOT_CMD", "ADMIN_IPC", "SC7_ENTER"} /\ w \in Waits
      /\ w = "ADMIN_IPC" => ch["ADMIN"] = "synced"
  BY AskLabels, SyncedForAsker DEF Waits
<1>4. /\ Woken(w) \/ w \in WaitOf(c_state)
      /\ pc[t] \in WaitLabels => Woken(w) \/ UnderWay(w)
  BY DEF Expected, Coming
<1>5. c_state \in States /\ complete \in [Waits -> BOOLEAN]
  BY DEF TypeOK, FsmTypeOK
<1>6. CASE IsrEnter
  <2>1. UNCHANGED <<c_state, complete, irq_mb, adm_mb, ack, isr_wait>> /\ isr = "idle"
    BY <1>6 DEF IsrEnter, fsmVars, mbVars
  <2> QED
    BY <1>1, <1>4, <2>1 DEF Woken, UnderWay, Sent
<1>7. CASE IsrBootRead
  <2>1. /\ UNCHANGED <<c_state, complete, adm_mb, isr_wait>> /\ isr = "boot_read" /\ isr' = "boot_post"
        /\ ack' = irq_mb
    BY <1>7 DEF IsrBootRead, fsmVars
  <2> QED
    BY <1>1, <1>4, <2>1 DEF Woken, UnderWay, Sent
<1>8. CASE IsrBootPost
  <2>1. /\ isr = "boot_post" /\ UNCHANGED <<complete, irq_mb, adm_mb, ack>> /\ isr_wait = {}
    BY <1>8 DEF IsrBootPost, mbVars, HandlerHolds
  <2>2. CASE Woken(w)
    BY <2>1, <2>2 DEF Woken
  <2>3. CASE ~ Woken(w)
    <3>1. w \in WaitOf(c_state)
      BY <1>4, <2>3
    <3>2. CASE /\ ack.kind = "none" \/ (ack.kind # "LOG_READY" /\ ~ dce_fsm_validate_event(c_state, EventFor(ack.kind)))
               /\ UNCHANGED c_state
      <4>1. /\ w = "BOOT_COMPLETE" => ack.kind # "READY"
            /\ w = "BOOT_CMD" => ack.kind # "BOOT_CMD"
            /\ w = "SC7_ENTER" => ack.kind # "SC7_ENTERED"
        BY <1>5, <3>1, <3>2, AwaitedIsAccepted
      <4> QED
        BY <1>1, <1>4, <2>1, <2>3, <3>1, <3>2, <4>1 DEF UnderWay, Sent
    <3>3. CASE ack.kind = "LOG_READY" /\ UNCHANGED c_state
      BY <1>1, <1>4, <2>1, <2>3, <3>1, <3>3 DEF UnderWay, Sent
    <3>4. CASE /\ ack.kind \notin {"none", "LOG_READY"} /\ isr_wait' = WakesFor(ack.kind)
               /\ dce_fsm_validate_event(c_state, EventFor(ack.kind))
      <4>1. ack.kind \in {"READY", "SC7_ENTERED", "BOOT_CMD"}
        BY <3>4 DEF InPlace, TypeOK, MbTypeOK, Statuses, IrqKinds
      <4>2. w \in isr_wait'
        BY <1>5, <3>1, <3>4, <4>1, AcceptedIsAwaited
      <4> QED
        BY <4>2 DEF Woken
    <3> QED
      BY <1>8, <3>2, <3>3, <3>4 DEF IsrBootPost
  <2> QED
    BY <2>2, <2>3
<1>9. CASE IsrBootWake
  <2>1. /\ isr = "boot_wake" /\ UNCHANGED <<c_state, irq_mb, adm_mb, ack>>
        /\ complete'[w] <=> (complete[w] \/ w \in isr_wait)
    BY <1>3, <1>9 DEF IsrBootWake, mbVars
  <2> QED
    BY <1>1, <1>4, <2>1 DEF Woken, UnderWay, Sent
<1>10. CASE IsrAdminRead
  <2>1. /\ isr = "adm_read" /\ isr' = "adm_post" /\ UNCHANGED <<c_state, complete, irq_mb, ack, isr_wait>>
    BY <1>10 DEF IsrAdminRead, fsmVars
  <2> QED
    BY <1>1, <1>4, <2>1 DEF Woken, UnderWay, Sent
<1>11. CASE IsrAdminPost
  <2>1. isr = "adm_post" /\ UNCHANGED <<complete, irq_mb, adm_mb, ack, isr_wait>>
    BY <1>11 DEF IsrAdminPost, mbVars
  <2>2. CASE Woken(w)
    BY <2>1, <2>2 DEF Woken
  <2>3. CASE ~ Woken(w)
    <3>1. w \in WaitOf(c_state)
      BY <1>4, <2>3
    <3>2. CASE dce_fsm_validate_event(c_state, "ADMIN_IPC_MSG_RECEIVED") /\ isr' = "adm_wake"
      <4>1. c_state = "ADMIN_WFI"
        BY <1>5, <3>1, <3>2, AwaitedIsAccepted
      <4>2. w = "ADMIN_IPC"
        BY <3>1, <4>1 DEF WaitOf
      <4> QED
        BY <3>2, <4>2 DEF Woken
    <3>3. CASE /\ UNCHANGED c_state /\ isr' = "idle"
               /\ ~ (/\ ch["ADMIN"] = "synced" /\ rx # <<>>
                     /\ dce_fsm_validate_event(c_state, "ADMIN_IPC_MSG_RECEIVED"))
      <4>1. w = "ADMIN_IPC" => rx = <<>>
        BY <1>3, <1>5, <3>1, <3>3, AwaitedIsAccepted
      <4> QED
        BY <1>1, <1>4, <2>1, <2>3, <3>1, <3>3, <4>1 DEF UnderWay, Sent
    <3> QED
      BY <1>11, <3>2, <3>3 DEF IsrAdminPost
  <2> QED
    BY <2>2, <2>3
<1>12. CASE IsrAdminSeen
  <2>1. isr' = "adm_seen" /\ isr = "adm_post" /\ UNCHANGED <<c_state, complete, irq_mb, adm_mb, ack, isr_wait>>
    BY <1>12 DEF IsrAdminSeen, fsmVars, mbVars
  <2> QED
    BY <1>1, <1>4, <2>1 DEF Woken, UnderWay, Sent
<1>13. CASE IsrAdminLate
  <2>1. isr = "adm_seen" /\ UNCHANGED <<complete, irq_mb, adm_mb, ack, isr_wait>>
    BY <1>13 DEF IsrAdminLate, mbVars
  <2>2. CASE Woken(w)
    BY <2>1, <2>2 DEF Woken
  <2>3. CASE ~ Woken(w)
    <3>1. w \in WaitOf(c_state)
      BY <1>4, <2>3
    <3>2. CASE dce_fsm_validate_event(c_state, "ADMIN_IPC_MSG_RECEIVED") /\ isr' = "adm_wake"
      <4>1. c_state = "ADMIN_WFI"
        BY <1>5, <3>1, <3>2, AwaitedIsAccepted
      <4>2. w = "ADMIN_IPC"
        BY <3>1, <4>1 DEF WaitOf
      <4> QED
        BY <3>2, <4>2 DEF Woken
    <3>3. CASE /\ UNCHANGED c_state /\ isr' = "idle"
               /\ ~ dce_fsm_validate_event(c_state, "ADMIN_IPC_MSG_RECEIVED")
      <4>1. w # "ADMIN_IPC"
        BY <1>5, <3>1, <3>3, AwaitedIsAccepted
      <4> QED
        BY <1>1, <1>4, <2>1, <2>3, <3>1, <3>3, <4>1 DEF UnderWay, Sent
    <3> QED
      BY <1>13, <3>2, <3>3 DEF IsrAdminLate
  <2> QED
    BY <2>2, <2>3
<1>14. CASE IsrAdminWake
  <2>1. /\ isr = "adm_wake" /\ UNCHANGED <<c_state, irq_mb, adm_mb, ack, isr_wait>>
        /\ complete' = [complete EXCEPT !["ADMIN_IPC"] = TRUE] /\ isr' = "idle"
    BY <1>14 DEF IsrAdminWake, dce_wakeup_interruptible, mbVars
  <2>2. complete'["ADMIN_IPC"] /\ (complete[w] => complete'[w])
    BY <1>3, <1>5, <2>1 DEF Waits
  <2> QED
    BY <1>1, <1>4, <2>1, <2>2 DEF Woken, UnderWay, Sent
<1> QED
  BY <1>6, <1>7, <1>8, <1>9, <1>10, <1>11, <1>12, <1>13, <1>14 DEF IsrStep

(* Taking the first of several frames leaves the last one. *)
LEMMA LastStays ==
  ASSUME TypeOK, tx # <<>>, tx' = Tail(tx), NEW b \in BOOLEAN, Sent(b), (Head(tx).cmd = "ENTER_SC7") # b
  PROVE  Sent(b)'
<1>1. tx \in Seq(Messages) /\ Len(tx) \in Nat /\ Head(tx) = tx[1]
  BY DEF TypeOK, ChTypeOK
<1>2. Len(tx) # 1 /\ Len(tx) # 0
  BY <1>1 DEF Sent
<1>3. Len(tx') = Len(tx) - 1 /\ \A i \in 1 .. Len(tx') : tx'[i] = tx[i + 1]
  BY <1>1
<1>4. Len(tx') \in 1 .. Len(tx') /\ Len(tx') + 1 = Len(tx)
  BY <1>1, <1>2, <1>3
<1>5. tx'[Len(tx')] = tx[Len(tx)]
  <2>1. tx'[Len(tx')] = tx[Len(tx') + 1]
    BY <1>3, <1>4
  <2> QED
    BY <1>4, <2>1
<1>6. tx' # <<>>
  <2>1. Len(<<>>) = 0 /\ Len(tx') # 0
    BY <1>1, <1>2, <1>3
  <2> QED
    BY <2>1
<1> QED
  BY <1>5, <1>6 DEF Sent

LEMMA FwAwaits ==
  ASSUME WInv, "ABORT" \notin FwIrqs, FwStep \/ \E k \in FwIrqs : FwIrq(k)
  PROVE  Awaited'
<1> USE WInvParts
<1>1. UNCHANGED <<pc, c_state, complete, isr, isr_wait, ack>>
  BY DEF FwStep, FwBooted, FwReady, FwTakeCmd, FwAckCmd, FwReply, FwEnterSC7, FwEstablish, FwIrq,
         thrVars, fsmVars, isrVars, mbVars
<1>2. InPlace'
  BY <1>1 DEF FwStep, FwBooted, FwReady, FwTakeCmd, FwAckCmd, FwReply, FwEnterSC7, FwEstablish, FwIrq,
              mbVars, InPlace, Irq
<1> SUFFICES ASSUME NEW t \in Threads, pc[t] \in WaitLabels, NEW w \in AsksFor(pc[t])
             PROVE  Woken(w)' \/ UnderWay(w)'
  BY <1>1, <1>2 DEF Awaited, Expected, Coming, Woken
<1>3. /\ w \in {"BOOT_COMPLETE", "BOOT_CMD", "ADMIN_IPC", "SC7_ENTER"}
      /\ w \in {"ADMIN_IPC", "SC7_ENTER"} => ch["ADMIN"] = "synced"
  BY AskLabels, SyncedForAsker
<1>4. CASE Woken(w)
  BY <1>1, <1>4 DEF Woken
<1>5. CASE ~ Woken(w)
  <2>1. UnderWay(w)
    BY <1>5 DEF Coming
  <2> SUFFICES UnderWay(w)'
    OBVIOUS
  <2>2. CASE FwBooted
    BY <1>1, <2>1, <2>2 DEF FwBooted, UnderWay, Sent, mbVars, chVars
  <2>3. CASE FwReady
    <3>1. irq_mb = NoStatus /\ irq_mb'.kind = "READY" /\ UNCHANGED <<cmd_mb, fw_cmd, adm_mb, tx, rx>>
      BY <2>3 DEF FwReady, Irq, chVars
    <3> QED
      BY <1>1, <2>1, <3>1 DEF UnderWay, Sent, NoStatus, Irq
  <2>4. CASE FwTakeCmd
    <3>1. fw_cmd' # 0 /\ UNCHANGED <<boot_int, irq_mb, adm_mb, tx, rx>>
      BY <2>4 DEF FwTakeCmd, chVars
    <3> QED
      BY <1>1, <2>1, <3>1 DEF UnderWay, Sent
  <2>5. CASE FwAckCmd
    <3>1. irq_mb = NoStatus /\ irq_mb'.kind = "BOOT_CMD" /\ UNCHANGED <<boot_int, cmd_mb, adm_mb, tx, rx>>
      BY <2>5 DEF FwAckCmd, chVars
    <3> QED
      BY <1>1, <2>1, <3>1 DEF UnderWay, Sent, NoStatus, Irq
  <2>6. CASE FwReply
    <3>1. /\ tx # <<>> /\ tx' = Tail(tx) /\ Head(tx).cmd # "ENTER_SC7" /\ adm_mb'
          /\ UNCHANGED <<boot_int, cmd_mb, fw_cmd, irq_mb>>
      BY <2>6 DEF FwReply, FwServes
    <3>2. rx' # <<>>
      <4>1. PICK r : rx' = Append(rx, r)
        BY <2>6 DEF FwReply
      <4>2. rx \in Seq(Replies)
        BY DEF TypeOK, ChTypeOK
      <4> QED
        BY <4>1, <4>2
    <3>3. Sent(TRUE) => Sent(TRUE)'
      BY <3>1, LastStays
    <3> QED
      BY <1>1, <2>1, <3>1, <3>2, <3>3 DEF UnderWay
  <2>7. CASE FwEnterSC7
    <3>1. /\ tx # <<>> /\ tx' = Tail(tx) /\ Head(tx).cmd = "ENTER_SC7"
          /\ irq_mb = NoStatus /\ irq_mb'.kind = "SC7_ENTERED" /\ UNCHANGED <<boot_int, cmd_mb, fw_cmd, adm_mb, rx>>
      BY <2>7 DEF FwEnterSC7, FwServes, Irq
    <3>2. Sent(FALSE) => Sent(FALSE)'
      BY <3>1, LastStays
    <3> QED
      BY <1>1, <2>1, <3>1, <3>2 DEF UnderWay, NoStatus, Irq
  <2>8. ASSUME NEW c \in Channels, FwEstablish(c) PROVE UnderWay(w)'
    <3>1. /\ UNCHANGED <<boot_int, cmd_mb, fw_cmd, irq_mb>> /\ ch[c] = "sync"
          /\ c # "ADMIN" => UNCHANGED <<tx, rx, adm_mb>>
      BY <2>8 DEF FwEstablish, fwVars, TypeOK, MbTypeOK
    <3> QED
      BY <1>1, <1>3, <2>1, <3>1 DEF UnderWay, Sent
  <2>9. ASSUME NEW k \in FwIrqs, FwIrq(k) PROVE UnderWay(w)'
    <3>1. irq_mb = NoStatus /\ UNCHANGED <<boot_int, cmd_mb, fw_cmd, adm_mb, tx, rx>>
      BY <2>9 DEF FwIrq, chVars, fwVars
    <3> QED
      BY <1>1, <2>1, <3>1 DEF UnderWay, Sent, NoStatus, Irq
  <2> QED
    BY <2>2, <2>3, <2>4, <2>5, <2>6, <2>7, <2>8, <2>9 DEF FwStep
<1> QED
  BY <1>4, <1>5

LEMMA WStep ==
  ASSUME ~ EarlySuspend, ~ AllocFail, OneUser, "ABORT" \notin FwIrqs
  PROVE  WInv /\ [Next]_vars => WInv'
<1> SUFFICES ASSUME WInv, [Next]_vars PROVE WInv'
  OBVIOUS
<1>1. FInv'
  BY FStep DEF WInv
<1>2. Awaited'
  <2>1. CASE UNCHANGED vars
    BY <2>1 DEF WInv, vars, fsmVars, mbVars, chVars, thrVars, isrVars, fwVars, Awaited, InPlace, Expected,
                Coming, Woken, UnderWay, Sent
  <2> QED
    BY <2>1, RpcAwaits, WorkerAwaits, PmAwaits, UserAwaits, IsrAwaits, FwAwaits DEF Next
<1> QED
  BY <1>1, <1>2 DEF WInv

LEMMA SleepsAtWait ==
  ASSUME NEW t \in Threads, NEW w \in SleepsOn(t)
  PROVE  pc[t] \in WaitLabels /\ w \in AsksFor(pc[t])
  BY DEF SleepsOn, WaitLabels, AsksFor

(* With one user of the debugfs nodes, and unless the firmware aborts,     *)
(* every thread that sleeps will be let through: signals that break off    *)
(* calls and suspends, the frames those leave behind, firmware errors and  *)
(* trace-log interrupts never take the FSM out of the state that accepts   *)
(* the sleeper's answer before the answer is accepted                      *)
(* (dce_fsm_validate_event, dce_fsm_post_event's state resets).            *)
THEOREM SleepersAreExpected ==
  ASSUME ~ EarlySuspend, ~ AllocFail, OneUser, "ABORT" \notin FwIrqs
  PROVE  Spec => []SleeperIsExpected
<1>1. WInv => SleeperIsExpected
  <2> SUFFICES ASSUME WInv, NEW t \in Threads, NEW w \in SleepsOn(t)
               PROVE  Woken(w) \/ w \in WaitOf(c_state)
    BY DEF SleeperIsExpected, Woken
  <2> QED
    BY SleepsAtWait, WInvParts DEF Expected
<1> QED
  BY <1>1, WInit, WStep, PTL DEF Spec
-----------------------------------------------------------------------------
(* Exchanges of a driver with one user and without signals.                *)

(* The labels at which the wake-up for w may be there. *)
WokenAt(w) ==
    CASE w = "BOOT_COMPLETE" -> {"bc_wait", "bc_reset"}
      [] w = "BOOT_CMD"      -> {"cmd_wait"}
      [] w = "ADMIN_IPC"     -> {"rpc_wait", "rpc_woken"}
      [] w = "SC7_ENTER"     -> {"sc7_wait"}
      [] OTHER               -> {}

DriverWaits == Waits \ {"LOG"}

(* What is on the admin channel while thread t is at label l: its request, *)
(* or the reply to it, or nothing.                                         *)
Asked(t) == tx = <<Request(t)>> /\ rx = <<>>

Replied(t) == tx = <<>> /\ \E r \in Replies : rx = <<r>> /\ r.src = t /\ r.cmd = Request(t).cmd

ExchangeLabels == {"rpc_wait", "rpc_woken", "rpc_read", "sc7_wait"}

FramesAt(t, l) ==
    /\ l = "rpc_wait" => Asked(t) \/ Replied(t)
    /\ l \in {"rpc_woken", "rpc_read"} => Replied(t)
    /\ l = "rpc_woken" => complete["ADMIN_IPC"]
    /\ l = "sc7_wait" => rx = <<>> /\ (tx = <<>> \/ tx = <<[src |-> "pm", cmd |-> "ENTER_SC7"]>>)
    /\ l \notin ExchangeLabels => Empty

(* The FSM waits for nothing but what the thread asks for, wake-ups are    *)
(* for it, no callback fails on the admin channel, and one that fails in   *)
(* the boot finds an idle state to restore.                                *)
FitsAt(t, l) ==
    /\ WaitOf(c_state) \subseteq AsksFor(l)
    /\ \A w \in DriverWaits : Woken(w) => l \in WokenAt(w)
    /\ Woken("ADMIN_IPC") => rx # <<>>
    /\ l \in CallbackLabels => WaitOf(prev[t]) = {} /\ prev[t] # "ABORT"
    /\ l \in LateLabels => BootcmdsDone
    /\ l \notin {"rpc_fail", "sc7_fail"}
    /\ l = "rpc_ok" => resp[t].src = t /\ resp[t].cmd = Request(t).cmd
    /\ FramesAt(t, l)

(* One thread at most is at work, and everything fits where it is. *)
Quiet(t) == \A s \in Threads : s # t => ~ Busy(s)

Owned == \E t \in Threads : Quiet(t) /\ FitsAt(t, pc[t])

(* An answer that has been accepted is no longer waited for. *)
FsmFits ==
    /\ requested_ipcs = WaitOf(c_state) /\ c_state # "ABORT"
    /\ \A w \in WaitOf(c_state) : ~ Woken(w)
    /\ complete["ADMIN_IPC"] => isr # "adm_wake"
    /\ BootDone => BootcmdsDone

XInv == RInv /\ Awaited /\ FsmFits /\ Owned

LEMMA XInit == Init => XInv
<1> SUFFICES ASSUME Init PROVE XInv
  OBVIOUS
<1>1. RInv /\ Awaited
  BY RInit, WInit DEF WInv
<1>2. "pm" \in Threads /\ \A t \in Threads : pc[t] = "idle"
  BY DEF Init, Threads
<1>3. /\ c_state = "INVALID" /\ requested_ipcs = {} /\ isr = "idle" /\ isr_wait = {} /\ ~ BootDone
      /\ \A w \in Waits : ~ complete[w]
      /\ Empty
  BY DEF Init, FsmInit, BootDone, Empty
<1>4. WaitOf(c_state) = {} /\ \A w \in Waits : ~ Woken(w)
  BY <1>3 DEF WaitOf, Woken
<1>5. FsmFits
  BY <1>3, <1>4 DEF FsmFits, Waits
<1>6. FitsAt("pm", "idle")
  BY <1>3, <1>4 DEF FitsAt, FramesAt, ExchangeLabels, CallbackLabels, LateLabels, RpcLabels, DriverWaits, Waits
<1>7. Owned
  BY <1>2, <1>6 DEF Owned, Quiet, Busy
<1> QED
  BY <1>1, <1>5, <1>7 DEF XInv

LEMMA XInvParts ==
  ASSUME XInv
  PROVE  /\ RInv /\ WInv /\ FInv /\ SInv /\ TypeOK /\ Alone /\ OneEnter /\ Sc7Held /\ OneCmd /\ OneReady
         /\ OneSc7Report /\ HandlerHolds /\ InPlace /\ Expected /\ FsmFits /\ Owned
         /\ "pm" \in Threads /\ Workers \subseteq Threads /\ Users \subseteq Threads
         /\ "pm" \notin Workers /\ "pm" \notin Users /\ Workers \cap Users = {}
<1>1. RInv /\ FInv /\ SInv /\ WInv /\ FsmFits /\ Owned
  BY RInvParts DEF XInv, WInv
<1> QED
  BY <1>1, RInvParts, WInvParts DEF SInv

(* What fits one thread at rest fits another. *)
LEMMA RestFits ==
  ASSUME NEW s, NEW t, NEW l \in {"idle", "suspended", "powered"}, NEW k \in {"idle", "suspended", "powered"},
         FitsAt(s, l)
  PROVE  FitsAt(t, k)
<1>1. AsksFor(l) = {} /\ AsksFor(k) = {} /\ \A w \in DriverWaits : l \notin WokenAt(w)
  BY DEF AsksFor, WokenAt, DriverWaits, Waits
<1>2. l \notin ExchangeLabels /\ k \notin ExchangeLabels \cup CallbackLabels \cup LateLabels
  BY DEF ExchangeLabels, CallbackLabels, LateLabels, RpcLabels
<1> QED
  BY <1>1, <1>2 DEF FitsAt, FramesAt, ExchangeLabels

(* Everything fits the thread that acts. *)
LEMMA ActorFits ==
  ASSUME XInv, OneUser, NEW t \in Threads,
         \/ Busy(t) \/ t \in work
         \/ t = "pm" /\ pc["pm"] # "idle"
         \/ t = "pm" /\ BootDone /\ \A u \in Users : pc[u] = "idle"
         \/ t \in Users /\ BootDone /\ pc["pm"] = "idle"
  PROVE  Quiet(t) /\ FitsAt(t, pc[t])
<1>1. Quiet(t)
  BY OthersQuiet, XInvParts DEF Quiet
<1>2. PICK o \in Threads : Quiet(o) /\ FitsAt(o, pc[o])
  BY XInvParts DEF Owned
<1>3. CASE o # t
  <2>1. ~ Busy(o) /\ ~ Busy(t)
    BY <1>1, <1>2, <1>3 DEF Quiet
  <2> QED
    BY <1>1, <1>2, <2>1, RestFits DEF Busy
<1> QED
  BY <1>1, <1>2, <1>3

(* The thread that acts keeps the driver to itself. *)
LEMMA ActorMoves ==
  ASSUME TypeOK, NEW t \in Threads, Quiet(t), NEW l, Goto(t, l), FitsAt(t, l)'
  PROVE  Owned'
<1>1. pc'[t] = l /\ \A s \in Threads : s # t => pc'[s] = pc[s]
  BY DEF Goto, TypeOK, ThrTypeOK
<1>2. Quiet(t)'
  BY <1>1 DEF Quiet, Busy
<1>3. FitsAt(t, pc[t])'
  BY <1>1
<1> QED
  BY <1>2, <1>3 DEF Owned

(* The labels where no wake-up and no frame is expected. *)
CalmLabels == PcLabels \ (ExchangeLabels \cup {"bc_wait", "bc_reset", "cmd_wait"})

LEMMA CalmFacts ==
  ASSUME NEW t, NEW l \in CalmLabels, FitsAt(t, l)
  PROVE  /\ \A w \in DriverWaits : ~ Woken(w)
         /\ Empty
<1>1. \A w \in DriverWaits : l \notin WokenAt(w)
  BY DEF CalmLabels, ExchangeLabels, WokenAt
<1> QED
  BY <1>1 DEF FitsAt, FramesAt, CalmLabels

LEMMA AskedWaits == \A l : AsksFor(l) \subseteq DriverWaits
  BY AskLabels DEF DriverWaits, Waits

(* What is left to show of a step that moves a thread from one place       *)
(* without an exchange to another.                                         *)
LEMMA CalmStep ==
  ASSUME XInv, NEW t \in Threads, Quiet(t), FitsAt(t, pc[t]), pc[t] \in CalmLabels,
         NEW l, l \notin ExchangeLabels \cup {"rpc_ok", "rpc_fail", "sc7_fail"}, Goto(t, l),
         UNCHANGED <<complete, isr, isr_wait, tx, rx>>,
         requested_ipcs' = WaitOf(c_state'), c_state' # "ABORT", WaitOf(c_state') \subseteq AsksFor(l),
         l \in CallbackLabels => WaitOf(prev'[t]) = {} /\ prev'[t] # "ABORT",
         l \in LateLabels \/ BootDone' => BootcmdsDone'
  PROVE  FsmFits' /\ Owned'
<1> USE XInvParts
<1>1. (\A w \in DriverWaits : ~ Woken(w)) /\ Empty
  BY CalmFacts
<1>2. \A w \in DriverWaits : ~ Woken(w)'
  BY <1>1 DEF Woken
<1>3. \A w \in WaitOf(c_state') : ~ Woken(w)'
  BY <1>2, AskedWaits
<1>4. "ADMIN_IPC" \in DriverWaits
  BY DEF DriverWaits, Waits
<1>5. FsmFits'
  BY <1>2, <1>3, <1>4 DEF FsmFits, Woken
<1>6. FitsAt(t, l)'
  <2>1. FramesAt(t, l)'
    BY <1>1 DEF FramesAt, Empty, ExchangeLabels
  <2> QED
    BY <1>2, <1>4, <2>1 DEF FitsAt
<1> QED
  BY <1>5, <1>6, ActorMoves

(* The state machine is not touched. *)
LEMMA PlainStep ==
  ASSUME XInv, NEW t \in Threads, Quiet(t), FitsAt(t, pc[t]), pc[t] \in CalmLabels,
         NEW l, l \notin ExchangeLabels \cup {"rpc_ok", "rpc_fail", "sc7_fail"}, Goto(t, l),
         UNCHANGED <<c_state, requested_ipcs, complete, isr, isr_wait, tx, rx, prev>>,
         AsksFor(pc[t]) \subseteq AsksFor(l),
         l \in CallbackLabels => pc[t] \in CallbackLabels,
         l \in LateLabels \/ BootDone' => BootcmdsDone'
  PROVE  FsmFits' /\ Owned'
<1> USE XInvParts
<1>1. /\ requested_ipcs' = WaitOf(c_state') /\ c_state' # "ABORT" /\ WaitOf(c_state') \subseteq AsksFor(l)
  BY DEF FsmFits, FitsAt
<1>2. l \in CallbackLabels => WaitOf(prev'[t]) = {} /\ prev'[t] # "ABORT"
  BY DEF FitsAt
<1> QED
  BY <1>1, <1>2, CalmStep

(* The wait each request puts the state machine into. *)
RequestWait(e) ==
    CASE e = "BOOT_COMPLETE_REQUESTED" -> {"BOOT_COMPLETE"}
      [] e = "BOOT_CMD_MSG_REQUESTED"  -> {"BOOT_CMD"}
      [] e = "ADMIN_IPC_MSG_REQUESTED" -> {"ADMIN_IPC"}
      [] e = "SC7_ENTER_REQUESTED"     -> {"SC7_ENTER"}
      [] OTHER                         -> {}

Posted == {"FSM_START", "BOOT_COMPLETE_REQUESTED", "BOOT_CMD_MSG_REQUESTED", "ADMIN_IPC_MSG_REQUESTED",
           "SC7_ENTER_REQUESTED", "SC7_EXIT_RECEIVED"}

LEMMA PostedFacts ==
  ASSUME NEW e \in Posted
  PROVE  /\ WaitOf(StateAfter(e)) = RequestWait(e) /\ StateAfter(e) # "ABORT"
         /\ RequestedAfter(e, {}) = RequestWait(e)
<1>1. CASE e = "FSM_START"
  BY <1>1 DEF StateAfter, WaitOf, RequestWait, RequestedAfter, AbortEvents
<1>2. CASE e = "BOOT_COMPLETE_REQUESTED"
  BY <1>2 DEF StateAfter, WaitOf, RequestWait, RequestedAfter, AbortEvents
<1>3. CASE e = "BOOT_CMD_MSG_REQUESTED"
  BY <1>3 DEF StateAfter, WaitOf, RequestWait, RequestedAfter, AbortEvents
<1>4. CASE e = "ADMIN_IPC_MSG_REQUESTED"
  BY <1>4 DEF StateAfter, WaitOf, RequestWait, RequestedAfter, AbortEvents
<1>5. CASE e = "SC7_ENTER_REQUESTED"
  BY <1>5 DEF StateAfter, WaitOf, RequestWait, RequestedAfter, AbortEvents
<1>6. CASE e = "SC7_EXIT_RECEIVED"
  BY <1>6 DEF StateAfter, WaitOf, RequestWait, RequestedAfter, AbortEvents
<1> QED
  BY <1>1, <1>2, <1>3, <1>4, <1>5, <1>6 DEF Posted

(* A thread that asks for nothing posts a request. *)
LEMMA PostStep ==
  ASSUME XInv, NEW t \in Threads, Quiet(t), FitsAt(t, pc[t]), pc[t] \in CalmLabels, AsksFor(pc[t]) = {},
         NEW e \in Posted, NEW yes \in PcLabels, NEW no \in PcLabels, Post(t, e, yes, no),
         yes \notin ExchangeLabels \cup {"rpc_ok", "rpc_fail", "sc7_fail"},
         no \notin ExchangeLabels \cup CallbackLabels \cup {"rpc_ok", "rpc_fail", "sc7_fail"},
         AsksFor(yes) = RequestWait(e),
         UNCHANGED <<complete, isr, isr_wait, tx, rx, boot_status>>,
         yes \in LateLabels \/ no \in LateLabels => pc[t] \in LateLabels
  PROVE  FsmFits' /\ Owned'
<1> USE XInvParts
<1>1. WaitOf(c_state) = {} /\ requested_ipcs = {} /\ c_state # "ABORT"
  BY DEF FitsAt, FsmFits
<1>2. yes \in LateLabels \/ no \in LateLabels \/ BootDone' => BootcmdsDone'
  BY DEF FitsAt, FsmFits, BootDone, BootcmdsDone
<1>3. CASE dce_fsm_validate_event(c_state, e)
  <2>1. /\ c_state' = StateAfter(e) /\ requested_ipcs' = RequestedAfter(e, {}) /\ Goto(t, yes)
        /\ prev'[t] = c_state
    BY <1>1, <1>3 DEF Post, dce_fsm_set_state, TypeOK, ThrTypeOK
  <2>2. /\ requested_ipcs' = WaitOf(c_state') /\ c_state' # "ABORT" /\ WaitOf(c_state') \subseteq AsksFor(yes)
    BY <2>1, PostedFacts
  <2> QED
    BY <1>1, <1>2, <2>1, <2>2, CalmStep
<1>4. CASE ~ dce_fsm_validate_event(c_state, e)
  <2>1. UNCHANGED <<c_state, requested_ipcs, prev>> /\ Goto(t, no)
    BY <1>4 DEF Post
  <2> QED
    BY <1>1, <1>2, <2>1, CalmStep
<1> QED
  BY <1>3, <1>4

(* A thread takes the wake-up it waited for. *)
LEMMA ConsumeStep ==
  ASSUME XInv, NEW t \in Threads, Quiet(t), FitsAt(t, pc[t]), NEW w \in DriverWaits,
         pc[t] \in WokenAt(w), AsksFor(pc[t]) \subseteq {w}, complete[w] \/ AsksFor(pc[t]) = {},
         complete' = [complete EXCEPT ![w] = FALSE],
         w \notin isr_wait, w = "ADMIN_IPC" => isr # "adm_wake",
         NEW l, l \notin {"rpc_ok", "rpc_fail", "sc7_fail"}, Goto(t, l),
         UNCHANGED <<c_state, requested_ipcs, isr, isr_wait, prev, boot_status>>,
         l \in CallbackLabels => pc[t] \in CallbackLabels,
         l \in LateLabels => pc[t] \in LateLabels,
         FramesAt(t, l)'
  PROVE  FsmFits' /\ Owned'
<1> USE XInvParts
<1>1. WaitOf(c_state) = {}
  BY DEF FitsAt, FsmFits, Woken
<1>2. \A v \in DriverWaits : pc[t] \in WokenAt(v) => v = w
  BY DEF WokenAt, DriverWaits, Waits
<1>3. complete \in [Waits -> BOOLEAN] /\ DriverWaits \subseteq Waits /\ "ADMIN_IPC" \in DriverWaits
  BY DEF TypeOK, FsmTypeOK, DriverWaits, Waits
<1>4. ~ complete'[w] /\ \A v \in DriverWaits : v # w => complete'[v] = complete[v]
  BY <1>3
<1>5. \A v \in DriverWaits : ~ Woken(v)'
  BY <1>2, <1>4 DEF Woken, FitsAt
<1>6. FsmFits'
  BY <1>1, <1>3, <1>5 DEF FsmFits, Woken, BootDone, BootcmdsDone
<1>7. FitsAt(t, l)'
  BY <1>1, <1>3, <1>5 DEF FitsAt, BootcmdsDone
<1> QED
  BY <1>6, <1>7, ActorMoves

(* Whoever waits for or reads a reply finds the admin channel synced. *)
LEMMA SyncedForExchange ==
  ASSUME WInv, NEW t \in Threads, pc[t] \in ExchangeLabels
  PROVE  ch["ADMIN"] = "synced"
<1> USE WInvParts
<1>1. CASE t \in Workers
  <2>1. pc[t] \in RpcLabels /\ ServedAt(t, pc[t], asi[t])
    BY <1>1 DEF InPlace, RpcLabels, ExchangeLabels, FInv, Serving
  <2> QED
    BY <2>1 DEF ServedAt
<1>2. CASE t \notin Workers
  <2>1. BootDone
    BY <1>2 DEF Alone, Threads, ExchangeLabels
  <2> QED
    BY <2>1 DEF FInv, Serving
<1> QED
  BY <1>1, <1>2

(* A thread that has asked sends its request on the empty channel. *)
LEMMA SendStep ==
  ASSUME XInv, NEW t \in Threads, Quiet(t), FitsAt(t, pc[t]), pc[t] \in {"rpc_send", "sc7_send"},
         NEW l \in {"rpc_wait", "sc7_wait"}, Goto(t, l), AsksFor(pc[t]) \subseteq AsksFor(l),
         UNCHANGED <<c_state, requested_ipcs, complete, isr, isr_wait, rx, prev, boot_status>>,
         FramesAt(t, l)'
  PROVE  FsmFits' /\ Owned'
<1> USE XInvParts
<1>1. pc[t] \in CalmLabels /\ pc[t] \in CallbackLabels /\ (l \in LateLabels => pc[t] \in LateLabels)
  BY AskLabels DEF CalmLabels, PcLabels, ExchangeLabels, CallbackLabels, LateLabels, RpcLabels
<1>2. \A w \in DriverWaits : ~ Woken(w)
  BY <1>1, CalmFacts
<1>3. /\ \A w : Woken(w)' <=> Woken(w)
      /\ "ADMIN_IPC" \in DriverWaits
  BY DEF Woken, DriverWaits, Waits
<1>4. FsmFits'
  BY <1>3 DEF FsmFits, BootDone, BootcmdsDone
<1>5. FitsAt(t, l)'
  BY <1>1, <1>2, <1>3 DEF FitsAt, BootcmdsDone
<1> QED
  BY <1>4, <1>5, ActorMoves

LEMMA EmptySends ==
  ASSUME XInv, NEW t \in Threads, FitsAt(t, pc[t]), pc[t] \in {"rpc_send", "sc7_send"}
  PROVE  CanSend /\ Empty
<1>1. Empty
  BY CalmFacts DEF CalmLabels, PcLabels, ExchangeLabels
<1>2. ch["ADMIN"] = "synced"
  BY XInvParts, SyncedForAsker
<1>3. Len(tx) = 0 /\ NFrames \in Nat \ {0}
  BY <1>1, BootAssumption DEF Empty, BootAssumption
<1> QED
  BY <1>1, <1>2, <1>3 DEF CanSend, Established

LEMMA RpcFits ==
  ASSUME XInv, OneUser, Interruptible = {}, NEW t \in Threads, RpcStep(t) \/ RpcInterrupt(t)
  PROVE  FsmFits' /\ Owned'
<1> USE XInvParts
<1>1. /\ pc[t] \in RpcLabels \cap LateLabels /\ Busy(t)
      /\ UNCHANGED <<isr, isr_wait, boot_status, asi>> /\ ~ RpcInterrupt(t)
  BY DEF RpcStep, RpcPost, RpcSend, RpcWait, RpcInterrupt, RpcConsume, RpcRead, RpcFail, RpcLabels, LateLabels,
         Busy, isrVars
<1>2. Quiet(t) /\ FitsAt(t, pc[t])
  BY <1>1, ActorFits
<1>3. Request(t)' = Request(t)
  BY <1>1 DEF Request
<1>4. CASE RpcPost(t)
  <2>1. /\ pc[t] = "rpc_post" /\ Post(t, "ADMIN_IPC_MSG_REQUESTED", "rpc_send", "rpc_err")
        /\ UNCHANGED <<complete, tx, rx>>
    BY <1>4 DEF RpcPost, chVars
  <2>2. /\ AsksFor("rpc_post") = {} /\ AsksFor("rpc_send") = {"ADMIN_IPC"}
        /\ RequestWait("ADMIN_IPC_MSG_REQUESTED") = {"ADMIN_IPC"} /\ "ADMIN_IPC_MSG_REQUESTED" \in Posted
    BY DEF AsksFor, RequestWait, Posted
  <2>3. /\ "rpc_post" \in CalmLabels /\ {"rpc_send", "rpc_err"} \subseteq PcLabels
        /\ "rpc_send" \notin ExchangeLabels /\ "rpc_err" \notin ExchangeLabels \cup CallbackLabels
    BY DEF CalmLabels, PcLabels, ExchangeLabels, CallbackLabels
  <2> QED
    BY <1>1, <1>2, <2>1, <2>2, <2>3, PostStep
<1>5. CASE RpcSend(t)
  <2>1. /\ pc[t] = "rpc_send" /\ UNCHANGED <<c_state, requested_ipcs, complete, rx, prev>>
    BY <1>5 DEF RpcSend, fsmVars
  <2>2. BootcmdsDone /\ CanSend /\ Empty
    BY <1>1, <1>2, <2>1, EmptySends DEF FitsAt
  <2>3. tx' = Append(tx, Request(t)) /\ Goto(t, "rpc_wait")
    BY <1>5, <2>2 DEF RpcSend
  <2>4. tx' = <<Request(t)>> /\ rx' = <<>>
    BY <2>1, <2>2, <2>3 DEF Empty
  <2>5. FramesAt(t, "rpc_wait")'
    BY <1>3, <2>4 DEF FramesAt, Asked, ExchangeLabels
  <2>6. AsksFor("rpc_send") \subseteq AsksFor("rpc_wait")
    BY DEF AsksFor
  <2> QED
    BY <1>1, <1>2, <2>1, <2>3, <2>5, <2>6, SendStep
<1>6. CASE RpcWait(t)
  <2>1. /\ pc[t] = "rpc_wait" /\ complete["ADMIN_IPC"] /\ Goto(t, "rpc_woken")
        /\ UNCHANGED <<c_state, requested_ipcs, complete, tx, rx, prev>>
    BY <1>6 DEF RpcWait, fsmVars, chVars
  <2>2. WaitOf(c_state) = {} /\ Replied(t)
    <3>1. Woken("ADMIN_IPC")
      BY <2>1 DEF Woken
    <3>2. AsksFor("rpc_wait") = {"ADMIN_IPC"} /\ "ADMIN_IPC" \in DriverWaits
      BY DEF AsksFor, DriverWaits, Waits
    <3> QED
      BY <1>2, <2>1, <3>1, <3>2 DEF FitsAt, FramesAt, FsmFits, Asked
  <2>3. /\ \A w : Woken(w)' <=> Woken(w)
        /\ \A w \in DriverWaits : "rpc_wait" \in WokenAt(w) => "rpc_woken" \in WokenAt(w)
    BY <1>1, <2>1 DEF Woken, WokenAt, DriverWaits, Waits
  <2>4. FsmFits'
    BY <1>1, <2>1, <2>3 DEF FsmFits, BootDone, BootcmdsDone
  <2>5. FramesAt(t, "rpc_woken")'
    BY <1>3, <2>1, <2>2 DEF FramesAt, Replied, ExchangeLabels
  <2>6. FitsAt(t, "rpc_woken")'
    BY <1>1, <1>2, <2>1, <2>2, <2>3, <2>5 DEF FitsAt, BootcmdsDone, CallbackLabels
  <2> QED
    BY <1>2, <2>1, <2>4, <2>6, ActorMoves
<1>7. CASE RpcConsume(t)
  <2>1. /\ pc[t] = "rpc_woken" /\ UNCHANGED <<c_state, requested_ipcs, tx, rx, prev>>
    BY <1>7 DEF RpcConsume, chVars
  <2>2. complete["ADMIN_IPC"] /\ Replied(t)
    BY <1>2, <2>1 DEF FitsAt, FramesAt
  <2>3. complete' = [complete EXCEPT !["ADMIN_IPC"] = FALSE] /\ Goto(t, "rpc_read")
    BY <1>7, <2>2 DEF RpcConsume, WaitConsume
  <2>4. FramesAt(t, "rpc_read")'
    BY <1>3, <2>1, <2>2 DEF FramesAt, Replied, ExchangeLabels
  <2>5. /\ "ADMIN_IPC" \in DriverWaits /\ pc[t] \in WokenAt("ADMIN_IPC") /\ AsksFor(pc[t]) = {}
        /\ pc[t] \in CallbackLabels
    BY <2>1 DEF DriverWaits, Waits, WokenAt, AsksFor, CallbackLabels
  <2>6. "ADMIN_IPC" \notin isr_wait /\ isr # "adm_wake"
    BY <2>2 DEF InPlace, FsmFits
  <2> QED
    BY <1>1, <1>2, <2>1, <2>2, <2>3, <2>4, <2>5, <2>6, ConsumeStep
<1>8. CASE RpcRead(t)
  <2>1. /\ pc[t] = "rpc_read" /\ UNCHANGED <<c_state, requested_ipcs, complete, tx, prev>>
    BY <1>8 DEF RpcRead, fsmVars
  <2>2. Replied(t) /\ Established("ADMIN")
    BY <1>2, <2>1, SyncedForExchange DEF FitsAt, FramesAt, ExchangeLabels, Established
  <2>3. PICK r \in Replies : rx = <<r>> /\ r.src = t /\ r.cmd = Request(t).cmd
    BY <2>2 DEF Replied
  <2>4. rx # <<>> /\ Head(rx) = r /\ Tail(rx) = <<>>
    BY <2>3
  <2>5. resp'[t] = r /\ rx' = <<>> /\ Goto(t, "rpc_ok")
    BY <1>8, <2>2, <2>4 DEF RpcRead, TypeOK, ThrTypeOK
  <2>6. Empty'
    BY <2>1, <2>2, <2>5 DEF Empty, Replied
  <2>7. \A w \in DriverWaits : ~ Woken(w)
    BY <1>2, <2>1 DEF FitsAt, WokenAt, DriverWaits, Waits
  <2>8. (\A w : Woken(w)' <=> Woken(w)) /\ "ADMIN_IPC" \in DriverWaits /\ AsksFor("rpc_read") = {}
    BY <1>1, <2>1 DEF Woken, DriverWaits, Waits, AsksFor
  <2>9. FsmFits'
    BY <1>1, <2>1, <2>8 DEF FsmFits, BootDone, BootcmdsDone
  <2>10. FramesAt(t, "rpc_ok")'
    BY <2>6 DEF FramesAt
  <2>11. "rpc_ok" \notin CallbackLabels
    BY DEF CallbackLabels
  <2>12. FitsAt(t, "rpc_ok")'
    BY <1>1, <1>2, <1>3, <2>1, <2>3, <2>5, <2>7, <2>8, <2>10, <2>11 DEF FitsAt, BootcmdsDone
  <2> QED
    BY <1>2, <2>5, <2>9, <2>12, ActorMoves
<1>9. CASE RpcFail(t)
  BY <1>2, <1>9 DEF RpcFail, FitsAt
<1> QED
  BY <1>1, <1>4, <1>5, <1>6, <1>7, <1>8, <1>9 DEF RpcStep

LEMMA UserFits ==
  ASSUME XInv, OneUser, NEW u \in Users, UserCall(u) \/ UserReturn(u)
  PROVE  FsmFits' /\ Owned'
<1> USE XInvParts
<1>1. /\ u \in Threads /\ UNCHANGED <<c_state, requested_ipcs, complete, isr, isr_wait, tx, rx, prev, boot_status>>
      /\ Busy(u) \/ (BootDone /\ pc["pm"] = "idle")
      /\ pc[u] \in {"idle", "rpc_ok", "rpc_err"}
      /\ Goto(u, "idle") \/ (Goto(u, "rpc_post") /\ BootDone)
  BY DEF UserCall, UserReturn, isrVars, fsmVars, chVars, Busy
<1>2. Quiet(u) /\ FitsAt(u, pc[u])
  BY <1>1, ActorFits
<1>3. /\ pc[u] \in CalmLabels /\ AsksFor(pc[u]) = {}
      /\ {"idle", "rpc_post"} \cap (ExchangeLabels \cup CallbackLabels) = {} /\ "idle" \notin LateLabels
  BY <1>1 DEF CalmLabels, PcLabels, ExchangeLabels, CallbackLabels, AsksFor, LateLabels, RpcLabels
<1>4. (BootDone' => BootcmdsDone') /\ (BootDone => BootcmdsDone')
  BY <1>1 DEF FsmFits, BootDone, BootcmdsDone
<1>5. CASE Goto(u, "idle")
  BY <1>1, <1>2, <1>3, <1>4, <1>5, PlainStep
<1>6. CASE Goto(u, "rpc_post") /\ BootDone
  BY <1>1, <1>2, <1>3, <1>4, <1>6, PlainStep
<1> QED
  BY <1>1, <1>5, <1>6

LEMMA PmFits ==
  ASSUME XInv, OneUser, ~ EarlySuspend, ~ AllocFail, Interruptible = {},
         PmSuspend \/ PmStep \/ PmEnterAllocFail \/ PmEnterInterrupt
  PROVE  FsmFits' /\ Owned'
<1> USE XInvParts
<1>1. /\ UNCHANGED <<isr, isr_wait>> /\ ~ PmEnterAllocFail /\ ~ PmEnterInterrupt
      /\ pc["pm"] # "idle" \/ (BootDone /\ \A u \in Users : pc[u] = "idle")
      /\ BootcmdsDone => BootcmdsDone'
      /\ BootDone' => BootDone
  BY DEF PmSuspend, PmStep, PmEnterAllocFail, PmEnterInterrupt, PmPrepared, PmEnterPost, PmEnterSend,
         PmEnterWait, PmEnterDone, PmEnterFail, PowerCycle, PmResume, isrVars, BootDone, BootcmdsDone
<1>2. Quiet("pm") /\ FitsAt("pm", pc["pm"])
  BY <1>1, ActorFits
<1>3. (BootDone' => BootcmdsDone') /\ (BootDone => BootcmdsDone')
  BY <1>1 DEF FsmFits
<1>4. CASE PmSuspend
  <2>1. /\ pc["pm"] = "idle" /\ Goto("pm", "rpc_post") /\ BootDone
        /\ UNCHANGED <<c_state, requested_ipcs, complete, tx, rx, prev>>
    BY <1>4 DEF PmSuspend, fsmVars, chVars
  <2>2. /\ "idle" \in CalmLabels /\ AsksFor("idle") = {} /\ "rpc_post" \notin ExchangeLabels \cup CallbackLabels
    BY DEF CalmLabels, PcLabels, ExchangeLabels, CallbackLabels, AsksFor
  <2> QED
    BY <1>1, <1>2, <1>3, <2>1, <2>2, PlainStep
<1>5. CASE PmPrepared \/ PmEnterDone \/ PowerCycle
  <2>1. /\ pc["pm"] \in {"rpc_ok", "rpc_err", "sc7_done", "suspended"}
        /\ \E l \in {"sc7_post", "idle", "suspended", "powered"} : Goto("pm", l)
        /\ UNCHANGED <<c_state, requested_ipcs, complete, tx, rx, prev>>
    BY <1>5 DEF PmPrepared, PmEnterDone, PowerCycle, fsmVars, chVars
  <2>2. PICK l \in {"sc7_post", "idle", "suspended", "powered"} : Goto("pm", l)
    BY <2>1
  <2>3. /\ pc["pm"] \in CalmLabels /\ AsksFor(pc["pm"]) = {} /\ l \notin ExchangeLabels \cup CallbackLabels
        /\ l \notin LateLabels
    BY <2>1, <2>2 DEF CalmLabels, PcLabels, ExchangeLabels, CallbackLabels, AsksFor, LateLabels, RpcLabels
  <2> QED
    BY <1>1, <1>2, <1>3, <2>1, <2>2, <2>3, PlainStep
<1>6. CASE PmEnterPost
  <2>1. /\ pc["pm"] = "sc7_post" /\ Post("pm", "SC7_ENTER_REQUESTED", "sc7_send", "idle")
        /\ UNCHANGED <<complete, tx, rx, boot_status>>
    BY <1>6 DEF PmEnterPost, chVars
  <2>2. /\ AsksFor("sc7_post") = {} /\ AsksFor("sc7_send") = {"SC7_ENTER"}
        /\ RequestWait("SC7_ENTER_REQUESTED") = {"SC7_ENTER"} /\ "SC7_ENTER_REQUESTED" \in Posted
    BY DEF AsksFor, RequestWait, Posted
  <2>3. /\ "sc7_post" \in CalmLabels /\ {"sc7_send", "idle"} \subseteq PcLabels
        /\ "sc7_send" \notin ExchangeLabels \cup LateLabels
        /\ "idle" \notin ExchangeLabels \cup CallbackLabels \cup LateLabels
    BY DEF CalmLabels, PcLabels, ExchangeLabels, CallbackLabels, LateLabels, RpcLabels
  <2> QED
    BY <1>1, <1>2, <2>1, <2>2, <2>3, PostStep
<1>7. CASE PmEnterSend
  <2>1. /\ pc["pm"] = "sc7_send" /\ UNCHANGED <<c_state, requested_ipcs, complete, rx, prev, boot_status>>
    BY <1>7 DEF PmEnterSend, fsmVars
  <2>2. CanSend /\ Empty
    BY <1>2, <2>1, EmptySends
  <2>3. tx' = Append(tx, [src |-> "pm", cmd |-> "ENTER_SC7"]) /\ Goto("pm", "sc7_wait")
    BY <1>7, <2>2 DEF PmEnterSend
  <2>4. tx' = <<[src |-> "pm", cmd |-> "ENTER_SC7"]>> /\ rx' = <<>>
    BY <2>1, <2>2, <2>3 DEF Empty
  <2>5. FramesAt("pm", "sc7_wait")'
    BY <2>4 DEF FramesAt, ExchangeLabels
  <2>6. AsksFor("sc7_send") \subseteq AsksFor("sc7_wait")
    BY DEF AsksFor
  <2> QED
    BY <1>1, <1>2, <2>1, <2>3, <2>5, <2>6, SendStep
<1>8. CASE PmEnterWait
  <2>1. /\ pc["pm"] = "sc7_wait" /\ UNCHANGED <<c_state, requested_ipcs, tx, rx, prev, boot_status>>
        /\ complete["SC7_ENTER"] /\ complete' = [complete EXCEPT !["SC7_ENTER"] = FALSE] /\ Goto("pm", "sc7_done")
    BY <1>8 DEF PmEnterWait, WaitConsume, chVars
  <2>2. fw = "sc7" /\ "SC7_ENTER" \notin isr_wait
    BY <2>1 DEF OneSc7Report, Sc7Woken, Sc7ToWake
  <2>3. Empty
    <3>1. rx = <<>> /\ (tx = <<>> \/ tx = <<[src |-> "pm", cmd |-> "ENTER_SC7"]>>)
      BY <1>2, <2>1 DEF FitsAt, FramesAt
    <3>2. tx # <<[src |-> "pm", cmd |-> "ENTER_SC7"]>>
      BY <2>2 DEF OneEnter
    <3> QED
      BY <3>1, <3>2 DEF Empty
  <2>4. FramesAt("pm", "sc7_done")'
    BY <2>1, <2>3 DEF FramesAt, Empty
  <2>5. /\ "SC7_ENTER" \in DriverWaits /\ "sc7_wait" \in WokenAt("SC7_ENTER") /\ AsksFor("sc7_wait") = {"SC7_ENTER"}
        /\ "sc7_done" \notin CallbackLabels \cup LateLabels
    BY DEF DriverWaits, Waits, WokenAt, AsksFor, CallbackLabels, LateLabels, RpcLabels
  <2> QED
    BY <1>1, <1>2, <2>1, <2>2, <2>4, <2>5, ConsumeStep
<1>9. CASE PmEnterFail
  BY <1>2, <1>9 DEF PmEnterFail, FitsAt
<1>10. CASE PmResume
  <2>1. /\ pc["pm"] = "powered" /\ Post("pm", "SC7_EXIT_RECEIVED", "idle", "idle")
        /\ UNCHANGED <<complete, tx, rx, boot_status>>
    BY <1>10 DEF PmResume, chVars
  <2>2. /\ AsksFor("powered") = {} /\ AsksFor("idle") = {}
        /\ RequestWait("SC7_EXIT_RECEIVED") = {} /\ "SC7_EXIT_RECEIVED" \in Posted
    BY DEF AsksFor, RequestWait, Posted
  <2>3. /\ "powered" \in CalmLabels /\ "idle" \in PcLabels
        /\ "idle" \notin ExchangeLabels \cup CallbackLabels \cup LateLabels
    BY DEF CalmLabels, PcLabels, ExchangeLabels, CallbackLabels, LateLabels, RpcLabels
  <2> QED
    BY <1>1, <1>2, <2>1, <2>2, <2>3, PostStep
<1> QED
  BY <1>1, <1>4, <1>5, <1>6, <1>7, <1>8, <1>9, <1>10 DEF PmStep

(* The boot workers, up to the firmware's report that it is up. *)
LEMMA BootFits ==
  ASSUME XInv, OneUser, NEW w \in Workers,
         \/ WorkStart(w) \/ BootCompletePost(w) \/ BootCompleteCheck(w) \/ BootCompleteNested(w)
         \/ BootCompleteNestedWake(w) \/ BootCompleteReset(w) \/ BootCompleteRequest(w)
         \/ BootCompleteWait(w) \/ BootCompleteDone(w)
  PROVE  FsmFits' /\ Owned'
<1> USE XInvParts
<1>1. /\ w \in Threads /\ UNCHANGED <<isr, isr_wait, tx, rx>>
      /\ Busy(w) \/ w \in work
  BY DEF WorkStart, BootCompletePost, BootCompleteCheck, BootCompleteNested, BootCompleteNestedWake,
         BootCompleteReset, BootCompleteRequest, BootCompleteWait, BootCompleteDone, isrVars, chVars, Busy
<1>2. Quiet(w) /\ FitsAt(w, pc[w])
  BY <1>1, ActorFits
<1>3. EarlyLabels \cap LateLabels = {} /\ {"idle", "cmd_post"} \cap LateLabels = {}
  BY DEF EarlyLabels, LateLabels, RpcLabels
<1>4. UNCHANGED boot_status => (BootDone' => BootcmdsDone')
  BY DEF FsmFits, BootDone, BootcmdsDone
<1>5. CASE WorkStart(w)
  <2>1. pc[w] = "idle" /\ UNCHANGED <<complete, boot_status>>
    BY <1>5 DEF WorkStart
  <2>2. /\ AsksFor("idle") = {} /\ AsksFor("bc_post") = {}
        /\ RequestWait("FSM_START") = {} /\ "FSM_START" \in Posted
    BY DEF AsksFor, RequestWait, Posted
  <2>3. /\ "idle" \in CalmLabels /\ {"bc_post", "idle"} \subseteq PcLabels
        /\ {"bc_post", "idle"} \cap (ExchangeLabels \cup CallbackLabels \cup LateLabels) = {}
    BY DEF CalmLabels, PcLabels, ExchangeLabels, CallbackLabels, LateLabels, RpcLabels
  <2>4. CASE Post(w, "FSM_START", "bc_post", "idle")
    BY <1>1, <1>2, <2>1, <2>2, <2>3, <2>4, PostStep
  <2>5. CASE Goto(w, "bc_post") /\ UNCHANGED <<c_state, requested_ipcs, prev>>
    BY <1>1, <1>2, <1>4, <2>1, <2>2, <2>3, <2>5, PlainStep
  <2> QED
    BY <1>5, <2>4, <2>5 DEF WorkStart
<1>6. CASE BootCompletePost(w)
  <2>1. /\ pc[w] = "bc_post" /\ Post(w, "BOOT_COMPLETE_REQUESTED", "bc_check", "idle")
        /\ UNCHANGED <<complete, boot_status>>
    BY <1>6 DEF BootCompletePost
  <2>2. /\ AsksFor("bc_post") = {} /\ AsksFor("bc_check") = {"BOOT_COMPLETE"}
        /\ RequestWait("BOOT_COMPLETE_REQUESTED") = {"BOOT_COMPLETE"} /\ "BOOT_COMPLETE_REQUESTED" \in Posted
    BY DEF AsksFor, RequestWait, Posted
  <2>3. /\ "bc_post" \in CalmLabels /\ {"bc_check", "idle"} \subseteq PcLabels
        /\ "bc_check" \notin ExchangeLabels \cup LateLabels
        /\ "idle" \notin ExchangeLabels \cup CallbackLabels \cup LateLabels
    BY DEF CalmLabels, PcLabels, ExchangeLabels, CallbackLabels, LateLabels, RpcLabels
  <2> QED
    BY <1>1, <1>2, <2>1, <2>2, <2>3, PostStep
<1>7. CASE BootCompleteCheck(w) \/ BootCompleteRequest(w) \/ BootCompleteDone(w)
  <2>0. BootDone' => BootcmdsDone'
    <3>1. PICK X \in SUBSET {"EARLY_BOOT_START", "EARLY_BOOT_DONE", "BOOTSTRAP_START"} :
             boot_status' = boot_status \cup X
      BY <1>7 DEF BootCompleteCheck, BootCompleteRequest, BootCompleteDone, SetStatus
    <3>2. "BOOT_DONE" \notin X /\ (BootDone => BootcmdsDone)
      BY <3>1 DEF FsmFits
    <3> QED
      BY <3>1, <3>2 DEF BootDone, BootcmdsDone
  <2>1. /\ UNCHANGED <<c_state, requested_ipcs, complete, prev>>
        /\ \/ pc[w] = "bc_check" /\ Goto(w, "bc_nested")
           \/ pc[w] = "bc_check" /\ Goto(w, "bc_int")
           \/ pc[w] = "bc_int" /\ Goto(w, "bc_wait")
           \/ pc[w] = "bc_done" /\ Goto(w, "cmd_post")
    BY <1>7 DEF BootCompleteCheck, BootCompleteRequest, BootCompleteDone, fsmVars
  <2>2. {"bc_check", "bc_int", "bc_done"} \subseteq CalmLabels
    BY DEF CalmLabels, PcLabels, ExchangeLabels
  <2>3. /\ {"bc_nested", "bc_int", "bc_wait", "cmd_post"} \cap (ExchangeLabels \cup LateLabels) = {}
        /\ {"bc_int", "bc_wait", "cmd_post"} \cap CallbackLabels = {} /\ "bc_check" \in CallbackLabels
    BY DEF ExchangeLabels, CallbackLabels, LateLabels, RpcLabels
  <2>4. /\ AsksFor("bc_check") \subseteq AsksFor("bc_nested") /\ AsksFor("bc_check") \subseteq AsksFor("bc_int")
        /\ AsksFor("bc_int") \subseteq AsksFor("bc_wait") /\ AsksFor("bc_done") \subseteq AsksFor("cmd_post")
    BY DEF AsksFor
  <2>5. PICK k \in {"bc_check", "bc_int", "bc_done"}, l \in {"bc_nested", "bc_int", "bc_wait", "cmd_post"} :
           /\ pc[w] = k /\ Goto(w, l) /\ AsksFor(k) \subseteq AsksFor(l) /\ (l = "bc_nested" => k = "bc_check")
    BY <2>1, <2>4
  <2>6. /\ pc[w] \in CalmLabels /\ AsksFor(pc[w]) \subseteq AsksFor(l)
        /\ l \notin ExchangeLabels \cup {"rpc_ok", "rpc_fail", "sc7_fail"} /\ l \notin LateLabels
        /\ l \in CallbackLabels => pc[w] \in CallbackLabels
    BY <2>2, <2>3, <2>5
  <2> QED
    BY <1>1, <1>2, <2>0, <2>1, <2>5, <2>6, PlainStep
<1>8. CASE BootCompleteNested(w)
  <2>1. pc[w] = "bc_nested" /\ UNCHANGED prev
    BY <1>8 DEF BootCompleteNested
  <2>2. "bc_nested" \in CalmLabels /\ AsksFor("bc_nested") = {"BOOT_COMPLETE"} /\ "BOOT_COMPLETE" \in DriverWaits
    BY DEF CalmLabels, PcLabels, ExchangeLabels, AsksFor, DriverWaits, Waits
  <2>3. "BOOT_COMPLETE" \in WaitOf(c_state)
    BY <1>1, <1>2, <2>1, <2>2, CalmFacts DEF Expected
  <2>4. c_state = "BOOT_WAIT" /\ WaitOf(c_state) = {"BOOT_COMPLETE"}
    BY <2>3 DEF WaitOf, TypeOK, FsmTypeOK, States
  <2>5. dce_fsm_validate_event(c_state, "BOOT_COMPLETE_RECEIVED")
    BY <2>4 DEF dce_fsm_validate_event
  <2>6. /\ Goto(w, "bc_nwake") /\ UNCHANGED <<complete, boot_status>>
        /\ c_state' = StateAfter("BOOT_COMPLETE_RECEIVED")
        /\ requested_ipcs' = RequestedAfter("BOOT_COMPLETE_RECEIVED", requested_ipcs)
    BY <1>8, <2>5 DEF BootCompleteNested, dce_fsm_set_state
  <2>7. requested_ipcs = {"BOOT_COMPLETE"}
    BY <2>4 DEF FsmFits
  <2>8. c_state' = "FSM_IDLE" /\ requested_ipcs' = {}
    BY <2>6, <2>7 DEF StateAfter, RequestedAfter, AbortEvents
  <2>9. WaitOf(c_state') = {}
    BY <2>8 DEF WaitOf
  <2>10. "bc_nwake" \notin ExchangeLabels \cup CallbackLabels \cup LateLabels
    BY DEF ExchangeLabels, CallbackLabels, LateLabels, RpcLabels
  <2> QED
    BY <1>1, <1>2, <1>4, <2>1, <2>2, <2>6, <2>8, <2>9, <2>10, CalmStep
<1>9. CASE BootCompleteNestedWake(w)
  <2>1. /\ pc[w] = "bc_nwake" /\ Goto(w, "bc_reset") /\ UNCHANGED <<c_state, requested_ipcs, prev, boot_status>>
        /\ complete' = [complete EXCEPT !["BOOT_COMPLETE"] = TRUE]
    BY <1>9 DEF BootCompleteNestedWake, dce_wakeup_interruptible
  <2>2. "bc_nwake" \in CalmLabels /\ AsksFor("bc_nwake") = {} /\ "bc_reset" \notin CallbackLabels \cup LateLabels
    BY DEF CalmLabels, PcLabels, ExchangeLabels, AsksFor, CallbackLabels, LateLabels, RpcLabels
  <2>3. WaitOf(c_state) = {} /\ Empty /\ \A v \in DriverWaits : ~ Woken(v)
    BY <1>2, <2>1, <2>2, CalmFacts DEF FitsAt
  <2>4. /\ \A v \in DriverWaits : v # "BOOT_COMPLETE" => complete'[v] = complete[v]
        /\ "ADMIN_IPC" \in DriverWaits /\ "bc_reset" \in WokenAt("BOOT_COMPLETE")
    BY <2>1 DEF TypeOK, FsmTypeOK, DriverWaits, Waits, WokenAt
  <2>5. \A v \in DriverWaits : Woken(v)' => v = "BOOT_COMPLETE"
    BY <1>1, <2>3, <2>4 DEF Woken
  <2>6. FsmFits'
    BY <1>1, <2>1, <2>3, <2>4, <2>5 DEF FsmFits, Woken, BootDone, BootcmdsDone
  <2>7. FramesAt(w, "bc_reset")'
    BY <1>1, <2>3 DEF FramesAt, Empty
  <2>8. FitsAt(w, "bc_reset")'
    BY <2>1, <2>2, <2>3, <2>4, <2>5, <2>7 DEF FitsAt
  <2> QED
    BY <1>1, <1>2, <2>1, <2>6, <2>8, ActorMoves
<1>10. CASE BootCompleteReset(w) \/ BootCompleteWait(w)
  <2>1. /\ pc[w] \in {"bc_reset", "bc_wait"} /\ Goto(w, "bc_done")
        /\ UNCHANGED <<c_state, requested_ipcs, prev, boot_status>>
        /\ pc[w] = "bc_wait" => complete["BOOT_COMPLETE"]
        /\ complete' = [complete EXCEPT !["BOOT_COMPLETE"] = FALSE]
    BY <1>10 DEF BootCompleteReset, BootCompleteWait, dce_cond_wait_reset, WaitConsume
  <2>2. "BOOT_COMPLETE" \notin isr_wait
    <3>1. CASE pc[w] = "bc_wait"
      BY <2>1, <3>1 DEF OneReady, ReadyToWake, ReadyWoken
    <3>2. CASE pc[w] = "bc_reset"
      <4>1. \A v \in Workers : pc[v] # "bc_wait"
        BY <1>2, <3>2 DEF Quiet, Busy
      <4> QED
        BY <4>1 DEF OneReady, ReadyToWake
    <3> QED
      BY <2>1, <3>1, <3>2
  <2>3. /\ "BOOT_COMPLETE" \in DriverWaits /\ pc[w] \in WokenAt("BOOT_COMPLETE")
        /\ AsksFor(pc[w]) \subseteq {"BOOT_COMPLETE"} /\ (pc[w] = "bc_reset" => AsksFor(pc[w]) = {})
        /\ pc[w] \notin ExchangeLabels /\ "bc_done" \notin CallbackLabels \cup LateLabels
    BY <2>1 DEF DriverWaits, Waits, WokenAt, AsksFor, ExchangeLabels, CallbackLabels, LateLabels, RpcLabels
  <2>4. FramesAt(w, "bc_done")'
    BY <1>1, <1>2, <2>3 DEF FitsAt, FramesAt, Empty
  <2> QED
    BY <1>1, <1>2, <2>1, <2>2, <2>3, <2>4, ConsumeStep
<1> QED
  BY <1>5, <1>6, <1>7, <1>8, <1>9, <1>10

(* The boot commands. *)
LEMMA CmdFits ==
  ASSUME XInv, OneUser, NEW w \in Workers,
         CmdPost(w) \/ CmdSend(w) \/ CmdWait(w) \/ CmdStatus(w) \/ CmdFail(w) \/ BootFail(w)
  PROVE  FsmFits' /\ Owned'
<1> USE XInvParts
<1>1. /\ w \in Threads /\ UNCHANGED <<isr, isr_wait, tx, rx>> /\ Busy(w)
  BY DEF CmdPost, CmdSend, CmdWait, CmdStatus, CmdFail, BootFail, isrVars, chVars, Busy
<1>2. Quiet(w) /\ FitsAt(w, pc[w])
  BY <1>1, ActorFits
<1>3. UNCHANGED boot_status => (BootDone' => BootcmdsDone')
  BY DEF FsmFits, BootDone, BootcmdsDone
<1>4. CASE CmdPost(w)
  <2>1. /\ pc[w] = "cmd_post" /\ Post(w, "BOOT_CMD_MSG_REQUESTED", "cmd_send", "boot_fail")
        /\ UNCHANGED <<complete, boot_status>>
    BY <1>4 DEF CmdPost
  <2>2. /\ AsksFor("cmd_post") = {} /\ AsksFor("cmd_send") = {"BOOT_CMD"}
        /\ RequestWait("BOOT_CMD_MSG_REQUESTED") = {"BOOT_CMD"} /\ "BOOT_CMD_MSG_REQUESTED" \in Posted
    BY DEF AsksFor, RequestWait, Posted
  <2>3. /\ "cmd_post" \in CalmLabels /\ {"cmd_send", "boot_fail"} \subseteq PcLabels
        /\ "cmd_send" \notin ExchangeLabels \cup LateLabels
        /\ "boot_fail" \notin ExchangeLabels \cup CallbackLabels \cup LateLabels
    BY DEF CalmLabels, PcLabels, ExchangeLabels, CallbackLabels, LateLabels, RpcLabels
  <2> QED
    BY <1>1, <1>2, <2>1, <2>2, <2>3, PostStep
<1>5. CASE CmdSend(w)
  <2>1. pc[w] = "cmd_send" /\ UNCHANGED <<c_state, requested_ipcs, complete, prev, boot_status>>
    BY <1>5 DEF CmdSend, fsmVars
  <2>2. cmd_mb = 0
    <3>1. \A v \in Workers : pc[v] # "cmd_wait"
      BY <1>2, <2>1 DEF Quiet, Busy
    <3> QED
      BY <3>1 DEF OneCmd, NoCmd, CmdInMailbox
  <2>3. Goto(w, "cmd_wait")
    BY <1>5, <2>2 DEF CmdSend
  <2>4. /\ "cmd_send" \in CalmLabels /\ AsksFor("cmd_send") \subseteq AsksFor("cmd_wait")
        /\ "cmd_wait" \notin ExchangeLabels \cup LateLabels /\ "cmd_send" \in CallbackLabels
    BY DEF CalmLabels, PcLabels, ExchangeLabels, CallbackLabels, LateLabels, RpcLabels, AsksFor
  <2> QED
    BY <1>1, <1>2, <1>3, <2>1, <2>3, <2>4, PlainStep
<1>6. CASE CmdWait(w)
  <2>1. /\ pc[w] = "cmd_wait" /\ Goto(w, "cmd_status")
        /\ UNCHANGED <<c_state, requested_ipcs, prev, boot_status>>
        /\ complete["BOOT_CMD"] /\ complete' = [complete EXCEPT !["BOOT_CMD"] = FALSE]
    BY <1>6 DEF CmdWait, WaitConsume
  <2>2. "BOOT_CMD" \notin isr_wait
    BY <2>1 DEF OneCmd, CmdToWake, CmdWoken
  <2>3. /\ "BOOT_CMD" \in DriverWaits /\ "cmd_wait" \in WokenAt("BOOT_CMD") /\ AsksFor("cmd_wait") = {"BOOT_CMD"}
        /\ "cmd_wait" \notin ExchangeLabels /\ "cmd_wait" \in CallbackLabels /\ "cmd_status" \notin LateLabels
    BY DEF DriverWaits, Waits, WokenAt, AsksFor, ExchangeLabels, CallbackLabels, LateLabels, RpcLabels
  <2>4. FramesAt(w, "cmd_status")'
    BY <1>1, <1>2, <2>1, <2>3 DEF FitsAt, FramesAt, Empty
  <2> QED
    BY <1>1, <1>2, <2>1, <2>2, <2>3, <2>4, ConsumeStep
<1>7. CASE CmdStatus(w)
  <2>1. pc[w] = "cmd_status" /\ UNCHANGED <<c_state, requested_ipcs, complete, prev>>
    BY <1>7 DEF CmdStatus, fsmVars
  <2>2. /\ "cmd_status" \in CalmLabels /\ AsksFor("cmd_status") = {} /\ "cmd_status" \in CallbackLabels
        /\ {"cmd_fail", "cmd_post", "ch_reset"} \cap ExchangeLabels = {}
        /\ {"cmd_fail", "cmd_post"} \cap LateLabels = {}
    BY DEF CalmLabels, PcLabels, ExchangeLabels, CallbackLabels, LateLabels, RpcLabels, AsksFor
  <2>3. CASE Goto(w, "cmd_fail") /\ UNCHANGED boot_status
    BY <1>1, <1>2, <1>3, <2>1, <2>2, <2>3, PlainStep
  <2>4. CASE Goto(w, "cmd_post") /\ UNCHANGED boot_status
    BY <1>1, <1>2, <1>3, <2>1, <2>2, <2>4, PlainStep
  <2>5. CASE Goto(w, "ch_reset") /\ SetStatus({"BOOTSTRAP_DONE"})
    <3>1. BootcmdsDone'
      BY <2>5 DEF SetStatus, BootcmdsDone
    <3> QED
      BY <1>1, <1>2, <2>1, <2>2, <2>5, <3>1, PlainStep
  <2> QED
    BY <1>7, <2>3, <2>4, <2>5 DEF CmdStatus
<1>8. CASE CmdFail(w)
  <2>1. /\ pc[w] = "cmd_fail" /\ Goto(w, "boot_fail") /\ UNCHANGED <<requested_ipcs, complete, boot_status>>
        /\ c_state' = prev[w]
    BY <1>8 DEF CmdFail, PostRestore
  <2>2. /\ "cmd_fail" \in CalmLabels /\ AsksFor("cmd_fail") = {} /\ "cmd_fail" \in CallbackLabels
        /\ "boot_fail" \notin ExchangeLabels \cup CallbackLabels \cup LateLabels
    BY DEF CalmLabels, PcLabels, ExchangeLabels, CallbackLabels, LateLabels, RpcLabels, AsksFor
  <2>3. WaitOf(c_state') = {} /\ c_state' # "ABORT" /\ requested_ipcs' = {}
    BY <1>2, <2>1, <2>2 DEF FitsAt, FsmFits
  <2> QED
    BY <1>1, <1>2, <1>3, <2>1, <2>2, <2>3, CalmStep
<1>9. CASE BootFail(w)
  <2>1. /\ pc[w] = "boot_fail" /\ Goto(w, "idle") /\ UNCHANGED <<c_state, requested_ipcs, complete, prev>>
        /\ boot_status' = boot_status \cup {"BOOTSTRAP_FAILED", "FAILED"}
    BY <1>9 DEF BootFail, SetStatus, fsmVars
  <2>2. /\ "boot_fail" \in CalmLabels /\ AsksFor("boot_fail") = {}
        /\ "idle" \notin ExchangeLabels \cup CallbackLabels \cup LateLabels
    BY DEF CalmLabels, PcLabels, ExchangeLabels, CallbackLabels, LateLabels, RpcLabels, AsksFor
  <2>3. BootDone' => BootcmdsDone'
    BY <2>1 DEF FsmFits, BootDone, BootcmdsDone
  <2> QED
    BY <1>1, <1>2, <2>1, <2>2, <2>3, PlainStep
<1> QED
  BY <1>4, <1>5, <1>6, <1>7, <1>8, <1>9

(* The channels and the admin sequence. *)
LEMMA SeqFits ==
  ASSUME XInv, OneUser, NEW w \in Workers, ChannelReset(w) \/ ChannelReady(w) \/ SeqStart(w) \/ SeqReply(w)
  PROVE  FsmFits' /\ Owned'
<1> USE XInvParts
<1>1. /\ w \in Threads /\ UNCHANGED <<c_state, requested_ipcs, complete, isr, isr_wait, tx, rx, prev>> /\ Busy(w)
      /\ pc[w] \in {"ch_reset", "ch_ready", "seq_alloc", "rpc_ok", "rpc_err"}
  BY DEF ChannelReset, ChannelReady, SeqStart, SeqReply, isrVars, chVars, fsmVars, Busy
<1>2. \E l \in {"ch_reset", "ch_ready", "seq_alloc", "rpc_post", "idle"} : Goto(w, l)
  BY DEF ChannelReset, ChannelReady, SeqStart, SeqReply
<1>3. \E X : boot_status' = boot_status \cup X
  <2>1. CASE ChannelReset(w) \/ ChannelReady(w)
    <3>1. boot_status' = boot_status \cup {}
      BY <2>1 DEF ChannelReset, ChannelReady
    <3> QED
      BY <3>1
  <2>2. CASE SeqStart(w)
    BY <2>2 DEF SeqStart, SetStatus
  <2>3. CASE SeqReply(w)
    <3>1. SetStatus({"ADMIN_SEQ_FAILED", "FAILED"}) \/ SetStatus({"ADMIN_SEQ_DONE", "BOOT_DONE"}) \/ UNCHANGED boot_status
      BY <2>3 DEF SeqReply
    <3>2. boot_status \cup {} = boot_status
      OBVIOUS
    <3> QED
      BY <3>1, <3>2 DEF SetStatus
  <2> QED
    BY <2>1, <2>2, <2>3
<1>4. Quiet(w) /\ FitsAt(w, pc[w])
  BY <1>1, ActorFits
<1>5. /\ pc[w] \in CalmLabels /\ AsksFor(pc[w]) = {} /\ pc[w] \in LateLabels
      /\ {"ch_reset", "ch_ready", "seq_alloc", "rpc_post", "idle"} \cap (ExchangeLabels \cup CallbackLabels) = {}
  BY <1>1 DEF CalmLabels, PcLabels, ExchangeLabels, CallbackLabels, LateLabels, RpcLabels, AsksFor
<1>6. BootcmdsDone'
  <2>1. BootcmdsDone
    BY <1>4, <1>5 DEF FitsAt
  <2> QED
    BY <1>3, <2>1 DEF BootcmdsDone
<1>7. PICK l \in {"ch_reset", "ch_ready", "seq_alloc", "rpc_post", "idle"} : Goto(w, l)
  BY <1>2
<1>8. l \notin ExchangeLabels \cup {"rpc_ok", "rpc_fail", "sc7_fail"} /\ l \notin CallbackLabels
  BY <1>5, <1>7
<1> QED
  BY <1>1, <1>4, <1>5, <1>6, <1>7, <1>8, PlainStep

(* A step of the handler or of the firmware moves no thread. *)
LEMMA OwnerStays ==
  ASSUME NEW o \in Threads, Quiet(o), UNCHANGED pc, FitsAt(o, pc[o])'
  PROVE  Owned'
<1>1. Quiet(o)'
  BY DEF Quiet, Busy
<1> QED
  BY <1>1 DEF Owned

(* The handler leaves the state machine and the wake-ups alone, or only    *)
(* moves wake-ups on.                                                      *)
LEMMA WakesMove ==
  ASSUME XInv, UNCHANGED <<pc, c_state, requested_ipcs, prev, resp, asi, boot_status, tx, rx>>,
         \A w \in Waits : Woken(w)' <=> Woken(w),
         complete["ADMIN_IPC"] => complete'["ADMIN_IPC"],
         complete'["ADMIN_IPC"] => isr' # "adm_wake"
  PROVE  FsmFits' /\ Owned'
<1> USE XInvParts
<1>1. DriverWaits \subseteq Waits /\ "ADMIN_IPC" \in Waits
  BY DEF DriverWaits, Waits
<1>2. PICK o \in Threads : Quiet(o) /\ FitsAt(o, pc[o])
  BY DEF Owned
<1>3. WaitOf(c_state) \subseteq Waits
  BY <1>1, <1>2, AskedWaits DEF FitsAt
<1>4. FsmFits'
  BY <1>3 DEF FsmFits, BootDone, BootcmdsDone
<1>5. Request(o)' = Request(o)
  BY DEF Request
<1>6. FramesAt(o, pc[o])'
  BY <1>2, <1>5 DEF FitsAt, FramesAt, Asked, Replied, Empty
<1>7. FitsAt(o, pc[o])'
  BY <1>1, <1>2, <1>5, <1>6 DEF FitsAt, BootcmdsDone
<1> QED
  BY <1>2, <1>4, <1>7, OwnerStays

(* An answer is accepted: the state that waited for it is left, and the    *)
(* thread that asked is about to be woken.                                 *)
LEMMA AnswerAccepted ==
  ASSUME XInv, NEW o \in Threads, Quiet(o), FitsAt(o, pc[o]), NEW w \in DriverWaits,
         pc[o] \in WokenAt(w), w = "ADMIN_IPC" => rx # <<>>,
         WaitOf(c_state) = {w}, WaitOf(c_state') = {}, c_state' # "ABORT", requested_ipcs' = {},
         \A v \in DriverWaits : Woken(v)' => v = w,
         UNCHANGED <<pc, complete, prev, resp, asi, boot_status, tx, rx>>,
         complete["ADMIN_IPC"] => isr' # "adm_wake"
  PROVE  FsmFits' /\ Owned'
<1> USE XInvParts
<1>1. FsmFits'
  BY DEF FsmFits, BootDone, BootcmdsDone
<1>2. Request(o)' = Request(o) /\ "ADMIN_IPC" \in DriverWaits
  BY DEF Request, DriverWaits, Waits
<1>3. FramesAt(o, pc[o])'
  BY <1>2 DEF FitsAt, FramesAt, Asked, Replied, Empty
<1>4. FitsAt(o, pc[o])'
  BY <1>2, <1>3 DEF FitsAt, BootcmdsDone
<1> QED
  BY <1>1, <1>4, OwnerStays

(* What the boot interface accepts, and where it leads. *)
LEMMA BootAnswer ==
  ASSUME NEW s \in States \ {"ABORT"}, NEW k \in {"READY", "SC7_ENTERED", "BOOT_CMD"},
         dce_fsm_validate_event(s, EventFor(k))
  PROVE  /\ WaitOf(s) = WakesFor(k)
         /\ WaitOf(StateAfter(EventFor(k))) = {} /\ StateAfter(EventFor(k)) # "ABORT"
         /\ RequestedAfter(EventFor(k), WakesFor(k)) = {}
<1>1. CASE k = "READY"
  <2>1. EventFor(k) = "BOOT_COMPLETE_RECEIVED" /\ WakesFor(k) = {"BOOT_COMPLETE"}
    BY <1>1 DEF EventFor, WakesFor
  <2>2. s = "BOOT_WAIT"
    BY <2>1 DEF dce_fsm_validate_event, AnswerEvents, AlwaysAccepted, AbortEvents
  <2> QED
    BY <2>1, <2>2 DEF WaitOf, StateAfter, RequestedAfter, AbortEvents
<1>2. CASE k = "SC7_ENTERED"
  <2>1. EventFor(k) = "SC7_ENTERED_RECEIVED" /\ WakesFor(k) = {"SC7_ENTER"}
    BY <1>2 DEF EventFor, WakesFor
  <2>2. s = "SC7_ENTER_WFI"
    BY <2>1 DEF dce_fsm_validate_event, AnswerEvents, AlwaysAccepted, AbortEvents
  <2> QED
    BY <2>1, <2>2 DEF WaitOf, StateAfter, RequestedAfter, AbortEvents
<1>3. CASE k = "BOOT_CMD"
  <2>1. EventFor(k) = "BOOT_CMD_MSG_RECEIVED" /\ WakesFor(k) = {"BOOT_CMD"}
    BY <1>3 DEF EventFor, WakesFor
  <2>2. s = "BOOTCMD_WFI"
    BY <2>1 DEF dce_fsm_validate_event, AnswerEvents, AlwaysAccepted, AbortEvents
  <2> QED
    BY <2>1, <2>2 DEF WaitOf, StateAfter, RequestedAfter, AbortEvents
<1> QED
  BY <1>1, <1>2, <1>3

(* The thread the answer is for waits for it. *)
LEMMA AnswerHasWaiter ==
  ASSUME XInv, isr = "boot_post", ack.kind \in {"READY", "SC7_ENTERED", "BOOT_CMD"}
  PROVE  \E t \in Threads, w \in DriverWaits : WakesFor(ack.kind) = {w} /\ pc[t] \in WokenAt(w) /\ Busy(t)
<1> USE XInvParts
<1>1. CASE ack.kind = "READY"
  <2>1. PICK v \in Workers : pc[v] = "bc_wait"
    BY <1>1 DEF OneReady, ReadyInHandler
  <2>2. WakesFor(ack.kind) = {"BOOT_COMPLETE"} /\ "bc_wait" \in WokenAt("BOOT_COMPLETE") /\ "BOOT_COMPLETE" \in DriverWaits
    BY <1>1 DEF WakesFor, WokenAt, DriverWaits, Waits
  <2> QED
    BY <2>1, <2>2 DEF Busy
<1>2. CASE ack.kind = "SC7_ENTERED"
  <2>1. pc["pm"] = "sc7_wait"
    BY <1>2 DEF OneSc7Report, Sc7InHandler, Sc7Used, Sc7Held
  <2>2. WakesFor(ack.kind) = {"SC7_ENTER"} /\ "sc7_wait" \in WokenAt("SC7_ENTER") /\ "SC7_ENTER" \in DriverWaits
    BY <1>2 DEF WakesFor, WokenAt, DriverWaits, Waits
  <2> QED
    BY <2>1, <2>2 DEF Busy
<1>3. CASE ack.kind = "BOOT_CMD"
  <2>1. PICK v \in Workers : pc[v] = "cmd_wait"
    BY <1>3 DEF OneCmd, NoCmd, CmdInHandler
  <2>2. WakesFor(ack.kind) = {"BOOT_CMD"} /\ "cmd_wait" \in WokenAt("BOOT_CMD") /\ "BOOT_CMD" \in DriverWaits
    BY <1>3 DEF WakesFor, WokenAt, DriverWaits, Waits
  <2> QED
    BY <2>1, <2>2 DEF Busy
<1> QED
  BY <1>1, <1>2, <1>3

LEMMA IsrFits ==
  ASSUME ~ Overtaken, XInv, IsrStep
  PROVE  FsmFits' /\ Owned'
<1> USE XInvParts
<1>1. UNCHANGED <<pc, prev, resp, asi, boot_status, tx, rx>>
  BY DEF IsrStep, IsrEnter, IsrBootRead, IsrBootPost, IsrBootWake, IsrAdminRead, IsrAdminPost,
         IsrAdminSeen, IsrAdminLate, IsrAdminWake,
         thrVars, chVars
<1>2. c_state \in States /\ complete \in [Waits -> BOOLEAN] /\ "ADMIN_IPC" \in Waits
  BY DEF TypeOK, FsmTypeOK, Waits
<1>3. PICK o \in Threads : Quiet(o) /\ FitsAt(o, pc[o])
  BY DEF Owned
<1>4. CASE IsrEnter \/ IsrBootRead \/ IsrAdminRead
  <2>1. /\ UNCHANGED <<c_state, requested_ipcs, complete, isr_wait>> /\ isr # "adm_wake" /\ isr' # "adm_wake"
    BY <1>4 DEF IsrEnter, IsrBootRead, IsrAdminRead, fsmVars
  <2>2. \A w \in Waits : Woken(w)' <=> Woken(w)
    BY <2>1 DEF Woken
  <2> QED
    BY <1>1, <2>1, <2>2, WakesMove
<1>5. CASE IsrBootPost
  <2>1. isr = "boot_post" /\ isr_wait = {} /\ UNCHANGED complete /\ isr' # "adm_wake"
    BY <1>5 DEF IsrBootPost, HandlerHolds, AfterBoot
  <2>2. CASE UNCHANGED <<c_state, requested_ipcs, isr_wait>>
    <3>1. \A w \in Waits : Woken(w)' <=> Woken(w)
      BY <2>1, <2>2 DEF Woken
    <3> QED
      BY <1>1, <2>1, <2>2, <3>1, WakesMove
  <2>3. CASE ack.kind = "LOG_READY" /\ isr_wait' = {"LOG"} /\ UNCHANGED <<c_state, requested_ipcs>>
    <3>1. \A w \in DriverWaits : Woken(w)' <=> Woken(w)
      BY <2>1, <2>3 DEF Woken, DriverWaits
    <3>2. WaitOf(c_state) \subseteq DriverWaits /\ "ADMIN_IPC" \in DriverWaits
      BY <1>3, AskedWaits DEF FitsAt, DriverWaits, Waits
    <3>3. FsmFits'
      BY <1>1, <2>1, <2>3, <3>1, <3>2 DEF FsmFits, BootDone, BootcmdsDone
    <3>4. Request(o)' = Request(o)
      BY <1>1 DEF Request
    <3>5. FramesAt(o, pc[o])'
      BY <1>1, <1>3, <2>1, <3>4 DEF FitsAt, FramesAt, Asked, Replied, Empty
    <3>6. FitsAt(o, pc[o])'
      BY <1>1, <1>3, <2>3, <3>1, <3>2, <3>4, <3>5 DEF FitsAt, BootcmdsDone
    <3> QED
      BY <1>1, <1>3, <3>3, <3>6, OwnerStays
  <2>4. CASE /\ ack.kind \notin {"none", "LOG_READY"} /\ dce_fsm_validate_event(c_state, EventFor(ack.kind))
             /\ isr_wait' = WakesFor(ack.kind) /\ dce_fsm_set_state(EventFor(ack.kind))
    <3>1. ack.kind \in {"READY", "SC7_ENTERED", "BOOT_CMD"}
      BY <2>4 DEF InPlace, TypeOK, MbTypeOK, Statuses, IrqKinds
    <3>2. PICK t \in Threads, w \in DriverWaits : WakesFor(ack.kind) = {w} /\ pc[t] \in WokenAt(w) /\ Busy(t)
      BY <2>1, <3>1, AnswerHasWaiter
    <3>3. t = o
      BY <1>3, <3>2 DEF Quiet
    <3>4. c_state \in States \ {"ABORT"} /\ requested_ipcs = WaitOf(c_state)
      BY <1>2 DEF FsmFits
    <3>5. /\ WaitOf(c_state) = WakesFor(ack.kind) /\ WaitOf(StateAfter(EventFor(ack.kind))) = {}
          /\ StateAfter(EventFor(ack.kind)) # "ABORT" /\ RequestedAfter(EventFor(ack.kind), WakesFor(ack.kind)) = {}
      BY <2>4, <3>1, <3>4, BootAnswer
    <3>6. WaitOf(c_state) = {w} /\ WaitOf(c_state') = {} /\ c_state' # "ABORT" /\ requested_ipcs' = {}
      BY <2>4, <3>2, <3>4, <3>5 DEF dce_fsm_set_state
    <3>7. \A v \in DriverWaits : Woken(v)' => v = w
      <4>1. pc[o] \in WokenAt(w) /\ \A v \in DriverWaits : pc[o] \in WokenAt(v) => v = w
        BY <3>2, <3>3 DEF WokenAt, DriverWaits, Waits
      <4>2. isr_wait' = {w}
        BY <2>4, <3>2
      <4> QED
        BY <1>3, <2>1, <4>1, <4>2 DEF Woken, FitsAt
    <3>8. w # "ADMIN_IPC"
      BY <3>1, <3>2 DEF WakesFor
    <3> QED
      BY <1>1, <1>3, <2>1, <3>2, <3>3, <3>6, <3>7, <3>8, AnswerAccepted
  <2>5. WakesFor("LOG_READY") = {"LOG"}
    BY DEF WakesFor
  <2> QED
    BY <1>5, <2>2, <2>3, <2>4, <2>5 DEF IsrBootPost
<1>6. CASE IsrBootWake
  <2>1. /\ isr = "boot_wake" /\ UNCHANGED <<c_state, requested_ipcs>> /\ isr' # "adm_wake" /\ isr_wait' = {}
        /\ \A w \in Waits : complete'[w] <=> (complete[w] \/ w \in isr_wait)
    BY <1>6 DEF IsrBootWake, AfterBoot
  <2>2. \A w \in Waits : Woken(w)' <=> Woken(w)
    BY <2>1 DEF Woken
  <2> QED
    BY <1>1, <1>2, <2>1, <2>2, WakesMove
<1>7. CASE IsrAdminPost
  <2>1. isr = "adm_post" /\ UNCHANGED <<complete, isr_wait>>
    BY <1>7 DEF IsrAdminPost
  <2>2. CASE UNCHANGED <<c_state, requested_ipcs>> /\ isr' = "idle"
    <3>1. \A w \in Waits : Woken(w)' <=> Woken(w)
      BY <2>1, <2>2 DEF Woken
    <3> QED
      BY <1>1, <2>1, <2>2, <3>1, WakesMove
  <2>3. CASE /\ rx # <<>> /\ dce_fsm_validate_event(c_state, "ADMIN_IPC_MSG_RECEIVED")
             /\ dce_fsm_set_state("ADMIN_IPC_MSG_RECEIVED") /\ isr' = "adm_wake"
    <3>1. c_state # "ABORT" /\ requested_ipcs = WaitOf(c_state)
      BY DEF FsmFits
    <3>2. c_state = "ADMIN_WFI"
      BY <2>3, <3>1 DEF dce_fsm_validate_event, AnswerEvents, AbortEvents, AlwaysAccepted
    <3>3. WaitOf(c_state) = {"ADMIN_IPC"} /\ requested_ipcs = {"ADMIN_IPC"}
      BY <3>1, <3>2 DEF WaitOf
    <3>4. c_state' = "FSM_IDLE" /\ requested_ipcs' = {}
      BY <2>3, <3>3 DEF dce_fsm_set_state, StateAfter, RequestedAfter, AbortEvents
    <3>5. WaitOf(c_state') = {}
      BY <3>4 DEF WaitOf
    <3>6. pc[o] = "rpc_wait"
      <4>1. pc[o] \in {"rpc_send", "rpc_wait"}
        BY <1>3, <3>3, AskLabels DEF FitsAt
      <4>2. pc[o] # "rpc_send"
        BY <1>3, <2>3 DEF FitsAt, FramesAt, ExchangeLabels, Empty
      <4> QED
        BY <4>1, <4>2
    <3>7. ~ complete["ADMIN_IPC"]
      BY <3>3 DEF FsmFits, Woken
    <3>8. \A v \in DriverWaits : Woken(v)' => v = "ADMIN_IPC"
      <4>1. \A v \in DriverWaits : "rpc_wait" \in WokenAt(v) => v = "ADMIN_IPC"
        BY DEF WokenAt, DriverWaits, Waits
      <4> QED
        BY <1>3, <2>1, <3>6, <4>1 DEF Woken, FitsAt
    <3>9. "ADMIN_IPC" \in DriverWaits /\ "rpc_wait" \in WokenAt("ADMIN_IPC")
      BY DEF DriverWaits, Waits, WokenAt
    <3> QED
      BY <1>1, <1>3, <2>1, <2>3, <3>3, <3>4, <3>5, <3>6, <3>7, <3>8, <3>9, AnswerAccepted
  <2> QED
    BY <1>7, <2>2, <2>3 DEF IsrAdminPost
<1>8. CASE IsrAdminWake
  <2>1. /\ isr = "adm_wake" /\ UNCHANGED <<c_state, requested_ipcs, isr_wait>> /\ isr' = "idle"
        /\ complete' = [complete EXCEPT !["ADMIN_IPC"] = TRUE]
    BY <1>8 DEF IsrAdminWake, dce_wakeup_interruptible
  <2>2. complete'["ADMIN_IPC"] /\ \A w \in Waits : w # "ADMIN_IPC" => complete'[w] = complete[w]
    BY <1>2, <2>1
  <2>3. \A w \in Waits : Woken(w)' <=> Woken(w)
    BY <2>1, <2>2 DEF Woken
  <2> QED
    BY <1>1, <2>1, <2>2, <2>3, WakesMove
<1>9. ~ IsrAdminSeen /\ ~ IsrAdminLate
  BY DEF IsrAdminSeen, IsrAdminLate, InPlace
<1> QED
  BY <1>4, <1>5, <1>6, <1>7, <1>8, <1>9 DEF IsrStep

(* The firmware takes the frame it finds and answers the one who sent it. *)
LEMMA FwFits ==
  ASSUME XInv, FwStep \/ \E k \in FwIrqs : FwIrq(k)
  PROVE  FsmFits' /\ Owned'
<1> USE XInvParts
<1>1. UNCHANGED <<pc, c_state, requested_ipcs, complete, isr, isr_wait, prev, resp, asi, boot_status>>
  BY DEF FwStep, FwBooted, FwReady, FwTakeCmd, FwAckCmd, FwReply, FwEnterSC7, FwEstablish, FwIrq,
         thrVars, fsmVars, isrVars
<1>2. PICK o \in Threads : Quiet(o) /\ FitsAt(o, pc[o])
  BY DEF Owned
<1>3. \A w : Woken(w)' <=> Woken(w)
  BY <1>1 DEF Woken
<1>4. FsmFits'
  BY <1>1, <1>3 DEF FsmFits, BootDone, BootcmdsDone
<1>5. Request(o)' = Request(o) /\ "ADMIN_IPC" \in DriverWaits
  BY <1>1 DEF Request, DriverWaits, Waits
<1>6. ASSUME FramesAt(o, pc[o])', Woken("ADMIN_IPC") => rx' # <<>> PROVE FsmFits' /\ Owned'
  <2>1. FitsAt(o, pc[o])'
    BY <1>1, <1>2, <1>3, <1>5, <1>6 DEF FitsAt, BootcmdsDone
  <2> QED
    BY <1>1, <1>2, <1>4, <2>1, OwnerStays
<1>7. FramesAt(o, pc[o]) /\ (Woken("ADMIN_IPC") => rx # <<>> /\ pc[o] \in {"rpc_wait", "rpc_woken"})
  BY <1>2, <1>5 DEF FitsAt, WokenAt
<1>8. CASE UNCHANGED <<tx, rx>>
  <2>1. FramesAt(o, pc[o])'
    BY <1>1, <1>5, <1>7, <1>8 DEF FramesAt, Asked, Replied, Empty
  <2> QED
    BY <1>6, <1>7, <1>8, <2>1
<1>9. CASE FwReply
  <2>1. tx # <<>> /\ Head(tx).cmd # "ENTER_SC7" /\ tx' = Tail(tx)
    BY <1>9 DEF FwReply, FwServes
  <2>2. tx # <<[src |-> "pm", cmd |-> "ENTER_SC7"]>>
    BY <2>1
  <2>3. pc[o] = "rpc_wait" /\ Asked(o)
    BY <1>7, <2>1, <2>2 DEF FramesAt, ExchangeLabels, Replied, Empty
  <2>4. PICK e \in BOOLEAN : rx' = Append(rx, [src |-> Head(tx).src, cmd |-> Head(tx).cmd, err |-> e])
    BY <1>9, BootAssumption DEF FwReply, BootAssumption
  <2>5. Head(tx) = Request(o) /\ tx' = <<>> /\ rx = <<>>
    BY <2>1, <2>3 DEF Asked
  <2>6. PICK r : r = [src |-> Request(o).src, cmd |-> Request(o).cmd, err |-> e]
    OBVIOUS
  <2>7. rx' = <<r>>
    BY <2>4, <2>5, <2>6
  <2>8. Request(o) \in Messages /\ Request(o).src = o
    BY <2>3, CallIsNoEnter DEF RpcLabels, Request
  <2>9. r \in Replies /\ r.src = o /\ r.cmd = Request(o).cmd
    BY <2>4, <2>6, <2>8 DEF Messages, Replies
  <2>10. Replied(o)'
    BY <1>5, <2>5, <2>7, <2>9 DEF Replied
  <2>11. FramesAt(o, pc[o])'
    BY <1>1, <2>3, <2>10 DEF FramesAt, ExchangeLabels
  <2>12. rx' # <<>>
    BY <2>7
  <2> QED
    BY <1>6, <2>11, <2>12
<1>10. CASE FwEnterSC7
  <2>1. tx # <<>> /\ Head(tx).cmd = "ENTER_SC7" /\ tx' = Tail(tx) /\ rx' = rx
    BY <1>10 DEF FwEnterSC7, FwServes
  <2>2. ~ (pc[o] = "rpc_wait" /\ Asked(o))
    <3> SUFFICES ASSUME pc[o] = "rpc_wait", Asked(o) PROVE FALSE
      OBVIOUS
    <3>1. Head(tx) = Request(o)
      BY DEF Asked
    <3> QED
      BY <2>1, <3>1, CallIsNoEnter DEF RpcLabels
  <2>3. pc[o] = "sc7_wait" /\ rx = <<>> /\ tx = <<[src |-> "pm", cmd |-> "ENTER_SC7"]>>
    BY <1>7, <2>1, <2>2 DEF FramesAt, ExchangeLabels, Replied, Empty
  <2>4. tx' = <<>> /\ rx' = <<>>
    BY <2>1, <2>3
  <2>5. FramesAt(o, pc[o])'
    BY <1>1, <2>3, <2>4 DEF FramesAt, ExchangeLabels
  <2> QED
    BY <1>6, <1>7, <2>3, <2>5
<1>11. ASSUME NEW c \in Channels, FwEstablish(c), c = "ADMIN" PROVE FsmFits' /\ Owned'
  <2>1. ch["ADMIN"] = "sync" /\ tx' = <<>> /\ rx' = <<>>
    BY <1>11 DEF FwEstablish
  <2>2. pc[o] \notin ExchangeLabels
    BY <2>1, SyncedForExchange
  <2>3. FramesAt(o, pc[o])'
    BY <1>1, <2>1, <2>2 DEF FramesAt, ExchangeLabels, Empty
  <2>4. ~ Woken("ADMIN_IPC")
    BY <1>7, <2>2 DEF ExchangeLabels
  <2> QED
    BY <1>6, <2>3, <2>4
<1>12. FwReply \/ FwEnterSC7 \/ (\E c \in Channels : FwEstablish(c) /\ c = "ADMIN") \/ UNCHANGED <<tx, rx>>
  BY DEF FwStep, FwBooted, FwReady, FwTakeCmd, FwAckCmd, FwEstablish, FwIrq, chVars
<1> QED
  BY <1>8, <1>9, <1>10, <1>11, <1>12

LEMMA XStep ==
  ASSUME ~ EarlySuspend, ~ AllocFail, ~ Overtaken, OneUser, Interruptible = {}, "ABORT" \notin FwIrqs
  PROVE  XInv /\ [Next]_vars => XInv'
<1> SUFFICES ASSUME XInv, [Next]_vars PROVE XInv'
  OBVIOUS
<1>1. RInv'
  BY RStep, XInvParts
<1>2. Awaited'
  BY WStep, XInvParts DEF WInv
<1>3. FsmFits' /\ Owned'
  <2>1. CASE UNCHANGED vars
    BY <2>1 DEF XInv, vars, fsmVars, chVars, thrVars, isrVars, FsmFits, Owned, Quiet, Busy, FitsAt, FramesAt,
                Asked, Replied, Request, Empty, Woken, BootDone, BootcmdsDone
  <2>2. ASSUME NEW w \in Workers, WorkerStep(w) PROVE FsmFits' /\ Owned'
    BY <2>2, BootFits, CmdFits, SeqFits DEF WorkerStep
  <2> QED
    BY <2>1, <2>2, RpcFits, PmFits, UserFits, IsrFits, FwFits DEF Next
<1> QED
  BY <1>1, <1>2, <1>3 DEF XInv

(* With one user, no signals, unless the firmware aborts, and when nobody  *)
(* overtakes the handler between its look at the admin channel and its     *)
(* event, the reply an admin call returns is the reply to its own request: *)
(* the frame that dce_ipc_send_message_sync reads next is never a          *)
(* leftover, whatever suspends, resumes, firmware errors and trace-log     *)
(* interrupts come in between.                                             *)
THEOREM RepliesAreToTheRequest ==
  ASSUME ~ EarlySuspend, ~ AllocFail, ~ Overtaken, OneUser, Interruptible = {}, "ABORT" \notin FwIrqs
  PROVE  Spec => []ReplyAnswersRequest
<1>1. XInv => ReplyAnswersRequest
  <2> SUFFICES ASSUME XInv, NEW t \in Threads, pc[t] = "rpc_ok"
               PROVE  resp[t].src = t /\ resp[t].cmd = Request(t).cmd
    BY DEF ReplyAnswersRequest
  <2>1. PICK o \in Threads : Quiet(o) /\ FitsAt(o, pc[o])
    BY XInvParts DEF Owned
  <2>2. t = o
    BY <2>1 DEF Quiet, Busy
  <2> QED
    BY <2>1, <2>2 DEF FitsAt
<1> QED
  BY <1>1, XInit, XStep, PTL DEF Spec

(* Under the same conditions requested_ipcs names exactly the request the  *)
(* FSM waits for, although a callback that fails restores the state and    *)
(* not the bits (dce_fsm_post_event): the only callback that fails is a    *)
(* boot command's, and its bit is cleared by then.                         *)
THEOREM RequestBitsFit ==
  ASSUME ~ EarlySuspend, ~ AllocFail, ~ Overtaken, OneUser, Interruptible = {}, "ABORT" \notin FwIrqs
  PROVE  Spec => []RequestedMatchesState
<1>1. XInv => RequestedMatchesState
  BY XInvParts DEF FsmFits, RequestedMatchesState
<1> QED
  BY <1>1, XInit, XStep, PTL DEF Spec

(* Under the same conditions a wait for an admin reply starts with its     *)
(* wake flag down: dce_admin_ipc_wait never takes the wake-up of an        *)
(* earlier call for its own.                                               *)
THEOREM WaitsStartFresh ==
  ASSUME ~ EarlySuspend, ~ AllocFail, ~ Overtaken, OneUser, Interruptible = {}, "ABORT" \notin FwIrqs
  PROVE  Spec => []WaitStartsFresh
<1>1. XInv => WaitStartsFresh
  <2> SUFFICES ASSUME XInv, NEW t \in Threads, pc[t] = "rpc_send"
               PROVE  ~ complete["ADMIN_IPC"]
    BY DEF WaitStartsFresh
  <2>1. PICK o \in Threads : Quiet(o) /\ FitsAt(o, pc[o])
    BY XInvParts DEF Owned
  <2>2. t = o
    BY <2>1 DEF Quiet, Busy
  <2>3. "rpc_send" \notin WokenAt("ADMIN_IPC") /\ "ADMIN_IPC" \in DriverWaits
    BY DEF WokenAt, DriverWaits, Waits
  <2> QED
    BY <2>1, <2>2, <2>3 DEF FitsAt, Woken
<1> QED
  BY <1>1, XInit, XStep, PTL DEF Spec
-----------------------------------------------------------------------------
(* The firmware can be reached.                                            *)

(* It knows the admin channel once a worker at label l has had it          *)
(* established (a is the worker's place in the admin sequence).            *)
KnownAt(l, a) ==
    /\ l \in LateLabels /\ a # 0 => "ADMIN" \in fw_chans
    /\ l = "ch_ready" /\ a = 0 => ch["ADMIN"] = "sync" \/ "ADMIN" \in fw_chans

(* Interrupts are off only between the power-up and the resume, and the    *)
(* enables that a suspend saves are the ones the resume restores.          *)
Reach ==
    /\ ie \/ pc["pm"] = "powered"
    /\ pc["pm"] # "idle" => hsp_ie
    /\ \A w \in Workers : KnownAt(pc[w], asi[w])
    /\ BootDone => "ADMIN" \in fw_chans

EInv == FInv /\ Reach

LEMMA EInit == Init => EInv
<1> SUFFICES ASSUME Init PROVE EInv
  OBVIOUS
<1>1. FInv
  BY FInit
<1>2. pc["pm"] = "idle" /\ \A w \in Workers : pc[w] = "idle"
  BY DEF Init, Threads
<1> QED
  BY <1>1, <1>2 DEF EInv, Reach, KnownAt, LateLabels, RpcLabels, Init, BootDone

LEMMA EInvParts ==
  ASSUME EInv
  PROVE  /\ FInv /\ SInv /\ TypeOK /\ Alone /\ Reach
         /\ "pm" \in Threads /\ Workers \subseteq Threads /\ Users \subseteq Threads
         /\ "pm" \notin Workers /\ "pm" \notin Users /\ Workers \cap Users = {}
  BY BootAssumption DEF EInv, FInv, SInv, TInv, Threads, Workers, BootAssumption

(* Calls change nothing of it. *)
LEMMA CallReaches ==
  ASSUME EInv, NEW t \in Threads,
         \/ RpcStep(t) \/ RpcInterrupt(t)
         \/ t \in Users /\ (UserCall(t) \/ UserReturn(t))
  PROVE  Reach'
<1> USE EInvParts
<1>1. UNCHANGED <<ie, hsp_ie, asi, ch, fw_chans, boot_status>>
  BY DEF RpcStep, RpcPost, RpcSend, RpcWait, RpcInterrupt, RpcConsume, RpcRead, RpcFail, UserCall, UserReturn,
         mbVars, chVars, fwVars
<1>2. CASE RpcStep(t) \/ RpcInterrupt(t)
  <2>1. pc[t] \in RpcLabels /\ \E l \in RpcLabels : Goto(t, l)
    BY <1>2 DEF RpcStep, RpcPost, RpcSend, RpcWait, RpcInterrupt, RpcConsume, RpcRead, RpcFail, Post, RpcLabels
  <2>2. pc'[t] \in RpcLabels /\ \A s \in Threads : s # t => pc'[s] = pc[s]
    BY <2>1 DEF Goto, TypeOK, ThrTypeOK
  <2>3. ASSUME NEW w \in Workers PROVE KnownAt(pc[w], asi[w])'
    <3>1. KnownAt(pc[w], asi[w])
      BY <2>3 DEF Reach
    <3> QED
      BY <1>1, <2>1, <2>2, <2>3, <3>1 DEF KnownAt, LateLabels, RpcLabels
  <2>4. /\ pc'["pm"] # "idle" => pc["pm"] # "idle"
        /\ pc["pm"] = "powered" => pc'["pm"] = "powered"
    BY <2>1, <2>2 DEF RpcLabels
  <2> QED
    BY <1>1, <2>3, <2>4 DEF Reach, BootDone
<1>3. CASE t \in Users /\ (UserCall(t) \/ UserReturn(t))
  <2>1. \A s \in Threads : s # t => pc'[s] = pc[s]
    BY <1>3 DEF UserCall, UserReturn, Goto, TypeOK, ThrTypeOK
  <2>2. pc'["pm"] = pc["pm"] /\ \A w \in Workers : pc'[w] = pc[w]
    BY <1>3, <2>1
  <2> QED
    BY <1>1, <2>2 DEF Reach, KnownAt, BootDone
<1> QED
  BY <1>2, <1>3

(* A suspend saves enables that are on; the resume puts them back.         *)
LEMMA PmReaches ==
  ASSUME ~ EarlySuspend, EInv, PmSuspend \/ PmStep \/ PmEnterAllocFail \/ PmEnterInterrupt
  PROVE  Reach'
<1> USE EInvParts
<1>1. UNCHANGED <<asi, ch>> /\ (BootDone' => BootDone) /\ \A w \in Workers : pc'[w] = pc[w]
  BY DEF PmSuspend, PmStep, PmEnterAllocFail, PmEnterInterrupt, PmPrepared, PmEnterPost, PmEnterSend,
         PmEnterWait, PmEnterDone, PmEnterFail, PowerCycle, PmResume, Post, Goto, chVars, BootDone,
         TypeOK, ThrTypeOK
<1>2. CASE PmSuspend
  <2>1. pc["pm"] = "idle" /\ hsp_ie' = ie /\ UNCHANGED <<ie, fw_chans>>
    BY <1>2 DEF PmSuspend, fwVars
  <2> QED
    BY <1>1, <2>1 DEF Reach, KnownAt
<1>3. CASE PowerCycle
  <2>1. /\ pc["pm"] = "suspended" /\ pc'["pm"] = "powered" /\ UNCHANGED hsp_ie
        /\ ~ BootDone /\ \A w \in Workers : pc[w] = "idle"
    BY <1>3 DEF PowerCycle, Goto, Alone, Active, TypeOK, ThrTypeOK
  <2> QED
    BY <1>1, <2>1 DEF Reach, KnownAt, LateLabels, RpcLabels
<1>4. CASE PmResume
  <2>1. pc["pm"] = "powered" /\ pc'["pm"] = "idle" /\ ie' = (ie \/ hsp_ie) /\ UNCHANGED fw_chans
    BY <1>4 DEF PmResume, Post, Goto, fwVars, TypeOK, ThrTypeOK
  <2> QED
    BY <1>1, <2>1 DEF Reach, KnownAt
<1>5. CASE ~ (PmSuspend \/ PowerCycle \/ PmResume)
  <2>1. /\ UNCHANGED <<ie, hsp_ie, fw_chans>> /\ pc["pm"] \notin {"idle", "powered"}
    BY <1>5 DEF PmStep, PmEnterAllocFail, PmEnterInterrupt, PmPrepared, PmEnterPost, PmEnterSend,
         PmEnterWait, PmEnterDone, PmEnterFail, mbVars, fwVars
  <2> QED
    BY <1>1, <2>1 DEF Reach, KnownAt
<1> QED
  BY <1>2, <1>3, <1>4, <1>5

(* A worker gets past the handshake of the admin channel only when the     *)
(* firmware knows the channel.                                             *)
LEMMA WorkerReaches ==
  ASSUME EInv, NEW w \in Workers, WorkerStep(w)
  PROVE  Reach'
<1> USE EInvParts
<1>1. UNCHANGED <<ie, hsp_ie, fw_chans>>
  BY DEF WorkerStep, WorkStart, BootCompletePost, BootCompleteCheck, BootCompleteNested, BootCompleteNestedWake,
         BootCompleteReset, BootCompleteRequest, BootCompleteWait, BootCompleteDone, CmdPost, CmdSend, CmdWait,
         CmdStatus, CmdFail, BootFail, ChannelReset, ChannelReady, SeqStart, SeqReply, mbVars, fwVars
<1>2. Active(w)
  BY DEF WorkerStep, WorkStart, BootCompletePost, BootCompleteCheck, BootCompleteNested, BootCompleteNestedWake,
         BootCompleteReset, BootCompleteRequest, BootCompleteWait, BootCompleteDone, CmdPost, CmdSend, CmdWait,
         CmdStatus, CmdFail, BootFail, ChannelReset, ChannelReady, SeqStart, SeqReply, Active
<1>3. w \in Threads /\ ~ BootDone /\ \A v \in Workers : v # w => pc[v] = "idle"
  BY <1>2, WorkerAlone
<1>4. PlaceOf(pc[w], asi[w]) /\ KnownAt(pc[w], asi[w])
  BY DEF SInv, TInv, SeqPlace, Reach
<1>5. ASSUME NEW l, Goto(w, l), KnownAt(l, asi[w])', BootDone' => "ADMIN" \in fw_chans
      PROVE  Reach'
  <2>1. pc'[w] = l /\ pc'["pm"] = pc["pm"] /\ \A v \in Workers : v # w => pc'[v] = "idle"
    BY <1>3, <1>5 DEF Goto, TypeOK, ThrTypeOK
  <2>2. ASSUME NEW v \in Workers PROVE KnownAt(pc[v], asi[v])'
    BY <1>5, <2>1, <2>2 DEF KnownAt, LateLabels, RpcLabels
  <2> QED
    BY <1>1, <1>5, <2>1, <2>2 DEF Reach
<1>6. CASE ChannelReset(w)
  <2>1. /\ Goto(w, "ch_ready") /\ UNCHANGED <<asi, boot_status>> /\ pc[w] = "ch_reset"
        /\ ch' = [ch EXCEPT ![ResetChannel(w)] = "sync"] /\ (asi[w] = 0 => ResetChannel(w) = "ADMIN")
    BY <1>6 DEF ChannelReset, ResetChannel
  <2>2. KnownAt("ch_ready", asi[w])'
    BY <1>1, <1>4, <2>1 DEF KnownAt, LateLabels, TypeOK, ChTypeOK, Channels
  <2> QED
    BY <1>3, <1>5, <2>1, <2>2 DEF BootDone
<1>7. CASE ChannelReady(w)
  <2>1. /\ UNCHANGED boot_status /\ pc[w] = "ch_ready" /\ Established(ResetChannel(w))
        /\ \E l \in {"seq_alloc", "rpc_post"} : Goto(w, l)
    BY <1>7 DEF ChannelReady
  <2>2. "ADMIN" \in fw_chans
    BY <1>4, <2>1 DEF KnownAt, LateLabels, ResetChannel, Established
  <2> QED
    BY <1>1, <1>5, <2>1, <2>2 DEF KnownAt
<1>8. CASE SeqStart(w) \/ SeqReply(w)
  <2>1. /\ pc[w] \in LateLabels /\ asi[w] # 0 /\ \E l : Goto(w, l)
    BY <1>4, <1>8 DEF SeqStart, SeqReply, LateLabels, RpcLabels, PlaceOf
  <2>2. "ADMIN" \in fw_chans
    BY <1>4, <2>1 DEF KnownAt
  <2> QED
    BY <1>1, <1>5, <2>1, <2>2 DEF KnownAt
<1>9. CASE ~ (ChannelReset(w) \/ ChannelReady(w) \/ SeqStart(w) \/ SeqReply(w))
  <2>1. WorkStart(w) \/ (pc[w] \in BootLabels /\ UNCHANGED asi)
    BY <1>9 DEF WorkerStep, BootCompletePost, BootCompleteCheck, BootCompleteNested, BootCompleteNestedWake,
       BootCompleteReset, BootCompleteRequest, BootCompleteWait, BootCompleteDone, CmdPost, CmdSend, CmdWait,
       CmdStatus, CmdFail, BootFail, BootLabels
  <2>2. asi'[w] = 0
    BY <1>4, <2>1 DEF WorkStart, PlaceOf, TypeOK, ThrTypeOK
  <2>3. ~ BootDone' /\ \E l : Goto(w, l) /\ l # "ch_ready"
    BY <1>3, <1>9 DEF WorkerStep, WorkStart, BootCompletePost, BootCompleteCheck, BootCompleteNested,
       BootCompleteNestedWake, BootCompleteReset, BootCompleteRequest, BootCompleteWait, BootCompleteDone,
       CmdPost, CmdSend, CmdWait, CmdStatus, CmdFail, BootFail, Post, SetStatus, BootDone
  <2> QED
    BY <1>5, <2>2, <2>3 DEF KnownAt
<1> QED
  BY <1>6, <1>7, <1>8, <1>9

LEMMA OthersReach ==
  ASSUME EInv, IsrStep \/ FwStep \/ \E k \in FwIrqs : FwIrq(k)
  PROVE  Reach'
<1> USE EInvParts
<1>1. UNCHANGED <<ie, hsp_ie, pc, asi, boot_status>>
  BY DEF IsrStep, IsrEnter, IsrBootRead, IsrBootPost, IsrBootWake, IsrAdminRead, IsrAdminPost, IsrAdminSeen,
         IsrAdminLate, IsrAdminWake, FwStep, FwBooted, FwReady, FwTakeCmd, FwAckCmd, FwReply, FwEnterSC7,
         FwEstablish, FwIrq, mbVars, thrVars
<1>2. "ADMIN" \in fw_chans => "ADMIN" \in fw_chans'
  BY DEF IsrStep, IsrEnter, IsrBootRead, IsrBootPost, IsrBootWake, IsrAdminRead, IsrAdminPost, IsrAdminSeen,
         IsrAdminLate, IsrAdminWake, FwStep, FwBooted, FwReady, FwTakeCmd, FwAckCmd, FwReply, FwEnterSC7,
         FwEstablish, FwIrq, fwVars
<1>3. ch["ADMIN"] = "sync" => ch'["ADMIN"] = "sync" \/ "ADMIN" \in fw_chans
  <2>1. ASSUME NEW c \in Channels, FwEstablish(c), c # "ADMIN" PROVE ch'["ADMIN"] = ch["ADMIN"]
    BY <2>1 DEF FwEstablish, TypeOK, ChTypeOK, Channels
  <2>2. FwEstablish("ADMIN") => "ADMIN" \in fw_chans
    BY DEF FwEstablish
  <2>3. (\A c \in Channels : ~ FwEstablish(c)) => UNCHANGED ch
    BY DEF IsrStep, IsrEnter, IsrBootRead, IsrBootPost, IsrBootWake, IsrAdminRead, IsrAdminPost, IsrAdminSeen,
           IsrAdminLate, IsrAdminWake, FwStep, FwBooted, FwReady, FwTakeCmd, FwAckCmd, FwReply, FwEnterSC7,
           FwIrq, chVars
  <2> QED
    BY <2>1, <2>2, <2>3
<1> QED
  BY <1>1, <1>2, <1>3 DEF Reach, KnownAt, BootDone

LEMMA EStep ==
  ASSUME ~ EarlySuspend, ~ AllocFail
  PROVE  EInv /\ [Next]_vars => EInv'
<1> SUFFICES ASSUME EInv, [Next]_vars PROVE EInv'
  OBVIOUS
<1>1. FInv'
  BY FStep, EInvParts
<1>2. Reach'
  <2>1. CASE UNCHANGED vars
    BY <2>1, EInvParts DEF vars, mbVars, chVars, thrVars, fwVars, Reach, KnownAt, BootDone
  <2> QED
    BY <2>1, EInvParts, CallReaches, WorkerReaches, PmReaches, OthersReach DEF Next
<1> QED
  BY <1>1, <1>2 DEF EInv

(* What a sleeper can count on: interrupts are on, and the firmware, once  *)
(* it has had a request on the admin channel, is up and knows the channel. *)
LEMMA SleeperReaches ==
  ASSUME XInv, Reach, NEW t \in Threads, pc[t] \in WaitLabels
  PROVE  /\ ie
         /\ pc[t] # "sc7_wait" => fw # "sc7"
         /\ pc[t] \in {"rpc_wait", "sc7_wait"} =>
               fw # "booting" /\ "ADMIN" \in fw_chans /\ Established("ADMIN")
<1> USE XInvParts
<1>1. t # "pm" => pc["pm"] = "idle"
  BY DEF Alone, Active, WaitLabels, Threads
<1>2. ie /\ (pc[t] # "sc7_wait" => fw # "sc7")
  BY <1>1 DEF Reach, Sc7Held, WaitLabels
<1>3. CASE pc[t] \in {"rpc_wait", "sc7_wait"}
  <2>1. Established("ADMIN")
    BY <1>3, SyncedForAsker DEF Established
  <2>2. Taken(NumBootCmds) /\ "ADMIN" \in fw_chans
    <3>1. CASE t \in Workers
      <4>1. pc[t] = "rpc_wait" /\ PlaceOf(pc[t], asi[t]) /\ TakenAt(pc[t], bci[t]) /\ KnownAt(pc[t], asi[t])
        BY <1>3, <3>1 DEF InPlace, FInv, SInv, TInv, SeqPlace, Progress, Reach
      <4> QED
        BY <4>1 DEF PlaceOf, TakenAt, KnownAt, LateLabels, RpcLabels
    <3>2. CASE t \notin Workers
      <4>1. BootDone
        BY <1>3, <3>2 DEF Alone, Threads
      <4> QED
        BY <4>1 DEF FInv, Progress, Reach
    <3> QED
      BY <3>1, <3>2
  <2>3. Len(fw_cmds) = 15
    BY <2>2, NumBootCmdsFact DEF Taken
  <2>4. fw_cmds # <<>>
    BY <2>3
  <2> QED
    BY <1>2, <2>1, <2>2, <2>4 DEF FInv, Progress
<1> QED
  BY <1>2, <1>3

(* Under the same conditions nobody sleeps for an answer that cannot come: *)
(* the waits of dce-worker.c have no timeout, and the request is always    *)
(* before firmware that serves it, with room for the reply, or the answer  *)
(* is in a mailbox whose interrupt is enabled or with the handler.  (A     *)
(* signal that breaks off ENTER_SC7 ends this: the firmware goes to SC7    *)
(* while DCE_FW_BOOT_DONE is still set, and the next call is not served.)  *)
THEOREM AnswersAreOnTheirWay ==
  ASSUME ~ EarlySuspend, ~ AllocFail, ~ Overtaken, OneUser, Interruptible = {}, "ABORT" \notin FwIrqs
  PROVE  Spec => []AnswerOnItsWay
<1>1. XInv /\ Reach => AnswerOnItsWay
  <2> SUFFICES ASSUME XInv, Reach, NEW t \in Threads, NEW w \in SleepsOn(t)
               PROVE  OnItsWay(w)
    BY DEF AnswerOnItsWay
  <2> USE XInvParts
  <2>1. pc[t] \in WaitLabels /\ w \in AsksFor(pc[t])
    BY SleepsAtWait
  <2>2. Woken(w) \/ UnderWay(w)
    BY <2>1 DEF XInv, Awaited, Coming
  <2>3. ie /\ (pc[t] # "sc7_wait" => fw # "sc7")
    BY <2>1, SleeperReaches
  <2>4. FramesAt(t, pc[t])
    <3>1. PICK o \in Threads : Quiet(o) /\ FitsAt(o, pc[o])
      BY DEF Owned
    <3>2. t = o
      BY <2>1, <3>1 DEF Quiet, Busy, WaitLabels
    <3> QED
      BY <3>1, <3>2 DEF FitsAt
  <2>5. CASE w \in {"BOOT_COMPLETE", "BOOT_CMD"}
    <3>1. pc[t] # "sc7_wait"
      BY <2>1, <2>5 DEF AsksFor
    <3> QED
      BY <2>2, <2>3, <2>5, <3>1 DEF Woken, UnderWay, OnItsWay
  <2>6. CASE w = "ADMIN_IPC"
    <3>1. pc[t] = "rpc_wait"
      BY <2>1, <2>6 DEF AsksFor, WaitLabels
    <3>2. CASE Sent(FALSE)
      <4>1. tx = <<Request(t)>> /\ rx = <<>> /\ tx # <<>>
        BY <2>4, <3>1, <3>2 DEF FramesAt, Asked, Replied, Sent
      <4>2. Len(tx) = 1 /\ Head(tx) = tx[1] /\ Len(rx) = 0
        BY <4>1
      <4>3. Head(tx).cmd # "ENTER_SC7"
        BY <3>2, <4>2 DEF Sent
      <4>4. FwServes
        BY <2>3, <3>1, <4>1, SleeperReaches DEF FwServes, WaitLabels, TypeOK, FwTypeOK
      <4>5. Len(rx) < NFrames
        BY <4>2, BootAssumption DEF BootAssumption
      <4> QED
        BY <2>6, <4>3, <4>4, <4>5 DEF OnItsWay
    <3> QED
      BY <2>2, <2>3, <2>6, <3>2 DEF Woken, UnderWay, OnItsWay
  <2>7. CASE w = "SC7_ENTER"
    <3>1. pc[t] = "sc7_wait"
      BY <2>1, <2>7 DEF AsksFor, WaitLabels
    <3>2. CASE Sent(TRUE)
      <4>1. tx = <<[src |-> "pm", cmd |-> "ENTER_SC7"]>> /\ tx # <<>>
        BY <2>4, <3>1, <3>2 DEF FramesAt, Sent
      <4>2. Len(tx) = 1 /\ Head(tx) = tx[1] /\ tx[1].cmd = "ENTER_SC7"
        BY <4>1
      <4>3. fw # "sc7"
        BY <4>2 DEF OneEnter
      <4>4. FwServes
        BY <3>1, <4>1, <4>3, SleeperReaches DEF FwServes, WaitLabels, TypeOK, FwTypeOK
      <4> QED
        BY <2>7, <4>2, <4>4 DEF OnItsWay
    <3> QED
      BY <2>2, <2>3, <2>7, <3>2 DEF Woken, UnderWay, OnItsWay
  <2> QED
    BY <2>1, <2>5, <2>6, <2>7, AskLabels
<1>2. Init => XInv /\ EInv
  BY XInit, EInit
<1>3. XInv /\ EInv /\ [Next]_vars => (XInv /\ EInv)'
  BY XStep, EStep
<1>4. EInv => Reach
  BY DEF EInv
<1> QED
  BY <1>1, <1>2, <1>3, <1>4, PTL DEF Spec
=============================================================================
