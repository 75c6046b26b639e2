------------------------------- MODULE DceBoot -------------------------------
(***************************************************************************)
(* Boot, admin RPC, suspend and resume of the DCE driver                   *)
(* (drivers/platform/tegra/dce).                                           *)
(*                                                                         *)
(* Threads of the driver:                                                  *)
(*   "bootstrap", "resume"  the two work items of dce-worker.c; both run   *)
(*                          dce_start_boot_flow on a kernel worker         *)
(*   "pm"                   the PM core calling dce_pm_suspend/_resume     *)
(*   Users                  processes issuing admin commands via debugfs   *)
(* plus the threaded interrupt handler dce_mailbox_isr and the firmware on *)
(* the other side of the mailboxes and the admin IVC channel.              *)
(*                                                                         *)
(* A step of a thread runs from one point where another thread can         *)
(* interfere to the next: FSM posts, wake-ups, waits, channel accesses.    *)
(***************************************************************************)
EXTENDS DceFsm, Sequences

CONSTANTS
    Users,          \* processes that use the admin debugfs nodes
    Interruptible,  \* threads that may get a signal while they wait
    NFrames,        \* DCE_ADMIN_CMD_MAX_NFRAMES, frames of each admin queue
    EarlySuspend,   \* may the system suspend before DCE_FW_BOOT_DONE is set?
    AllocFail,      \* may dce_admin_allocate_message fail?
    FwErr,          \* may the firmware answer with an error?
    FwIrqs,         \* IRQ status words the firmware may raise on its own
    Overtaken       \* may threads run while the handler looks at the admin channel?

Workers == {"bootstrap", "resume"}
Threads == Workers \cup {"pm"} \cup Users

ASSUME BootAssumption ==
    /\ Users \cap (Workers \cup {"pm"}) = {}
    /\ Interruptible \subseteq Users \cup {"pm"}
    /\ NFrames \in Nat \ {0}
    /\ {EarlySuspend, AllocFail, FwErr, Overtaken} \subseteq BOOLEAN
    /\ FwIrqs \subseteq {"LOG_READY", "ABORT"}

(* The commands of dce_start_bootstrap_flow in the order it sends them. *)
BootCmdSeq ==
    <<"VERSION", "SET_SID",
      "AST_LENGTH_HI", "AST_LENGTH_LO", "AST_IOVA_HI", "AST_IOVA_LO",
      "ADDR_RD_HI", "ADDR_RD_LO", "ADDR_WR_HI", "ADDR_WR_LO",
      "GET_FSIZE", "SET_NFRAMES", "SET_FSIZE", "CHANNEL_INIT", "LOCK">>

NumBootCmds == Len(BootCmdSeq)

\* A loop over the client channels that stops one short.
Mut_AdminSeq == <<"VERSION", "IPC_CREATE_RM", "RM_BOOTSTRAP">>

(* The RPCs of dce_start_admin_seq.  dce_admin_setup_clients_ipc creates   *)
(* the RM and RM_NOTIFY channels; there is no HDCP channel.                *)
AdminSeq == <<"VERSION", "IPC_CREATE_RM", "IPC_CREATE_RM_NOTIFY", "RM_BOOTSTRAP">>

Channels == {"ADMIN", "RM", "RM_NOTIFY"}

(* The channel whose reset follows an IPC_CREATE. *)
ChannelOf(cmd) == IF cmd = "IPC_CREATE_RM" THEN "RM" ELSE "RM_NOTIFY"

AdminCmds == {"VERSION", "IPC_CREATE_RM", "IPC_CREATE_RM_NOTIFY",
              "RM_BOOTSTRAP", "PREPARE_SC7", "ENTER_SC7", "ECHO"}

Messages == [src : Threads, cmd : AdminCmds]
Replies == [src : Threads, cmd : AdminCmds, err : BOOLEAN]
NoReply == [src |-> "pm", cmd |-> "ENTER_SC7", err |-> FALSE]

(* A status word in DCE_MBOX_IRQ: an IRQ status, or the status of the boot *)
(* command number cmd.                                                     *)
IrqKinds == {"READY", "SC7_ENTERED", "LOG_READY", "ABORT"}
Statuses == [kind : IrqKinds \cup {"BOOT_CMD", "none"}, cmd : 0 .. NumBootCmds, err : BOOLEAN]
Irq(k) == [kind |-> k, cmd |-> 0, err |-> FALSE]
NoStatus == Irq("none")

StatusFlags == {"EARLY_BOOT_START", "EARLY_BOOT_FAILED", "EARLY_BOOT_DONE",
                "BOOTSTRAP_START", "BOOTSTRAP_FAILED", "BOOTSTRAP_DONE",
                "ADMIN_SEQ_START", "ADMIN_SEQ_FAILED", "ADMIN_SEQ_DONE",
                "SUSPENDED", "BOOT_DONE", "FAILED"}

PcLabels == {"idle",
             "bc_post", "bc_check", "bc_nested", "bc_nwake", "bc_reset",
             "bc_int", "bc_wait", "bc_done",
             "cmd_post", "cmd_send", "cmd_wait", "cmd_status", "cmd_fail", "boot_fail",
             "ch_reset", "ch_ready", "seq_alloc",
             "rpc_post", "rpc_send", "rpc_wait", "rpc_woken", "rpc_read",
             "rpc_fail", "rpc_ok", "rpc_err",
             "sc7_post", "sc7_send", "sc7_wait", "sc7_done", "sc7_fail",
             "suspended", "powered"}

IsrLabels == {"idle", "boot_read", "boot_post", "boot_wake",
              "adm_read", "adm_post", "adm_seen", "adm_wake"}

VARIABLES
    boot_status,   \* d->boot_status, the set of flags that are set
    cmd_mb,        \* DCE_MBOX_BOOT_CMD: boot command number with bit 31, or 0
    irq_mb,        \* DCE_MBOX_IRQ
    adm_mb,        \* the admin mailbox from the DCE holds a signal
    ack,           \* d_mb[BOOT].ack_value, NoStatus when valid is false
    mb_locked,     \* d_mb[BOOT].lock was left locked
    ie, hsp_ie,    \* CCPLEX_HSP_IE enables the mailboxes; sc7_state.hsp_ie
    tx, rx,        \* frames of the admin channel to and from the DCE
    ch,            \* reset handshake and SYNCED flag of every IPC channel
    pc,            \* where each thread is
    prev,          \* prev_state of the dce_fsm_post_event a thread is in
    resp,          \* msg->rx of a thread's RPC
    bci, asi,      \* a worker's place in BootCmdSeq and in AdminSeq
    work,          \* work items queued on system_highpri_wq
    isr, srcs, isr_wait,  \* the handler: place, irq_sources, condition to wake
    fw,            \* firmware: "booting", "up" or "sc7"
    boot_sema, boot_int,  \* DCE_BOOT_SEMA: boot complete; interrupt requested
    fw_cmd,        \* boot command the firmware is executing, or 0
    fw_cmds,       \* boot commands it took since it was powered up
    fw_err,        \* it answered one of them with an error
    fw_chans,      \* IPC channels it was told of
    fw_rm          \* it executed RM_BOOTSTRAP

mbVars  == <<cmd_mb, irq_mb, adm_mb, ack, mb_locked, ie, hsp_ie>>
chVars  == <<tx, rx, ch>>
thrVars == <<pc, prev, resp, bci, asi, work>>
isrVars == <<isr, srcs, isr_wait>>
fwVars  == <<fw, boot_sema, boot_int, fw_cmd, fw_cmds, fw_err, fw_chans, fw_rm>>
vars == <<fsmVars, boot_status, mbVars, chVars, thrVars, isrVars, fwVars>>

Init ==
    /\ FsmInit
    /\ boot_status = {}
    /\ cmd_mb = 0 /\ irq_mb = NoStatus /\ adm_mb = FALSE
    /\ ack = NoStatus /\ mb_locked = FALSE /\ ie = TRUE /\ hsp_ie = FALSE
    /\ tx = <<>> /\ rx = <<>> /\ ch = [c \in Channels |-> "down"]
    /\ pc = [t \in Threads |-> "idle"]
    /\ prev = [t \in Threads |-> "FSM_IDLE"]
    /\ resp = [t \in Threads |-> NoReply]
    /\ bci = [w \in Workers |-> 1] /\ asi = [w \in Workers |-> 0]
    /\ work = {"bootstrap"}
    /\ isr = "idle" /\ srcs = {} /\ isr_wait = {}
    /\ fw = "booting" /\ boot_sema = FALSE /\ boot_int = FALSE
    /\ fw_cmd = 0 /\ fw_cmds = <<>> /\ fw_err = FALSE
    /\ fw_chans = {} /\ fw_rm = FALSE

-----------------------------------------------------------------------------
Goto(t, l) == pc' = [pc EXCEPT ![t] = l]

(* dce_fsm_post_event as the start of thread t's event handling: accepted, *)
(* the callback starts at label yes; rejected, the caller gets the error   *)
(* at label no.                                                            *)
Post(t, e, yes, no) ==
    IF dce_fsm_validate_event(c_state, e)
    THEN /\ dce_fsm_set_state(e)
         /\ prev' = [prev EXCEPT ![t] = c_state]
         /\ Goto(t, yes)
    ELSE /\ Goto(t, no)
         /\ UNCHANGED <<c_state, requested_ipcs, prev>>

BootDone == "BOOT_DONE" \in boot_status           \* dce_is_bootstrap_done
BootcmdsDone == "BOOTSTRAP_DONE" \in boot_status  \* dce_is_bootcmds_done

SetStatus(flags) == boot_status' = boot_status \cup flags

\* The error flag in the status is not looked at.
Mut_StatusErr(s) == s.kind = "none"

(* The error test of dce_mailbox_wait_boot_interface.  An invalid status   *)
(* reads as 0xffffffff, and the READY bit of an IRQ status is the bit that *)
(* flags an error in a boot command status.                                *)
StatusErr(s) == s.kind \in {"none", "READY"} \/ s.err

(* IVC lets frames through once the reset handshake is over. *)
Established(c) == ch[c] \in {"est", "synced"}

(* dce_ipc_send_message finds a free frame on the admin channel. *)
CanSend == Established("ADMIN") /\ Len(tx) < NFrames

-----------------------------------------------------------------------------
(* Plausible slips in the handlers below, used only to show that the       *)
(* properties notice them.                                                 *)

\* The bootstrap flow runs one command too far.
Mut_CmdStatusTooFar(w) ==
    /\ pc[w] = "cmd_status"
    /\ IF StatusErr(ack)
       THEN Goto(w, "cmd_fail") /\ UNCHANGED bci
       ELSE Goto(w, "cmd_post") /\ bci' = [bci EXCEPT ![w] = @ + 1]
    /\ UNCHANGED <<fsmVars, boot_status, mbVars, chVars, prev, resp, asi, work, isrVars, fwVars>>

\* A boot command that failed is sent again.
Mut_CmdStatusRetry(w) ==
    /\ pc[w] = "cmd_status"
    /\ Goto(w, "cmd_post")
    /\ bci' = IF StatusErr(ack) \/ bci[w] = NumBootCmds
              THEN bci ELSE [bci EXCEPT ![w] = @ + 1]
    /\ UNCHANGED <<fsmVars, boot_status, mbVars, chVars, prev, resp, asi, work, isrVars, fwVars>>

\* ENTER_SC7 is sent but not waited for.
Mut_PmEnterSend ==
    /\ pc["pm"] = "sc7_send"
    /\ CanSend
    /\ tx' = Append(tx, [src |-> "pm", cmd |-> "ENTER_SC7"])
    /\ Goto("pm", "sc7_done")
    /\ UNCHANGED <<fsmVars, boot_status, mbVars, rx, ch, prev, resp, bci, asi, work, isrVars, fwVars>>

\* The wait's success is returned as an error.
Mut_PmEnterWait ==
    /\ pc["pm"] = "sc7_wait"
    /\ WaitConsume("SC7_ENTER")
    /\ Goto("pm", "sc7_fail")
    /\ UNCHANGED <<c_state, requested_ipcs, boot_status, mbVars, chVars, prev, resp, bci, asi, work, isrVars, fwVars>>

\* Suspend leaves DCE_FW_BOOT_DONE set.
Mut_PmEnterDone ==
    /\ pc["pm"] = "sc7_done"
    /\ SetStatus({"SUSPENDED"})
    /\ Goto("pm", "suspended")
    /\ UNCHANGED <<fsmVars, mbVars, chVars, prev, resp, bci, asi, work, isrVars, fwVars>>

\* Resume posts the event but nobody queues the work.
Mut_PmResume ==
    /\ pc["pm"] = "powered"
    /\ ie' = (ie \/ hsp_ie)
    /\ Post("pm", "SC7_EXIT_RECEIVED", "idle", "idle")
    /\ UNCHANGED <<complete, boot_status, cmd_mb, irq_mb, adm_mb, ack, mb_locked, hsp_ie, chVars,
                   resp, bci, asi, work, isrVars, fwVars>>

\* The callback of SC7_ENTERED_RECEIVED wakes nobody.
Mut_WakesFor(k) ==
    CASE k = "READY"     -> {"BOOT_COMPLETE"}
      [] k = "BOOT_CMD"  -> {"BOOT_CMD"}
      [] k = "LOG_READY" -> {"LOG"}
      [] OTHER           -> {}

-----------------------------------------------------------------------------
(* dce_admin_send_msg: the RPC every thread uses on the admin channel.     *)

(* The request in msg->tx. *)
Request(t) ==
    [src |-> t,
     cmd |-> CASE t \in Workers -> AdminSeq[asi[t]]
               [] t = "pm"      -> "PREPARE_SC7"
               [] OTHER         -> "ECHO"]

RpcPost(t) ==
    /\ pc[t] = "rpc_post"
    /\ Post(t, "ADMIN_IPC_MSG_REQUESTED", "rpc_send", "rpc_err")
    /\ UNCHANGED <<complete, boot_status, mbVars, chVars, resp, bci, asi, work, isrVars, fwVars>>

(* dce_admin_handle_ipc_requested_event up to the wait. *)
RpcSend(t) ==
    /\ pc[t] = "rpc_send"
    /\ IF BootcmdsDone /\ CanSend
       THEN tx' = Append(tx, Request(t)) /\ Goto(t, "rpc_wait")
       ELSE UNCHANGED tx /\ Goto(t, "rpc_fail")
    /\ UNCHANGED <<fsmVars, boot_status, mbVars, rx, ch, prev, resp, bci, asi, work, isrVars, fwVars>>

(* dce_admin_ipc_wait: the condition is seen true ... *)
RpcWait(t) ==
    /\ pc[t] = "rpc_wait"
    /\ complete["ADMIN_IPC"]
    /\ Goto(t, "rpc_woken")
    /\ UNCHANGED <<fsmVars, boot_status, mbVars, chVars, prev, resp, bci, asi, work, isrVars, fwVars>>

(* ... or a signal ends the wait first: -EINTR. *)
RpcInterrupt(t) ==
    /\ pc[t] = "rpc_wait"
    /\ t \in Interruptible
    /\ ~ complete["ADMIN_IPC"]
    /\ Goto(t, "rpc_fail")
    /\ UNCHANGED <<fsmVars, boot_status, mbVars, chVars, prev, resp, bci, asi, work, isrVars, fwVars>>

(* complete is read again after the wait: another waiter may have been     *)
(* faster.                                                                 *)
RpcConsume(t) ==
    /\ pc[t] = "rpc_woken"
    /\ IF complete["ADMIN_IPC"]
       THEN WaitConsume("ADMIN_IPC") /\ Goto(t, "rpc_read")
       ELSE UNCHANGED complete /\ Goto(t, "rpc_fail")
    /\ UNCHANGED <<c_state, requested_ipcs, boot_status, mbVars, chVars, prev, resp, bci, asi, work, isrVars, fwVars>>

(* dce_ipc_read_message: the oldest frame, whoever it answers. *)
RpcRead(t) ==
    /\ pc[t] = "rpc_read"
    /\ IF Established("ADMIN") /\ rx # <<>>
       THEN /\ resp' = [resp EXCEPT ![t] = Head(rx)]
            /\ rx' = Tail(rx)
            /\ Goto(t, "rpc_ok")
       ELSE UNCHANGED <<resp, rx>> /\ Goto(t, "rpc_fail")
    /\ UNCHANGED <<fsmVars, boot_status, mbVars, tx, ch, prev, bci, asi, work, isrVars, fwVars>>

(* The callback failed: dce_fsm_post_event resets the state. *)
RpcFail(t) ==
    /\ pc[t] = "rpc_fail"
    /\ PostRestore(prev[t])
    /\ Goto(t, "rpc_err")
    /\ UNCHANGED <<complete, boot_status, mbVars, chVars, prev, resp, bci, asi, work, isrVars, fwVars>>

-----------------------------------------------------------------------------
(* The boot workers.                                                       *)

(* dce_bootstrap_work_fn starts the FSM first, dce_resume_work_fn does not. *)
WorkStart(w) ==
    /\ pc[w] = "idle"
    /\ w \in work
    /\ work' = work \ {w}
    /\ bci' = [bci EXCEPT ![w] = 1]
    /\ asi' = [asi EXCEPT ![w] = 0]
    /\ IF w = "bootstrap"
       THEN Post(w, "FSM_START", "bc_post", "idle")
       ELSE Goto(w, "bc_post") /\ UNCHANGED <<c_state, requested_ipcs, prev>>
    /\ UNCHANGED <<complete, boot_status, mbVars, chVars, resp, isrVars, fwVars>>

BootCompletePost(w) ==
    /\ pc[w] = "bc_post"
    /\ Post(w, "BOOT_COMPLETE_REQUESTED", "bc_check", "idle")
    /\ UNCHANGED <<complete, boot_status, mbVars, chVars, resp, bci, asi, work, isrVars, fwVars>>

(* dce_handle_boot_complete_requested_event: is the firmware up already? *)
BootCompleteCheck(w) ==
    /\ pc[w] = "bc_check"
    /\ SetStatus({"EARLY_BOOT_START"})
    /\ Goto(w, IF boot_sema THEN "bc_nested" ELSE "bc_int")
    /\ UNCHANGED <<fsmVars, mbVars, chVars, prev, resp, bci, asi, work, isrVars, fwVars>>

(* It is: the driver posts BOOT_COMPLETE_RECEIVED itself.  A rejection     *)
(* fails the whole request: flag, state reset and return to the work item. *)
BootCompleteNested(w) ==
    /\ pc[w] = "bc_nested"
    /\ IF dce_fsm_validate_event(c_state, "BOOT_COMPLETE_RECEIVED")
       THEN /\ dce_fsm_set_state("BOOT_COMPLETE_RECEIVED")
            /\ Goto(w, "bc_nwake")
            /\ UNCHANGED <<complete, boot_status>>
       ELSE /\ dce_cond_wait_reset("BOOT_COMPLETE")
            /\ SetStatus({"EARLY_BOOT_FAILED"})
            /\ PostRestore(prev[w])
            /\ Goto(w, "idle")
    /\ UNCHANGED <<mbVars, chVars, prev, resp, bci, asi, work, isrVars, fwVars>>

(* Accepted, the callback wakes a wait that nobody is in ... *)
BootCompleteNestedWake(w) ==
    /\ pc[w] = "bc_nwake"
    /\ dce_wakeup_interruptible("BOOT_COMPLETE")
    /\ Goto(w, "bc_reset")
    /\ UNCHANGED <<c_state, requested_ipcs, boot_status, mbVars, chVars, prev, resp, bci, asi, work, isrVars, fwVars>>

(* ... so the wake is taken back. *)
BootCompleteReset(w) ==
    /\ pc[w] = "bc_reset"
    /\ dce_cond_wait_reset("BOOT_COMPLETE")
    /\ Goto(w, "bc_done")
    /\ UNCHANGED <<c_state, requested_ipcs, boot_status, mbVars, chVars, prev, resp, bci, asi, work, isrVars, fwVars>>

(* It is not: dce_request_fw_boot_complete, then wait. *)
BootCompleteRequest(w) ==
    /\ pc[w] = "bc_int"
    /\ boot_int' = TRUE
    /\ Goto(w, "bc_wait")
    /\ UNCHANGED <<fsmVars, boot_status, mbVars, chVars, prev, resp, bci, asi, work, isrVars,
                   fw, boot_sema, fw_cmd, fw_cmds, fw_err, fw_chans, fw_rm>>

BootCompleteWait(w) ==
    /\ pc[w] = "bc_wait"
    /\ WaitConsume("BOOT_COMPLETE")
    /\ Goto(w, "bc_done")
    /\ UNCHANGED <<c_state, requested_ipcs, boot_status, mbVars, chVars, prev, resp, bci, asi, work, isrVars, fwVars>>

(* The callback's success, and the start of dce_start_bootstrap_flow. *)
BootCompleteDone(w) ==
    /\ pc[w] = "bc_done"
    /\ SetStatus({"EARLY_BOOT_DONE", "BOOTSTRAP_START"})
    /\ Goto(w, "cmd_post")
    /\ UNCHANGED <<fsmVars, mbVars, chVars, prev, resp, bci, asi, work, isrVars, fwVars>>

(* dce_mailbox_send_cmd_sync *)
CmdPost(w) ==
    /\ pc[w] = "cmd_post"
    /\ Post(w, "BOOT_CMD_MSG_REQUESTED", "cmd_send", "boot_fail")
    /\ UNCHANGED <<complete, boot_status, mbVars, chVars, resp, bci, asi, work, isrVars, fwVars>>

(* dce_handle_mailbox_send_cmd_sync up to the wait.  When the previous     *)
(* command is still in the mailbox it returns with the mutex locked.       *)
CmdSend(w) ==
    /\ pc[w] = "cmd_send"
    /\ ~ mb_locked
    /\ IF cmd_mb = 0
       THEN /\ cmd_mb' = bci[w]
            /\ ack' = NoStatus
            /\ Goto(w, "cmd_wait")
            /\ UNCHANGED mb_locked
       ELSE /\ mb_locked' = TRUE
            /\ Goto(w, "cmd_fail")
            /\ UNCHANGED <<cmd_mb, ack>>
    /\ UNCHANGED <<fsmVars, boot_status, irq_mb, adm_mb, ie, hsp_ie, chVars, prev, resp, bci, asi, work, isrVars, fwVars>>

CmdWait(w) ==
    /\ pc[w] = "cmd_wait"
    /\ WaitConsume("BOOT_CMD")
    /\ Goto(w, "cmd_status")
    /\ UNCHANGED <<c_state, requested_ipcs, boot_status, mbVars, chVars, prev, resp, bci, asi, work, isrVars, fwVars>>

(* The rest of dce_mailbox_wait_boot_interface, and the step of            *)
(* dce_start_bootstrap_flow to its next command or to its end.             *)
CmdStatus(w) ==
    /\ pc[w] = "cmd_status"
    /\ \/ /\ StatusErr(ack)
          /\ Goto(w, "cmd_fail")
          /\ UNCHANGED <<bci, boot_status>>
       \/ /\ ~ StatusErr(ack)
          /\ bci[w] < NumBootCmds
          /\ bci' = [bci EXCEPT ![w] = @ + 1]
          /\ Goto(w, "cmd_post")
          /\ UNCHANGED boot_status
       \/ /\ ~ StatusErr(ack)
          /\ bci[w] = NumBootCmds
          /\ SetStatus({"BOOTSTRAP_DONE"})
          /\ Goto(w, "ch_reset")
          /\ UNCHANGED bci
    /\ UNCHANGED <<fsmVars, mbVars, chVars, prev, resp, asi, work, isrVars, fwVars>>

CmdFail(w) ==
    /\ pc[w] = "cmd_fail"
    /\ PostRestore(prev[w])
    /\ Goto(w, "boot_fail")
    /\ UNCHANGED <<complete, boot_status, mbVars, chVars, prev, resp, bci, asi, work, isrVars, fwVars>>

BootFail(w) ==
    /\ pc[w] = "boot_fail"
    /\ SetStatus({"BOOTSTRAP_FAILED", "FAILED"})
    /\ Goto(w, "idle")
    /\ UNCHANGED <<fsmVars, mbVars, chVars, prev, resp, bci, asi, work, isrVars, fwVars>>

(* The channel a worker resets: the admin channel before the admin         *)
(* sequence, then the one it just had created.                             *)
ResetChannel(w) == IF asi[w] = 0 THEN "ADMIN" ELSE ChannelOf(AdminSeq[asi[w]])

(* dce_ipc_channel_reset: start the handshake and clear SYNCED ... *)
ChannelReset(w) ==
    /\ pc[w] = "ch_reset"
    /\ ch' = [ch EXCEPT ![ResetChannel(w)] = "sync"]
    /\ Goto(w, "ch_ready")
    /\ UNCHANGED <<fsmVars, boot_status, mbVars, tx, rx, prev, resp, bci, asi, work, isrVars, fwVars>>

(* ... poll until the firmware has answered, then set SYNCED. *)
ChannelReady(w) ==
    /\ pc[w] = "ch_ready"
    /\ Established(ResetChannel(w))
    /\ ch' = [ch EXCEPT ![ResetChannel(w)] = "synced"]
    /\ asi' = [asi EXCEPT ![w] = @ + 1]
    /\ Goto(w, IF asi[w] = 0 THEN "seq_alloc" ELSE "rpc_post")
    /\ UNCHANGED <<fsmVars, boot_status, mbVars, tx, rx, prev, resp, bci, work, isrVars, fwVars>>

(* dce_start_admin_seq: allocate the message, send the first command. *)
SeqStart(w) ==
    /\ pc[w] = "seq_alloc"
    /\ \/ /\ SetStatus({"ADMIN_SEQ_START"})
          /\ Goto(w, "rpc_post")
       \/ /\ AllocFail
          /\ SetStatus({"FAILED"})
          /\ Goto(w, "idle")
    /\ UNCHANGED <<fsmVars, mbVars, chVars, prev, resp, bci, asi, work, isrVars, fwVars>>

(* The end of an RPC within the admin sequence.  A failed RPC ends the     *)
(* sequence; dce_admin_send_cmd_ver ignores an error in the reply,         *)
(* dce_admin_setup_clients_ipc gives up on one but returns the 0 of the    *)
(* RPC, dce_admin_send_rm_bootstrap fails.                                 *)
SeqReply(w) ==
    /\ pc[w] \in {"rpc_ok", "rpc_err"}
    /\ LET cmd == AdminSeq[asi[w]]
           failed == pc[w] = "rpc_err" \/ (cmd = "RM_BOOTSTRAP" /\ resp[w].err) IN
       \/ /\ failed \/ cmd = "RM_BOOTSTRAP"
          /\ SetStatus(IF failed THEN {"ADMIN_SEQ_FAILED", "FAILED"}
                                 ELSE {"ADMIN_SEQ_DONE", "BOOT_DONE"})
          /\ Goto(w, "idle")
          /\ UNCHANGED asi
       \/ /\ ~ failed /\ cmd = "VERSION"
          /\ asi' = [asi EXCEPT ![w] = @ + 1]
          /\ Goto(w, "rpc_post")
          /\ UNCHANGED boot_status
       \/ /\ ~ failed /\ cmd \in {"IPC_CREATE_RM", "IPC_CREATE_RM_NOTIFY"}
          /\ IF resp[w].err
             THEN asi' = [asi EXCEPT ![w] = Len(AdminSeq)] /\ Goto(w, "rpc_post")
             ELSE UNCHANGED asi /\ Goto(w, "ch_reset")
          /\ UNCHANGED boot_status
    /\ resp' = [resp EXCEPT ![w] = NoReply]
    /\ UNCHANGED <<fsmVars, mbVars, chVars, prev, bci, work, isrVars, fwVars>>

-----------------------------------------------------------------------------
(* Suspend and resume (dce-pm.c).  User processes are frozen first.        *)

(* dce_pm_enter_sc7: nothing to do before the boot is done, otherwise save *)
(* the interrupt enables and send PREPARE_SC7.  A failed allocation ends   *)
(* the suspend here and changes nothing.                                   *)
PmSuspend ==
    /\ pc["pm"] = "idle"
    /\ \A u \in Users : pc[u] = "idle"
    /\ IF BootDone
       THEN hsp_ie' = ie /\ Goto("pm", "rpc_post")
       ELSE EarlySuspend /\ UNCHANGED hsp_ie /\ Goto("pm", "suspended")
    /\ UNCHANGED <<fsmVars, boot_status, cmd_mb, irq_mb, adm_mb, ack, mb_locked, ie, chVars,
                   prev, resp, bci, asi, work, isrVars, fwVars>>

(* PREPARE_SC7 was answered, or failed and the suspend with it. *)
PmPrepared ==
    /\ pc["pm"] \in {"rpc_ok", "rpc_err"}
    /\ Goto("pm", IF pc["pm"] = "rpc_ok" THEN "sc7_post" ELSE "idle")
    /\ resp' = [resp EXCEPT !["pm"] = NoReply]
    /\ UNCHANGED <<fsmVars, boot_status, mbVars, chVars, prev, bci, asi, work, isrVars, fwVars>>

PmEnterPost ==
    /\ pc["pm"] = "sc7_post"
    /\ Post("pm", "SC7_ENTER_REQUESTED", "sc7_send", "idle")
    /\ UNCHANGED <<complete, boot_status, mbVars, chVars, resp, bci, asi, work, isrVars, fwVars>>

(* dce_pm_handle_sc7_enter_requested_event: send ENTER_SC7 ... *)
PmEnterSend ==
    /\ pc["pm"] = "sc7_send"
    /\ IF CanSend
       THEN tx' = Append(tx, [src |-> "pm", cmd |-> "ENTER_SC7"]) /\ Goto("pm", "sc7_wait")
       ELSE UNCHANGED tx /\ Goto("pm", "sc7_fail")
    /\ UNCHANGED <<fsmVars, boot_status, mbVars, rx, ch, prev, resp, bci, asi, work, isrVars, fwVars>>

(* ... unless the message cannot be allocated: ret is still 0, and the     *)
(* suspend succeeds.                                                       *)
PmEnterAllocFail ==
    /\ pc["pm"] = "sc7_send"
    /\ AllocFail
    /\ Goto("pm", "suspended")
    /\ UNCHANGED <<fsmVars, boot_status, mbVars, chVars, prev, resp, bci, asi, work, isrVars, fwVars>>

PmEnterWait ==
    /\ pc["pm"] = "sc7_wait"
    /\ WaitConsume("SC7_ENTER")
    /\ Goto("pm", "sc7_done")
    /\ UNCHANGED <<c_state, requested_ipcs, boot_status, mbVars, chVars, prev, resp, bci, asi, work, isrVars, fwVars>>

PmEnterInterrupt ==
    /\ pc["pm"] = "sc7_wait"
    /\ "pm" \in Interruptible
    /\ ~ complete["SC7_ENTER"]
    /\ Goto("pm", "sc7_fail")
    /\ UNCHANGED <<fsmVars, boot_status, mbVars, chVars, prev, resp, bci, asi, work, isrVars, fwVars>>

(* dce_set_boot_complete(d, false) and DCE_FW_SUSPENDED. *)
PmEnterDone ==
    /\ pc["pm"] = "sc7_done"
    /\ boot_status' = (boot_status \ {"BOOT_DONE"}) \cup {"SUSPENDED"}
    /\ Goto("pm", "suspended")
    /\ UNCHANGED <<fsmVars, mbVars, chVars, prev, resp, bci, asi, work, isrVars, fwVars>>

PmEnterFail ==
    /\ pc["pm"] = "sc7_fail"
    /\ PostRestore(prev["pm"])
    /\ Goto("pm", "idle")
    /\ UNCHANGED <<complete, boot_status, mbVars, chVars, prev, resp, bci, asi, work, isrVars, fwVars>>

(* External: with no handler running, the DCE loses power and boots again; *)
(* its registers are reset, the queues in memory are not.                  *)
PowerCycle ==
    /\ pc["pm"] = "suspended"
    /\ isr = "idle"
    /\ Goto("pm", "powered")
    /\ cmd_mb' = 0 /\ irq_mb' = NoStatus /\ adm_mb' = FALSE /\ ie' = FALSE
    /\ fw' = "booting" /\ boot_sema' = FALSE /\ boot_int' = FALSE
    /\ fw_cmd' = 0 /\ fw_cmds' = <<>> /\ fw_err' = FALSE
    /\ fw_chans' = {} /\ fw_rm' = FALSE
    /\ UNCHANGED <<fsmVars, boot_status, ack, mb_locked, hsp_ie, chVars, prev, resp, bci, asi, work, isrVars>>

(* dce_pm_exit_sc7: restore the interrupt enables and post SC7_EXIT, whose *)
(* callback queues the resume work.                                        *)
PmResume ==
    /\ pc["pm"] = "powered"
    /\ ie' = (ie \/ hsp_ie)
    /\ Post("pm", "SC7_EXIT_RECEIVED", "idle", "idle")
    /\ work' = IF dce_fsm_validate_event(c_state, "SC7_EXIT_RECEIVED")
               THEN work \cup {"resume"} ELSE work
    /\ UNCHANGED <<complete, boot_status, cmd_mb, irq_mb, adm_mb, ack, mb_locked, hsp_ie, chVars,
                   resp, bci, asi, isrVars, fwVars>>

-----------------------------------------------------------------------------
(* dce_admin_send_cmd_echo and its siblings in dce-admin-debug.c.          *)
UserCall(u) ==
    /\ pc[u] = "idle"
    /\ pc["pm"] = "idle"
    /\ BootDone
    /\ Goto(u, "rpc_post")
    /\ UNCHANGED <<fsmVars, boot_status, mbVars, chVars, prev, resp, bci, asi, work, isrVars, fwVars>>

UserReturn(u) ==
    /\ pc[u] \in {"rpc_ok", "rpc_err"}
    /\ Goto(u, "idle")
    /\ resp' = [resp EXCEPT ![u] = NoReply]
    /\ UNCHANGED <<fsmVars, boot_status, mbVars, chVars, prev, bci, asi, work, isrVars, fwVars>>

-----------------------------------------------------------------------------
(* dce_mailbox_isr: one threaded handler, never run twice at a time.       *)

(* The interrupt sources are sampled once, at entry. *)
IsrEnter ==
    /\ isr = "idle"
    /\ ie
    /\ irq_mb # NoStatus \/ adm_mb
    /\ srcs' = (IF irq_mb # NoStatus THEN {"BOOT"} ELSE {})
               \cup (IF adm_mb THEN {"ADMIN"} ELSE {})
    /\ isr' = IF irq_mb # NoStatus THEN "boot_read" ELSE "adm_read"
    /\ UNCHANGED <<fsmVars, boot_status, mbVars, chVars, thrVars, isr_wait, fwVars>>

AfterBoot == IF "ADMIN" \in srcs THEN "adm_read" ELSE "idle"

(* Boot interface: read and clear the mailbox, store the status. *)
IsrBootRead ==
    /\ isr = "boot_read"
    /\ ~ mb_locked
    /\ ack' = irq_mb
    /\ irq_mb' = NoStatus
    /\ isr' = "boot_post"
    /\ UNCHANGED <<fsmVars, boot_status, cmd_mb, adm_mb, mb_locked, ie, hsp_ie, chVars, thrVars,
                   srcs, isr_wait, fwVars>>

(* What dce_handle_irq_status and dce_bootstrap_handle_boot_status post    *)
(* for a status, and the condition the callback wakes.                     *)
EventFor(k) ==
    CASE k = "READY"       -> "BOOT_COMPLETE_RECEIVED"
      [] k = "SC7_ENTERED" -> "SC7_ENTERED_RECEIVED"
      [] k = "BOOT_CMD"    -> "BOOT_CMD_MSG_RECEIVED"
      [] OTHER             -> "ABORT_RECEIVED"

WakesFor(k) ==
    CASE k = "READY"       -> {"BOOT_COMPLETE"}
      [] k = "SC7_ENTERED" -> {"SC7_ENTER"}
      [] k = "BOOT_CMD"    -> {"BOOT_CMD"}
      [] k = "LOG_READY"   -> {"LOG"}
      [] OTHER             -> {}

(* dce_boot_interface_isr: the status is fetched again from the interface  *)
(* and may be invalid by now; LOG_READY wakes without an event, and abort  *)
(* events have a callback that wakes nobody.  The status of a boot command *)
(* is stored once more before the event: the value just fetched, which     *)
(* nobody changed, since the worker that would waits for this status.      *)
IsrBootPost ==
    /\ isr = "boot_post"
    /\ IF \/ ack.kind = "none"
          \/ ack.kind # "LOG_READY" /\ ~ dce_fsm_validate_event(c_state, EventFor(ack.kind))
       THEN /\ isr' = AfterBoot
            /\ UNCHANGED <<c_state, requested_ipcs, isr_wait>>
       ELSE /\ isr' = "boot_wake"
            /\ isr_wait' = WakesFor(ack.kind)
            /\ IF ack.kind = "LOG_READY"
               THEN UNCHANGED <<c_state, requested_ipcs>>
               ELSE dce_fsm_set_state(EventFor(ack.kind))
    /\ UNCHANGED <<complete, boot_status, mbVars, chVars, thrVars, srcs, fwVars>>

IsrBootWake ==
    /\ isr = "boot_wake"
    /\ complete' = [w \in Waits |-> complete[w] \/ w \in isr_wait]
    /\ isr_wait' = {}
    /\ isr' = AfterBoot
    /\ UNCHANGED <<c_state, requested_ipcs, boot_status, mbVars, chVars, thrVars, srcs, fwVars>>

(* Admin interface: clear the mailbox ... *)
IsrAdminRead ==
    /\ isr = "adm_read"
    /\ adm_mb' = FALSE
    /\ isr' = "adm_post"
    /\ UNCHANGED <<fsmVars, boot_status, cmd_mb, irq_mb, ack, mb_locked, ie, hsp_ie, chVars, thrVars,
                   srcs, isr_wait, fwVars>>

(* ... dce_admin_ipc_handle_signal: a signal counts when the channel is    *)
(* synced and holds data.  Either nobody gets in between this look at the  *)
(* channel and the event ...                                               *)
IsrAdminPost ==
    /\ isr = "adm_post"
    /\ IF /\ ch["ADMIN"] = "synced"
          /\ rx # <<>>
          /\ dce_fsm_validate_event(c_state, "ADMIN_IPC_MSG_RECEIVED")
       THEN dce_fsm_set_state("ADMIN_IPC_MSG_RECEIVED") /\ isr' = "adm_wake"
       ELSE UNCHANGED <<c_state, requested_ipcs>> /\ isr' = "idle"
    /\ UNCHANGED <<complete, boot_status, mbVars, chVars, thrVars, srcs, isr_wait, fwVars>>

(* ... or others run after the look, and the event is posted for data that *)
(* may have been read by then: by a worker let go for an earlier signal,   *)
(* whose next request the event then completes before it is answered.      *)
IsrAdminSeen ==
    /\ isr = "adm_post"
    /\ Overtaken
    /\ ch["ADMIN"] = "synced" /\ rx # <<>>
    /\ isr' = "adm_seen"
    /\ UNCHANGED <<fsmVars, boot_status, mbVars, chVars, thrVars, srcs, isr_wait, fwVars>>

IsrAdminLate ==
    /\ isr = "adm_seen"
    /\ IF dce_fsm_validate_event(c_state, "ADMIN_IPC_MSG_RECEIVED")
       THEN dce_fsm_set_state("ADMIN_IPC_MSG_RECEIVED") /\ isr' = "adm_wake"
       ELSE UNCHANGED <<c_state, requested_ipcs>> /\ isr' = "idle"
    /\ UNCHANGED <<complete, boot_status, mbVars, chVars, thrVars, srcs, isr_wait, fwVars>>

IsrAdminWake ==
    /\ isr = "adm_wake"
    /\ dce_wakeup_interruptible("ADMIN_IPC")
    /\ isr' = "idle"
    /\ UNCHANGED <<c_state, requested_ipcs, boot_status, mbVars, chVars, thrVars, srcs, isr_wait, fwVars>>

-----------------------------------------------------------------------------
(* The firmware, as the driver sees it (external).                         *)

FwBooted ==
    /\ fw = "booting"
    /\ fw' = "up" /\ boot_sema' = TRUE
    /\ UNCHANGED <<fsmVars, boot_status, mbVars, chVars, thrVars, isrVars,
                   boot_int, fw_cmd, fw_cmds, fw_err, fw_chans, fw_rm>>

(* The interrupt that was requested through the boot semaphore. *)
FwReady ==
    /\ fw = "up" /\ boot_int /\ irq_mb = NoStatus
    /\ irq_mb' = Irq("READY")
    /\ boot_int' = FALSE
    /\ UNCHANGED <<fsmVars, boot_status, cmd_mb, adm_mb, ack, mb_locked, ie, hsp_ie, chVars, thrVars,
                   isrVars, fw, boot_sema, fw_cmd, fw_cmds, fw_err, fw_chans, fw_rm>>

FwTakeCmd ==
    /\ fw = "up" /\ cmd_mb # 0 /\ fw_cmd = 0
    /\ fw_cmd' = cmd_mb
    /\ fw_cmds' = Append(fw_cmds, BootCmdSeq[cmd_mb])
    /\ cmd_mb' = 0
    /\ UNCHANGED <<fsmVars, boot_status, irq_mb, adm_mb, ack, mb_locked, ie, hsp_ie, chVars, thrVars,
                   isrVars, fw, boot_sema, boot_int, fw_err, fw_chans, fw_rm>>

(* CHANNEL_INIT makes the admin channel known to the firmware. *)
FwAckCmd ==
    /\ fw = "up" /\ fw_cmd # 0 /\ irq_mb = NoStatus
    /\ \E err \in {FALSE} \cup {FwErr} :
        /\ irq_mb' = [kind |-> "BOOT_CMD", cmd |-> fw_cmd, err |-> err]
        /\ fw_err' = (fw_err \/ err)
        /\ fw_chans' = IF BootCmdSeq[fw_cmd] = "CHANNEL_INIT" /\ ~ err
                       THEN fw_chans \cup {"ADMIN"} ELSE fw_chans
    /\ fw_cmd' = 0
    /\ UNCHANGED <<fsmVars, boot_status, cmd_mb, adm_mb, ack, mb_locked, ie, hsp_ie, chVars, thrVars,
                   isrVars, fw, boot_sema, boot_int, fw_cmds, fw_rm>>

(* The firmware's half of a channel reset; both queues are empty after it, *)
(* and the admin channel's state change is signalled.                      *)
FwEstablish(c) ==
    /\ fw = "up" /\ c \in fw_chans /\ ch[c] = "sync"
    /\ ch' = [ch EXCEPT ![c] = "est"]
    /\ tx' = IF c = "ADMIN" THEN <<>> ELSE tx
    /\ rx' = IF c = "ADMIN" THEN <<>> ELSE rx
    /\ adm_mb' = (adm_mb \/ c = "ADMIN")
    /\ UNCHANGED <<fsmVars, boot_status, cmd_mb, irq_mb, ack, mb_locked, ie, hsp_ie, thrVars, isrVars, fwVars>>

FwServes == fw = "up" /\ "ADMIN" \in fw_chans /\ Established("ADMIN") /\ tx # <<>>

FwReply ==
    /\ FwServes
    /\ Head(tx).cmd # "ENTER_SC7"
    /\ Len(rx) < NFrames
    /\ \E err \in {FALSE} \cup {FwErr} :
        LET cmd == Head(tx).cmd IN
        /\ rx' = Append(rx, [src |-> Head(tx).src, cmd |-> cmd, err |-> err])
        /\ fw_chans' = IF cmd \in {"IPC_CREATE_RM", "IPC_CREATE_RM_NOTIFY"} /\ ~ err
                       THEN fw_chans \cup {ChannelOf(cmd)} ELSE fw_chans
        /\ fw_rm' = (fw_rm \/ (cmd = "RM_BOOTSTRAP" /\ ~ err))
    /\ tx' = Tail(tx)
    /\ adm_mb' = TRUE
    /\ UNCHANGED <<fsmVars, boot_status, cmd_mb, irq_mb, ack, mb_locked, ie, hsp_ie, ch, thrVars, isrVars,
                   fw, boot_sema, boot_int, fw_cmd, fw_cmds, fw_err>>

(* ENTER_SC7 has no reply frame: the firmware saves its state and raises   *)
(* SC7_ENTERED.                                                            *)
FwEnterSC7 ==
    /\ FwServes
    /\ Head(tx).cmd = "ENTER_SC7"
    /\ irq_mb = NoStatus
    /\ irq_mb' = Irq("SC7_ENTERED")
    /\ tx' = Tail(tx)
    /\ fw' = "sc7"
    /\ UNCHANGED <<fsmVars, boot_status, cmd_mb, adm_mb, ack, mb_locked, ie, hsp_ie, rx, ch, thrVars, isrVars,
                   boot_sema, boot_int, fw_cmd, fw_cmds, fw_err, fw_chans, fw_rm>>

(* Trace log and abort interrupts come at any time. *)
FwIrq(k) ==
    /\ fw = "up" /\ irq_mb = NoStatus
    /\ irq_mb' = Irq(k)
    /\ UNCHANGED <<fsmVars, boot_status, cmd_mb, adm_mb, ack, mb_locked, ie, hsp_ie, chVars, thrVars,
                   isrVars, fwVars>>

-----------------------------------------------------------------------------
RpcStep(t) == RpcPost(t) \/ RpcSend(t) \/ RpcWait(t) \/ RpcConsume(t) \/ RpcRead(t) \/ RpcFail(t)

WorkerStep(w) ==
    \/ WorkStart(w) \/ BootCompletePost(w) \/ BootCompleteCheck(w)
    \/ BootCompleteNested(w) \/ BootCompleteNestedWake(w) \/ BootCompleteReset(w)
    \/ BootCompleteRequest(w) \/ BootCompleteWait(w) \/ BootCompleteDone(w)
    \/ CmdPost(w) \/ CmdSend(w) \/ CmdWait(w) \/ CmdStatus(w) \/ CmdFail(w) \/ BootFail(w)
    \/ ChannelReset(w) \/ ChannelReady(w) \/ SeqStart(w) \/ SeqReply(w)

PmStep == PmPrepared \/ PmEnterPost \/ PmEnterSend \/ PmEnterWait
          \/ PmEnterDone \/ PmEnterFail \/ PowerCycle \/ PmResume

IsrStep == IsrEnter \/ IsrBootRead \/ IsrBootPost \/ IsrBootWake
           \/ IsrAdminRead \/ IsrAdminPost \/ IsrAdminSeen \/ IsrAdminLate \/ IsrAdminWake

FwStep == FwBooted \/ FwReady \/ FwTakeCmd \/ FwAckCmd \/ FwReply \/ FwEnterSC7
          \/ \E c \in Channels : FwEstablish(c)

Next ==
    \/ \E t \in Threads : RpcStep(t) \/ RpcInterrupt(t)
    \/ \E w \in Workers : WorkerStep(w)
    \/ PmSuspend \/ PmStep \/ PmEnterAllocFail \/ PmEnterInterrupt
    \/ \E u \in Users : UserCall(u) \/ UserReturn(u)
    \/ IsrStep
    \/ FwStep \/ \E k \in FwIrqs : FwIrq(k)

Spec == Init /\ [][Next]_vars

(* Kernel threads, the interrupt thread and the firmware keep running; a   *)
(* call that was started is finished.  Starting a suspend or a user call,  *)
(* signals, failures and spontaneous interrupts are not promised.          *)
Fairness ==
    /\ \A t \in Threads : WF_vars(RpcStep(t))
    /\ \A w \in Workers : WF_vars(WorkerStep(w))
    /\ WF_vars(PmStep)
    /\ \A u \in Users : WF_vars(UserReturn(u))
    /\ WF_vars(IsrStep)
    /\ WF_vars(FwReady) /\ WF_vars(FwBooted \/ FwTakeCmd \/ FwAckCmd)
    /\ WF_vars(FwReply \/ FwEnterSC7)
    /\ \A c \in Channels : WF_vars(FwEstablish(c))

FairSpec == Spec /\ Fairness

-----------------------------------------------------------------------------
MbTypeOK ==
    /\ cmd_mb \in 0 .. NumBootCmds
    /\ irq_mb \in Statuses /\ ack \in Statuses
    /\ adm_mb \in BOOLEAN /\ mb_locked \in BOOLEAN /\ ie \in BOOLEAN /\ hsp_ie \in BOOLEAN

ChTypeOK ==
    /\ tx \in Seq(Messages) /\ Len(tx) <= NFrames
    /\ rx \in Seq(Replies) /\ Len(rx) <= NFrames
    /\ ch \in [Channels -> {"down", "sync", "est", "synced"}]

ThrTypeOK ==
    /\ pc \in [Threads -> PcLabels]
    /\ prev \in [Threads -> States]
    /\ resp \in [Threads -> Replies]
    /\ bci \in [Workers -> 1 .. NumBootCmds]
    /\ asi \in [Workers -> 0 .. Len(AdminSeq)]
    /\ work \subseteq Workers

IsrTypeOK ==
    /\ isr \in IsrLabels
    /\ srcs \subseteq {"BOOT", "ADMIN"}
    /\ isr_wait \subseteq Waits

FwTypeOK ==
    /\ fw \in {"booting", "up", "sc7"}
    /\ boot_sema \in BOOLEAN /\ boot_int \in BOOLEAN
    /\ fw_cmd \in 0 .. NumBootCmds
    /\ fw_cmds \in Seq({BootCmdSeq[i] : i \in 1 .. NumBootCmds})
    /\ fw_err \in BOOLEAN /\ fw_rm \in BOOLEAN
    /\ fw_chans \subseteq Channels

TypeOK ==
    /\ FsmTypeOK /\ boot_status \subseteq StatusFlags
    /\ MbTypeOK /\ ChTypeOK /\ ThrTypeOK /\ IsrTypeOK /\ FwTypeOK

(* The firmware is given the boot commands in the order of the bootstrap   *)
(* flow, each once per power-up, however suspends and resumes fall         *)
(* (dce_start_bootstrap_flow, run by two different work items).            *)
BootCmdsInOrder ==
    /\ Len(fw_cmds) <= NumBootCmds
    /\ \A i \in 1 .. Len(fw_cmds) : fw_cmds[i] = BootCmdSeq[i]

(* The status a worker reads after a boot command is the firmware's answer *)
(* to that very command, not a leftover or another interrupt's status      *)
(* (dce_mailbox_wait_boot_interface reads a slot the handler overwrites).  *)
AckAnswersCmd ==
    \A w \in Workers : pc[w] = "cmd_status" => ack.kind = "BOOT_CMD" /\ ack.cmd = bci[w]

(* Nobody waits for an admin reply from firmware that has not been through *)
(* all boot commands since it was last powered up: the check in            *)
(* dce_admin_handle_ipc_requested_event, which looks at a flag that is     *)
(* never cleared, is enough because of who can get that far.               *)
AdminOnlyAfterBootcmds ==
    \A t \in Threads : pc[t] \in {"rpc_wait", "rpc_woken", "rpc_read"} => fw_cmds = BootCmdSeq

(* The reply an admin RPC returns is the reply to its own request          *)
(* (dce_ipc_send_message_sync reads whatever frame is next).               *)
ReplyAnswersRequest ==
    \A t \in Threads : pc[t] = "rpc_ok" => resp[t].src = t /\ resp[t].cmd = Request(t).cmd

(* The wait condition a thread sleeps on. *)
SleepsOn(t) ==
    CASE pc[t] = "bc_wait"  -> {"BOOT_COMPLETE"}
      [] pc[t] = "cmd_wait" -> {"BOOT_CMD"}
      [] pc[t] = "rpc_wait" -> {"ADMIN_IPC"}
      [] pc[t] = "sc7_wait" -> {"SC7_ENTER"}
      [] OTHER              -> {}

(* An answer that will wake a sleeper on condition w is under way: the     *)
(* request is before firmware that can take it and answer, or the answer   *)
(* is in a mailbox whose interrupt is enabled, or the handler has it.      *)
OnItsWay(w) ==
    \/ complete[w]
    \/ w \in isr_wait
    \/ /\ w = "BOOT_COMPLETE"
       /\ \/ boot_int /\ fw # "sc7"
          \/ irq_mb.kind = "READY" /\ ie
          \/ isr = "boot_post" /\ ack.kind = "READY"
    \/ /\ w = "BOOT_CMD"
       /\ \/ (cmd_mb # 0 \/ fw_cmd # 0) /\ fw # "sc7"
          \/ irq_mb.kind = "BOOT_CMD" /\ ie
          \/ isr = "boot_post" /\ ack.kind = "BOOT_CMD"
    \/ /\ w = "ADMIN_IPC"
       /\ \/ FwServes /\ Head(tx).cmd # "ENTER_SC7" /\ Len(rx) < NFrames
          \/ rx # <<>> /\ ((adm_mb /\ ie) \/ isr = "adm_post")
          \/ isr \in {"adm_seen", "adm_wake"}
    \/ /\ w = "SC7_ENTER"
       /\ \/ FwServes /\ Head(tx).cmd = "ENTER_SC7"
          \/ irq_mb.kind = "SC7_ENTERED" /\ ie
          \/ isr = "boot_post" /\ ack.kind = "SC7_ENTERED"

(* Nobody sleeps for an answer that cannot come any more: waits have no    *)
(* timeout, so a request or an answer that got lost (a mailbox overwritten *)
(* or reset, a signal that found no data, firmware that has stopped        *)
(* serving) would block the driver for good.  So it does after a signal    *)
(* broke off ENTER_SC7, or once replies nobody read fill the queue: this   *)
(* is a property of drivers whose waits no signal ends.                    *)
AnswerOnItsWay == \A t \in Threads : \A w \in SleepsOn(t) : OnItsWay(w)

(* A thread that sleeps will be let through: the FSM is still in the state *)
(* that accepts its answer, or the handler is about to wake it, or it has  *)
(* been woken (dce_fsm_validate_event drops answers nobody asked for).     *)
SleeperIsExpected ==
    \A t \in Threads : \A w \in SleepsOn(t) :
        \/ w \in WaitOf(c_state)
        \/ w \in isr_wait
        \/ w = "ADMIN_IPC" /\ isr = "adm_wake"
        \/ complete[w]

(* requested_ipcs names exactly the request the FSM is waiting for: no bit *)
(* outlives its request (dce_fsm_set_state, and the state resets of        *)
(* dce_fsm_post_event that do not touch it).                               *)
RequestedMatchesState == requested_ipcs = WaitOf(c_state)

(* The system only proceeds to power off when the firmware has saved its   *)
(* state (dce_pm_enter_sc7 returning 0).                                   *)
SuspendedIsSafe == pc["pm"] = "suspended" => fw = "sc7"

(* The places the firmware's report of having entered SC7 can be in, from  *)
(* the mailbox to the suspended system.                                    *)
Sc7InMailbox == irq_mb.kind = "SC7_ENTERED"
Sc7InHandler == isr = "boot_post" /\ ack.kind = "SC7_ENTERED"
Sc7ToWake == "SC7_ENTER" \in isr_wait
Sc7Woken == complete["SC7_ENTER"]
Sc7Used == pc["pm"] \in {"sc7_done", "suspended"}

(* One suspend, one report: whatever signals, stray interrupts and         *)
(* rejected events do to it, a report of SC7 entry is in one place at most *)
(* and exists only while the firmware is in SC7, so no later suspend can   *)
(* take the wake-up of an earlier one for its own.                         *)
OneSc7Report ==
    /\ Sc7InMailbox \/ Sc7InHandler \/ Sc7ToWake \/ Sc7Woken \/ Sc7Used => fw = "sc7"
    /\ Sc7Used => ~ (Sc7InMailbox \/ Sc7InHandler \/ Sc7ToWake \/ Sc7Woken)
    /\ Sc7Woken => ~ (Sc7InMailbox \/ Sc7InHandler \/ Sc7ToWake)
    /\ Sc7ToWake => ~ (Sc7InMailbox \/ Sc7InHandler)
    /\ Sc7InHandler => ~ Sc7InMailbox

(* DCE_FW_BOOT_DONE, which opens the debugfs commands and the client       *)
(* registration, is set only while the firmware is booted, bootstrapped    *)
(* and reachable on a synced admin channel.                                *)
BootDoneMeansServing ==
    BootDone => /\ fw # "booting"
                /\ fw_cmds = BootCmdSeq
                /\ fw_rm
                /\ ch["ADMIN"] = "synced"

(* A boot command that the firmware rejected ends the bootstrap: no admin  *)
(* command follows (dce_start_bootstrap_flow's error paths).               *)
ErrorStopsBoot ==
    fw_err => \A t \in Threads : pc[t] \notin {"ch_reset", "rpc_post", "rpc_send", "rpc_wait"}

(* A wait for the admin channel starts with its wake flag down: what the   *)
(* waiter sees later is a wake for its own request.                        *)
WaitStartsFresh ==
    \A t \in Threads : pc[t] = "rpc_send" => ~ complete["ADMIN_IPC"]

(* All client channels are synced once DCE_FW_BOOT_DONE is set. *)
BootDoneMeansChannels == BootDone => \A c \in Channels : ch[c] = "synced"

(* No state reset and no late answer takes the FSM out of SC7_ENTERED:     *)
(* only the resume does.                                                   *)
Sc7LeftByResume == [][c_state = "SC7_ENTERED" /\ c_state' # c_state => pc["pm"] = "powered"]_vars

(* DCE_FW_BOOT_DONE is taken back only after the firmware entered SC7. *)
BootDoneClearedInSc7 == [][BootDone /\ "BOOT_DONE" \notin boot_status' => fw = "sc7"]_vars

(* The firmware is always booted to the end again, after power-up and      *)
(* after every resume.                                                     *)
AlwaysBootsAgain == []<>BootDone

(* An admin command that was started returns. *)
CallsReturn == \A u \in Users : (pc[u] = "rpc_post") ~> (pc[u] = "idle")

(* A suspend that was started either gets to the power-off or gives up. *)
SuspendEnds == (pc["pm"] = "rpc_post") ~> (pc["pm"] \in {"suspended", "idle"})
=============================================================================
