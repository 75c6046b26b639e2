------------------------------ MODULE DceAsync ------------------------------
(***************************************************************************)
(* Delivery of the firmware's RM events (dce-client-ipc.c).                *)
(*                                                                         *)
(* The firmware writes an event to the RM_NOTIFY channel and then signals  *)
(* the mailbox.  The interrupt handler looks for a free one of N work      *)
(* items and queues it on a single-threaded workqueue; a work item drains  *)
(* the channel, calling the registered client once per event, and is freed *)
(* when it returns.  The handler drops the signal when all work items are  *)
(* in use ("Queue Full!"), and a work item can still be in use after it    *)
(* last looked at the channel, so whether every event is seen is a matter  *)
(* of how those two scans can interleave.                                  *)
(*                                                                         *)
(* Events are alike here: only how many are in the channel matters.  The   *)
(* channel is taken to be synced, as it is from the boot on (DceBoot).     *)
(***************************************************************************)
EXTENDS Naturals, Sequences

CONSTANTS
    N,          \* DCE_MAX_ASYNC_WORK
    NFrames,    \* DCE_DISPRM_EVENT_NOTIFY_CMD_MAX_NFRAMES
    AllocFail   \* may the allocation of the read buffer fail?

ASSUME AsyncAssumption ==
    /\ N \in Nat /\ N >= 2
    /\ NFrames \in Nat \ {0}
    /\ AllocFail \in BOOLEAN

Works == 0 .. N - 1
None == N                \* no work item

VARIABLES
    registered,   \* d_clients[DCE_CLIENT_IPC_TYPE_RM_EVENT] is set
    data,         \* number of events in the RM_NOTIFY channel
    fw_pc,        \* firmware: "idle", or "notify" between the write and the signal
    mbox,         \* the RM_NOTIFY mailbox is full
    isr,          \* the handler's place
    si,           \* i of dce_client_schedule_event_work
    in_use,       \* work[i].in_use
    wq,           \* work items queued, oldest first
    cur, phase,   \* the work item that runs and its place
    dropped       \* history: since the channel was last found empty a signal
                  \* was dropped for want of a client or of memory

isrVars == <<isr, si>>
wqVars == <<in_use, wq, cur, phase>>
vars == <<registered, data, fw_pc, mbox, isrVars, wqVars, dropped>>

Init ==
    /\ registered = FALSE
    /\ data = 0 /\ fw_pc = "idle" /\ mbox = FALSE
    /\ isr = "idle" /\ si = 0
    /\ in_use = [i \in Works |-> FALSE]
    /\ wq = <<>> /\ cur = None /\ phase = "exit"
    /\ dropped = FALSE

-----------------------------------------------------------------------------
(* Plausible slips, used only to show that the properties notice them.     *)

\* A work item frees itself before it drains the channel.
Mut_WorkStart ==
    /\ cur = None
    /\ wq # <<>>
    /\ cur' = Head(wq)
    /\ wq' = Tail(wq)
    /\ in_use' = [in_use EXCEPT ![Head(wq)] = FALSE]
    /\ IF registered
       THEN phase' = "check" /\ UNCHANGED dropped
       ELSE phase' = "exit" /\ dropped' = TRUE
    /\ UNCHANGED <<registered, data, fw_pc, mbox, isrVars>>

\* The drain takes one event and returns.
Mut_Callback ==
    /\ cur # None
    /\ phase = "callback"
    /\ phase' = "exit"
    /\ UNCHANGED <<registered, data, fw_pc, mbox, isrVars, in_use, wq, cur, dropped>>

\* The handler tries the first work item only.
Mut_IsrScanFirst ==
    /\ isr = "scan"
    /\ IF ~ in_use[si]
       THEN /\ in_use' = [in_use EXCEPT ![si] = TRUE]
            /\ wq' = Append(wq, si)
       ELSE UNCHANGED <<in_use, wq>>
    /\ isr' = "idle" /\ si' = 0
    /\ UNCHANGED <<registered, data, fw_pc, mbox, cur, phase, dropped>>

\* The loop runs one work item too far.
Mut_IsrScanTooFar ==
    /\ isr = "scan"
    /\ IF ~ in_use[si]
       THEN /\ in_use' = [in_use EXCEPT ![si] = TRUE]
            /\ wq' = Append(wq, si)
            /\ isr' = "idle" /\ si' = 0
       ELSE UNCHANGED <<in_use, wq, isr>> /\ si' = si + 1
    /\ UNCHANGED <<registered, data, fw_pc, mbox, cur, phase, dropped>>

-----------------------------------------------------------------------------
(* tegra_dce_register_ipc_client *)
Register ==
    /\ ~ registered
    /\ registered' = TRUE
    /\ UNCHANGED <<data, fw_pc, mbox, isrVars, wqVars, dropped>>

(* tegra_dce_unregister_ipc_client.  Nothing in the driver waits for a     *)
(* running work item; that no callback is under way is the client's part.  *)
Unregister ==
    /\ registered
    /\ cur = None
    /\ registered' = FALSE
    /\ UNCHANGED <<data, fw_pc, mbox, isrVars, wqVars, dropped>>

-----------------------------------------------------------------------------
(* The firmware (external): write a frame, then set the mailbox.           *)
FwWrite ==
    /\ fw_pc = "idle"
    /\ data < NFrames
    /\ data' = data + 1
    /\ fw_pc' = "notify"
    /\ UNCHANGED <<registered, mbox, isrVars, wqVars, dropped>>

FwNotify ==
    /\ fw_pc = "notify"
    /\ mbox' = TRUE
    /\ fw_pc' = "idle"
    /\ UNCHANGED <<registered, data, isrVars, wqVars, dropped>>

-----------------------------------------------------------------------------
(* dce_mailbox_isr for the DISPRM_NOTIFY interface.                        *)
IsrEnter ==
    /\ isr = "idle"
    /\ mbox
    /\ isr' = "clear"
    /\ UNCHANGED <<registered, data, fw_pc, mbox, si, wqVars, dropped>>

IsrClear ==
    /\ isr = "clear"
    /\ mbox' = FALSE
    /\ isr' = "handle"
    /\ UNCHANGED <<registered, data, fw_pc, si, wqVars, dropped>>

(* dce_admin_ipc_handle_signal and dce_client_ipc_wakeup: a spurious       *)
(* signal is ignored, one without a client is dropped with an error.       *)
IsrHandle ==
    /\ isr = "handle"
    /\ isr' = IF data > 0 /\ registered THEN "scan" ELSE "idle"
    /\ dropped' = (dropped \/ (data > 0 /\ ~ registered))
    /\ UNCHANGED <<registered, data, fw_pc, mbox, si, wqVars>>

(* One turn of the loop of dce_client_schedule_event_work.                 *)
IsrScan ==
    /\ isr = "scan"
    /\ IF ~ in_use[si]
       THEN /\ in_use' = [in_use EXCEPT ![si] = TRUE]
            /\ wq' = Append(wq, si)
            /\ isr' = "idle" /\ si' = 0
       ELSE /\ UNCHANGED <<in_use, wq>>
            /\ IF si + 1 < N
               THEN UNCHANGED isr /\ si' = si + 1
               ELSE isr' = "idle" /\ si' = 0      \* Queue Full!
    /\ UNCHANGED <<registered, data, fw_pc, mbox, cur, phase, dropped>>

-----------------------------------------------------------------------------
(* dce_client_async_event_work on the workqueue's thread.                  *)

(* It looks up the client and allocates the buffer; without one of them it *)
(* returns at once.                                                        *)
WorkStart ==
    /\ cur = None
    /\ wq # <<>>
    /\ cur' = Head(wq)
    /\ wq' = Tail(wq)
    /\ \/ /\ registered
          /\ phase' = "check" /\ UNCHANGED dropped
       \/ /\ ~ registered \/ AllocFail
          /\ phase' = "exit" /\ dropped' = TRUE
    /\ UNCHANGED <<registered, data, fw_pc, mbox, isrVars, in_use>>

(* The loop of dce_client_process_event_ipc: read an event or leave.  The  *)
(* work item is the only reader, so a frame that was there can be read;    *)
(* the exit for a channel that is broken is left out ...                   *)
Check ==
    /\ cur # None
    /\ phase = "check"
    /\ IF data > 0
       THEN data' = data - 1 /\ phase' = "callback" /\ UNCHANGED dropped
       ELSE phase' = "exit" /\ dropped' = FALSE /\ UNCHANGED data
    /\ UNCHANGED <<registered, fw_pc, mbox, isrVars, in_use, wq, cur>>

(* ... and the client's callback_fn returns.                               *)
Callback ==
    /\ cur # None
    /\ phase = "callback"
    /\ phase' = "check"
    /\ UNCHANGED <<registered, data, fw_pc, mbox, isrVars, in_use, wq, cur, dropped>>

(* atomic_set(&work->in_use, 0) *)
WorkEnd ==
    /\ cur # None
    /\ phase = "exit"
    /\ in_use' = [in_use EXCEPT ![cur] = FALSE]
    /\ cur' = None
    /\ UNCHANGED <<registered, data, fw_pc, mbox, isrVars, wq, phase, dropped>>

-----------------------------------------------------------------------------
IsrStep == IsrEnter \/ IsrClear \/ IsrHandle \/ IsrScan
WorkStep == WorkStart \/ Check \/ Callback \/ WorkEnd

Next == Register \/ Unregister \/ FwWrite \/ FwNotify \/ IsrStep \/ WorkStep

Spec == Init /\ [][Next]_vars

(* The interrupt thread and the workqueue thread run, callbacks return and *)
(* the firmware signals what it wrote; it need not write, and clients need *)
(* not come or go.                                                         *)
FairSpec == Spec /\ WF_vars(FwNotify) /\ WF_vars(IsrStep) /\ WF_vars(WorkStep)

-----------------------------------------------------------------------------
TypeOK ==
    /\ registered \in BOOLEAN /\ mbox \in BOOLEAN /\ dropped \in BOOLEAN
    /\ data \in 0 .. NFrames
    /\ fw_pc \in {"idle", "notify"}
    /\ isr \in {"idle", "clear", "handle", "scan"}
    /\ si \in Works
    /\ in_use \in [Works -> BOOLEAN]
    /\ wq \in Seq(Works)
    /\ cur \in Works \cup {None}
    /\ phase \in {"check", "callback", "exit"}

(* A work item will look at the channel again before it is done. *)
Active == wq # <<>> \/ (cur # None /\ phase # "exit")

(* A signal is on its way to dce_client_schedule_event_work. *)
InFlight == fw_pc = "notify" \/ mbox \/ isr = "handle" \/ (isr = "scan" /\ si = 0)

(* An event in the channel is always going to be read: its signal is under *)
(* way, or a work item is, or the handler is one look away from starting   *)
(* one - unless the driver reported that it dropped a signal for want of a *)
(* client or of memory.  In particular "Queue Full!" loses nothing         *)
(* (dce_client_schedule_event_work against dce_client_process_event_ipc).  *)
NoLostEvent ==
    data > 0 /\ ~ dropped =>
        \/ InFlight
        \/ Active
        \/ isr = "scan" /\ si = 1 /\ cur \in {None, 0}

(* A work item is in use exactly while it is queued or runs, and it is     *)
(* queued once: queue_work never meets a pending item, and no item is      *)
(* leaked (atomic_add_unless and atomic_set on in_use).                    *)
Queued(i) == {k \in 1 .. Len(wq) : wq[k] = i}
WorkAccounted ==
    \A i \in Works :
        /\ in_use[i] <=> (cur = i \/ Queued(i) # {})
        /\ \A k, l \in Queued(i) : k = l
        /\ cur = i => Queued(i) = {}

(* While a client is registered and no signal was dropped, an event in the *)
(* channel leads to a callback.                                            *)
EventsServed ==
    (registered /\ data > 0) ~> (phase = "callback" \/ ~ registered \/ dropped)
=============================================================================
