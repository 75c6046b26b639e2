------------------------------- MODULE DceFsm -------------------------------
(***************************************************************************)
(* The DCE driver's state machine (dce-fsm.c) and the five wait conditions *)
(* of dce-worker.c.                                                        *)
(*                                                                         *)
(* The FSM is shared by every thread of the driver.  dce_fsm_post_event    *)
(* takes the FSM mutex, validates the event against the current state and  *)
(* sets the new state; the event's callback then runs with the mutex       *)
(* released, and a callback that fails puts the state seen before the post *)
(* back.  The operators below are the pieces between two lock releases;    *)
(* the threads that use them are in DceBoot.                               *)
(***************************************************************************)
EXTENDS Naturals

VARIABLES
    c_state,          \* fsm_info.c_state
    requested_ipcs,   \* fsm_info.requested_ipcs, the set of bits that are set
    complete          \* ipc_waits[w].complete, TRUE for 1

fsmVars == <<c_state, requested_ipcs, complete>>

(* enum dce_fsm_state, without the STATE_DCE_ prefix. *)
States == {"INVALID", "FSM_IDLE", "BOOT_WAIT", "BOOTCMD_WFI", "ADMIN_WFI",
           "SC7_ENTER_WFI", "SC7_ENTERED", "LOG_READY_WFI", "ABORT"}

(* The events that report an answer of the firmware. *)
AnswerEvents == {"BOOT_COMPLETE_RECEIVED", "BOOT_CMD_MSG_RECEIVED",
                 "ADMIN_IPC_MSG_RECEIVED", "SC7_ENTERED_RECEIVED",
                 "LOG_READY_RECEIVED"}

(* The events that end in STATE_DCE_ABORT. *)
AbortEvents == {"ABORT_RECEIVED", "CRASH_LOG_RECEIVED", "LOG_OVERFLOW_RECEIVED"}

(* enum dce_fsm_event_id_type, without the EVENT_ID_DCE_ prefix. *)
Events == {"FSM_START", "BOOT_COMPLETE_REQUESTED", "BOOT_CMD_MSG_REQUESTED",
           "ADMIN_IPC_MSG_REQUESTED", "SC7_ENTER_REQUESTED",
           "SC7_EXIT_RECEIVED", "LOG_REQUESTED", "FSM_STOP"}
          \cup AnswerEvents \cup AbortEvents

(* DCE_WAIT_*, the indices of ipc_waits. *)
Waits == {"BOOT_COMPLETE", "BOOT_CMD", "ADMIN_IPC", "SC7_ENTER", "LOG"}

(* What every waiting state accepts besides the answer it waits for. *)
AlwaysAccepted == AbortEvents \cup {"FSM_STOP"}

-----------------------------------------------------------------------------
(* Plausible slips in the tables and wait conditions, used only to show    *)
(* that the properties notice them.                                        *)

\* Leaving a wait without consuming the wake call.
Mut_wait_consume(w) ==
    /\ complete[w]
    /\ UNCHANGED complete

\* The answer's event forgets to clear the request's bit.
Mut_requested_after(e, r) ==
    IF e \in {"FSM_START", "SC7_EXIT_RECEIVED"} THEN {}
    ELSE CASE e = "BOOT_COMPLETE_REQUESTED" -> r \cup {"BOOT_COMPLETE"}
           [] e = "BOOT_CMD_MSG_REQUESTED"  -> r \cup {"BOOT_CMD"}
           [] e = "ADMIN_IPC_MSG_REQUESTED" -> r \cup {"ADMIN_IPC"}
           [] e = "SC7_ENTER_REQUESTED"     -> r \cup {"SC7_ENTER"}
           [] e = "LOG_REQUESTED"           -> r \cup {"LOG"}
           [] OTHER -> r

\* The transition of SC7_ENTER_REQUESTED is missing from the switch.
Mut_state_after(e) ==
    CASE e = "BOOT_COMPLETE_REQUESTED" -> "BOOT_WAIT"
      [] e = "BOOT_CMD_MSG_REQUESTED"  -> "BOOTCMD_WFI"
      [] e = "ADMIN_IPC_MSG_REQUESTED" -> "ADMIN_WFI"
      [] e = "SC7_ENTERED_RECEIVED"    -> "SC7_ENTERED"
      [] e = "LOG_REQUESTED"           -> "LOG_READY_WFI"
      [] e = "FSM_STOP"                -> "INVALID"
      [] e \in AbortEvents             -> "ABORT"
      [] OTHER                         -> "FSM_IDLE"

-----------------------------------------------------------------------------
(* dce_fsm_validate_event: may event e be posted in state s?  The ABORT    *)
(* state has no case of its own: it reaches the default branch, which      *)
(* prints "Invalid state" and leaves ret at 0, so everything is accepted.  *)
dce_fsm_validate_event(s, e) ==
    \/ s = "INVALID" /\ e = "FSM_START"
    \/ s = "FSM_IDLE" /\ e \notin AnswerEvents \cup {"FSM_START"}
    \/ s = "BOOT_WAIT" /\ e \in AlwaysAccepted \cup {"BOOT_COMPLETE_RECEIVED", "SC7_ENTER_REQUESTED"}
    \/ s = "BOOTCMD_WFI" /\ e \in AlwaysAccepted \cup {"BOOT_CMD_MSG_RECEIVED", "SC7_ENTER_REQUESTED"}
    \/ s = "ADMIN_WFI" /\ e \in AlwaysAccepted \cup {"ADMIN_IPC_MSG_RECEIVED", "SC7_ENTER_REQUESTED"}
    \/ s = "SC7_ENTER_WFI" /\ e \in AlwaysAccepted \cup {"SC7_ENTERED_RECEIVED"}
    \/ s = "LOG_READY_WFI" /\ e \in AlwaysAccepted \cup {"LOG_READY_RECEIVED", "SC7_ENTER_REQUESTED"}
    \/ s = "SC7_ENTERED" /\ e = "SC7_EXIT_RECEIVED"
    \/ s = "ABORT"

(* The state dce_fsm_set_state enters on event e. *)
StateAfter(e) ==
    CASE e = "BOOT_COMPLETE_REQUESTED" -> "BOOT_WAIT"
      [] e = "BOOT_CMD_MSG_REQUESTED"  -> "BOOTCMD_WFI"
      [] e = "ADMIN_IPC_MSG_REQUESTED" -> "ADMIN_WFI"
      [] e = "SC7_ENTER_REQUESTED"     -> "SC7_ENTER_WFI"
      [] e = "SC7_ENTERED_RECEIVED"    -> "SC7_ENTERED"
      [] e = "LOG_REQUESTED"           -> "LOG_READY_WFI"
      [] e = "FSM_STOP"                -> "INVALID"
      [] e \in AbortEvents             -> "ABORT"
      [] OTHER                         -> "FSM_IDLE"

(* The requested_ipcs bits dce_fsm_set_state leaves set on event e. *)
RequestedAfter(e, r) ==
    IF e \in {"FSM_START", "SC7_EXIT_RECEIVED"} THEN {}
    ELSE CASE e = "BOOT_COMPLETE_REQUESTED" -> r \cup {"BOOT_COMPLETE"}
           [] e = "BOOT_COMPLETE_RECEIVED"  -> r \ {"BOOT_COMPLETE"}
           [] e = "BOOT_CMD_MSG_REQUESTED"  -> r \cup {"BOOT_CMD"}
           [] e = "BOOT_CMD_MSG_RECEIVED"   -> r \ {"BOOT_CMD"}
           [] e = "ADMIN_IPC_MSG_REQUESTED" -> r \cup {"ADMIN_IPC"}
           [] e = "ADMIN_IPC_MSG_RECEIVED"  -> r \ {"ADMIN_IPC"}
           [] e = "SC7_ENTER_REQUESTED"     -> r \cup {"SC7_ENTER"}
           [] e = "SC7_ENTERED_RECEIVED"    -> r \ {"SC7_ENTER"}
           [] e = "LOG_REQUESTED"           -> r \cup {"LOG"}
           [] e = "LOG_READY_RECEIVED"      -> r \ {"LOG"}
           [] OTHER -> r

(* dce_fsm_set_state *)
dce_fsm_set_state(e) ==
    /\ c_state' = StateAfter(e)
    /\ requested_ipcs' = RequestedAfter(e, requested_ipcs)

(* dce_fsm_post_event after a callback that failed: the state saved before *)
(* the post is written back, requested_ipcs is left as it is.              *)
PostRestore(prev_state) ==
    /\ c_state' = prev_state
    /\ UNCHANGED requested_ipcs

(* dce_wakeup_interruptible *)
dce_wakeup_interruptible(w) == complete' = [complete EXCEPT ![w] = TRUE]

(* dce_wait_interruptible past the wait: complete was read as 1 and is set *)
(* to 0, which consumes the wake call.  One step for the read and the      *)
(* store: a wake-up in between finds the flag set and changes nothing, so  *)
(* it may as well come before the read.  Two threads that wait for the     *)
(* same condition could both read 1; here the first takes it.              *)
WaitConsume(w) ==
    /\ complete[w]
    /\ complete' = [complete EXCEPT ![w] = FALSE]

(* dce_cond_wait_reset *)
dce_cond_wait_reset(w) == complete' = [complete EXCEPT ![w] = FALSE]

(* dce_fsm_init and dce_work_cond_sw_resource_init. *)
FsmInit ==
    /\ c_state = "INVALID"
    /\ requested_ipcs = {}
    /\ complete = [w \in Waits |-> FALSE]

FsmTypeOK ==
    /\ c_state \in States
    /\ requested_ipcs \subseteq Waits
    /\ complete \in [Waits -> BOOLEAN]

(* The wait condition a waiting state belongs to. *)
WaitOf(s) ==
    CASE s = "BOOT_WAIT"     -> {"BOOT_COMPLETE"}
      [] s = "BOOTCMD_WFI"   -> {"BOOT_CMD"}
      [] s = "ADMIN_WFI"     -> {"ADMIN_IPC"}
      [] s = "SC7_ENTER_WFI" -> {"SC7_ENTER"}
      [] s = "LOG_READY_WFI" -> {"LOG"}
      [] OTHER               -> {}
=============================================================================
