------------------------------ MODULE Host1xFence ------------------------------
(***************************************************************************)
(* host1x syncpoint fences: drivers/gpu/host1x fence.c, intr.c and         *)
(* hw/intr_hw.c, with the callers that wait for a fence, poll it, give up  *)
(* on it and cancel it (syncpt.c, host1x-fence/dev.c).                     *)
(*                                                                         *)
(* One syncpoint: a counter the hardware increments, the value the driver  *)
(* read last, the threshold interrupt, the list of fences waiting on it    *)
(* and its spinlock.  A fence is reached by three actors at once, the      *)
(* interrupt handler, the timeout work item and its user, each of which    *)
(* holds a reference; who gives back whose reference is decided by the     *)
(* exchange on "signaling".                                                *)
(***************************************************************************)
EXTENDS Integers, Sequences, SequencesExt

CONSTANTS
  Fences,    \* the fence objects (reused after they are freed)
  NoFence,
  Mod,       \* range of the syncpoint counter: 2^32 in the code, small here
  Offsets,   \* thresholds asked for, relative to the value read last
  Backlog    \* how far the hardware may be ahead of the driver

ASSUME ModAssumption == Mod \in Nat /\ Mod > 0 /\ Mod % 2 = 0
ASSUME OffsetsAssumption == Offsets \subseteq 0..(Mod - 1)
ASSUME BacklogAssumption == Backlog \in Nat /\ Backlog < Mod \div 2
\* Thresholds in use at the same time are less than half the range apart.
ASSUME ComparableAssumption == \A k \in Offsets : Backlog + k < Mod \div 2
ASSUME NoFenceAssumption == NoFence \notin Fences

VARIABLES
  value,      \* the hardware counter
  min_val,    \* the value read last
  thresh,     \* the threshold register
  enabled,    \* the threshold interrupt is enabled
  status,     \* its status bit
  list,       \* sp->fences.list, first entry first
  isr,        \* where syncpt_thresh_isr is
  isr_val,    \* the value it loaded
  isr_fence,  \* the fence it is signalling
  fence,      \* the fence objects
  work,       \* work[f]: where the timeout work item of f is
  cb,         \* cb[f]: the callback of the user of f: none, set or running
  user        \* user[f]: where the user of f is

hw == <<value, thresh, enabled, status>>
vars == <<value, min_val, thresh, enabled, status, list, isr, isr_val,
          isr_fence, fence, work, cb, user>>

Freed == [refs |-> 0, threshold |-> 0, timeout |-> FALSE, signaling |-> FALSE,
          signaled |-> FALSE, error |-> FALSE]

--------------------------------------------------------------------------------
(* u32 arithmetic and the signed comparison of two points of the counter. *)

Add(a, k) == (a + k) % Mod
Ahead(a, b) == (a - b + Mod) % Mod
Before(a, b) == Ahead(a, b) >= Mod \div 2     \* (a - b) & 0x80000000

is_expired(f) == ~ Before(min_val, fence[f].threshold)

\* Nobody holds the lock of the list, which is also the lock of its fences.
LockFree ==
  /\ isr \notin {"loop", "signal", "callback"}
  /\ \A g \in Fences : work[g] # "callback"

--------------------------------------------------------------------------------
(* The threshold interrupt (hardware).  The comparator looks at the level:
   enabling it at a threshold already reached raises the status bit. *)

Raise(v, t, e, s) == s \/ (e /\ ~ Before(v, t))

\* The handler has loaded the value it compares with.
HasValue == {"lock", "loop", "signal", "callback"}

\* The hardware runs at most Backlog increments ahead of the last read, of the
\* value the interrupt handler works with, and of the threshold of a fence that
\* is still in memory: values more than half the range apart cannot be compared,
\* and nothing in the driver keeps an engine from getting there.
HwIncrement ==
  /\ Ahead(value, min_val) < Backlog
  /\ isr \in HasValue => Ahead(value, isr_val) < Backlog
  /\ \A f \in Fences :
       fence[f].refs > 0 /\ ~ Before(value, fence[f].threshold)
         => Ahead(value, fence[f].threshold) < Backlog
  /\ value' = Add(value, 1)
  /\ status' = Raise(value', thresh, enabled, status)
  /\ UNCHANGED <<min_val, thresh, enabled, list, isr, isr_val, isr_fence,
                 fence, work, cb, user>>

\* host1x_intr_disable_syncpt_intr: disable the interrupt and clear its status,
\* pending or not.
disable_syncpt_intr ==
  /\ enabled' = FALSE
  /\ status' = FALSE
  /\ UNCHANGED thresh

\* host1x_intr_update_hw_state: the first fence of list l sets the threshold; with
\* no fence left the interrupt is turned off.
update_hw_state(l) ==
  /\ \/ /\ l # <<>>
        /\ thresh' = fence[Head(l)].threshold
        /\ enabled' = TRUE
        /\ status' = Raise(value, thresh', enabled', status)
     \/ /\ l = <<>>
        /\ disable_syncpt_intr
  /\ UNCHANGED value

\* host1x_syncpt_load, called by anyone who wants to know the value.
syncpt_load ==
  /\ min_val' = value
  /\ UNCHANGED <<hw, list, isr, isr_val, isr_fence, fence, work, cb, user>>

--------------------------------------------------------------------------------
(* dma_fence (external): reference counting, signalling. *)

Put(r) == IF r.refs = 1 THEN Freed ELSE [r EXCEPT !.refs = @ - 1]

Signal(r) == [r EXCEPT !.signaled = TRUE]

\* Signalling f runs its callback, if that is still set.
Called(f) == [cb EXCEPT ![f] = IF @ = "set" THEN "running" ELSE @]

--------------------------------------------------------------------------------
(* The user of a fence. *)

\* host1x_fence_create
host1x_fence_create(f, k, t) ==
  /\ user[f] = "none"
  /\ fence[f].refs = 0
  /\ fence' = [fence EXCEPT ![f] =
       [Freed EXCEPT !.refs = 1, !.threshold = Add(min_val, k), !.timeout = t]]
  /\ user' = [user EXCEPT ![f] = "made"]
  /\ UNCHANGED <<hw, min_val, list, isr, isr_val, isr_fence, work, cb>>

\* Plausible slip: the list is kept in order of arrival.
Mut_add_fence_to_list(l, f) == Append(l, f)

\* host1x_intr_add_fence_to_list: after the last fence not behind this one.
add_fence_to_list(l, f) ==
  LET first == {i \in 1..Len(l) : ~ Before(fence[f].threshold, fence[l[i]].threshold)}
  IN  InsertAt(l, IF first = {} THEN 1 ELSE Max(first) + 1, f)

\* The user adds its callback or starts to wait (which adds one too):
\* host1x_syncpt_fence_enable_signaling under the lock.  A fence that has expired
\* already is signalled instead and gets no callback.
enable_signaling(f) ==
  /\ user[f] = "made"
  /\ LockFree
  /\ IF is_expired(f)
       THEN /\ fence' = [fence EXCEPT ![f] = Signal(@)]
            /\ user' = [user EXCEPT ![f] = "done"]
            /\ UNCHANGED <<hw, list, work, cb>>
       ELSE /\ fence' = [fence EXCEPT ![f].refs = @ + (IF fence[f].timeout THEN 2 ELSE 1)]
            /\ work' = [work EXCEPT ![f] = IF fence[f].timeout THEN "armed" ELSE @]
            /\ list' = add_fence_to_list(list, f)
            /\ update_hw_state(list')
            /\ cb' = [cb EXCEPT ![f] = "set"]
            /\ user' = [user EXCEPT ![f] = "wait"]
  /\ UNCHANGED <<min_val, isr, isr_val, isr_fence>>

\* dma_fence_is_signaled: host1x_syncpt_fence_signaled, and signal if so, which
\* runs the callback under the lock before it returns.
IsSignaled(f) ==
  /\ user[f] = "wait"
  /\ LockFree
  /\ ~ fence[f].signaled
  /\ is_expired(f) \/ fence[f].error
  /\ fence' = [fence EXCEPT ![f] = Signal(@)]
  /\ cb' = [cb EXCEPT ![f] = "none"]
  /\ UNCHANGED <<hw, min_val, list, isr, isr_val, isr_fence, work, user>>

\* The user no longer waits, signalled or not: dma_fence_remove_callback, by
\* itself or at the end of dma_fence_wait_timeout.
remove_callback(f) ==
  /\ user[f] = "wait"
  /\ LockFree
  /\ cb' = [cb EXCEPT ![f] = IF @ = "set" THEN "none" ELSE @]
  /\ user' = [user EXCEPT ![f] = "removed"]
  /\ UNCHANGED <<hw, min_val, list, isr, isr_val, isr_fence, fence, work>>

\* host1x_fence_cancel, by users of fences without a timeout.
host1x_fence_cancel(f) ==
  /\ user[f] = "removed"
  /\ ~ fence[f].timeout
  /\ work' = [work EXCEPT ![f] = "armed"]
  /\ user' = [user EXCEPT ![f] = "flush"]
  /\ UNCHANGED <<hw, min_val, list, isr, isr_val, isr_fence, fence, cb>>

\* flush_delayed_work returns.
Flushed(f) ==
  /\ user[f] = "flush"
  /\ work[f] = "off"
  /\ user' = [user EXCEPT ![f] = "cancelled"]
  /\ UNCHANGED <<hw, min_val, list, isr, isr_val, isr_fence, fence, work, cb>>

\* Plausible slip: the lock is not waited for.
Mut_LockUnlock(f) ==
  /\ user[f] = "cancelled"
  /\ user' = [user EXCEPT ![f] = "done"]
  /\ UNCHANGED <<hw, min_val, list, isr, isr_val, isr_fence, fence, work, cb>>

\* The poll file descriptor takes and releases the lock: a handler that took the
\* fence before the cancel has let go of it.
LockUnlock(f) ==
  /\ user[f] = "cancelled"
  /\ LockFree
  /\ user' = [user EXCEPT ![f] = "done"]
  /\ UNCHANGED <<hw, min_val, list, isr, isr_val, isr_fence, fence, work, cb>>

\* The user lets go of its reference, and frees what its callback used: without
\* having waited, after a wait that was not cancelled (the fence was signalled,
\* has a timeout, or a signal broke the wait off), or after a cancel, with
\* (host1x-fence) or without (syncpt.c, nvscic2c-pcie) the barrier of LockUnlock.
UserPut(f) ==
  /\ user[f] \in {"made", "removed", "cancelled", "done"}
  /\ fence' = [fence EXCEPT ![f] = Put(@)]
  /\ user' = [user EXCEPT ![f] = "none"]
  /\ UNCHANGED <<hw, min_val, list, isr, isr_val, isr_fence, work, cb>>

--------------------------------------------------------------------------------
(* do_fence_timeout *)

WorkStart(f) ==
  /\ work[f] = "armed"
  /\ work' = [work EXCEPT ![f] = "run"]
  /\ UNCHANGED <<hw, min_val, list, isr, isr_val, isr_fence, fence, cb, user>>

PutTimeout(r) == IF r.timeout THEN Put(r) ELSE r

WorkExchange(f) ==
  /\ work[f] = "run"
  /\ IF fence[f].signaling
       THEN /\ fence' = [fence EXCEPT ![f] = PutTimeout(@)]
            /\ work' = [work EXCEPT ![f] = "off"]
       ELSE /\ fence' = [fence EXCEPT ![f].signaling = TRUE]
            /\ work' = [work EXCEPT ![f] = "remove"]
  /\ UNCHANGED <<hw, min_val, list, isr, isr_val, isr_fence, cb, user>>

\* host1x_intr_remove_fence, and the interrupt path's reference if it was there.
WorkRemove(f) ==
  /\ work[f] = "remove"
  /\ LockFree
  /\ IF Contains(list, f)
       THEN /\ \E i \in 1..Len(list) : list[i] = f /\ list' = RemoveAt(list, i)
            /\ update_hw_state(list')
            /\ fence' = [fence EXCEPT ![f] = Put(@)]
       ELSE UNCHANGED <<list, hw, fence>>
  /\ work' = [work EXCEPT ![f] = "error"]
  /\ UNCHANGED <<min_val, isr, isr_val, isr_fence, cb, user>>

\* Plausible slip: a timed out fence is signalled without its error.
Mut_WorkError(f) ==
  /\ work[f] = "error"
  /\ work' = [work EXCEPT ![f] = "signal"]
  /\ UNCHANGED <<hw, min_val, list, isr, isr_val, isr_fence, fence, cb, user>>

\* dma_fence_set_error, without the lock.
WorkError(f) ==
  /\ work[f] = "error"
  /\ fence' = [fence EXCEPT ![f].error = TRUE]
  /\ work' = [work EXCEPT ![f] = "signal"]
  /\ UNCHANGED <<hw, min_val, list, isr, isr_val, isr_fence, cb, user>>

\* dma_fence_signal takes the lock and calls back.
WorkSignal(f) ==
  /\ work[f] = "signal"
  /\ LockFree
  /\ fence' = [fence EXCEPT ![f] = Signal(@)]
  /\ cb' = Called(f)
  /\ work' = [work EXCEPT ![f] = "callback"]
  /\ UNCHANGED <<hw, min_val, list, isr, isr_val, isr_fence, user>>

\* The callback returns, and dma_fence_signal with it.
WorkCallback(f) ==
  /\ work[f] = "callback"
  /\ cb' = [cb EXCEPT ![f] = "none"]
  /\ work' = [work EXCEPT ![f] = "put"]
  /\ UNCHANGED <<hw, min_val, list, isr, isr_val, isr_fence, fence, user>>

\* Plausible slip: the timeout path keeps its reference.
Mut_WorkPut(f) ==
  /\ work[f] = "put"
  /\ work' = [work EXCEPT ![f] = "off"]
  /\ UNCHANGED <<hw, min_val, list, isr, isr_val, isr_fence, fence, cb, user>>

WorkPut(f) ==
  /\ work[f] = "put"
  /\ fence' = [fence EXCEPT ![f] = PutTimeout(@)]
  /\ work' = [work EXCEPT ![f] = "off"]
  /\ UNCHANGED <<hw, min_val, list, isr, isr_val, isr_fence, cb, user>>

--------------------------------------------------------------------------------
(* syncpt_thresh_isr and host1x_intr_handle_interrupt *)

\* syncpt_thresh_isr: read the status, then disable what was raised, then clear
\* it.  No lock is held, so the interrupt may be set up anew in between.
IsrStatus ==
  /\ isr = "idle"
  /\ status
  /\ isr' = "disable"
  /\ UNCHANGED <<hw, min_val, list, isr_val, isr_fence, fence, work, cb, user>>

IsrDisable ==
  /\ isr = "disable"
  /\ enabled' = FALSE
  /\ isr' = "clear"
  /\ UNCHANGED <<value, thresh, status, min_val, list, isr_val, isr_fence, fence,
                 work, cb, user>>

IsrClear ==
  /\ isr = "clear"
  /\ status' = FALSE
  /\ isr' = "load"
  /\ UNCHANGED <<value, thresh, enabled, min_val, list, isr_val, isr_fence, fence,
                 work, cb, user>>

\* The value is read before the lock is taken: fences may come and go in between.
IsrLoad ==
  /\ isr = "load"
  /\ min_val' = value
  /\ isr_val' = value
  /\ isr' = "lock"
  /\ UNCHANGED <<hw, list, isr_fence, fence, work, cb, user>>

IsrLock ==
  /\ isr = "lock"
  /\ LockFree
  /\ isr' = "loop"
  /\ UNCHANGED <<hw, min_val, list, isr_val, isr_fence, fence, work, cb, user>>

HeadExpired == list # <<>> /\ ~ Before(isr_val, fence[Head(list)].threshold)

\* host1x_fence_signal up to the exchange: a fence on the timeout path already
\* only loses the interrupt path's reference.
IsrTake ==
  /\ isr = "loop"
  /\ HeadExpired
  /\ list' = Tail(list)
  /\ IF fence[Head(list)].signaling
       THEN /\ fence' = [fence EXCEPT ![Head(list)] = Put(@)]
            /\ UNCHANGED <<isr, isr_fence>>
       ELSE /\ fence' = [fence EXCEPT ![Head(list)].signaling = TRUE]
            /\ isr' = "signal"
            /\ isr_fence' = Head(list)
  /\ UNCHANGED <<hw, min_val, isr_val, work, cb, user>>

\* Plausible slip: the timeout path's reference is dropped although the work
\* item has started and will drop it itself.
Mut_IsrSignal ==
  /\ isr = "signal"
  /\ LET f == isr_fence
     IN  /\ work' = [work EXCEPT ![f] = IF @ = "armed" THEN "off" ELSE @]
         /\ fence' = [fence EXCEPT ![f] = PutTimeout(Signal(@))]
         /\ cb' = Called(f)
  /\ isr' = "callback"
  /\ UNCHANGED <<hw, min_val, list, isr_val, isr_fence, user>>

\* host1x_fence_signal after the exchange: cancel the work item, signal, call back.
IsrSignal ==
  /\ isr = "signal"
  /\ LET f == isr_fence
         cancelled == fence[f].timeout /\ work[f] = "armed"
     IN  /\ work' = [work EXCEPT ![f] = IF cancelled THEN "off" ELSE @]
         /\ fence' = [fence EXCEPT ![f] = IF cancelled THEN Put(Signal(@)) ELSE Signal(@)]
         /\ cb' = Called(f)
  /\ isr' = "callback"
  /\ UNCHANGED <<hw, min_val, list, isr_val, isr_fence, user>>

\* The callback returns; the interrupt path's reference goes.
IsrCallback ==
  /\ isr = "callback"
  /\ cb' = [cb EXCEPT ![isr_fence] = "none"]
  /\ fence' = [fence EXCEPT ![isr_fence] = Put(@)]
  /\ isr' = "loop"
  /\ isr_fence' = NoFence
  /\ UNCHANGED <<hw, min_val, list, isr_val, work, user>>

\* Plausible slip: the interrupt stays disabled after the handler.
Mut_IsrDone ==
  /\ isr = "loop"
  /\ ~ HeadExpired
  /\ isr' = "idle"
  /\ isr_val' = 0
  /\ UNCHANGED <<hw, min_val, list, isr_fence, fence, work, cb, user>>

\* Re-enable the interrupt if necessary.
IsrDone ==
  /\ isr = "loop"
  /\ ~ HeadExpired
  /\ update_hw_state(list)
  /\ isr' = "idle"
  /\ isr_val' = 0
  /\ UNCHANGED <<min_val, list, isr_fence, fence, work, cb, user>>

--------------------------------------------------------------------------------

Init ==
  /\ value = 0 /\ min_val = 0 /\ thresh = 0 /\ enabled = FALSE /\ status = FALSE
  /\ list = <<>>
  /\ isr = "idle" /\ isr_val = 0 /\ isr_fence = NoFence
  /\ fence = [f \in Fences |-> Freed]
  /\ work = [f \in Fences |-> "off"]
  /\ cb = [f \in Fences |-> "none"]
  /\ user = [f \in Fences |-> "none"]

Work(f) ==
  \/ WorkStart(f) \/ WorkExchange(f) \/ WorkRemove(f) \/ WorkError(f)
  \/ WorkSignal(f) \/ WorkCallback(f) \/ WorkPut(f)

Isr ==
  \/ IsrStatus \/ IsrDisable \/ IsrClear
  \/ IsrLoad \/ IsrLock \/ IsrTake \/ IsrSignal \/ IsrCallback \/ IsrDone

User(f) ==
  \/ \E k \in Offsets, t \in BOOLEAN : host1x_fence_create(f, k, t)
  \/ enable_signaling(f) \/ IsSignaled(f) \/ remove_callback(f)
  \/ host1x_fence_cancel(f) \/ Flushed(f) \/ LockUnlock(f) \/ UserPut(f)

Next ==
  \/ HwIncrement \/ syncpt_load \/ Isr
  \/ \E f \in Fences : User(f) \/ Work(f)

Spec == Init /\ [][Next]_vars

--------------------------------------------------------------------------------
(* Properties *)

Workings == {"off", "armed", "run", "remove", "error", "signal", "callback", "put"}
Handling == {"idle", "disable", "clear", "load", "lock", "loop", "signal", "callback"}
Calling == {"none", "set", "running"}
Using == {"none", "made", "wait", "removed", "flush", "cancelled", "done"}

TypeOK ==
  /\ value \in 0..(Mod - 1) /\ min_val \in 0..(Mod - 1)
  /\ thresh \in 0..(Mod - 1) /\ enabled \in BOOLEAN /\ status \in BOOLEAN
  /\ list \in Seq(Fences)
  /\ isr \in Handling
  /\ isr_val \in 0..(Mod - 1) /\ isr_fence \in Fences \cup {NoFence}
  /\ fence \in [Fences -> [refs : Nat, threshold : 0..(Mod - 1), timeout : BOOLEAN,
                           signaling : BOOLEAN, signaled : BOOLEAN, error : BOOLEAN]]
  /\ work \in [Fences -> Workings]
  /\ cb \in [Fences -> Calling]
  /\ user \in [Fences -> Using]

One(b) == IF b THEN 1 ELSE 0

\* The fence has a reference for its user, one for the interrupt path as long as
\* it is in the list or being signalled from there, and one for the timeout path
\* (fences with a timeout) until the work item is cancelled or has run: whoever
\* still reaches the fence holds it, and nobody forgets to let go.
RefsAccounted ==
  \A f \in Fences :
    fence[f].refs =
      One(user[f] # "none") + One(Contains(list, f)) + One(isr_fence = f)
        + One(fence[f].timeout /\ work[f] # "off")

Reached(f) == ~ Before(value, fence[f].threshold)

\* A fence in the list whose threshold has been reached is about to be seen: the
\* interrupt is pending, or its handler has not looked at the list for the last
\* time.
NoMissedFence ==
  (\E i \in 1..Len(list) : Reached(list[i])) => status \/ isr # "idle"

\* A fence that reports success has reached its threshold; only the timeout and
\* cancel path, which sets the error first, signals one that has not.
SignaledMeansReached ==
  \A f \in Fences : fence[f].signaled /\ ~ fence[f].error => Reached(f)

\* What a user may do when it has given up on a fence.  Once it has removed its
\* callback nobody runs or will run it, whoever signals the fence, so that what the
\* callback uses may be freed.  After a cancel no handler will find the fence,
\* whoever won the exchange, and the work item has ended; a handler that found it
\* before may still be about to signal it, until the lock has been taken once more.
CancelIsFinal ==
  \A f \in Fences :
    /\ cb[f] # "none" => user[f] = "wait"
    /\ user[f] \in {"cancelled", "done"} => work[f] = "off" /\ ~ Contains(list, f)
    /\ user[f] = "done" => isr_fence # f

\* The interrupt is taken and its handler runs to the end; the timer of a work
\* item expires and the item runs, although the handler takes the lock now and
\* then; a user that is being let go of its fence lets go.
Fairness ==
  /\ WF_vars(Isr)
  /\ \A f \in Fences : /\ SF_vars(Work(f))
                       /\ WF_vars(Flushed(f) \/ UserPut(f))

FairSpec == Spec /\ Fairness

\* A fence in the list whose threshold is reached gets signalled, in whatever
\* order the interrupt, the timeout and the user's own check come.
ReachedIsSignaled ==
  \A f \in Fences :
    (Contains(list, f) /\ Reached(f)) ~> (fence[f].signaled \/ fence[f].refs = 0)

\* A fence with a timeout is let go of by everyone once its user has, whether
\* or not the threshold is ever reached.
TimeoutFreesFence ==
  \A f \in Fences :
    (fence[f].timeout /\ user[f] = "none") ~> (fence[f].refs = 0)
================================================================================
