------------------------------- MODULE Host1xCdma -------------------------------
(***************************************************************************)
(* The command DMA of one host1x channel: drivers/gpu/host1x cdma.c,       *)
(* hw/cdma_hw.c, channel_submit of hw/channel_hw.c and job_free of job.c.  *)
(*                                                                         *)
(* Jobs are written to a ring of slots (the push buffer), fetched by the   *)
(* hardware between DMAGET and DMAPUT and kept in the sync queue until     *)
(* their syncpoint says they are done.  Four actors share the channel      *)
(* under cdma->lock: the submitter (one at a time, submitlock), the update *)
(* work item, the timeout work item and cdma_stop.  The submitter gives up *)
(* the lock in the middle of a job when the ring is full.                  *)
(***************************************************************************)
EXTENDS Integers, Sequences, FiniteSetsExt

CONSTANTS
  Jobs,           \* the jobs user space will submit, each once
  NoJob,
  Syncpts,        \* the syncpoints of the channel's clients
  SyncptOf,       \* SyncptOf[j]: job->syncpt
  Program,        \* Program[j][k]: slots of the k-th push of j, 1 or 2 (wide)
  Recovery,       \* the jobs with syncpt_recovery set
  Slots,          \* HOST1X_PUSHBUFFER_SLOTS
  Builds,         \* the builds: TRUE for HOST1X_HW >= 6
  Mod,            \* range of the syncpoint counters: 2^32 in the code
  Base            \* value of the counters before the first job

ASSUME JobsAssumption == NoJob \notin Jobs /\ Recovery \subseteq Jobs
ASSUME SyncptOfAssumption == SyncptOf \in [Jobs -> Syncpts]
ASSUME SlotsAssumption == Slots \in Nat /\ Slots > 1
ASSUME ModAssumption == Mod \in Nat /\ Mod > 0 /\ Mod % 2 = 0 /\ Base \in 0..(Mod - 1)
ASSUME ProgramAssumption == \A j \in Jobs : Program[j] \in Seq({1, 2}) /\ Len(Program[j]) >= 3
\* A job that does not fit into the empty ring waits for itself.
ASSUME RingAssumption ==
  \A j \in Jobs : MapThenSumSet(LAMBDA k : Program[j][k], DOMAIN Program[j]) + 1 < Slots
ASSUME BuildsAssumption == Builds \subseteq BOOLEAN

VARIABLES
  hw6,       \* HOST1X_HW >= 6: an increment of its own follows the work
  ring,      \* ring[p]: <<j, k>>, slot p holds push k of job j
  pos,       \* push_buffer.pos
  fence,     \* push_buffer.fence, the slot before the first one in use
  last_pos,  \* cdma->last_pos, which is also DMAPUT
  get,       \* DMAGET
  busy,      \* the job whose work the engine is executing
  value,     \* value[s]: the hardware counter of syncpoint s
  min_val,   \* min_val[s]: the value read last
  max_val,   \* max_val[s]: the value once all submitted work is done
  locked,    \* sp->locked
  running,   \* cdma->running
  queue,     \* cdma->sync_queue
  job,       \* the struct host1x_job of each job
  sub,       \* channel_submit: where it is, with cdma->first_get, slots_free, slots_used
  stop,      \* where cdma_stop is
  event,     \* cdma->event
  complete,  \* cdma->complete: completions not consumed yet
  client,    \* timeout.client, as the job the timer was started for
  armed,     \* the delayed work timeout.wq is pending
  handler,   \* where cdma_timeout_handler is
  update,    \* update_work is scheduled
  wedged     \* the update never returns from job_free

hw == <<get, busy, value>>
timer == <<client, armed>>
waiting == <<event, complete>>
vars == <<hw6, ring, pos, fence, last_pos, get, busy, value, min_val, max_val,
          locked, running, queue, job, sub, stop, event, complete, client,
          armed, handler, update, wedged>>

--------------------------------------------------------------------------------
(* Counters and ring positions. *)

Add(a, k) == (a + k) % Mod
\* host1x_syncpt_is_expired: a is not before b.
Reached(a, b) == (a - b + Mod) % Mod < Mod \div 2

Step(p, n) == (p + n) % Slots
\* host1x_pushbuffer_space
space == (fence - pos + Slots) % Slots

\* The push that starts the engine, the one that increments once it is idle.
\* The user's increments are taken to be in the last of its commands.
WorkAt(j) == IF hw6 THEN Len(Program[j]) - 2 ELSE Len(Program[j])
TailAt(j) == Len(Program[j]) - 1

\* cdma->lock is held by a submitter that pushes and by a tearing handler.
LockFree == sub.pc # "push" /\ handler # "held" /\ ~ wedged

Idle == [pc |-> "idle", j |-> NoJob, k |-> 1, first_get |-> 0, free |-> 0, used |-> 0]
New == [st |-> "new", first_get |-> 0, num_slots |-> 0, syncpt_end |-> 0,
        thresh |-> 0, cancelled |-> FALSE, timeout |-> TRUE, cb |-> "none"]

Init ==
  /\ hw6 \in Builds
  /\ ring = [p \in 0..(Slots - 1) |-> <<NoJob, 0>>]
  /\ pos = 0 /\ fence = Slots - 1 /\ last_pos = 0
  /\ get = 0 /\ busy = NoJob
  /\ value = [s \in Syncpts |-> Base]
  /\ min_val = value /\ max_val = value
  /\ locked = [s \in Syncpts |-> FALSE]
  /\ running = FALSE
  /\ queue = <<>>
  /\ job = [j \in Jobs |-> New]
  /\ sub = Idle /\ stop = "idle"
  /\ event = "NONE" /\ complete = 0
  /\ client = NoJob /\ armed = FALSE /\ handler = "idle"
  /\ update = FALSE /\ wedged = FALSE

--------------------------------------------------------------------------------
(* channel_submit *)

\* host1x_cdma_begin: a locked syncpoint is refused, an idle DMA started.
host1x_cdma_begin(j) ==
  /\ sub.pc = "idle" /\ job[j].st = "new" /\ LockFree
  /\ IF locked[SyncptOf[j]]
     THEN /\ job' = [job EXCEPT ![j].st = "refused"]
          /\ UNCHANGED <<sub, running, last_pos, get>>
     ELSE /\ job' = [job EXCEPT ![j].st = "pushing"]
          /\ sub' = [Idle EXCEPT !.pc = "push", !.j = j, !.first_get = pos]
          /\ running' = TRUE
          /\ last_pos' = IF running THEN last_pos ELSE pos
          /\ get' = IF running THEN get ELSE pos
  /\ UNCHANGED <<hw6, ring, pos, fence, busy, value, min_val, max_val, locked, queue,
                 stop, waiting, timer, handler, update, wedged>>

\* A wide push is not split across the end of the ring: a RESTART pads it.
Width == Program[sub.j][sub.k]
Padding == IF Width = 2 /\ pos + 2 > Slots THEN 1 ELSE 0
Needed == Width + Padding
\* Plausible slip: the slot kept free to tell full from empty is counted as space.
Mut_HaveSpace == (Width = 1 /\ sub.free > 0) \/ space + 1 >= Needed
\* host1x_cdma_push trusts slots_free, host1x_cdma_push_wide reads the ring.
HaveSpace == (Width = 1 /\ sub.free > 0) \/ space >= Needed

\* host1x_cdma_push, host1x_cdma_push_wide with room in the ring.
Push ==
  /\ sub.pc = "push" /\ sub.k <= Len(Program[sub.j]) /\ HaveSpace
  /\ LET avail == IF Width = 1 /\ sub.free > 0 THEN sub.free ELSE space
         at(i) == Step(pos, Padding + i)
     IN /\ sub' = [sub EXCEPT !.k = @ + 1, !.free = avail - Needed, !.used = @ + Needed]
        /\ ring' = [p \in DOMAIN ring |->
                      CASE p = at(0) -> <<sub.j, sub.k>>
                        [] p # at(0) /\ Width = 2 /\ p = at(1) -> <<sub.j, 0>>
                        [] p # at(0) /\ Padding = 1 /\ p = pos -> <<NoJob, 0>>
                        [] OTHER -> ring[p]]
  /\ pos' = Step(pos, Needed)
  /\ last_pos' = IF Width = 1 /\ sub.free = 0 THEN pos ELSE last_pos
  /\ UNCHANGED <<hw6, fence, hw, min_val, max_val, locked, running, queue, job, stop,
                 waiting, timer, handler, update, wedged>>

\* The ring is full: flush what was pushed, give up the lock and sleep, or
\* yield when cdma_stop is the one waiting for the event.
PushWaits ==
  /\ sub.pc = "push" /\ sub.k <= Len(Program[sub.j]) /\ ~ HaveSpace
  /\ last_pos' = pos
  /\ IF event = "NONE"
     THEN event' = "SPACE" /\ sub' = [sub EXCEPT !.pc = "sleep"]
     ELSE sub' = [sub EXCEPT !.pc = "yield"] /\ UNCHANGED event
  /\ UNCHANGED <<hw6, ring, pos, fence, hw, min_val, max_val, locked, running, queue,
                 job, stop, complete, timer, handler, update, wedged>>

\* wait_for_completion returned, or schedule() did, and the lock is free.
PushWakes ==
  /\ LockFree
  /\ \/ sub.pc = "sleep" /\ complete > 0 /\ complete' = complete - 1
     \/ sub.pc = "yield" /\ UNCHANGED complete
  /\ sub' = [sub EXCEPT !.pc = "push"]
  /\ UNCHANGED <<hw6, ring, pos, fence, last_pos, hw, min_val, max_val, locked, running,
                 queue, job, stop, event, timer, handler, update, wedged>>

\* Values of the syncpoint at the end of the job and of its submit fence:
\* syncpt_end leaves out the increment that follows the work.
SyncptEnd(s) == Add(max_val[s], 1)
\* Plausible slip: on older hardware the fence waits for the value before the job.
Mut_FenceValue(s) == IF hw6 THEN Add(SyncptEnd(s), 1) ELSE max_val[s]
FenceValue(s) == IF hw6 THEN Add(SyncptEnd(s), 1) ELSE SyncptEnd(s)

\* The rest of channel_submit: the fence with its callback, then
\* host1x_cdma_end: flush, append to the sync queue, start the idle timer.
\* A fence found signalled takes no callback (-ENOENT): update at once.
\* max_val is raised here in one go (nobody else reads it before), without the
\* first idle increment of HOST1X_HW >= 6.  Left out: a fence that cannot be
\* allocated, and jobs without a timeout.
host1x_cdma_end ==
  LET j == sub.j
      s == SyncptOf[j]
      late == Reached(min_val[s], FenceValue(s))
      idle == queue = <<>> /\ client = NoJob
  IN /\ sub.pc = "push" /\ sub.k > Len(Program[j])
     /\ max_val' = [max_val EXCEPT ![s] = FenceValue(s)]
     /\ job' = [job EXCEPT ![j] = [@ EXCEPT !.st = "queued", !.first_get = sub.first_get,
                                            !.num_slots = sub.used, !.syncpt_end = SyncptEnd(s),
                                            !.thresh = FenceValue(s),
                                            !.cb = IF late THEN "late" ELSE "armed"]]
     /\ last_pos' = pos
     /\ queue' = Append(queue, j)
     /\ client' = IF idle THEN j ELSE client
     /\ armed' = (idle \/ armed)
     /\ update' = (update \/ late)
     /\ sub' = Idle
     /\ UNCHANGED <<hw6, ring, pos, fence, hw, min_val, locked, running, stop, waiting,
                    handler, wedged>>

--------------------------------------------------------------------------------
(* update_cdma_locked, with the jobs as jb and the counters as mv. *)

Done(jb, mv, j) == jb[j].cancelled \/ Reached(mv[SyncptOf[j]], jb[j].syncpt_end)

\* How many jobs the walk removes before it meets one that is pending.
Finished(jb, mv) ==
  CHOOSE n \in 0..Len(queue) : /\ \A i \in 1..n : Done(jb, mv, queue[i])
                               /\ n < Len(queue) => ~ Done(jb, mv, queue[n + 1])

\* The walk stops the timer with every job it removes and starts it for the
\* pending job it stops at.
\* Plausible slip: the timer is only started when none is set, not after a removal.
Mut_TimerStarts(jb, n, rest) == rest # <<>> /\ jb[rest[1]].timeout /\ client = NoJob
TimerStarts(jb, n, rest) == rest # <<>> /\ jb[rest[1]].timeout /\ (n > 0 \/ client = NoJob)

\* Plausible slip: removing a job does not wake the submitter.
Mut_WakesSpace(n) == FALSE
WakesSpace(n) == n > 0 /\ event = "SPACE"
\* Plausible slip: emptying the queue does not wake cdma_stop.
Mut_WakesEmpty(rest) == FALSE
WakesEmpty(rest) == rest = <<>> /\ event = "EMPTY"

\* FirstSlots(q, jb)[i]: what host1x_pushbuffer_pop returns to the ring in
\* all for the first i jobs of q.
FirstSlots(q, jb) ==
  LET slots[i \in 0..Len(q)] == IF i = 0 THEN 0 ELSE slots[i - 1] + jb[q[i]].num_slots
  IN slots

update_cdma_locked(jb, mv) ==
  LET n == Finished(jb, mv)
      gone == {queue[i] : i \in 1..n}
      rest == SubSeq(queue, n + 1, Len(queue))
      start == TimerStarts(jb, n, rest)
      signal == WakesSpace(n) \/ WakesEmpty(rest)
  IN /\ queue' = rest
     /\ fence' = Step(fence, FirstSlots(queue, jb)[n])
     /\ client' = IF start THEN rest[1] ELSE IF n > 0 THEN NoJob ELSE client
     /\ armed' = IF start THEN TRUE ELSE IF n > 0 THEN FALSE ELSE armed
     /\ job' = [j \in Jobs |-> IF j \notin gone THEN jb[j]
                               ELSE [New EXCEPT !.st = "done"]]
     \* job_free waits for a callback that was never added.
     /\ wedged' = \E j \in gone : jb[j].cb = "late"
     /\ event' = IF signal THEN "NONE" ELSE event
     /\ complete' = IF signal THEN complete + 1 ELSE complete

cdma_update_work ==
  /\ update /\ LockFree
  /\ update' = FALSE
  /\ update_cdma_locked(job, min_val)
  /\ UNCHANGED <<hw6, ring, pos, last_pos, hw, min_val, max_val, locked, running, sub,
                 stop, handler>>

\* The submit fence of j signals: job_complete_callback schedules the update.
\* The interrupt handler read the syncpoint before it signalled the fence.
\* The 30 s timeout of the fence comes after the 10 s timer of the channel
\* has dealt with the job.
job_complete_callback(j) ==
  LET s == SyncptOf[j]
  IN /\ job[j].cb = "armed"
     /\ \/ Reached(value[s], job[j].thresh) /\ min_val' = [min_val EXCEPT ![s] = value[s]]
        \/ Done(job, min_val, j) /\ UNCHANGED min_val
     /\ job' = [job EXCEPT ![j].cb = "fired"]
     /\ update' = TRUE
     /\ UNCHANGED <<hw6, ring, pos, fence, last_pos, hw, max_val, locked, running, queue,
                    sub, stop, waiting, timer, handler, wedged>>

--------------------------------------------------------------------------------
(* cdma_stop: wait for the empty queue, then stop the DMA. *)

cdma_stop ==
  /\ stop \in {"idle", "yield"} /\ LockFree
  /\ IF ~ running \/ queue = <<>>
     THEN stop' = "done" /\ running' = FALSE /\ UNCHANGED event
     ELSE /\ UNCHANGED running
          /\ IF event = "NONE" THEN event' = "EMPTY" /\ stop' = "sleep"
                               ELSE stop' = "yield" /\ UNCHANGED event
  /\ UNCHANGED <<hw6, ring, pos, fence, last_pos, hw, min_val, max_val, locked, queue,
                 job, sub, complete, timer, handler, update, wedged>>

StopWakes ==
  /\ stop = "sleep" /\ complete > 0 /\ LockFree
  /\ complete' = complete - 1
  /\ stop' = "yield"
  /\ UNCHANGED <<hw6, ring, pos, fence, last_pos, hw, min_val, max_val, locked, running,
                 queue, job, sub, event, timer, handler, update, wedged>>

--------------------------------------------------------------------------------
(* The timeout of the job at the head of the queue. *)

\* The delay is over: the work item starts, before it takes the lock.
TimerExpires ==
  /\ armed /\ handler = "idle"
  /\ armed' = FALSE /\ handler' = "start"
  /\ UNCHANGED <<hw6, ring, pos, fence, last_pos, hw, min_val, max_val, locked, running,
                 queue, job, sub, stop, waiting, client, update, wedged>>

\* cdma_timeout_handler up to its decision, with the command processor
\* stopped; the engine may still finish what it executes.
cdma_timeout_handler ==
  /\ handler = "start" /\ LockFree
  /\ IF client = NoJob
     THEN handler' = "idle" /\ UNCHANGED min_val
     ELSE LET s == SyncptOf[client]
          IN /\ min_val' = [min_val EXCEPT ![s] = value[s]]
             /\ handler' = IF Reached(value[s], job[client].syncpt_end)
                           THEN "idle" ELSE "held"
  /\ UNCHANGED <<hw6, ring, pos, fence, last_pos, hw, max_val, locked, running, queue,
                 job, sub, stop, waiting, timer, update, wedged>>

\* The first job of the queue that the value does not cover, or 0.  The
\* comparison is the plain one of two u32.
FirstPending(val) ==
  LET pending == {i \in 1..Len(queue) : val < job[queue[i]].syncpt_end}
  IN IF pending = {} THEN 0 ELSE Min(pending)

\* The later jobs on the syncpoint of the failed one are cancelled too.
Cancelled(i) == {queue[i]} \union {queue[k] : k \in {l \in (i + 1)..Len(queue) :
                                      SyncptOf[queue[l]] = SyncptOf[queue[i]]}}
SlotsOf(j) == {Step(job[j].first_get, i) : i \in 0..(job[j].num_slots - 1)}

\* cdma_freeze, host1x_cdma_update_sync_queue and cdma_resume: DMAGET goes to
\* the job after the failed one, or to DMAPUT.  The CPU's increments are not
\* refused: min_val, loaded before, is behind the end of the timed job, so the
\* syncpoint does not count as idle.
host1x_cdma_update_sync_queue ==
  LET s == SyncptOf[client]
      val == value[s]
      i == FirstPending(val)
      failed == IF i = 0 THEN NoJob ELSE queue[i]
      recover == i # 0 /\ failed \in Recovery
      cancel == IF i = 0 \/ recover THEN {} ELSE Cancelled(i)
      nops == UNION {SlotsOf(j) : j \in cancel \ {failed}}
      jb == [j \in Jobs |-> [job[j] EXCEPT !.cancelled = @ \/ j \in cancel,
                                           !.timeout = @ /\ ~ (recover /\ j = failed)]]
      mv == [min_val EXCEPT ![s] = IF recover THEN Add(val, job[failed].syncpt_end - val)
                                              ELSE val]
  IN /\ handler = "held"
     /\ handler' = "idle"
     /\ get' = IF i # 0 /\ i < Len(queue) THEN job[queue[i + 1]].first_get ELSE last_pos
     /\ busy' = NoJob
     /\ last_pos' = pos
     /\ running' = TRUE
     /\ min_val' = mv
     /\ value' = [value EXCEPT ![s] = mv[s]]
     /\ ring' = [p \in DOMAIN ring |-> IF p \in nops THEN <<NoJob, 0>> ELSE ring[p]]
     /\ locked' = IF cancel = {} THEN locked ELSE [locked EXCEPT ![SyncptOf[failed]] = TRUE]
     /\ IF cancel = {}
        THEN job' = jb /\ UNCHANGED <<queue, fence, timer, waiting, wedged>>
        ELSE update_cdma_locked(jb, mv)
     /\ UNCHANGED <<hw6, pos, max_val, sub, stop, update>>

--------------------------------------------------------------------------------
(* External: the command DMA, the engine and its syncpoint increments. *)

Fetch ==
  LET j == ring[get][1]
      k == ring[get][2]
      tail == j # NoJob /\ hw6 /\ k = TailAt(j)
      work == j # NoJob /\ k = WorkAt(j)
  IN /\ running /\ handler # "held" /\ get # last_pos
     /\ tail \/ work => busy = NoJob
     /\ get' = Step(get, 1)
     /\ busy' = IF work THEN j ELSE busy
     /\ value' = IF tail THEN [value EXCEPT ![SyncptOf[j]] = Add(@, 1)] ELSE value
     /\ UNCHANGED <<hw6, ring, pos, fence, last_pos, min_val, max_val, locked, running,
                    queue, job, sub, stop, waiting, timer, handler, update, wedged>>

EngineDone ==
  /\ busy # NoJob
  /\ busy' = NoJob
  /\ value' = [value EXCEPT ![SyncptOf[busy]] = Add(@, 1)]
  /\ UNCHANGED <<hw6, ring, pos, fence, last_pos, get, min_val, max_val, locked, running,
                 queue, job, sub, stop, waiting, timer, handler, update, wedged>>

--------------------------------------------------------------------------------
Next ==
  \/ \E j \in Jobs : host1x_cdma_begin(j) \/ job_complete_callback(j)
  \/ Push \/ PushWaits \/ PushWakes \/ host1x_cdma_end
  \/ cdma_update_work \/ cdma_stop \/ StopWakes
  \/ TimerExpires \/ cdma_timeout_handler \/ host1x_cdma_update_sync_queue
  \/ Fetch \/ EngineDone

Spec == Init /\ [][Next]_vars

\* The driver's threads run and the timer expires; the engine may hang and
\* user space may stop submitting.
FairSpec ==
  /\ Spec
  /\ WF_vars(Push \/ PushWaits \/ host1x_cdma_end) /\ SF_vars(PushWakes)
  /\ WF_vars(\E j \in Jobs : job_complete_callback(j)) /\ SF_vars(cdma_update_work)
  /\ SF_vars((cdma_stop /\ stop = "yield") \/ StopWakes)
  /\ WF_vars(TimerExpires \/ host1x_cdma_update_sync_queue) /\ SF_vars(cdma_timeout_handler)

TypeOK ==
  /\ pos \in 0..(Slots - 1) /\ fence \in 0..(Slots - 1)
  /\ last_pos \in 0..(Slots - 1) /\ get \in 0..(Slots - 1)
  /\ busy \in Jobs \union {NoJob} /\ client \in Jobs \union {NoJob}
  /\ value \in [Syncpts -> 0..(Mod - 1)] /\ min_val \in [Syncpts -> 0..(Mod - 1)]
  /\ max_val \in [Syncpts -> 0..(Mod - 1)]
  /\ queue \in Seq(Jobs)
  /\ sub.pc \in {"idle", "push", "sleep", "yield"}
  /\ stop \in {"idle", "yield", "sleep", "done"}
  /\ event \in {"NONE", "SPACE", "EMPTY"} /\ complete \in Nat
  /\ handler \in {"idle", "start", "held"}

\* The ring is paid for: the slots between fence and pos are exactly those
\* of the queued jobs, back to back in queue order, followed by those the
\* submitter has pushed so far, and never lap the ring.
RingAccounted ==
  LET used == FirstSlots(queue, job)
      at(i) == Step(fence, 1 + used[i - 1])
      n == Len(queue)
  IN /\ \A i \in 1..n : job[queue[i]].first_get = at(i)
     /\ sub.pc # "idle" => sub.first_get = at(n + 1)
     /\ pos = Step(at(n + 1), sub.used)
     /\ used[n] + sub.used < Slots

\* A job that hangs is noticed: while jobs are queued the timer is set for
\* the first of them, and unless that job is done it is ticking or its
\* handler is on the way.
HeadIsTimed ==
  /\ queue = <<>> => client = NoJob /\ ~ armed
  /\ queue # <<>> /\ job[queue[1]].timeout => client = queue[1]
  /\ queue # <<>> => \/ armed \/ handler # "idle"
                     \/ Reached(value[SyncptOf[queue[1]]], job[queue[1]].syncpt_end)

\* A submitter that gave up the lock for want of space gets on, whatever the
\* engine does: no wake-up of host1x_cdma_wait_locked is lost, although two
\* waiters share one event and one completion.
SubmitEnds == (sub.pc # "idle") ~> (sub.pc = "idle" \/ wedged)

\* cdma_stop returns once the queue drained, whatever the engine does.
StopEnds == (stop \in {"yield", "sleep"}) ~> (stop = "done" \/ wedged)

\* "Create fence before submitting job to HW to avoid job completing before
\* the fence is set up" (channel_submit): no fence is found signalled when
\* its callback is added, which job_free would wait for.
FenceSetUpFirst == \A j \in Jobs : job[j].cb # "late"

\* That holds of the hardware whose work is in the last push of the job: a
\* flush for want of space shows every push but the last one.
OldFenceSetUpFirst == ~ hw6 => FenceSetUpFirst /\ ~ wedged
================================================================================
