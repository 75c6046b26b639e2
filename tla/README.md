# TLA+ models of the Tegra out-of-tree drivers

This directory holds TLA+ specifications of concurrent protocols in the
repository's own drivers, TLC configurations that check them on small
instances, and TLAPS proofs for all instances. It covers the driver of the
**Display Controller Engine** (DCE, `drivers/platform/tegra/dce`), the **IVC**
transport between processors (`drivers/platform/tegra/tegra-ivc.c`), and the
fences and the command DMA of **host1x** (`drivers/gpu/host1x`).

    tlc -config boot_safety.cfg MCDceBoot      # any run of PROJECT.json
    tlapm DceBoot_proofs.tla                   # any *_proofs module

## 1. Inventory of the repository

The repository is a collection of Linux kernel modules for Tegra SoCs. About
two thirds of its 1.4 million lines are vendored network and Bluetooth drivers
(rtl8822ce alone is 900,000 lines). What remains falls into four kinds.

| Part | State it keeps | Hard behaviour | Here |
|---|---|---|---|
| `platform/tegra/dce` | boot status, FSM, wait flags, mailboxes, IVC channels, clients | two workers, PM core, debugfs users, threaded IRQ and firmware share one FSM and one wait condition per kind | `DceFsm`, `DceBoot`, `DceAsync` |
| `gpu/host1x`, `host1x-fence`, `host1x-nvhost` | syncpoint shadows, fence lists, push buffers, job queues | fence signalling against threshold interrupts and timeouts; push-buffer reclaim; channel timeout recovery | `Host1xFence`, `Host1xCdma` |
| `video/tegra/nvmap` | handles, references, dma-buf attachments | reference counts under concurrent free, duplicate and unmap | candidate |
| `misc/nvscic2c-pcie` | endpoint and link state, in-flight transfers | link loss against open endpoints, eDMA errors | candidate |
| `platform/tegra/rtcpu`, `media` | capture-IVC worker, HSP command protocol | callbacks during teardown, suspend | candidate |
| `video/tegra/tsec` | message queues and callbacks | one outstanding command against late replies | candidate |
| `platform/tegra/tegra-ivc.c` | counters, positions and reset handshake in shared memory | both ends reset at once, reboot of one end, notifications only on transitions | `Ivc`, shown to implement `IvcFifo` |
| `virt`, `block`, `scsi`, `nv-virtio`, `mtd` | IVC request tables | server restarts | after IVC |
| `gpu/drm/tegra`, `video/tegra/host`, `camera`, `dc`, `virt` | jobs on host1x, registers | as host1x | after host1x |
| `nvadsp`, `aon`, `psc`, `mce`, `mc-utils`, `uncore_pmu` | mailboxes, counters | little | no |
| `net/ethernet/nvidia`, `net/can`, `crypto` | hardware rings | vendor cores | no |
| board drivers (clk, gpio, hwmon, pinctrl, regulator, rtc, spi, usb, thermal, watchdog, ...), `sound` | registers, tables | little | no |
| vendored wifi, ethernet, bluetooth, serial | - | third-party | no |
| conftest scripts, device tree, tools | - | build time | no |

### The DCE driver

The CPU complex and the DCE firmware talk through four mailboxes and three IVC
channels in shared memory. Parts and operations:

* **FSM** (`dce-fsm.c`): current state and request bits under a mutex.
  `dce_fsm_post_event` validates an event, sets the new state, *releases the
  mutex*, runs the event's callback and, if the callback fails, writes the old
  state back. A request event's callback may sleep for the answer.
* **Waits** (`dce-worker.c`): five conditions, each with one `complete` flag.
  Sleeping is interruptible, without a timeout.
* **Bootstrap** (`dce-bootstrap.c`): waits for the firmware, sends fifteen
  boot commands one at a time, resets the admin channel, runs the admin
  sequence. Executed by the bootstrap work item and again by the resume work
  item.
* **Mailboxes** (`dce-mailbox.c`): `dce_mailbox_isr` samples the sources once
  and handles each interface in turn; a status is stored in one slot that the
  waiter reads later.
* **Admin channel** (`dce-admin.c`, `dce-ipc.c`, `dce-admin-debug.c`): a
  synchronous RPC (post the event, write a frame, wait, read a frame) used by
  the boot sequence, by suspend and by debugfs users.
* **Power management** (`dce-pm.c`): PREPARE_SC7 and ENTER_SC7, then a power
  cycle, then SC7_EXIT and the resume work.
* **Client events** (`dce-client-ipc.c`): the firmware's events are drained by
  one of eight work items queued by the interrupt handler.

What makes it correct: an answer reaches the request it belongs to; nobody
sleeps for an answer that cannot come; the FSM still accepts the answer a
sleeper waits for; the system only powers off when the firmware has saved its
state; the "boot done" flag means a firmware that was booted since the last
power-up; no event of the firmware is left in a channel unseen.
`PROJECT.json` lists the places where this can go wrong under `hazards`.

### The IVC transport

Two ends share a ring per direction, each with a write counter owned by its
sender, a read counter owned by its receiver, and the sender's handshake
state. Operations: read and write a frame (in one call, or as get-next-frame
and advance), reset, handle a notification, resynchronise after a reboot. A
frame is announced by a doorbell only when the ring was empty, a free slot
only when it was full. What makes it correct: frames arrive once, whole and in
order; a reset never takes counters from under a peer that is using them; no
end sleeps on something it was not told of; both ends get established again.

### host1x

* **Fences** (`fence.c`, `intr.c`, `hw/intr_hw.c`): a fence waits in a sorted
  list for a syncpoint to reach its threshold. It is signalled by the
  threshold interrupt, by its 30 s timeout, by a cancellation, or by a user
  that looks at it; an atomic exchange decides between the first three, and
  each path holds a reference of its own. What makes it correct: nobody uses
  a freed fence and none is kept for ever; a reached threshold is never
  missed; success is never reported early; no callback runs for a user that
  gave up, and after a cancel and its barrier the interrupt path is done with
  the fence.
* **Command DMA** (`cdma.c`, `hw/cdma_hw.c`, `channel_submit`): jobs are
  written to a ring, fetched by the hardware and kept in a queue until their
  syncpoint says so. The submitter gives up the lock in the middle of a job
  when the ring is full; an update work item frees finished jobs; a timeout
  work item cancels a job that hangs, or completes it by hand, and restarts
  the DMA; a stop waits for the empty queue. What makes it correct: the ring's
  books balance; the oldest job is always being timed; nobody who waits for
  space or for the empty queue is forgotten, however badly the engine behaves.

## 2. Modules

| Module | Models |
|---|---|
| `DceFsm` | the FSM's tables and the wait conditions, as operators and three variables |
| `DceBoot` | all threads of boot, admin RPC, suspend and resume, the interrupt handler, the firmware; EXTENDS `DceFsm` |
| `MCDceBoot` | `DceBoot` for TLC, with the symmetry of the users |
| `DceBoot_proofs` | type correctness and the safety of suspend |
| `DceFlow_proofs` | the boot flow: boot commands, admin requests, the boot-done flag; EXTENDS `DceBoot_proofs` |
| `DceAnswers_proofs` | statuses, errors, channels and SC7_ENTERED; with one user, the exchanges of requests and answers; EXTENDS `DceFlow_proofs` |
| `DceAsync` | delivery of client events by N work items |
| `MCDceAsync` | `DceAsync` for TLC |
| `DceAsync_proofs` | type correctness, accounting of work items, no lost event |
| `IvcFifo` | what the IVC transport promises: two bounded FIFOs and their reset |
| `Ivc` | the transport, one load or store at a time |
| `MCIvc` | `Ivc` for TLC |
| `Ivc_proofs` | type correctness, counters not cleared while in use, checks that hold until the advance, no lost wake-up |
| `IvcFifo_proofs` | `Ivc` implements `IvcFifo`, step by step; EXTENDS `Ivc_proofs` |
| `Host1xFence` | fences of one syncpoint, with interrupt, timeout, cancel and poll |
| `MCHost1xFence` | `Host1xFence` for TLC, with the symmetry of the fences |
| `Host1xFence_proofs` | its safety invariants, for any number of fences |
| `Host1xCdma` | one channel: submitter, update, timeout, stop, DMA and engine |
| `MCHost1xCdma` | `Host1xCdma` for TLC: the jobs and their syncpoints |
| `Host1xCdma_proofs` | the accounting of the ring and the timer of the oldest job |

### DceFsm and DceBoot

A thread is an element of `Threads` with a program counter; a label is a point
between two steps where another thread can interfere. `Post(t, e, yes, no)` is
the locked part of `dce_fsm_post_event`; the callback is the sequence of
labels after `yes`; a failing callback ends in `PostRestore(prev[t])`. So the
window between the state change and the callback, and the one between the
answer's event and the waiter reading the answer, are both there.

| State | Code |
|---|---|
| `c_state`, `requested_ipcs`, `complete` | `fsm_info`, `ipc_waits[].complete` |
| `boot_status` | the flags of `d->boot_status`, as a set |
| `cmd_mb`, `irq_mb`, `adm_mb`, `ack`, `mb_locked`, `ie`, `hsp_ie` | mailbox registers, the status slot with its `valid` bit, the interface mutex when it is left locked, interrupt enables and their saved copy |
| `tx`, `rx`, `ch` | frames of the admin channel; handshake and SYNCED flag per channel |
| `pc`, `prev`, `resp`, `bci`, `asi`, `work` | locals of the threads and queued work items |
| `isr`, `srcs`, `isr_wait` | locals of `dce_mailbox_isr` |
| `fw`, `boot_sema`, `boot_int`, `fw_*` | the firmware, as far as the driver can tell |

Groups of actions: `Rpc*` (`dce_admin_send_msg` for any thread),
`BootComplete*`, `Cmd*`, `Channel*`, `Seq*` (`dce_start_boot_flow` and what it
calls), `Pm*`, `User*`, `Isr*`, and the external `Fw*` and `PowerCycle`. Boot
commands carry their place in the sequence, admin messages their sender and
command. A boot status in `ack` is the whole stored word: `StatusErr` is the
bit test the code makes, in which an IRQ status with READY looks like an error
(bit 23 has both meanings) and an invalid status reads as all ones.

Assumptions about the outside: kernel workers get no signals (`Interruptible`
holds users and the suspending process only); user processes are frozen during
a suspend; the mailboxes lose power in SC7 while memory survives; no handler
runs across the power cycle; the firmware answers each boot command once and
each admin request in order, and enters SC7 only on ENTER_SC7. READY is raised
when the driver asked for it.

`EarlySuspend` and `AllocFail` switch on two situations in which the code does
not keep its promises (section 4): a suspend before the boot is done, and
failing message allocations. `Overtaken` lets other threads run between the
handler's look at the admin channel and its event (`IsrAdminSeen`,
`IsrAdminLate`, instead of `IsrAdminPost`): it is set where the properties
survive that, in `boot_signals` and `boot_irqs`.

Merged steps: `WaitConsume` is the read of `complete` and its store of 0 (a
wake-up in between finds the flag set and changes nothing; two waiters on one
condition could both pass, here the first takes it). The handler stores the
status of a boot command twice, the second time the value just fetched;
`IsrBootRead` is the first store and the second is left out, because the worker
that could invalidate the slot in between waits for this very status.

### DceAsync

N work items with their `in_use` flags, a single-threaded workqueue, the scan
of `dce_client_schedule_event_work` one flag at a time, and the drain loop of
`dce_client_process_event_ipc` one event at a time. Events are counted, not
told apart. A client unregisters only between work items: the driver does
nothing to enforce that, it is what a client has to ensure. `dropped` is a
history variable: a signal was dropped *with an error message* for want of a
client or of memory. The drain loop's exit for a frame that is there and cannot
be read (a broken channel, `dce-client-ipc.c:325`) is left out.

### Ivc and IvcFifo

| State | Code |
|---|---|
| `w_count`, `state`, `r_count` | the halves of `struct ivc_channel_header`, by owner |
| `ring` | the frames in shared memory; `Torn` is a slot being written |
| `w_pos`, `r_pos` | `struct ivc` of each end |
| `bell` | a notification sent and not yet handled (`ivc->notify`, external) |
| `pc`, `frame`, `blocked`, `rcvd` | where each end is, its buffer, its client waiting to write, what its client got |

Each end has one thread, since clients serialise their calls. A step is one
load or store that the peer can tell apart; barriers and cache maintenance are
why the stores appear in this order. `tegra_ivc_channel_notified` is five
steps (read the peer's state, clear, store the state, notify, return), so the
peer's steps fall between any two of them; clearing the two counters is one of
them, since the peer uses neither there, and where it does (`v_ivc_reset`) the
order of the two stores makes no difference. `channel_reset` may come at any
time except while an end is in ACK, unless `RepeatedReset` is set (section 4).
A reboot may come in the middle of a read, a write or at rest; one that
swallows a notification the peer is still owed, between a store and its
doorbell or in the middle of a handshake, is left out, because the code has no
answer to it.

`IvcFifo` has a queue and a status per end (up, down, clean). A write appends,
a read takes the head, a reset empties both queues when it takes effect. The
refinement mapping reads the queue off the slots between the two counters, and
takes a handshake's effect to be the moment the second end has cleared.

### Host1xFence

The syncpoint's counter, the value read last, the comparator with its enable
and status bits, the list and its lock (`LockFree`, which the handler holds
from `IsrLock` on and `dma_fence_signal` while it calls back), and per fence
its references, the `signaling` exchange, its error and result, and the places
of its work item (`work`), of its callback (`cb`) and of its user (`user`).

The comparator looks at the level, as the driver assumes when it re-arms it.
The handler reads the status, disables the interrupt and clears the status in
three steps without the lock (`IsrStatus`, `IsrDisable`, `IsrClear`), then reads
the counter (`IsrLoad`), and only then takes the lock (`IsrLock`): the list may
change and the interrupt be armed anew, or be turned off with its pending
status thrown away (`disable_syncpt_intr`), in between.

A user adds its callback (`enable_signaling`), may look at the fence
(`IsSignaled`), and in the end removes the callback (`remove_callback`, which
is also how a wait ends). It then lets go (`UserPut`), or cancels a fence
without a timeout: `host1x_fence_cancel` and `Flushed`, then with the poll file
descriptor the barrier of `host1x-fence/dev.c:214` (`LockUnlock`), or without
it (`syncpt.c`), and lets go. The callback runs between `IsrSignal` and
`IsrCallback`, or `WorkSignal` and `WorkCallback`, with the lock held.
Counters are taken modulo `Mod` and compared by signed difference.

### Host1xCdma

| State | Code |
|---|---|
| `ring`, `pos`, `fence` | `struct push_buffer`, in slots |
| `last_pos`, `get`, `running` | DMAPUT and its shadow, DMAGET, `cdma->running` |
| `queue`, `job` | the sync queue and `struct host1x_job` |
| `value`, `min_val`, `max_val`, `locked` | the syncpoints |
| `sub`, `stop`, `event`, `complete` | the submitter and `cdma_stop` with what they wait for |
| `client`, `armed`, `handler` | the timeout work item |
| `update`, `wedged` | the update work item, and that it is caught in `job_free` |

`LockFree` is `cdma->lock`. A job is a sequence of pushes; on HOST1X_HW >= 6
(`hw6`) an increment that waits for the idle engine follows the work, on older
hardware the work is the last push. The engine may take any time, also for
ever. The timeout is two steps, so that it can be overtaken between expiring
and taking the lock, and between deciding and tearing down.
The first idle increment (with its raise of `max_val`) and prefence waits of
HOST1X_HW >= 6 are left out (they only add pushes before the work), and
`max_val` is raised at the end of the submit, before which nothing modelled
reads it. The user's increments are taken to be in the last of its commands
(`WorkAt`). A submit fence that cannot be allocated (`hw/channel_hw.c:362`) and
jobs with a timeout of 0 are left out. `torndown` is always consistent with
`running`, the submitter gives back its job reference at the end of submit,
each job is submitted once, and there is one stop. The submit fence's own
timeout (30 s) comes after the job's (10 s).

## 3. Passing runs

| Run | Instance | Shows |
|---|---|---|
| `boot_safety` | one user, firmware errors, failing allocations, 2 frames | boot commands in order and once per power-up; each status answers its command, each reply its request; request bits match the state; a rejected boot command ends the boot; waits start fresh; nobody sleeps for an answer that cannot come. 4,077 states |
| `boot_live` | one user, nothing fails; fairness; deadlock checked | always boots again, calls return, suspends end, all channels synced when the boot is done. 933 states |
| `boot_signals` | one user, signals to user and PM, firmware errors, 1 frame, `Overtaken` | the FSM still expects every sleeper's answer; suspend is safe and uses one report of SC7 entry once; no admin request reaches a firmware that has not been bootstrapped since power-up; the boot-done flag is withdrawn only in SC7. 216,078 states |
| `boot_irqs` | no user, trace-log and abort interrupts at any time, `Overtaken` | boot-done means serving, SC7_ENTERED is left only by resume, even through the ABORT state. 1,056,126 states |
| `async_events` | 3 work items, 3 frames, failing allocations; fairness; deadlock checked | no lost event, no leaked or doubly queued work item, every event leads to a callback |
| `ivc` | 2 slots, counters modulo 4, two frames, one sender, resets and reboots of both ends; fairness | `Ivc` implements `IvcFifo`; counters are cleared only while unused; what was found readable or writable stays so; no lost wake-up; both ends get established; frames are read |
| `host1x_fence` | 2 fences (symmetric), counter modulo 8, thresholds up to two ahead | references accounted for, no missed fence, no early success, no callback after its removal, cancel is final. 6,424,336 states |
| `host1x_fence_live` | 1 fence, counter modulo 8; fairness | a reached fence is signalled, a fence with a timeout is freed. 44,152 states |
| `host1x_cdma` | 3 jobs, 2 syncpoints, 9 slots, one recoverable job, both kinds of hardware; fairness | the ring is accounted for, the oldest job is timed, on older hardware fences are set up in time, submitter and stop always get on |

**Bounds.** In the DCE models all state is finite without artificial counters:
a suspend and resume can repeat for ever, and TLC explores the whole graph. One user is
enough for user against PM and worker; two are the least for user against
user (`v_replies_swapped`, and the proofs cover any number). One frame makes the queue full with a single abandoned request; two
frames (the code has four) let two requests queue. Three work items (the code
has eight) are one more than the least number for which the drop is harmless,
and the theorem covers all. The boot command sequence has its real length.
In `ivc` two slots are the least for which full, partly full and empty differ;
the counters wrap after two rounds, and the two directions meet only in a
reset, so one sender is enough. In `host1x_fence` the hardware is at most
`Backlog` increments ahead of what the driver read last, of what the handler
works with and of a fence still in memory, which keeps thresholds comparable
(`Backlog` and every offset together are less than half the range), as they
must be in the code; two fences are the least for which
the order of the list matters, and offsets 1 and 2 the least for which a fence
is put in front of another that is still waiting (keeping the list in order of
arrival is the mutant of `NoMissedFence`). In `host1x_cdma` nine slots hold two jobs and
part of the third, so that the submitter sleeps in the middle of a job and the
wide push meets the end of the ring; two of the jobs share a syncpoint.

**Fairness.** Weak fairness per thread on its own steps, on the handler and on
the firmware: the kernel schedules runnable threads, a threaded interrupt
handler runs while its line is pending, and without answers from the firmware
nothing can be promised. Starting a suspend or a user call, signals, errors
and spontaneous interrupts have no fairness. In `Ivc` a thread inside the
library runs on and a pending doorbell is served (strongly fair, since a busy
client may keep the thread away); resets and reboots are assumed to end, and
the client to read when it is told. In `Host1xFence` the interrupt is taken and
work items run; in `Host1xCdma` the driver's threads run, timers expire and
the lock is handed out fairly, while the engine, the DMA and user space owe
nothing. The host1x runs and `ivc` come to rest by design and do not check
deadlock. `boot_live` needs an instance in
which nothing fails, because the code has no retry: a boot that failed once
stays failed. That is also why
the other boot runs do not check deadlock.

Every property has a mutant: a plausible slip in the code (`Mut_*`, next to
the definition it replaces) under which TLC finds the property violated.

## 4. Violations

Each of these runs checks one property that a comment of the code states, in
an instance where the code does not keep it. `PROJECT.json` quotes the lines
under `findings`.

| Run | What happens |
|---|---|
| `v_replies_swapped` | With two debugfs users, the FSM is idle again as soon as the first reply is signalled; the second user's request shares the wait flag and one may read the other's reply. |
| `v_ivc_reset` | An end resets again before the peer has left ACK, takes the old ACK for an answer and clears counters that the peer, established by then, is using. |
| `v_cdma_fence` | On HOST1X_HW >= 6 the submitter sleeps for space behind the increment its fence waits for; the job completes, the fence takes no callback, and `job_free` waits for ever with the channel's lock. |

Other disagreements seen while modelling and not given a run of their own. In
`DceBoot`, with the constants named:

* `Interruptible = {u1, "pm"}`: a signal ends a wait, and its late wake-up is
  still set when the next wait begins, against the comment at
  `dce-worker.c:44` (`WaitStartsFresh` and `ReplyAnswersRequest` fail). A
  signal that breaks off ENTER_SC7 leaves a firmware in SC7 with
  `DCE_FW_BOOT_DONE` set, and the next admin call sleeps for ever; replies of
  broken-off calls that nobody read fill the queue, with the same result
  (`AnswerOnItsWay` fails, hence it is claimed without signals).
* `Overtaken`: the handler sees a reply that a worker, let go for an earlier
  signal, reads before the handler posts its event. The worker's next request
  is then completed by that event before it is answered, its read finds no
  frame and the boot fails (`dce-admin.c:79`; `WaitStartsFresh`,
  `ReplyAnswersRequest` and `AnswerOnItsWay` fail).
* `AllocFail`: the message of ENTER_SC7 cannot be allocated, the handler
  returns 0 and the system powers off under a running firmware
  (`dce-pm.c:66`; `SuspendedIsSafe` fails).
* `FwErr` and a `LOG_READY` interrupt: the stored error status is overwritten
  before the worker reads it and the boot goes on (`dce-bootstrap.c:372`;
  `ErrorStopsBoot` and `AckAnswersCmd` fail).
* `EarlySuspend`: a suspend during the boot is reported as a success; the
  worker then waits for an answer that was lost with the power
  (`dce-pm.c:124`; `AnswerOnItsWay` fails).
* `FwErr`: the firmware rejects IPC_CREATE and the boot is reported as done
  without the client channels (`dce-admin.c:581`; `BootDoneMeansChannels`
  fails).
* When a callback fails the request bit in `requested_ipcs` stays set
  (`dce-fsm.c:451`); `DCE_FW_BOOTSTRAP_DONE` and `DCE_FW_SUSPENDED` are never
  cleared, so after a resume the first says nothing about the firmware that
  runs now and the second hides a failure in debugfs (`dce-debug.c:544`);
  `dce_handle_mailbox_send_cmd_sync` returns with the mutex held
  (`dce-mailbox.c:187`).

In `Host1xCdma`:

* `cancel_delayed_work` does not wait for a handler that is blocked on the
  lock; the handler then blames the next job, which has not "exceeded its TTL"
  (`hw/cdma_hw.c:289`).
* Recovery compares counters with a plain `<` (`cdma.c:392`), also those of
  different syncpoints: with `Base = 7` and `Mod = 8` a hung job is not
  cancelled and is no longer timed (`HeadIsTimed` fails).
* Recovery resumes at the job after the failed one even when that job was
  cancelled with it and its slots popped: with a fourth job the submitter can
  overwrite slots the DMA has still to fetch. With nobody queued behind, it
  resumes at `last_pos` and skips the flushed part of a half-pushed job
  (`cdma.c:414`).
* On HOST1X_HW >= 6 `syncpt_end` leaves out the last increment, so a job's
  slots are popped before the DMA has fetched all of them
  (`hw/channel_hw.c:268`).
* `sp->locked` is checked once, before the submitter may give up the lock
  (`cdma.c:565`); a job larger than the ring waits for itself
  (`RingAssumption`, which only the liveness needs); `cdma_stop` may stop the DMA under a half-pushed job.
* A submit fence that times out in a deep queue uses up its job's only update;
  in the model the timeout of the fence comes after that of the job.

## 5. Theorems

`DceBoot_proofs`, for every set of users, every set of interruptible threads,
every queue size, with or without firmware errors and spontaneous interrupts:

* `TypeCorrect`: `Spec => []TypeOK`. Inductive: `TInv`, which adds `SeqPlace`,
  the place in the admin sequence that goes with a worker's label (without it
  a worker in an RPC could be at position 0 and have no command).
* `SafeSuspend`: `Spec => []SuspendedIsSafe`, and `ReportUsedOnce`:
  `Spec => []OneSc7Report`, when `EarlySuspend` and `AllocFail` are false;
  section 4 says what goes wrong otherwise.
  The difficulty is a suspend that is interrupted by a signal: its report of
  SC7 entry may turn up later, anywhere between the mailbox and the wake flag,
  and must not satisfy another suspend after a power cycle. `OneSc7Report`
  follows the report through the five places it can be in and says that it is
  in one at most and exists only while the firmware is in SC7; `HandlerHolds`
  (the handler has a wake-up to give only at its last step) makes it
  inductive. The firmware serves nobody in SC7, so it cannot make a second
  report, and the power cycle happens only when the report has been used up.
* `BootDoneKeptUntilSc7`: `Spec => BootDoneClearedInSc7`, an action property,
  from the same invariant.

`DceAsync_proofs`, for every number of work items N >= 2 and every queue size:

* `TypeCorrect`; `WorkItemsAccounted`: `Spec => []WorkAccounted`.
* `EventsNeverLost`: `Spec => []NoLostEvent`. A full scan that drops the signal
  passed item 0 while it was in use and item 1 after that; one workqueue
  thread runs one item at a time, so when both were found in use one of them
  was still queued and will look at the channel. With a single work item the
  property fails, hence N >= 2.

`DceFlow_proofs`, for every set of users and of interruptible threads, every
queue size, with or without firmware errors and spontaneous interrupts, when
`EarlySuspend` and `AllocFail` are false:

* `BootCmdsOnceInOrder` (`BootCmdsInOrder`), `AdminWaitsForBootcmds`
  (`AdminOnlyAfterBootcmds`), `DoneMeansServing` (`BootDoneMeansServing`).
* `MailboxNeverLeftLocked`: the early return at `dce-mailbox.c:187` that keeps
  the mutex is never taken. `WorkersGetTheirReplies`: a boot worker's RPC
  returns the reply to its own command, although it takes whatever frame is
  next.

  One invariant, `FInv`, gives all five. `Alone`: the worker that boots, the
  users and the suspend take turns, by the boot-done flag and the freezing of
  user processes. `OneCmd`: hence a boot command is in one place at most on its
  way from the mailbox through the firmware and the handler back to the
  worker. `Progress`: the firmware is exactly as far in the sequence as the
  worker. `Serving`: after the reset of the admin channel the worker has it to
  itself, and the boot-done flag implies what the sequence has established.
  None of them is inductive without the others.

`DceAnswers_proofs`, on top of `FInv`:

* `Sc7LeftByResumeOnly` (`Sc7LeftByResume`), when no signal reaches the
  suspending process. With one, an ENTER_SC7 that was given up may still be in
  the queue and its report comes when nobody expects it. `HInv` adds that
  ENTER_SC7 is in the queue only while the suspend waits for it, and that no
  thread can still fail and write SC7_ENTERED back.
* `StatusIsTheAnswer` (`AckAnswersCmd`) and `ErrorEndsTheBoot`
  (`ErrorStopsBoot`), when in addition the firmware raises no trace-log or
  abort interrupt: such an interrupt overwrites the one slot for the status
  (section 4). `RInv` adds to `HInv` that the firmware's READY is in one place
  at most on its way to the worker (`OneReady`), and `AInv` follows the status
  from the mailbox to the worker.
* `ChannelsAreSetUp` (`BootDoneMeansChannels`), when the firmware reports no
  error; section 4 says what an error does. Signals and spontaneous interrupts
  are allowed.

The last theorems of `DceAnswers_proofs` are about a driver whose debugfs nodes
one process at most uses (`OneUser`) and whose firmware does not abort: a
second user shares the wait flag and the FSM's state with the first
(`v_replies_swapped`), and an abort takes the FSM out of the state a sleeper
waits in. `EarlySuspend` and `AllocFail` are false as before. Firmware errors,
trace-log interrupts, suspends, resumes and every queue size are allowed.

* `SleepersAreExpected` (`SleeperIsExpected`), with any signals and with
  `Overtaken`. The property speaks of threads that sleep; `WInv` is `FInv` and
  `Awaited`, which speaks of a thread from the moment it posts its request.
  `Expected`: until the wake-up is on its way the FSM is in the state that
  accepts the answer. `Coming`: until then the request or the answer is in one
  of the places between thread and firmware. `InPlace`: no abort is reported,
  the boot interface wakes no admin call, and only the suspend asks for SC7.
  Signals make this delicate: a call that was given up leaves its frame behind,
  so of the requests in the queue `Coming` counts the last one only; the reply
  to an older one may let the sleeper go early.
* `RepliesAreToTheRequest` (`ReplyAnswersRequest`), `RequestBitsFit`
  (`RequestedMatchesState`) and `WaitsStartFresh` (`WaitStartsFresh`), when
  also `Interruptible = {}` and `Overtaken` is false: a broken-off wait leaves a
  frame, a request bit or a wake-up behind for the next one, an overtaken
  handler a wake-up (section 4). `XInv` is `RInv`, `Awaited`,
  `FsmFits` and `Owned`. `Owned`: one thread at most is at work, a wait flag is
  set or about to be set only if that thread waits for it or has just been let
  go, and the frames on the admin channel are its request or the reply to it.
  `FsmFits`: `requested_ipcs` is what the FSM's state waits for, and an answer
  is no longer waited for once it is accepted. The callback of a boot command
  can fail and restores the FSM's state but not the bits; `XInv` says that the
  bit is cleared by then. `OneReady` is needed for the one wake-up that the
  worker makes itself, and takes back, when the firmware is up already.
* `AnswersAreOnTheirWay` (`AnswerOnItsWay`), under the same conditions. `XInv`
  says where the request or its answer is; that the firmware can take the one
  and the interrupt deliver the other is `Reach`, inductive with `FInv`
  (`EInv`): the admin channel is known to the firmware from the moment a worker
  has established it, and interrupts are enabled except between a power-up and
  the resume, when nobody sleeps. By `Owned` the queue holds the sleeper's own
  request and no old reply, so there is room for the answer.

`Ivc_proofs`, for every ring size, every counter range above it, every set of
frames and of senders, when `RepeatedReset` is false (section 4,
`v_ivc_reset`):

* `CountersAreNotInUse`: `Spec => []CountersNotInUse`, and
  `AdvanceChecksPass`: `Spec => []AdvanceCheckPasses`. Neither is inductive.
  `IInv` adds `Handshake`, the pairs of states and places the two ends can be
  in together; `Cleared`, which counters are zero at each place of the
  handshake; `RingsFit`, that a ring in use never holds more than it has
  slots; and `Reserved`, that the slot a client has found is still its own.
  The step that needs them all is the reset of one end while the other is in
  the middle of a transfer: the peer clears only its own counters, and only
  after it has come out of the transfer.
* `NoWakeupIsLost`: `Spec => []NoLostWakeup`. `Wakeups` says that an end
  with no doorbell pending that has an unread frame, or room it waits for, has
  a peer just past its advance, with a count that still makes it ring.

`IvcFifo_proofs`, under the same condition and for ring sizes that divide the
range of the counters (`Divides`; with others a reboot after the counters have
wrapped finds the wrong position, `tegra-ivc.c:854`):

* `RingsAreFifo`: `Spec => IsFifo`, the refinement. Initial states map to
  initial states; a write's counter store maps to an append, a read's to taking
  the head, the second clear of a handshake to the reset, everything else to a
  stutter. `RInv` adds to `IInv` that positions are counters modulo the ring
  size, so the writer's is as far ahead of the reader's as the counters say,
  across their wrap, and that a frame in a client's hands is whole.

`Host1xFence_proofs`, for any set of fences, every counter range and every
`Backlog` and offsets that keep thresholds comparable:

* `ReferencesAreAccounted` (`RefsAccounted`), `SuccessIsReached`
  (`SignaledMeansReached`), `CancelTakesOut` (`CancelIsFinal`),
  `NoFenceIsMissed` (`NoMissedFence`), and `Typed` (`TypeOK`).

  `IInv` has four parts: where user, callback, handler and work item can be with
  the same fence (`Accounted`, `Staged`, `Calls`); how far its threshold is from the counter and
  what has been said about it (`Told`); how far the values read lag behind
  (`Lag`); and that the list is in the order of the thresholds with the
  comparator set to its head (`Ordered`, `Programmed`). Signed differences are
  only an order on values near each other, so every comparison needs `Lag` and
  the assumption on the offsets (`ComparableAssumption`). The code does not
  enforce that assumption: the fence ioctl takes any threshold, and with two of
  them half the range apart `NoMissedFence` has no meaning, since the list is
  not sorted (hazard at `intr.c:20`).

`Host1xCdma_proofs`, for every set of jobs, every program of pushes, every
ring size, both kinds of hardware, and an engine that does what it likes:

* `RingIsAccounted` (`RingAccounted`): `RInv` adds that a job is queued once
  and the half-pushed one not yet (`Queued`), and `FreeIsThere`, that
  `slots_free` promises no more than the ring has; without it a submitter that
  slept could trust an old promise. The steps that matter are the push, which
  takes from one end of the free slots, and the update, which returns the slots
  of the first jobs at the other end; the sum of the slots of the first i jobs
  is a recursive function, and the lemmas `SumsExist`, `SumsShift` and
  `SumsGrow` say by induction what it computes. The fact that a job fits into
  the ring is not needed.
* `SlotsFreeAreThere` (`FreeIsThere`), `TearingHasItsJob` (`Tearing`) and
  `TypeIsKept` (`TypeOK`), from the same invariant.
* `TheHeadIsWatched`: the first two parts of `HeadIsTimed`.

Only model-checked:

* the liveness properties, since fairness is out of the prover's reach;
* `HeadIsTimed`'s third part and `OldFenceSetUpFirst`: they compare counters,
  and hold of jobs so few that no counter gets half a range ahead of what is
  compared with it, and that a recovery does not make the DMA fetch slots
  again (section 4); what bounds that in the code is outside this driver.

## 6. Not modelled

* Physical addresses, streams, AST programming, frame contents and sizes.
* Probe, removal and error unwinding of `dce_driver_init`; `Init` is the state
  after a successful probe with the bootstrap work queued.
* `FSM_STOP` and `LOG_REQUESTED` are in the FSM's tables, but no code posts
  them while the driver is bound.
* In `DceBoot` the IVC handshake is one step of each side; `Ivc` has its detail.
* Cache maintenance and memory barriers (`Ivc` takes their effect as given),
  `tegra_ivc_read_peek`, `tegra_ivc_write_poke` and the set-up of a channel; a
  client that handles notifications in its interrupt handler while another
  thread reads or writes.
* host1x: syncpoint allocation, the file-descriptor interface of fences,
  pinning, relocations and the contents of gathers, MLOCKs, memory contexts.
* The syncpoint's wrap in `Host1xCdma` (section 4).
* `tegra_dce_client_ipc_send_recv` and client handles.
* Everything in the other rows of section 1.

## 7. Plan

1. Clients: registration with its boot wait and time-out, handles,
   synchronous client RPC with its own wait flag, unregistration against
   running callbacks (`DceClient`).
2. `DceLifecycle`, an abstract life cycle (booting, serving, suspending, off),
   and `DceBoot` shown to implement it.
3. nvmap handle references, nvscic2c-pcie endpoints, the capture-IVC worker on
   top of `Ivc`.
4. Proofs: a bound on the counters of `Host1xCdma` under which `HeadIsTimed`
   and `OldFenceSetUpFirst` hold.
