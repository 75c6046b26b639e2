--------------------------- MODULE DceFlow_proofs ---------------------------
(***************************************************************************)
(* The boot flow of DceBoot, for every set of users, every queue size, and *)
(* with signals, firmware errors and spontaneous interrupts: the firmware  *)
(* gets every boot command once and in order, nobody waits for an admin    *)
(* reply of firmware that has not had them all, and DCE_FW_BOOT_DONE means *)
(* firmware that serves.                                                   *)
(*                                                                         *)
(* The argument: the two work items, the suspend and the users take turns  *)
(* (Alone); therefore a boot command is in one place at most on its way    *)
(* from the mailbox through the firmware and the handler back to the       *)
(* worker that waits for it (OneCmd), the firmware is exactly as far as    *)
(* the worker (Progress), and the worker has the admin channel to itself   *)
(* (Serving).                                                              *)
(***************************************************************************)
EXTENDS DceBoot_proofs

(* A worker has something to do. *)
Active(w) == w \in work \/ pc[w] # "idle"

(* Who may talk to the firmware: the one worker that boots it, the users   *)
(* once DCE_FW_BOOT_DONE is set, or the suspend.                           *)
Alone ==
    /\ \A w \in Workers : Active(w) =>
          /\ ~ BootDone /\ pc["pm"] = "idle"
          /\ ~ (w \in work /\ pc[w] # "idle")
          /\ \A v \in Workers : v # w => ~ Active(v)
    /\ pc["pm"] \in {"suspended", "powered"} => ~ BootDone
    /\ pc["pm"] \notin {"idle", "suspended", "powered"} => BootDone
    /\ \A u \in Users : pc[u] # "idle" => BootDone /\ pc["pm"] = "idle"

(* The places a boot command can be in between CmdSend and CmdWait. *)
CmdInMailbox == cmd_mb # 0
CmdInFw == fw_cmd # 0
CmdInIrq == irq_mb.kind = "BOOT_CMD"
CmdInHandler == isr = "boot_post" /\ ack.kind = "BOOT_CMD"
CmdToWake == "BOOT_CMD" \in isr_wait
CmdWoken == complete["BOOT_CMD"]

NoCmd == ~ (CmdInMailbox \/ CmdInFw \/ CmdInIrq \/ CmdInHandler \/ CmdToWake \/ CmdWoken)

(* There is one command on the way at most, and none unless a worker waits. *)
OneCmd ==
    /\ CmdInMailbox => ~ (CmdInFw \/ CmdInIrq \/ CmdInHandler \/ CmdToWake \/ CmdWoken)
    /\ CmdInFw => ~ (CmdInIrq \/ CmdInHandler \/ CmdToWake \/ CmdWoken)
    /\ CmdInIrq => ~ (CmdInHandler \/ CmdToWake \/ CmdWoken)
    /\ CmdInHandler => ~ (CmdToWake \/ CmdWoken)
    /\ CmdToWake => ~ CmdWoken
    /\ (\A w \in Workers : pc[w] # "cmd_wait") => NoCmd

(* The firmware has taken the first n boot commands. *)
Taken(n) == Len(fw_cmds) = n /\ \A i \in 1 .. n : fw_cmds[i] = BootCmdSeq[i]

EarlyLabels == {"bc_post", "bc_check", "bc_nested", "bc_nwake", "bc_reset", "bc_int",
                "bc_wait", "bc_done"}
LateLabels == RpcLabels \cup {"ch_reset", "ch_ready", "seq_alloc"}

(* How far the firmware is when worker w is at label l with command b. *)
TakenAt(l, b) ==
    /\ l \in EarlyLabels => b = 1 /\ Taken(0)
    /\ l \in {"cmd_post", "cmd_send"} => Taken(b - 1)
    /\ l = "cmd_wait" /\ CmdInMailbox => cmd_mb = b /\ Taken(b - 1)
    /\ l = "cmd_wait" /\ ~ CmdInMailbox => Taken(b)
    /\ l = "cmd_status" => Taken(b)
    /\ l \in LateLabels => Taken(NumBootCmds)

Progress ==
    /\ \E n \in 0 .. NumBootCmds : Taken(n)
    /\ fw_cmds # <<>> => fw # "booting"
    /\ \A w \in Workers : TakenAt(pc[w], bci[w]) /\ (w \in work => Taken(0))
    /\ pc["pm"] = "powered" => Taken(0)
    /\ BootDone => Taken(NumBootCmds)

(* What a worker finds on the admin channel. *)
Empty == tx = <<>> /\ rx = <<>>

Answers(r, c) == r.cmd = c /\ (c = "RM_BOOTSTRAP" /\ ~ r.err => fw_rm)

ServedAt(w, l, a) ==
    /\ l \in RpcLabels \cup {"seq_alloc"} => ch["ADMIN"] = "synced"
    /\ l \in {"ch_reset", "ch_ready"} /\ a # 0 => ch["ADMIN"] = "synced" /\ Empty
    /\ l = "ch_ready" /\ a = 0 => ch["ADMIN"] = "sync" \/ Empty
    /\ l \in {"seq_alloc", "rpc_post", "rpc_send", "rpc_ok"} => Empty
    /\ l \in {"rpc_wait", "rpc_woken", "rpc_read"} =>
         \/ tx = <<[src |-> w, cmd |-> AdminSeq[a]]>> /\ rx = <<>>
         \/ tx = <<>> /\ \E r \in Replies : rx = <<r>> /\ Answers(r, AdminSeq[a])
    /\ l = "rpc_ok" => Answers(resp[w], AdminSeq[a])

Serving ==
    /\ \A w \in Workers : ServedAt(w, pc[w], asi[w])
    /\ BootDone => ch["ADMIN"] = "synced" /\ fw_rm

FInv == SInv /\ Alone /\ OneCmd /\ ~ mb_locked /\ Progress /\ Serving

Flow == Alone /\ OneCmd /\ ~ mb_locked /\ Progress /\ Serving

LEMMA FInvParts == FInv <=> SInv /\ Flow
  BY DEF FInv, Flow

LEMMA FInit == Init => FInv
<1> SUFFICES ASSUME Init PROVE FInv
  OBVIOUS
<1>1. SInv
  BY SInit
<1>2. /\ \A t \in Threads : pc[t] = "idle"
      /\ pc["pm"] = "idle" /\ \A w \in Workers : pc[w] = "idle"
      /\ \A u \in Users : pc[u] = "idle"
      /\ ~ BootDone /\ work = {"bootstrap"}
  BY DEF Init, Threads, Workers, BootDone
<1>3. Alone
  BY <1>2 DEF Alone, Active
<1>4. OneCmd /\ ~ mb_locked
  BY DEF Init, FsmInit, Waits, OneCmd, NoCmd, CmdInMailbox, CmdInFw, CmdInIrq, CmdInHandler,
         CmdToWake, CmdWoken, NoStatus, Irq
<1>5. Taken(0) /\ fw_cmds = <<>>
  BY DEF Init, Taken
<1>6. Progress
  <2>1. 0 \in 0 .. NumBootCmds
    BY NumBootCmdsFact
  <2> QED
    BY <1>2, <1>5, <2>1 DEF Progress, TakenAt, EarlyLabels, LateLabels, RpcLabels
<1>7. Serving
  BY <1>2 DEF Serving, ServedAt, RpcLabels
<1> QED
  BY <1>1, <1>3, <1>4, <1>6, <1>7 DEF FInv
-----------------------------------------------------------------------------
(* While a thread is at work no other worker is. *)
LEMMA OthersRest ==
  ASSUME FInv, NEW t \in Threads, pc[t] # "idle"
  PROVE  \A v \in Workers : v # t => ~ Active(v)
<1> USE DEF FInv, Alone
<1>1. CASE t \in Workers
  BY <1>1 DEF Active
<1>2. CASE t \notin Workers
  BY <1>2 DEF Threads
<1> QED
  BY <1>1, <1>2

LEMMA IdleWorker ==
  ASSUME NEW w
  PROVE  /\ \A b : TakenAt("idle", b)
         /\ \A a : ServedAt(w, "idle", a)
  BY DEF TakenAt, EarlyLabels, LateLabels, RpcLabels, ServedAt

(* A step of a thread that is at work and stays within its part of the     *)
(* flow.                                                                   *)
LEMMA ThreadStep ==
  ASSUME FInv, NEW t \in Threads, NEW l, pc[t] # "idle", Goto(t, l),
         UNCHANGED <<work, fw, fw_cmds, fw_cmd, fw_rm, cmd_mb, irq_mb, ack, mb_locked, isr, isr_wait>>,
         BootDone' <=> BootDone, complete'["BOOT_CMD"] = complete["BOOT_CMD"],
         BootDone => ch'["ADMIN"] = ch["ADMIN"],
         t = "pm" => {pc[t], l} \cap {"suspended", "powered"} = {},
         t \in Workers => /\ pc[t] # "cmd_wait" /\ l # "cmd_wait"
                          /\ TakenAt(l, bci[t])' /\ ServedAt(t, l, asi[t])'
  PROVE  Flow'
<1> USE DEF FInv
<1>1. /\ pc'[t] = l /\ \A s \in Threads : s # t => pc'[s] = pc[s]
      /\ "pm" \in Threads /\ Workers \subseteq Threads /\ Users \subseteq Threads
      /\ "pm" \notin Workers /\ "pm" \notin Users /\ Workers \cap Users = {}
  BY BootAssumption DEF Goto, SInv, TInv, TypeOK, ThrTypeOK, Threads, BootAssumption, Workers
<1>2. \A v \in Workers : v # t => ~ Active(v)
  BY OthersRest
<1>3. \A v \in Workers : v # t => pc'[v] = "idle" /\ v \notin work'
  BY <1>1, <1>2 DEF Active
<1>4. \A v \in Workers : Active(v)' => v = t
  BY <1>3 DEF Active
<1>5. t \in Workers => t \notin work
  BY DEF Alone, Active
<1>6. Alone'
  <2>1. CASE t = "pm"
    <3>1. \A v \in Workers : ~ Active(v)'
      BY <1>1, <1>4, <2>1
    <3>2. pc["pm"] \notin {"idle", "suspended", "powered"} /\ BootDone
      BY <2>1 DEF Alone
    <3>3. pc'["pm"] \notin {"suspended", "powered"}
      BY <1>1, <2>1
    <3>4. \A u \in Users : pc'[u] = "idle"
      BY <1>1, <2>1, <3>2 DEF Alone
    <3> QED
      BY <3>1, <3>2, <3>3, <3>4 DEF Alone
  <2>2. CASE t # "pm"
    <3>1. pc'["pm"] = pc["pm"]
      BY <1>1, <2>2
    <3>2. CASE t \in Workers
      <4>1. ~ BootDone /\ pc["pm"] = "idle" /\ \A u \in Users : pc[u] = "idle" /\ pc'[u] = "idle"
        BY <1>1, <3>2 DEF Alone, Active
      <4> QED
        BY <1>4, <1>5, <3>1, <4>1 DEF Alone
    <3>3. CASE t \notin Workers
      <4>1. t \in Users /\ BootDone /\ pc["pm"] = "idle"
        BY <2>2, <3>3 DEF Threads, Alone
      <4>2. \A v \in Workers : ~ Active(v)'
        BY <1>4, <3>3
      <4> QED
        BY <3>1, <4>1, <4>2 DEF Alone
    <3> QED
      BY <3>2, <3>3
  <2> QED
    BY <2>1, <2>2
<1>7. OneCmd' /\ ~ mb_locked'
  <2>1. \A w \in Workers : pc'[w] = "cmd_wait" <=> pc[w] = "cmd_wait"
    BY <1>1
  <2> QED
    BY <2>1 DEF OneCmd, NoCmd, CmdInMailbox, CmdInFw, CmdInIrq, CmdInHandler, CmdToWake, CmdWoken
<1>8. Progress'
  <2>1. \A n : Taken(n)' <=> Taken(n)
    BY DEF Taken
  <2>2. \A v \in Workers : TakenAt(pc[v], bci[v])' /\ v \notin work'
    <3> TAKE v \in Workers
    <3>1. CASE v = t
      BY <1>1, <1>5, <3>1 DEF TakenAt, Taken, CmdInMailbox
    <3>2. CASE v # t
      BY <1>3, <3>2 DEF TakenAt, EarlyLabels, LateLabels, RpcLabels
    <3> QED
      BY <3>1, <3>2
  <2>3. pc'["pm"] # "powered" \/ pc["pm"] = "powered"
    BY <1>1
  <2> QED
    BY <2>1, <2>2, <2>3 DEF Progress
<1>9. Serving'
  <2>1. \A v \in Workers : ServedAt(v, pc[v], asi[v])'
    <3> TAKE v \in Workers
    <3>1. CASE v = t
      BY <1>1, <3>1 DEF ServedAt, Answers, Empty
    <3>2. CASE v # t
      BY <1>3, <3>2 DEF ServedAt, RpcLabels
    <3> QED
      BY <3>1, <3>2
  <2> QED
    BY <2>1 DEF Serving
<1> QED
  BY <1>6, <1>7, <1>8, <1>9 DEF Flow

LEMMA RpcFlow ==
  ASSUME FInv, NEW t \in Threads, RpcStep(t) \/ RpcInterrupt(t)
  PROVE  Flow'
<1> USE DEF FInv
<1>1. /\ TypeOK /\ pc[t] \in RpcLabels /\ pc[t] # "idle" /\ pc[t] # "cmd_wait"
      /\ "BOOT_CMD" \in Waits
  BY DEF SInv, TInv, RpcStep, RpcPost, RpcSend, RpcWait, RpcInterrupt, RpcConsume, RpcRead, RpcFail,
         RpcLabels, Waits
<1>2. /\ UNCHANGED <<work, bci, asi, boot_status, ch, fw, fw_cmds, fw_cmd, fw_rm,
                     cmd_mb, irq_mb, ack, mb_locked, isr, isr_wait>>
      /\ BootDone' <=> BootDone
      /\ complete'["BOOT_CMD"] = complete["BOOT_CMD"]
  BY <1>1 DEF RpcStep, RpcPost, RpcSend, RpcWait, RpcInterrupt, RpcConsume, RpcRead, RpcFail,
              mbVars, chVars, isrVars, fwVars, fsmVars, BootDone, WaitConsume, TypeOK, FsmTypeOK
<1>3. /\ t \in Workers => Taken(NumBootCmds)
      /\ Taken(NumBootCmds)' <=> Taken(NumBootCmds)
  BY <1>1, <1>2 DEF Progress, TakenAt, LateLabels, Taken
<1>4. \A l \in RpcLabels : t \in Workers => TakenAt(l, bci[t])'
  BY <1>3 DEF TakenAt, RpcLabels, EarlyLabels, LateLabels
<1>5. t \in Workers => /\ ServedAt(t, pc[t], asi[t]) /\ ch["ADMIN"] = "synced"
                       /\ asi[t] \in 1 .. 4
                       /\ Request(t) = [src |-> t, cmd |-> AdminSeq[asi[t]]]
  <2>1. t \in Workers => Request(t) = [src |-> t, cmd |-> AdminSeq[asi[t]]]
    BY DEF Request, Workers
  <2>2. t \in Workers => asi[t] \in 1 .. 4
    BY <1>1 DEF SInv, TInv, SeqPlace, PlaceOf
  <2>3. t \in Workers => ServedAt(t, pc[t], asi[t]) /\ ch["ADMIN"] = "synced"
    BY <1>1 DEF Serving, ServedAt
  <2> QED
    BY <2>1, <2>2, <2>3
<1>6. ASSUME NEW l \in RpcLabels, Goto(t, l), t \in Workers => ServedAt(t, l, asi[t])'
      PROVE  Flow'
  <2>1. /\ l # "cmd_wait" /\ {pc[t], l} \cap {"suspended", "powered"} = {}
        /\ (t \in Workers => TakenAt(l, bci[t])')
    BY <1>1, <1>4 DEF RpcLabels
  <2> QED
    BY <1>1, <1>2, <1>6, <2>1, ThreadStep
<1>7. CASE RpcPost(t)
  <2>1. PICK l \in {"rpc_send", "rpc_err"} : Goto(t, l)
    BY <1>7 DEF RpcPost, Post
  <2>2. t \in Workers => ServedAt(t, l, asi[t])'
    BY <1>2, <1>5, <1>7 DEF RpcPost, ServedAt, RpcLabels, Empty, chVars
  <2> QED
    BY <1>6, <2>1, <2>2 DEF RpcLabels
<1>8. CASE RpcSend(t)
  <2>1. pc[t] = "rpc_send" /\ UNCHANGED <<rx, resp>>
    BY <1>8 DEF RpcSend
  <2>2. CASE tx' = Append(tx, Request(t)) /\ Goto(t, "rpc_wait")
    <3>1. t \in Workers => ServedAt(t, "rpc_wait", asi[t])'
      <4> SUFFICES ASSUME t \in Workers PROVE ServedAt(t, "rpc_wait", asi[t])'
        OBVIOUS
      <4>1. tx = <<>> /\ rx = <<>>
        BY <1>5, <2>1 DEF ServedAt, Empty
      <4>2. tx' = <<[src |-> t, cmd |-> AdminSeq[asi[t]]]>> /\ rx' = <<>>
        BY <1>5, <2>1, <2>2, <4>1
      <4> QED
        BY <1>2, <1>5, <4>2 DEF ServedAt, RpcLabels
    <3> QED
      BY <1>6, <2>2, <3>1 DEF RpcLabels
  <2>3. CASE UNCHANGED tx /\ Goto(t, "rpc_fail")
    <3>1. t \in Workers => ServedAt(t, "rpc_fail", asi[t])'
      BY <1>2, <1>5 DEF ServedAt, RpcLabels
    <3> QED
      BY <1>6, <2>3, <3>1 DEF RpcLabels
  <2> QED
    BY <1>8, <2>2, <2>3 DEF RpcSend
<1>9. CASE RpcWait(t) \/ RpcConsume(t)
  <2>1. /\ pc[t] \in {"rpc_wait", "rpc_woken"} /\ UNCHANGED <<tx, rx, resp, fw_rm>>
        /\ \E l \in {"rpc_woken", "rpc_read", "rpc_fail"} : Goto(t, l)
    BY <1>9 DEF RpcWait, RpcConsume, chVars, fwVars
  <2>2. PICK l \in {"rpc_woken", "rpc_read", "rpc_fail"} : Goto(t, l)
    BY <2>1
  <2>3. t \in Workers => ServedAt(t, l, asi[t])'
    BY <1>2, <1>5, <2>1 DEF ServedAt, RpcLabels, Answers
  <2> QED
    BY <1>6, <2>2, <2>3 DEF RpcLabels
<1>10. CASE RpcInterrupt(t) \/ RpcFail(t)
  <2>1. PICK l \in {"rpc_fail", "rpc_err"} : Goto(t, l)
    BY <1>10 DEF RpcInterrupt, RpcFail
  <2>2. t \in Workers => ServedAt(t, l, asi[t])'
    BY <1>2, <1>5 DEF ServedAt, RpcLabels
  <2> QED
    BY <1>6, <2>1, <2>2 DEF RpcLabels
<1>11. CASE RpcRead(t)
  <2>1. pc[t] = "rpc_read" /\ UNCHANGED tx
    BY <1>11 DEF RpcRead
  <2>2. CASE rx # <<>> /\ resp' = [resp EXCEPT ![t] = Head(rx)] /\ rx' = Tail(rx) /\ Goto(t, "rpc_ok")
    <3>1. t \in Workers => ServedAt(t, "rpc_ok", asi[t])'
      <4> SUFFICES ASSUME t \in Workers PROVE ServedAt(t, "rpc_ok", asi[t])'
        OBVIOUS
      <4>1. tx = <<>> /\ \E r \in Replies : rx = <<r>> /\ Answers(r, AdminSeq[asi[t]])
        BY <1>5, <2>1, <2>2 DEF ServedAt
      <4>2. PICK r \in Replies : rx = <<r>> /\ Answers(r, AdminSeq[asi[t]])
        BY <4>1
      <4>3. resp'[t] = r /\ rx' = <<>> /\ tx' = <<>>
        BY <1>1, <2>1, <2>2, <4>1, <4>2 DEF TypeOK, ThrTypeOK
      <4>4. Answers(resp[t], AdminSeq[asi[t]])'
        BY <1>2, <4>2, <4>3 DEF Answers
      <4> QED
        BY <1>2, <1>5, <4>3, <4>4 DEF ServedAt, RpcLabels, Empty
    <3> QED
      BY <1>6, <2>2, <3>1 DEF RpcLabels
  <2>3. CASE Goto(t, "rpc_fail")
    <3>1. t \in Workers => ServedAt(t, "rpc_fail", asi[t])'
      BY <1>2, <1>5 DEF ServedAt, RpcLabels
    <3> QED
      BY <1>6, <2>3, <3>1 DEF RpcLabels
  <2> QED
    BY <1>11, <2>2, <2>3 DEF RpcRead
<1> QED
  BY <1>7, <1>8, <1>9, <1>10, <1>11 DEF RpcStep

(* The workers up to the first boot command. *)
LEMMA EarlyFlow ==
  ASSUME FInv, NEW w \in Workers,
         \/ BootCompletePost(w) \/ BootCompleteCheck(w)
         \/ BootCompleteNested(w) \/ BootCompleteNestedWake(w) \/ BootCompleteReset(w)
         \/ BootCompleteRequest(w) \/ BootCompleteWait(w) \/ BootCompleteDone(w)
  PROVE  Flow'
<1> USE DEF FInv
<1>1. TypeOK /\ w \in Threads /\ w # "pm"
  BY DEF SInv, TInv, Threads, Workers
<1> USE DEF BootCompletePost, BootCompleteCheck, BootCompleteNested, BootCompleteNestedWake,
            BootCompleteReset, BootCompleteRequest, BootCompleteWait, BootCompleteDone
<1>2. pc[w] \in EarlyLabels
  BY DEF EarlyLabels
<1>3. UNCHANGED <<work, bci, asi, ch, fw, fw_cmds, fw_cmd, fw_rm,
                  cmd_mb, irq_mb, ack, mb_locked, isr, isr_wait>>
  BY DEF mbVars, chVars, isrVars, fwVars
<1>4. BootDone' <=> BootDone
  BY DEF BootDone, SetStatus
<1>5. complete'["BOOT_CMD"] = complete["BOOT_CMD"]
  BY <1>1 DEF fsmVars, dce_cond_wait_reset, dce_wakeup_interruptible, WaitConsume, TypeOK, FsmTypeOK, Waits
<1>6. PICK l \in EarlyLabels \cup {"idle", "cmd_post"} : Goto(w, l)
  BY DEF Post, EarlyLabels
<1> USE DEF EarlyLabels
<1>7. bci[w] = 1 /\ Taken(0) /\ (Taken(0)' <=> Taken(0))
  BY <1>2, <1>3 DEF Progress, TakenAt, Taken
<1>8. TakenAt(l, bci[w])'
  <2>1. bci'[w] = 1 /\ bci'[w] - 1 = 0
    BY <1>3, <1>7
  <2> QED
    BY <1>7, <2>1 DEF TakenAt, LateLabels, RpcLabels
<1>9. ServedAt(w, l, asi[w])'
  BY DEF ServedAt, RpcLabels
<1>10. pc[w] # "idle" /\ pc[w] # "cmd_wait" /\ l # "cmd_wait"
  BY <1>2
<1> QED
  BY <1>1, <1>3, <1>4, <1>5, <1>6, <1>8, <1>9, <1>10, ThreadStep

(* A worker that has the flow to itself. *)
LEMMA WorkerAlone ==
  ASSUME FInv, NEW w \in Workers, Active(w)
  PROVE  /\ TypeOK /\ w \in Threads /\ w # "pm" /\ "pm" \in Threads
         /\ Workers \subseteq Threads /\ Users \subseteq Threads
         /\ w \notin Users /\ "pm" \notin Workers
         /\ ~ BootDone /\ pc["pm"] = "idle"
         /\ \A u \in Users : pc[u] = "idle"
         /\ \A v \in Workers : v # w => pc[v] = "idle" /\ v \notin work
         /\ ~ (w \in work /\ pc[w] # "idle")
<1>1. /\ TypeOK /\ w \in Threads /\ w # "pm" /\ "pm" \in Threads
      /\ Workers \subseteq Threads /\ Users \subseteq Threads
      /\ w \notin Users /\ "pm" \notin Workers
  BY BootAssumption DEF FInv, SInv, TInv, Threads, Workers, BootAssumption
<1>2. ~ BootDone /\ pc["pm"] = "idle" /\ ~ (w \in work /\ pc[w] # "idle")
  BY DEF FInv, Alone
<1>3. \A u \in Users : pc[u] = "idle"
  BY <1>2 DEF FInv, Alone
<1>4. \A v \in Workers : v # w => ~ Active(v)
  BY DEF FInv, Alone
<1> QED
  BY <1>1, <1>2, <1>3, <1>4 DEF Active

(* A step of the worker that has the flow to itself, by its parts. *)
LEMMA WorkerParts ==
  ASSUME FInv, NEW w \in Workers, Active(w), NEW l, Goto(w, l),
         work' = work \ {w}, ~ BootDone', OneCmd', ~ mb_locked',
         (\E n \in 0 .. NumBootCmds : Taken(n))', (fw_cmds # <<>> => fw # "booting")',
         TakenAt(l, bci[w])', ServedAt(w, l, asi[w])'
  PROVE  Flow'
<1>1. /\ pc'[w] = l /\ pc'["pm"] = "idle" /\ \A u \in Users : pc'[u] = "idle"
      /\ \A v \in Workers : v # w => pc'[v] = "idle" /\ v \notin work'
      /\ w \notin work' /\ "pm" \notin Workers
  BY WorkerAlone DEF Goto, TypeOK, ThrTypeOK
<1>2. Alone'
  BY <1>1 DEF Alone, Active
<1>3. \A v \in Workers : TakenAt(pc[v], bci[v])' /\ v \notin work'
  <2> TAKE v \in Workers
  <2>1. CASE v = w
    BY <1>1, <2>1 DEF TakenAt
  <2>2. CASE v # w
    BY <1>1, <2>2 DEF TakenAt, EarlyLabels, LateLabels, RpcLabels
  <2> QED
    BY <2>1, <2>2
<1>4. Progress'
  BY <1>1, <1>3 DEF Progress
<1>5. Serving'
  <2>1. \A v \in Workers : ServedAt(v, pc[v], asi[v])'
    <3> TAKE v \in Workers
    <3>1. CASE v = w
      BY <1>1, <3>1 DEF ServedAt
    <3>2. CASE v # w
      BY <1>1, <3>2 DEF ServedAt, RpcLabels
    <3> QED
      BY <3>1, <3>2
  <2> QED
    BY <2>1 DEF Serving
<1> QED
  BY <1>2, <1>4, <1>5 DEF Flow

LEMMA StartFlow ==
  ASSUME FInv, NEW w \in Workers, WorkStart(w)
  PROVE  Flow'
<1> USE DEF FInv
<1>1. Active(w) /\ pc[w] = "idle" /\ w \in work
  BY DEF WorkStart, Active
<1>2. TypeOK /\ ~ BootDone /\ \A v \in Workers : v # w => pc[v] = "idle"
  BY <1>1, WorkerAlone
<1>3. /\ work' = work \ {w} /\ bci'[w] = 1 /\ \E l \in {"bc_post", "idle"} : Goto(w, l)
      /\ UNCHANGED <<complete, boot_status, mbVars, chVars, isrVars, fwVars>>
  BY <1>2 DEF WorkStart, Post, TypeOK, ThrTypeOK
<1>4. PICK l \in {"bc_post", "idle"} : Goto(w, l)
  BY <1>3
<1>5. ~ BootDone' /\ ~ mb_locked'
  BY <1>2, <1>3 DEF BootDone, mbVars
<1>6. \A v \in Workers : pc[v] # "cmd_wait" /\ pc'[v] # "cmd_wait"
  BY <1>1, <1>2, <1>4, WorkerAlone DEF Goto, TypeOK, ThrTypeOK
<1>7. OneCmd'
  BY <1>3, <1>6 DEF OneCmd, NoCmd, CmdInMailbox, CmdInFw, CmdInIrq, CmdInHandler, CmdToWake, CmdWoken,
                    mbVars, isrVars, fwVars
<1>8. /\ Taken(0) /\ (\A n : Taken(n)' <=> Taken(n))
      /\ (\E n \in 0 .. NumBootCmds : Taken(n)) /\ (fw_cmds # <<>> => fw # "booting")'
  BY <1>1, <1>3 DEF Progress, Taken, fwVars
<1>9. TakenAt(l, bci[w])'
  BY <1>3, <1>8 DEF TakenAt, LateLabels, RpcLabels
<1>10. ServedAt(w, l, asi[w])'
  BY DEF ServedAt, RpcLabels
<1> QED
  BY <1>1, <1>3, <1>4, <1>5, <1>7, <1>8, <1>9, <1>10, WorkerParts

(* The boot commands. *)
LEMMA CmdFlow ==
  ASSUME FInv, NEW w \in Workers,
         CmdPost(w) \/ CmdSend(w) \/ CmdWait(w) \/ CmdStatus(w) \/ CmdFail(w) \/ BootFail(w)
  PROVE  Flow'
<1> USE DEF FInv
<1>1. pc[w] \in {"cmd_post", "cmd_send", "cmd_wait", "cmd_status", "cmd_fail", "boot_fail"}
  BY DEF CmdPost, CmdSend, CmdWait, CmdStatus, CmdFail, BootFail
<1>2. Active(w) /\ pc[w] # "idle" /\ w \notin work
  BY <1>1, WorkerAlone DEF Active
<1>3. /\ TypeOK /\ w \in Threads /\ w # "pm" /\ ~ BootDone
      /\ \A v \in Workers : v # w => pc[v] = "idle"
  BY <1>2, WorkerAlone
<1>4. TakenAt(pc[w], bci[w]) /\ bci[w] \in 1 .. NumBootCmds /\ NumBootCmds = 15
  BY <1>3, NumBootCmdsFact DEF Progress, TypeOK, ThrTypeOK
<1>5. (\E n \in 0 .. NumBootCmds : Taken(n)) /\ (fw_cmds # <<>> => fw # "booting")
  BY DEF Progress
<1>6. ASSUME NEW l \in {"cmd_post", "cmd_send", "cmd_fail", "boot_fail", "idle", "ch_reset"}, Goto(w, l),
             pc[w] # "cmd_wait", UNCHANGED <<complete, mbVars, chVars, work, isrVars, fwVars>>,
             ~ BootDone', TakenAt(l, bci[w])', ServedAt(w, l, asi[w])'
      PROVE  Flow'
  BY <1>2, <1>3, <1>6, ThreadStep DEF mbVars, isrVars, fwVars
<1>7. CASE CmdPost(w)
  <2>1. PICK l \in {"cmd_send", "boot_fail"} : Goto(w, l)
    BY <1>7 DEF CmdPost, Post
  <2>2. pc[w] = "cmd_post" /\ UNCHANGED <<complete, boot_status, bci, mbVars, chVars, work, isrVars, fwVars>>
    BY <1>7 DEF CmdPost
  <2>3. TakenAt(l, bci[w])'
    BY <1>4, <2>2 DEF TakenAt, EarlyLabels, LateLabels, RpcLabels, Taken, fwVars
  <2>4. ServedAt(w, l, asi[w])'
    BY DEF ServedAt, RpcLabels
  <2> QED
    BY <1>3, <1>6, <2>1, <2>2, <2>3, <2>4 DEF BootDone
<1>8. CASE CmdSend(w)
  <2>1. /\ pc[w] = "cmd_send" /\ UNCHANGED <<complete, boot_status, bci, irq_mb, work, isrVars, fwVars>>
    BY <1>8 DEF CmdSend, fsmVars
  <2>2. \A v \in Workers : pc[v] # "cmd_wait"
    BY <1>3, <2>1
  <2>3. NoCmd
    BY <2>2 DEF OneCmd
  <2>4. cmd_mb' = bci[w] /\ ack' = NoStatus /\ Goto(w, "cmd_wait") /\ ~ mb_locked'
    BY <1>8, <2>3 DEF CmdSend, NoCmd, CmdInMailbox
  <2>5. pc'[w] = "cmd_wait"
    BY <1>3, <2>4 DEF Goto, TypeOK, ThrTypeOK
  <2>6. OneCmd'
    BY <2>1, <2>3, <2>4, <2>5 DEF OneCmd, NoCmd, CmdInMailbox, CmdInFw, CmdInIrq, CmdInHandler, CmdToWake,
                                  CmdWoken, NoStatus, Irq, isrVars, fwVars
  <2>7. (\A n : Taken(n)' <=> Taken(n)) /\ Taken(bci[w] - 1)
    BY <1>4, <2>1 DEF TakenAt, Taken, fwVars
  <2>8. TakenAt("cmd_wait", bci[w])'
    <3>1. cmd_mb' # 0 /\ cmd_mb' = bci'[w] /\ bci'[w] = bci[w]
      BY <1>4, <2>1, <2>4
    <3>2. Taken(bci[w] - 1)'
      BY <2>1, <2>7 DEF Taken
    <3> QED
      BY <3>1, <3>2 DEF TakenAt, EarlyLabels, LateLabels, RpcLabels, CmdInMailbox
  <2>9. ServedAt(w, "cmd_wait", asi[w])'
    BY DEF ServedAt, RpcLabels
  <2>10. ~ BootDone' /\ work' = work \ {w} /\ (fw_cmds # <<>> => fw # "booting")'
    BY <1>2, <1>3, <1>5, <2>1 DEF BootDone, fwVars
  <2> QED
    BY <1>2, <1>5, <2>4, <2>6, <2>7, <2>8, <2>9, <2>10, WorkerParts
<1>9. CASE CmdWait(w)
  <2>1. /\ pc[w] = "cmd_wait" /\ Goto(w, "cmd_status")
        /\ complete["BOOT_CMD"] /\ ~ complete'["BOOT_CMD"]
        /\ UNCHANGED <<boot_status, bci, mbVars, work, isrVars, fwVars>>
    BY <1>3, <1>9 DEF CmdWait, WaitConsume, TypeOK, FsmTypeOK, Waits
  <2>2. ~ (CmdInMailbox \/ CmdInFw \/ CmdInIrq \/ CmdInHandler \/ CmdToWake)
    BY <2>1 DEF OneCmd, CmdWoken
  <2>3. NoCmd'
    BY <2>1, <2>2 DEF NoCmd, CmdInMailbox, CmdInFw, CmdInIrq, CmdInHandler, CmdToWake,
                      CmdWoken, mbVars, isrVars, fwVars
  <2>4. OneCmd' /\ ~ mb_locked'
    BY <2>1, <2>3 DEF OneCmd, NoCmd, mbVars
  <2>5. (\A n : Taken(n)' <=> Taken(n)) /\ Taken(bci[w])
    BY <1>4, <2>1, <2>2 DEF TakenAt, Taken, fwVars
  <2>6. TakenAt("cmd_status", bci[w])'
    <3>1. Taken(bci[w])'
      BY <2>1, <2>5 DEF Taken
    <3> QED
      BY <3>1 DEF TakenAt, EarlyLabels, LateLabels, RpcLabels
  <2>7. ServedAt(w, "cmd_status", asi[w])'
    BY DEF ServedAt, RpcLabels
  <2>8. ~ BootDone' /\ work' = work \ {w} /\ (fw_cmds # <<>> => fw # "booting")'
    BY <1>2, <1>3, <1>5, <2>1 DEF BootDone, fwVars
  <2> QED
    BY <1>2, <1>5, <2>1, <2>4, <2>5, <2>6, <2>7, <2>8, WorkerParts
<1>10. CASE CmdStatus(w)
  <2>1. /\ pc[w] = "cmd_status" /\ UNCHANGED <<complete, asi, mbVars, chVars, work, isrVars, fwVars>>
        /\ ~ BootDone'
    BY <1>3, <1>10 DEF CmdStatus, fsmVars, BootDone, SetStatus
  <2>2. Taken(bci[w]) /\ (\A n : Taken(n)' <=> Taken(n)) /\ asi[w] = 0 /\ asi'[w] = 0
    BY <1>4, <2>1 DEF TakenAt, Taken, fwVars, SInv, TInv, SeqPlace, PlaceOf, BootLabels
  <2>3. CASE Goto(w, "cmd_fail")
    <3>1. TakenAt("cmd_fail", bci[w])' /\ ServedAt(w, "cmd_fail", asi[w])'
      BY DEF TakenAt, EarlyLabels, LateLabels, RpcLabels, ServedAt
    <3> QED
      BY <1>6, <2>1, <2>3, <3>1
  <2>4. CASE bci[w] < NumBootCmds /\ bci' = [bci EXCEPT ![w] = @ + 1] /\ Goto(w, "cmd_post")
    <3>1. bci'[w] - 1 = bci[w]
      BY <1>3, <1>4, <2>4 DEF TypeOK, ThrTypeOK
    <3>2. Taken(bci[w] - 1)'
      <4>1. Len(fw_cmds') = bci'[w] - 1 /\ \A i \in 1 .. bci'[w] - 1 : fw_cmds'[i] = BootCmdSeq[i]
        BY <2>1, <2>2, <3>1 DEF Taken, fwVars
      <4> QED
        BY <4>1 DEF Taken
    <3>3. TakenAt("cmd_post", bci[w])' /\ ServedAt(w, "cmd_post", asi[w])'
      BY <3>2 DEF TakenAt, EarlyLabels, LateLabels, RpcLabels, ServedAt
    <3> QED
      BY <1>6, <2>1, <2>4, <3>3
  <2>5. CASE bci[w] = NumBootCmds /\ UNCHANGED bci /\ Goto(w, "ch_reset")
    <3>1. Taken(NumBootCmds)'
      BY <2>1, <2>2, <2>5 DEF Taken, fwVars
    <3>2. TakenAt("ch_reset", bci[w])' /\ ServedAt(w, "ch_reset", asi[w])'
      BY <2>2, <3>1 DEF TakenAt, EarlyLabels, LateLabels, RpcLabels, ServedAt
    <3> QED
      BY <1>6, <2>1, <2>5, <3>2
  <2> QED
    BY <1>10, <2>3, <2>4, <2>5 DEF CmdStatus
<1>11. CASE CmdFail(w) \/ BootFail(w)
  <2>1. PICK l \in {"boot_fail", "idle"} : Goto(w, l)
    BY <1>11 DEF CmdFail, BootFail
  <2>2. /\ pc[w] # "cmd_wait" /\ ~ BootDone' /\ UNCHANGED <<complete, mbVars, chVars, work, isrVars, fwVars>>
    BY <1>3, <1>11 DEF CmdFail, BootFail, fsmVars, BootDone, SetStatus
  <2>3. TakenAt(l, bci[w])' /\ ServedAt(w, l, asi[w])'
    BY DEF TakenAt, EarlyLabels, LateLabels, RpcLabels, ServedAt
  <2> QED
    BY <1>6, <2>1, <2>2, <2>3
<1> QED
  BY <1>7, <1>8, <1>9, <1>10, <1>11

(* The channels and the admin sequence. *)
LEMMA SeqFlow ==
  ASSUME FInv, NEW w \in Workers, ChannelReset(w) \/ ChannelReady(w) \/ SeqStart(w) \/ SeqReply(w)
  PROVE  Flow'
<1> USE DEF FInv
<1>1. pc[w] \in {"ch_reset", "ch_ready", "seq_alloc", "rpc_ok", "rpc_err"}
  BY DEF ChannelReset, ChannelReady, SeqStart, SeqReply
<1>2. Active(w) /\ pc[w] # "idle" /\ w \notin work
  BY <1>1, WorkerAlone DEF Active
<1>3. /\ TypeOK /\ w \in Threads /\ w # "pm" /\ ~ BootDone
      /\ \A v \in Workers : v # w => pc[v] = "idle"
  BY <1>2, WorkerAlone
<1>4. UNCHANGED <<complete, bci, mbVars, tx, rx, work, isrVars, fwVars>>
  BY DEF ChannelReset, ChannelReady, SeqStart, SeqReply, fsmVars, chVars
<1>5. Taken(NumBootCmds) /\ Taken(NumBootCmds)' /\ (Empty' <=> Empty)
  BY <1>1, <1>4 DEF Progress, TakenAt, LateLabels, RpcLabels, Taken, fwVars, Empty
<1>6. ServedAt(w, pc[w], asi[w]) /\ PlaceOf(pc[w], asi[w])
  BY DEF Serving, SInv, TInv, SeqPlace
<1>7. \A l \in LateLabels \cup {"idle"} : TakenAt(l, bci[w])'
  BY <1>5 DEF TakenAt, LateLabels, RpcLabels, EarlyLabels
<1>8. ASSUME NEW l \in LateLabels \cup {"idle"}, Goto(w, l), ~ BootDone', ServedAt(w, l, asi[w])'
      PROVE  Flow'
  <2>1. l # "cmd_wait" /\ pc[w] # "cmd_wait"
    BY <1>1, <1>8 DEF LateLabels, RpcLabels
  <2> QED
    BY <1>2, <1>3, <1>4, <1>7, <1>8, <2>1, ThreadStep DEF mbVars, isrVars, fwVars
<1>9. CASE ChannelReset(w)
  <2>1. /\ pc[w] = "ch_reset" /\ Goto(w, "ch_ready") /\ asi' = asi /\ ~ BootDone'
        /\ ch' = [ch EXCEPT ![ResetChannel(w)] = "sync"] /\ asi[w] \in {0, 2, 3}
    BY <1>3, <1>6, <1>9 DEF ChannelReset, BootDone, PlaceOf
  <2>2. CASE asi[w] = 0
    <3>1. ch'["ADMIN"] = "sync"
      BY <1>3, <2>1, <2>2 DEF ResetChannel, TypeOK, ChTypeOK, Channels
    <3>2. ServedAt(w, "ch_ready", asi[w])'
      BY <2>1, <2>2, <3>1 DEF ServedAt, RpcLabels
    <3> QED
      BY <1>8, <2>1, <3>2 DEF LateLabels
  <2>3. CASE asi[w] # 0
    <3>1. ch'["ADMIN"] = ch["ADMIN"] /\ ch["ADMIN"] = "synced" /\ Empty
      BY <1>3, <1>6, <2>1, <2>3 DEF ResetChannel, ChannelOf, TypeOK, ChTypeOK, Channels, ServedAt
    <3>2. ServedAt(w, "ch_ready", asi[w])'
      BY <1>5, <2>1, <2>3, <3>1 DEF ServedAt, RpcLabels
    <3> QED
      BY <1>8, <2>1, <3>2 DEF LateLabels
  <2> QED
    BY <2>2, <2>3
<1>10. CASE ChannelReady(w)
  <2>1. /\ pc[w] = "ch_ready" /\ Goto(w, IF asi[w] = 0 THEN "seq_alloc" ELSE "rpc_post") /\ ~ BootDone'
        /\ ch' = [ch EXCEPT ![ResetChannel(w)] = "synced"] /\ Established(ResetChannel(w))
    BY <1>3, <1>10 DEF ChannelReady, BootDone
  <2>2. ch'["ADMIN"] = "synced" /\ Empty
    <3>1. CASE asi[w] = 0
      BY <1>3, <1>6, <2>1, <3>1 DEF ResetChannel, Established, TypeOK, ChTypeOK, Channels, ServedAt
    <3>2. CASE asi[w] # 0
      BY <1>3, <1>6, <2>1, <3>2 DEF ResetChannel, ChannelOf, TypeOK, ChTypeOK, Channels, ServedAt
    <3> QED
      BY <3>1, <3>2
  <2>3. \A l \in {"seq_alloc", "rpc_post"} : ServedAt(w, l, asi[w])'
    BY <1>5, <2>2 DEF ServedAt, RpcLabels
  <2> QED
    BY <1>8, <2>1, <2>3 DEF LateLabels, RpcLabels
<1>11. CASE SeqStart(w)
  <2>1. /\ pc[w] = "seq_alloc" /\ (Goto(w, "rpc_post") \/ Goto(w, "idle")) /\ ~ BootDone'
        /\ UNCHANGED <<ch, asi>>
    BY <1>3, <1>11 DEF SeqStart, BootDone, SetStatus, chVars
  <2>2. \A l \in {"idle", "rpc_post"} : ServedAt(w, l, asi[w])'
    BY <1>5, <1>6, <2>1 DEF ServedAt, RpcLabels
  <2> QED
    BY <1>8, <2>1, <2>2 DEF LateLabels, RpcLabels
<1>12. CASE SeqReply(w)
  <2> DEFINE cmd == AdminSeq[asi[w]]
             failed == pc[w] = "rpc_err" \/ (cmd = "RM_BOOTSTRAP" /\ resp[w].err)
  <2>1. /\ pc[w] \in {"rpc_ok", "rpc_err"} /\ UNCHANGED ch /\ asi[w] \in 1 .. 4
        /\ ch["ADMIN"] = "synced"
        /\ pc[w] = "rpc_ok" => Empty /\ Answers(resp[w], cmd)
    BY <1>6, <1>12 DEF SeqReply, chVars, PlaceOf, RpcLabels, ServedAt
  <2>2. CASE failed /\ ~ BootDone' /\ Goto(w, "idle")
    <3>1. ServedAt(w, "idle", asi[w])'
      BY DEF ServedAt, RpcLabels
    <3> QED
      BY <1>8, <2>2, <3>1
  <2>3. CASE /\ ~ failed /\ cmd = "RM_BOOTSTRAP" /\ Goto(w, "idle")
    <3>1. fw_rm /\ fw_rm'
      BY <1>4, <2>1, <2>3 DEF Answers, fwVars
    <3>2. /\ "pm" \in Threads /\ Workers \subseteq Threads /\ Users \subseteq Threads
          /\ w \notin Users /\ w # "pm" /\ "pm" \notin Workers /\ pc["pm"] = "idle"
          /\ \A u \in Users : pc[u] = "idle"
          /\ \A v \in Workers : v # w => pc[v] = "idle" /\ v \notin work
      BY <1>2, WorkerAlone
    <3>3. /\ pc'["pm"] = "idle" /\ \A u \in Users : pc'[u] = "idle"
          /\ \A v \in Workers : pc'[v] = "idle" /\ v \notin work'
      BY <1>2, <1>3, <1>4, <2>3, <3>2 DEF Goto, TypeOK, ThrTypeOK
    <3>4. Alone'
      BY <3>3 DEF Alone, Active
    <3>5. \A v \in Workers : pc[v] # "cmd_wait"
      BY <1>1, <1>3
    <3>6. OneCmd' /\ ~ mb_locked'
      BY <1>4, <3>5 DEF OneCmd, NoCmd, CmdInMailbox, CmdInFw, CmdInIrq, CmdInHandler, CmdToWake, CmdWoken,
                        mbVars, isrVars, fwVars
    <3>7. Progress'
      <4>1. \A v \in Workers : TakenAt(pc[v], bci[v])'
        BY <3>3 DEF TakenAt, EarlyLabels, LateLabels, RpcLabels
      <4>2. (fw_cmds # <<>> => fw # "booting")' /\ NumBootCmds \in 0 .. NumBootCmds
        BY <1>4, NumBootCmdsFact DEF Progress, fwVars
      <4> QED
        BY <1>5, <3>3, <4>1, <4>2 DEF Progress
    <3>8. Serving'
      <4>1. \A v \in Workers : ServedAt(v, pc[v], asi[v])'
        BY <3>3 DEF ServedAt, RpcLabels
      <4> QED
        BY <2>1, <3>1, <4>1 DEF Serving
    <3> QED
      BY <3>4, <3>6, <3>7, <3>8 DEF Flow
  <2>4. CASE /\ ~ failed /\ UNCHANGED boot_status
             /\ Goto(w, "rpc_post") \/ (UNCHANGED asi /\ Goto(w, "ch_reset"))
    <3>1. Empty' /\ ch'["ADMIN"] = "synced" /\ ~ BootDone'
      BY <1>3, <1>5, <2>1, <2>4 DEF BootDone
    <3>2. ServedAt(w, "rpc_post", asi[w])'
      BY <3>1 DEF ServedAt, RpcLabels
    <3>3. ServedAt(w, "ch_reset", asi[w])'
      BY <3>1 DEF ServedAt, RpcLabels
    <3> QED
      BY <1>8, <2>4, <3>1, <3>2, <3>3 DEF LateLabels, RpcLabels
  <2>5. /\ failed => ~ BootDone' /\ Goto(w, "idle")
        /\ ~ failed => \/ cmd = "RM_BOOTSTRAP" /\ Goto(w, "idle")
                       \/ UNCHANGED boot_status /\ (Goto(w, "rpc_post") \/ (UNCHANGED asi /\ Goto(w, "ch_reset")))
    BY <1>3, <1>12 DEF SeqReply, BootDone, SetStatus
  <2> QED
    BY <2>2, <2>3, <2>4, <2>5
<1> QED
  BY <1>9, <1>10, <1>11, <1>12

(* A step that nobody takes while a worker is active, and that leaves the  *)
(* mailboxes, the handler and the firmware alone.                          *)
LEMMA RestingStep ==
  ASSUME FInv, \A w \in Workers : ~ Active(w), UNCHANGED work,
         \A w \in Workers : pc'[w] = pc[w], Alone',
         UNCHANGED <<fw, fw_cmds, fw_cmd, fw_rm, cmd_mb, irq_mb, ack, mb_locked, isr, isr_wait, ch>>,
         complete'["BOOT_CMD"] = complete["BOOT_CMD"],
         BootDone' => BootDone, pc'["pm"] # "powered"
  PROVE  Flow'
<1> USE DEF FInv
<1>1. \A w \in Workers : pc[w] = "idle" /\ pc'[w] = "idle" /\ w \notin work'
  BY DEF Active
<1>2. OneCmd' /\ ~ mb_locked'
  BY <1>1 DEF OneCmd, NoCmd, CmdInMailbox, CmdInFw, CmdInIrq, CmdInHandler, CmdToWake, CmdWoken
<1>3. Progress'
  <2>1. \A n : Taken(n)' <=> Taken(n)
    BY DEF Taken
  <2>2. \A w \in Workers : TakenAt(pc[w], bci[w])'
    BY <1>1 DEF TakenAt, EarlyLabels, LateLabels, RpcLabels
  <2> QED
    BY <1>1, <2>1, <2>2 DEF Progress
<1>4. Serving'
  <2>1. \A w \in Workers : ServedAt(w, pc[w], asi[w])'
    BY <1>1 DEF ServedAt, RpcLabels
  <2> QED
    BY <2>1 DEF Serving
<1> QED
  BY <1>2, <1>3, <1>4 DEF Flow

LEMMA PmFlow ==
  ASSUME FInv, ~ EarlySuspend, ~ AllocFail,
         PmSuspend \/ PmStep \/ PmEnterAllocFail \/ PmEnterInterrupt
  PROVE  Flow'
<1> USE DEF FInv
<1>1. /\ TypeOK /\ "pm" \in Threads /\ Workers \subseteq Threads /\ Users \subseteq Threads
      /\ "pm" \notin Workers /\ "pm" \notin Users /\ "BOOT_CMD" \in Waits /\ "resume" \in Workers
  BY BootAssumption DEF SInv, TInv, Threads, Workers, BootAssumption, Waits
<1>2. ASSUME NEW l, Goto("pm", l)
      PROVE  /\ pc'["pm"] = l /\ \A w \in Workers : pc'[w] = pc[w]
             /\ \A u \in Users : pc'[u] = pc[u]
  BY <1>1, <1>2 DEF Goto, TypeOK, ThrTypeOK
<1>3. ASSUME NEW l, Goto("pm", l), pc["pm"] \notin {"idle", "suspended", "powered"},
             l \notin {"suspended", "powered"},
             complete'["BOOT_CMD"] = complete["BOOT_CMD"],
             UNCHANGED <<boot_status, mbVars, ch, work, isrVars, fwVars>>
      PROVE  Flow'
  <2>1. pc["pm"] # "idle" /\ {pc["pm"], l} \cap {"suspended", "powered"} = {}
    BY <1>3
  <2>2. BootDone' <=> BootDone
    BY <1>3 DEF BootDone
  <2> QED
    BY <1>1, <1>3, <2>1, <2>2, ThreadStep DEF mbVars, isrVars, fwVars
<1>4. CASE PmSuspend
  <2>1. /\ pc["pm"] = "idle" /\ (\A u \in Users : pc[u] = "idle") /\ BootDone /\ BootDone'
        /\ Goto("pm", "rpc_post")
        /\ UNCHANGED <<complete, work, fw, fw_cmds, fw_cmd, fw_rm, cmd_mb, irq_mb, ack, mb_locked,
                       isr, isr_wait, ch>>
    BY <1>4 DEF PmSuspend, BootDone, fsmVars, chVars, isrVars, fwVars
  <2>2. \A w \in Workers : ~ Active(w)
    BY <2>1 DEF Alone
  <2>3. Alone'
    BY <1>2, <2>1, <2>2 DEF Alone, Active
  <2> QED
    BY <1>2, <2>1, <2>2, <2>3, RestingStep
<1>5. CASE PmPrepared
  BY <1>3, <1>5 DEF PmPrepared, fsmVars, chVars
<1>6. CASE PmEnterPost
  <2>1. PICK l \in {"sc7_send", "idle"} : Goto("pm", l)
    BY <1>6 DEF PmEnterPost, Post
  <2> QED
    BY <1>3, <1>6, <2>1 DEF PmEnterPost, chVars
<1>7. CASE PmEnterSend
  <2>1. PICK l \in {"sc7_wait", "sc7_fail"} : Goto("pm", l)
    BY <1>7 DEF PmEnterSend
  <2> QED
    BY <1>3, <1>7, <2>1 DEF PmEnterSend, fsmVars
<1>8. CASE PmEnterAllocFail
  BY <1>8 DEF PmEnterAllocFail
<1>9. CASE PmEnterWait
  <2>1. complete'["BOOT_CMD"] = complete["BOOT_CMD"]
    BY <1>1, <1>9 DEF PmEnterWait, WaitConsume, TypeOK, FsmTypeOK
  <2> QED
    BY <1>3, <1>9, <2>1 DEF PmEnterWait, chVars
<1>10. CASE PmEnterInterrupt
  BY <1>3, <1>10 DEF PmEnterInterrupt, fsmVars, chVars
<1>11. CASE PmEnterDone
  <2>1. /\ pc["pm"] = "sc7_done" /\ ~ BootDone' /\ Goto("pm", "suspended")
        /\ UNCHANGED <<complete, work, fw, fw_cmds, fw_cmd, fw_rm, cmd_mb, irq_mb, ack, mb_locked,
                       isr, isr_wait, ch>>
    BY <1>11 DEF PmEnterDone, BootDone, fsmVars, chVars, mbVars, isrVars, fwVars
  <2>2. (\A w \in Workers : ~ Active(w)) /\ \A u \in Users : pc[u] = "idle"
    BY <2>1 DEF Alone
  <2>3. Alone'
    BY <1>2, <2>1, <2>2 DEF Alone, Active
  <2> QED
    BY <1>2, <2>1, <2>2, <2>3, RestingStep
<1>12. CASE PmEnterFail
  BY <1>3, <1>12 DEF PmEnterFail, chVars
<1>13. CASE PowerCycle
  <2>1. /\ pc["pm"] = "suspended" /\ isr = "idle" /\ isr' = "idle" /\ Goto("pm", "powered")
        /\ cmd_mb' = 0 /\ irq_mb' = NoStatus /\ fw_cmd' = 0 /\ fw_cmds' = <<>> /\ fw' = "booting"
        /\ UNCHANGED <<complete, boot_status, mb_locked, work, isr_wait, ch>>
    BY <1>13 DEF PowerCycle, fsmVars, chVars, isrVars
  <2>2. ~ BootDone /\ ~ BootDone' /\ (\A w \in Workers : ~ Active(w)) /\ \A u \in Users : pc[u] = "idle"
    BY <2>1 DEF Alone, BootDone
  <2>3. \A w \in Workers : pc[w] = "idle" /\ pc'[w] = "idle" /\ w \notin work'
    BY <1>2, <2>1, <2>2 DEF Active
  <2>4. Alone'
    BY <1>2, <2>1, <2>2, <2>3 DEF Alone, Active
  <2>5. NoCmd
    BY <2>3 DEF OneCmd
  <2>6. OneCmd' /\ ~ mb_locked'
    BY <2>1, <2>5 DEF OneCmd, NoCmd, CmdInMailbox, CmdInFw, CmdInIrq, CmdInHandler, CmdToWake, CmdWoken,
                      NoStatus, Irq
  <2>7. Taken(0)' /\ 0 \in 0 .. NumBootCmds
    BY <2>1, NumBootCmdsFact DEF Taken
  <2>8. Progress'
    <3>1. \A w \in Workers : TakenAt(pc[w], bci[w])'
      BY <2>3 DEF TakenAt, EarlyLabels, LateLabels, RpcLabels
    <3> QED
      BY <2>1, <2>2, <2>3, <2>7, <3>1 DEF Progress
  <2>9. Serving'
    <3>1. \A w \in Workers : ServedAt(w, pc[w], asi[w])'
      BY <2>3 DEF ServedAt, RpcLabels
    <3> QED
      BY <2>2, <3>1 DEF Serving
  <2> QED
    BY <2>4, <2>6, <2>8, <2>9 DEF Flow
<1>14. CASE PmResume
  <2>1. /\ pc["pm"] = "powered" /\ Goto("pm", "idle") /\ work' \subseteq work \cup {"resume"}
        /\ UNCHANGED <<complete, boot_status, fw, fw_cmds, fw_cmd, fw_rm, cmd_mb, irq_mb, ack, mb_locked,
                       isr, isr_wait, ch>>
    BY <1>14 DEF PmResume, Post, chVars, isrVars, fwVars
  <2>2. ~ BootDone /\ ~ BootDone' /\ (\A w \in Workers : ~ Active(w)) /\ \A u \in Users : pc[u] = "idle"
    BY <2>1 DEF Alone, BootDone
  <2>3. \A w \in Workers : pc[w] = "idle" /\ pc'[w] = "idle" /\ (w \in work' => w = "resume")
    BY <1>2, <2>1, <2>2 DEF Active
  <2>4. Alone'
    BY <1>2, <2>1, <2>2, <2>3 DEF Alone, Active
  <2>5. OneCmd' /\ ~ mb_locked'
    BY <2>1, <2>3 DEF OneCmd, NoCmd, CmdInMailbox, CmdInFw, CmdInIrq, CmdInHandler, CmdToWake, CmdWoken
  <2>6. Taken(0) /\ \A n : Taken(n)' <=> Taken(n)
    BY <2>1 DEF Progress, Taken
  <2>7. Progress'
    <3>1. \A w \in Workers : TakenAt(pc[w], bci[w])'
      BY <2>3 DEF TakenAt, EarlyLabels, LateLabels, RpcLabels
    <3>2. 0 \in 0 .. NumBootCmds /\ (fw_cmds # <<>> => fw # "booting")'
      BY <2>1, NumBootCmdsFact DEF Progress
    <3>3. pc'["pm"] = "idle"
      BY <1>2, <2>1
    <3> QED
      BY <2>2, <2>6, <3>1, <3>2, <3>3 DEF Progress
  <2>8. Serving'
    <3>1. \A w \in Workers : ServedAt(w, pc[w], asi[w])'
      BY <2>3 DEF ServedAt, RpcLabels
    <3> QED
      BY <2>2, <3>1 DEF Serving
  <2> QED
    BY <2>4, <2>5, <2>7, <2>8 DEF Flow
<1> QED
  BY <1>4, <1>5, <1>6, <1>7, <1>8, <1>9, <1>10, <1>11, <1>12, <1>13, <1>14 DEF PmStep

LEMMA UserFlow ==
  ASSUME FInv, NEW u \in Users, UserCall(u) \/ UserReturn(u)
  PROVE  Flow'
<1> USE DEF FInv
<1>1. /\ TypeOK /\ u \in Threads /\ "pm" \in Threads /\ Workers \subseteq Threads /\ Users \subseteq Threads
      /\ u # "pm" /\ u \notin Workers /\ "pm" \notin Workers
  BY BootAssumption DEF SInv, TInv, Threads, Workers, BootAssumption
<1>2. CASE UserCall(u)
  <2>1. /\ pc["pm"] = "idle" /\ BootDone /\ BootDone' /\ Goto(u, "rpc_post")
        /\ UNCHANGED <<complete, work, fw, fw_cmds, fw_cmd, fw_rm, cmd_mb, irq_mb, ack, mb_locked,
                       isr, isr_wait, ch>>
    BY <1>2 DEF UserCall, BootDone, fsmVars, chVars, mbVars, isrVars, fwVars
  <2>2. \A w \in Workers : ~ Active(w)
    BY <2>1 DEF Alone
  <2>3. pc'["pm"] = "idle" /\ \A w \in Workers : pc'[w] = pc[w]
    BY <1>1, <2>1 DEF Goto, TypeOK, ThrTypeOK
  <2>4. Alone'
    BY <2>1, <2>2, <2>3 DEF Alone, Active
  <2> QED
    BY <2>1, <2>2, <2>3, <2>4, RestingStep
<1>3. CASE UserReturn(u)
  <2>1. /\ pc[u] # "idle" /\ Goto(u, "idle") /\ (BootDone' <=> BootDone)
        /\ UNCHANGED <<complete, work, fw, fw_cmds, fw_cmd, fw_rm, cmd_mb, irq_mb, ack, mb_locked,
                       isr, isr_wait, ch>>
    BY <1>3 DEF UserReturn, BootDone, fsmVars, chVars, mbVars, isrVars, fwVars
  <2> QED
    BY <1>1, <2>1, ThreadStep
<1> QED
  BY <1>2, <1>3

(* The handler and the firmware move no thread. *)
LEMMA AloneKept ==
  ASSUME FInv, UNCHANGED <<boot_status, thrVars>>
  PROVE  Alone'
  BY DEF FInv, Alone, Active, BootDone, thrVars

(* The handler carries a boot command's status to the worker, or drops it. *)
LEMMA IsrFlow ==
  ASSUME FInv, IsrStep
  PROVE  Flow'
<1> USE DEF FInv
<1>1. /\ TypeOK /\ UNCHANGED <<boot_status, thrVars, chVars, fwVars, cmd_mb, mb_locked>>
      /\ HandlerHolds
  BY DEF SInv, TInv, IsrStep, IsrEnter, IsrBootRead, IsrBootPost, IsrBootWake, IsrAdminRead,
         IsrAdminPost, IsrAdminSeen, IsrAdminLate, IsrAdminWake, mbVars
<1>2. Alone' /\ ~ mb_locked'
  BY <1>1, AloneKept
<1>3. Progress'
  BY <1>1 DEF Progress, TakenAt, Taken, CmdInMailbox, BootDone, thrVars, fwVars
<1>4. Serving'
  BY <1>1 DEF Serving, ServedAt, Empty, Answers, BootDone, thrVars, chVars, fwVars
<1>5. OneCmd'
  <2> USE <1>1 DEF OneCmd, NoCmd, CmdInMailbox, CmdInFw, CmdInIrq, CmdInHandler, CmdToWake, CmdWoken,
                   HandlerHolds, thrVars, fwVars
  <2>1. CASE IsrEnter
    BY <2>1 DEF IsrEnter, fsmVars, mbVars
  <2>2. CASE IsrBootRead
    BY <2>2 DEF IsrBootRead, fsmVars, NoStatus, Irq
  <2>3. CASE IsrBootPost
    <3>1. UNCHANGED <<complete, irq_mb, ack>> /\ isr = "boot_post" /\ isr' # "boot_post"
      BY <2>3 DEF IsrBootPost, mbVars, AfterBoot
    <3>2. isr_wait' = isr_wait \/ isr_wait' = WakesFor(ack.kind)
      BY <2>3 DEF IsrBootPost
    <3>3. "BOOT_CMD" \in isr_wait' => ack.kind = "BOOT_CMD"
      BY <3>1, <3>2 DEF WakesFor
    <3> QED
      BY <3>1, <3>3
  <2>4. CASE IsrBootWake
    <3>1. complete'["BOOT_CMD"] = (complete["BOOT_CMD"] \/ "BOOT_CMD" \in isr_wait)
      BY <2>4 DEF IsrBootWake, Waits
    <3>2. UNCHANGED <<irq_mb, ack>> /\ isr_wait' = {} /\ isr = "boot_wake" /\ isr' # "boot_post"
      BY <2>4 DEF IsrBootWake, mbVars, AfterBoot
    <3> QED
      BY <3>1, <3>2
  <2>5. CASE IsrAdminRead
    BY <2>5 DEF IsrAdminRead, fsmVars
  <2>6. CASE IsrAdminPost \/ IsrAdminSeen \/ IsrAdminLate
    BY <2>6 DEF IsrAdminPost, IsrAdminSeen, IsrAdminLate, fsmVars, mbVars
  <2>7. CASE IsrAdminWake
    <3>1. complete'["BOOT_CMD"] = complete["BOOT_CMD"]
      BY <2>7 DEF IsrAdminWake, dce_wakeup_interruptible, TypeOK, FsmTypeOK, Waits
    <3> QED
      BY <2>7, <3>1 DEF IsrAdminWake, mbVars
  <2> QED
    BY <2>1, <2>2, <2>3, <2>4, <2>5, <2>6, <2>7 DEF IsrStep
<1> QED
  BY <1>2, <1>3, <1>4, <1>5 DEF Flow

(* The firmware takes the command a worker waits for. *)
LEMMA TakeFlow ==
  ASSUME FInv, FwTakeCmd
  PROVE  Flow'
<1> USE DEF FInv
<1>1. /\ TypeOK /\ fw = "up" /\ fw' = "up" /\ cmd_mb # 0 /\ fw_cmd' = cmd_mb /\ cmd_mb' = 0
      /\ fw_cmds' = Append(fw_cmds, BootCmdSeq[cmd_mb])
      /\ UNCHANGED <<complete, boot_status, irq_mb, ack, mb_locked, chVars, thrVars, isrVars, fw_rm>>
  BY DEF SInv, TInv, FwTakeCmd, fsmVars
<1>2. Alone' /\ ~ mb_locked'
  BY <1>1, AloneKept
<1>3. OneCmd'
  BY <1>1 DEF OneCmd, NoCmd, CmdInMailbox, CmdInFw, CmdInIrq, CmdInHandler, CmdToWake, CmdWoken,
              thrVars, isrVars
<1>4. PICK w \in Workers : pc[w] = "cmd_wait"
  BY <1>1 DEF OneCmd, NoCmd, CmdInMailbox
<1>5. /\ cmd_mb = bci[w] /\ Taken(bci[w] - 1) /\ bci[w] \in 1 .. NumBootCmds
  BY <1>1, <1>4 DEF Progress, TakenAt, CmdInMailbox, TypeOK, ThrTypeOK
<1>6. /\ ~ BootDone /\ pc["pm"] = "idle" /\ w \notin work
      /\ \A v \in Workers : v # w => pc[v] = "idle" /\ v \notin work
  BY <1>4, WorkerAlone DEF Active
<1>7. Taken(bci[w])' /\ bci'[w] = bci[w] /\ bci[w] \in 0 .. NumBootCmds /\ fw_cmds' # <<>>
  <2>1. bci[w] \in Nat /\ fw_cmds \in Seq({BootCmdSeq[i] : i \in 1 .. NumBootCmds})
    BY <1>1, <1>5, NumBootCmdsFact DEF TypeOK, FwTypeOK
  <2>2. Len(fw_cmds) = bci[w] - 1 /\ \A i \in 1 .. bci[w] - 1 : fw_cmds[i] = BootCmdSeq[i]
    BY <1>5 DEF Taken
  <2>3. Len(fw_cmds') = bci[w] /\ fw_cmds'[bci[w]] = BootCmdSeq[bci[w]]
    BY <1>1, <1>5, <2>1, <2>2
  <2>4. \A i \in 1 .. bci[w] - 1 : fw_cmds'[i] = BootCmdSeq[i]
    BY <1>1, <2>1, <2>2
  <2>5. \A i \in 1 .. bci[w] : i = bci[w] \/ i \in 1 .. bci[w] - 1
    BY <2>1
  <2>6. bci'[w] = bci[w]
    BY <1>1 DEF thrVars
  <2>7. Len(fw_cmds') = bci'[w] /\ \A i \in 1 .. bci'[w] : fw_cmds'[i] = BootCmdSeq[i]
    BY <2>3, <2>4, <2>5, <2>6
  <2>8. fw_cmds' # <<>>
    BY <1>5, <2>3, <2>1
  <2> QED
    BY <1>5, <2>1, <2>6, <2>7, <2>8 DEF Taken
<1>8. Progress'
  <2>1. \A v \in Workers : TakenAt(pc[v], bci[v])' /\ v \notin work'
    <3> TAKE v \in Workers
    <3>1. CASE v = w
      BY <1>1, <1>4, <1>6, <1>7, <3>1 DEF TakenAt, EarlyLabels, LateLabels, RpcLabels, CmdInMailbox, thrVars
    <3>2. CASE v # w
      BY <1>1, <1>6, <3>2 DEF TakenAt, EarlyLabels, LateLabels, RpcLabels, thrVars
    <3> QED
      BY <3>1, <3>2
  <2>2. \E n \in 0 .. NumBootCmds : Taken(n)'
    <3>1. \A n : n = bci'[w] => (Taken(n)' <=> Taken(bci[w])')
      BY DEF Taken
    <3> QED
      BY <1>7, <3>1
  <2>3. pc'["pm"] = "idle" /\ ~ BootDone'
    BY <1>1, <1>6 DEF thrVars, BootDone
  <2> QED
    BY <1>1, <2>1, <2>2, <2>3 DEF Progress
<1>9. Serving'
  BY <1>1 DEF Serving, ServedAt, Empty, Answers, BootDone, thrVars, chVars
<1> QED
  BY <1>2, <1>3, <1>8, <1>9 DEF Flow

(* The firmware's interrupts, and the end of a boot command. *)
LEMMA FwIrqFlow ==
  ASSUME FInv, \/ FwBooted \/ FwReady \/ FwAckCmd \/ \E k \in FwIrqs : FwIrq(k)
  PROVE  Flow'
<1> USE DEF FInv
<1>1. /\ UNCHANGED <<complete, boot_status, thrVars, chVars, isrVars, fw_cmds, fw_rm, cmd_mb, ack, mb_locked>>
      /\ fw' = fw \/ fw' = "up"
  BY DEF FwBooted, FwReady, FwAckCmd, FwIrq, fsmVars, mbVars, fwVars
<1>2. Alone' /\ ~ mb_locked'
  BY <1>1, AloneKept
<1>3. Progress'
  BY <1>1 DEF Progress, TakenAt, Taken, CmdInMailbox, BootDone, thrVars
<1>4. Serving'
  BY <1>1 DEF Serving, ServedAt, Empty, Answers, BootDone, thrVars, chVars
<1>5. OneCmd'
  <2> USE <1>1 DEF OneCmd, NoCmd, CmdInMailbox, CmdInFw, CmdInIrq, CmdInHandler, CmdToWake, CmdWoken,
                   thrVars, isrVars, NoStatus, Irq
  <2>1. CASE FwBooted
    BY <2>1 DEF FwBooted, mbVars
  <2>2. CASE FwReady
    BY <2>2 DEF FwReady
  <2>3. CASE FwAckCmd
    BY <2>3 DEF FwAckCmd
  <2>4. ASSUME NEW k \in FwIrqs, FwIrq(k) PROVE OneCmd'
    <3>1. k # "BOOT_CMD"
      BY BootAssumption DEF BootAssumption
    <3> QED
      BY <2>4, <3>1 DEF FwIrq, fwVars
  <2> QED
    BY <2>1, <2>2, <2>3, <2>4
<1> QED
  BY <1>2, <1>3, <1>4, <1>5 DEF Flow

(* The firmware's side of the admin channel. *)
LEMMA FwChannelFlow ==
  ASSUME FInv, \/ FwReply \/ FwEnterSC7 \/ \E c \in Channels : FwEstablish(c)
  PROVE  Flow'
<1> USE DEF FInv
<1>0. FwReply => \E err \in BOOLEAN :
         /\ rx' = Append(rx, [src |-> Head(tx).src, cmd |-> Head(tx).cmd, err |-> err])
         /\ fw_rm' = (fw_rm \/ (Head(tx).cmd = "RM_BOOTSTRAP" /\ ~ err))
  <2> SUFFICES ASSUME FwReply
               PROVE  \E err \in BOOLEAN :
                        /\ rx' = Append(rx, [src |-> Head(tx).src, cmd |-> Head(tx).cmd, err |-> err])
                        /\ fw_rm' = (fw_rm \/ (Head(tx).cmd = "RM_BOOTSTRAP" /\ ~ err))
    OBVIOUS
  <2>1. PICK err \in {FALSE} \cup {FwErr} :
           /\ rx' = Append(rx, [src |-> Head(tx).src, cmd |-> Head(tx).cmd, err |-> err])
           /\ fw_rm' = (fw_rm \/ (Head(tx).cmd = "RM_BOOTSTRAP" /\ ~ err))
    BY DEF FwReply
  <2>2. err \in BOOLEAN
    BY BootAssumption DEF BootAssumption
  <2> QED
    BY <2>1, <2>2
<1>1. /\ TypeOK
      /\ UNCHANGED <<complete, boot_status, thrVars, isrVars, fw_cmd, fw_cmds, cmd_mb, ack, mb_locked>>
      /\ fw' # "booting" /\ (irq_mb' = irq_mb \/ (irq_mb = NoStatus /\ irq_mb' = Irq("SC7_ENTERED")))
      /\ fw_rm => fw_rm'
  <2>1. CASE FwReply
    BY <1>0, <2>1 DEF SInv, TInv, FwReply, FwServes, fsmVars
  <2>2. CASE FwEnterSC7
    BY <2>2 DEF SInv, TInv, FwEnterSC7, fsmVars
  <2>3. CASE \E c \in Channels : FwEstablish(c)
    BY <2>3 DEF SInv, TInv, FwEstablish, fsmVars, fwVars
  <2> QED
    BY <2>1, <2>2, <2>3
<1>2. Alone' /\ ~ mb_locked'
  BY <1>1, AloneKept
<1>3. Progress'
  BY <1>1 DEF Progress, TakenAt, Taken, CmdInMailbox, BootDone, thrVars
<1>4. OneCmd'
  BY <1>1 DEF OneCmd, NoCmd, CmdInMailbox, CmdInFw, CmdInIrq, CmdInHandler, CmdToWake, CmdWoken,
              thrVars, isrVars, NoStatus, Irq
<1>5. \A w \in Workers : ServedAt(w, pc[w], asi[w])
  BY DEF Serving
<1>6. Serving'
  <2>1. CASE FwReply
    <3>1. /\ Established("ADMIN") /\ tx # <<>> /\ tx' = Tail(tx) /\ ch' = ch
      BY <2>1 DEF FwReply, FwServes
    <3>2. PICK err \in BOOLEAN :
             /\ rx' = Append(rx, [src |-> Head(tx).src, cmd |-> Head(tx).cmd, err |-> err])
             /\ fw_rm' = (fw_rm \/ (Head(tx).cmd = "RM_BOOTSTRAP" /\ ~ err))
      BY <1>0, <2>1
    <3>3. ASSUME NEW w \in Workers PROVE ServedAt(w, pc[w], asi[w])'
      <4>1. pc'[w] = pc[w] /\ asi'[w] = asi[w] /\ resp'[w] = resp[w]
        BY <1>1 DEF thrVars
      <4>2. ServedAt(w, pc[w], asi[w]) /\ ~ Empty /\ ch["ADMIN"] # "sync"
        BY <1>5, <3>1, <3>3 DEF Empty, Established
      <4>3. CASE pc[w] \in {"rpc_wait", "rpc_woken", "rpc_read"}
        <5> DEFINE m == [src |-> w, cmd |-> AdminSeq[asi[w]]]
        <5>0. PICK r : r = [src |-> w, cmd |-> AdminSeq[asi[w]], err |-> err]
          OBVIOUS
        <5>1. tx = <<m>> /\ rx = <<>> /\ ch["ADMIN"] = "synced"
          BY <3>1, <4>2, <4>3 DEF ServedAt, RpcLabels
        <5>2. m \in Messages
          BY <1>1, <5>1 DEF TypeOK, ChTypeOK
        <5>3. r \in Replies
          BY <5>0, <5>2 DEF Messages, Replies
        <5>4. tx' = <<>> /\ Head(tx) = m
          BY <3>1, <5>1
        <5>5. rx' = <<r>>
          BY <3>2, <5>0, <5>1, <5>4
        <5>6. r.cmd = AdminSeq[asi[w]] /\ r.err = err /\ Head(tx).cmd = AdminSeq[asi[w]]
          BY <5>0, <5>4
        <5>7. Answers(r, AdminSeq[asi[w]])'
          BY <3>2, <4>1, <5>6 DEF Answers
        <5> QED
          BY <3>1, <4>1, <4>3, <5>1, <5>3, <5>4, <5>5, <5>7 DEF ServedAt, RpcLabels
      <4>4. CASE pc[w] \notin {"rpc_wait", "rpc_woken", "rpc_read"}
        <5>1. pc[w] \notin {"seq_alloc", "rpc_post", "rpc_send", "rpc_ok"}
          BY <4>2 DEF ServedAt
        <5>2. pc[w] \in {"ch_reset", "ch_ready"} => pc[w] = "ch_reset" /\ asi[w] = 0
          BY <4>2 DEF ServedAt
        <5> QED
          BY <3>1, <4>1, <4>2, <4>4, <5>1, <5>2 DEF ServedAt, RpcLabels
      <4> QED
        BY <4>3, <4>4
    <3> QED
      BY <1>1, <3>1, <3>3 DEF Serving, BootDone
  <2>2. CASE FwEnterSC7
    <3>1. /\ Established("ADMIN") /\ tx # <<>> /\ Head(tx).cmd = "ENTER_SC7" /\ tx' = Tail(tx)
          /\ UNCHANGED <<ch, rx>>
      BY <2>2 DEF FwEnterSC7, FwServes
    <3>2. ASSUME NEW w \in Workers PROVE ServedAt(w, pc[w], asi[w])'
      <4>1. pc'[w] = pc[w] /\ asi'[w] = asi[w] /\ resp'[w] = resp[w]
        BY <1>1 DEF thrVars
      <4>2. ServedAt(w, pc[w], asi[w]) /\ ~ Empty /\ ch["ADMIN"] # "sync"
        BY <1>5, <3>1, <3>2 DEF Empty, Established
      <4>3. pc[w] \notin {"rpc_wait", "rpc_woken", "rpc_read"}
        <5> SUFFICES ASSUME pc[w] \in {"rpc_wait", "rpc_woken", "rpc_read"} PROVE FALSE
          OBVIOUS
        <5>1. tx = <<[src |-> w, cmd |-> AdminSeq[asi[w]]]>>
          BY <3>1, <4>2 DEF ServedAt
        <5>2. Head(tx).cmd = AdminSeq[asi[w]] /\ asi[w] \in 1 .. 4
          BY <3>2, <5>1 DEF SInv, TInv, SeqPlace, PlaceOf, RpcLabels
        <5>3. asi[w] = 1 \/ asi[w] = 2 \/ asi[w] = 3 \/ asi[w] = 4
          BY <5>2
        <5> QED
          BY <3>1, <5>2, <5>3, AdminSeqFacts
      <4>4. pc[w] \notin {"seq_alloc", "rpc_post", "rpc_send", "rpc_ok"}
        BY <4>2 DEF ServedAt
      <4>5. pc[w] \in {"ch_reset", "ch_ready"} => pc[w] = "ch_reset" /\ asi[w] = 0
        BY <4>2 DEF ServedAt
      <4> QED
        BY <3>1, <4>1, <4>2, <4>3, <4>4, <4>5 DEF ServedAt, RpcLabels
    <3> QED
      BY <1>1, <3>1, <3>2 DEF Serving, BootDone
  <2>3. ASSUME NEW c \in Channels, FwEstablish(c) PROVE Serving'
    <3>1. CASE c = "ADMIN"
      <4>1. ch["ADMIN"] = "sync" /\ tx' = <<>> /\ rx' = <<>>
        BY <2>3, <3>1 DEF FwEstablish
      <4>2. ~ BootDone /\ ~ BootDone'
        BY <1>1, <4>1 DEF Serving, BootDone
      <4>3. ASSUME NEW w \in Workers PROVE ServedAt(w, pc[w], asi[w])'
        <5>1. pc'[w] = pc[w] /\ asi'[w] = asi[w] /\ resp'[w] = resp[w]
          BY <1>1 DEF thrVars
        <5>2. /\ pc[w] \notin RpcLabels \cup {"seq_alloc"}
              /\ pc[w] \in {"ch_reset", "ch_ready"} => asi[w] = 0
          BY <1>5, <4>1, <4>3 DEF ServedAt
        <5> QED
          BY <4>1, <5>1, <5>2 DEF ServedAt, RpcLabels, Empty
      <4> QED
        BY <1>1, <4>2, <4>3 DEF Serving
    <3>2. CASE c # "ADMIN"
      <4>1. ch'["ADMIN"] = ch["ADMIN"] /\ UNCHANGED <<tx, rx, fw_rm>>
        BY <1>1, <2>3, <3>2 DEF FwEstablish, TypeOK, ChTypeOK, Channels, fwVars
      <4> QED
        BY <1>1, <4>1 DEF Serving, ServedAt, Empty, Answers, BootDone, thrVars
    <3> QED
      BY <3>1, <3>2
  <2> QED
    BY <2>1, <2>2, <2>3
<1> QED
  BY <1>2, <1>3, <1>4, <1>6 DEF Flow

LEMMA FStep ==
  ASSUME ~ EarlySuspend, ~ AllocFail
  PROVE  FInv /\ [Next]_vars => FInv'
<1> SUFFICES ASSUME FInv, [Next]_vars PROVE FInv'
  OBVIOUS
<1>1. SInv'
  BY SStep DEF FInv
<1>2. Flow'
  <2>1. CASE UNCHANGED vars
    BY <2>1 DEF FInv, Flow, vars, fsmVars, mbVars, chVars, thrVars, isrVars, fwVars, Alone, Active, BootDone,
                OneCmd, NoCmd, CmdInMailbox, CmdInFw, CmdInIrq, CmdInHandler, CmdToWake, CmdWoken,
                Progress, TakenAt, Taken, Serving, ServedAt, Empty, Answers
  <2>2. ASSUME NEW w \in Workers, WorkerStep(w) PROVE Flow'
    BY <2>2, StartFlow, EarlyFlow, CmdFlow, SeqFlow DEF WorkerStep
  <2>3. CASE FwStep \/ \E k \in FwIrqs : FwIrq(k)
    BY <2>3, TakeFlow, FwIrqFlow, FwChannelFlow DEF FwStep
  <2> QED
    BY <2>1, <2>2, <2>3, RpcFlow, PmFlow, UserFlow, IsrFlow DEF Next
<1> QED
  BY <1>1, <1>2, FInvParts, PTL
-----------------------------------------------------------------------------
(* Firmware that has taken all boot commands has taken BootCmdSeq. *)
LEMMA AllTaken ==
  ASSUME FInv, Taken(NumBootCmds)
  PROVE  fw_cmds = BootCmdSeq /\ fw # "booting"
<1> DEFINE S == {BootCmdSeq[i] : i \in 1 .. NumBootCmds}
<1>1. fw_cmds \in Seq(S) /\ Len(fw_cmds) = NumBootCmds
  BY DEF FInv, SInv, TInv, TypeOK, FwTypeOK, Taken
<1>2. /\ DOMAIN BootCmdSeq = 1 .. NumBootCmds
      /\ BootCmdSeq = [i \in 1 .. NumBootCmds |-> BootCmdSeq[i]]
  BY NumBootCmdsFact DEF BootCmdSeq
<1>3. \A i \in 1 .. NumBootCmds : fw_cmds[i] = BootCmdSeq[i]
  BY DEF Taken
<1>4. fw_cmds = BootCmdSeq
  <2>1. fw_cmds = [i \in 1 .. NumBootCmds |-> fw_cmds[i]]
    BY <1>1, LenProperties
  <2> QED
    BY <1>2, <1>3, <2>1
<1>5. fw_cmds # <<>>
  <2>1. NumBootCmds # 0 /\ Len(<<>>) = 0
    BY NumBootCmdsFact
  <2> QED
    BY <1>1, <2>1
<1> QED
  BY <1>4, <1>5 DEF FInv, Progress

(* Whatever signals, errors and stray interrupts do, the firmware is given *)
(* each boot command once per power-up and in the order of                 *)
(* dce_start_bootstrap_flow, by whichever work item runs it.               *)
THEOREM BootCmdsOnceInOrder ==
  ASSUME ~ EarlySuspend, ~ AllocFail
  PROVE  Spec => []BootCmdsInOrder
<1>1. FInv => BootCmdsInOrder
  <2> SUFFICES ASSUME FInv PROVE BootCmdsInOrder
    OBVIOUS
  <2>1. PICK n \in 0 .. NumBootCmds : Taken(n)
    BY DEF FInv, Progress
  <2> QED
    BY <2>1, NumBootCmdsFact DEF Taken, BootCmdsInOrder
<1> QED
  BY <1>1, FInit, FStep, PTL DEF Spec

(* The stale flag that dce_admin_handle_ipc_requested_event looks at is    *)
(* enough: nobody waits for an admin reply of firmware that has not had    *)
(* all boot commands since it was powered up.                              *)
THEOREM AdminWaitsForBootcmds ==
  ASSUME ~ EarlySuspend, ~ AllocFail
  PROVE  Spec => []AdminOnlyAfterBootcmds
<1>1. FInv => AdminOnlyAfterBootcmds
  <2> SUFFICES ASSUME FInv, NEW t \in Threads, pc[t] \in {"rpc_wait", "rpc_woken", "rpc_read"}
               PROVE  fw_cmds = BootCmdSeq
    BY DEF AdminOnlyAfterBootcmds
  <2>1. CASE t \in Workers
    BY <2>1, AllTaken DEF FInv, Progress, TakenAt, LateLabels, RpcLabels
  <2>2. CASE t \notin Workers
    <3>1. BootDone
      BY <2>2 DEF FInv, Alone, Threads
    <3> QED
      BY <3>1, AllTaken DEF FInv, Progress
  <2> QED
    BY <2>1, <2>2
<1> QED
  BY <1>1, FInit, FStep, PTL DEF Spec

(* DCE_FW_BOOT_DONE, which opens the debugfs commands and the client       *)
(* registration, means firmware that is up, has had all boot commands, has *)
(* executed RM_BOOTSTRAP, and is reachable on a synced admin channel; a    *)
(* reset and a failed boot take it back or never set it.                   *)
THEOREM DoneMeansServing ==
  ASSUME ~ EarlySuspend, ~ AllocFail
  PROVE  Spec => []BootDoneMeansServing
<1>1. FInv => BootDoneMeansServing
  BY AllTaken DEF FInv, Progress, Serving, BootDoneMeansServing
<1> QED
  BY <1>1, FInit, FStep, PTL DEF Spec

(* The early return of dce_handle_mailbox_send_cmd_sync that keeps the     *)
(* mailbox mutex locked is never taken: no worker finds the previous       *)
(* command still in the mailbox, so neither the handler nor the next       *)
(* command ever blocks on that mutex for good.                             *)
THEOREM MailboxNeverLeftLocked ==
  ASSUME ~ EarlySuspend, ~ AllocFail
  PROVE  Spec => [](~ mb_locked)
<1>1. FInv => ~ mb_locked
  BY DEF FInv
<1> QED
  BY <1>1, FInit, FStep, PTL DEF Spec

(* The reply a boot worker gets back from dce_admin_send_msg is the reply  *)
(* to the command it sent, although dce_ipc_send_message_sync takes        *)
(* whatever frame is next: the reset of the admin channel leaves it no     *)
(* other.                                                                  *)
THEOREM WorkersGetTheirReplies ==
  ASSUME ~ EarlySuspend, ~ AllocFail
  PROVE  Spec => [](\A w \in Workers : pc[w] = "rpc_ok" => resp[w].cmd = Request(w).cmd)
<1>1. FInv => \A w \in Workers : pc[w] = "rpc_ok" => resp[w].cmd = Request(w).cmd
  <2> SUFFICES ASSUME FInv, NEW w \in Workers, pc[w] = "rpc_ok" PROVE resp[w].cmd = Request(w).cmd
    OBVIOUS
  <2>1. resp[w].cmd = AdminSeq[asi[w]]
    BY DEF FInv, Serving, ServedAt, Answers
  <2>2. Request(w) = [src |-> w, cmd |-> AdminSeq[asi[w]]]
    BY DEF Request, Workers
  <2> QED
    BY <2>1, <2>2
<1> QED
  BY <1>1, FInit, FStep, PTL DEF Spec
=============================================================================
