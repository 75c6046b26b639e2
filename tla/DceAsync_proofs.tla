-------------------------- MODULE DceAsync_proofs --------------------------
(***************************************************************************)
(* Proofs about DceAsync, for every number of work items from 2 up and     *)
(* every size of the event channel.                                        *)
(***************************************************************************)
EXTENDS DceAsync, SequenceTheorems, TLAPS

(* TypeOK is inductive. *)
LEMMA TypeInit == Init => TypeOK
<1> SUFFICES ASSUME Init PROVE TypeOK
  OBVIOUS
<1> USE AsyncAssumption DEF AsyncAssumption, Works, None
<1>1. in_use \in [Works -> BOOLEAN]
  BY DEF Init
<1>2. wq \in Seq(Works)
  BY EmptySeq DEF Init
<1>3. data \in 0 .. NFrames /\ si \in Works /\ cur \in Works \cup {None}
  BY DEF Init
<1> QED
  BY <1>1, <1>2, <1>3 DEF Init, TypeOK

LEMMA TypeStep == TypeOK /\ [Next]_vars => TypeOK'
<1> SUFFICES ASSUME TypeOK, [Next]_vars PROVE TypeOK'
  OBVIOUS
<1> USE AsyncAssumption DEF AsyncAssumption, TypeOK, Works, None
<1>1. CASE Register
  BY <1>1 DEF Register, isrVars, wqVars
<1>2. CASE Unregister
  BY <1>2 DEF Unregister, isrVars, wqVars
<1>3. CASE FwWrite
  BY <1>3 DEF FwWrite, isrVars, wqVars
<1>4. CASE FwNotify
  BY <1>4 DEF FwNotify, isrVars, wqVars
<1>5. CASE IsrEnter
  BY <1>5 DEF IsrEnter, wqVars
<1>6. CASE IsrClear
  BY <1>6 DEF IsrClear, wqVars
<1>7. CASE IsrHandle
  BY <1>7 DEF IsrHandle, wqVars
<1>8. CASE IsrScan
  <2>1. Append(wq, si) \in Seq(Works)
    BY AppendProperties
  <2>2. in_use' \in [Works -> BOOLEAN]
    BY <1>8 DEF IsrScan
  <2>3. wq' \in Seq(Works)
    BY <1>8, <2>1 DEF IsrScan
  <2>4. isr' \in {"idle", "scan"} /\ si' \in Works
    BY <1>8 DEF IsrScan
  <2> QED
    BY <1>8, <2>2, <2>3, <2>4 DEF IsrScan
<1>9. CASE WorkStart
  <2>1. wq # <<>> /\ Head(wq) \in Works /\ Tail(wq) \in Seq(Works)
    BY <1>9, HeadTailProperties DEF WorkStart
  <2>2. dropped' \in BOOLEAN /\ phase' \in {"check", "exit"}
    BY <1>9 DEF WorkStart
  <2> QED
    BY <1>9, <2>1, <2>2 DEF WorkStart, isrVars
<1>10. CASE Check
  BY <1>10 DEF Check, isrVars
<1>11. CASE Callback
  BY <1>11 DEF Callback, isrVars
<1>12. CASE WorkEnd
  BY <1>12 DEF WorkEnd, isrVars
<1>13. CASE UNCHANGED vars
  BY <1>13 DEF vars, isrVars, wqVars
<1> QED
  BY <1>1, <1>2, <1>3, <1>4, <1>5, <1>6, <1>7, <1>8, <1>9, <1>10, <1>11, <1>12, <1>13
     DEF Next, IsrStep, WorkStep

(* The state of dce-client-ipc.c stays within its types: the scan index    *)
(* never leaves the array, the channel never holds more than its frames.   *)
THEOREM TypeCorrect == Spec => []TypeOK
  BY TypeInit, TypeStep, PTL DEF Spec

-----------------------------------------------------------------------------
(* WorkAccounted is inductive on its own. *)
LEMMA AccountedInit == Init => WorkAccounted
  BY AsyncAssumption DEF AsyncAssumption, Init, WorkAccounted, Queued, Works, None

LEMMA AccountedStep == TypeOK /\ WorkAccounted /\ [Next]_vars => WorkAccounted'
<1> SUFFICES ASSUME TypeOK, WorkAccounted, [Next]_vars PROVE WorkAccounted'
  OBVIOUS
<1> USE AsyncAssumption DEF AsyncAssumption
<1>1. CASE UNCHANGED <<in_use, wq, cur>>
  BY <1>1 DEF WorkAccounted, Queued
<1>2. CASE IsrScan
  <2>1. CASE in_use[si]
    BY <1>2, <2>1, <1>1 DEF IsrScan
  <2>2. CASE ~ in_use[si]
    <3>1. /\ si \in Works /\ wq \in Seq(Works)
          /\ in_use' = [in_use EXCEPT ![si] = TRUE] /\ in_use \in [Works -> BOOLEAN]
          /\ wq' = Append(wq, si) /\ cur' = cur
      BY <1>2, <2>2 DEF IsrScan, TypeOK
    <3>2. cur # si /\ Queued(si) = {}
      BY <2>2, <3>1 DEF WorkAccounted
    <3>3. Len(wq') = Len(wq) + 1 /\ wq'[Len(wq) + 1] = si /\ Len(wq) \in Nat
      BY <3>1
    <3>4. \A k \in 1 .. Len(wq) : wq'[k] = wq[k]
      BY <3>1
    <3>5. \A k \in 1 .. Len(wq) : wq[k] # si
      BY <3>2 DEF Queued
    <3>6. ASSUME NEW i \in Works, i = si
          PROVE  Len(wq) + 1 \in Queued(i)' /\ \A k \in Queued(i)' : k = Len(wq) + 1
      BY <3>3, <3>4, <3>5, <3>6 DEF Queued
    <3>7. \A i \in Works : i # si => Queued(i)' = Queued(i)
      BY <3>3, <3>4 DEF Queued
    <3>8. in_use'[si] /\ \A i \in Works : i # si => (in_use'[i] <=> in_use[i])
      BY <3>1
    <3>9. ASSUME NEW i \in Works PROVE
             /\ in_use'[i] <=> (cur' = i \/ Queued(i)' # {})
             /\ \A k, l \in Queued(i)' : k = l
             /\ cur' = i => Queued(i)' = {}
      <4>1. CASE i = si
        BY <4>1, <3>1, <3>2, <3>6, <3>8
      <4>2. CASE i # si
        BY <4>2, <3>1, <3>7, <3>8 DEF WorkAccounted
      <4> QED
        BY <4>1, <4>2
    <3> QED
      BY <3>9 DEF WorkAccounted
  <2> QED
    BY <2>1, <2>2
<1>3. CASE WorkStart
  <2>1. /\ wq \in Seq(Works) /\ wq # <<>> /\ cur = None /\ in_use' = in_use
        /\ cur' = Head(wq) /\ wq' = Tail(wq)
    BY <1>3 DEF WorkStart, TypeOK
  <2>2. /\ Len(wq) \in Nat /\ Len(wq) >= 1 /\ Len(wq') = Len(wq) - 1 /\ cur' = wq[1]
        /\ cur' \in Works
    BY <2>1
  <2>3. \A k \in 1 .. Len(wq) - 1 : wq'[k] = wq[k + 1]
    BY <2>1
  <2>4. 1 \in Queued(cur')
    BY <2>2 DEF Queued
  <2>5. Queued(cur') = {1}
    BY <2>2, <2>4 DEF WorkAccounted
  <2>6. \A k \in 1 .. Len(wq') : wq'[k] # cur'
    <3> SUFFICES ASSUME NEW k \in 1 .. Len(wq'), wq'[k] = cur' PROVE FALSE
      OBVIOUS
    <3>1. k + 1 \in Queued(cur') /\ k + 1 # 1
      BY <2>2, <2>3 DEF Queued
    <3> QED
      BY <3>1, <2>5
  <2>7. ASSUME NEW i \in Works, i # cur'
        PROVE /\ Queued(i)' # {} <=> Queued(i) # {}
              /\ \A k, l \in Queued(i)' : k = l
    <3>1. \A k \in Queued(i)' : k \in Nat /\ k + 1 \in Queued(i)
      BY <2>2, <2>3 DEF Queued
    <3>2. \A k \in Queued(i) : k \in Nat /\ k > 1 /\ k - 1 \in Queued(i)'
      BY <2>2, <2>3, <2>7 DEF Queued
    <3>3. \A k, l \in Queued(i) : k = l
      BY DEF WorkAccounted
    <3>4. \A k, l \in Queued(i)' : k = l
      BY <3>1, <3>3
    <3> QED
      BY <3>1, <3>2, <3>4
  <2>8. \A i \in Works : cur # i
    BY <2>1 DEF Works, None
  <2>9. ASSUME NEW i \in Works PROVE
           /\ in_use'[i] <=> (cur' = i \/ Queued(i)' # {})
           /\ \A k, l \in Queued(i)' : k = l
           /\ cur' = i => Queued(i)' = {}
    <3>1. CASE i = cur'
      <4>1. Queued(i)' = {}
        BY <3>1, <2>6 DEF Queued
      <4>2. in_use[i]
        BY <3>1, <2>4 DEF WorkAccounted
      <4> QED
        BY <3>1, <4>1, <4>2, <2>1
    <3>2. CASE i # cur'
      BY <3>2, <2>1, <2>7, <2>8 DEF WorkAccounted
    <3> QED
      BY <3>1, <3>2
  <2> QED
    BY <2>9 DEF WorkAccounted
<1>4. CASE WorkEnd
  <2>1. /\ cur \in Works /\ cur' = None /\ wq' = wq
        /\ in_use \in [Works -> BOOLEAN] /\ in_use' = [in_use EXCEPT ![cur] = FALSE]
    BY <1>4 DEF WorkEnd, TypeOK
  <2>2. \A i \in Works : Queued(i)' = Queued(i) /\ cur' # i
    BY <2>1 DEF Queued, Works, None
  <2> QED
    BY <2>1, <2>2 DEF WorkAccounted
<1> QED
  BY <1>1, <1>2, <1>3, <1>4
     DEF Next, IsrStep, WorkStep, Register, Unregister, FwWrite, FwNotify,
         IsrEnter, IsrClear, IsrHandle, Check, Callback, vars, isrVars, wqVars

(* dce_client_schedule_event_work and dce_client_async_event_work keep     *)
(* in_use in step with the workqueue: no work item is queued twice and     *)
(* none is leaked.                                                         *)
THEOREM WorkItemsAccounted == Spec => []WorkAccounted
<1>1. Init => TypeOK /\ WorkAccounted
  BY TypeInit, AccountedInit
<1>2. TypeOK /\ WorkAccounted /\ [Next]_vars => (TypeOK /\ WorkAccounted)'
  BY TypeStep, AccountedStep
<1> QED
  BY <1>1, <1>2, PTL DEF Spec

-----------------------------------------------------------------------------
(* NoLostEvent needs to know that a scan starts at the first work item,    *)
(* and, from WorkAccounted, that an item found in use is queued or runs.   *)
ScanStartsAtZero == isr # "scan" => si = 0

EventInv == TypeOK /\ WorkAccounted /\ ScanStartsAtZero /\ NoLostEvent

(* A work item found in use that is not the running one is queued. *)
LEMMA InUseQueued ==
  ASSUME WorkAccounted, NEW i \in Works, in_use[i], cur # i
  PROVE  wq # <<>>
<1>1. Queued(i) # {}
  BY DEF WorkAccounted
<1>2. PICK k \in 1 .. Len(wq) : wq[k] = i
  BY <1>1 DEF Queued
<1> QED
  BY <1>2, EmptySeq

LEMMA ScanStep ==
  ASSUME TypeOK, ScanStartsAtZero, [Next]_vars
  PROVE  ScanStartsAtZero'
  BY DEF TypeOK, ScanStartsAtZero, Next, IsrStep, WorkStep, Register, Unregister, FwWrite,
         FwNotify, IsrEnter, IsrClear, IsrHandle, IsrScan, WorkStart, Check, Callback, WorkEnd,
         vars, isrVars, wqVars

LEMMA EventStep ==
  ASSUME TypeOK, WorkAccounted, ScanStartsAtZero, NoLostEvent, [Next]_vars
  PROVE  NoLostEvent'
<1> SUFFICES ASSUME data' > 0, ~ dropped'
             PROVE  InFlight' \/ Active' \/ (isr = "scan" /\ si = 1 /\ cur \in {None, 0})'
  BY DEF NoLostEvent
<1> USE AsyncAssumption DEF AsyncAssumption, InFlight, Active
<1>1. CASE Register
  BY <1>1 DEF Register, isrVars, wqVars, NoLostEvent
<1>2. CASE Unregister
  BY <1>2 DEF Unregister, isrVars, wqVars, NoLostEvent
<1>3. CASE FwWrite
  BY <1>3 DEF FwWrite
<1>4. CASE FwNotify
  BY <1>4 DEF FwNotify
<1>5. CASE IsrEnter
  BY <1>5 DEF IsrEnter
<1>6. CASE IsrClear
  BY <1>6 DEF IsrClear
<1>7. CASE IsrHandle
  BY <1>7 DEF IsrHandle, ScanStartsAtZero, TypeOK
<1>8. CASE IsrScan
  <2>1. /\ isr = "scan" /\ data > 0 /\ ~ dropped /\ si \in Works /\ wq \in Seq(Works)
        /\ UNCHANGED <<fw_pc, mbox, cur, phase>>
    BY <1>8 DEF IsrScan, TypeOK
  <2>2. CASE ~ in_use[si]
    BY <1>8, <2>1, <2>2, AppendProperties DEF IsrScan
  <2>3. CASE in_use[si]
    <3>1. wq' = wq
      BY <1>8, <2>3 DEF IsrScan
    <3>2. CASE cur # si
      BY <2>1, <2>3, <3>1, <3>2, InUseQueued
    <3>3. CASE cur = si
      <4>1. CASE si = 0
        <5>1. si' = 1 /\ isr' = "scan"
          BY <1>8, <2>1, <2>3, <4>1 DEF IsrScan
        <5> QED
          BY <5>1, <4>1, <3>3, <2>1
      <4>2. CASE si # 0
        <5>1. si # None
          BY <2>1 DEF Works, None
        <5>2. fw_pc = "notify" \/ mbox \/ wq # <<>> \/ (cur # None /\ phase # "exit")
          BY <2>1, <3>3, <4>2, <5>1 DEF NoLostEvent
        <5> QED
          BY <5>2, <2>1, <3>1
      <4> QED
        BY <4>1, <4>2
    <3> QED
      BY <3>2, <3>3
  <2> QED
    BY <2>2, <2>3
<1>9. CASE WorkStart
  <2>1. cur' # None
    BY <1>9, HeadTailProperties DEF WorkStart, TypeOK, Works, None
  <2> QED
    BY <1>9, <2>1 DEF WorkStart
<1>10. CASE Check
  BY <1>10 DEF Check
<1>11. CASE Callback
  BY <1>11 DEF Callback
<1>12. CASE WorkEnd
  BY <1>12 DEF WorkEnd, isrVars, NoLostEvent
<1>13. CASE UNCHANGED vars
  BY <1>13 DEF vars, isrVars, wqVars, NoLostEvent
<1> QED
  BY <1>1, <1>2, <1>3, <1>4, <1>5, <1>6, <1>7, <1>8, <1>9, <1>10, <1>11, <1>12, <1>13
     DEF Next, IsrStep, WorkStep

(* With two work items or more, an event in the RM_NOTIFY channel is never *)
(* left without a signal or a work item that will read it, however the     *)
(* scan of dce_client_schedule_event_work and the drain of                 *)
(* dce_client_process_event_ipc interleave, "Queue Full!" included.        *)
THEOREM EventsNeverLost == Spec => []NoLostEvent
<1>1. Init => EventInv
  <2>1. Init => ScanStartsAtZero /\ NoLostEvent
    BY DEF Init, ScanStartsAtZero, NoLostEvent
  <2> QED
    BY <2>1, TypeInit, AccountedInit DEF EventInv
<1>2. EventInv /\ [Next]_vars => EventInv'
  BY TypeStep, AccountedStep, ScanStep, EventStep DEF EventInv
<1>3. EventInv => NoLostEvent
  BY DEF EventInv
<1> QED
  BY <1>1, <1>2, <1>3, PTL DEF Spec
=============================================================================
