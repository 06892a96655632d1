------------------------ MODULE CosKmdSchedulerProofs ------------------------
(***************************************************************************)
(* Theorems about CosKmdScheduler for every value of its constants: no DMA *)
(* buffer and no pool entry is lost, a reset leaves the node quiet, and    *)
(* the driver runs nothing that VidSch does not wait for and keeps the     *)
(* safety part of GpuNodeContract.                                         *)
(***************************************************************************)
EXTENDS CosKmdScheduler, FiniteSetTheorems, TLAPS

(* Sequences without repetitions, and what the list operations do to them. *)
LEMMA SeqTail ==
  ASSUME NEW S, NEW q \in Seq(S), q # <<>>
  PROVE  /\ Head(q) \in S /\ Head(q) = q[1] /\ Tail(q) \in Seq(S)
         /\ Len(q) \in Nat /\ Len(q) >= 1 /\ Len(Tail(q)) = Len(q) - 1
         /\ \A i \in 1..Len(Tail(q)) : i + 1 \in 1..Len(q) /\ i + 1 # 1 /\ Tail(q)[i] = q[i + 1]
  OBVIOUS

(* What is left of a list without repetitions has none, and lacks its old  *)
(* head (DequeueDmaBuffer).                                                *)
LEMMA DistinctTail ==
  ASSUME NEW S, NEW q \in Seq(S), q # <<>>, Distinct(q)
  PROVE  Distinct(Tail(q)) /\ Lacks(Tail(q), Head(q))
<1>1. Distinct(Tail(q))
  BY SeqTail DEF Distinct
<1>2. Lacks(Tail(q), Head(q))
  <2> SUFFICES ASSUME NEW i \in 1..Len(Tail(q)) PROVE Tail(q)[i] # Head(q)
    BY DEF Lacks
  <2>1. Tail(q)[i] = q[i + 1] /\ i + 1 \in 1..Len(q) /\ i + 1 # 1 /\ 1 \in 1..Len(q)
    BY SeqTail
  <2> QED
    BY <2>1, SeqTail DEF Distinct
<1> QED
  BY <1>1, <1>2

(* What a list lacks its tail lacks, and is not its head. *)
LEMMA LacksTail ==
  ASSUME NEW S, NEW q \in Seq(S), q # <<>>, NEW e, Lacks(q, e)
  PROVE  Lacks(Tail(q), e) /\ Head(q) # e
<1>1. 1 \in 1..Len(q)
  BY SeqTail
<1> QED
  BY <1>1, SeqTail DEF Lacks

(* Appending adds nothing but the new element (QueueDmaBuffer). *)
LEMMA LacksAppend ==
  ASSUME NEW S, NEW q \in Seq(S), NEW x \in S, NEW e, Lacks(q, e), x # e
  PROVE  Lacks(Append(q, x), e)
  BY DEF Lacks

(* Appending what a list lacks keeps it without repetitions. *)
LEMMA DistinctAppend ==
  ASSUME NEW S, NEW q \in Seq(S), NEW x \in S, Distinct(q), Lacks(q, x)
  PROVE  Distinct(Append(q, x))
  BY DEF Lacks, Distinct

(* The elements of two lists put together (EmptyDmaBufferQueue). *)
LEMMA SeqConcat ==
  ASSUME NEW S, NEW p \in Seq(S), NEW q \in Seq(S)
  PROVE  /\ p \o q \in Seq(S) /\ Len(p) \in Nat /\ Len(q) \in Nat
         /\ Len(p \o q) = Len(p) + Len(q)
         /\ \A i \in 1..Len(p \o q) :
              IF i <= Len(p) THEN i \in 1..Len(p) /\ (p \o q)[i] = p[i]
              ELSE i - Len(p) \in 1..Len(q) /\ (p \o q)[i] = q[i - Len(p)]
  OBVIOUS

(* What two lists lack their concatenation lacks. *)
LEMMA LacksConcat ==
  ASSUME NEW S, NEW p \in Seq(S), NEW q \in Seq(S), NEW e, Lacks(p, e), Lacks(q, e)
  PROVE  Lacks(p \o q, e)
  BY SeqConcat DEF Lacks

(* Two lists without repetitions that share nothing make one without. *)
LEMMA DistinctConcat ==
  ASSUME NEW S, NEW p \in Seq(S), NEW q \in Seq(S),
         Distinct(p), Distinct(q), Apart(p, q)
  PROVE  Distinct(p \o q)
<1> DEFINE r == p \o q
<1> SUFFICES ASSUME NEW i \in 1..Len(r), NEW j \in 1..Len(r), r[i] = r[j], i <= j
             PROVE  i = j
  BY SeqConcat DEF Distinct
<1>1. CASE j <= Len(p)
  BY <1>1, SeqConcat DEF Distinct
<1>2. CASE i > Len(p)
  <2>1. /\ i - Len(p) \in 1..Len(q) /\ j - Len(p) \in 1..Len(q)
        /\ q[i - Len(p)] = q[j - Len(p)]
    BY <1>2, SeqConcat
  <2>2. i - Len(p) = j - Len(p)
    BY <2>1 DEF Distinct
  <2> QED
    BY <2>2, SeqConcat
<1>3. CASE i <= Len(p) /\ j > Len(p)
  <2>1. i \in 1..Len(p) /\ j - Len(p) \in 1..Len(q) /\ p[i] = q[j - Len(p)]
    BY <1>3, SeqConcat
  <2> QED
    BY <2>1 DEF Apart, Lacks
<1> QED
  BY <1>1, <1>2, <1>3, SeqConcat

(* Start links every entry of the pool into the free list. *)
LEMMA FreeAtStartType == FreeAtStart \in Seq(Slots) /\ Len(FreeAtStart) = PoolSize
<1>1. \A i \in Slots : FreeAtStart[i] \in Slots
  BY ConstantsAssumption DEF FreeAtStart, Slots
<1> QED
  BY <1>1, ConstantsAssumption DEF FreeAtStart, Slots

(* What VidSch's account makes of a callback is an account. *)
LEMMA VidSchType ==
  ASSUME TypeOK, NEW f \in Nat,
         VidSchCompleted(f) \/ VidSchPreempted(f) \/ VidSchReset(f)
  PROVE  /\ status' \in [Buffers -> {"free", "ready", "submitted", "preempted"}]
         /\ fenceOf' \in [Buffers -> Nat]
         /\ osCompleted' \in Nat
         /\ preempting' \in BOOLEAN
  BY DEF TypeOK, VidSchCompleted, VidSchPreempted, VidSchReset

(* QueueDmaBuffer keeps the types of all that it writes ... *)
LEMMA QueueDmaBufferType ==
  ASSUME TypeOK, NEW b \in Buffers, NEW set, QueueDmaBuffer(b, set)
  PROVE  /\ dmaBufSubssions' \in [Slots -> SubmissionType]
         /\ dmaBufSubmissionFree' \in Seq(Slots)
         /\ dmaBufQueue' \in Seq(Slots)
         /\ lastSubmittedFenceId' \in Nat
         /\ bInHangState' \in BOOLEAN
         /\ dmaBufInfo' \in [Buffers -> InfoType]
<1>1. /\ Head(dmaBufSubmissionFree) \in Slots
      /\ Tail(dmaBufSubmissionFree) \in Seq(Slots)
  BY DEF QueueDmaBuffer, TypeOK
<1>2. HangTriggered(set, b) \in BOOLEAN
  BY DEF HangTriggered
<1>3. SimulateHang(set, b) \in BOOLEAN
  BY <1>2 DEF SimulateHang, TypeOK
<1>4. Stalls(set, b) \in BOOLEAN
  BY DEF Stalls, TypeOK, InfoType
<1>5. dmaBufInfo' \in [Buffers -> InfoType]
  BY ZenonT(60), <1>4 DEF QueueDmaBuffer, TypeOK, InfoType
<1>6. dmaBufSubssions' \in [Slots -> SubmissionType]
  BY SMTT(30), <1>1, <1>3 DEF QueueDmaBuffer, TypeOK, SubmissionType
<1>7. bInHangState' \in BOOLEAN
  BY <1>2 DEF QueueDmaBuffer, TypeOK
<1> QED
  BY <1>1, <1>5, <1>6, <1>7 DEF QueueDmaBuffer, TypeOK

(* ... and so does the whole of SubmitCommand. *)
LEMMA SubmitCommandType ==
  ASSUME TypeOK, NEW b \in Buffers, SubmitCommand(b)
  PROVE  TypeOK'
<1>1. PICK set \in SUBSET Triggers : QueueDmaBuffer(b, set)
  BY DEF SubmitCommand
<1>2. status' \in [Buffers -> {"free", "ready", "submitted", "preempted"}]
  BY DEF SubmitCommand, TypeOK
<1>3. fenceOf' \in [Buffers -> Nat] /\ ddi' \in DdiStates
  BY DEF SubmitCommand, TypeOK, DdiStates
<1> QED
  BY <1>1, <1>2, <1>3, QueueDmaBufferType
  DEF SubmitCommand, TypeOK, workerVars

(* Emptying the queue yields two lists again. *)
LEMMA EmptyType ==
  ASSUME TypeOK, EmptyDmaBufferQueue
  PROVE  dmaBufSubmissionFree' \in Seq(Slots) /\ dmaBufQueue' \in Seq(Slots)
  BY DEF TypeOK, EmptyDmaBufferQueue

(* The worker thread holds a submission exactly between taking it from the *)
(* queue and returning it to the free list.                                *)
HandOK ==
  current # NoSlot <=> workerPc \in {"stall", "run", "track", "recycle", "unstall"}

TypeInv == TypeOK /\ HandOK

USE DEF TypeOK, HandOK, TypeInv, vars, poolVars, sharedVars, ddiVars, workerVars,
        accountVars, vidSchVars

(* The types hold when Start has returned. *)
LEMMA TypeInit == Init => TypeInv
<1> SUFFICES ASSUME Init PROVE TypeInv
  OBVIOUS
<1>1. dmaBufSubmissionFree \in Seq(Slots) /\ dmaBufQueue \in Seq(Slots)
  BY FreeAtStartType DEF Init
<1>2. dmaBufSubssions \in [Slots -> SubmissionType] /\ dmaBufInfo \in [Buffers -> InfoType]
  BY DEF Init, SubmissionType, InfoType
<1>3. workerPc \in WorkerStates /\ ddi \in DdiStates /\ current \in Slots \cup {NoSlot}
  BY DEF Init, WorkerStates, DdiStates
<1>4. /\ status \in [Buffers -> {"free", "ready", "submitted", "preempted"}]
      /\ fenceOf \in [Buffers -> Nat]
  BY DEF Init
<1>5. HandOK
  BY DEF Init
<1>6. /\ lastSubmittedFenceId \in Nat /\ lastCompletetdFenceId \in Nat
      /\ lastCompeletedPreemptionFenceId \in 0..2 /\ preemptionRequest \in 0..2
      /\ osCompleted \in Nat
  BY DEF Init
<1>7. /\ signalled \subseteq Events /\ preempting \in BOOLEAN
      /\ bInHangState \in BOOLEAN /\ workerExit \in BOOLEAN
  BY DEF Init
<1> QED
  BY <1>1, <1>2, <1>3, <1>4, <1>5, <1>6, <1>7

(* Every step of the worker thread keeps the types. *)
LEMMA WorkerType ==
  ASSUME TypeInv, Worker
  PROVE  TypeInv'
<1>0. NoSlot \notin Slots
  BY DEF Slots, NoSlot
<1>1. CASE WakeForQueue \/ WakeForPreemption \/ WakeForReset
  <2>1. workerPc = "wait" /\ signalled' \subseteq signalled
    BY <1>1 DEF WakeForQueue, WakeForPreemption, WakeForReset, WakesOn
  <2>2. workerPc' \in {"exited", "drain", "empty", "resetEmpty"}
    BY <1>1 DEF WakeForQueue, WakeForPreemption, WakeForReset
  <2> QED
    BY <1>1, <2>1, <2>2
    DEF WakeForQueue, WakeForPreemption, WakeForReset, WorkerStates
<1>2. CASE DequeueDmaBuffer
  <2>1. CASE dmaBufQueue = <<>>
    BY <1>2, <2>1 DEF DequeueDmaBuffer, WorkerStates
  <2>2. CASE dmaBufQueue # <<>>
    <3>1. Head(dmaBufQueue) \in Slots /\ Tail(dmaBufQueue) \in Seq(Slots)
      BY <2>2
    <3> QED
      BY <1>0, <1>2, <2>2, <3>1 DEF DequeueDmaBuffer, WorkerStates
  <2> QED
    BY <2>1, <2>2
<1>3. CASE PreemptStall
  <2>1. dmaBufInfo' \in [Buffers -> InfoType]
    <3>1. PICK left \in BOOLEAN :
            dmaBufInfo' = [dmaBufInfo EXCEPT ![InHand].bPreempted = TRUE,
                                             ![InHand].stalls = left]
      BY <1>3 DEF PreemptStall
    <3>2. CASE InHand \in Buffers
      BY ZenonT(60), <3>1, <3>2 DEF InfoType
    <3>3. CASE InHand \notin Buffers
      BY <3>1, <3>3
    <3> QED
      BY <3>2, <3>3
  <2> QED
    BY <1>3, <2>1 DEF PreemptStall, WorkerStates
<1>4. CASE EndStall
  <2>1. dmaBufInfo' \in [Buffers -> InfoType]
    BY ZenonT(60), <1>4 DEF EndStall, InfoType
  <2> QED
    BY <1>4, <2>1 DEF EndStall, WorkerStates
<1>5. CASE NotifyDmaBufCompletion
  <2>1. dmaBufSubssions[current].fence \in Nat
    BY <1>5 DEF NotifyDmaBufCompletion, SubmissionType
  <2>2. dmaBufInfo' \in [Buffers -> InfoType]
    BY ZenonT(60), <1>5 DEF NotifyDmaBufCompletion, InfoType
  <2> QED
    BY <1>5, <2>1, <2>2, VidSchType DEF NotifyDmaBufCompletion, WorkerStates
<1>6. CASE SkipHungCompletion
  BY <1>6 DEF SkipHungCompletion, WorkerStates
<1>7. CASE TrackCompletion
  BY <1>7 DEF TrackCompletion, SubmissionType, WorkerStates
<1>8. CASE RecycleSubmission
  BY <1>8 DEF RecycleSubmission, WorkerStates
<1>9. CASE EmptyForPreemption
  BY <1>9, EmptyType DEF EmptyForPreemption, WorkerStates
<1>10. CASE ReportPreemption
  BY <1>10, VidSchType DEF ReportPreemption, WorkerStates
<1>11. CASE NotePreemption
  BY <1>11 DEF NotePreemption, WorkerStates
<1>12. CASE EmptyForReset
  BY <1>12, EmptyType DEF EmptyForReset, WorkerStates
<1>13. CASE SignalReset
  BY <1>13 DEF SignalReset, WorkerStates, Events
<1> QED
  BY <1>1, <1>2, <1>3, <1>4, <1>5, <1>6, <1>7, <1>8, <1>9, <1>10, <1>11, <1>12, <1>13
  DEF Worker

(* And so does every step of the DDI thread and of VidSch. *)
LEMMA CallType ==
  ASSUME TypeInv, DdiThread \/ VidSch
  PROVE  TypeInv'
<1>1. CASE WakeWorker
  BY <1>1 DEF WakeWorker, DdiStates, Events
<1>2. CASE FinishReset
  BY <1>2, VidSchType DEF FinishReset, DdiStates, SyncedFence
<1>3. CASE FinishStop
  BY <1>3 DEF FinishStop, DdiStates
<1>4. ASSUME NEW b \in Buffers, Prepare(b) PROVE TypeInv'
  <2>1. dmaBufInfo' \in [Buffers -> InfoType]
    BY <1>4 DEF Prepare, InfoType
  <2>2. status' \in [Buffers -> {"free", "ready", "submitted", "preempted"}]
    BY <1>4 DEF Prepare
  <2> QED
    BY <1>4, <2>1, <2>2 DEF Prepare
<1>5. ASSUME NEW b \in Buffers, CancelCommand(b) PROVE TypeInv'
  BY <1>5 DEF CancelCommand
<1>6. ASSUME NEW b \in Buffers, SubmitCommand(b) PROVE TypeInv'
  BY <1>6, SubmitCommandType DEF SubmitCommand
<1>7. CASE PreemptCommand
  BY <1>7 DEF PreemptCommand, Events
<1>8. ASSUME NEW call \in ResetCalls, RequestReset(call) PROVE TypeInv'
  BY <1>8 DEF RequestReset, ResetCalls, DdiStates, Events
<1>9. CASE RequestStop
  BY <1>9 DEF RequestStop, DdiStates, Events
<1> QED
  BY <1>1, <1>2, <1>3, <1>4, <1>5, <1>6, <1>7, <1>8, <1>9 DEF DdiThread, VidSch

(* No step of any party breaks them. *)
LEMMA TypeStep == TypeInv /\ [Next]_vars => TypeInv'
<1> SUFFICES ASSUME TypeInv, [Next]_vars PROVE TypeInv'
  OBVIOUS
<1>1. CASE UNCHANGED vars \/ Stopped
  BY <1>1 DEF Stopped
<1> QED
  BY <1>1, WorkerType, CallType DEF Next

(* Every variable of the scheduler keeps its type, whatever the number of  *)
(* entries, DMA buffers and fences.  (All of CosKmAdapter.)                *)
THEOREM TypeCorrect == SafetySpec => []TypeOK
<1>1. TypeInv => TypeOK
  OBVIOUS
<1> QED
  BY <1>1, TypeInit, TypeStep, PTL DEF SafetySpec

------------------------------------------------------------------------------
(* The pool of submission entries.                                         *)

(* The steps that leave the pool alone. *)
PoolUntouched == UNCHANGED <<dmaBufSubmissionFree, dmaBufQueue, current>>

(* Only a submission, a dequeue, a recycle and the two ways of emptying    *)
(* the queue move entries of the pool.                                     *)
LEMMA PoolUntouchedBy ==
  ASSUME [Next]_vars
  PROVE  \/ PoolUntouched
         \/ \E b \in Buffers : SubmitCommand(b)
         \/ DequeueDmaBuffer \/ RecycleSubmission
         \/ EmptyForPreemption \/ EmptyForReset
<1>1. CASE UNCHANGED vars \/ Stopped
  BY <1>1 DEF Stopped, PoolUntouched
<1>2. CASE Worker
  BY <1>2 DEF Worker, PoolUntouched, WakeForQueue, WakeForPreemption, WakeForReset,
     PreemptStall, EndStall, NotifyDmaBufCompletion, SkipHungCompletion,
     TrackCompletion, ReportPreemption, NotePreemption, SignalReset
<1>3. CASE DdiThread \/ VidSch
  BY <1>3 DEF DdiThread, VidSch, PoolUntouched, WakeWorker, FinishReset, FinishStop,
     Prepare, CancelCommand, PreemptCommand, RequestReset, RequestStop
<1> QED
  BY <1>1, <1>2, <1>3 DEF Next

(* The pool is whole when Start has returned: every entry is free. *)
LEMMA PoolInit == Init => PoolConserved
<1> SUFFICES ASSUME Init PROVE PoolConserved
  OBVIOUS
<1>1. /\ Len(dmaBufSubmissionFree) = PoolSize
      /\ \A i \in 1..PoolSize : dmaBufSubmissionFree[i] = PoolSize + 1 - i
  BY FreeAtStartType DEF Init, FreeAtStart, Slots
<1>2. PoolSize \in Nat /\ dmaBufQueue = <<>> /\ Len(dmaBufQueue) = 0 /\ current = NoSlot
  BY ConstantsAssumption DEF Init
<1> QED
  BY <1>1, <1>2 DEF PoolConserved, Distinct, Lacks, Apart, NoSlot

(* EmptyDmaBufferQueue, for a preemption or a reset, moves every queued    *)
(* entry to the free list.                                                 *)
LEMMA EmptyPool ==
  ASSUME TypeInv, PoolConserved, EmptyDmaBufferQueue, current' = current
  PROVE  PoolConserved'
<1>1. /\ Distinct(dmaBufSubmissionFree)' /\ Lacks(dmaBufSubmissionFree, current)'
      /\ Len(dmaBufSubmissionFree') = Len(dmaBufSubmissionFree) + Len(dmaBufQueue)
  BY DistinctConcat, LacksConcat, SeqConcat DEF PoolConserved, EmptyDmaBufferQueue
<1>2. /\ Len(dmaBufQueue') = 0
      /\ Len(dmaBufSubmissionFree) \in Nat /\ Len(dmaBufQueue) \in Nat
  BY DEF EmptyDmaBufferQueue
<1>3. Distinct(dmaBufQueue)' /\ Lacks(dmaBufQueue, current)'
      /\ Apart(dmaBufSubmissionFree, dmaBufQueue)'
  BY <1>2 DEF Distinct, Lacks, Apart
<1> QED
  BY <1>1, <1>2, <1>3 DEF PoolConserved

(* No step loses an entry or puts it in two places. *)
LEMMA PoolStep ==
  ASSUME TypeInv, PoolConserved, [Next]_vars
  PROVE  PoolConserved'
<1> DEFINE free == dmaBufSubmissionFree
           queue == dmaBufQueue
<1>0. Len(free) \in Nat /\ Len(queue) \in Nat /\ NoSlot \notin Slots
  BY DEF NoSlot, Slots
<1>1. CASE PoolUntouched
  BY <1>1 DEF PoolUntouched, PoolConserved, Distinct, Lacks, Apart
<1>2. ASSUME NEW b \in Buffers, SubmitCommand(b) PROVE PoolConserved'
  <2>1. /\ free # <<>> /\ free' = Tail(free)
        /\ queue' = Append(queue, Head(free)) /\ current' = current
    BY <1>2 DEF SubmitCommand, QueueDmaBuffer
  <2>2. /\ Head(free) # current /\ Lacks(queue, Head(free))
        /\ Lacks(Tail(free), current) /\ Head(free) \in Slots
    BY <2>1, SeqTail, LacksTail DEF PoolConserved, Apart
  <2>3. Distinct(free)' /\ Lacks(free, current)' /\ Len(free') = Len(free) - 1
    BY <2>1, <2>2, SeqTail, DistinctTail DEF PoolConserved
  <2>4. Distinct(queue)' /\ Lacks(queue, current)' /\ Len(queue') = Len(queue) + 1
    BY <2>1, <2>2, LacksAppend, DistinctAppend DEF PoolConserved
  <2>5. Apart(free, queue)'
    <3> SUFFICES ASSUME NEW i \in 1..Len(Tail(free))
                 PROVE  Lacks(Append(queue, Head(free)), Tail(free)[i])
      BY <2>1 DEF Apart
    <3>1. Tail(free)[i] = free[i + 1] /\ i + 1 \in 1..Len(free)
      BY <2>1, SeqTail
    <3>2. Lacks(queue, Tail(free)[i])
      BY <3>1 DEF PoolConserved, Apart
    <3>3. Head(free) # Tail(free)[i]
      BY <2>1, DistinctTail DEF PoolConserved, Lacks
    <3> QED
      BY <2>2, <3>2, <3>3, LacksAppend
  <2>6. Len(free') + Len(queue') + (IF current' = NoSlot THEN 0 ELSE 1) = PoolSize
    <3>1. Len(free) + Len(queue) + (IF current = NoSlot THEN 0 ELSE 1) = PoolSize
      BY DEF PoolConserved
    <3> HIDE DEF free, queue
    <3> QED
      BY <1>0, <2>1, <2>3, <2>4, <3>1
  <2> QED
    BY <2>3, <2>4, <2>5, <2>6 DEF PoolConserved
<1>3. CASE DequeueDmaBuffer
  <2>1. CASE queue = <<>>
    BY <1>3, <2>1 DEF DequeueDmaBuffer, PoolConserved, Distinct, Lacks, Apart
  <2>2. CASE queue # <<>>
    <3>1. current = NoSlot /\ current' = Head(queue) /\ queue' = Tail(queue) /\ free' = free
      BY <1>3, <2>2 DEF DequeueDmaBuffer
    <3>2. Head(queue) # NoSlot /\ Len(queue') = Len(queue) - 1
      BY <1>0, <2>2, <3>1, SeqTail
    <3>3. Distinct(queue)' /\ Lacks(queue, current)'
      BY <2>2, <3>1, DistinctTail DEF PoolConserved
    <3>4. Lacks(free, current)' /\ Apart(free, queue)'
      <4>1. \A i \in 1..Len(free) : Lacks(Tail(queue), free[i]) /\ Head(queue) # free[i]
        BY <2>2, LacksTail DEF PoolConserved, Apart
      <4> QED
        BY <3>1, <4>1 DEF Lacks, Apart
    <3>5. Distinct(free)'
      BY <3>1 DEF PoolConserved, Distinct
    <3>6. Len(free') + Len(queue') + 1 = PoolSize
      BY <1>0, <3>1, <3>2 DEF PoolConserved
    <3> QED
      BY <3>1, <3>2, <3>3, <3>4, <3>5, <3>6 DEF PoolConserved
  <2> QED
    BY <2>1, <2>2
<1>4. CASE RecycleSubmission
  <2>1. /\ current # NoSlot /\ current' = NoSlot /\ current \in Slots
        /\ free' = Append(free, current) /\ queue' = queue
    BY <1>4 DEF RecycleSubmission
  <2>2. Distinct(free)' /\ Len(free') = Len(free) + 1
    BY <2>1, DistinctAppend DEF PoolConserved
  <2>3. Lacks(free, current)' /\ Lacks(queue, current)'
    BY <1>0, <2>1 DEF Lacks
  <2>4. Apart(free, queue)' /\ Distinct(queue)'
    BY <2>1 DEF PoolConserved, Apart, Lacks, Distinct
  <2>5. Len(free') + Len(queue') = PoolSize
    BY <1>0, <2>1, <2>2 DEF PoolConserved
  <2> QED
    BY <1>0, <2>1, <2>2, <2>3, <2>4, <2>5 DEF PoolConserved
<1>5. CASE EmptyForPreemption \/ EmptyForReset
  BY <1>5, EmptyPool DEF EmptyForPreemption, EmptyForReset
<1> QED
  BY <1>1, <1>2, <1>3, <1>4, <1>5, PoolUntouchedBy

(* No entry of the pool is lost or in two places at once, under every      *)
(* interleaving of the DDI thread with the worker.  (m_dmaBufSubmissionFree, *)
(* m_dmaBufQueue and DoWork.)                                               *)
THEOREM PoolIsConserved == SafetySpec => []PoolConserved
<1>1. Init => TypeInv /\ PoolConserved
  BY TypeInit, PoolInit
<1>2. TypeInv /\ PoolConserved /\ [Next]_vars => (TypeInv /\ PoolConserved)'
  BY TypeStep, PoolStep
<1> QED
  BY <1>1, <1>2, PTL DEF SafetySpec

-----------------------------------------------------------------------------
(* A reset leaves the node quiet. *)

(* What the wait returns, and that a reset request is the last taken.      *)
(* (KeWaitForMultipleObjects in DoWork.)                                   *)
LEMMA LowestEventFirst ==
  ASSUME NEW e, WakesOn(e)
  PROVE  /\ workerPc = "wait" /\ e \in signalled /\ signalled' = signalled \ {e}
         /\ e = "resetRequest" => "preemption" \notin signalled
<1>1. PICK i \in DOMAIN WaitEvents :
        WaitEvents[i] = e /\ \A j \in 1..(i - 1) : WaitEvents[j] \notin signalled
  BY DEF WakesOn
<1>2. i \in 1..3 /\ WaitEvents[1] = "worker" /\ WaitEvents[2] = "preemption"
      /\ WaitEvents[3] = "resetRequest"
  BY DEF WaitEvents
<1>3. e = "resetRequest" => i = 3 /\ 2 \in 1..(i - 1)
  BY <1>1, <1>2
<1> QED
  BY <1>1, <1>2, <1>3 DEF WakesOn

(* A preemption request is in one place: its event is still set, or the    *)
(* worker thread took it and has not answered yet.                         *)
Answering == workerPc \in {"unstall", "empty", "report"}
PreemptionPhase ==
  /\ preempting <=> "preemption" \in signalled \/ Answering
  /\ ~("preemption" \in signalled /\ Answering)

(* And so is a reset request: set, taken, or reported as complete.  The    *)
(* worker takes it last of the three, after which no preemption is pending *)
(* and nothing gets into the queue.                                        *)
TakingReset == workerPc \in {"resetEmpty", "resetSignal"}
ResetPhases ==
  /\ (\/ "resetRequest" \in signalled \/ TakingReset
      \/ "resetCompletion" \in signalled) <=> ddi \in ResetCalls
  /\ "resetRequest" \in signalled => ~TakingReset /\ "resetCompletion" \notin signalled
  /\ "resetCompletion" \in signalled => workerPc \in {"wait", "drain"}
  /\ TakingReset \/ "resetCompletion" \in signalled => ~preempting
  /\ workerPc = "resetSignal" \/ "resetCompletion" \in signalled => dmaBufQueue = <<>>

(* The worker thread ends for Stop only, never with a reset under way. *)
ExitOnStop == workerExit => ddi \in {"Stop", "stopped"}

ResetInv == PreemptionPhase /\ ResetPhases /\ ExitOnStop

(* No request is under way when Start has returned. *)
LEMMA ResetInit == Init => ResetInv
  BY DEF Init, ResetInv, PreemptionPhase, ResetPhases, ExitOnStop,
     Answering, TakingReset, ResetCalls

(* The worker thread takes requests one at a time and lowest event first.  *)
LEMMA WorkerReset ==
  ASSUME TypeInv, ResetInv, Worker
  PROVE  ResetInv'
<1> USE DEF ResetInv, PreemptionPhase, ResetPhases, ExitOnStop,
            Answering, TakingReset
<1>1. CASE WakeForQueue
  <2>1. /\ workerPc = "wait" /\ signalled' = signalled \ {"worker"}
        /\ workerPc' \in {"exited", "drain"}
        /\ workerPc' = "exited" => ddi \in {"Stop", "stopped"}
        /\ UNCHANGED <<ddi, workerExit, preempting, dmaBufQueue>>
    BY <1>1, LowestEventFirst DEF WakeForQueue
  <2> QED
    BY <2>1 DEF ResetCalls
<1>2. CASE WakeForPreemption
  BY <1>2, LowestEventFirst DEF WakeForPreemption
<1>3. CASE WakeForReset
  BY <1>3, LowestEventFirst DEF WakeForReset
<1>4. CASE DequeueDmaBuffer
  <2>1. CASE dmaBufQueue = <<>>
    BY <1>4, <2>1 DEF DequeueDmaBuffer
  <2>2. CASE dmaBufQueue # <<>>
    BY <1>4, <2>2 DEF DequeueDmaBuffer
  <2> QED
    BY <2>1, <2>2
<1>5. CASE PreemptStall
  BY <1>5 DEF PreemptStall
<1>6. CASE EndStall \/ SkipHungCompletion \/ TrackCompletion
  BY <1>6 DEF EndStall, SkipHungCompletion, TrackCompletion
<1>7. CASE NotifyDmaBufCompletion
  BY <1>7 DEF NotifyDmaBufCompletion, VidSchCompleted
<1>8. CASE RecycleSubmission
  BY <1>8 DEF RecycleSubmission
<1>9. CASE EmptyForPreemption
  BY <1>9 DEF EmptyForPreemption, EmptyDmaBufferQueue
<1>10. CASE ReportPreemption
  BY <1>10 DEF ReportPreemption, VidSchPreempted
<1>11. CASE NotePreemption
  BY <1>11 DEF NotePreemption
<1>12. CASE EmptyForReset
  BY <1>12 DEF EmptyForReset, EmptyDmaBufferQueue
<1>13. CASE SignalReset
  BY <1>13 DEF SignalReset
<1> QED
  BY <1>1, <1>2, <1>3, <1>4, <1>5, <1>6, <1>7, <1>8, <1>9, <1>10, <1>11, <1>12, <1>13
  DEF Worker

(* VidSch starts no call during a reset. *)
LEMMA CallReset ==
  ASSUME TypeInv, ResetInv, DdiThread \/ VidSch
  PROVE  ResetInv'
<1> USE DEF ResetInv, PreemptionPhase, ResetPhases, ExitOnStop,
            Answering, TakingReset, NodeIdle, ResetCalls
<1>1. CASE WakeWorker \/ FinishStop
  BY <1>1 DEF WakeWorker, FinishStop
<1>2. CASE FinishReset
  BY <1>2 DEF FinishReset, VidSchReset
<1>3. ASSUME NEW b \in Buffers, Prepare(b) \/ CancelCommand(b) PROVE ResetInv'
  BY <1>3 DEF Prepare, CancelCommand
<1>4. ASSUME NEW b \in Buffers, SubmitCommand(b) PROVE ResetInv'
  <2>1. /\ ddi = "idle" /\ ddi' = "SubmitCommand"
        /\ UNCHANGED <<signalled, workerPc, preempting, workerExit>>
    BY <1>4 DEF SubmitCommand, MaySubmit
  <2> QED
    BY <2>1
<1>5. CASE PreemptCommand
  BY <1>5 DEF PreemptCommand
<1>6. ASSUME NEW call \in ResetCalls, RequestReset(call) PROVE ResetInv'
  BY <1>6 DEF RequestReset
<1>7. CASE RequestStop
  BY <1>7 DEF RequestStop
<1> QED
  BY <1>1, <1>2, <1>3, <1>4, <1>5, <1>6, <1>7 DEF DdiThread, VidSch

(* No step of any party loses a request or puts it in two places. *)
LEMMA ResetStep ==
  ASSUME TypeInv, ResetInv, [Next]_vars
  PROVE  ResetInv'
<1>1. CASE UNCHANGED vars \/ Stopped
  BY <1>1 DEF Stopped, ResetInv, PreemptionPhase, ResetPhases, ExitOnStop,
     Answering, TakingReset
<1> QED
  BY <1>1, WorkerReset, CallReset DEF Next

(* When ResetEngine or ResetFromTimeout is told that the reset is complete *)
(* the driver holds no submission and owes no answer to a preemption, in   *)
(* whatever order the requests reached the worker thread.                  *)
THEOREM ResetLeavesNodeQuiet == SafetySpec => []ResetQuiesces
<1>1. Init => TypeInv /\ ResetInv
  BY TypeInit, ResetInit
<1>2. TypeInv /\ ResetInv /\ [Next]_vars => (TypeInv /\ ResetInv)'
  BY TypeStep, ResetStep
<1>3. TypeInv /\ ResetInv => ResetQuiesces
  BY DEF ResetInv, PreemptionPhase, ResetPhases, ResetQuiesces
<1> QED
  BY <1>1, <1>2, <1>3, PTL DEF SafetySpec

-----------------------------------------------------------------------------
(* The contract of a GPU node. *)

Fence(s) == dmaBufSubssions[s].fence
Hangs(s) == dmaBufSubssions[s].bSimulateHang
Buf(s) == dmaBufSubssions[s].buf
Queued == {dmaBufQueue[i] : i \in 1..Len(dmaBufQueue)}
Running == workerPc \in {"stall", "run"}

(* The queue is in the order of the fences and the one that runs is older. *)
Ordered ==
  /\ \A i, j \in 1..Len(dmaBufQueue) : i < j => Fence(dmaBufQueue[i]) < Fence(dmaBufQueue[j])
  /\ Running => \A s \in Queued : Fence(current) < Fence(s)

(* Outstanding fences are new to VidSch and tell the DMA buffers apart. *)
FencesFresh ==
  /\ osCompleted <= lastSubmittedFenceId
  /\ \A b \in Submitted : osCompleted < fenceOf[b] /\ fenceOf[b] <= lastSubmittedFenceId
  /\ \A b, c \in Submitted : fenceOf[b] = fenceOf[c] => b = c

(* The driver's last completed fence is VidSch's, but for the moment       *)
(* between NotifyDmaBufCompletion's call back and its last statement.      *)
CompletedInSync ==
  IF workerPc = "track" THEN osCompleted = Fence(current)
                        ELSE lastCompletetdFenceId = osCompleted

(* Whatever VidSch waits for is in flight, or there is a reason: the node  *)
(* is preempted, hangs until it is reset, or is being reset.               *)
Hung == bInHangState /\ \A s \in InFlight : Hangs(s)
Accounted ==
  \A b \in Submitted :
    \/ \E s \in InFlight : Buf(s) = b
    \/ Answering
    \/ Hung
    \/ workerPc = "resetSignal" \/ "resetCompletion" \in signalled

FlightInv ==
  /\ InFlightIsOutstanding /\ HangPersists
  /\ Ordered /\ FencesFresh /\ CompletedInSync /\ Accounted
  /\ workerPc = "report" => dmaBufQueue = <<>>

Inv == TypeInv /\ PoolConserved /\ ResetInv /\ FlightInv

(* What is in flight, and the account of its buffers. *)
LEMMA InFlightFacts ==
  ASSUME TypeInv, FlightInv
  PROVE  /\ InFlight = Queued \cup (IF Running THEN {current} ELSE {})
         /\ InFlight \subseteq Slots
         /\ \A s \in InFlight : /\ Fence(s) \in Nat /\ Hangs(s) \in BOOLEAN
                                /\ Buf(s) \in Submitted /\ fenceOf[Buf(s)] = Fence(s)
                                /\ osCompleted < Fence(s) /\ Fence(s) <= lastSubmittedFenceId
<1>1. InFlight = Queued \cup (IF Running THEN {current} ELSE {})
  BY DEF InFlight, Queued, Running
<1>2. InFlight \subseteq Slots
  <2>1. Queued \subseteq Slots
    BY DEF Queued
  <2>2. Running => current \in Slots
    BY DEF Running
  <2> QED
    BY <1>1, <2>1, <2>2
<1>3. \A s \in Slots : Fence(s) \in Nat /\ Hangs(s) \in BOOLEAN
  BY DEF SubmissionType, Fence, Hangs
<1> QED
  BY <1>1, <1>2, <1>3 DEF FlightInv, InFlightIsOutstanding, FencesFresh, Fence, Buf

(* The same queue, the same account, and the worker thread at a point of   *)
(* the same meaning: nothing changes for what is in flight.                *)
LEMMA FlightFrame ==
  ASSUME TypeInv, FlightInv,
         UNCHANGED <<dmaBufSubssions, dmaBufQueue, fenceOf, osCompleted,
                     lastSubmittedFenceId, bInHangState>>,
         Submitted' = Submitted,
         Running' = Running, Running => current' = current,
         CompletedInSync', Answering => Answering',
         workerPc = "resetSignal" \/ "resetCompletion" \in signalled
           => workerPc' = "resetSignal" \/ "resetCompletion" \in signalled',
         workerPc' = "report" => workerPc = "report"
  PROVE  FlightInv'
<1>1. InFlight' = InFlight /\ Queued' = Queued
  BY DEF InFlight, Queued, Running
<1>2. InFlightIsOutstanding' /\ HangPersists'
  BY <1>1 DEF FlightInv, InFlightIsOutstanding, HangPersists
<1>3. Ordered'
  BY <1>1 DEF FlightInv, Ordered, Fence
<1>4. FencesFresh'
  BY <1>1 DEF FlightInv, FencesFresh
<1>5. Hung' = Hung
  BY <1>1 DEF Hung, Hangs
<1>6. Accounted'
  BY <1>1, <1>5 DEF FlightInv, Accounted, Buf
<1> QED
  BY <1>2, <1>3, <1>4, <1>6 DEF FlightInv

(* Nothing in flight any more and a reason that VidSch knows of. *)
LEMMA FlightEmpty ==
  ASSUME TypeInv, FlightInv, dmaBufQueue' = <<>>, ~Running', 
         FencesFresh', CompletedInSync',
         \/ Submitted' = {} \/ Answering'
         \/ workerPc' = "resetSignal" \/ "resetCompletion" \in signalled'
  PROVE  FlightInv'
<1>1. Len(dmaBufQueue') = 0
  OBVIOUS
<1>2. InFlight' = {} /\ Queued' = {}
  BY <1>1 DEF InFlight, Queued, Running
<1>3. InFlightIsOutstanding' /\ HangPersists' /\ Accounted' /\ Ordered'
  BY <1>1, <1>2 DEF InFlightIsOutstanding, HangPersists, Accounted, Ordered
<1> QED
  BY <1>3 DEF FlightInv

(* What runs leaves the flight: completed, hung or preempted. *)
LEMMA FlightWithoutCurrent ==
  ASSUME TypeInv, FlightInv, Running, ~Running',
         UNCHANGED <<dmaBufSubssions, dmaBufQueue, fenceOf, lastSubmittedFenceId,
                     bInHangState>>
  PROVE  /\ InFlight' = Queued /\ InFlight = Queued \cup {current}
         /\ Queued' = Queued /\ current \notin Queued
         /\ Ordered' /\ HangPersists'
         /\ \A s \in Queued : Fence(current) < Fence(s)
<1>1. /\ InFlight' = Queued /\ InFlight = Queued \cup {current} /\ Queued' = Queued
  BY DEF InFlight, Queued, Running
<1>2. \A s \in Queued : Fence(current) < Fence(s)
  BY DEF FlightInv, Ordered
<1>3. current \notin Queued
  BY <1>1, <1>2, InFlightFacts
<1>4. Ordered'
  BY <1>1 DEF FlightInv, Ordered, Fence
<1>5. HangPersists'
  BY <1>1 DEF FlightInv, HangPersists
<1> QED
  BY <1>1, <1>2, <1>3, <1>4, <1>5

(* Before anything is submitted there is nothing in flight. *)
LEMMA FlightInit == Init => FlightInv
<1> SUFFICES ASSUME Init PROVE FlightInv
  OBVIOUS
<1>1. Len(dmaBufQueue) = 0 /\ workerPc = "wait"
  BY DEF Init
<1>2. InFlight = {} /\ Queued = {} /\ Submitted = {}
  BY <1>1 DEF Init, InFlight, Queued, Submitted
<1>3. InFlightIsOutstanding /\ HangPersists /\ Accounted /\ Ordered
  BY <1>1, <1>2 DEF InFlightIsOutstanding, HangPersists, Accounted, Ordered, Running
<1>4. FencesFresh /\ CompletedInSync
  BY <1>1, <1>2 DEF Init, FencesFresh, CompletedInSync
<1> QED
  BY <1>1, <1>3, <1>4 DEF FlightInv

(* A submission is appended behind all others under a fence larger than    *)
(* theirs, in an entry that none of them uses (QueueDmaBuffer).            *)
LEMMA SubmitFlight ==
  ASSUME TypeInv, PoolConserved, FlightInv, ResetInv,
         NEW b \in Buffers, SubmitCommand(b)
  PROVE  FlightInv'
<1> USE DEF Fence, Hangs, Buf
<1>0. PICK set \in SUBSET Triggers : QueueDmaBuffer(b, set)
  BY DEF SubmitCommand
<1>1. PICK slot \in Slots : slot = Head(dmaBufSubmissionFree)
  BY <1>0, SeqTail DEF QueueDmaBuffer
<1>2. PICK f \in Nat : f = lastSubmittedFenceId + 1
  OBVIOUS
<1>2a. Lacks(dmaBufQueue, slot) /\ slot # current
  <2>1. dmaBufSubmissionFree # <<>>
    BY <1>0 DEF QueueDmaBuffer
  <2>2. slot # current
    BY <1>1, <2>1, LacksTail DEF PoolConserved
  <2>3. slot = dmaBufSubmissionFree[1] /\ 1 \in 1..Len(dmaBufSubmissionFree)
    BY <1>1, <2>1, SeqTail
  <2> QED
    BY <2>2, <2>3 DEF PoolConserved, Apart
<1>3. /\ dmaBufQueue' = Append(dmaBufQueue, slot)
      /\ dmaBufSubssions' = [dmaBufSubssions EXCEPT ![slot] =
           [buf |-> b, fence |-> f, bSimulateHang |-> SimulateHang(set, b)]]
      /\ lastSubmittedFenceId' = f
      /\ bInHangState' = (bInHangState \/ HangTriggered(set, b))
  BY <1>0, <1>1, <1>2 DEF QueueDmaBuffer
<1>4. /\ ~preempting /\ status[b] \in {"ready", "preempted"}
      /\ status' = [status EXCEPT ![b] = "submitted"]
      /\ fenceOf' = [fenceOf EXCEPT ![b] = f]
      /\ UNCHANGED <<signalled, workerPc, current, osCompleted, lastCompletetdFenceId>>
  BY <1>2 DEF SubmitCommand, MaySubmit
<1>5. /\ Len(dmaBufQueue') = Len(dmaBufQueue) + 1 /\ Len(dmaBufQueue) \in Nat
      /\ dmaBufQueue'[Len(dmaBufQueue) + 1] = slot
      /\ \A i \in 1..Len(dmaBufQueue) : dmaBufQueue'[i] = dmaBufQueue[i]
                                        /\ dmaBufQueue[i] \in Queued
  BY <1>2, <1>3 DEF Queued
<1>6. slot \notin Queued /\ Queued' = Queued \cup {slot}
  <2>1. slot \notin Queued
    BY <1>2a DEF Lacks, Queued
  <2>2. Queued' \subseteq Queued \cup {slot}
    BY <1>5 DEF Queued
  <2>3. Queued \subseteq Queued'
    <3>1. \A i \in 1..Len(dmaBufQueue) : i \in 1..Len(dmaBufQueue')
      BY <1>5
    <3> QED
      BY <1>5, <3>1 DEF Queued
  <2>4. slot \in Queued'
    <3>1. Len(dmaBufQueue) + 1 \in 1..Len(dmaBufQueue')
      BY <1>5
    <3> QED
      BY <1>5, <3>1 DEF Queued
  <2> QED
    BY <2>1, <2>2, <2>3, <2>4
<1>7. slot \notin InFlight /\ InFlight' = InFlight \cup {slot} /\ Running' = Running
  BY <1>2a, <1>4, <1>6, InFlightFacts DEF InFlight, Queued, Running
<1>8. /\ \A s \in InFlight : Fence(s)' = Fence(s) /\ Hangs(s)' = Hangs(s) /\ Buf(s)' = Buf(s)
      /\ Fence(slot)' = f /\ Hangs(slot)' = SimulateHang(set, b) /\ Buf(slot)' = b
  BY <1>3, <1>7, InFlightFacts
<1>9. /\ Submitted' = Submitted \cup {b} /\ b \notin Submitted
      /\ fenceOf'[b] = f /\ \A c \in Submitted : fenceOf'[c] = fenceOf[c]
  BY <1>4 DEF Submitted
<1>10. InFlightIsOutstanding'
  <2>1. \A s \in InFlight : Buf(s)' \in Submitted' /\ fenceOf'[Buf(s)'] = Fence(s)'
    <3>1. \A s \in InFlight : Buf(s) \in Submitted /\ fenceOf[Buf(s)] = Fence(s)
      BY InFlightFacts
    <3> QED
      BY ZenonT(60), <1>8, <1>9, <3>1
  <2> QED
    BY <1>7, <1>8, <1>9, <2>1 DEF InFlightIsOutstanding
<1>11. HangPersists'
  <2>1. \A s \in InFlight : Hangs(s) => bInHangState /\ \A t \in InFlight :
                                         Fence(t) > Fence(s) => Hangs(t)
    BY DEF FlightInv, HangPersists
  <2>2. SimulateHang(set, b) => bInHangState'
    BY <1>3 DEF SimulateHang
  <2>3. bInHangState => SimulateHang(set, b) /\ bInHangState'
    BY <1>3 DEF SimulateHang
  <2>4. \A s \in InFlight : ~(Fence(s) > f)
    BY <1>2, InFlightFacts
  <2>5. \A s \in InFlight' : Hangs(s)' => bInHangState' /\ \A t \in InFlight' :
                                           Fence(t)' > Fence(s)' => Hangs(t)'
    BY <1>7, <1>8, <2>1, <2>2, <2>3, <2>4
  <2> QED
    BY <2>5 DEF HangPersists
<1>12. Ordered'
  <2>1. \A s \in InFlight : Fence(s) < f /\ Fence(s) \in Nat
    BY <1>2, InFlightFacts
  <2>2. ASSUME NEW i \in 1..Len(dmaBufQueue'), NEW j \in 1..Len(dmaBufQueue'), i < j
        PROVE  Fence(dmaBufQueue[i])' < Fence(dmaBufQueue[j])'
    <3>1. i \in 1..Len(dmaBufQueue) /\ dmaBufQueue'[i] = dmaBufQueue[i]
          /\ dmaBufQueue[i] \in InFlight
      BY <1>5, <2>2, InFlightFacts
    <3>2. CASE j \in 1..Len(dmaBufQueue)
      <4>1. dmaBufQueue'[j] = dmaBufQueue[j] /\ dmaBufQueue[j] \in InFlight
        BY <1>5, <3>2, InFlightFacts
      <4>2. Fence(dmaBufQueue[i]) < Fence(dmaBufQueue[j])
        BY <2>2, <3>1, <3>2 DEF FlightInv, Ordered
      <4> QED
        BY <1>8, <3>1, <4>1, <4>2
    <3>3. CASE j = Len(dmaBufQueue) + 1
      BY <1>5, <1>8, <2>1, <3>1, <3>3
    <3> QED
      BY <1>5, <3>2, <3>3
  <2>3. Running => \A s \in Queued' : Fence(current) < Fence(s)'
    BY <1>6, <1>8, <2>1, InFlightFacts DEF FlightInv, Ordered
  <2>4. Running => Fence(current)' = Fence(current)
    BY <1>4, <1>8, InFlightFacts
  <2> QED
    BY <1>7, <2>2, <2>3, <2>4 DEF Ordered
<1>13. FencesFresh'
  <2>1. \A c \in Submitted : /\ osCompleted < fenceOf[c] /\ fenceOf[c] < f
                            /\ fenceOf[c] \in Nat
    BY <1>2 DEF FlightInv, FencesFresh, Submitted
  <2>2. osCompleted < f
    BY <1>2 DEF FlightInv, FencesFresh
  <2>3. \A c, d \in Submitted : fenceOf[c] = fenceOf[d] => c = d
    BY DEF FlightInv, FencesFresh
  <2> QED
    BY <1>3, <1>4, <1>9, <2>1, <2>2, <2>3 DEF FencesFresh
<1>14. CompletedInSync'
  <2>1. workerPc = "track" => current \in Slots
    OBVIOUS
  <2> QED
    BY <1>2a, <1>3, <1>4, <2>1 DEF FlightInv, CompletedInSync
<1>15. Accounted'
  <2>1. ~Answering
    BY <1>4 DEF ResetInv, PreemptionPhase
  <2>2. Hung => Hung'
    <3>1. bInHangState => SimulateHang(set, b) /\ bInHangState'
      BY <1>3 DEF SimulateHang
    <3>2. Hung => bInHangState' /\ \A s \in InFlight' : Hangs(s)'
      BY <1>7, <1>8, <3>1 DEF Hung
    <3> QED
      BY <3>2 DEF Hung
  <2>3. \E s \in InFlight' : Buf(s)' = b
    BY <1>7, <1>8
  <2>4. \A c \in Submitted : (\E s \in InFlight : Buf(s) = c) => \E s \in InFlight' : Buf(s)' = c
    BY <1>7, <1>8
  <2>5. \A c \in Submitted' :
          \/ \E s \in InFlight' : Buf(s)' = c
          \/ Hung'
          \/ workerPc' = "resetSignal" \/ "resetCompletion" \in signalled'
    BY <1>4, <1>9, <2>1, <2>2, <2>3, <2>4 DEF FlightInv, Accounted
  <2> QED
    BY <2>5 DEF Accounted
<1>16. workerPc' = "report" => dmaBufQueue' = <<>>
  BY <1>4 DEF ResetInv, PreemptionPhase, Answering
<1> QED
  BY <1>10, <1>11, <1>12, <1>13, <1>14, <1>15, <1>16 DEF FlightInv

(* The oldest submission goes from the queue to the worker's hand, or the  *)
(* worker goes back to its wait.                                           *)
LEMMA DequeueFlight ==
  ASSUME TypeInv, FlightInv, DequeueDmaBuffer
  PROVE  FlightInv'
<1>0. /\ workerPc = "drain" /\ ~Running
      /\ UNCHANGED <<dmaBufSubssions, status, fenceOf, osCompleted, signalled,
                     lastSubmittedFenceId, bInHangState, lastCompletetdFenceId>>
  BY DEF DequeueDmaBuffer, Running
<1>1. CASE dmaBufQueue = <<>>
  <2>1. workerPc' = "wait" /\ UNCHANGED <<dmaBufQueue, current>>
    BY <1>1 DEF DequeueDmaBuffer
  <2>2. CompletedInSync'
    BY <1>0, <2>1 DEF FlightInv, CompletedInSync
  <2> QED
    BY <1>0, <2>1, <2>2, FlightFrame DEF Running, Answering, Submitted
<1>2. CASE dmaBufQueue # <<>>
  <2>1. /\ current' = Head(dmaBufQueue) /\ dmaBufQueue' = Tail(dmaBufQueue)
        /\ workerPc' \in {"stall", "run"} /\ Running'
    BY <1>2 DEF DequeueDmaBuffer, Running
  <2>2. /\ current' = dmaBufQueue[1] /\ 1 \in 1..Len(dmaBufQueue)
        /\ \A i \in 1..Len(dmaBufQueue') : /\ i + 1 \in 1..Len(dmaBufQueue) /\ 1 < i + 1
                                           /\ dmaBufQueue'[i] = dmaBufQueue[i + 1]
    BY <1>2, <2>1, SeqTail
  <2>3. Queued = Queued' \cup {current'}
    <3>1. Queued' \cup {current'} \subseteq Queued
      BY ZenonT(60), <2>2 DEF Queued
    <3>2. ASSUME NEW i \in 1..Len(dmaBufQueue), i # 1
          PROVE  dmaBufQueue[i] \in Queued'
      <4>1. i - 1 \in 1..Len(dmaBufQueue') /\ dmaBufQueue'[i - 1] = dmaBufQueue[i]
        BY <1>2, <2>1, <2>2, <3>2, SeqTail
      <4> QED
        BY <4>1 DEF Queued
    <3>3. ASSUME NEW i \in 1..Len(dmaBufQueue)
          PROVE  dmaBufQueue[i] \in Queued' \cup {current'}
      <4>1. CASE i = 1
        BY <4>1, <2>2
      <4>2. CASE i # 1
        BY <4>2, <3>2
      <4> QED
        BY <4>1, <4>2
    <3>4. Queued \subseteq Queued' \cup {current'}
      BY <3>3 DEF Queued
    <3> QED
      BY <3>1, <3>4
  <2>4. InFlight' = InFlight /\ Submitted' = Submitted
    BY <1>0, <2>1, <2>3, InFlightFacts DEF InFlight, Queued, Running, Submitted
  <2>5. InFlightIsOutstanding' /\ HangPersists'
    BY <1>0, <2>4 DEF FlightInv, InFlightIsOutstanding, HangPersists
  <2>6. Ordered'
    <3>1. \A i, j \in 1..Len(dmaBufQueue') :
            i < j => Fence(dmaBufQueue'[i]) < Fence(dmaBufQueue'[j])
      BY <2>2 DEF FlightInv, Ordered
    <3>2. \A i \in 1..Len(dmaBufQueue') : Fence(current') < Fence(dmaBufQueue'[i])
      BY <2>2 DEF FlightInv, Ordered
    <3> QED
      BY <1>0, <3>1, <3>2 DEF Ordered, Fence, Queued
  <2>7. FencesFresh'
    BY <1>0, <2>4 DEF FlightInv, FencesFresh
  <2>8. CompletedInSync'
    BY <1>0, <2>1 DEF FlightInv, CompletedInSync
  <2>9. Accounted'
    <3>1. Hung' = Hung
      BY <1>0, <2>4 DEF Hung, Hangs
    <3> QED
      BY <1>0, <2>4, <3>1 DEF FlightInv, Accounted, Answering, Buf
  <2> QED
    BY <2>1, <2>5, <2>6, <2>7, <2>8, <2>9 DEF FlightInv
<1> QED
  BY <1>1, <1>2

(* What runs is the oldest that VidSch waits for.  (Otherwise the node is  *)
(* preempted, hangs or is being reset, and nothing completes.)             *)
LEMMA OldestCompletes ==
  ASSUME TypeInv, ResetInv, FlightInv, workerPc = "run",
         ~dmaBufSubssions[current].bSimulateHang
  PROVE  /\ Buf(current) \in Submitted /\ fenceOf[Buf(current)] = Fence(current)
         /\ Fence(current) \in Nat
         /\ osCompleted < Fence(current) /\ Fence(current) <= lastSubmittedFenceId
         /\ \A b \in Submitted : \E s \in InFlight : Buf(s) = b
         /\ \A b \in Submitted : b # Buf(current) => Fence(current) < fenceOf[b]
<1>1. /\ current \in InFlight /\ InFlight = Queued \cup {current}
      /\ \A s \in Queued : Fence(current) < Fence(s)
  BY DEF InFlight, Queued, Running, FlightInv, Ordered
<1>2. ~Hung /\ ~Answering
  BY <1>1 DEF Hung, Hangs, Answering
<1>3. \A b \in Submitted : \E s \in InFlight : Buf(s) = b
  BY <1>2 DEF FlightInv, Accounted, ResetInv, ResetPhases
<1>4. ASSUME NEW b \in Submitted, b # Buf(current) PROVE Fence(current) < fenceOf[b]
  <2>1. PICK s \in Queued : Buf(s) = b
    BY <1>1, <1>3, <1>4
  <2> QED
    BY <1>1, <2>1, InFlightFacts
<1> QED
  BY <1>1, <1>3, <1>4, InFlightFacts

(* NotifyDmaBufCompletion completes it. *)
LEMMA CompleteFlight ==
  ASSUME TypeInv, ResetInv, FlightInv, NotifyDmaBufCompletion
  PROVE  /\ FlightInv'
         /\ Submitted' = Submitted \ {Buf(current)} /\ osCompleted' = Fence(current)
<1>1. /\ workerPc = "run" /\ ~dmaBufSubssions[current].bSimulateHang
      /\ workerPc' = "track" /\ osCompleted' = Fence(current)
      /\ UNCHANGED <<dmaBufSubssions, dmaBufQueue, fenceOf, lastSubmittedFenceId,
                     bInHangState, current>>
  BY DEF NotifyDmaBufCompletion, VidSchCompleted, Fence
<1>2. Submitted' = {b \in Submitted : ~(fenceOf[b] <= Fence(current))}
  BY DEF NotifyDmaBufCompletion, VidSchCompleted, Fence, Submitted
<1>3. \A b \in Submitted : fenceOf[b] \in Nat
  BY DEF Submitted
<1>4. Submitted' = Submitted \ {Buf(current)}
  BY <1>1, <1>2, <1>3, OldestCompletes
<1>5. /\ InFlight' = Queued /\ InFlight = Queued \cup {current} /\ current \notin Queued
      /\ \A s \in Queued : Fence(current) < Fence(s)
      /\ Ordered' /\ HangPersists'
  BY <1>1, FlightWithoutCurrent DEF Running
<1>6. \A s \in Queued : Buf(s) \in Submitted' /\ fenceOf[Buf(s)] = Fence(s)
  <2>1. \A s \in Queued : Buf(s) \in Submitted /\ fenceOf[Buf(s)] = Fence(s) /\ Fence(s) \in Nat
    BY <1>5, InFlightFacts
  <2>2. Fence(current) \in Nat /\ fenceOf[Buf(current)] = Fence(current)
    BY <1>1, OldestCompletes
  <2> QED
    BY <1>4, <1>5, <2>1, <2>2
<1>7. InFlightIsOutstanding'
  BY <1>1, <1>5, <1>6 DEF InFlightIsOutstanding, Fence, Buf
<1>8. FencesFresh'
  <2>1. \A b \in Submitted' : Fence(current) < fenceOf[b]
    BY <1>1, <1>4, OldestCompletes
  <2>2. Fence(current) <= lastSubmittedFenceId
    BY <1>1, OldestCompletes
  <2> QED
    BY <1>1, <1>4, <2>1, <2>2 DEF FlightInv, FencesFresh
<1>9. Accounted'
  <2>1. \A b \in Submitted' : \E s \in Queued : Buf(s) = b
    BY <1>1, <1>4, <1>5, OldestCompletes
  <2> QED
    BY <1>1, <1>5, <2>1 DEF Accounted, Buf
<1>10. CompletedInSync'
  BY <1>1 DEF CompletedInSync, Fence
<1> QED
  BY <1>1, <1>4, <1>5, <1>7, <1>8, <1>9, <1>10 DEF FlightInv

(* A hung or preempted submission leaves the worker's hand, and VidSch     *)
(* still waits for it: for the reset or for the answer to its request.     *)
LEMMA AbandonFlight ==
  ASSUME TypeInv, FlightInv, SkipHungCompletion \/ PreemptStall
  PROVE  FlightInv'
<1>1. /\ Running /\ ~Running' /\ workerPc' \in {"recycle", "unstall"}
      /\ UNCHANGED <<dmaBufSubssions, dmaBufQueue, status, fenceOf, osCompleted,
                     lastSubmittedFenceId, lastCompletetdFenceId, bInHangState, current>>
  BY DEF SkipHungCompletion, PreemptStall, Running, VidSchCompleted
<1>2. /\ InFlight' = Queued /\ InFlight = Queued \cup {current} /\ Submitted' = Submitted
      /\ \A s \in Queued : Fence(current) < Fence(s)
      /\ Ordered' /\ HangPersists'
  BY <1>1, FlightWithoutCurrent DEF Submitted
<1>3. InFlightIsOutstanding'
  BY <1>1, <1>2 DEF FlightInv, InFlightIsOutstanding
<1>4. FencesFresh'
  BY <1>1, <1>2 DEF FlightInv, FencesFresh
<1>5. CompletedInSync'
  BY <1>1 DEF FlightInv, CompletedInSync, Running
<1>6. Accounted'
  <2>1. CASE SkipHungCompletion
    <3>1. Hangs(current)
      BY <2>1 DEF SkipHungCompletion, Hangs
    <3>2. bInHangState /\ \A s \in Queued : Hangs(s)
      <4>1. \A s \in Queued : Fence(s) > Fence(current)
        BY <1>2, InFlightFacts
      <4> QED
        BY <1>2, <3>1, <4>1 DEF FlightInv, HangPersists, Hangs, Fence
    <3>3. Hung'
      BY <1>1, <1>2, <3>2 DEF Hung, Hangs
    <3> QED
      BY <3>3 DEF Accounted
  <2>2. CASE PreemptStall
    BY <2>2 DEF PreemptStall, Accounted, Answering
  <2> QED
    BY <2>1, <2>2
<1> QED
  BY <1>1, <1>2, <1>3, <1>4, <1>5, <1>6 DEF FlightInv

(* The answer to a preemption finds the queue empty and tells VidSch what  *)
(* it knows already.                                                       *)
LEMMA ReportFlight ==
  ASSUME TypeInv, FlightInv, ReportPreemption
  PROVE  FlightInv' /\ Submitted' = {} /\ UNCHANGED osCompleted
<1>1. /\ workerPc = "report" /\ workerPc' = "note" /\ dmaBufQueue' = <<>>
      /\ osCompleted' = osCompleted
      /\ UNCHANGED <<fenceOf, lastSubmittedFenceId, lastCompletetdFenceId>>
  BY DEF ReportPreemption, VidSchPreempted, FlightInv, CompletedInSync
<1>2. Submitted' = {}
  BY DEF ReportPreemption, VidSchPreempted, Submitted
<1>3. FencesFresh'
  BY <1>1, <1>2 DEF FlightInv, FencesFresh
<1>4. CompletedInSync'
  BY <1>1 DEF FlightInv, CompletedInSync
<1> QED
  BY <1>1, <1>2, <1>3, <1>4, FlightEmpty DEF Running

(* The end of a reset finds the driver empty.                              *)
LEMMA FinishResetFlight ==
  ASSUME TypeInv, ResetInv, FlightInv, FinishReset
  PROVE  /\ FlightInv' /\ Submitted' = {} /\ ~preempting
         /\ osCompleted' = lastSubmittedFenceId
<1>1. /\ workerPc \in {"wait", "drain"} /\ dmaBufQueue = <<>> /\ ~preempting
      /\ UNCHANGED <<workerPc, dmaBufQueue, lastSubmittedFenceId>>
      /\ osCompleted' = lastSubmittedFenceId /\ lastCompletetdFenceId' = lastSubmittedFenceId
  BY DEF FinishReset, VidSchReset, SyncedFence, ResetInv, ResetPhases
<1>2. Submitted' = {}
  BY DEF FinishReset, VidSchReset, Submitted
<1>3. FencesFresh' /\ CompletedInSync'
  BY <1>1, <1>2 DEF FencesFresh, CompletedInSync
<1> QED
  BY <1>1, <1>2, <1>3, FlightEmpty DEF Running

(* Every step of the worker thread keeps what is in flight in order. *)
LEMMA WorkerFlight ==
  ASSUME TypeInv, ResetInv, FlightInv, Worker
  PROVE  FlightInv'
<1>1. CASE WakeForQueue \/ WakeForPreemption \/ WakeForReset
  <2>1. /\ workerPc = "wait" /\ workerPc' \in {"exited", "drain", "empty", "resetEmpty"}
        /\ "resetCompletion" \in signalled => "resetCompletion" \in signalled'
    BY <1>1, LowestEventFirst DEF WakeForQueue, WakeForPreemption, WakeForReset
  <2>2. UNCHANGED <<dmaBufSubssions, dmaBufQueue, status, fenceOf, osCompleted, current,
                    lastSubmittedFenceId, lastCompletetdFenceId, bInHangState>>
    BY <1>1 DEF WakeForQueue, WakeForPreemption, WakeForReset
  <2>3. CompletedInSync'
    BY <2>1, <2>2 DEF FlightInv, CompletedInSync
  <2> QED
    BY <2>1, <2>2, <2>3, FlightFrame DEF Running, Answering, Submitted
<1>2. CASE EndStall
  <2>1. CompletedInSync'
    BY <1>2 DEF EndStall, FlightInv, CompletedInSync
  <2> QED
    BY <1>2, <2>1, FlightFrame DEF EndStall, Running, Answering, Submitted
<1>3. CASE TrackCompletion
  <2>1. CompletedInSync'
    BY <1>3 DEF TrackCompletion, FlightInv, CompletedInSync, Fence
  <2> QED
    BY <1>3, <2>1, FlightFrame DEF TrackCompletion, Running, Answering, Submitted
<1>4. CASE RecycleSubmission
  <2>1. CompletedInSync'
    BY <1>4 DEF RecycleSubmission, FlightInv, CompletedInSync
  <2> QED
    BY <1>4, <2>1, FlightFrame DEF RecycleSubmission, Running, Answering, Submitted
<1>5. CASE EmptyForPreemption \/ EmptyForReset
  <2>1. /\ UNCHANGED <<status, fenceOf, osCompleted, lastSubmittedFenceId,
                       lastCompletetdFenceId>>
        /\ dmaBufQueue' = <<>> /\ workerPc # "track" /\ workerPc' \in {"report", "resetSignal"}
    BY <1>5 DEF EmptyForPreemption, EmptyForReset, EmptyDmaBufferQueue
  <2>2. FencesFresh' /\ CompletedInSync'
    BY <2>1 DEF FlightInv, FencesFresh, CompletedInSync, Submitted
  <2> QED
    BY <2>1, <2>2, FlightEmpty DEF Running, Answering
<1>6. CASE NotePreemption \/ SignalReset
  <2>1. CompletedInSync'
    BY <1>6 DEF NotePreemption, SignalReset, FlightInv, CompletedInSync
  <2> QED
    BY <1>6, <2>1, FlightFrame DEF NotePreemption, SignalReset, Running, Answering, Submitted
<1> QED
  BY <1>1, <1>2, <1>3, <1>4, <1>5, <1>6, DequeueFlight, CompleteFlight, AbandonFlight,
     ReportFlight DEF Worker

(* And so does every step of the DDI thread and of VidSch. *)
LEMMA CallFlight ==
  ASSUME TypeInv, PoolConserved, ResetInv, FlightInv, DdiThread \/ VidSch
  PROVE  FlightInv'
<1>1. CASE WakeWorker \/ FinishStop \/ PreemptCommand \/ RequestStop
           \/ \E call \in ResetCalls : RequestReset(call)
  <2>1. /\ UNCHANGED <<dmaBufSubssions, dmaBufQueue, status, fenceOf, osCompleted, current,
                      lastSubmittedFenceId, lastCompletetdFenceId, bInHangState, workerPc>>
        /\ signalled \subseteq signalled'
    BY <1>1 DEF WakeWorker, FinishStop, PreemptCommand, RequestStop, RequestReset
  <2>2. CompletedInSync'
    BY <2>1 DEF FlightInv, CompletedInSync, Fence
  <2> QED
    BY <2>1, <2>2, FlightFrame DEF Running, Answering, Submitted
<1>2. ASSUME NEW b \in Buffers, Prepare(b) \/ CancelCommand(b) PROVE FlightInv'
  <2>1. /\ UNCHANGED <<dmaBufSubssions, dmaBufQueue, fenceOf, osCompleted, current, signalled,
                      lastSubmittedFenceId, lastCompletetdFenceId, bInHangState, workerPc>>
        /\ Submitted' = Submitted
    BY <1>2 DEF Prepare, CancelCommand, Submitted
  <2>2. CompletedInSync'
    BY <2>1 DEF FlightInv, CompletedInSync, Fence
  <2> QED
    BY <2>1, <2>2, FlightFrame DEF Running, Answering
<1> QED
  BY <1>1, <1>2, SubmitFlight, FinishResetFlight DEF DdiThread, VidSch

(* The inductive invariant.                                                *)
LEMMA InvInit == Init => Inv
  BY TypeInit, PoolInit, ResetInit, FlightInit DEF Inv

LEMMA InvStep == Inv /\ [Next]_vars => Inv'
<1> SUFFICES ASSUME Inv, [Next]_vars PROVE Inv'
  OBVIOUS
<1>1. CASE UNCHANGED vars \/ Stopped
  <2>1. UNCHANGED vars
    BY <1>1 DEF Stopped
  <2>2. CompletedInSync'
    BY <2>1 DEF Inv, FlightInv, CompletedInSync, Fence
  <2>3. FlightInv'
    BY <2>1, <2>2, FlightFrame DEF Inv, Running, Answering, Submitted
  <2> QED
    BY <2>3, TypeStep, PoolStep, ResetStep DEF Inv
<1>2. CASE Worker \/ DdiThread \/ VidSch
  BY <1>2, TypeStep, PoolStep, ResetStep, WorkerFlight, CallFlight DEF Inv
<1> QED
  BY <1>1, <1>2 DEF Next

(* No preempted, aborted or completed DMA buffer is run by the worker      *)
(* thread, and none whose private data VidSch may already reuse.  (DoWork  *)
(* against SubmitCommand, PreemptCommand and ResetEngine.)                 *)
THEOREM NothingStaleRuns == SafetySpec => []InFlightIsOutstanding
<1>1. Inv => InFlightIsOutstanding
  BY DEF Inv, FlightInv
<1> QED
  BY <1>1, InvInit, InvStep, PTL DEF SafetySpec

(* Behind a submission that emulates a hang every other one hangs, until   *)
(* the reset.  (m_bInHangState and m_bSimulateHang.)                       *)
THEOREM HangIsNotOvertaken == SafetySpec => []HangPersists
<1>1. Inv => HangPersists
  BY DEF Inv, FlightInv
<1> QED
  BY <1>1, InvInit, InvStep, PTL DEF SafetySpec

(* The queue is no longer than what VidSch waits for: each entry has a DMA *)
(* buffer of its own.                                                      *)
LEMMA QueueIsBounded ==
  ASSUME Inv
  PROVE  Len(dmaBufQueue) \in Nat /\ Cardinality(Submitted) \in Nat
         /\ Len(dmaBufQueue) <= Cardinality(Submitted)
<1> DEFINE n == Len(dmaBufQueue)
           g == [i \in 1..n |-> Buf(dmaBufQueue[i])]
<1>1. n \in Nat
  BY DEF Inv
<1>2. \A i \in 1..n : /\ dmaBufQueue[i] \in InFlight /\ Buf(dmaBufQueue[i]) \in Submitted
                      /\ fenceOf[Buf(dmaBufQueue[i])] = Fence(dmaBufQueue[i])
                      /\ Fence(dmaBufQueue[i]) \in Nat
  BY InFlightFacts DEF Inv, InFlight
<1>3. ASSUME NEW i \in 1..n, NEW j \in 1..n, i # j PROVE g[i] # g[j]
  <2>1. Fence(dmaBufQueue[i]) # Fence(dmaBufQueue[j])
    BY <1>1, <1>2, <1>3 DEF Inv, FlightInv, Ordered
  <2> QED
    BY <1>2, <2>1
<1>4. g \in Injection(1..n, Submitted)
  <2>1. g \in [1..n -> Submitted]
    BY <1>2
  <2> QED
    BY <1>3, <2>1 DEF Injection, IsInjective
<1>5. IsFiniteSet(Submitted)
  BY ConstantsAssumption, FS_Subset DEF Submitted
<1>6. Cardinality(1..n) <= Cardinality(Submitted)
  <2> HIDE DEF n, g
  <2> QED
    BY <1>4, <1>5, FS_Injection
<1>7. Cardinality(1..n) = n
  <2> HIDE DEF n
  <2>1. Cardinality(1..n) = IF 1 > n THEN 0 ELSE n - 1 + 1
    BY <1>1, FS_Interval
  <2> QED
    BY <1>1, <2>1
<1> QED
  BY <1>1, <1>5, <1>6, <1>7, FS_CardinalityType

(* QueueDmaBuffer's assertion never fires if the pool is larger than the   *)
(* number of fences that VidSch keeps outstanding: besides the queued      *)
(* entries only the one in the worker's hand is in use.  (The code has 32  *)
(* entries and does not tell VidSch so.)                                   *)
THEOREM FreeEntryWhenPoolIsLarger ==
  ASSUME MaxPending < PoolSize
  PROVE  SafetySpec => []FreeEntryAvailable
<1>1. Inv => FreeEntryAvailable
  <2> SUFFICES ASSUME Inv, MaySubmit PROVE dmaBufSubmissionFree # <<>>
    BY DEF FreeEntryAvailable
  <2>1. Len(dmaBufQueue) < MaxPending
    BY QueueIsBounded, ConstantsAssumption DEF MaySubmit
  <2>2. /\ Len(dmaBufSubmissionFree) + Len(dmaBufQueue)
             + (IF current = NoSlot THEN 0 ELSE 1) = PoolSize
        /\ Len(dmaBufSubmissionFree) \in Nat /\ Len(dmaBufQueue) \in Nat
    BY DEF Inv, PoolConserved
  <2>3. Len(dmaBufSubmissionFree) # 0
    BY <2>1, <2>2, ConstantsAssumption
  <2> QED
    BY <2>3
<1> QED
  BY <1>1, InvInit, InvStep, PTL DEF SafetySpec

------------------------------------------------------------------------------
(* The contract with VidSch.                                               *)

(* The steps that VidSch does not see. *)
LEMMA Unseen ==
  ASSUME UNCHANGED <<fenceOf, lastSubmittedFenceId, osCompleted, preempting>>,
         Submitted' = Submitted, (ddi \in ResetCalls)' = (ddi \in ResetCalls)
  PROVE  UNCHANGED Contract!contractVars
  BY DEF Contract!contractVars

(* SubmitCommand hands over a new fence. *)
LEMMA SubmitContract ==
  ASSUME Inv, NEW b \in Buffers, SubmitCommand(b)
  PROVE  Contract!Submit
<1>1. /\ lastSubmittedFenceId' = lastSubmittedFenceId + 1 /\ lastSubmittedFenceId < MaxFence
      /\ ~preempting /\ ddi = "idle" /\ ddi' = "SubmitCommand"
      /\ UNCHANGED <<osCompleted, preempting>>
      /\ fenceOf' = [fenceOf EXCEPT ![b] = lastSubmittedFenceId + 1]
      /\ status' = [status EXCEPT ![b] = "submitted"]
      /\ status[b] # "submitted"
  BY DEF SubmitCommand, MaySubmit, NodeIdle, QueueDmaBuffer
<1>2. /\ Submitted' = Submitted \cup {b} /\ fenceOf'[b] = lastSubmittedFenceId + 1
      /\ \A c \in Submitted : fenceOf'[c] = fenceOf[c]
  BY <1>1 DEF Inv, Submitted
<1>3. {fenceOf'[c] : c \in Submitted'}
        = {fenceOf[c] : c \in Submitted} \cup {lastSubmittedFenceId + 1}
  BY <1>2
<1> QED
  BY <1>1, <1>3 DEF Contract!Submit, ResetCalls

(* NotifyDmaBufCompletion completes the oldest fence and no other. *)
LEMMA CompleteContract ==
  ASSUME Inv, NotifyDmaBufCompletion
  PROVE  Contract!Complete
<1> DEFINE f == Fence(current)
<1>1. /\ workerPc = "run" /\ ~dmaBufSubssions[current].bSimulateHang
      /\ UNCHANGED <<lastSubmittedFenceId, preempting, ddi, fenceOf>>
  BY DEF NotifyDmaBufCompletion, VidSchCompleted
<1>2. Submitted' = Submitted \ {Buf(current)} /\ osCompleted' = f
  BY CompleteFlight DEF Inv
<1>3. /\ Buf(current) \in Submitted /\ fenceOf[Buf(current)] = f /\ f \in Nat
      /\ \A b \in Submitted : b # Buf(current) => f < fenceOf[b]
  BY <1>1, OldestCompletes DEF Inv
<1>4. \A b \in Submitted : fenceOf[b] \in Nat
  BY DEF Inv, Submitted
<1>5. f \in {fenceOf[b] : b \in Submitted} /\ \A g \in {fenceOf[b] : b \in Submitted} : f <= g
  BY <1>3, <1>4
<1>6. {fenceOf[b] : b \in Submitted'} = {fenceOf[b] : b \in Submitted} \ {f}
  BY <1>2, <1>3, <1>4
<1> QED
  BY <1>1, <1>2, <1>5, <1>6 DEF Contract!Complete

(* NotifyPreemptionCompletion answers and leaves nothing outstanding. *)
LEMMA AnswerContract ==
  ASSUME Inv, ReportPreemption
  PROVE  Contract!AnswerPreemption
<1>1. preempting /\ preempting' = FALSE /\ UNCHANGED <<lastSubmittedFenceId, ddi>>
  BY DEF ReportPreemption, VidSchPreempted, Inv, ResetInv, PreemptionPhase, Answering
<1>2. Submitted' = {} /\ UNCHANGED osCompleted
  BY ReportFlight DEF Inv
<1>3. {fenceOf'[b] : b \in Submitted'} = {}
  BY <1>2
<1> QED
  BY <1>1, <1>2, <1>3 DEF Contract!AnswerPreemption

(* VidSch's own requests. *)
LEMMA RequestContract ==
  ASSUME Inv, PreemptCommand \/ \E call \in ResetCalls : RequestReset(call)
  PROVE  Contract!RequestPreemption \/ Contract!RequestReset
<1>1. /\ UNCHANGED <<status, fenceOf, lastSubmittedFenceId, osCompleted>>
      /\ Submitted' = Submitted /\ ddi \notin ResetCalls
  BY DEF PreemptCommand, RequestReset, NodeIdle, Submitted, ResetCalls
<1>2. CASE PreemptCommand
  <2>1. ~preempting /\ preempting' = TRUE /\ ddi' = ddi
    BY <1>2 DEF PreemptCommand
  <2> QED
    BY <1>1, <2>1 DEF Contract!RequestPreemption
<1>3. CASE \E call \in ResetCalls : RequestReset(call)
  <2>1. ddi' \in ResetCalls /\ preempting' = preempting
    BY <1>3 DEF RequestReset
  <2>2. (ddi' \in ResetCalls) = TRUE
    BY <2>1
  <2> QED
    BY <1>1, <2>1, <2>2 DEF Contract!RequestReset
<1> QED
  BY <1>2, <1>3

(* ResetEngine and ResetFromTimeout return with every fence dealt with. *)
LEMMA FinishContract ==
  ASSUME Inv, FinishReset
  PROVE  Contract!FinishReset
<1>1. /\ ddi \in ResetCalls /\ ddi' = "idle"
      /\ UNCHANGED <<lastSubmittedFenceId, preempting>>
  BY DEF FinishReset, VidSchReset
<1>2. Submitted' = {} /\ ~preempting /\ osCompleted' = lastSubmittedFenceId
  BY FinishResetFlight DEF Inv
<1>3. {fenceOf'[b] : b \in Submitted'} = {}
  BY <1>2
<1>4. (ddi' \in ResetCalls) = FALSE
  BY <1>1 DEF ResetCalls
<1> QED
  BY <1>1, <1>2, <1>3, <1>4 DEF Contract!FinishReset

(* All other steps VidSch does not see. *)
LEMMA UnseenSteps ==
  ASSUME Inv,
         \/ UNCHANGED vars \/ Stopped
         \/ WakeForQueue \/ WakeForPreemption \/ WakeForReset \/ DequeueDmaBuffer
         \/ PreemptStall \/ EndStall \/ SkipHungCompletion \/ TrackCompletion
         \/ RecycleSubmission \/ EmptyForPreemption \/ NotePreemption
         \/ EmptyForReset \/ SignalReset
         \/ WakeWorker \/ FinishStop \/ RequestStop
         \/ \E b \in Buffers : Prepare(b) \/ CancelCommand(b)
  PROVE  UNCHANGED Contract!contractVars
<1>1. UNCHANGED <<fenceOf, lastSubmittedFenceId, osCompleted, preempting>>
  BY DEF Stopped, WakeForQueue, WakeForPreemption, WakeForReset, DequeueDmaBuffer,
     PreemptStall, EndStall, SkipHungCompletion, TrackCompletion, RecycleSubmission,
     EmptyForPreemption, NotePreemption, EmptyForReset, SignalReset, WakeWorker,
     FinishStop, RequestStop, Prepare, CancelCommand
<1>2. (ddi \in ResetCalls)' = (ddi \in ResetCalls)
  BY DEF Stopped, WakeForQueue, WakeForPreemption, WakeForReset, DequeueDmaBuffer,
     PreemptStall, EndStall, SkipHungCompletion, TrackCompletion, RecycleSubmission,
     EmptyForPreemption, NotePreemption, EmptyForReset, SignalReset, WakeWorker,
     FinishStop, RequestStop, Prepare, CancelCommand, NodeIdle, ResetCalls
<1>3. CASE \E b \in Buffers : Prepare(b) \/ CancelCommand(b)
  <2>1. Submitted' = Submitted
    BY <1>3 DEF Prepare, CancelCommand, Inv, Submitted
  <2> QED
    BY <1>1, <1>2, <2>1, Unseen
<1>4. CASE ~ \E b \in Buffers : Prepare(b) \/ CancelCommand(b)
  <2>1. status' = status
    BY <1>4 DEF Stopped, WakeForQueue, WakeForPreemption, WakeForReset, DequeueDmaBuffer,
       PreemptStall, EndStall, SkipHungCompletion, TrackCompletion, RecycleSubmission,
       EmptyForPreemption, NotePreemption, EmptyForReset, SignalReset, WakeWorker,
       FinishStop, RequestStop
  <2>2. Submitted' = Submitted
    BY <2>1 DEF Submitted
  <2> QED
    BY <1>1, <1>2, <2>2, Unseen
<1> QED
  BY <1>3, <1>4

(* At every moment VidSch sees what the contract allows. *)
LEMMA StepContract ==
  ASSUME Inv, [Next]_vars
  PROVE  [Contract!Next]_(Contract!contractVars)
  BY SubmitContract, CompleteContract, AnswerContract, RequestContract, FinishContract,
     UnseenSteps DEF Next, Worker, DdiThread, VidSch, Contract!Next

(* The driver implements the safety part of its contract with VidSch:      *)
(* fences complete oldest first and each once, the answer to a preemption  *)
(* names the fence that completed last and leaves nothing running, a reset *)
(* ends with every fence dealt with and no answer owed.  (All of DoWork,   *)
(* SubmitCommand, PreemptCommand and the reset DDIs.)                      *)
THEOREM ContractIsKept == SafetySpec => Contract!Safety
<1>1. Init => Contract!Init
  BY DEF Init, Contract!Init, Submitted, ResetCalls
<1>2. Inv /\ [Next]_vars => [Contract!Next]_(Contract!contractVars)
  BY StepContract
<1> QED
  BY <1>1, <1>2, InvInit, InvStep, PTL DEF SafetySpec, Contract!Safety
=============================================================================
