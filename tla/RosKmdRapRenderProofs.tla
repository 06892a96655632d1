------------------------- MODULE RosKmdRapRenderProofs -------------------------
(***************************************************************************)
(* For every number of DMA buffers, submission entries and fences the      *)
(* render path of roskmd, while no wait for a frame times out, reports     *)
(* only what the GPU has rendered, from the tile lists of its own binning, *)
(* and leaves the GPU alone while it writes what the GPU reads.  Whatever  *)
(* times out, it keeps the safety part of GpuNodeContract.                 *)
(***************************************************************************)
EXTENDS RosKmdRapRender, TLAPS

USE DEF vars, poolVars, workerVars, ddiVars, gpuVars, eventVars, vidSchVars,
        WorkerFrame, GpuFrame

Buf(s) == dmaBufSubssions[s].buf
Fence(s) == dmaBufSubssions[s].fence

(* The worker holds an entry from DequeueDmaBuffer to RecycleSubmission,   *)
(* and works on it until it has notified.                                  *)
Working == workerPc \in WorkerStates \ {"wait", "drain", "recycle", "exited"}
InHandOK == current # NoSlot <=> Working \/ workerPc = "recycle"

(* Free entries are neither queued nor in hand, nor twice in the list, and *)
(* what is in hand is not queued.                                          *)
FreeIsUnused ==
  /\ \A j \in 1..Len(dmaBufQueue) : dmaBufQueue[j] # current
  /\ \A i \in 1..Len(dmaBufSubmissionFree) :
       /\ dmaBufSubmissionFree[i] # current
       /\ \A j \in 1..Len(dmaBufQueue) : dmaBufSubmissionFree[i] # dmaBufQueue[j]
       /\ \A j \in 1..Len(dmaBufSubmissionFree) :
            dmaBufSubmissionFree[i] = dmaBufSubmissionFree[j] => i = j

(* An entry that is to be run or is run: VidSch waits for its DMA buffer.  *)
Awaited(s) == /\ Buf(s) \in Buffers /\ Fence(s) # 0
              /\ fenceOf[Buf(s)] = Fence(s)

(* The queue is in the order of the fences, behind the entry in hand. *)
InOrder ==
  /\ \A i \in 1..Len(dmaBufQueue) : Awaited(dmaBufQueue[i])
  /\ \A i, j \in 1..Len(dmaBufQueue) : i < j => Fence(dmaBufQueue[i]) < Fence(dmaBufQueue[j])
  /\ Working => /\ Awaited(current)
                /\ \A i \in 1..Len(dmaBufQueue) : Fence(current) < Fence(dmaBufQueue[i])

(* What VidSch waits for is queued or in hand, under a fence it gave. *)
Accounted ==
  \A b \in Buffers :
    /\ fenceOf[b] <= submitted
    /\ fenceOf[b] # 0 => \/ Working /\ Buf(current) = b
                         \/ \E i \in 1..Len(dmaBufQueue) : Buf(dmaBufQueue[i]) = b

(* Stop runs on a drained node. *)
StoppedIsDrained == ddi \in StopStates => \A b \in Buffers : fenceOf[b] = 0

FlightInv == /\ InHandOK /\ FreeIsUnused /\ InOrder /\ Accounted /\ StoppedIsDrained

-----------------------------------------------------------------------------
(* The GPU, at each point of the worker.                                   *)

(* What the worker does next with the entry in hand fits its buffer. *)
PathFitsBuffer ==
  /\ workerPc \in {"generate", "flush"} \cup (RegisterStates) \cup {"waitFrame"}
       => RunsOnGpu(InHand)
  /\ workerPc = "process" => ~ RunsOnGpu(InHand)
  /\ workerPc = "waitFrame" => g_bUseInterrupt
  /\ workerPc = "poll" => ~ g_bUseInterrupt

GpuIdle == ct0 = 0 /\ ct1 = 0 /\ ~rendering /\ semaphore = 0

(* The binning list of fence f runs, or has run and has signalled. *)
Binning(f) == \/ ct0 = f /\ semaphore = 0
              \/ ct0 = 0 /\ semaphore = 1 /\ tiles = f

(* The signal of a frame is in one of three places on its way from the     *)
(* GPU to the worker.  Without interrupts nobody takes it.                 *)
NoSignal == g_bUseInterrupt =>
  ~INT_FRDONE /\ ~hwDmaBufCompletionDpc /\ ~hwDmaBufCompletionEvent
OneSignal == g_bUseInterrupt =>
  \/ INT_FRDONE /\ ~hwDmaBufCompletionDpc /\ ~hwDmaBufCompletionEvent
  \/ ~INT_FRDONE /\ hwDmaBufCompletionDpc /\ ~hwDmaBufCompletionEvent
  \/ ~INT_FRDONE /\ ~hwDmaBufCompletionDpc /\ hwDmaBufCompletionEvent

(* The frame of fence f waits for its binning, is rendered, or is done. *)
AwaitsBinning(f) == ct1 = f /\ ~rendering /\ Binning(f) /\ NoSignal
Renders(f) == ct1 = f /\ rendering /\ ct0 = 0 /\ semaphore = 0 /\ tiles = f /\ NoSignal
Done(f) == GpuIdle /\ f \in rendered /\ OneSignal

GpuInv ==
  ~timedOut =>
    IF workerPc = "render"
    THEN ct1 = 0 /\ ~rendering /\ Binning(FenceInHand) /\ NoSignal
    ELSE IF workerPc \in {"poll", "waitFrame"}
    THEN AwaitsBinning(FenceInHand) \/ Renders(FenceInHand) \/ Done(FenceInHand)
    ELSE /\ GpuIdle /\ NoSignal
         /\ workerPc \in {"flush", "notify"} /\ RunsOnGpu(InHand)
              => FenceInHand \in rendered

-----------------------------------------------------------------------------
(* Types.                                                                  *)

(* What a list that is not empty is made of (RemoveHeadList). *)
LEMMA HeadAndTail ==
  ASSUME NEW S, NEW q \in Seq(S), q # <<>>
  PROVE  /\ Head(q) \in S /\ Head(q) = q[1] /\ 1 \in 1..Len(q) /\ Tail(q) \in Seq(S)
         /\ \A i \in 1..Len(Tail(q)) :
              i + 1 \in 1..Len(q) /\ i + 1 > 1 /\ Tail(q)[i] = q[i + 1]
         /\ \A i \in 1..Len(q) : i = 1 \/ (i - 1 \in 1..Len(Tail(q)) /\ q[i] = Tail(q)[i - 1])
  OBVIOUS

(* What a list is made of after InsertTailList. *)
LEMMA Appended ==
  ASSUME NEW S, NEW q \in Seq(S), NEW x \in S
  PROVE  /\ Append(q, x) \in Seq(S) /\ Len(q) \in Nat
         /\ Len(Append(q, x)) = Len(q) + 1
         /\ Append(q, x)[Len(q) + 1] = x
         /\ \A i \in 1..Len(q) : i \in 1..(Len(q) + 1) /\ Append(q, x)[i] = q[i]
  OBVIOUS

TypeInv == TypeOK /\ InHandOK

(* The types hold when Start has returned. *)
LEMMA TypeInit == Init => TypeInv
<1> SUFFICES ASSUME Init PROVE TypeInv
  OBVIOUS
<1>1. dmaBufSubmissionFree \in Seq(Slots)
  <2>1. PoolSize \in Nat
    BY ConstantsAssumption
  <2>2. \A i \in Slots : PoolSize + 1 - i \in Slots
    BY <2>1 DEF Slots
  <2>3. dmaBufSubmissionFree \in [1..PoolSize -> Slots]
    BY <2>2 DEF Init, Slots
  <2> QED
    BY <2>1, <2>3
<1>2. dmaBufSubssions \in [Slots -> [buf : Buffers \cup {NoBuffer}, fence : Nat]]
  BY DEF Init
<1>3. InHandOK
  BY DEF Init, InHandOK, Working, NoSlot
<1>4. workerPc \in WorkerStates /\ ddi \in DdiStates /\ current \in Slots \cup {NoSlot}
  BY DEF Init, WorkerStates, DdiStates
<1>5. /\ ct0 \in Nat /\ ct1 \in Nat /\ semaphore \in Nat /\ tiles \in Nat
      /\ rendered \subseteq Nat /\ osCompleted \in Nat /\ submitted \in Nat
      /\ fenceOf \in [Buffers -> Nat] /\ dmaBufQueue \in Seq(Slots)
  BY DEF Init
<1> QED
  BY <1>1, <1>2, <1>3, <1>4, <1>5 DEF Init, TypeInv, TypeOK

(* VidSch and the DDI thread keep the types. *)
LEMMA CallType ==
  ASSUME TypeInv, VidSch \/ DdiThread
  PROVE  TypeInv'
<1> USE DEF TypeInv, TypeOK, InHandOK, Working
<1>1. ASSUME NEW b \in Buffers, SubmitCommand(b) PROVE TypeInv'
  <2>1. /\ Head(dmaBufSubmissionFree) \in Slots /\ Tail(dmaBufSubmissionFree) \in Seq(Slots)
    BY <1>1, HeadAndTail DEF SubmitCommand
  <2>2. /\ dmaBufSubmissionFree' \in Seq(Slots) /\ dmaBufQueue' \in Seq(Slots)
    BY <1>1, <2>1, Appended DEF SubmitCommand
  <2>3. dmaBufSubssions' \in [Slots -> [buf : Buffers \cup {NoBuffer}, fence : Nat]]
    BY <1>1, <2>1 DEF SubmitCommand
  <2>4. fenceOf' \in [Buffers -> Nat] /\ submitted' \in Nat /\ ddi' \in DdiStates
    BY <1>1 DEF SubmitCommand, DdiStates
  <2> QED
    BY <1>1, <2>2, <2>3, <2>4 DEF SubmitCommand
<1>2. CASE PreemptCommand
  BY <1>2 DEF PreemptCommand
<1>3. CASE Stop
  BY <1>3 DEF Stop, DdiStates, StopStates
<1>4. CASE WakeWorker
  BY <1>4 DEF WakeWorker, DdiStates
<1>5. CASE PowerDown
  BY ZenonT(60), <1>5 DEF PowerDown, DdiStates, StopStates
<1>6. CASE StopWorker
  BY <1>6 DEF StopWorker, DdiStates, StopStates
<1>7. CASE FinishStop
  BY <1>7 DEF FinishStop, DdiStates, StopStates
<1> QED
  BY <1>1, <1>2, <1>3, <1>4, <1>5, <1>6, <1>7 DEF VidSch, DdiThread

(* The GPU, the interrupt routine and the DPC keep the types. *)
LEMMA GpuType ==
  ASSUME TypeInv, Gpu \/ Interrupt
  PROVE  TypeInv'
<1> USE DEF TypeInv, TypeOK, InHandOK, Working
<1>1. CASE BinningEnds
  BY <1>1 DEF BinningEnds
<1>2. CASE RenderingStarts
  BY <1>2 DEF RenderingStarts
<1>3. CASE RenderingEnds
  BY ZenonT(60), <1>3 DEF RenderingEnds
<1>4. CASE RendererInterruptRoutine
  BY ZenonT(60), <1>4 DEF RendererInterruptRoutine
<1>5. CASE HwDmaBufCompletionDpcRoutine
  BY ZenonT(60), <1>5 DEF HwDmaBufCompletionDpcRoutine
<1> QED
  BY <1>1, <1>2, <1>3, <1>4, <1>5 DEF Gpu, Interrupt

(* The worker thread keeps the types. *)
LEMMA WorkerType ==
  ASSUME TypeInv, Worker
  PROVE  TypeInv'
<1> USE DEF TypeInv, TypeOK, InHandOK, Working, WorkerStates, RegisterStates
<1>0. NoSlot \notin Slots
  BY DEF Slots, NoSlot
<1>1. CASE WakeUp
  BY <1>1 DEF WakeUp
<1>2. CASE QueueDrained
  BY <1>2 DEF QueueDrained
<1>3. CASE DequeueDmaBuffer
  <2>1. Head(dmaBufQueue) \in Slots /\ Tail(dmaBufQueue) \in Seq(Slots)
    BY <1>3, HeadAndTail DEF DequeueDmaBuffer
  <2> QED
    BY <1>0, <1>3, <2>1 DEF DequeueDmaBuffer
<1>4. CASE ProcessInSoftware
  BY <1>4 DEF ProcessInSoftware
<1>5. CASE GenerateRenderingControlList
  BY <1>5 DEF GenerateRenderingControlList
<1>6. workerPc \in {"bin", "render", "notify"} => FenceInHand \in Nat
  <2>1. workerPc \in {"bin", "render", "notify"} => current \in Slots
    OBVIOUS
  <2> QED
    BY <2>1 DEF FenceInHand
<1>7. CASE SubmitBinningList
  BY <1>6, <1>7 DEF SubmitBinningList
<1>8. CASE SubmitRenderingList
  BY <1>6, <1>8 DEF SubmitRenderingList
<1>9. CASE PollFrame
  <2>1. timedOut' \in BOOLEAN
    BY <1>9 DEF PollFrame
  <2> QED
    BY <1>9, <2>1 DEF PollFrame
<1>10. CASE WaitForFrame
  BY <1>10 DEF WaitForFrame
<1>11. CASE FrameTimesOut
  BY <1>11 DEF FrameTimesOut
<1>12. CASE FlushCaches
  BY <1>12 DEF FlushCaches
<1>13. CASE NotifyDmaBufCompletion
  <2>1. fenceOf' \in [Buffers -> Nat] /\ osCompleted' \in Nat
    BY <1>6, <1>13 DEF NotifyDmaBufCompletion, VidSchCompleted
  <2> QED
    BY <1>13, <2>1 DEF NotifyDmaBufCompletion
<1>14. CASE RecycleSubmission
  <2>1. dmaBufSubmissionFree' \in Seq(Slots)
    BY <1>14, Appended DEF RecycleSubmission
  <2> QED
    BY <1>14, <2>1 DEF RecycleSubmission
<1> QED
  BY <1>1, <1>2, <1>3, <1>4, <1>5, <1>7, <1>8, <1>9, <1>10, <1>11, <1>12, <1>13, <1>14
  DEF Worker

(* Doing nothing keeps the types. *)
LEMMA TypeUnchanged ==
  ASSUME TypeInv, UNCHANGED vars
  PROVE  TypeInv'
  BY DEF TypeInv, TypeOK, InHandOK, Working

(* No step of any party breaks them. *)
LEMMA TypeStep == TypeInv /\ [Next]_vars => TypeInv'
  BY CallType, GpuType, WorkerType, TypeUnchanged DEF Next, Quiet

(* The types of the variables, for every value of the constants. *)
THEOREM RenderTypes == SafetySpec => []TypeOK
<1>1. TypeInv => TypeOK
  BY DEF TypeInv
<1> QED
  BY <1>1, TypeInit, TypeStep, PTL DEF SafetySpec

-----------------------------------------------------------------------------
(* What is in flight.                                                      *)

FlightVars == <<dmaBufSubssions, dmaBufSubmissionFree, dmaBufQueue, current, fenceOf,
                submitted>>

(* Nothing is in flight when Start has returned. *)
LEMMA FlightInit == Init => FlightInv
<1> SUFFICES ASSUME Init PROVE FlightInv
  OBVIOUS
<1>1. InHandOK
  BY TypeInit DEF TypeInv
<1>2. Len(dmaBufQueue) = 0 /\ ~Working /\ current = NoSlot
  BY DEF Init, Working
<1>3. FreeIsUnused
  <2>1. PoolSize \in Nat /\ Len(dmaBufSubmissionFree) = PoolSize
    BY ConstantsAssumption DEF Init, Slots
  <2>2. \A i \in 1..PoolSize : dmaBufSubmissionFree[i] = PoolSize + 1 - i
    BY <2>1 DEF Init, Slots
  <2> QED
    BY <1>2, <2>1, <2>2 DEF FreeIsUnused, NoSlot
<1>4. InOrder
  BY <1>2 DEF InOrder
<1>5. Accounted /\ StoppedIsDrained
  BY DEF Init, Accounted, StoppedIsDrained
<1> QED
  BY <1>1, <1>3, <1>4, <1>5 DEF FlightInv

(* The steps that touch neither pool nor account leave the flight alone.   *)
LEMMA FlightFrame ==
  ASSUME FlightInv, TypeInv', UNCHANGED FlightVars, Working' = Working,
         ddi' \in StopStates => ddi \in StopStates
  PROVE  FlightInv'
<1> USE DEF FlightInv, FlightVars
<1>1. FreeIsUnused'
  BY DEF FreeIsUnused
<1>2. InOrder'
  BY DEF InOrder, Awaited, Buf, Fence
<1>3. Accounted' /\ StoppedIsDrained'
  BY DEF Accounted, StoppedIsDrained, Buf
<1> QED
  BY <1>1, <1>2, <1>3 DEF TypeInv

(* QueueDmaBuffer takes a free entry, under a fence larger than all before *)
(* it, and puts it behind the others.                                      *)
LEMMA SubmitFlight ==
  ASSUME TypeInv, TypeInv', FlightInv, NEW b \in Buffers, SubmitCommand(b)
  PROVE  FlightInv'
<1> DEFINE f == submitted + 1
<1> USE DEF Buf, Fence
<1>0. PICK slot \in Slots : slot = Head(dmaBufSubmissionFree)
  BY HeadAndTail DEF SubmitCommand, TypeInv, TypeOK
<1>0a. PICK n \in Nat : n = Len(dmaBufQueue)
  BY Appended DEF TypeInv, TypeOK
<1>1. /\ dmaBufSubmissionFree \in Seq(Slots) /\ dmaBufSubmissionFree # <<>>
      /\ dmaBufQueue \in Seq(Slots)
      /\ ddi = "idle" /\ fenceOf[b] = 0 /\ ddi' = "SubmitCommand"
      /\ dmaBufSubmissionFree' = Tail(dmaBufSubmissionFree)
      /\ dmaBufSubssions' = [dmaBufSubssions EXCEPT ![slot] = [buf |-> b, fence |-> f]]
      /\ dmaBufQueue' = Append(dmaBufQueue, slot)
      /\ submitted' = f /\ fenceOf' = [fenceOf EXCEPT ![b] = f]
      /\ UNCHANGED <<workerPc, current>>
  BY <1>0 DEF SubmitCommand, TypeInv, TypeOK
<1>2. /\ slot \in Slots /\ slot = dmaBufSubmissionFree[1] /\ 1 \in 1..Len(dmaBufSubmissionFree)
      /\ \A i \in 1..Len(dmaBufSubmissionFree') :
           /\ i + 1 \in 1..Len(dmaBufSubmissionFree) /\ i + 1 > 1
           /\ dmaBufSubmissionFree'[i] = dmaBufSubmissionFree[i + 1]
  BY <1>0, <1>1, HeadAndTail
<1>3. /\ Len(dmaBufQueue') = n + 1 /\ dmaBufQueue'[n + 1] = slot
      /\ \A i \in 1..n : i \in 1..(n + 1) /\ dmaBufQueue'[i] = dmaBufQueue[i]
                         /\ dmaBufQueue[i] \in Slots
  BY <1>0a, <1>1, <1>2, Appended
<1>4. slot # current /\ \A i \in 1..n : dmaBufQueue[i] # slot
  BY <1>0a, <1>2 DEF FlightInv, FreeIsUnused
<1>5. f \in Nat /\ submitted \in Nat /\ fenceOf \in [Buffers -> Nat]
  BY DEF TypeInv, TypeOK
<1>6. /\ Buf(slot)' = b /\ Fence(slot)' = f
      /\ \A s \in Slots : s # slot => Buf(s)' = Buf(s) /\ Fence(s)' = Fence(s)
  <2>1. dmaBufSubssions \in [Slots -> [buf : Buffers \cup {NoBuffer}, fence : Nat]]
    BY DEF TypeInv, TypeOK
  <2> QED
    BY <1>1, <1>2, <2>1
<1>7. Working' = Working /\ (Working => current \in Slots)
  <2>1. Working => current # NoSlot
    BY DEF FlightInv, InHandOK
  <2> QED
    BY <1>1, <2>1 DEF Working, TypeInv, TypeOK
<1>8. FreeIsUnused'
  <2>0. \A j \in 1..(n + 1) : dmaBufQueue'[j] # current'
    <3>1. \A j \in 1..(n + 1) : j \in 1..n \/ j = n + 1
      OBVIOUS
    <3> QED
      BY <1>0a, <1>1, <1>3, <1>4, <3>1 DEF FlightInv, FreeIsUnused
  <2> SUFFICES ASSUME NEW i \in 1..Len(dmaBufSubmissionFree')
               PROVE  /\ dmaBufSubmissionFree'[i] # current'
                      /\ \A j \in 1..(n + 1) : dmaBufSubmissionFree'[i] # dmaBufQueue'[j]
                      /\ \A j \in 1..Len(dmaBufSubmissionFree') :
                           dmaBufSubmissionFree'[i] = dmaBufSubmissionFree'[j] => i = j
    BY <1>3, <2>0 DEF FreeIsUnused
  <2>1. /\ i + 1 \in 1..Len(dmaBufSubmissionFree) /\ i + 1 > 1
        /\ dmaBufSubmissionFree'[i] = dmaBufSubmissionFree[i + 1]
    BY <1>2
  <2>2. dmaBufSubmissionFree[i + 1] # slot
    BY <1>2, <2>1 DEF FlightInv, FreeIsUnused
  <2>3. \A j \in 1..(n + 1) : j \in 1..n \/ j = n + 1
    BY <1>3
  <2>4. \A j \in 1..Len(dmaBufSubmissionFree') :
          dmaBufSubmissionFree[i + 1] = dmaBufSubmissionFree[j + 1] => i + 1 = j + 1
    BY <1>2, <2>1 DEF FlightInv, FreeIsUnused
  <2>5. \A j \in 1..Len(dmaBufSubmissionFree') :
          dmaBufSubmissionFree'[i] = dmaBufSubmissionFree'[j] => i = j
    BY <1>2, <2>1, <2>4
  <2> QED
    BY <1>0a, <1>1, <1>3, <2>1, <2>2, <2>3, <2>5 DEF FlightInv, FreeIsUnused
<1>9. \A s \in Slots : s # slot /\ Awaited(s) =>
         Awaited(s)' /\ Fence(s)' = Fence(s) /\ Fence(s) < f /\ Fence(s) \in Nat
  <2> SUFFICES ASSUME NEW s \in Slots, s # slot, Awaited(s)
               PROVE  Awaited(s)' /\ Fence(s)' = Fence(s) /\ Fence(s) < f /\ Fence(s) \in Nat
    OBVIOUS
  <2>1. Buf(s) \in Buffers /\ Buf(s) # b /\ Fence(s) # 0 /\ fenceOf[Buf(s)] = Fence(s)
    BY <1>1 DEF Awaited
  <2>2. fenceOf'[Buf(s)] = fenceOf[Buf(s)]
    BY <1>1, <1>5, <2>1
  <2>3. Fence(s) <= submitted /\ Fence(s) \in Nat
    BY <1>5, <2>1 DEF FlightInv, Accounted
  <2>4. Awaited(s)'
    BY <1>6, <2>1, <2>2 DEF Awaited
  <2> QED
    BY <1>5, <1>6, <2>3, <2>4
<1>10. Awaited(slot)'
  BY <1>1, <1>5, <1>6 DEF Awaited
<1>11. InOrder'
  <2>1. \A i \in 1..(n + 1) : i \in 1..n \/ i = n + 1
    BY <1>3
  <2>2. \A i \in 1..n : /\ Awaited(dmaBufQueue[i])' /\ Fence(dmaBufQueue[i])' < f
                        /\ Fence(dmaBufQueue[i])' = Fence(dmaBufQueue[i])
    BY <1>0a, <1>3, <1>4, <1>9 DEF FlightInv, InOrder
  <2>3. \A i \in 1..(n + 1) : Awaited(dmaBufQueue[i])'
    BY <1>3, <1>10, <2>1, <2>2
  <2>4. ASSUME NEW i \in 1..(n + 1), NEW j \in 1..(n + 1), i < j
        PROVE  Fence(dmaBufQueue[i])' < Fence(dmaBufQueue[j])'
    <3>1. i \in 1..n
      BY <1>3, <2>4
    <3>2. CASE j \in 1..n
      <4>1. Fence(dmaBufQueue[i]) < Fence(dmaBufQueue[j])
        BY <1>0a, <2>4, <3>1, <3>2 DEF FlightInv, InOrder
      <4> QED
        BY <2>2, <3>1, <3>2, <4>1
    <3>3. CASE j = n + 1
      BY <1>3, <1>6, <2>2, <3>1, <3>3
    <3> QED
      BY <2>1, <3>2, <3>3
  <2>5. ASSUME Working
        PROVE  /\ Awaited(current)'
               /\ \A i \in 1..(n + 1) : Fence(current)' < Fence(dmaBufQueue[i])'
    <3>1. /\ Awaited(current) /\ current \in Slots
          /\ \A i \in 1..n : Fence(current) < Fence(dmaBufQueue[i])
      BY <1>0a, <1>7, <2>5 DEF FlightInv, InOrder
    <3>2. current' = current /\ Awaited(current)' /\ Fence(current)' = Fence(current)
          /\ Fence(current) < f
      BY <1>1, <1>4, <1>6, <1>9, <3>1 DEF Awaited
    <3>3. \A i \in 1..n : Fence(current)' < Fence(dmaBufQueue[i])'
      BY <2>2, <3>1, <3>2
    <3>4. Fence(current)' < Fence(dmaBufQueue[n + 1])'
      BY <1>3, <1>6, <3>2
    <3> QED
      BY <2>1, <3>2, <3>3, <3>4
  <2> QED
    BY <1>3, <1>7, <2>3, <2>4, <2>5 DEF InOrder
<1>12. Accounted'
  <2> SUFFICES ASSUME NEW c \in Buffers
               PROVE  /\ fenceOf'[c] <= f
                      /\ fenceOf'[c] # 0 => \/ Working /\ Buf(current)' = c
                                            \/ \E i \in 1..(n + 1) : Buf(dmaBufQueue[i])' = c
    BY SMTT(30), <1>1, <1>3, <1>7 DEF Accounted
  <2>1. CASE c = b
    BY <1>1, <1>3, <1>5, <1>6, <2>1
  <2>2. CASE c # b
    <3>1. fenceOf'[c] = fenceOf[c] /\ fenceOf[c] <= submitted /\ fenceOf[c] \in Nat
      BY <1>1, <1>5, <2>2 DEF FlightInv, Accounted
    <3>2. fenceOf[c] # 0 => \/ Working /\ Buf(current) = c
                            \/ \E i \in 1..n : Buf(dmaBufQueue[i]) = c
      BY <1>0a DEF FlightInv, Accounted
    <3>3. Working => Buf(current)' = Buf(current)
      BY <1>1, <1>4, <1>6, <1>7
    <3>4. \A i \in 1..n : i \in 1..(n + 1) /\ Buf(dmaBufQueue[i])' = Buf(dmaBufQueue[i])
      BY <1>3, <1>4, <1>6
    <3> QED
      BY <1>5, <3>1, <3>2, <3>3, <3>4
  <2> QED
    BY <2>1, <2>2
<1>13. StoppedIsDrained'
  BY <1>1 DEF StoppedIsDrained, StopStates
<1> QED
  BY <1>8, <1>11, <1>12, <1>13 DEF FlightInv, TypeInv

(* DequeueDmaBuffer takes the oldest entry, which the account now finds in *)
(* the worker's hand.                                                      *)
LEMMA DequeueFlight ==
  ASSUME TypeInv, TypeInv', FlightInv, DequeueDmaBuffer
  PROVE  FlightInv'
<1> USE DEF Buf, Fence
<1>1. /\ workerPc = "drain" /\ dmaBufQueue # <<>> /\ dmaBufQueue \in Seq(Slots)
      /\ dmaBufQueue' = Tail(dmaBufQueue)
      /\ UNCHANGED <<dmaBufSubssions, dmaBufSubmissionFree, fenceOf, submitted, ddi>>
  BY DEF DequeueDmaBuffer, TypeInv, TypeOK
<1>2. /\ current' = dmaBufQueue[1] /\ 1 \in 1..Len(dmaBufQueue)
      /\ \A i \in 1..Len(dmaBufQueue') :
           /\ i + 1 \in 1..Len(dmaBufQueue) /\ 1 < i + 1
           /\ dmaBufQueue'[i] = dmaBufQueue[i + 1]
      /\ \A i \in 1..Len(dmaBufQueue) :
           i = 1 \/ (i - 1 \in 1..Len(dmaBufQueue') /\ dmaBufQueue[i] = dmaBufQueue'[i - 1])
  BY <1>1, HeadAndTail DEF DequeueDmaBuffer
<1>3. ~Working /\ Working'
  <2>1. workerPc' \in {"process", "generate"}
    BY DEF DequeueDmaBuffer
  <2> QED
    BY <1>1, <2>1 DEF Working, WorkerStates
<1>4. /\ \A i \in 1..Len(dmaBufQueue) : Awaited(dmaBufQueue[i]) /\ Fence(dmaBufQueue[i]) \in Nat
      /\ \A i, j \in 1..Len(dmaBufQueue) :
           i < j => Fence(dmaBufQueue[i]) < Fence(dmaBufQueue[j])
  BY DEF FlightInv, InOrder, Awaited, TypeInv, TypeOK
<1>5. FreeIsUnused'
  <2>1. ASSUME NEW j \in 1..Len(dmaBufQueue') PROVE dmaBufQueue'[j] # current'
    <3>1. Fence(dmaBufQueue[1]) < Fence(dmaBufQueue[j + 1])
      BY <1>2, <1>4
    <3>2. Fence(dmaBufQueue[1]) \in Nat
      BY <1>2, <1>4
    <3>3. dmaBufQueue[1] # dmaBufQueue[j + 1]
      BY <3>1, <3>2
    <3> QED
      BY <1>2, <3>3
  <2>2. \A i \in 1..Len(dmaBufSubmissionFree) :
          /\ dmaBufSubmissionFree[i] # current'
          /\ \A j \in 1..Len(dmaBufQueue') : dmaBufSubmissionFree[i] # dmaBufQueue'[j]
    BY <1>2 DEF FlightInv, FreeIsUnused
  <2> QED
    BY <1>1, <2>1, <2>2 DEF FlightInv, FreeIsUnused
<1>6. InOrder'
  <2>1. \A i \in 1..Len(dmaBufQueue') :
          Awaited(dmaBufQueue[i])' /\ Fence(current)' < Fence(dmaBufQueue[i])'
    BY <1>1, <1>2, <1>4 DEF Awaited
  <2>2. \A i, j \in 1..Len(dmaBufQueue') :
          i < j => Fence(dmaBufQueue[i])' < Fence(dmaBufQueue[j])'
    BY <1>1, <1>2, <1>4
  <2>3. Awaited(current)'
    BY <1>1, <1>2, <1>4 DEF Awaited
  <2> QED
    BY <2>1, <2>2, <2>3 DEF InOrder
<1>7. Accounted'
  <2> SUFFICES ASSUME NEW c \in Buffers, fenceOf[c] # 0
               PROVE  \/ Buf(current)' = c
                      \/ \E i \in 1..Len(dmaBufQueue') : Buf(dmaBufQueue[i])' = c
    BY <1>1, <1>3 DEF FlightInv, Accounted
  <2>1. PICK i \in 1..Len(dmaBufQueue) : Buf(dmaBufQueue[i]) = c
    BY <1>3 DEF FlightInv, Accounted
  <2> QED
    BY <1>1, <1>2, <2>1
<1> QED
  BY <1>1, <1>5, <1>6, <1>7 DEF FlightInv, TypeInv, StoppedIsDrained

(* What is in hand is the oldest that VidSch waits for. *)
LEMMA OldestInHand ==
  ASSUME TypeInv, FlightInv, Working
  PROVE  /\ Buf(current) \in Buffers /\ FenceInHand = Fence(current)
         /\ Fence(current) \in Nat \ {0} /\ fenceOf[Buf(current)] = Fence(current)
         /\ \A b \in Buffers : fenceOf[b] # 0 => Fence(current) <= fenceOf[b]
         /\ \A b \in Buffers : fenceOf[b] # 0 /\ b # Buf(current) =>
              /\ Fence(current) < fenceOf[b]
              /\ \E i \in 1..Len(dmaBufQueue) : Buf(dmaBufQueue[i]) = b
<1>1. /\ Awaited(current)
      /\ \A i \in 1..Len(dmaBufQueue) :
           Awaited(dmaBufQueue[i]) /\ Fence(current) < Fence(dmaBufQueue[i])
  BY DEF FlightInv, InOrder
<1>2. Fence(current) \in Nat \ {0}
  BY <1>1 DEF Awaited, TypeInv, TypeOK
<1>3. ASSUME NEW b \in Buffers, fenceOf[b] # 0, b # Buf(current)
      PROVE  /\ Fence(current) < fenceOf[b]
             /\ \E i \in 1..Len(dmaBufQueue) : Buf(dmaBufQueue[i]) = b
  <2>1. PICK i \in 1..Len(dmaBufQueue) : Buf(dmaBufQueue[i]) = b
    BY <1>3 DEF FlightInv, Accounted
  <2> QED
    BY <1>1, <2>1 DEF Awaited
<1>4. ASSUME NEW b \in Buffers, fenceOf[b] # 0 PROVE Fence(current) <= fenceOf[b]
  <2>1. fenceOf[b] \in Nat
    BY DEF TypeInv, TypeOK
  <2>2. CASE b = Buf(current)
    BY <1>1, <1>2, <2>2 DEF Awaited
  <2>3. CASE b # Buf(current)
    BY <1>2, <1>3, <1>4, <2>1, <2>3
  <2> QED
    BY <2>2, <2>3
<1> QED
  BY <1>1, <1>2, <1>3, <1>4 DEF Awaited, FenceInHand, Fence

(* VidSch retires just the fence in hand. *)
LEMMA NotifyFlight ==
  ASSUME TypeInv, TypeInv', FlightInv, NotifyDmaBufCompletion
  PROVE  FlightInv'
<1> USE DEF Buf, Fence
<1>1. /\ workerPc = "notify" /\ workerPc' = "recycle"
      /\ UNCHANGED <<dmaBufSubssions, dmaBufSubmissionFree, dmaBufQueue, current,
                     submitted, ddi>>
      /\ fenceOf' = [b \in Buffers |-> IF fenceOf[b] <= FenceInHand THEN 0 ELSE fenceOf[b]]
  BY DEF NotifyDmaBufCompletion, VidSchCompleted
<1>2. Working /\ ~Working'
  BY <1>1 DEF Working, WorkerStates
<1>3. /\ Buf(current) \in Buffers /\ FenceInHand = Fence(current)
      /\ Fence(current) \in Nat /\ fenceOf[Buf(current)] = Fence(current)
  BY <1>2, OldestInHand
<1>4. FreeIsUnused'
  BY <1>1 DEF FlightInv, FreeIsUnused
<1>5. \A i \in 1..Len(dmaBufQueue) : Awaited(dmaBufQueue[i])'
  <2> SUFFICES ASSUME NEW i \in 1..Len(dmaBufQueue) PROVE Awaited(dmaBufQueue[i])'
    OBVIOUS
  <2>1. Awaited(dmaBufQueue[i]) /\ Fence(current) < Fence(dmaBufQueue[i])
    BY <1>2 DEF FlightInv, InOrder
  <2>2. Fence(dmaBufQueue[i]) \in Nat
    BY <2>1 DEF Awaited, TypeInv, TypeOK
  <2>3. ~(Fence(dmaBufQueue[i]) <= FenceInHand)
    BY <1>3, <2>1, <2>2
  <2> QED
    BY <1>1, <2>1, <2>3 DEF Awaited
<1>6. InOrder'
  BY <1>1, <1>2, <1>5 DEF FlightInv, InOrder
<1>7. Accounted'
  <2> SUFFICES ASSUME NEW b \in Buffers
               PROVE  /\ fenceOf'[b] <= submitted
                      /\ fenceOf'[b] # 0 =>
                           \E i \in 1..Len(dmaBufQueue) : Buf(dmaBufQueue[i]) = b
    BY <1>1 DEF Accounted
  <2>1. fenceOf[b] \in Nat /\ submitted \in Nat /\ fenceOf[b] <= submitted
    BY DEF TypeInv, TypeOK, FlightInv, Accounted
  <2>2. CASE fenceOf[b] <= FenceInHand
    BY <1>1, <2>1, <2>2
  <2>3. CASE ~(fenceOf[b] <= FenceInHand)
    <3>1. fenceOf'[b] = fenceOf[b] /\ b # Buf(current) /\ fenceOf[b] # 0
      BY <1>1, <1>3, <2>1, <2>3
    <3> QED
      BY <1>2, <2>1, <3>1, OldestInHand
  <2> QED
    BY <2>2, <2>3
<1>8. StoppedIsDrained'
  BY <1>1 DEF FlightInv, StoppedIsDrained
<1> QED
  BY <1>4, <1>6, <1>7, <1>8 DEF FlightInv, TypeInv

(* The entry in hand becomes a free one. *)
LEMMA RecycleFlight ==
  ASSUME TypeInv, TypeInv', FlightInv, RecycleSubmission
  PROVE  FlightInv'
<1> USE DEF Buf, Fence
<1>1. /\ workerPc = "recycle" /\ workerPc' = "drain" /\ current' = NoSlot
      /\ current \in Slots /\ dmaBufSubmissionFree \in Seq(Slots)
      /\ dmaBufSubmissionFree' = Append(dmaBufSubmissionFree, current)
      /\ UNCHANGED <<dmaBufSubssions, dmaBufQueue, fenceOf, submitted, ddi>>
  BY DEF RecycleSubmission, TypeInv, TypeOK, InHandOK
<1>2. ~Working /\ ~Working'
  BY <1>1 DEF Working
<1>3. FreeIsUnused'
  <2>1. PICK n \in Nat : n = Len(dmaBufSubmissionFree)
    BY <1>1, Appended
  <2>2. /\ Len(dmaBufSubmissionFree') = n + 1 /\ dmaBufSubmissionFree'[n + 1] = current
        /\ \A i \in 1..n : dmaBufSubmissionFree'[i] = dmaBufSubmissionFree[i]
                           /\ dmaBufSubmissionFree[i] \in Slots
        /\ \A i \in 1..(n + 1) : i \in 1..n \/ i = n + 1
    BY <1>1, <2>1, Appended
  <2>3a. \A j \in 1..Len(dmaBufQueue) : dmaBufQueue[j] \in Slots
    BY DEF TypeInv, TypeOK
  <2>3. /\ \A j \in 1..Len(dmaBufQueue) : dmaBufQueue[j] # current
        /\ \A i \in 1..n :
             /\ dmaBufSubmissionFree[i] # current
             /\ \A j \in 1..Len(dmaBufQueue) : dmaBufSubmissionFree[i] # dmaBufQueue[j]
             /\ \A j \in 1..n : dmaBufSubmissionFree[i] = dmaBufSubmissionFree[j] => i = j
    BY <2>1 DEF FlightInv, FreeIsUnused
  <2>4. NoSlot \notin Slots
    BY DEF NoSlot, Slots
  <2>5. \A i \in 1..(n + 1) : dmaBufSubmissionFree'[i] # NoSlot
    BY <1>1, <2>2, <2>4
  <2>6. \A i \in 1..(n + 1) : \A j \in 1..Len(dmaBufQueue) :
          dmaBufSubmissionFree'[i] # dmaBufQueue[j]
    BY <2>2, <2>3
  <2>7. \A i, j \in 1..(n + 1) :
          dmaBufSubmissionFree'[i] = dmaBufSubmissionFree'[j] => i = j
    BY <2>2, <2>3
  <2>8. \A j \in 1..Len(dmaBufQueue) : dmaBufQueue[j] # NoSlot
    BY <2>3a, <2>4
  <2>9. /\ current' = NoSlot /\ dmaBufQueue' = dmaBufQueue
        /\ Len(dmaBufSubmissionFree') = n + 1
    BY <1>1, <2>2
  <2> QED
    BY <2>5, <2>6, <2>7, <2>8, <2>9 DEF FreeIsUnused
<1>4. InOrder'
  BY <1>1, <1>2 DEF FlightInv, InOrder, Awaited
<1>5. Accounted' /\ StoppedIsDrained'
  BY <1>1, <1>2 DEF FlightInv, Accounted, StoppedIsDrained
<1> QED
  BY <1>3, <1>4, <1>5 DEF FlightInv, TypeInv

(* No step of any party breaks the flight. *)
LEMMA FlightStep ==
  ASSUME TypeInv, FlightInv, [Next]_vars
  PROVE  FlightInv'
<1>0. TypeInv'
  BY TypeStep
<1> USE DEF FlightVars, Working, StopStates
<1>1. CASE UNCHANGED vars \/ Quiet
  BY <1>0, <1>1, FlightFrame DEF Quiet
<1>2. CASE VidSch
  <2>1. ASSUME NEW b \in Buffers, SubmitCommand(b) PROVE FlightInv'
    BY <1>0, <2>1, SubmitFlight
  <2>2. CASE PreemptCommand
    BY <1>0, <2>2, FlightFrame DEF PreemptCommand
  <2>3. CASE Stop
    <3>1. \A b \in Buffers : fenceOf[b] = 0
      BY <2>3 DEF Stop, Outstanding
    <3>2. /\ UNCHANGED FlightVars /\ UNCHANGED workerPc
      BY <2>3 DEF Stop
    <3>3. FreeIsUnused' /\ InOrder' /\ Accounted'
      BY <3>2 DEF FlightInv, FreeIsUnused, InOrder, Accounted, Awaited, Buf, Fence
    <3>4. StoppedIsDrained'
      BY <3>1, <3>2 DEF StoppedIsDrained
    <3> QED
      BY <1>0, <3>3, <3>4 DEF FlightInv, TypeInv
  <2> QED
    BY <1>2, <2>1, <2>2, <2>3 DEF VidSch
<1>3. CASE DdiThread
  <2>1. CASE WakeWorker
    BY <1>0, <2>1, FlightFrame DEF WakeWorker
  <2>2. CASE PowerDown
    BY <1>0, <2>2, FlightFrame DEF PowerDown
  <2>3. CASE StopWorker
    BY <1>0, <2>3, FlightFrame DEF StopWorker
  <2>4. CASE FinishStop
    BY <1>0, <2>4, FlightFrame DEF FinishStop
  <2> QED
    BY <1>3, <2>1, <2>2, <2>3, <2>4 DEF DdiThread
<1>4. CASE Gpu \/ Interrupt
  <2>1. UNCHANGED <<FlightVars, workerPc, ddi>>
    <3>1. CASE Gpu
      BY <3>1 DEF Gpu, BinningEnds, RenderingStarts, RenderingEnds
    <3>2. CASE Interrupt
      BY <3>2 DEF Interrupt, RendererInterruptRoutine, HwDmaBufCompletionDpcRoutine
    <3> QED
      BY <1>4, <3>1, <3>2
  <2> QED
    BY <1>0, <2>1, FlightFrame
<1>5. CASE Worker
  <2>1. CASE DequeueDmaBuffer \/ NotifyDmaBufCompletion \/ RecycleSubmission
    BY <1>0, <2>1, DequeueFlight, NotifyFlight, RecycleFlight
  <2>2. CASE WakeUp \/ QueueDrained
    <3>1. UNCHANGED <<FlightVars, ddi>> /\ ~Working /\ ~Working'
      BY <2>2 DEF WakeUp, QueueDrained
    <3> QED
      BY <1>0, <3>1, FlightFrame
  <2> DEFINE Goes(from, to) == /\ workerPc \in from /\ workerPc' \in to
                               /\ UNCHANGED <<FlightVars, ddi>>
  <2>3. ASSUME Goes({"process", "generate", "bin", "render", "poll", "waitFrame", "flush"},
                    {"bin", "render", "poll", "waitFrame", "flush", "notify"})
        PROVE  FlightInv'
    <3>1. UNCHANGED <<FlightVars, ddi>> /\ Working /\ Working'
      BY <2>3 DEF WorkerStates, RegisterStates
    <3> QED
      BY <1>0, <3>1, FlightFrame
  <2>4. CASE ProcessInSoftware \/ GenerateRenderingControlList
    BY <2>3, <2>4 DEF ProcessInSoftware, GenerateRenderingControlList
  <2>5. CASE SubmitBinningList
    BY <2>3, <2>5 DEF SubmitBinningList
  <2>6. CASE SubmitRenderingList
    BY <2>3, <2>6 DEF SubmitRenderingList
  <2>7. CASE PollFrame
    BY <2>3, <2>7 DEF PollFrame
  <2>8. CASE WaitForFrame
    BY <2>3, <2>8 DEF WaitForFrame
  <2>9. CASE FrameTimesOut
    BY <2>3, <2>9 DEF FrameTimesOut
  <2>10. CASE FlushCaches
    BY <2>3, <2>10 DEF FlushCaches
  <2> QED
    BY <1>5, <2>1, <2>2, <2>4, <2>5, <2>6, <2>7, <2>8, <2>9, <2>10 DEF Worker
<1> QED
  BY <1>1, <1>2, <1>3, <1>4, <1>5 DEF Next

-----------------------------------------------------------------------------
(* The GPU.                                                                *)

PhaseInv == PathFitsBuffer /\ GpuInv

(* The GPU is idle and the worker waits when Start has returned. *)
LEMMA PhaseInit == Init => PhaseInv
  BY DEF Init, PhaseInv, PathFitsBuffer, GpuInv, GpuIdle, NoSignal, RegisterStates

(* The steps that touch neither the GPU nor the worker's place. *)
LEMMA PhaseFrame ==
  ASSUME PhaseInv,
         UNCHANGED <<g_bUseInterrupt, workerPc, timedOut, ct0, ct1, rendering, semaphore,
                     tiles, rendered, INT_FRDONE, hwDmaBufCompletionDpc,
                     hwDmaBufCompletionEvent>>,
         workerPc \notin {"wait", "drain", "recycle", "exited"} =>
           UNCHANGED <<InHand, FenceInHand>>
  PROVE  PhaseInv'
<1>1. PathFitsBuffer'
  BY DEF PhaseInv, PathFitsBuffer, RegisterStates, RunsOnGpu
<1>2. GpuInv'
  BY DEF PhaseInv, GpuInv, GpuIdle, NoSignal, OneSignal, Binning, AwaitsBinning, Renders, Done,
     RunsOnGpu
<1> QED
  BY <1>1, <1>2 DEF PhaseInv

(* A binning ends in its own frame's semaphore and tiles. *)
LEMMA BinningPhase ==
  ASSUME PhaseInv, BinningEnds
  PROVE  PhaseInv'
<1>1. /\ ct0 # 0 /\ ct0' = 0 /\ semaphore' = semaphore + 1 /\ tiles' = ct0
      /\ UNCHANGED <<g_bUseInterrupt, workerPc, timedOut, InHand, FenceInHand, ct1, rendering,
                     rendered, INT_FRDONE, hwDmaBufCompletionDpc, hwDmaBufCompletionEvent>>
  BY DEF BinningEnds, InHand, FenceInHand
<1>2. PathFitsBuffer'
  BY <1>1 DEF PhaseInv, PathFitsBuffer, RegisterStates, RunsOnGpu
<1>3. Binning(FenceInHand) => Binning(FenceInHand)'
  BY <1>1 DEF Binning
<1>4. GpuInv'
  BY <1>1, <1>3 DEF PhaseInv, GpuInv, GpuIdle, NoSignal, AwaitsBinning, Renders, Done
<1> QED
  BY <1>2, <1>4 DEF PhaseInv

(* A rendering begins when its own binning has signalled. *)
LEMMA RenderingStartsPhase ==
  ASSUME PhaseInv, RenderingStarts
  PROVE  PhaseInv'
<1>1. /\ ct1 # 0 /\ ~rendering /\ semaphore > 0 /\ rendering' /\ semaphore' = semaphore - 1
      /\ UNCHANGED <<g_bUseInterrupt, workerPc, timedOut, InHand, FenceInHand, ct0, ct1, tiles,
                     rendered, INT_FRDONE, hwDmaBufCompletionDpc, hwDmaBufCompletionEvent>>
  BY DEF RenderingStarts, InHand, FenceInHand
<1>2. PathFitsBuffer'
  BY <1>1 DEF PhaseInv, PathFitsBuffer, RegisterStates, RunsOnGpu
<1>3. AwaitsBinning(FenceInHand) => Renders(FenceInHand)'
  BY <1>1 DEF AwaitsBinning, Binning, Renders, NoSignal
<1>4. GpuInv'
  BY <1>1, <1>3 DEF PhaseInv, GpuInv, GpuIdle, Renders, Done
<1> QED
  BY <1>2, <1>4 DEF PhaseInv

(* A frame that ends is the one in hand, and signals once. *)
LEMMA RenderingEndsPhase ==
  ASSUME PhaseInv, RenderingEnds
  PROVE  PhaseInv'
<1>1. /\ ct1 # 0 /\ rendering /\ ct1' = 0 /\ ~rendering' /\ rendered' = rendered \cup {ct1}
      /\ INT_FRDONE'
      /\ UNCHANGED <<g_bUseInterrupt, workerPc, timedOut, InHand, FenceInHand, ct0, semaphore,
                     tiles, hwDmaBufCompletionDpc, hwDmaBufCompletionEvent>>
  BY DEF RenderingEnds, InHand, FenceInHand
<1>2. PathFitsBuffer'
  BY <1>1 DEF PhaseInv, PathFitsBuffer, RegisterStates, RunsOnGpu
<1>3. Renders(FenceInHand) => Done(FenceInHand)'
  BY <1>1 DEF Renders, Done, GpuIdle, NoSignal, OneSignal
<1>4. GpuInv'
  BY <1>1, <1>3 DEF PhaseInv, GpuInv, GpuIdle, AwaitsBinning, Done
<1> QED
  BY <1>2, <1>4 DEF PhaseInv

(* The interrupt routine and the DPC hand the one signal on. *)
LEMMA InterruptPhase ==
  ASSUME PhaseInv, Interrupt
  PROVE  PhaseInv'
<1>1. /\ g_bUseInterrupt => ~NoSignal
      /\ OneSignal => OneSignal'
      /\ UNCHANGED <<g_bUseInterrupt, workerPc, timedOut, InHand, FenceInHand, ct0, ct1,
                     rendering, semaphore, tiles, rendered>>
  <2>1. CASE RendererInterruptRoutine
    BY <2>1 DEF RendererInterruptRoutine, EI_FRDONE, InHand, FenceInHand, NoSignal, OneSignal
  <2>2. CASE HwDmaBufCompletionDpcRoutine
    BY <2>2 DEF HwDmaBufCompletionDpcRoutine, InHand, FenceInHand, NoSignal, OneSignal
  <2> QED
    BY <2>1, <2>2 DEF Interrupt
<1>2. NoSignal => NoSignal'
  BY <1>1 DEF NoSignal
<1>3. PathFitsBuffer'
  BY <1>1 DEF PhaseInv, PathFitsBuffer, RegisterStates, RunsOnGpu
<1>4. GpuInv'
  BY <1>1, <1>2 DEF PhaseInv, GpuInv, GpuIdle, Binning, AwaitsBinning, Renders, Done, RunsOnGpu
<1> QED
  BY <1>3, <1>4 DEF PhaseInv

(* The adapter is powered down with no frame in hand. *)
LEMMA PowerDownPhase ==
  ASSUME TypeInv, FlightInv, PhaseInv, PowerDown
  PROVE  PhaseInv'
<1>1. /\ ddi = "Stop" /\ ct0' = 0 /\ ct1' = 0 /\ ~rendering'
      /\ UNCHANGED <<g_bUseInterrupt, workerPc, timedOut, InHand, FenceInHand, semaphore,
                     rendered, INT_FRDONE, hwDmaBufCompletionDpc, hwDmaBufCompletionEvent>>
  BY DEF PowerDown, InHand, FenceInHand
<1>2. ~Working
  <2>1. \A b \in Buffers : fenceOf[b] = 0
    BY <1>1 DEF FlightInv, StoppedIsDrained, StopStates
  <2> QED
    BY <2>1 DEF FlightInv, InOrder, Awaited
<1>3. workerPc \notin {"render", "poll", "waitFrame", "flush", "notify"}
  BY <1>2 DEF Working, WorkerStates, RegisterStates
<1>4. PathFitsBuffer'
  BY <1>1 DEF PhaseInv, PathFitsBuffer, RegisterStates, RunsOnGpu
<1>5. GpuInv'
  BY <1>1, <1>3 DEF PhaseInv, GpuInv, GpuIdle, NoSignal
<1> QED
  BY <1>4, <1>5 DEF PhaseInv

(* The worker starts and awaits the two lists of a frame in turn.          *)
LEMMA WorkerPhase ==
  ASSUME TypeInv, FlightInv, PhaseInv, Worker
  PROVE  PhaseInv'
<1> USE DEF PhaseInv, PathFitsBuffer, GpuInv, RegisterStates
<1>1. CASE WakeUp
  BY <1>1 DEF WakeUp, GpuIdle, NoSignal
<1>2. CASE QueueDrained
  BY <1>2 DEF QueueDrained, GpuIdle, NoSignal
<1>3. CASE DequeueDmaBuffer
  <2>1. /\ workerPc = "drain" /\ workerPc' \in {"process", "generate"}
        /\ workerPc' = "process" <=> ~RunsOnGpu(InHand)'
        /\ GpuIdle' = GpuIdle /\ NoSignal' = NoSignal /\ timedOut' = timedOut
    BY <1>3 DEF DequeueDmaBuffer, InHand, RunsOnGpu, GpuIdle, NoSignal
  <2> QED
    BY <2>1
<1>4. CASE ProcessInSoftware
  BY <1>4 DEF ProcessInSoftware, GpuIdle, NoSignal, InHand, RunsOnGpu
<1>5. CASE GenerateRenderingControlList
  BY <1>5 DEF GenerateRenderingControlList, GpuIdle, NoSignal, InHand, RunsOnGpu
<1>6. CASE SubmitBinningList
  BY <1>6 DEF SubmitBinningList, GpuIdle, NoSignal, InHand, FenceInHand, RunsOnGpu, Binning
<1>7. CASE SubmitRenderingList
  <2>1. /\ workerPc = "render" /\ workerPc' = IF g_bUseInterrupt THEN "waitFrame" ELSE "poll"
        /\ g_bUseInterrupt' = g_bUseInterrupt /\ InHand' = InHand /\ timedOut' = timedOut
    BY <1>7 DEF SubmitRenderingList, InHand
  <2>2. PathFitsBuffer'
    BY <2>1 DEF RunsOnGpu
  <2>3. Binning(FenceInHand) /\ NoSignal => AwaitsBinning(FenceInHand)'
    BY <1>7 DEF SubmitRenderingList, FenceInHand, NoSignal, Binning, AwaitsBinning
  <2> QED
    BY <2>1, <2>2, <2>3
<1>8. CASE PollFrame
  <2>1. /\ workerPc = "poll" /\ workerPc' = "flush" /\ UNCHANGED <<InHand, FenceInHand, rendered>>
        /\ ~timedOut' => ~timedOut /\ ct1 = 0
        /\ ~g_bUseInterrupt /\ ~g_bUseInterrupt' /\ GpuIdle' = GpuIdle
    BY <1>8 DEF PollFrame, InHand, FenceInHand, GpuIdle, TypeInv, TypeOK
  <2>2. FenceInHand # 0
    <3>1. Working
      BY <2>1 DEF Working, WorkerStates
    <3> QED
      BY <3>1, OldestInHand
  <2>3. ~timedOut' => Done(FenceInHand)
    BY <2>1, <2>2 DEF AwaitsBinning, Renders
  <2> QED
    BY <2>1, <2>3 DEF Done, NoSignal, RunsOnGpu
<1>9. CASE WaitForFrame
  <2>1. /\ workerPc = "waitFrame" /\ workerPc' = "flush" /\ timedOut' = timedOut
        /\ UNCHANGED <<InHand, FenceInHand, rendered, g_bUseInterrupt>>
        /\ hwDmaBufCompletionEvent /\ GpuIdle' = GpuIdle
    BY <1>9 DEF WaitForFrame, InHand, FenceInHand, GpuIdle
  <2>2. ~timedOut => Done(FenceInHand)
    BY <2>1 DEF AwaitsBinning, Renders, NoSignal
  <2>3. OneSignal => NoSignal'
    BY <1>9, <2>1 DEF WaitForFrame, OneSignal, NoSignal
  <2> QED
    BY <2>1, <2>2, <2>3 DEF Done, RunsOnGpu
<1>10. CASE FrameTimesOut
  BY <1>10 DEF FrameTimesOut, InHand, RunsOnGpu
<1>11. CASE FlushCaches
  BY <1>11 DEF FlushCaches, GpuIdle, NoSignal, InHand, FenceInHand, RunsOnGpu
<1>12. CASE NotifyDmaBufCompletion
  BY <1>12 DEF NotifyDmaBufCompletion, GpuIdle, NoSignal
<1>13. CASE RecycleSubmission
  BY <1>13 DEF RecycleSubmission, GpuIdle, NoSignal
<1> QED
  BY <1>1, <1>2, <1>3, <1>4, <1>5, <1>6, <1>7, <1>8, <1>9, <1>10, <1>11, <1>12, <1>13
  DEF Worker

(* SubmitCommand writes no entry that is in hand. *)
LEMMA CallPhase ==
  ASSUME TypeInv, FlightInv, PhaseInv,
         \/ \E b \in Buffers : SubmitCommand(b)
         \/ PreemptCommand \/ Stop \/ WakeWorker \/ StopWorker \/ FinishStop
         \/ UNCHANGED vars
  PROVE  PhaseInv'
<1>1. ASSUME NEW b \in Buffers, SubmitCommand(b) PROVE PhaseInv'
  <2>1. Head(dmaBufSubmissionFree) # current
    BY <1>1, HeadAndTail DEF SubmitCommand, FlightInv, FreeIsUnused, TypeInv, TypeOK
  <2>2. workerPc \notin {"wait", "drain", "recycle", "exited"} => current \in Slots
    BY DEF TypeInv, TypeOK, InHandOK, Working
  <2>3. workerPc \notin {"wait", "drain", "recycle", "exited"} =>
          UNCHANGED <<InHand, FenceInHand>>
    <3>1. /\ dmaBufSubssions' = [dmaBufSubssions EXCEPT ![Head(dmaBufSubmissionFree)] =
                                   [buf |-> b, fence |-> submitted + 1]]
          /\ dmaBufSubssions \in [Slots -> [buf : Buffers \cup {NoBuffer}, fence : Nat]]
          /\ current' = current
      BY <1>1 DEF SubmitCommand, TypeInv, TypeOK
    <3> QED
      BY <2>1, <2>2, <3>1 DEF InHand, FenceInHand
  <2> QED
    BY <1>1, <2>3, PhaseFrame DEF SubmitCommand
<1>2. CASE PreemptCommand
  BY <1>2, PhaseFrame DEF PreemptCommand, InHand, FenceInHand
<1>3. CASE Stop
  BY <1>3, PhaseFrame DEF Stop, InHand, FenceInHand
<1>4. CASE WakeWorker
  BY <1>4, PhaseFrame DEF WakeWorker, InHand, FenceInHand
<1>5. CASE StopWorker
  BY <1>5, PhaseFrame DEF StopWorker, InHand, FenceInHand
<1>6. CASE FinishStop
  BY <1>6, PhaseFrame DEF FinishStop, InHand, FenceInHand
<1>7. CASE UNCHANGED vars
  BY <1>7, PhaseFrame DEF InHand, FenceInHand
<1> QED
  BY <1>1, <1>2, <1>3, <1>4, <1>5, <1>6, <1>7

RenderInv == TypeInv /\ FlightInv /\ PhaseInv

(* The invariant holds in every state. *)
LEMMA RenderInvariant == SafetySpec => []RenderInv
<1>1. Init => RenderInv
  BY TypeInit, FlightInit, PhaseInit DEF RenderInv
<1>2. RenderInv /\ [Next]_vars => RenderInv'
  <2> SUFFICES ASSUME RenderInv, [Next]_vars PROVE RenderInv'
    OBVIOUS
  <2>1. TypeInv /\ FlightInv /\ PhaseInv
    BY DEF RenderInv
  <2>2. TypeInv' /\ FlightInv'
    BY <2>1, TypeStep, FlightStep
  <2>3. PhaseInv'
    BY <2>1, BinningPhase, RenderingStartsPhase, RenderingEndsPhase, InterruptPhase,
       PowerDownPhase, WorkerPhase, CallPhase
    DEF Next, VidSch, DdiThread, Gpu, Quiet
  <2> QED
    BY <2>2, <2>3 DEF RenderInv
<1> QED
  BY <1>1, <1>2, PTL DEF SafetySpec

(* NotifyDmaBufCompletion reports a render buffer when its frame is in     *)
(* rendered, and ProcessPagingBuffer, the copies of a software buffer and  *)
(* GenerateRenderingControlList find the GPU at rest, as long as no wait   *)
(* has timed out.                                                          *)
THEOREM NotifiedWasRendered == SafetySpec => []NotifiedIsRendered
<1>1. RenderInv => NotifiedIsRendered
  BY DEF RenderInv, PhaseInv, GpuInv, GpuIdle, NotifiedIsRendered
<1> QED
  BY <1>1, RenderInvariant, PTL

(* The semaphore of SubmitControlList's two lists pairs each rendering     *)
(* with its own binning, as long as no wait has timed out.                 *)
THEOREM RenderedFromOwnTiles == SafetySpec => []TilesAreOwn
<1>1. RenderInv => TilesAreOwn
  BY DEF RenderInv, PhaseInv, GpuInv, GpuIdle, AwaitsBinning, Renders, Done, TilesAreOwn
<1> QED
  BY <1>1, RenderInvariant, PTL

-----------------------------------------------------------------------------
(* The contract with VidSch.                                               *)

(* Every step is one that GpuNodeContract allows, or none it sees. *)
LEMMA StepContract ==
  ASSUME RenderInv, [Next]_vars
  PROVE  [Contract!Next]_(Contract!contractVars)
<1> USE DEF RenderInv, TypeInv, TypeOK
<1>1. ASSUME NEW b \in Buffers, SubmitCommand(b) PROVE Contract!Submit
  <2>1. /\ ~preempting /\ submitted < MaxFence /\ fenceOf[b] = 0
        /\ submitted' = submitted + 1 /\ fenceOf' = [fenceOf EXCEPT ![b] = submitted + 1]
        /\ osCompleted' = osCompleted /\ preempting' = preempting
    BY <1>1 DEF SubmitCommand
  <2>2. Outstanding' = Outstanding \cup {submitted + 1}
    <3>1. \A c \in Buffers : fenceOf'[c] = IF c = b THEN submitted + 1 ELSE fenceOf[c]
      BY <2>1
    <3>2. submitted + 1 # 0
      OBVIOUS
    <3> QED
      BY <2>1, <3>1, <3>2 DEF Outstanding
  <2> QED
    BY <2>1, <2>2 DEF Contract!Submit
<1>2. ASSUME PreemptCommand PROVE Contract!RequestPreemption
  <2>1. /\ ~preempting /\ preempting' = TRUE
        /\ UNCHANGED <<fenceOf, osCompleted, submitted>>
    BY <1>2 DEF PreemptCommand
  <2>2. Outstanding' = Outstanding
    BY <2>1 DEF Outstanding
  <2> QED
    BY <2>1, <2>2 DEF Contract!RequestPreemption
<1>3. ASSUME NotifyDmaBufCompletion PROVE Contract!Complete
  <2> DEFINE f == FenceInHand
  <2>1. /\ osCompleted' = f /\ submitted' = submitted /\ preempting' = preempting
        /\ fenceOf' = [b \in Buffers |-> IF fenceOf[b] <= f THEN 0 ELSE fenceOf[b]]
        /\ Working
    BY <1>3 DEF NotifyDmaBufCompletion, VidSchCompleted, Working, WorkerStates
  <2>2. /\ Buf(current) \in Buffers /\ fenceOf[Buf(current)] = f /\ f \in Nat \ {0}
        /\ \A b \in Buffers : fenceOf[b] # 0 => f <= fenceOf[b]
    BY <2>1, OldestInHand
  <2>3. f \in Outstanding /\ \A g \in Outstanding : f <= g
    BY <2>2 DEF Outstanding
  <2>4. Outstanding' = Outstanding \ {f}
    <3>1. PICK g \in Nat \ {0} : g = FenceInHand
      BY <2>2
    <3>2. ASSUME NEW b \in Buffers
          PROVE  fenceOf'[b] = IF fenceOf[b] \in {0, g} THEN 0 ELSE fenceOf[b]
      <4>1. fenceOf[b] \in Nat /\ fenceOf'[b] = IF fenceOf[b] <= g THEN 0 ELSE fenceOf[b]
        BY <2>1, <3>1
      <4>2. fenceOf[b] = 0 \/ g <= fenceOf[b]
        BY <2>2, <3>1
      <4> QED
        BY <4>1, <4>2
    <3>3. Outstanding' \subseteq Outstanding \ {g}
      BY <3>2 DEF Outstanding
    <3>4. Outstanding \ {g} \subseteq Outstanding'
      <4> SUFFICES ASSUME NEW b \in Buffers, fenceOf[b] \notin {0, g}
                   PROVE  fenceOf[b] \in Outstanding'
        BY DEF Outstanding
      <4>1. fenceOf'[b] = fenceOf[b] /\ fenceOf[b] # 0
        BY <3>2
      <4> QED
        BY <4>1 DEF Outstanding
    <3> QED
      BY <3>1, <3>3, <3>4
  <2> QED
    BY <2>1, <2>3, <2>4 DEF Contract!Complete
<1>4. ASSUME UNCHANGED <<fenceOf, osCompleted, submitted, preempting>>
      PROVE  UNCHANGED Contract!contractVars
  BY <1>4 DEF Contract!contractVars, Outstanding
<1>5. CASE UNCHANGED vars \/ Quiet \/ Stop
  BY <1>4, <1>5 DEF Quiet, Stop
<1>6. CASE DdiThread
  BY <1>4, <1>6 DEF DdiThread, WakeWorker, PowerDown, StopWorker, FinishStop
<1>7. CASE Gpu \/ Interrupt
  BY <1>4, <1>7 DEF Gpu, Interrupt, BinningEnds, RenderingStarts, RenderingEnds,
     RendererInterruptRoutine, HwDmaBufCompletionDpcRoutine
<1>8. CASE Worker /\ ~NotifyDmaBufCompletion
  <2>1. UNCHANGED <<fenceOf, osCompleted, submitted, preempting>>
    BY <1>8 DEF Worker, WakeUp, DequeueDmaBuffer, QueueDrained, ProcessInSoftware,
       GenerateRenderingControlList, SubmitBinningList, SubmitRenderingList, PollFrame,
       WaitForFrame, FrameTimesOut, FlushCaches, RecycleSubmission
  <2> QED
    BY <1>4, <2>1
<1> QED
  BY <1>1, <1>2, <1>3, <1>5, <1>6, <1>7, <1>8 DEF Next, VidSch, Contract!Next

(* Whatever times out, VidSch sees fences complete one by one, each once   *)
(* and oldest first: the driver keeps the safety part of its contract.     *)
(* (SubmitCommand, DoWork, NotifyDmaBufCompletion.)                        *)
THEOREM RenderContractIsKept == SafetySpec => Contract!Safety
<1>1. Init => Contract!Init
  BY DEF Init, Contract!Init, Outstanding
<1>2. RenderInv /\ [Next]_vars => [Contract!Next]_(Contract!contractVars)
  BY StepContract
<1> QED
  BY <1>1, <1>2, RenderInvariant, PTL DEF SafetySpec, Contract!Safety
==============================================================================
