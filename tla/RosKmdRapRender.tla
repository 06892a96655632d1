--------------------------- MODULE RosKmdRapRender ---------------------------
(***************************************************************************)
(* The render path of the Raspberry Pi kernel driver (roskmd): how a       *)
(* submitted DMA buffer is run on the VC4 GPU and reported to VidSch.      *)
(* Six parties take steps: VidSch (external), the DDI thread in            *)
(* SubmitCommand or Stop, the worker thread in DoWork, the GPU with its    *)
(* binning and its rendering control list executor (external), the         *)
(* interrupt routine and the DPC.                                          *)
(*                                                                         *)
(* The wait for a frame is bounded and its time-out is only asserted not   *)
(* to happen: beyond the assertion the worker goes on.  The model does     *)
(* that too, at any time, and timedOut remembers it.                       *)
(***************************************************************************)
EXTENDS Naturals, Sequences, FiniteSets

CONSTANTS
  Buffers,        \* the DMA buffers
  PagingBuffers,  \* those built by BuildPagingBuffer
  SwBuffers,      \* render buffers with m_bSwCommandBuffer
  NoBuffer,       \* content of a submission entry never used
  PoolSize,       \* m_maxDmaBufQueueLength
  MaxPending,     \* fences VidSch keeps outstanding at a time
  MaxFence        \* bound on the fences of one behaviour

ASSUME ConstantsAssumption ==
  /\ IsFiniteSet(Buffers) /\ NoBuffer \notin Buffers
  /\ PagingBuffers \subseteq Buffers /\ SwBuffers \subseteq Buffers \ PagingBuffers
  /\ PoolSize \in Nat \ {0} /\ MaxPending \in Nat \ {0} /\ MaxFence \in Nat

VARIABLES
  \* RosKmAdapter
  g_bUseInterrupt,          \* wait for the frame interrupt, or poll the GPU
  dmaBufSubssions,          \* m_dmaBufSubssions: the content of each pool entry
  dmaBufSubmissionFree,     \* list of the free entries
  dmaBufQueue,              \* list of the entries queued to the worker
  workerThreadEvent,        \* auto-reset
  workerExit,
  hwDmaBufCompletionEvent,  \* auto-reset
  hwDmaBufCompletionDpc,    \* the DPC is queued
  \* threads
  workerPc,                 \* where DoWork is
  current,                  \* its pDmaBufSubmission
  timedOut,                 \* a wait for a frame has timed out
  ddi,                      \* the DDI call in progress
  \* VC4, by the fence of the DMA buffer whose list is run (0: none)
  ct0,                      \* binning list, V3D_CT0CS.CTRUN
  ct1,                      \* rendering list, V3D_CT1CS.CTRUN
  rendering,                \* it is past its VC4WaitOnSemaphore
  semaphore,                \* binnings signalled and not waited for
  tiles,                    \* whose tile lists the tile allocation memory holds
  INT_FRDONE,               \* frame-done bit of V3D_INTCTL
  rendered,                 \* the frames that were finished
  \* VidSch
  fenceOf,                  \* fence each DMA buffer is outstanding under (0: none)
  osCompleted,              \* the last fence completed
  submitted,                \* the last fence submitted
  preempting                \* a preemption request awaits its answer

poolVars == <<dmaBufSubssions, dmaBufSubmissionFree, dmaBufQueue>>
workerVars == <<workerPc, current, timedOut>>
ddiVars == <<workerExit, ddi>>
gpuVars == <<ct0, ct1, rendering, semaphore, tiles, rendered>>
eventVars == <<workerThreadEvent, hwDmaBufCompletionEvent, hwDmaBufCompletionDpc>>
vidSchVars == <<fenceOf, osCompleted, submitted, preempting>>
vars == <<g_bUseInterrupt, poolVars, workerVars, ddiVars, gpuVars, INT_FRDONE,
          eventVars, vidSchVars>>

Slots == 1..PoolSize
NoSlot == 0
Outstanding == {fenceOf[b] : b \in Buffers} \ {0}

StopStates == {"Stop", "powerDown", "stopWorker", "stopped"}
DdiStates == {"idle", "SubmitCommand"} \cup StopStates
RegisterStates == {"bin", "render", "poll", "flush"}   \* the worker uses VC4's registers
WorkerStates == RegisterStates \cup {"wait", "drain", "process", "generate", "waitFrame",
                                     "notify", "recycle", "exited"}

(* V3D_INTENA.EI_FRDONE, written by Start and cleared by Stop. *)
EI_FRDONE == g_bUseInterrupt /\ ddi \notin StopStates
(* m_pVC4RegFile # nullptr. *)
VC4RegFileMapped == ddi \notin {"powerDown", "stopWorker", "stopped"}
(* m_bReadyToHandleInterrupt: Start sets it and nothing clears it. *)
bReadyToHandleInterrupt == g_bUseInterrupt

------------------------------------------------------------------------------
(* Start has returned and the worker thread waits.  g_bUseInterrupt is a   *)
(* global that is true unless the build or a debugger sets it otherwise.   *)
Init ==
  /\ g_bUseInterrupt \in BOOLEAN
  /\ dmaBufSubssions = [s \in Slots |-> [buf |-> NoBuffer, fence |-> 0]]
  /\ dmaBufSubmissionFree = [i \in Slots |-> PoolSize + 1 - i]
  /\ dmaBufQueue = <<>>
  /\ workerThreadEvent = FALSE /\ workerExit = FALSE
  /\ hwDmaBufCompletionEvent = FALSE /\ hwDmaBufCompletionDpc = FALSE
  /\ workerPc = "wait" /\ current = NoSlot /\ timedOut = FALSE
  /\ ddi = "idle"
  /\ ct0 = 0 /\ ct1 = 0 /\ rendering = FALSE /\ semaphore = 0 /\ tiles = 0
  /\ INT_FRDONE = FALSE /\ rendered = {}
  /\ fenceOf = [b \in Buffers |-> 0]
  /\ osCompleted = 0 /\ submitted = 0 /\ preempting = FALSE

------------------------------------------------------------------------------
(* VidSch and the DDI thread.                                              *)

(* SubmitCommand: the self-references are patched, then QueueDmaBuffer     *)
(* takes an entry under the lock.                                          *)
SubmitCommand(b) ==
  LET slot == Head(dmaBufSubmissionFree)
  IN /\ ddi = "idle" /\ ~preempting
     /\ fenceOf[b] = 0 /\ Cardinality(Outstanding) < MaxPending
     /\ submitted < MaxFence
     /\ dmaBufSubmissionFree # <<>>
     /\ dmaBufSubmissionFree' = Tail(dmaBufSubmissionFree)
     /\ dmaBufSubssions' = [dmaBufSubssions EXCEPT ![slot] =
                              [buf |-> b, fence |-> submitted + 1]]
     /\ dmaBufQueue' = Append(dmaBufQueue, slot)
     /\ submitted' = submitted + 1
     /\ fenceOf' = [fenceOf EXCEPT ![b] = submitted + 1]
     /\ ddi' = "SubmitCommand"
     /\ UNCHANGED <<g_bUseInterrupt, eventVars, workerExit, workerVars, gpuVars,
                    INT_FRDONE, osCompleted, preempting>>

(* The lock is released and the worker's event is set. *)
WakeWorker ==
  /\ ddi = "SubmitCommand"
  /\ workerThreadEvent' = TRUE
  /\ ddi' = "idle"
  /\ UNCHANGED <<g_bUseInterrupt, poolVars, hwDmaBufCompletionEvent,
                 hwDmaBufCompletionDpc, workerExit, workerVars, gpuVars, INT_FRDONE,
                 vidSchVars>>

(* The driver declares itself preemption aware, and its PreemptCommand     *)
(* does nothing.  VidSch submits no more.                                  *)
PreemptCommand ==
  /\ ddi = "idle" /\ ~preempting /\ Outstanding # {}
  /\ preempting' = TRUE
  /\ UNCHANGED <<g_bUseInterrupt, poolVars, eventVars, ddiVars, workerVars, gpuVars,
                 INT_FRDONE, fenceOf, osCompleted, submitted>>

(* RosKmdRapAdapter::Stop on a drained node: interrupts are disabled, ...  *)
Stop ==
  /\ ddi = "idle" /\ Outstanding = {}
  /\ ddi' = "Stop"
  /\ UNCHANGED <<g_bUseInterrupt, poolVars, eventVars, workerExit, workerVars, gpuVars,
                 INT_FRDONE, vidSchVars>>

(* ... the GPU is powered down and its registers are unmapped, ... *)
PowerDown ==
  /\ ddi = "Stop"
  /\ ddi' = "powerDown"
  /\ ct0' = 0 /\ ct1' = 0 /\ rendering' = FALSE
  /\ UNCHANGED <<g_bUseInterrupt, poolVars, eventVars, workerExit, workerVars,
                 semaphore, tiles, rendered, INT_FRDONE, vidSchVars>>

(* ... the worker thread is told to end ... *)
StopWorker ==
  /\ ddi = "powerDown"
  /\ ddi' = "stopWorker"
  /\ workerExit' = TRUE
  /\ workerThreadEvent' = TRUE
  /\ UNCHANGED <<g_bUseInterrupt, poolVars, hwDmaBufCompletionEvent,
                 hwDmaBufCompletionDpc, workerVars, gpuVars, INT_FRDONE, vidSchVars>>

(* ... and waited for. *)
FinishStop ==
  /\ ddi = "stopWorker" /\ workerPc = "exited"
  /\ ddi' = "stopped"
  /\ UNCHANGED <<g_bUseInterrupt, poolVars, eventVars, workerExit, workerVars, gpuVars,
                 INT_FRDONE, vidSchVars>>

------------------------------------------------------------------------------
(* The worker thread, DoWork.                                              *)

InHand == dmaBufSubssions[current].buf
FenceInHand == dmaBufSubssions[current].fence

(* The wait on m_workerThreadEvent. *)
WakeUp ==
  /\ workerPc = "wait" /\ workerThreadEvent
  /\ workerThreadEvent' = FALSE
  /\ workerPc' = IF workerExit THEN "exited" ELSE "drain"
  /\ UNCHANGED <<g_bUseInterrupt, poolVars, hwDmaBufCompletionEvent,
                 hwDmaBufCompletionDpc, current, timedOut, ddiVars, gpuVars,
                 INT_FRDONE, vidSchVars>>

DequeueNewest ==                                                      \* mutant
  /\ workerPc = "drain" /\ dmaBufQueue # <<>>
  /\ LET slot == dmaBufQueue[Len(dmaBufQueue)]
     IN /\ current' = slot
        /\ workerPc' = IF dmaBufSubssions[slot].buf \in PagingBuffers \cup SwBuffers
                       THEN "process" ELSE "generate"
  /\ dmaBufQueue' = SubSeq(dmaBufQueue, 1, Len(dmaBufQueue) - 1)
  /\ UNCHANGED <<g_bUseInterrupt, dmaBufSubssions, dmaBufSubmissionFree, eventVars,
                 timedOut, ddiVars, gpuVars, INT_FRDONE, vidSchVars>>

(* DequeueDmaBuffer; paging and software buffers are run by the processor. *)
DequeueDmaBuffer ==
  /\ workerPc = "drain" /\ dmaBufQueue # <<>>
  /\ LET slot == Head(dmaBufQueue)
     IN /\ current' = slot
        /\ workerPc' = IF dmaBufSubssions[slot].buf \in PagingBuffers \cup SwBuffers
                       THEN "process" ELSE "generate"
  /\ dmaBufQueue' = Tail(dmaBufQueue)
  /\ UNCHANGED <<g_bUseInterrupt, dmaBufSubssions, dmaBufSubmissionFree, eventVars,
                 timedOut, ddiVars, gpuVars, INT_FRDONE, vidSchVars>>

(* What the worker's steps below leave alone. *)
WorkerFrame == UNCHANGED <<g_bUseInterrupt, ddiVars, workerThreadEvent,
                           hwDmaBufCompletionDpc, INT_FRDONE, submitted, preempting>>

(* The queue is empty: back to the wait. *)
QueueDrained ==
  /\ workerPc = "drain" /\ dmaBufQueue = <<>>
  /\ workerPc' = "wait"
  /\ WorkerFrame
  /\ UNCHANGED <<poolVars, current, timedOut, gpuVars, hwDmaBufCompletionEvent,
                 fenceOf, osCompleted>>

(* ProcessPagingBuffer, or the copies of a software command buffer. *)
ProcessInSoftware ==
  /\ workerPc = "process"
  /\ workerPc' = "notify"
  /\ WorkerFrame
  /\ UNCHANGED <<poolVars, current, timedOut, gpuVars, hwDmaBufCompletionEvent,
                 fenceOf, osCompleted>>

(* The rendering list is written to the one place there is for it. *)
GenerateRenderingControlList ==
  /\ workerPc = "generate"
  /\ workerPc' = "bin"
  /\ WorkerFrame
  /\ UNCHANGED <<poolVars, current, timedOut, gpuVars, hwDmaBufCompletionEvent,
                 fenceOf, osCompleted>>

(* SubmitControlList(true): writing the end address starts the binning     *)
(* list, over whatever the executor was running.                           *)
SubmitBinningList ==
  /\ workerPc = "bin"
  /\ ct0' = FenceInHand
  /\ workerPc' = "render"
  /\ WorkerFrame
  /\ UNCHANGED <<poolVars, current, timedOut, ct1, rendering, semaphore, tiles, rendered,
                 hwDmaBufCompletionEvent, fenceOf, osCompleted>>

(* SubmitControlList(false), up to its wait. *)
SubmitRenderingListNoWait ==                                          \* mutant
  /\ workerPc = "render"
  /\ ct1' = FenceInHand /\ rendering' = FALSE
  /\ workerPc' = "flush"
  /\ WorkerFrame
  /\ UNCHANGED <<poolVars, current, timedOut, ct0, semaphore, tiles, rendered,
                 hwDmaBufCompletionEvent, fenceOf, osCompleted>>
SubmitRenderingList ==
  /\ workerPc = "render"
  /\ ct1' = FenceInHand /\ rendering' = FALSE
  /\ workerPc' = IF g_bUseInterrupt THEN "waitFrame" ELSE "poll"
  /\ WorkerFrame
  /\ UNCHANGED <<poolVars, current, timedOut, ct0, semaphore, tiles, rendered,
                 hwDmaBufCompletionEvent, fenceOf, osCompleted>>

(* Without interrupts it looks at CTRUN up to 32 times. *)
PollFrame ==
  /\ workerPc = "poll"
  /\ timedOut' = (timedOut \/ ct1 # 0)
  /\ workerPc' = "flush"
  /\ WorkerFrame
  /\ UNCHANGED <<poolVars, current, gpuVars, hwDmaBufCompletionEvent,
                 fenceOf, osCompleted>>

(* With interrupts it waits once, for the DPC ... *)
WaitForFrame ==
  /\ workerPc = "waitFrame" /\ hwDmaBufCompletionEvent
  /\ hwDmaBufCompletionEvent' = FALSE
  /\ workerPc' = "flush"
  /\ WorkerFrame
  /\ UNCHANGED <<poolVars, current, timedOut, gpuVars, fenceOf, osCompleted>>

(* ... or until the time-out. *)
FrameTimesOut ==
  /\ workerPc = "waitFrame" /\ ~hwDmaBufCompletionEvent
  /\ timedOut' = TRUE
  /\ workerPc' = "flush"
  /\ WorkerFrame
  /\ UNCHANGED <<poolVars, current, gpuVars, hwDmaBufCompletionEvent,
                 fenceOf, osCompleted>>

(* The end of ProcessRenderBuffer flushes the GPU's caches.                *)
FlushCaches ==
  /\ workerPc = "flush"
  /\ workerPc' = "notify"
  /\ WorkerFrame
  /\ UNCHANGED <<poolVars, current, timedOut, gpuVars, hwDmaBufCompletionEvent,
                 fenceOf, osCompleted>>

(* VidSch retires every fence up to the one completed. *)
VidSchCompleted(f) ==
  /\ fenceOf' = [b \in Buffers |-> IF fenceOf[b] <= f THEN 0 ELSE fenceOf[b]]
  /\ osCompleted' = f

NotifyDmaBufCompletion ==
  /\ workerPc = "notify"
  /\ VidSchCompleted(FenceInHand)
  /\ workerPc' = "recycle"
  /\ WorkerFrame
  /\ UNCHANGED <<poolVars, current, timedOut, gpuVars, hwDmaBufCompletionEvent>>

(* The entry in hand returns to the tail of the free list. *)
RecycleSubmission ==
  /\ workerPc = "recycle"
  /\ dmaBufSubmissionFree' = Append(dmaBufSubmissionFree, current)
  /\ current' = NoSlot
  /\ workerPc' = "drain"
  /\ WorkerFrame
  /\ UNCHANGED <<dmaBufSubssions, dmaBufQueue, timedOut, gpuVars,
                 hwDmaBufCompletionEvent, fenceOf, osCompleted>>

------------------------------------------------------------------------------
(* VC4, its interrupt and the DPC.                                         *)
GpuFrame == UNCHANGED <<g_bUseInterrupt, poolVars, workerVars, ddiVars,
                        workerThreadEvent, vidSchVars>>

(* The binning list ends with VC4IncrementSemaphore (WriteEpilog). *)
BinningEnds ==
  /\ ct0 # 0
  /\ ct0' = 0
  /\ semaphore' = semaphore + 1
  /\ tiles' = ct0
  /\ GpuFrame
  /\ UNCHANGED <<ct1, rendering, rendered, INT_FRDONE, hwDmaBufCompletionEvent,
                 hwDmaBufCompletionDpc>>

(* The rendering list begins with VC4WaitOnSemaphore. *)
RenderingStartsAtOnce ==                                              \* mutant
  /\ ct1 # 0 /\ ~rendering
  /\ rendering' = TRUE
  /\ GpuFrame
  /\ UNCHANGED <<ct0, ct1, semaphore, tiles, rendered, INT_FRDONE, hwDmaBufCompletionEvent,
                 hwDmaBufCompletionDpc>>
RenderingStarts ==
  /\ ct1 # 0 /\ ~rendering /\ semaphore > 0
  /\ rendering' = TRUE
  /\ semaphore' = semaphore - 1
  /\ GpuFrame
  /\ UNCHANGED <<ct0, ct1, tiles, rendered, INT_FRDONE, hwDmaBufCompletionEvent,
                 hwDmaBufCompletionDpc>>

(* Its last store signals the end of the frame. *)
RenderingEnds ==
  /\ ct1 # 0 /\ rendering
  /\ ct1' = 0 /\ rendering' = FALSE
  /\ rendered' = rendered \cup {ct1}
  /\ INT_FRDONE' = TRUE
  /\ GpuFrame
  /\ UNCHANGED <<ct0, semaphore, tiles, hwDmaBufCompletionEvent, hwDmaBufCompletionDpc>>

(* RendererInterruptRoutine acknowledges the interrupt and queues the DPC. *)
RendererInterruptRoutine ==
  /\ EI_FRDONE /\ INT_FRDONE /\ bReadyToHandleInterrupt
  /\ INT_FRDONE' = FALSE
  /\ hwDmaBufCompletionDpc' = TRUE
  /\ GpuFrame
  /\ UNCHANGED <<gpuVars, hwDmaBufCompletionEvent>>

HwDmaBufCompletionDpcRoutine ==
  /\ hwDmaBufCompletionDpc
  /\ hwDmaBufCompletionDpc' = FALSE
  /\ hwDmaBufCompletionEvent' = TRUE
  /\ GpuFrame
  /\ UNCHANGED <<gpuVars, INT_FRDONE>>

------------------------------------------------------------------------------
Worker ==
  \/ WakeUp \/ DequeueDmaBuffer \/ QueueDrained \/ ProcessInSoftware
  \/ GenerateRenderingControlList \/ SubmitBinningList \/ SubmitRenderingList
  \/ PollFrame \/ WaitForFrame \/ FrameTimesOut \/ FlushCaches
  \/ NotifyDmaBufCompletion \/ RecycleSubmission
DdiThread == WakeWorker \/ PowerDown \/ StopWorker \/ FinishStop
VidSch == (\E b \in Buffers : SubmitCommand(b)) \/ PreemptCommand \/ Stop
Gpu == BinningEnds \/ RenderingStarts \/ RenderingEnds
Interrupt == RendererInterruptRoutine \/ HwDmaBufCompletionDpcRoutine

(* A stopped adapter takes no further step.                                *)
Quiet ==
  /\ ddi = "stopped"
  /\ UNCHANGED vars

Next == Worker \/ DdiThread \/ VidSch \/ Gpu \/ Interrupt \/ Quiet

SafetySpec == Init /\ [][Next]_vars

(* The two threads are scheduled.  Nothing is asked of the GPU: every wait *)
(* for it is bounded.                                                      *)
Spec == SafetySpec /\ WF_vars(Worker) /\ WF_vars(DdiThread)

------------------------------------------------------------------------------
(* Properties.                                                             *)

(* Every variable has its type. *)
TypeOK ==
  /\ g_bUseInterrupt \in BOOLEAN
  /\ dmaBufSubssions \in [Slots -> [buf : Buffers \cup {NoBuffer}, fence : Nat]]
  /\ dmaBufSubmissionFree \in Seq(Slots) /\ dmaBufQueue \in Seq(Slots)
  /\ workerThreadEvent \in BOOLEAN /\ workerExit \in BOOLEAN
  /\ hwDmaBufCompletionEvent \in BOOLEAN /\ hwDmaBufCompletionDpc \in BOOLEAN
  /\ workerPc \in WorkerStates /\ current \in Slots \cup {NoSlot}
  /\ timedOut \in BOOLEAN /\ ddi \in DdiStates
  /\ ct0 \in Nat /\ ct1 \in Nat /\ rendering \in BOOLEAN
  /\ semaphore \in Nat /\ tiles \in Nat
  /\ INT_FRDONE \in BOOLEAN /\ rendered \subseteq Nat
  /\ fenceOf \in [Buffers -> Nat]
  /\ osCompleted \in Nat /\ submitted \in Nat /\ preempting \in BOOLEAN

RunsOnGpu(b) == b \notin PagingBuffers \cup SwBuffers

(* Unless a wait has timed out, a render buffer is reported as completed   *)
(* only when the GPU has finished its frame, and the GPU touches no memory *)
(* while the processor pages, copies, or writes the one rendering list     *)
(* there is.  (SubmitControlList and NotifyDmaBufCompletion.)              *)
NotifiedIsRendered ==
  ~timedOut =>
    /\ workerPc = "notify" /\ RunsOnGpu(InHand) => FenceInHand \in rendered
    /\ workerPc \in {"process", "generate"} => ct0 = 0 /\ ct1 = 0

(* A frame is rendered from the tile lists that its own binning wrote: the *)
(* semaphore pairs each rendering with its binning.                        *)
TilesAreOwn == ~timedOut /\ rendering => tiles = ct1

(* Every DMA buffer completes, oldest first and each once, whatever times   *)
(* out and even if the GPU hangs: one worker thread runs the queue in       *)
(* order, drains it after every wake-up, and bounds its waits.              *)
Contract == INSTANCE GpuNodeContract
  WITH outstanding <- Outstanding, completed <- osCompleted, resetting <- FALSE
CompletesInOrder ==
  /\ Contract!Safety
  /\ \A b \in Buffers : fenceOf[b] # 0 ~> fenceOf[b] = 0

------------------------------------------------------------------------------
(* What the comments of the code claim and it does not keep.               *)

(* SubmitControlList, "Completion of DMA buffer is acknowledged with       *)
(* interrupt and subsequent DPC signals m_hwDmaBufCompletionEvent": when   *)
(* the worker sees the event its frame is done.                            *)
SignalMeansFrameDone ==
  workerPc = "waitFrame" /\ hwDmaBufCompletionEvent => FenceInHand \in rendered

(* m_bReadyToHandleInterrupt, "Enable ... when device is ready for         *)
(* interrupt": the interrupt routine, which reads the registers if it is   *)
(* set, finds them mapped.                                                 *)
ReadyMeansMapped == bReadyToHandleInterrupt => VC4RegFileMapped
==============================================================================
