--------------------------- MODULE CosKmdScheduler ---------------------------
(***************************************************************************)
(* The GPU scheduler of the compute-only kernel driver (coskmd): the pool  *)
(* of DMA buffer submissions, the queue to the worker thread, the worker   *)
(* thread itself and the DDI entry points that submit, preempt, reset and  *)
(* stop.  Three parties take steps:                                        *)
(*                                                                         *)
(*   - the operating system's scheduler VidSch (external), which calls the *)
(*     DDIs and keeps its own account of every DMA buffer;                 *)
(*   - the DDI thread, inside a call of CosKmAdapter (variable ddi);       *)
(*   - the worker thread in CosKmAdapter::DoWork (variable workerPc).      *)
(*                                                                         *)
(* A step is what runs between two points where another thread can be      *)
(* seen: a KEVENT, the spin lock m_dmaBufQueueLock, a callback to VidSch.  *)
(* The DMA buffers' contents and their execution change none of this state *)
(* and are left out.                                                       *)
(***************************************************************************)
EXTENDS Naturals, Sequences, FiniteSets

CONSTANTS
  Buffers,        \* the DMA buffers, each with its private data COSDMABUFINFO
  PagingBuffers,  \* those built by BuildPagingBuffer, the others by DdiRender
  NoBuffer,       \* content of a submission entry never used
  PoolSize,       \* m_maxDmaBufQueueLength
  MaxPending,     \* fences VidSch keeps outstanding on the node at a time
  Triggers,       \* debug triggers the kernel debugger may set
  MaxFence        \* bound on the fences of one behaviour

AllTriggers == {"Preemption", "EngineReset", "TDR"}

ASSUME ConstantsAssumption ==
  /\ IsFiniteSet(Buffers) /\ PagingBuffers \subseteq Buffers
  /\ NoBuffer \notin Buffers
  /\ PoolSize \in Nat \ {0}
  /\ MaxPending \in Nat \ {0}
  /\ Triggers \subseteq AllTriggers
  /\ MaxFence \in Nat

VARIABLES
  \* CosKmAdapter
  dmaBufSubssions,        \* m_dmaBufSubssions: the content of each pool entry
  dmaBufSubmissionFree,   \* list of the free entries
  dmaBufQueue,            \* list of the entries queued to the worker
  signalled,              \* the KEVENTs now signalled (all auto-reset)
  lastSubmittedFenceId,
  lastCompletetdFenceId,
  lastCompeletedPreemptionFenceId,
  preemptionRequest,      \* m_preemptionRequest.PreemptionFenceId
  bInHangState,
  workerExit,
  dmaBufInfo,             \* COSDMABUFINFO of each DMA buffer
  \* threads
  workerPc,               \* where DoWork is
  current,                \* its pDmaBufSubmission
  ddi,                    \* the DDI call in progress
  \* VidSch
  status,                 \* its account of each DMA buffer
  fenceOf,                \* the fence of its last submission
  osCompleted,            \* the last fence completed, or aborted by a reset
  preempting              \* a preemption request awaits its answer

poolVars == <<dmaBufSubssions, dmaBufSubmissionFree, dmaBufQueue>>
sharedVars == <<poolVars, signalled, lastCompletetdFenceId, dmaBufInfo>>
ddiVars ==      \* only DDI calls write them
  <<lastSubmittedFenceId, preemptionRequest, bInHangState, workerExit, ddi>>
workerVars ==   \* only the worker thread writes them
  <<workerPc, current, lastCompeletedPreemptionFenceId>>
accountVars == <<fenceOf, osCompleted, preempting>>
vidSchVars == <<status, accountVars>>
vars == <<sharedVars, ddiVars, workerVars, vidSchVars>>

Slots == 1..PoolSize
NoSlot == 0
Events == {"worker", "preemption", "resetRequest", "resetCompletion"}
ResetCalls == {"ResetEngine", "ResetFromTimeout"}
DdiStates == {"idle", "SubmitCommand", "Stop", "stopped"} \cup ResetCalls
WorkerStates == {"wait", "drain", "stall", "run", "track", "recycle",
                 "unstall", "empty", "report", "note",
                 "resetEmpty", "resetSignal", "exited"}

(* The DMA buffers that VidSch has handed to the node and still waits for. *)
Submitted == {b \in Buffers : status[b] = "submitted"}

------------------------------------------------------------------------------
(* Start inserts each pool entry at the head of the free list. *)
FreeAtStartOneTooMany == [i \in 1..(PoolSize + 1) |-> PoolSize + 1 - i]   \* mutant: <=
FreeAtStart == [i \in Slots |-> PoolSize + 1 - i]

(* Adapter state once Start has returned and the worker thread waits. *)
Init ==
  /\ dmaBufSubssions = [s \in Slots |-> [buf |-> NoBuffer, fence |-> 0,
                                        bSimulateHang |-> FALSE]]
  /\ dmaBufSubmissionFree = FreeAtStart
  /\ dmaBufQueue = <<>>
  /\ signalled = {}
  /\ lastSubmittedFenceId = 0
  /\ lastCompletetdFenceId = 0
  /\ lastCompeletedPreemptionFenceId = 0
  /\ preemptionRequest = 0
  /\ bInHangState = FALSE
  /\ workerExit = FALSE
  /\ dmaBufInfo = [b \in Buffers |-> [bSubmittedOnce |-> FALSE, bPreempted |-> FALSE,
                                      bCompleted |-> FALSE, stalls |-> FALSE]]
  /\ workerPc = "wait"
  /\ current = NoSlot
  /\ ddi = "idle"
  /\ status = [b \in Buffers |-> "free"]
  /\ fenceOf = [b \in Buffers |-> 0]
  /\ osCompleted = 0
  /\ preempting = FALSE

------------------------------------------------------------------------------
(* VidSch's account, updated when the driver calls back or a DDI returns.  *)

(* DMA_COMPLETED retires every fence up to f. *)
VidSchCompleted(f) ==
  /\ status' = [b \in Buffers |-> IF b \in Submitted /\ fenceOf[b] <= f
                                  THEN "free" ELSE status[b]]
  /\ osCompleted' = f
  /\ UNCHANGED <<fenceOf, preempting>>

(* DMA_PREEMPTED: what is newer than the LastCompletedFenceId reported     *)
(* will be submitted again, the rest has completed.                        *)
VidSchPreempted(last) ==
  /\ status' = [b \in Buffers |-> IF b \notin Submitted THEN status[b]
                                  ELSE IF fenceOf[b] <= last THEN "free" ELSE "preempted"]
  /\ osCompleted' = last
  /\ preempting' = FALSE
  /\ UNCHANGED fenceOf

(* A reset aborts whatever was outstanding, up to LastAbortedFenceId for   *)
(* ResetEngine and the last fence submitted for ResetFromTimeout.          *)
VidSchReset(last) ==
  /\ status' = [b \in Buffers |-> IF b \in Submitted THEN "free" ELSE status[b]]
  /\ osCompleted' = last
  /\ UNCHANGED <<fenceOf, preempting>>

(* VidSch serialises its calls on the node, submits nothing while a        *)
(* preemption request is pending and keeps at most MaxPending outstanding. *)
NodeIdle == ddi = "idle"
MaySubmit == NodeIdle /\ ~preempting /\ Cardinality(Submitted) < MaxPending

(* DdiRender or BuildPagingBuffer fills a free DMA buffer.  Both clear     *)
(* m_DmaBufState and leave m_DmaBufStallDuration as it is.                 *)
Prepare(b) ==
  /\ status[b] = "free"
  /\ ddi \notin {"Stop", "stopped"}
  /\ status' = [status EXCEPT ![b] = "ready"]
  /\ dmaBufInfo' = [dmaBufInfo EXCEPT ![b] =
                      [bSubmittedOnce |-> FALSE, bPreempted |-> FALSE,
                       bCompleted |-> FALSE, stalls |-> dmaBufInfo[b].stalls]]
  /\ UNCHANGED <<poolVars, signalled, lastCompletetdFenceId, ddiVars,
                 workerVars, accountVars>>

(* CancelCommand: the DMA buffer is not queued and the driver does nothing. *)
CancelCommand(b) ==
  /\ NodeIdle
  /\ status[b] \in {"ready", "preempted"}
  /\ status' = [status EXCEPT ![b] = "free"]
  /\ UNCHANGED <<sharedVars, ddiVars, workerVars, accountVars>>

------------------------------------------------------------------------------
(* Submission.                                                             *)

(* The g_bTrigger globals may be rewritten in the kernel debugger at any   *)
(* time; "set" are those found set by a submission.  One at a time: TDR    *)
(* hides the others, EngineReset hides Preemption.                         *)
OneTrigger(set) ==
  CASE "TDR" \in set -> {"TDR"}
    [] "EngineReset" \in set -> {"EngineReset"}
    [] OTHER -> set

(* Those that the submission of b takes: Preemption and EngineReset only   *)
(* at the first submission of a render buffer, TDR at any submission of a  *)
(* paging buffer.                                                          *)
TakenTriggers(set, b) ==
  {t \in OneTrigger(set) :
     IF t = "TDR" THEN b \in PagingBuffers
                  ELSE b \notin PagingBuffers /\ ~dmaBufInfo[b].bSubmittedOnce}

HangTriggered(set, b) == TakenTriggers(set, b) \cap {"EngineReset", "TDR"} # {}

(* m_DmaBufStallDuration, which the trigger sets and nothing here clears.  *)
Stalls(set, b) == dmaBufInfo[b].stalls \/ "Preemption" \in TakenTriggers(set, b)

(* m_bSimulateHang of the new entry: the hang state outlives the trigger.  *)
SimulateHangOnce(set, b) == HangTriggered(set, b)                     \* mutant
SimulateHang(set, b) == bInHangState \/ HangTriggered(set, b)

(* QueueDmaBuffer, under the queue lock.  With no free entry the code      *)
(* asserts, and beyond the assertion the lists are corrupt.                *)
QueueDmaBuffer(b, set) ==
  LET slot == Head(dmaBufSubmissionFree)
  IN /\ dmaBufSubmissionFree # <<>>
     /\ dmaBufInfo' = [dmaBufInfo EXCEPT ![b].bSubmittedOnce = TRUE,
                                         ![b].stalls = Stalls(set, b)]
     /\ bInHangState' = (bInHangState \/ HangTriggered(set, b))
     /\ dmaBufSubmissionFree' = Tail(dmaBufSubmissionFree)
     /\ dmaBufSubssions' = [dmaBufSubssions EXCEPT ![slot] =
                              [buf |-> b, fence |-> lastSubmittedFenceId + 1,
                               bSimulateHang |-> SimulateHang(set, b)]]
     /\ dmaBufQueue' = Append(dmaBufQueue, slot)
     /\ lastSubmittedFenceId' = lastSubmittedFenceId + 1

(* VidSch numbers its submissions consecutively, resubmissions included.   *)
SubmitCommand(b) ==
  /\ MaySubmit
  /\ status[b] \in {"ready", "preempted"}
  /\ lastSubmittedFenceId < MaxFence
  /\ \E set \in SUBSET Triggers : QueueDmaBuffer(b, set)
  /\ status' = [status EXCEPT ![b] = "submitted"]
  /\ fenceOf' = [fenceOf EXCEPT ![b] = lastSubmittedFenceId + 1]
  /\ ddi' = "SubmitCommand"
  /\ UNCHANGED <<signalled, lastCompletetdFenceId, preemptionRequest,
                 workerExit, workerVars, osCompleted, preempting>>

(* The lock is released; SubmitCommand sets m_workerThreadEvent, returns. *)
WakeWorker ==
  /\ ddi = "SubmitCommand"
  /\ signalled' = signalled \cup {"worker"}
  /\ ddi' = "idle"
  /\ UNCHANGED <<poolVars, lastCompletetdFenceId, dmaBufInfo,
                 lastSubmittedFenceId, preemptionRequest, bInHangState,
                 workerExit, workerVars, vidSchVars>>

------------------------------------------------------------------------------
(* Preemption, reset and stop requests.                                    *)

(* VidSch preempts a busy node, one request at a time.  The driver records *)
(* a request at most one request late, so that three values are enough to  *)
(* tell PreemptionFenceIds apart.                                          *)
PreemptCommand ==
  /\ NodeIdle /\ ~preempting /\ Submitted # {}
  /\ preemptionRequest' = (preemptionRequest + 1) % 3
  /\ signalled' = signalled \cup {"preemption"}
  /\ preempting' = TRUE
  /\ UNCHANGED <<poolVars, lastCompletetdFenceId, dmaBufInfo,
                 lastSubmittedFenceId, bInHangState, workerExit, ddi,
                 workerVars, fenceOf, osCompleted, status>>

(* VidSch's timeout on a fence or on a preemption request, which may still *)
(* be answered while the reset is under way.                               *)
RequestReset(call) ==
  /\ NodeIdle /\ (Submitted # {} \/ preempting)
  /\ signalled' = signalled \cup {"resetRequest"}
  /\ ddi' = call
  /\ UNCHANGED <<poolVars, lastCompletetdFenceId, dmaBufInfo,
                 lastSubmittedFenceId, preemptionRequest, bInHangState,
                 workerExit, workerVars, vidSchVars>>

(* m_lastCompletetdFenceId after a reset. *)
FenceNotSynced == lastCompletetdFenceId                               \* mutant
SyncedFence == lastSubmittedFenceId

(* The DDI thread wakes on m_resetCompletionEvent, clears the hang state,  *)
(* declares all submitted fences completed and returns.                    *)
FinishReset ==
  /\ ddi \in ResetCalls
  /\ "resetCompletion" \in signalled
  /\ signalled' = signalled \ {"resetCompletion"}
  /\ bInHangState' = FALSE
  /\ lastCompletetdFenceId' = SyncedFence
  /\ VidSchReset(lastSubmittedFenceId)
  /\ ddi' = "idle"
  /\ UNCHANGED <<poolVars, dmaBufInfo, lastSubmittedFenceId, preemptionRequest,
                 workerExit, workerVars>>

(* Stop, on an adapter whose node VidSch has drained. *)
RequestStop ==
  /\ NodeIdle /\ ~preempting /\ Submitted = {}
  /\ workerExit' = TRUE
  /\ signalled' = signalled \cup {"worker"}
  /\ ddi' = "Stop"
  /\ UNCHANGED <<poolVars, lastCompletetdFenceId, dmaBufInfo,
                 lastSubmittedFenceId, preemptionRequest, bInHangState,
                 workerVars, vidSchVars>>

(* Stop returns once the worker thread has ended. *)
FinishStop ==
  /\ ddi = "Stop" /\ workerPc = "exited"
  /\ ddi' = "stopped"
  /\ UNCHANGED <<sharedVars, lastSubmittedFenceId, preemptionRequest,
                 bInHangState, workerExit, workerVars, vidSchVars>>

------------------------------------------------------------------------------
(* The worker thread, DoWork.  m_pDmaBufInfo of the submission in hand:    *)
InHand == dmaBufSubssions[current].buf

(* KeWaitForMultipleObjects(WaitAny) on waitEvents returns the lowest of   *)
(* the signalled indices and resets that event.                            *)
WaitEventsResetFirst == <<"worker", "resetRequest", "preemption">>   \* mutant
WaitEvents == <<"worker", "preemption", "resetRequest">>
WakesOn(e) ==
  /\ workerPc = "wait"
  /\ \E i \in DOMAIN WaitEvents :
       /\ WaitEvents[i] = e
       /\ \A j \in 1..(i - 1) : WaitEvents[j] \notin signalled
  /\ e \in signalled
  /\ signalled' = signalled \ {e}

(* Mutant: Stop sets the event before the flag, which may be seen late. *)
WakeForQueueStaleExit ==
  /\ WakesOn("worker")
  /\ workerPc' \in (IF workerExit THEN {"exited", "drain"} ELSE {"drain"})
  /\ UNCHANGED <<poolVars, lastCompletetdFenceId, dmaBufInfo, ddiVars, current,
                 lastCompeletedPreemptionFenceId, vidSchVars>>

WakeForQueue ==
  /\ WakesOn("worker")
  /\ workerPc' = IF workerExit THEN "exited" ELSE "drain"
  /\ UNCHANGED <<poolVars, lastCompletetdFenceId, dmaBufInfo, ddiVars, current,
                 lastCompeletedPreemptionFenceId, vidSchVars>>

WakeForPreemption ==
  /\ WakesOn("preemption")
  /\ workerPc' = "empty"
  /\ UNCHANGED <<poolVars, lastCompletetdFenceId, dmaBufInfo, ddiVars, current,
                 lastCompeletedPreemptionFenceId, vidSchVars>>

WakeForReset ==
  /\ WakesOn("resetRequest")
  /\ workerPc' = "resetEmpty"
  /\ UNCHANGED <<poolVars, lastCompletetdFenceId, dmaBufInfo, ddiVars, current,
                 lastCompeletedPreemptionFenceId, vidSchVars>>

(* DequeueDmaBuffer, or back to the outer wait when the queue is empty.    *)
DequeueDmaBuffer ==
  /\ workerPc = "drain"
  /\ IF dmaBufQueue = <<>>
     THEN /\ workerPc' = "wait"
          /\ UNCHANGED <<current, dmaBufQueue>>
     ELSE LET slot == Head(dmaBufQueue)
          IN /\ current' = slot
             /\ dmaBufQueue' = Tail(dmaBufQueue)
             /\ workerPc' = IF dmaBufInfo[dmaBufSubssions[slot].buf].stalls
                            THEN "stall" ELSE "run"
  /\ UNCHANGED <<dmaBufSubssions, dmaBufSubmissionFree, signalled,
                 lastCompletetdFenceId, dmaBufInfo, ddiVars,
                 lastCompeletedPreemptionFenceId, vidSchVars>>

(* The emulated long-running buffer is interrupted by a preemption request: *)
(* its state is saved with what is left of the stall, perhaps nothing.      *)
PreemptStall ==
  /\ workerPc = "stall"
  /\ "preemption" \in signalled
  /\ signalled' = signalled \ {"preemption"}
  /\ \E left \in BOOLEAN :
       dmaBufInfo' = [dmaBufInfo EXCEPT ![InHand].bPreempted = TRUE,
                                        ![InHand].stalls = left]
  /\ workerPc' = "unstall"
  /\ UNCHANGED <<poolVars, lastCompletetdFenceId, ddiVars, current,
                 lastCompeletedPreemptionFenceId, vidSchVars>>

(* ... or runs to its end. *)
EndStall ==
  /\ workerPc = "stall"
  /\ "preemption" \notin signalled
  /\ dmaBufInfo' = [dmaBufInfo EXCEPT ![InHand].stalls = FALSE]
  /\ workerPc' = "run"
  /\ UNCHANGED <<poolVars, signalled, lastCompletetdFenceId, ddiVars, current,
                 lastCompeletedPreemptionFenceId, vidSchVars>>

(* NotifyDmaBufCompletion once the buffer has been processed. *)
NotifyDmaBufCompletion ==
  /\ workerPc = "run"
  /\ ~dmaBufSubssions[current].bSimulateHang
  /\ dmaBufInfo' = IF InHand \in PagingBuffers THEN dmaBufInfo
                   ELSE [dmaBufInfo EXCEPT ![InHand].bCompleted = TRUE]
  /\ VidSchCompleted(dmaBufSubssions[current].fence)
  /\ workerPc' = "track"
  /\ UNCHANGED <<poolVars, signalled, lastCompletetdFenceId, ddiVars, current,
                 lastCompeletedPreemptionFenceId>>

(* Mutant: the entry of a hung submission is not returned. *)
SkipHungCompletionLeak ==
  /\ workerPc = "run"
  /\ dmaBufSubssions[current].bSimulateHang
  /\ workerPc' = "drain"
  /\ current' = NoSlot
  /\ UNCHANGED <<sharedVars, ddiVars, lastCompeletedPreemptionFenceId,
                 vidSchVars>>

(* Its early return: an emulated hang is never reported. *)
SkipHungCompletion ==
  /\ workerPc = "run"
  /\ dmaBufSubssions[current].bSimulateHang
  /\ workerPc' = "recycle"
  /\ UNCHANGED <<sharedVars, ddiVars, current, lastCompeletedPreemptionFenceId,
                 vidSchVars>>

(* Its last statement, after VidSch was called back. *)
TrackCompletion ==
  /\ workerPc = "track"
  /\ lastCompletetdFenceId' = dmaBufSubssions[current].fence
  /\ workerPc' = "recycle"
  /\ UNCHANGED <<poolVars, signalled, dmaBufInfo, ddiVars, current,
                 lastCompeletedPreemptionFenceId, vidSchVars>>

(* Mutant: one submission per wake-up of the worker. *)
RecycleSubmissionThenWait ==
  /\ workerPc \in {"recycle", "unstall"}
  /\ dmaBufSubmissionFree' = Append(dmaBufSubmissionFree, current)
  /\ current' = NoSlot
  /\ workerPc' = IF workerPc = "recycle" THEN "wait" ELSE "empty"
  /\ UNCHANGED <<dmaBufSubssions, dmaBufQueue, signalled,
                 lastCompletetdFenceId, dmaBufInfo, ddiVars,
                 lastCompeletedPreemptionFenceId, vidSchVars>>

(* The entry in hand goes back to the free list, after its completion or   *)
(* before the answer to the preemption that interrupted it.                *)
RecycleSubmission ==
  /\ workerPc \in {"recycle", "unstall"}
  /\ dmaBufSubmissionFree' = Append(dmaBufSubmissionFree, current)
  /\ current' = NoSlot
  /\ workerPc' = IF workerPc = "recycle" THEN "drain" ELSE "empty"
  /\ UNCHANGED <<dmaBufSubssions, dmaBufQueue, signalled,
                 lastCompletetdFenceId, dmaBufInfo, ddiVars,
                 lastCompeletedPreemptionFenceId, vidSchVars>>

(* EmptyDmaBufferQueue, under the queue lock: all that was queued becomes  *)
(* free, in order.                                                         *)
EmptyDmaBufferQueueLeak ==                                            \* mutant
  UNCHANGED dmaBufSubmissionFree /\ dmaBufQueue' = <<>>
EmptyDmaBufferQueue ==
  /\ dmaBufSubmissionFree' = dmaBufSubmissionFree \o dmaBufQueue
  /\ dmaBufQueue' = <<>>

(* NotifyPreemptionCompletion removes what will be submitted again, ...    *)
ReportWithoutEmptying ==                                              \* mutant
  /\ workerPc = "empty"
  /\ workerPc' = "report"
  /\ UNCHANGED <<sharedVars, ddiVars, current, lastCompeletedPreemptionFenceId,
                 vidSchVars>>
EmptyForPreemption ==
  /\ workerPc = "empty"
  /\ EmptyDmaBufferQueue
  /\ workerPc' = "report"
  /\ UNCHANGED <<dmaBufSubssions, signalled, lastCompletetdFenceId, dmaBufInfo,
                 ddiVars, current, lastCompeletedPreemptionFenceId,
                 vidSchVars>>

(* ... calls VidSch back with DMA_PREEMPTED ... *)
ReportPreemption ==
  /\ workerPc = "report"
  /\ VidSchPreempted(lastCompletetdFenceId)
  /\ workerPc' = "note"
  /\ UNCHANGED <<sharedVars, ddiVars, current, lastCompeletedPreemptionFenceId>>

(* ... and last reads the request once more. *)
NotePreemption ==
  /\ workerPc = "note"
  /\ lastCompeletedPreemptionFenceId' = preemptionRequest
  /\ workerPc' = "wait"
  /\ UNCHANGED <<sharedVars, ddiVars, current, vidSchVars>>

(* A reset drops what is queued ... *)
EmptyForReset ==
  /\ workerPc = "resetEmpty"
  /\ EmptyDmaBufferQueue
  /\ workerPc' = "resetSignal"
  /\ UNCHANGED <<dmaBufSubssions, signalled, lastCompletetdFenceId, dmaBufInfo,
                 ddiVars, current, lastCompeletedPreemptionFenceId,
                 vidSchVars>>

(* ... and the waiting DDI thread is signalled. *)
SignalReset ==
  /\ workerPc = "resetSignal"
  /\ signalled' = signalled \cup {"resetCompletion"}
  /\ workerPc' = "wait"
  /\ UNCHANGED <<poolVars, lastCompletetdFenceId, dmaBufInfo, ddiVars, current,
                 lastCompeletedPreemptionFenceId, vidSchVars>>

------------------------------------------------------------------------------
Worker ==
  \/ WakeForQueue \/ WakeForPreemption \/ WakeForReset
  \/ DequeueDmaBuffer \/ PreemptStall \/ EndStall
  \/ NotifyDmaBufCompletion \/ SkipHungCompletion \/ TrackCompletion
  \/ RecycleSubmission
  \/ EmptyForPreemption \/ ReportPreemption \/ NotePreemption
  \/ EmptyForReset \/ SignalReset

(* What the DDI thread does on its own once the call has started. *)
DdiThread == WakeWorker \/ FinishReset \/ FinishStop

VidSch ==
  \/ \E b \in Buffers : Prepare(b) \/ CancelCommand(b) \/ SubmitCommand(b)
  \/ PreemptCommand
  \/ \E call \in ResetCalls : RequestReset(call)
  \/ RequestStop

(* After Stop nothing happens any more. *)
Stopped == ddi = "stopped" /\ UNCHANGED vars

Next == Worker \/ DdiThread \/ VidSch \/ Stopped

SafetySpec == Init /\ [][Next]_vars

(* VidSch's timeout on a node that has stopped completing. *)
HangTimeout == bInHangState /\ \E call \in ResetCalls : RequestReset(call)

(* The two threads are scheduled; the timeout of a hung node expires.      *)
(* VidSch owes the driver nothing else.                                    *)
Fairness == WF_vars(Worker) /\ WF_vars(DdiThread) /\ WF_vars(HangTimeout)

Spec == SafetySpec /\ Fairness

------------------------------------------------------------------------------
(* Properties.                                                             *)

SubmissionType == [buf : Buffers \cup {NoBuffer}, fence : Nat, bSimulateHang : BOOLEAN]
InfoType == [bSubmittedOnce : BOOLEAN, bPreempted : BOOLEAN,
             bCompleted : BOOLEAN, stalls : BOOLEAN]

(* Every variable has its type. *)
TypeOK ==
  /\ dmaBufSubssions \in [Slots -> SubmissionType]
  /\ dmaBufSubmissionFree \in Seq(Slots)
  /\ dmaBufQueue \in Seq(Slots)
  /\ signalled \subseteq Events
  /\ lastSubmittedFenceId \in Nat /\ lastCompletetdFenceId \in Nat
  /\ lastCompeletedPreemptionFenceId \in 0..2 /\ preemptionRequest \in 0..2
  /\ bInHangState \in BOOLEAN /\ workerExit \in BOOLEAN
  /\ dmaBufInfo \in [Buffers -> InfoType]
  /\ workerPc \in WorkerStates
  /\ current \in Slots \cup {NoSlot}
  /\ ddi \in DdiStates
  /\ status \in [Buffers -> {"free", "ready", "submitted", "preempted"}]
  /\ fenceOf \in [Buffers -> Nat]
  /\ osCompleted \in Nat
  /\ preempting \in BOOLEAN

Distinct(seq) == \A i, j \in 1..Len(seq) : seq[i] = seq[j] => i = j
Lacks(seq, e) == \A i \in 1..Len(seq) : seq[i] # e
Apart(p, q) == \A i \in 1..Len(p) : Lacks(q, p[i])

(* The pool of submission entries is conserved: every entry is free,       *)
(* queued or in the worker's hand, and in one of these places only.        *)
(* (QueueDmaBuffer, DequeueDmaBuffer, EmptyDmaBufferQueue and DoWork's     *)
(* returns to the free list.)                                              *)
PoolConserved ==
  /\ Len(dmaBufSubmissionFree) + Len(dmaBufQueue)
       + (IF current = NoSlot THEN 0 ELSE 1) = PoolSize
  /\ Distinct(dmaBufSubmissionFree) /\ Distinct(dmaBufQueue)
  /\ Apart(dmaBufSubmissionFree, dmaBufQueue)
  /\ Lacks(dmaBufSubmissionFree, current) /\ Lacks(dmaBufQueue, current)

(* QueueDmaBuffer's assertion !IsListEmpty(&m_dmaBufSubmissionFree): as    *)
(* long as VidSch may submit, an entry is free.                            *)
FreeEntryAvailable == MaySubmit => dmaBufSubmissionFree # <<>>

(* The submissions that the driver still means to run. *)
InFlight ==
  {dmaBufQueue[i] : i \in 1..Len(dmaBufQueue)}
    \cup (IF workerPc \in {"stall", "run"} THEN {current} ELSE {})

(* What the driver still means to run VidSch still waits for, under the    *)
(* same fence: no preempted, aborted or completed DMA buffer is run, and   *)
(* the worker touches no private data that VidSch may already reuse.       *)
InFlightIsOutstanding ==
  \A s \in InFlight :
    LET b == dmaBufSubssions[s].buf
    IN b \in Submitted /\ fenceOf[b] = dmaBufSubssions[s].fence

(* "Adapter remains in Hang state until reset": behind a submission that   *)
(* emulates a hang every other one hangs too, so that none overtakes it,   *)
(* and so will those to come.                                              *)
HangPersists ==
  \A s \in InFlight :
    dmaBufSubssions[s].bSimulateHang =>
      /\ bInHangState
      /\ \A t \in InFlight : dmaBufSubssions[t].fence > dmaBufSubssions[s].fence
                               => dmaBufSubssions[t].bSimulateHang

(* "KMD should finish resetting the engine before returning": when the DDI *)
(* thread is told that the reset is complete the driver holds no           *)
(* submission, and no preemption request is left to be answered later.     *)
ResetQuiesces ==
  ddi \in ResetCalls /\ "resetCompletion" \in signalled =>
    /\ dmaBufQueue = <<>> /\ current = NoSlot
    /\ ~preempting /\ "preemption" \notin signalled

(* The driver keeps VidSch's contract: completions oldest first and each   *)
(* once, exact LastCompletedFenceId, nothing left running by a preemption  *)
(* or a reset, requests answered.                                          *)
Contract == INSTANCE GpuNodeContract
  WITH outstanding <- {fenceOf[b] : b \in Submitted},
       submitted <- lastSubmittedFenceId,
       completed <- osCompleted,
       resetting <- ddi \in ResetCalls
KeepsContract == Contract!Spec

(* No submission is forgotten: it completes, is preempted or, when it      *)
(* hangs, is aborted.  (The worker's event is set after the queue has      *)
(* grown, and one wait drains all of it.)                                  *)
SubmissionEnds ==
  \A b \in Buffers : status[b] = "submitted" ~> status[b] # "submitted"

(* Every blocking call returns: ResetEngine, ResetFromTimeout and Stop     *)
(* each wait for the worker thread.                                        *)
DdiReturns == ddi \notin {"idle", "stopped"} ~> ddi \in {"idle", "stopped"}

------------------------------------------------------------------------------
(* What the comments and assertions of the code claim and it does not keep. *)

(* ResetEngine, "Use the Fence Id for the last Submited but un-Completed   *)
(* DMA buffer": the fence it reports as aborted had not completed.  (What  *)
(* it reports is VidSch's account from then on.)                           *)
AbortedIsUncompleted ==
  [][ddi = "ResetEngine" /\ ddi' = "idle" => osCompleted' > osCompleted]_vars

(* PreemptCommand, "It is guaranteed that there is only 1 pending          *)
(* preemption request": the request recorded as the last one completed has *)
(* been answered.                                                          *)
RecordedPreemptionIsAnswered ==
  preempting => lastCompeletedPreemptionFenceId # preemptionRequest
==============================================================================
