------------------------- MODULE RosUmdCommandBuffer -------------------------
(***************************************************************************)
(* Batching in the user-mode driver rosumd: how RosUmdDevice's copies,     *)
(* draws, clears, maps and flushes fill the command buffer, the allocation *)
(* list and the patch location list of RosUmdCommandBuffer, and when they  *)
(* are submitted with pfnRenderCb.                                         *)
(*                                                                         *)
(* The driver is called from one thread at a time: an action is one call   *)
(* of a device function, from the variable dev before to the one after it. *)
(* A call runs through the operators below in the order of the code, each  *)
(* from one state of the device to the next.  A batch is what the three    *)
(* lists hold since the last submission.                                   *)
(***************************************************************************)
EXTENDS Naturals, Sequences

CONSTANTS
  Resources,          \* RosUmdResource objects
  dummyBuffer,        \* m_dummyBuffer, used by every pipeline state
  SwapChain,          \* two presentable resources, whose identities DXGI rotates
  Dynamic,            \* resources that the CPU maps; the others are USAGE_DEFAULT
  Allocations,        \* kernel mode allocations
  FirstAllocation,    \* m_hKMAllocation of each resource after its creation
  NoTarget,           \* no render target is bound
  Unwritten,          \* what a patch location not written for this batch holds
  CommandBufferSize, AllocationListSize, PatchLocationListSize,
  CommandThreshold, AllocationThreshold, PatchThreshold,  \* ..._FLUSH_THRESHOLD
  HeaderSize, CopySize, DrawSize, EpilogSize,
  MaxStateCommands, MaxAllocationsUsed, MaxPatchLocations,
  StateSizes,         \* sizes that a pipeline state may turn out to have
  MaxFence            \* bound on the fences of one behaviour

(* No command is empty, and the sizes fit each other: a request fits into  *)
(* an empty batch and a pipeline state into what it reserves (asserted in  *)
(* RefreshPipelineState).                                                  *)
ASSUME SizesAssumption ==
  /\ {CommandBufferSize, AllocationListSize, PatchLocationListSize,
      CommandThreshold, AllocationThreshold, PatchThreshold,
      HeaderSize, CopySize, DrawSize, EpilogSize,
      MaxStateCommands, MaxAllocationsUsed, MaxPatchLocations, MaxFence} \subseteq Nat
  /\ 0 \notin {CopySize, DrawSize, EpilogSize}
  /\ \A n \in {CopySize, DrawSize, MaxStateCommands} :
       HeaderSize + n + CommandThreshold <= CommandBufferSize
  /\ MaxAllocationsUsed >= 3 /\ MaxPatchLocations >= 3
  /\ MaxAllocationsUsed + AllocationThreshold <= AllocationListSize
  /\ MaxPatchLocations + PatchThreshold <= PatchLocationListSize
  /\ StateSizes \subseteq 1..MaxStateCommands
ASSUME ResourcesAssumption ==
  /\ dummyBuffer \in Resources
  /\ SwapChain \subseteq Resources /\ Dynamic \subseteq Resources
  /\ dummyBuffer \notin SwapChain \cup Dynamic /\ SwapChain \cap Dynamic = {}
  /\ FirstAllocation \in [Resources -> Allocations]
  /\ \A r, q \in Resources : FirstAllocation[r] = FirstAllocation[q] => r = q

VARIABLES
  dev,      \* RosUmdDevice and its command buffer, a record:
            \*   pos         m_commandBufferPos
            \*   commands    the commands written since the header, by kind
            \*   allocs      allocation list, as long as m_allocationListPos
            \*   patches     patch location list, as long as m_patchLocationListPos
            \*   fence       m_submissionFence
            \*   sw          m_swCommandBuffer of the header
            \*   clear       m_hasVC4ClearColors of the header
            \*   clearedAt   how many commands were written before the last clear
            \*   binning     m_binningStarted
            \*   draws       m_hasDrawCall
            \*   target      the resource of m_renderTargetViews[0]
            \*   targets     the targets that the batch draws to
            \*   lastFence   m_mostRecentFence of each resource
            \*   index       its m_allocationListIndex, counted from 1
            \*   handle      its m_hKMAllocation
            \*   outcome     how the call ends: "returns", "throws", "recurses"
            \*   renders     how many pfnRenderCb of this call succeed
            \*   sent        the batches that this call has submitted
  mapped    \* resources that the CPU has mapped

vars == <<dev, mapped>>

s_nullFence == 0
s_firstFence == 1

Kinds == {"copy", "state", "draw", "epilog"}
Outcomes == {"returns", "throws", "recurses"}
MaxRenders == 2     \* no call submits more than two batches

(* RosUmdDevice::Standup, RosUmdCommandBuffer::Standup, RosUmdResource::Standup *)
Init ==
  /\ dev = [pos |-> HeaderSize, commands |-> <<>>, allocs |-> <<>>, patches |-> <<>>,
            fence |-> s_firstFence, sw |-> TRUE, clear |-> FALSE, clearedAt |-> 0,
            binning |-> FALSE, draws |-> FALSE,
            target |-> NoTarget, targets |-> {},
            lastFence |-> [r \in Resources |-> s_nullFence],
            index |-> [r \in Resources |-> 0],
            handle |-> FirstAllocation,
            outcome |-> "returns", renders |-> 0, sent |-> <<>>]
  /\ mapped = {}

------------------------------------------------------------------------------
(* RosUmdCommandBuffer.                                                    *)

IsCommandBufferEmpty(d) == d.pos <= HeaderSize
Aborted(d) == d.outcome # "returns"

(* What pfnRenderCb is given. *)
Batch(d) == [commands |-> d.commands, allocs |-> d.allocs, patches |-> d.patches,
             sw |-> d.sw, clear |-> d.clear, clearedAt |-> d.clearedAt, targets |-> d.targets]

(* Mutant: the positions are reset before a failed submission throws. *)
SubmitLosingFailed(d) ==
  IF d.renders = 0
  THEN [d EXCEPT !.outcome = "throws", !.pos = HeaderSize, !.commands = <<>>,
                 !.targets = {}]
  ELSE [d EXCEPT !.renders = d.renders - 1, !.sent = Append(d.sent, Batch(d)),
                 !.fence = d.fence + 1, !.pos = HeaderSize, !.commands = <<>>,
                 !.allocs = <<>>, !.patches = <<>>, !.sw = TRUE, !.clear = FALSE,
                 !.clearedAt = 0, !.targets = {}]

(* Flush from pfnRenderCb on.  When that fails Render throws and the batch *)
(* stays as it is.                                                         *)
Submit(d) ==
  IF d.renders = 0
  THEN [d EXCEPT !.outcome = "throws"]
  ELSE [d EXCEPT !.renders = d.renders - 1, !.sent = Append(d.sent, Batch(d)),
                 !.fence = d.fence + 1, !.pos = HeaderSize, !.commands = <<>>,
                 !.allocs = <<>>, !.patches = <<>>, !.sw = TRUE, !.clear = FALSE,
                 !.clearedAt = 0, !.targets = {}]

FitsCommandsOnly(d, size, allocs, patches) ==                         \* mutant
  d.pos + size + CommandThreshold <= CommandBufferSize
Fits(d, size, allocs, patches) ==
  /\ d.pos + size + CommandThreshold <= CommandBufferSize
  /\ Len(d.allocs) + allocs + AllocationThreshold <= AllocationListSize
  /\ Len(d.patches) + patches + PatchThreshold <= PatchLocationListSize

(* CommitCommandBufferSpace, with the patch locations that were written.   *)
Commit(d, kind, size, patches) ==
  [d EXCEPT !.pos = d.pos + size, !.commands = Append(d.commands, kind),
            !.patches = d.patches \o patches]

(* RosUmdDevice::WriteEpilog.  Its Reserve calls Flush when the epilogue   *)
(* does not fit, which calls it again on the same batch, without end.      *)
WriteEpilog(d) ==
  IF Fits(d, EpilogSize, 0, 0)
  THEN [Commit(d, "epilog", EpilogSize, <<>>) EXCEPT !.binning = FALSE, !.draws = FALSE]
  ELSE [d EXCEPT !.outcome = "recurses"]

Flush(d) ==
  LET ended == IF d.sw THEN d ELSE WriteEpilog(d)
  IN IF Aborted(ended) THEN ended ELSE Submit(ended)

FlushIfMatchingOlder(d, fence) ==                                     \* mutant
  IF fence < d.fence /\ fence # s_nullFence THEN Flush(d) ELSE d
FlushIfMatching(d, fence) == IF fence = d.fence THEN Flush(d) ELSE d

(* ReserveCommandBufferSpace, its two parts: a batch has one kind of       *)
(* commands, and room is made by submitting it.                            *)
SetType(d, sw) ==
  LET flushed == IF IsCommandBufferEmpty(d) THEN d ELSE Flush(d)
  IN IF d.sw = sw THEN d
     ELSE IF Aborted(flushed) THEN flushed
     ELSE [flushed EXCEPT !.sw = sw]

MakeRoom(d, size, allocs, patches) ==
  IF Aborted(d) \/ Fits(d, size, allocs, patches) THEN d ELSE Flush(d)

Reserve(d, sw, size, allocs, patches) ==
  MakeRoom(SetType(d, sw), size, allocs, patches)

(* UseResource: an entry of the allocation list, one for each batch. *)
UseResource(d, r) ==
  IF d.lastFence[r] < d.fence
  THEN [d EXCEPT !.allocs = Append(d.allocs, d.handle[r]),
                 !.lastFence[r] = d.fence,
                 !.index[r] = Len(d.allocs) + 1]
  ELSE d

IsResourceUsed(d, r) == d.lastFence[r] = d.fence

(* SetPatchLocation for a command that refers to r: the index in the       *)
(* allocation list that UseResource returned for it, and the allocation    *)
(* that the command means.                                                 *)
PatchLocation(d, r) == [index |-> d.index[r], resource |-> r, means |-> d.handle[r]]

------------------------------------------------------------------------------
(* RosUmdDevice.                                                           *)

(* Mutant: the resources are listed before the space is reserved. *)
CopyResourceUseFirst(d, dst, src) ==
  LET used == UseResource(UseResource(d, dst), src)
      patches == <<PatchLocation(used, dst), PatchLocation(used, src)>>
      room == Reserve(used, TRUE, CopySize, 2, 2)
  IN IF Aborted(room) THEN room ELSE Commit(room, "copy", CopySize, patches)

CopyResource(d, dst, src) ==
  LET room == Reserve(d, TRUE, CopySize, 2, 2)
      used == UseResource(UseResource(room, dst), src)
  IN IF Aborted(room) THEN room
     ELSE Commit(used, "copy", CopySize, <<PatchLocation(used, dst), PatchLocation(used, src)>>)

(* The commands that set up a draw, with the binning commands if the       *)
(* device has not written them since the last epilogue.  The resource read *)
(* stands for shader code, vertex buffers and textures alike.              *)
RefreshPipelineState(d, read, size) ==
  LET room == Reserve(d, FALSE, MaxStateCommands, MaxAllocationsUsed, MaxPatchLocations)
      listed == UseResource(room, dummyBuffer)
      begun == IF listed.binning THEN listed ELSE UseResource(listed, d.target)
      used == UseResource(begun, read)
      patches == (IF listed.binning THEN <<>> ELSE <<PatchLocation(used, d.target)>>)
                   \o <<PatchLocation(used, dummyBuffer), PatchLocation(used, read)>>
  IN IF Aborted(room) THEN room
     ELSE [Commit(used, "state", size, patches) EXCEPT !.binning = TRUE]

CommitDraw(d, patches) ==
  [Commit(d, "draw", DrawSize, patches) EXCEPT !.draws = TRUE,
                                               !.targets = d.targets \cup {d.target}]

(* Mutant: the device flag is set before the space is reserved. *)
DrawMarkedEarly(d, read, size) ==
  LET ready == RefreshPipelineState(d, read, size)
      room == Reserve([ready EXCEPT !.draws = TRUE], FALSE, DrawSize, 0, 0)
  IN IF Aborted(ready) THEN ready
     ELSE IF Aborted(room) THEN room
     ELSE [Commit(room, "draw", DrawSize, <<Unwritten>>)
             EXCEPT !.targets = room.targets \cup {room.target}]

(* The draw that follows the state in Draw reserves no patch location but  *)
(* commits one; DrawIndexed reserves one for its index buffer.             *)
Draw(d, read, size) ==
  LET ready == RefreshPipelineState(d, read, size)
      room == Reserve(ready, FALSE, DrawSize, 0, 0)
  IN IF Aborted(ready) THEN ready
     ELSE IF Aborted(room) THEN room
     ELSE CommitDraw(room, <<Unwritten>>)

DrawIndexed(d, read, size, indexBuffer) ==
  LET ready == RefreshPipelineState(d, read, size)
      room == Reserve(ready, FALSE, DrawSize, 1, 1)
      used == UseResource(room, indexBuffer)
  IN IF Aborted(ready) THEN ready
     ELSE IF Aborted(room) THEN room
     ELSE CommitDraw(used, <<PatchLocation(used, indexBuffer)>>)

(* ClearRenderTargetView and ClearDepthStencilView put the clear into the  *)
(* header, for the kernel driver to issue before the batch's draws.        *)
Clear(d) ==
  LET before == IF d.draws THEN Flush(d) ELSE d
  IN IF Aborted(before) THEN before
     ELSE [before EXCEPT !.clear = TRUE, !.clearedAt = Len(before.commands)]

(* Mutant: only an unfinished binning list is flushed. *)
SetRenderTargetsUnbound(d, target) ==
  LET before == IF d.binning /\ ~d.draws THEN Flush(d) ELSE d
  IN IF Aborted(before) THEN before ELSE [before EXCEPT !.target = target]

(* SetRenderTargets flushes the draws to the previous target. *)
SetRenderTargets(d, target) ==
  LET before == IF d.draws THEN Flush(d) ELSE d
  IN IF Aborted(before) THEN before ELSE [before EXCEPT !.target = target]

(* ResourceCopy by the CPU: both resources are locked after the flushes.   *)
CopyByCpu(d, dst, src) ==
  LET first == FlushIfMatching(d, d.lastFence[dst])
  IN IF Aborted(first) THEN first ELSE FlushIfMatching(first, first.lastFence[src])

(* RosUmdResource::Map, of a resource other than a constant buffer.  A     *)
(* discarding lock renames it to the allocation new.                       *)
Map(d, r, new) ==
  LET flushed == FlushIfMatching(d, d.lastFence[r])
      renamed == [flushed EXCEPT !.handle[r] = new]
  IN IF Aborted(flushed) \/ new = flushed.handle[r] THEN flushed
     ELSE IF IsResourceUsed(renamed, r)
     THEN [renamed EXCEPT !.lastFence[r] = renamed.lastFence[r] - 1]
     ELSE renamed

(* RotateResourceIdentities of the two buffers of the swap chain: their    *)
(* handles, and nothing else.                                              *)
Rotate(d, r, q) ==
  [d EXCEPT !.handle[r] = d.handle[q], !.handle[q] = d.handle[r]]

------------------------------------------------------------------------------
(* A call of the driver that makes n successful calls of pfnRenderCb and   *)
(* throws if it makes one more.  A call that never returns is the last.    *)
Called(n) == [dev EXCEPT !.outcome = "returns", !.renders = n, !.sent = <<>>]
Returns(d) == d.renders = 0 /\ dev' = d
MayCall == dev.outcome # "recurses" /\ dev.fence < MaxFence

(* pfnLockCb may fail, with WASSTILLDRAWING say, after the flush: it throws. *)
LockFails(d) == IF Aborted(d) THEN d ELSE [d EXCEPT !.outcome = "throws"]

(* The runtime lets no command use a resource that is mapped. *)
Usable == Resources \ (mapped \cup {dummyBuffer})
Default == Resources \ (Dynamic \cup {dummyBuffer})
Spare == Allocations \ {dev.handle[r] : r \in Resources}

ResourceCopy(n) ==
  \E dst, src \in Usable :
    /\ dst # src
    /\ LET copied == CopyByCpu(Called(n), dst, src)
       IN IF {dst, src} \subseteq Default THEN Returns(CopyResource(Called(n), dst, src))
                                         ELSE Returns(copied) \/ Returns(LockFails(copied))
    /\ UNCHANGED mapped

DrawVertices(n) ==
  \E read \in Usable \ {dev.target}, size \in StateSizes :
    /\ dev.target # NoTarget
    /\ Returns(Draw(Called(n), read, size))
    /\ UNCHANGED mapped

DrawIndices(n) ==
  \E read \in Usable \ {dev.target}, indexBuffer \in Usable \ SwapChain, size \in StateSizes :
    /\ dev.target \notin {NoTarget, indexBuffer}
    /\ Returns(DrawIndexed(Called(n), read, size, indexBuffer))
    /\ UNCHANGED mapped

ClearView(n) == Returns(Clear(Called(n))) /\ UNCHANGED mapped

ChangeTarget(n) ==
  \E target \in Default :
    Returns(SetRenderTargets(Called(n), target)) /\ UNCHANGED mapped

DdiFlush(n) == Returns(Flush(Called(n))) /\ UNCHANGED mapped

MapResource(n) ==
  \E r \in Dynamic \ mapped : \E new \in Spare \cup {dev.handle[r]} :
    /\ Returns(Map(Called(n), r, new))
    /\ mapped' = IF dev'.outcome = "returns" THEN mapped \cup {r} ELSE mapped

Unmap(n) == \E r \in mapped : mapped' = mapped \ {r} /\ Returns(Called(n))

RotateResourceIdentities(n) ==
  \E r, q \in SwapChain :
    r # q /\ Returns(Rotate(Called(n), r, q)) /\ UNCHANGED mapped

MapFails(n) ==
  \E r \in Dynamic \ mapped :
    /\ Returns(LockFails(FlushIfMatching(Called(n), dev.lastFence[r])))
    /\ UNCHANGED mapped

(* The last call does not return, or no fence is left. *)
Over == ~MayCall /\ UNCHANGED vars

Next ==
  \/ MayCall /\ \E n \in 0..MaxRenders :
       \/ ResourceCopy(n) \/ DrawVertices(n) \/ DrawIndices(n)
       \/ ClearView(n) \/ ChangeTarget(n) \/ DdiFlush(n)
       \/ MapResource(n) \/ MapFails(n) \/ Unmap(n) \/ RotateResourceIdentities(n)
  \/ Over

Spec == Init /\ [][Next]_vars

------------------------------------------------------------------------------
(* Properties.                                                             *)

PatchType == [index : Nat, resource : Resources, means : Allocations] \cup {Unwritten}
BatchType == [commands : Seq(Kinds), allocs : Seq(Allocations), patches : Seq(PatchType),
              sw : BOOLEAN, clear : BOOLEAN, clearedAt : Nat, targets : SUBSET Resources]

(* Every variable has its type. *)
TypeOK ==
  /\ dev \in [pos : Nat, commands : Seq(Kinds), allocs : Seq(Allocations),
              patches : Seq(PatchType), fence : Nat, sw : BOOLEAN,
              clear : BOOLEAN, clearedAt : Nat,
              binning : BOOLEAN, draws : BOOLEAN,
              target : Resources \cup {NoTarget}, targets : SUBSET Resources,
              lastFence : [Resources -> Nat], index : [Resources -> Nat],
              handle : [Resources -> Allocations],
              outcome : Outcomes, renders : Nat, sent : Seq(BatchType)]
  /\ mapped \subseteq Dynamic

(* No list is ever overrun: whatever the commands, and wherever a flush     *)
(* comes, the thresholds stay free, as ReserveCommandBufferSpace grants     *)
(* them, in full but for one entry of the patch location list, which Draw  *)
(* commits without having reserved it.  The assertions made after each     *)
(* commit ask for more: CommitAssertions.  (CommitCommandBufferSpace,      *)
(* UseResource.)                                                           *)
ListsNotOverrun ==
  /\ dev.pos + CommandThreshold <= CommandBufferSize
  /\ Len(dev.allocs) + AllocationThreshold <= AllocationListSize
  /\ Len(dev.patches) + PatchThreshold <= PatchLocationListSize + 1

(* The batches that can still be seen: the current one and those that the  *)
(* last call submitted.                                                    *)
Batches == {Batch(dev)} \cup {dev.sent[i] : i \in 1..Len(dev.sent)}

(* What a command means is what the kernel driver patches into it: every   *)
(* patch location written for a batch leads, through the allocation list   *)
(* of the same batch, to the allocation the resource had when the command  *)
(* was written; and a resource used in the current batch is in its list    *)
(* where the resource says, for the patches still to come.  A swap chain   *)
(* buffer may change its handle by a rotation.  (UseResource caches an     *)
(* index for each resource, across the flushes that Reserve makes in the   *)
(* middle of a call.)                                                      *)
PatchesResolve ==
  /\ \A batch \in Batches : \A i \in 1..Len(batch.patches) :
       LET p == batch.patches[i]
       IN p # Unwritten => /\ p.index \in 1..Len(batch.allocs)
                           /\ p.resource \notin SwapChain => batch.allocs[p.index] = p.means
  /\ \A r \in Resources : IsResourceUsed(dev, r) =>
       /\ dev.index[r] \in 1..Len(dev.allocs)
       /\ r \notin SwapChain => dev.allocs[dev.index[r]] = dev.handle[r]

(* A submission of the batch has failed after its epilogue was written,    *)
(* and the batch was then continued.                                       *)
Resumed(commands) == \E i \in 1..Len(commands) : commands[i] = "epilog"
ResumedWhenSent(commands) == Resumed(SubSeq(commands, 1, Len(commands) - 1))

(* The commands of a batch draw to one render target, as a tile based      *)
(* renderer needs, unless the batch was resumed.  (SetRenderTargets, which *)
(* relies on m_hasDrawCall.)                                               *)
OneTarget ==
  /\ \A t, u \in dev.targets : t = u \/ Resumed(dev.commands)
  /\ \A i \in 1..Len(dev.sent) : \A t, u \in dev.sent[i].targets :
       t = u \/ ResumedWhenSent(dev.sent[i].commands)

(* "KMD issumes Clear Colors command before Draw call": the clear that a   *)
(* batch carries was asked for before any draw of it, unless it was        *)
(* resumed.  (ClearRenderTargetView, ClearDepthStencilView.)               *)
ClearIsFirst(batch) ==
  batch.clear => \A i \in 1..batch.clearedAt : batch.commands[i] # "draw"
ClearPrecedesDraws ==
  /\ ClearIsFirst(Batch(dev)) \/ Resumed(dev.commands)
  /\ \A i \in 1..Len(dev.sent) :
       ClearIsFirst(dev.sent[i]) \/ ResumedWhenSent(dev.sent[i].commands)

(* While the CPU has a resource mapped no command that waits to be         *)
(* submitted refers to its allocation.  (FlushIfMatching in Map.)          *)
MappedIsNotQueued ==
  \A r \in mapped : \A i \in 1..Len(dev.allocs) : dev.allocs[i] # dev.handle[r]

IsPrefixOf(s, u) == Len(s) <= Len(u) /\ \A i \in 1..Len(s) : s[i] = u[i]

(* No command is lost or submitted twice: what a call finds in the batch   *)
(* is still there after it or is the beginning of the first batch that the *)
(* call submitted, and a batch that could not be submitted stays.          *)
NothingLost ==
  [][LET left == IF Len(dev'.sent) = 0 THEN dev' ELSE dev'.sent[1]
     IN IsPrefixOf(dev.commands, left.commands)]_vars

------------------------------------------------------------------------------
(* What the comments and assertions of the code claim and it does not keep. *)

(* The assertions of CommitCommandBufferSpace and UseResource: more than   *)
(* the threshold is free in each list, where the reservation is content    *)
(* with the threshold.                                                     *)
CommitAssertions ==
  /\ dev.pos + CommandThreshold < CommandBufferSize
  /\ Len(dev.allocs) + AllocationThreshold < AllocationListSize
  /\ Len(dev.patches) + PatchThreshold < PatchLocationListSize

(* ReserveCommandBufferSpace, "Command buffer contains either SW or HW     *)
(* commands": a batch marked SW holds copies only, one marked HW none.     *)
OneKindOfCommands ==
  \A batch \in Batches : \A i \in 1..Len(batch.commands) :
    batch.sw <=> batch.commands[i] = "copy"

(* ClearRenderTargetView, "Set clear color into command buffer header for  *)
(* KMD to generate Rendering Control List", which it generates for HW      *)
(* batches only: no submitted SW batch carries a clear.                    *)
ClearsReachHardware ==
  \A i \in 1..Len(dev.sent) : dev.sent[i].clear => ~dev.sent[i].sw

(* "Commit the reserved command buffer space and patch location list":     *)
(* every patch location submitted was written for this batch.              *)
PatchLocationsWereWritten ==
  \A i \in 1..Len(dev.sent) : \A j \in 1..Len(dev.sent[i].patches) :
    dev.sent[i].patches[j] # Unwritten
==============================================================================
