---------------------------- MODULE RosKmdDmaBuf ----------------------------
(***************************************************************************)
(* The preparation of DMA buffers by roskmd (RosKmdContext.cpp,            *)
(* RosKmdAdapter.cpp): Render validates a command buffer and patches it in *)
(* advance, Patch patches it again when the memory manager has moved an    *)
(* allocation, SubmitCommand completes it with the address of the buffer   *)
(* itself, BuildPagingBuffer writes the transfers that move allocations,   *)
(* and the worker thread executes it all in the order of submission.       *)
(*                                                                         *)
(* Between Render and the execution of a buffer the memory manager evicts  *)
(* and pages in allocations and maps DMA buffers into the aperture, and it *)
(* gives the driver the same DMA buffers and private data again for other  *)
(* commands.  What the buffers refer to has to stay right throughout.      *)
(*                                                                         *)
(* The execution of one buffer is a single step here; RosKmdRapRender has  *)
(* the steps of it.                                                        *)
(***************************************************************************)
EXTENDS Naturals, Sequences, SequencesExt, FiniteSets, FiniteSetsExt

CONSTANTS
  Allocations,
  Places,              \* addresses in the video memory segment
  RenderBuffers,       \* DMA buffers of contexts, a page each
  PagingBuffers,       \* DMA buffers for paging
  ApertureOffsets,     \* pages of the aperture segment
  Commands,            \* command buffers the user mode driver may send
  None,
  MaxSelfRef,          \* VC4_MAX_DMA_BUFFER_SELF_REF
  PagingCapacity       \* ROSD_PAGING_BUFFER_SIZE, in operations

Buffers == RenderBuffers \cup PagingBuffers
Submissions == [buf : Buffers, failed : BOOLEAN]

(* A command buffer is its header (software or hardware commands, clear    *)
(* colors or none) and its patch locations, each with an allocation and a  *)
(* slot: "rt", "tileAlloc", "tileState", "self" (the DMA buffer itself) or *)
(* "default".                                                              *)
UniqueSlots == {"rt", "tileAlloc", "tileState"}
Slots == UniqueSlots \cup {"self", "default"}
PatchLocations == [alloc : Allocations, slot : Slots]
CommandBuffers ==
  [header : BOOLEAN, sw : BOOLEAN, clears : BOOLEAN, patches : Seq(PatchLocations)]

ASSUME ConstantsAssumption ==
  /\ RenderBuffers \cap PagingBuffers = {}
  /\ None \notin Allocations \cup Places \cup Buffers \cup ApertureOffsets \cup Submissions
  /\ Commands \subseteq CommandBuffers
  /\ MaxSelfRef \in Nat /\ PagingCapacity \in Nat \ {0}

VARIABLES
  \* the driver
  m_DmaBufInfo,        \* the private data of each DMA buffer
  content,             \* its patched fields, or its paging operations
  m_aperturePageTable,
  m_dmaBufQueue,       \* submissions: a buffer and its end offset
  running,             \* the submission the worker executes
  \* the memory
  memory,              \* whose data a place holds
  backing,             \* allocations whose data is in system memory
  \* dxgkrnl
  place,               \* where VidMm has, or is about to have, an allocation
  dma,                 \* what it does with a DMA buffer
  known                \* the places a buffer has been patched with

driverVars == <<m_DmaBufInfo, content, m_aperturePageTable, m_dmaBufQueue, running>>
memoryVars == <<memory, backing>>
dxgkrnlVars == <<place, dma, known>>
vars == <<driverVars, memoryVars, dxgkrnlVars>>

FreshInfo ==
  [m_bPaging |-> FALSE, m_bSwCommandBuffer |-> FALSE, m_HasVC4ClearColors |-> FALSE,
   refs |-> {}, selfRefs |-> {}, m_pRenderTarget |-> None,
   m_RenderTargetPhysicalAddress |-> None, m_DmaBufferPhysicalAddress |-> None]

Init ==
  /\ m_DmaBufInfo = [d \in Buffers |-> FreshInfo]
  /\ content = [d \in Buffers |-> << >>]
  /\ m_aperturePageTable = [o \in ApertureOffsets |-> None]
  /\ m_dmaBufQueue = << >>
  /\ running = None
  /\ memory = [p \in Places |-> None]
  /\ backing = Allocations
  /\ place = [a \in Allocations |-> None]
  /\ dma = [d \in Buffers |-> [state |-> "free", cmd |-> None]]
  /\ known = [d \in RenderBuffers |-> << >>]

-----------------------------------------------------------------------------
(* Rendering. *)

Referenced(cmd) == {cmd.patches[i].alloc : i \in DOMAIN cmd.patches}
InSlot(cmd, n, s) == {i \in 1 .. n : cmd.patches[i].slot = s}

(* Whether ValidateDmaBuffer gets past the first n references: at most one *)
(* of each unique slot and not too many self references.                   *)
Acceptable(cmd, n) ==
  /\ \A s \in UniqueSlots : Cardinality(InSlot(cmd, n, s)) <= 1
  /\ Cardinality(InSlot(cmd, n, "self")) <= MaxSelfRef

(* How many references it looks at, of hardware commands only. *)
Accepted(cmd) ==
  IF cmd.sw THEN 0 ELSE Max({n \in 0 .. Len(cmd.patches) : Acceptable(cmd, n)})

(* The header has the right identifier, all references are accepted and    *)
(* the unique slots are all there.                                         *)
ValidateDmaBuffer(cmd) ==
  /\ cmd.header
  /\ ~cmd.sw => /\ Accepted(cmd) = Len(cmd.patches)
                /\ \A s \in UniqueSlots : InSlot(cmd, Len(cmd.patches), s) # {}

(* What DdiRender and ValidateDmaBuffer leave in the private data, each    *)
(* starting from the state before; the render target's address stays.      *)
RenderInfoKeepingState(info, cmd) ==                                  \* mutant
  LET n == Accepted(cmd) IN
  [info EXCEPT !.m_bSwCommandBuffer = cmd.sw,
               !.m_HasVC4ClearColors = @ \/ (cmd.clears /\ ValidateDmaBuffer(cmd)),
               !.refs = {s \in UniqueSlots : InSlot(cmd, n, s) # {}},
               !.selfRefs = InSlot(cmd, n, "self"),
               !.m_pRenderTarget = IF InSlot(cmd, n, "rt") = {} THEN None
                                   ELSE cmd.patches[Min(InSlot(cmd, n, "rt"))].alloc,
               !.m_DmaBufferPhysicalAddress = None]

RenderInfo(info, cmd) ==
  LET n == Accepted(cmd) IN
  [m_bPaging |-> FALSE,
   m_bSwCommandBuffer |-> cmd.sw,
   m_HasVC4ClearColors |-> cmd.clears /\ ValidateDmaBuffer(cmd),
   refs |-> {s \in UniqueSlots : InSlot(cmd, n, s) # {}},
   selfRefs |-> InSlot(cmd, n, "self"),
   m_pRenderTarget |-> IF InSlot(cmd, n, "rt") = {} THEN None
                       ELSE cmd.patches[Min(InSlot(cmd, n, "rt"))].alloc,
   m_RenderTargetPhysicalAddress |-> info.m_RenderTargetPhysicalAddress,
   m_DmaBufferPhysicalAddress |-> None]

(* PatchDmaBuffer: every reference to an allocation that has a place.  The *)
(* render target's address goes into the private data, the tile memory is  *)
(* the adapter's, self references are left to SubmitCommand.               *)
PatchedField(cmd, i, old) ==
  LET p == cmd.patches[i] IN
  IF place[p.alloc] = None THEN old
  ELSE IF cmd.sw \/ p.slot = "default" THEN place[p.alloc]
  ELSE IF p.slot \in {"tileAlloc", "tileState"} THEN p.slot
  ELSE old

RenderTargetOfFirstPatch(cmd, info) ==                                \* mutant
  LET rt == info.m_pRenderTarget IN
  IF rt = None \/ place[rt] = None \/ info.m_RenderTargetPhysicalAddress # None
    THEN info.m_RenderTargetPhysicalAddress ELSE place[rt]

RenderTargetPatched(cmd, info) ==
  LET rt == info.m_pRenderTarget IN
  IF rt = None \/ place[rt] = None THEN info.m_RenderTargetPhysicalAddress ELSE place[rt]

PatchDmaBuffer(d, cmd, info, fields) ==
  /\ content' = [content EXCEPT ![d] = [i \in DOMAIN cmd.patches |-> PatchedField(cmd, i, fields[i])]]
  /\ m_DmaBufInfo' = [m_DmaBufInfo EXCEPT ![d] =
       [info EXCEPT !.m_RenderTargetPhysicalAddress = RenderTargetPatched(cmd, info)]]

Known(cmd) == [a \in Referenced(cmd) |-> place[a]]

(* DdiRender of a command buffer that is valid... *)
Render(d, cmd) ==
  /\ dma[d].state = "free"
  /\ ValidateDmaBuffer(cmd)
  /\ PatchDmaBuffer(d, cmd, RenderInfo(m_DmaBufInfo[d], cmd), [i \in DOMAIN cmd.patches |-> None])
  /\ dma' = [dma EXCEPT ![d] = [state |-> "rendered", cmd |-> cmd]]
  /\ known' = [known EXCEPT ![d] = Known(cmd)]
  /\ UNCHANGED <<m_aperturePageTable, m_dmaBufQueue, running, place, memoryVars>>

(* ... and of one that is not: dxgkrnl drops the copy.                     *)
RenderRejected(d, cmd) ==
  /\ dma[d].state = "free"
  /\ ~ValidateDmaBuffer(cmd)
  /\ m_DmaBufInfo' =
       IF cmd.header THEN [m_DmaBufInfo EXCEPT ![d] = RenderInfo(@, cmd)] ELSE m_DmaBufInfo
  /\ UNCHANGED <<content, m_aperturePageTable, m_dmaBufQueue, running, memoryVars, dxgkrnlVars>>

Aperture(d) == {o \in ApertureOffsets : m_aperturePageTable[o] = d}

(* Patch, called when a place the buffer was patched with is out of date. *)
Patch(d) ==
  LET cmd == dma[d].cmd IN
  /\ dma[d].state = "rendered"
  /\ known[d] # Known(cmd)
  /\ \A a \in Referenced(cmd) : place[a] # None
  /\ \E o \in Aperture(d) :
       PatchDmaBuffer(d, cmd, [m_DmaBufInfo[d] EXCEPT !.m_DmaBufferPhysicalAddress = o], content[d])
  /\ known' = [known EXCEPT ![d] = Known(cmd)]
  /\ UNCHANGED <<m_aperturePageTable, m_dmaBufQueue, running, memoryVars, place, dma>>

-----------------------------------------------------------------------------
(* Submission. *)

(* GetAperturePhysicalAddress: the page behind an offset; an address       *)
(* outside the segment leads outside the table.                            *)
GetAperturePhysicalAddress(o) ==
  IF o \in ApertureOffsets THEN m_aperturePageTable[o] ELSE None

PatchSelfAtRecordedAddress(d, o) ==                                   \* mutant
  LET recorded == m_DmaBufInfo[d].m_DmaBufferPhysicalAddress
  IN  [i \in DOMAIN content[d] |->
         IF i \in m_DmaBufInfo[d].selfRefs
           THEN GetAperturePhysicalAddress(recorded) ELSE content[d][i]]

(* The self references, by the copy of them in the private data. *)
PatchSelfReferences(d, o) ==
  [i \in DOMAIN content[d] |->
     IF i \in m_DmaBufInfo[d].selfRefs
       THEN GetAperturePhysicalAddress(o) ELSE content[d][i]]

QueueDmaBuffer(submission) ==
  m_dmaBufQueue' = Append(m_dmaBufQueue, submission)

PagingPending == {d \in PagingBuffers : dma[d].state = "building" /\ content[d] # << >>}

(* SubmitCommand for a buffer that is prepared: its allocations are in     *)
(* place, or will be once the paging buffers ahead of it are executed.     *)
SubmitRender(d) ==
  LET cmd == dma[d].cmd IN
  /\ dma[d].state = "rendered"
  /\ known[d] = Known(cmd)
  /\ \A a \in Referenced(cmd) : place[a] # None
  /\ PagingPending = {}
  /\ \E o \in Aperture(d) :
       /\ m_DmaBufInfo' = [m_DmaBufInfo EXCEPT ![d].m_DmaBufferPhysicalAddress = o]
       /\ content' = [content EXCEPT ![d] = PatchSelfReferences(d, o)]
  /\ QueueDmaBuffer([buf |-> d, failed |-> FALSE])
  /\ dma' = [dma EXCEPT ![d].state = "submitted"]
  /\ UNCHANGED <<m_aperturePageTable, running, memoryVars, place, known>>

(* SubmitCommand for a buffer that could not be prepared: an allocation    *)
(* has no place, and neither has the buffer.  Address and offsets are      *)
(* zero.  The error is recorded, and the buffer is queued like the others. *)
SubmitFailed(d) ==
  /\ dma[d].state = "rendered"
  /\ Aperture(d) = {}
  /\ \E a \in Referenced(dma[d].cmd) : place[a] = None
  /\ m_DmaBufInfo' = [m_DmaBufInfo EXCEPT ![d].m_DmaBufferPhysicalAddress = None]
  /\ content' = [content EXCEPT ![d] = PatchSelfReferences(d, None)]
  /\ QueueDmaBuffer([buf |-> d, failed |-> TRUE])
  /\ dma' = [dma EXCEPT ![d].state = "submitted"]
  /\ UNCHANGED <<m_aperturePageTable, running, memoryVars, place, known>>

SubmitPaging(d) ==
  /\ d \in PagingPending
  /\ QueueDmaBuffer([buf |-> d, failed |-> FALSE])
  /\ dma' = [dma EXCEPT ![d].state = "submitted"]
  /\ UNCHANGED <<m_DmaBufInfo, content, m_aperturePageTable, running, memoryVars, place, known>>

-----------------------------------------------------------------------------
(* Paging. *)

InsufficientUnnoticed(ops) == TRUE                                    \* mutant

(* The test of FILL and TRANSFER: otherwise they return                    *)
(* STATUS_GRAPHICS_INSUFFICIENT_DMA_BUFFER and nothing has happened.       *)
RoomForOperation(ops) == Len(ops) < PagingCapacity

(* BuildPagingBuffer of FILL and TRANSFER.  The private data is written    *)
(* with the first operation of a buffer.                                   *)
BuildPagingBuffer(d, op) ==
  /\ dma[d].state \in {"free", "building"}
  /\ \A e \in PagingBuffers : dma[e].state = "building" => e = d
  /\ RoomForOperation(content[d])
  /\ content' = [content EXCEPT ![d] = IF Len(@) < PagingCapacity THEN Append(@, op) ELSE @]
  /\ m_DmaBufInfo' = IF content[d] = << >>
                       THEN [m_DmaBufInfo EXCEPT ![d] = [FreshInfo EXCEPT !.m_bPaging = TRUE]]
                       ELSE m_DmaBufInfo
  /\ dma' = [dma EXCEPT ![d].state = "building"]

(* VidMm fetches an allocation, by a TRANSFER from system memory or, a new *)
(* one, by a FILL, ...                                                     *)
PageIn(d, a, p) ==
  /\ place[a] = None
  /\ \A b \in Allocations : place[b] # p
  /\ BuildPagingBuffer(d, [op |-> "in", alloc |-> a, place |-> p])
  /\ place' = [place EXCEPT ![a] = p]
  /\ UNCHANGED <<m_aperturePageTable, m_dmaBufQueue, running, memoryVars, known>>

(* ... evicts one, after everything submitted so far, ... *)
Evict(d, a) ==
  /\ place[a] # None
  /\ BuildPagingBuffer(d, [op |-> "out", alloc |-> a, place |-> place[a]])
  /\ place' = [place EXCEPT ![a] = None]
  /\ UNCHANGED <<m_aperturePageTable, m_dmaBufQueue, running, memoryVars, known>>

(* ... and maps DMA buffers into the aperture, at once, when their         *)
(* allocations have places.  A buffer that is submitted stays where it is. *)
MapApertureSegment(d, o) ==
  /\ dma[d].state = "rendered"
  /\ \A a \in Referenced(dma[d].cmd) : place[a] # None
  /\ Aperture(d) = {} /\ m_aperturePageTable[o] = None
  /\ m_aperturePageTable' = [m_aperturePageTable EXCEPT ![o] = d]
  /\ UNCHANGED <<m_DmaBufInfo, content, m_dmaBufQueue, running, memoryVars, dxgkrnlVars>>

UnmapApertureSegment(d) ==
  /\ dma[d].state # "submitted"
  /\ \E o \in Aperture(d) : m_aperturePageTable' = [m_aperturePageTable EXCEPT ![o] = None]
  /\ UNCHANGED <<m_DmaBufInfo, content, m_dmaBufQueue, running, memoryVars, dxgkrnlVars>>

-----------------------------------------------------------------------------
(* Execution. *)

(* DoWork takes the next submission. *)
DequeueDmaBuffer ==
  /\ running = None
  /\ m_dmaBufQueue # << >>
  /\ running' = Head(m_dmaBufQueue)
  /\ m_dmaBufQueue' = Tail(m_dmaBufQueue)
  /\ UNCHANGED <<m_DmaBufInfo, content, m_aperturePageTable, memoryVars, dxgkrnlVars>>

(* One operation of ProcessPagingBuffer.  Data that is brought in may be   *)
(* changed there, so the copy in system memory is void; the place that it  *)
(* leaves is up for reuse.                                                 *)
Perform(m, op) ==
  IF op.op = "in"
    THEN [memory |-> [m.memory EXCEPT ![op.place] = op.alloc], backing |-> m.backing \ {op.alloc}]
    ELSE [memory |-> [m.memory EXCEPT ![op.place] = None],
          backing |-> IF m.memory[op.place] = op.alloc THEN m.backing \cup {op.alloc} ELSE m.backing]

(* NotifyDmaBufCompletion: the buffer is dxgkrnl's again, for other uses.  *)
NotifyDmaBufCompletion(d) ==
  /\ dma' = [dma EXCEPT ![d] = [state |-> "free", cmd |-> None]]
  /\ content' = [content EXCEPT ![d] = << >>]
  /\ known' = IF d \in RenderBuffers THEN [known EXCEPT ![d] = << >>] ELSE known

ProcessPagingBuffer ==
  /\ running # None
  /\ m_DmaBufInfo[running.buf].m_bPaging
  /\ LET m == FoldLeft(Perform, [memory |-> memory, backing |-> backing], content[running.buf]) IN
     memory' = m.memory /\ backing' = m.backing
  /\ NotifyDmaBufCompletion(running.buf)
  /\ running' = None
  /\ UNCHANGED <<m_DmaBufInfo, m_aperturePageTable, m_dmaBufQueue, place>>

(* What the buffer does to the data of its allocations leaves them theirs. *)
ProcessRenderBuffer ==
  /\ running # None
  /\ ~m_DmaBufInfo[running.buf].m_bPaging
  /\ NotifyDmaBufCompletion(running.buf)
  /\ running' = None
  /\ UNCHANGED <<m_DmaBufInfo, m_aperturePageTable, m_dmaBufQueue, memoryVars, place>>

Next ==
  \/ \E d \in RenderBuffers, cmd \in Commands : Render(d, cmd) \/ RenderRejected(d, cmd)
  \/ \E d \in RenderBuffers : Patch(d) \/ SubmitRender(d) \/ SubmitFailed(d) \/ UnmapApertureSegment(d)
  \/ \E d \in RenderBuffers, o \in ApertureOffsets : MapApertureSegment(d, o)
  \/ \E d \in PagingBuffers : SubmitPaging(d)
  \/ \E d \in PagingBuffers, a \in Allocations : Evict(d, a) \/ \E p \in Places : PageIn(d, a, p)
  \/ DequeueDmaBuffer \/ ProcessPagingBuffer \/ ProcessRenderBuffer

Spec == Init /\ [][Next]_vars

-----------------------------------------------------------------------------
(* Properties. *)

(* The variables range over what their names say; the worker and the queue *)
(* hold each buffer once, those dxgkrnl has submitted and no others.       *)
TypeOK ==
  /\ \A d \in Buffers :
       /\ dma[d].state \in {"free", "rendered", "building", "submitted"}
       /\ m_DmaBufInfo[d].m_RenderTargetPhysicalAddress \in Places \cup {None}
       /\ m_DmaBufInfo[d].m_DmaBufferPhysicalAddress \in ApertureOffsets \cup {None}
  /\ memory \in [Places -> Allocations \cup {None}]
  /\ backing \subseteq Allocations
  /\ place \in [Allocations -> Places \cup {None}]
  /\ m_aperturePageTable \in [ApertureOffsets -> RenderBuffers \cup {None}]
  /\ LET held == IF running = None THEN m_dmaBufQueue ELSE <<running>> \o m_dmaBufQueue IN
     /\ \A i, j \in DOMAIN held : held[i].buf = held[j].buf => i = j
     /\ {held[i].buf : i \in DOMAIN held} = {d \in Buffers : dma[d].state = "submitted"}

(* A render buffer that was prepared is executed. *)
Executing == running # None /\ running.buf \in RenderBuffers /\ ~running.failed

(* When a render buffer is executed, every address in it leads to the data *)
(* of the allocation it was rendered with, and the render target's address *)
(* in the private data does: whatever was evicted, moved and patched since *)
(* Render, and whatever paging is still to come.                           *)
ExecutesOnOwnData ==
  Executing =>
    LET d == running.buf  cmd == dma[d].cmd IN
    /\ \A i \in DOMAIN cmd.patches :
         cmd.sw \/ cmd.patches[i].slot = "default"
           => content[d][i] \in Places /\ memory[content[d][i]] = cmd.patches[i].alloc
    /\ ~cmd.sw =>
         /\ m_DmaBufInfo[d].m_RenderTargetPhysicalAddress \in Places
         /\ \A i \in DOMAIN cmd.patches :
              cmd.patches[i].slot = "rt" =>
                memory[m_DmaBufInfo[d].m_RenderTargetPhysicalAddress] = cmd.patches[i].alloc

(* Its references to itself lead to its own page of the aperture, where it *)
(* is at this time; no buffer's, even a rejected one's, overrun the array  *)
(* that the private data has for them.                                     *)
SelfReferencesAreOwn ==
  /\ \A d \in Buffers : Cardinality(m_DmaBufInfo[d].selfRefs) <= MaxSelfRef
  /\ Executing =>
       LET d == running.buf  cmd == dma[d].cmd IN
       \A i \in DOMAIN cmd.patches :
         ~cmd.sw /\ cmd.patches[i].slot = "self" => content[d][i] = d /\ Aperture(d) # {}

(* The private data of a buffer that is executed says of it what its       *)
(* command buffer says, and nothing left over from an earlier use.         *)
PrivateDataIsOwn ==
  running # None =>
    LET info == m_DmaBufInfo[running.buf]  cmd == dma[running.buf].cmd IN
    /\ info.m_bPaging <=> running.buf \in PagingBuffers
    /\ running.buf \in RenderBuffers =>
         /\ info.m_bSwCommandBuffer = cmd.sw
         /\ info.m_HasVC4ClearColors = cmd.clears
         /\ info.refs = IF cmd.sw THEN {} ELSE UniqueSlots
         /\ info.selfRefs =
              {i \in DOMAIN cmd.patches : ~cmd.sw /\ cmd.patches[i].slot = "self"}

(* Paging loses no data: of each allocation there is always a copy, in     *)
(* system memory or in video memory.                                       *)
NoDataLost ==
  \A a \in Allocations : a \in backing \/ \E p \in Places : memory[p] = a

(* "Combination indicating preparation error, thus the DMA buffer should   *)
(* be discarded": a buffer that could not be prepared is not executed.     *)
FailedIsDiscarded == running # None => ~running.failed
=============================================================================
