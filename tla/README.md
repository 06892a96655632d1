# Graphics driver samples: formal models

TLA+ specifications of the two sample driver families in this repository,
the render-only sample (ROS, `src/render-only-sample`) and the compute-only
sample (COS, `src/compute-only-sample`), with TLC configurations that check
them on small instances and TLAPS proofs for the results that hold for every
instance. Paths below are relative to `src/`; `CosKmdAdapter.cpp:116` stands
for `compute-only-sample/coskmd/CosKmdAdapter.cpp`, line 116, and so on.

## 1. The system

Each sample is a user-mode driver (UMD), loaded into the application by the
Direct3D runtime, and a kernel-mode driver (KMD), loaded by Dxgkrnl.

    application -> D3D runtime -> UMD (rosumd, cosumd12)
                                   | pfnRenderCb / pfnSubmitCommandCb
                                   v
    Dxgkrnl, VidMm, VidSch  ->  KMD (roskmd, coskmd)  ->  GPU or worker thread
              ^                                              |
              +---- DxgkCbNotifyInterrupt (completed, preempted)

The UMD collects commands, the allocations they use and the places in them
where an allocation's address belongs, and hands a *batch* of the three to
the kernel. The KMD validates and patches a copy of it (a *DMA buffer*) and
queues it, under a fence number, to a worker thread, which runs it in
software or programs the VC4 GPU. VidSch, the scheduler of the operating
system, decides what is submitted, preempted and reset, and learns from the
driver's interrupts what has completed.

### Inventory

| Component | State | Operations | Interacts through | Hard behaviour | What makes it correct |
|---|---|---|---|---|---|
| coskmd scheduler (`CosKmdAdapter.cpp`) | pool of 32 submission entries, free list, queue, four events, last submitted and completed fences, preemption request, hang state | SubmitCommand, PreemptCommand, CancelCommand, ResetEngine, ResetFromTimeout, Stop, DoWork | DDI calls from VidSch, KEVENTs, one spin lock, interrupt callbacks | two threads, preemption and reset racing completion, simulated hangs | completions in order and once; exact preemption reports; nothing run after it was preempted or aborted; blocking calls return |
| coskmd preparation (`CosKmdContext.cpp`, `CosKmdAdapter.cpp`) | private data of DMA buffers, page tables | DdiRender, Patch, BuildPagingBuffer, GPU virtual addresses | DDI calls | multi-pass paging, reuse of private data | what is queued was validated and patched |
| roskmd render path (`RosKmdAdapter.cpp`, `RosKmdRapAdapter.cpp`) | same pool and queue, VC4 registers, completion event | SubmitCommand, DoWork, SubmitControlList, InterruptRoutine, DPC, Stop | DDI calls, interrupts, DPC, registers | time-outs against late interrupts, Stop against a running worker | a buffer is reported complete only when the GPU finished it |
| roskmd preparation (`RosKmdContext.cpp`, `RosKmdAdapter.cpp`) | DMA buffer, patch list | DdiRender, ValidateDmaBuffer, PatchDmaBuffer | DDI calls | failures in the middle | every command's addresses are patched once |
| adapter lifecycle (both KMDs) | worker thread, mapped registers, handles | AddDevice, Start, Stop, unload | Dxgkrnl | failure of one of many steps, a worker started early | nothing leaks, nothing is used before or after its life |
| Vc4Display (`Vc4Display.cpp`) | current source address, HVS and pixel valve registers | SetVidPnSourceAddress, InterruptRoutine, VidPn DDIs | DDI calls, vsync interrupt | flip against interrupt | the address reported at a vsync is the one displayed |
| power (`RosKmdPower.cpp`, `CosKmdPower.cpp`) | component and device states | SetPowerState, SetPowerComponentFState | power callbacks | ordering of callbacks | each transition completed once |
| kernel objects (`*KmdDevice.cpp`, allocations, contexts) | object lists | create, open, close, destroy | DDI calls | lifetimes (ruled by Dxgkrnl) | - |
| rosumd batching (`RosUmdCommandBuffer.cpp`, `RosUmdDevice.cpp`, `RosUmdResource.cpp`) | three list positions, submission fence, batch type, clear, device flags, fence, index and handle of each resource | copies, draws, clears, target changes, Map, Unmap, Flush, rotation | runtime calls, pfnRenderCb, pfnLockCb | space that runs out in the middle of a call, failing callbacks, cached indices | no list overrun, patch locations resolve, one target per batch, nothing lost |
| cosumd12 batching (`CosUmd12CommandBuffer.cpp`, `CosUmd12CommandList.cpp`, ...) | chains of command buffers, descriptor heaps, root signatures | record, close, execute, reset | runtime calls | reuse of lists and allocators | as rosumd |
| rosumd resources (`RosUmdResource.cpp`) | layout, pitch and padded size of each texture | create with initial data, copy, tile conversion | runtime calls | two descriptions of one tiled format, sizes that are no multiple of a tile | the picture survives creation and copies |
| roscompiler (`Vc4Shader.cpp`, `Vc4Emit.hpp`) | code and uniform references of a shader | translation of declarations and of each HLSL instruction, prologues, epilogues, linking | calls from rosumd; the words of the vertex, the vertex pipe memory and the stream of uniforms | read ports, a stream of uniforms, accumulators shared by operands, conventions between three programs and the driver | each QPU program computes what its shader means |
| vpucompiler, pixel formats, meta command kernels | none | drive LLVM, tables, arithmetic | calls | - | numeric |
| DDI tables, logging, ACPI | none | forwarding and I/O | calls | - | - |
| demos and tests | - | - | - | - | - |

The list of hazards, each at its line with the properties that cover it, is
in `PROJECT.json`.

## 2. Plan

In the order of importance:

1. **`CosKmdScheduler`** refining **`GpuNodeContract`**. The core of a WDDM
   kernel driver, and the part with most interleavings.
2. **`RosUmdCommandBuffer`**. Where most of the sequential state lives, and
   where a batch can be broken by a flush nobody expected.
3. **`RosKmdRapRender`**: worker, VC4 binning and rendering, interrupt, DPC,
   time-out and Stop, against the safety of `GpuNodeContract` without
   preemption and reset.
4. **`RosKmdDmaBuf`**: validation, patching, paging and execution, with
   buffers and private data used again.
5. **`RosKmdLifecycle`**: Start with its rollback, Stop and removal;
   **`Vc4Scanout`**: flips and vertical sync; **`Vc4VidPn`**: mode
   negotiation; **`CosUmdCommandList`**: D3D12 command lists.
6. The algorithms whose mistakes show as wrong pixels: **`RosUmdTexture`**, and
   **`Vc4Pipeline`**, which composes **`Vc4ShaderTranslate`** with
   **`Vc4Qpu`**.

All of these are written and checked, and the safety of items 1 to 5 and of
`RosUmdTexture` is proved (section 5). What `Vc4Pipeline` computes is checked
and not proved (section 6).

## 3. The modules

### `GpuNodeContract`

What VidSch may rely on when it drives one node of a driver: fences complete
oldest first and once; the answer to a preemption reports exactly the fence
that completed last and leaves nothing running; a reset ends with every
submitted fence dealt with and no preemption unanswered; both are answered
at some time. It names no queue, thread or event.

### `CosKmdScheduler`

Translated from `CosKmdAdapter.cpp`. Variables carry the names of the
fields, misspellings included (`dmaBufSubssions`, `lastCompletetdFenceId`).

| In the model | In the code |
|---|---|
| `SubmitCommand`, `WakeWorker` | `SubmitCommand` with `QueueDmaBuffer` under the lock, then `KeSetEvent` |
| `PreemptCommand`, `RequestReset`/`FinishReset`, `RequestStop`/`FinishStop` | the DDIs; the blocking ones are two steps around their wait |
| `WakeForQueue`, `WakeForPreemption`, `WakeForReset` | `KeWaitForMultipleObjects(WaitAny)`: lowest index first, auto-reset |
| `DequeueDmaBuffer`, `PreemptStall`, `EndStall` | the inner loop, with the emulated long-running buffer |
| `NotifyDmaBufCompletion`, `TrackCompletion`, `SkipHungCompletion` | the callback, the store of the fence after it, the early return of a hang |
| `EmptyForPreemption`, `ReportPreemption`, `NotePreemption` | `NotifyPreemptionCompletion` |
| `EmptyForReset`, `SignalReset` | the reset branch of `DoWork` |
| `Prepare` | what `DdiRender` and `BuildPagingBuffer` do to the private data |
| `VidSchCompleted`, `VidSchPreempted`, `VidSchReset` | external: VidSch's account |

A step is what runs between two points where another thread can see a
difference: an event, the spin lock, a callback. The program counter of the
worker is `workerPc`.

Environment assumptions: VidSch makes one call on the node at a time,
submits nothing while a preemption is pending or a reset runs, keeps at most
`MaxPending` fences outstanding, preempts only a busy node, cancels only
buffers that are not queued and stops a drained adapter. It numbers
submissions consecutively. The debugger may set the three trigger globals at
any time. `SubmitCommandVirtual`, the processing of a buffer's contents and
the kernel's failure of `DxgkCbSynchronizeExecution` are left out.

Properties: `PoolConserved` (no entry lost or in two places),
`FreeEntryAvailable` (the assertion of `QueueDmaBuffer`),
`InFlightIsOutstanding` (nothing runs that VidSch has given up or may
reuse), `HangPersists`, `ResetQuiesces`; `KeepsContract` (refinement of
`GpuNodeContract!Spec`), `SubmissionEnds` and `DdiReturns` (liveness).

Fairness: weak fairness of the worker thread and of the DDI thread inside a
call, because the kernel schedules both; and of VidSch's time-out while the
adapter is in the hang state, because VidSch always resets a node whose
fence does not complete in time. No fairness of new submissions or
preemptions. The stall of an emulated long-running buffer ends by its
60-second timer, which is part of the worker's fairness.

### `RosUmdCommandBuffer`

Translated from `RosUmdCommandBuffer.cpp`, `RosUmdDevice.cpp` and
`RosUmdResource.cpp`. The driver has one thread per device, so that an
action is a whole call of a device function; the calls inside it are
operators from one device record to the next (`Reserve`, `Flush`,
`UseResource`, `Commit`, ...) applied in the order of the code. A call ends
in one of three ways: it returns, it throws because `pfnRenderCb` or
`pfnLockCb` failed, or, when the epilogue does not fit, it recurses between
`Flush` and `WriteEpilog` for ever. The number of submissions that succeed is
an input of the action; `dev.sent` keeps the batches the last call submitted,
for the properties only.

Data: commands are their kind, sizes are constants in the proportions of the
code, one resource stands for all that a draw reads, and a patch location is
the pair of the index written and the allocation meant. Constant buffers,
which are copied and never listed, are left out, and so are the write flags
of the allocation list.

Environment assumptions: the runtime lets no command use a mapped resource,
draws only with a bound target, and uses no swap chain buffer as an index
buffer.

Properties: `ListsNotOverrun` (the three positions stay within the lists with
the thresholds left free, as `ReserveCommandBufferSpace` means them; the
assertions of `CommitCommandBufferSpace` are stricter by one, and are stated as
`CommitAssertions`, which the code does not keep); `PatchesResolve` (every resource a command uses
is in the allocation list, and what a command means is what the KMD patches
into it); `OneTarget`, `ClearPrecedesDraws`, `MappedIsNotQueued`, and
`NothingLost`, an action property. `OneTarget` and `ClearPrecedesDraws` except
a batch that was continued after a failed submission: its epilogue has already
reset the flags that they rest on. `PatchesResolve` excepts swap chain buffers,
whose handles `RotateResourceIdentities` swaps without a flush.

### `RosKmdRapRender`

Translated from `RosKmdRapAdapter.cpp` and the parts of `RosKmdAdapter.cpp` it
builds on. Six parties take steps: VidSch, the DDI thread, the worker, the two
control list executors of the VC4, the interrupt routine and the DPC.

| In the model | In the code |
|---|---|
| `SubmitCommand`, `WakeWorker` | `SubmitCommand` with `QueueDmaBuffer` under the lock, then `KeSetEvent` |
| `Stop`, `PowerDown`, `StopWorker`, `FinishStop` | `RosKmdRapAdapter::Stop`: interrupts off, power off and registers unmapped, then `RosKmAdapter::Stop` around its wait |
| `WakeUp`, `DequeueDmaBuffer`, `QueueDrained`, `RecycleSubmission` | `DoWork` |
| `ProcessInSoftware` | `ProcessPagingBuffer`, or the copies of a software command buffer |
| `GenerateRenderingControlList`, `SubmitBinningList`, `SubmitRenderingList`, `FlushCaches` | the hardware branch of `ProcessRenderBuffer` |
| `WaitForFrame`, `FrameTimesOut`, `PollFrame` | the end of `SubmitControlList`, by interrupt and by polling |
| `RendererInterruptRoutine`, `HwDmaBufCompletionDpcRoutine` | interrupt and DPC |
| `BinningEnds`, `RenderingStarts`, `RenderingEnds` | external: the executors, from the semaphore commands that the epilogue of a batch and the rendering list contain |

The wait for a frame ends after a time (20 seconds by interrupt, 32 times 0.64
seconds by polling: the constants are in units of 100 ns, ten times what their
comments say), and the code asserts that it does not. Without the assertion
the worker goes on, and so does the model, at any moment; `timedOut` remembers
it, for the properties only. What a list does is abstracted to which buffer's
it is: starting an executor that runs abandons what it ran.

Environment assumptions: VidSch makes one call at a time, keeps at most
`MaxPending` fences outstanding, submits nothing while it waits for the answer
to a preemption, which never comes, and stops a drained adapter. A reset, which
the driver does not implement, does not occur.

Properties: `NotifiedIsRendered` (a buffer is reported complete only when its
frame is, and the GPU is idle while the processor runs a buffer) and
`TilesAreOwn` (the semaphore pairs a rendering with its own binning), both as
long as no wait has timed out; `CompletesInOrder`, whatever times out: the
safety part of `GpuNodeContract`, and every submission ends.

Fairness: weak fairness of the worker and of the DDI thread inside a call. The
GPU, its interrupt and the DPC are not assumed to make progress: the bounded
waits are what makes every submission end.

### `RosKmdDmaBuf`

Translated from `RosKmdContext.cpp` and `RosKmdAdapter.cpp`: `Render` with
`ValidateDmaBuffer` and the patching in advance, `Patch` when the memory
manager has moved an allocation, `SubmitCommand` with the patching of
references of the buffer to itself, `BuildPagingBuffer` with operations that do
not fit, and the worker, for which a buffer is one step. Data: an address is a
place, the contents of a place are the allocation whose data it holds, a command
is its header and its patch locations.

Environment assumptions: VidMm patches a buffer again before it submits it if
an allocation has moved since, frees nothing that a submitted buffer uses
before the paging behind it, keeps a submitted buffer at its aperture page and
hands out a DMA buffer again only after its completion.

Properties: `ExecutesOnOwnData` (what a buffer addresses when it runs is the
data it was rendered for), `SelfReferencesAreOwn`, `PrivateDataIsOwn` (private
data is used again; nothing of the earlier use is left), `NoDataLost`.

### `RosKmdLifecycle`

Translated from `RosKmdRapAdapter.cpp`, `RosKmdAdapter.cpp` and the start and
stop of `Vc4Display.cpp`. `Start` is one action per acquisition, each with its
failure; a failure runs the armed `ROS_FINALLY::DoUnless` actions in the
reverse order of their declaration, which is not the order they are armed in.
`Stop` releases by hand. The worker, the interrupt and the DPC run meanwhile,
in the software, the render only and the display adapter. The interrupt routine
is four steps, told apart by `isr`: it reads the ready flag (`InterruptBegins`),
`V3D_INTCTL` (`RendererInterruptRoutine`), acknowledges it
(`RendererAcknowledges`), or reads and then writes `IntStat` of the PixelValve
(`DisplayInterruptRoutine`). Any step of Stop may come between two of them.

Environment assumptions: Dxgkrnl stops an adapter whose submissions have all
been notified and removes one whose Start failed; powering down and unmapping
succeed. Dxgkrnl is not assumed to disconnect the interrupt before it calls Stop,
so that a routine that has begun may go on while Stop runs; it has returned
before the adapter is started again or removed.

Fairness: of a call that has begun, the worker, the end of a frame, the interrupt
and the DPC. Nothing may be left to do in a removed adapter, so the run does not
check for deadlock; `CallsReturn` takes its place.

Properties: `RegistersReachable` (the worker finds its registers whenever it
runs, the interrupt routine when it begins and at each of its steps until Stop is
called), `NothingLeftBehind`, `HeldWhenUsed` (an
action property: each is switched while it is held), `CallsReturn`. A failure of
`GetDeviceInformation` inside `RosKmAdapter::Start` leaves the thread behind;
`NothingLeftBehind` says so. `InterruptFindsRegisters` says of the interrupt
routine that it finds the registers at every step; Stop, which does not wait for
it, does not keep that (section 7).

### `Vc4Scanout`

Translated from `Vc4Display.cpp`: `SetVidPnSourceAddress`, `InterruptRoutine`,
`ControlInterrupt`, `StartDevice` and `StopDevice`, one action per register
access, against the scaler (HVS), which latches the display list when a frame
starts, and the PixelValve, which interrupts at the front porch.

Timing is assumed twice: no frame starts while an enabled interrupt has not
been reported, without which no driver of this design could name the surface
shown; and the interrupt routine has returned before the next `VfpStart`, a frame
later, and before the device is started again (the guards `isr = "idle"`). A
routine that is under way when `StopDevice` unmaps the registers is the subject
of `RosKmdLifecycle`. Fairness: of the display, of the interrupt routine and of a call that has
begun.

Properties: `FreeIsNotScanned` (what Dxgkrnl is told is free is not being read),
`StartFindsBios` (a stopped device can be started again), `FlipIsReported`
(liveness).

### `Vc4VidPn`

Translated from `Vc4Display.cpp`: `IsSupportedVidPn`,
`EnumVidPnCofuncModality`, `CommitVidPn`, `RecommendMonitorModes` and the mode
change of `SetVidPnSourceAddress`. One action per callback into Dxgkrnl, each
of which may fail; `acquired` are the handles out, `armed` the finalizers. Modes
are told apart by size and by whether the driver accepts their fields. The
constants of the module are the code's, so that its configuration gives none.

Properties: `NothingHeldBetweenCalls`, `NegotiatedIsCommitted` (what was chosen
from what the driver offered is not turned down), and two action properties,
`PinsSurviveEnum` and `CommitIsAtomic`.

### `CosUmdCommandList`

Translated from the command list, command buffer, root signature, descriptor,
pool and queue of cosumd12, in the build without GPU virtual addresses. One
action per function of the list: setting the root signature and its arguments,
`ResourceCopy`, `Dispatch`, `ExecuteMlMetaCommand`, `Close`, `Reset`, execution
with any submission refused. A word of the root arguments is what the
application stored there; `Dispatch` lays out the register tables and the patch
locations from the root signature. A reservation counts references when the
root signature is created (`NumRegistersToPatch`), and recording writes those it
finds (`HwReferences`): two walks over the parameters. Execution takes each command buffer through
the kernel driver: `ValidateDmaBuffer` and `PatchDmaBuffer` as `DdiRender` and
`Patch` call them, then `ProcessRenderBuffer` or `ProcessHWRenderBuffer`, which
walk the buffer by the sizes stated in it and locate the registers by tables of
their own. Meta commands are an option (`COS_MLMC_RS5_SUPPORT`), taken as on.

Environment assumptions: the runtime records only into an open list, sets
every argument of a signature before a dispatch, and accepts no root signature
of more than `SIZE_ROOT_SIGNATURE` words of arguments (`SizesAssumption`) or
that names a register twice (`RegistersAssumption`). The driver has no use for
the register space of a range or view, so that a signature with one register
number in two spaces, which Direct3D accepts, is one that this driver does not
tell from a repeated register; it is outside the model. The failure of
`AcquireCommandBuffer`, which the code does not test for, ends the process in
the model ("crashed"), as an access to a null pointer does. A command larger than
a whole buffer is dropped, by the code and by the model. A list may be removed
for good, so the run does not check for deadlock.

Properties: `PatchesNameTheirAllocation` (the engine finds every command, and in
each register what the application bound to it, and nothing else is written),
`ListsWithinBuffer` (with the thresholds left free, as the reservation means
them), `BuffersAccountedFor`, `RecordedInOrder`. The stricter assertions of
`CommitCommandBufferSpace` are `CommitAssertions`, which the code does not keep.

### `RosUmdTexture`

Translated from `RosUmdResource.cpp`, `RosUmdResource.h` and
`RosUmdDevice.cpp`: layout and padding, initial data, the T-format both as it
is written in the order of memory (`ConvertBitmapTo4kTileBlocks`) and as it is
read by place (`TileCoord`), and `ResourceCopy`. The lengths of the T-format are
constants, so that sizes with part of a tile in each direction fit an instance.
A picture gives each pixel a value of its own.

Writes are as long as the code makes them: a row of initial data has the pitch
of the application's bitmap, a copy on the CPU the size of one of the two
textures. What goes past the end of a texture is written (`Fill`) to any other
texture, from its first place on, or to memory that is none of theirs. `lost`
marks the textures of which nothing is claimed: those written over in this way,
and those copied to between layouts or paddings that the code does not convert.
The alignments of the code are powers of two (`AlignmentsAssumption`), for
which the mask of `AlignValue` is a rounding.

Properties: `ImageKept` (creation, rendering and copies keep every pixel at its
place, in every texture that is not `lost`) and `TiledReadsInBounds` (two
assertions of `CopyTFormatToLinear`).

### `Vc4Emit`, `Vc4Qpu`, `Vc4ShaderTranslate` and `Vc4Pipeline`

`Vc4ShaderTranslate` is translated from `Vc4Shader.cpp` and `Vc4Shader.hpp`: the
registers of declarations, sources with swizzles and modifiers, arithmetic
instructions and samples component by component, the prologues, the output of a
vertex and of a coordinate shader, the linking of varyings and the epilogues. It
has no state: a shader becomes a program and a list of uniform references.
`Vc4Emit` builds the instructions (`Vc4Emit.hpp`).

`Vc4Qpu` executes a program. It is external, written from the encodings the
compiler uses and what it must respect: one read port for each register file, a
uniform for every read and every texture coordinate, a register that cannot be
read right after it was written, a reciprocal that takes two instructions, the
scoreboard that guards the tile buffer, the two instructions executed after the
one that ends a program. What the QPU does not check gives the value `Hazard`.

`Vc4Pipeline` runs the three programs of a draw one after the other. The
driver's part (`RefreshPipelineState` and `WriteUniforms` of `RosUmdDevice.cpp`)
lays out the words of the vertex from the element layout and puts the uniforms
of the programs one behind the other, each found by an offset. The vertex shader
leaves its varyings in the vertex pipe memory, where the pixel shader finds them
interpolated. Values are terms over the elements, constants and texels, so that
equality of terms is equality of computations; what a shader means is
evaluated beside it, instruction by instruction (`Evaluate`).

Properties: `PixelComputed` (what the tile buffer receives, in the order of the
target's channels, every temporary, and that all uniforms and varyings were
read) and `VertexComputed` (the clip coordinates for the binner, the screen
coordinates, depth and 1/W). Both exclude six limits of the code, which
`Within` names: two constants in one operation (one uniform read serves both,
or they come in the other order, `Vc4Shader.hpp:559`); a component that is read
after it was written for an earlier one; a dot product whose first operand
needs r1, where its products go (the comment at `Vc4Shader.hpp:706` gives it to
the source); a modified source of an integer addition, negated as a float; an
element layout whose order or sizes differ from the declared inputs; and a
position that the search does not reach (`Vc4Shader.cpp:127`).

## 4. The runs

| Run | What it shows | Bounds |
|---|---|---|
| `CosKmdScheduler` | five safety invariants, refinement of the contract, liveness under fairness | one render and one paging buffer, 3 entries, 2 pending, 3 fences, all triggers |
| `RosUmdCommandBuffer` | five invariants and an action property | 4 resources (2 swap chain, 1 dynamic, dummy), 5 allocations, command buffer of 10, lists of 7 and 8, 2 submissions |
| `OneKindOfCommands` (violated) | a reservation's flush resets the batch type | same |
| `RosKmdRapRender` | two invariants, order of completion and liveness | two GPU buffers and one software buffer, 3 entries, 2 pending, 3 fences, interrupt and polling |
| `SignalMeansFrameDone` (violated) | after a time-out the late frame completes the next buffer | same |
| `RosKmdDmaBuf` | four invariants | 2 allocations, 2 places, 2 render buffers and a paging buffer of one operation, 2 aperture pages, 6 command buffers of which 4 are refused |
| `RosKmdLifecycle` | two invariants, an action property, liveness | three kinds of adapter, 2 submissions |
| `Vc4Scanout` | two invariants, liveness | 3 primaries and the BIOS frame buffer |
| `Vc4VidPn` | two invariants, two action properties | all modes, pins and pivots of one path |
| `CosUmdCommandList` | four invariants | 2 allocations, 2 signatures, root arguments of 5 words, 2 shaders, heap of 2, buffer of 72 words, lists of 5, 2 filled buffers, 2 commands |
| `RosUmdTexture` | two invariants | 2 textures, 4 sizes, 3 paddings, tile of 8 by 4 pixels |
| `Vc4Pipeline` | two invariants | single instructions: 9 operands of all kinds and modifiers, 3 masks, 7 operations (a third operand of 3 kinds) and samples of 2 textures; pairs: 2 inputs, up to 4 outputs with every place of the position, 9 operations, every part of the outputs linked |

Why the bounds are enough. Three pool entries with two pending give one
entry in hand, one queued and one free, and the free list wraps around; three
fences allow a submission, its preemption and its resubmission behind another
one, or a hang and what follows. `CosKmdSchedulerFourFences.cfg` repeats the
invariants with four. The event flags and program counters are all there, and
a preemption id needs three values only, since one is recorded at most one
request late. In the rosumd command buffer a batch holds at most four commands,
so that each of a state, a draw, a copy and the epilogue can be the one that
does not fit; both a pipeline state shorter than its reservation and one
that uses all of it are tried. The whole command buffer and the whole patch
list fill up, and two flushes in one call occur. The allocation list does
not fill with four resources.

In the render path three fences give a frame that times out, the next one that
is taken for it, and the one after; a buffer may be submitted again while the
GPU still runs its first list. A paging buffer takes the path of the software
buffer.

Two allocations and two places make every page-in reuse the place of the other
one, and two aperture pages let a DMA buffer come back at another address; a
paging buffer of one operation makes every second one fail (with two the same
invariants hold). Of a command list, two commands give every pair of kinds,
which is what decides whether a buffer is retyped, closed or continued; the
signatures have registers out of order, tables of two classes and offsets, and
one shader never fits. The texture sizes are smaller than a tile, no multiple of
a micro-tile, and two tiles each way, where the order of the sub-tiles turns.
The lifecycle needs two submissions because the second one arrives while the
first runs.

Every property has a mutant of the code in the module (a definition marked
as such) that violates it under the same configuration.

The configurations named `Claims` state what a comment or an assertion of the code
says, or its design takes for granted, and the model contradicts. Each is run by
hand, `tlc -config XClaims.cfg MCX`, with one of its claims at a time, and ends
with a counterexample; section 7 says what it shows.

| Configuration | Claims |
|---|---|
| `CosKmdSchedulerClaims` | `AbortedIsUncompleted`, `RecordedPreemptionIsAnswered` |
| `RosUmdCommandBufferClaims` | `CommitAssertions`, `ClearsReachHardware`, `PatchLocationsWereWritten` |
| `CosUmdCommandListClaims` | `CommitAssertions` |
| `RosUmdTextureClaims` | `CopyAssertions`, `OneTextureWritten`, `CopyKeepsImage` (with `Padding = {0}`) |
| `RosKmdLifecycleClaims` | `InterruptFindsRegisters` |
| `RosKmdRapRenderClaims` | `ReadyMeansMapped` |
| `RosKmdDmaBufClaims` | `FailedIsDiscarded` |
| `Vc4VidPnClaims` | `EmptyCommitClears`, `RotationSupportReported` |
| `Vc4PipelineClaims` | `DotProductComputed`, `PositionIsFound` |

## 5. What is proved

The proof modules hold for all values of the constants that satisfy the
assumptions of the module they are about. Each proves that an invariant is
inductive, one lemma for each action or kind of action, and gets from it the
properties that the runs check. No proof uses fairness.

### `CosKmdSchedulerProofs`

Types and the pool:

- `TypeCorrect`: `SafetySpec => []TypeOK`. The types alone are not
  inductive, because the entry in hand may be appended to the free list only
  if there is one; `HandOK` adds that `current` names an entry exactly in
  the states between dequeue and recycle.
- `PoolIsConserved`: `SafetySpec => []PoolConserved`, from `TypeInv` and
  lemmas on lists without repetitions (tail, append, concatenation). One
  lemma shows which steps touch the pool, one step of the proof deals with
  each of them.

Preemption and reset:

- `ResetLeavesNodeQuiet`: `SafetySpec => []ResetQuiesces`. The invariant
  says where a request is: `PreemptionPhase` (its event is set, or the worker
  took it and has not answered), `ResetPhases` (event set, taken, or reported
  complete; once taken no preemption is pending, and once the queue was
  emptied nothing gets into it) and `ExitOnStop`. The order of the wait array,
  in which a preemption comes before a reset, is used in one lemma.

The contract, from the inductive invariant `Inv`, the conjunction of
the above with `FlightInv`: the queue is in the order of the fences and behind
the one that runs (`Ordered`), outstanding fences are larger than the last
completed one and tell the buffers apart (`FencesFresh`), the driver's last
completed fence is VidSch's except between the callback and the assignment
after it (`CompletedInSync`), and every outstanding buffer is in flight unless
the node is preempted, hung or being reset (`Accounted`). The last one is what
makes a completion the oldest:

- `NothingStaleRuns`: `SafetySpec => []InFlightIsOutstanding`.
- `HangIsNotOvertaken`: `SafetySpec => []HangPersists`.
- `FreeEntryWhenPoolIsLarger`: if `MaxPending < PoolSize` then
  `SafetySpec => []FreeEntryAvailable`, by an injection of the queue into the
  outstanding buffers. The hypothesis is what the assertion in
  `QueueDmaBuffer` asks of VidSch.
- `ContractIsKept`: `SafetySpec => Contract!Safety`, one lemma per step of the
  contract and one for the steps VidSch does not see.

### `RosUmdCommandBufferProofs`

A call is a composition of operators on the device record, so that the
invariant `Sound(d, m, found)` is one of the record at any point inside a call:
`m` is what the CPU has mapped and `found` the commands that the call found.
There is one lemma for each operator, which says what it changes and that it
keeps `Sound`. Besides the property it serves, a part is there because another
needs it:

- `Room` leaves the thresholds free behind every reservation; with it
  `ListsAreNotOverrun`: `Spec => []ListsNotOverrun`.
- `Listed` (the cached index of a used resource leads to its allocation) and
  `Resolves` give `PatchesAreResolved`: `Spec => []PatchesResolve`.
- `Plain`, `Drawn` and `Cleared` tie the flags of the device to the commands of
  the batch, unless it was resumed after a submission that failed
  (`Resumed`); from them `BatchHasOneTarget` and `ClearComesFirst`.
- `Owned` (what is listed belongs to a used resource or to the swap chain) and
  `Distinct` (no two resources have one allocation) turn "the batch does not use
  the mapped resource" into "the list does not hold its allocation":
  `MappedStaysUnqueued`. The proof shows that the branch of `Map` that moves
  `m_mostRecentFence` back is never reached.
- `Continues` keeps the commands found as a prefix of the batch, or of the first
  one submitted: `NoCommandIsLost`, the action property `NothingLost`.

### `RosKmdRapRenderProofs`

`TypeInv` and `FlightInv` are those of the scheduler with less: the queue is in
the order of the fences, and what VidSch waits for is queued or in hand. They
hold whatever times out, and `RenderContractIsKept`
(`SafetySpec => Contract!Safety`) rests on them. `GpuInv` says what the
GPU may be doing at each place of the worker as long as no wait has timed out:
a frame waits for its binning, is rendered, or is done; only then is its signal
under way, in exactly one of the interrupt status, the DPC and the event
(`OneSignal`), and outside of a frame it is in none. From it come
`NotifiedWasRendered` and `RenderedFromOwnTiles`.

### `RosKmdDmaBufProofs`

`DmaBufInvHolds`: `Spec => []DmaBufInv`. Most parts say what a buffer's fields
are in each state of its use: `RenderFits` and `PagingFits` of `BufferInv`,
the queue and the submitted buffers (`QueueInv`), the pages of the aperture
(`PageInv`). What makes the address in a waiting buffer right is not in the
memory as it is, but as it will be: `TimeInv` says that there are memory states
`T[0]`, `T[1]`, ... such that executing the submissions in turn leads from
one to the next, that each buffer finds the data it addresses in its own, that no
state has lost data, and that the last one, with what is being built on top of
it, is where VidMm has its allocations. An execution drops the first state; a
submission adds one. The loop over the paging operations is a fold; that it
goes through its operations from the first to the last is `PlaysIsFold`, by
induction over a set of numbers (`LeastNumber`), which needs no operator as a
parameter.

- `BuffersReadTheirData` (`ExecutesOnOwnData`), `SelfReferencesHold`
  (`SelfReferencesAreOwn`), `PrivateDataIsNotStale` (`PrivateDataIsOwn`),
  `PagingKeepsData` (`NoDataLost`), and the types with the queue,
  `QueueHoldsSubmitted`.

### `RosKmdLifecycleProofs`

`LifecycleInv` says for every place of Start, of the rollback and of Stop what is
held (`HeldFits`, and where cleanup actions are armed `ArmedFits`: each
stands for what it releases), that the armed actions are a beginning of the list
in which they are declared (`ArmedInOrder`, which the order of arming does not
show), when interrupts are enabled, and what the worker may be doing. `IsrFits`
says where an interrupt routine can be in the middle: on a VC4 adapter that is
started, or that Stop was called for, which masks the interrupts but not the
routine. From both `RegistersStayReachable`, which for a routine in flight ends
where Stop is called; from the first `NothingIsLeftBehind` and the action
property of `HeldWhileUsed`.

### `Vc4DisplayProofs`

The two halves of the display in one module; they share no state, and each has
its inductive invariant.

`ScanoutInv`: what the display list and the driver's copy of the address hold at
each point of a flip (`Copies`), that an interrupt asserted for an
earlier frame is not taken for the flip that is pending (`InterruptForFlip`),
and that a frame under way shows the displayed primary or its successor.
`FreedPrimaryIsNotRead` and `RestartFindsBios`.

`VidPnInv`: a call is at one of its own callbacks, a finalizer is armed for
exactly the handles held (`HandleInv`), enumeration works on a side that is
neither pivot nor pinned (`EnumInv`), a negotiated VidPn offers and pins only
what is the driver's (`OfferInv`), and a commit that looks at the paths has seen
the mode of the display (`CommitInv`). `HandlesAreGivenBack`,
`OfferedIsCommitted`, and the action properties of `PinnedSetsSurviveEnum`
and `CommitsAreAtomic`.

### `CosUmdCommandListProofs`

`ListInv` has four parts. `ArgumentsInv`: the words that an argument occupies in
`m_rootValues` hold it for as long as it counts as set, since the words of two
parameters are apart (`WordsAreApart`). `BuffersInv`: each buffer keeps to its
three limits less their thresholds, its allocation list names allocations, each once, and `live` is
what the list holds. `RecordingInv`: a list that records has a buffer, and room
among the filled ones to put it aside. `TypesInv`: the rest.

The step that matters is a dispatch. `DispatchFound` shows that it finds as many
references as its reservation counted, each an allocation: for each parameter,
then for the sequence of all (`Flattened`). Both counts are folds of the
community modules, whose recursion is over sets; `Tabulated`, `Traced` and
`FoldExists` prove that such a recursion has a solution, by
induction over sets of numbers, and `TotalIs` and `ReferredInTurn` what it
computes. Results: `ListTypes`, `ReservationIsEnough` (`ListsWithinBuffer`) and
`BuffersAreReleasedOnce` (`BuffersAccountedFor`).

`OrderInv` says where the commands lie: within each buffer one behind the other
and of one kind (`LaidOut`), each buffer behind the ones before it (`Precedes`),
and the numbers of all of them those of the commands recorded (`Counts`).
`RecordStep` shows it for each way recording may end. The engine of the kernel
driver does not see the boundaries of the commands: it finds each by the size of
the one before. `RenderedInOrder` shows by induction over its run that what it
executes is in order nevertheless, and `ExecutedInOrder` for a list of buffers of
which the kernel refuses any. Result: `RecordingKeepsOrder` (`RecordedInOrder`).

`AddressInv` says what a buffer must hold for the engine to find the right
addresses: its commands are packed (`Packed`), each expects one address in each
of the places that the engine looks at (`Described`), and the patch locations
are for these places, no fewer and no others, each with the entry of the
allocation list that names what was bound (`Patched`). A dispatch establishes it because
what `WriteHWRootSignature` refers to is what the application bound, register by
register (`DispatchMatches`), which needs that no register is named twice. From
there the proof follows the kernel driver. `MemoryIs`: once `PatchDmaBuffer` has
run, the memory holds at each expected place the allocation bound there and
nothing elsewhere. `SeenOnce`: where a command begins the engine sees that
command only. `RegistersAreFound`, `ReadsSetup` and `Executes`: the offsets the
engine computes from the sizes in the root signature are those at which the
driver wrote. `EngineGoesOn` is the induction over the run of
`ProcessHWRenderBuffer`, after which every command has been executed with what
was expected of it; `SwIsExecuted` is its counterpart for copies, and
`AddressesCounted` shows that no other address was written. Result:
`PatchesAreRight` (`PatchesNameTheirAllocation`).

### `RosUmdTextureProofs`

The places of pixels are numbers with mixed digits, found by quotients and
remainders and written by sums of products of constants; `Digits`, `TheDigits`
and `Below` state what quotients and remainders are, so that no later step reasons
about them and about multiplication at once. `Coordinate` takes a coordinate apart
into tile, half of a tile, micro-tile and pixel; with it `FormatsAgree` shows, for
every size and every length, that `ConvertBitmapTo4kTileBlocks` writes to a place
the pixel that `TileCoord` looks for there, level by level (`SubTilePixel`,
`TilePixel`, `SubTilesAgree` for the two tables of the order of sub-tiles).
`TilesFit` and `StagingPitch` compare the roundings of `CalculateMemoryLayout`.
Together they are the property of `FormatsAreInverse` (`TiledReadsInBounds`), and
`PixelsApart`: no two pixels have one place, in either layout.

`TextureInv` says that an allocation is as large as its kind wants it, which
`ImageKept` does not imply and every copy needs, and that a texture not `lost`
shows its picture. `FillStep` divides what a write does between the texture it
is meant for, the one behind it, which counts as lost if anything reached it,
and the others, which keep their contents (`SameImage`). One lemma for each way
to fill a texture (`TiledDataShows`, `LinearDataShows`, `RenderedShows`, `ConvertedShows`, `CopiedShows`) gives
`TexturesKeepPictures` (`ImageKept`).

## 6. What is only model-checked

Liveness (`SubmissionEnds`, `DdiReturns`, `CallsReturn`, `FlipIsReported`, the
second half of `CompletesInOrder`) and the fairness half of `KeepsContract`:
temporal reasoning under fairness and ENABLED are out of the prover's reach. So
is what `Vc4Pipeline` computes for every shader (`PixelComputed`,
`VertexComputed`): its translation and its machine are recursive operators, and
the proof would be an induction over the data.

## 7. Disagreements found

Two runs expect a violation; `PROJECT.json` lists them under "findings".

- `OneKindOfCommands`: hardware commands in a batch that the KMD runs on the
  CPU (`RosUmdCommandBuffer.cpp:207`).
- `SignalMeansFrameDone`: after a wait that timed out, every later buffer is
  reported complete before its frame is (`RosKmdRapAdapter.cpp:625`).

The configurations run by hand show the following. Three are about assertions of
the code and one about a race:

- `CommitAssertions`: the reservation of `RosUmdCommandBuffer.cpp:210` lets in a
  command that ends exactly at a threshold, and the assertions after it (`:235`,
  `:239`, `:241`, `:265`) ask for one less. In the run two draws to a new target
  do so; with the driver's sizes, 64 allocations and a threshold of 2, it takes
  copies between 62 different resources in one batch. No list is overrun.
- `CommitAssertions` of `CosUmdCommandList`: the same in cosumd12, where two copies
  fill the patch location list up to its threshold; reservation at
  `CosUmd12CommandBuffer.cpp:106`, assertions at `:129`, `:133`, `:135`, `:176`.
- `CopyAssertions`: textures of one width and height but different usage are
  padded differently, and two assertions of `ResourceCopy` on their sizes fail.
  `RosUmdDevice.cpp:497` does when the destination has fewer bytes, as a staging
  one has for a dynamic one and a dynamic one for a displayable one; unchecked,
  the copy writes past its end. `:458` does when the source has fewer bytes, as
  one for presentation only has for a staging one; unchecked, the copy reads past
  its end. Between staging textures (`:435`) the assertion holds.
- `InterruptFindsRegisters`: Stop clears the interrupt enables
  (`Vc4Display.cpp:628`, `RosKmdRapAdapter.cpp:300`) and unmaps the registers
  without waiting for an interrupt routine under way
  (`DxgkCbSynchronizeExecution`), which reads them then. It depends on when
  Dxgkrnl disconnects the interrupt, which the repository does not say.

The others:

- `ResetEngine` may report a completed fence as aborted
  (`CosKmdAdapter.cpp:1847`); the preemption request is read again after the
  callback that allows the next one (`CosKmdAdapter.cpp:534`).
- A clear is lost with a batch of copies (`RosUmdDevice.cpp:1061`); every draw
  without indices commits a patch location that it did not write
  (`RosUmdDevice.cpp:982`).
- `Stop` of the render adapter unmaps its registers and leaves
  `m_bReadyToHandleInterrupt` set (`RosKmdRapAdapter.cpp:324`).
- The rotation of a path is enumerated only when the rotation *is* the pivot,
  the opposite of the comment above it (`Vc4Display.cpp:1139`), and the commit of
  an empty topology does not clear the current mode, as its comment says
  (`Vc4Display.cpp:1287`, in `CommitVidPn`).
- A paging buffer that could not be completed (`RosKmdAdapter.cpp:605`) is
  submitted and executed in part ("should be discarded",
  `RosKmdAdapter.cpp:1758`).
- A copy between linear textures of a default and a staging kind takes bytes as
  they are although the two are padded differently (`RosUmdDevice.cpp:459`,
  "no swizzling necessary"), and may read behind the last row.
- Initial data of a linear texture is copied by the pitch of the application's
  bitmap: where that is larger than the texture's, the last row is written past
  the end of the allocation (`RosUmdDevice.cpp:324`, `OneTextureWritten`).
- A dot product whose first operand is an immediate or has a modifier loses it
  to the products in r1 (`Vc4Shader.cpp:463`).
- The search for the position of a vertex ends after as many places as there are
  output components, but a register takes four places: behind outputs with
  undeclared components the position is not found, and unset registers are
  used (`Vc4Shader.cpp:127`).

Seen while reading, and not modelled: the tiled conversion of initial data reads
behind the application's bitmap when a dimension is no multiple of a tile; one
uniform of a cube map's second parameter would take two words
(`RosUmdDevice.cpp:2273`), but cube textures are refused at creation
(`RosUmdResource.cpp:360`); `SetRootSignature` of a command list writes to the
shared pipeline state (`CosUmd12CommandList.cpp:319`); `s_videoMemorySize` may
wrap below zero (`RosKmdRapAdapter.cpp:194`); the engine of coskmd reads three
UAVs for every dispatch, however many the root signature has, and keeps the
place of the last table when there are none (`CosKmdSoftAdapter.cpp:288`, `:272`);
`m_lastCompeletedPreemptionFenceId` is written and never read.

## 8. What is not modelled

- Paging buffers in coskmd: a simpler twin of `RosKmdDmaBuf`. GPU virtual
  addresses are compiled out or stubs. The kernels of meta commands, which are
  empty but for the copy of a tensor.
- Kernel objects, power states and ACPI children: descriptions copied into
  objects whose lifetime Dxgkrnl rules, states stored and read by nobody.
- The rest of `Vc4Display.cpp` (children, EDID, pointer, bug check display,
  timings), `DriverEntry`, and the ownership of the firmware's frame buffer,
  which a failed start does not give back (`Vc4Display.cpp:479`).
- Entry points of the user mode drivers that forward, fill tables or answer "not
  supported", and the creation of devices, heaps and state objects.
- The HLSL byte code parser, the disassemblers, and texture coordinates of other than two dimensions;
  blending, an empty function so far (`Vc4Shader.cpp:269`); vpucompiler, which
  drives LLVM; the pixel format tables; the arithmetic of the
  meta commands.
- Demos, tests and vendored headers, which are a large part of the lines.

The components of `PROJECT.json` say for each part what is left out. As most of
the remaining lines are of these kinds, the models cover a small share of the
repository's lines and most of its state.
