---------------------------- MODULE RosKmdLifecycle ----------------------------
(***************************************************************************)
(* Starting, stopping and removing the render adapter                      *)
(* (roskmd/RosKmdRapAdapter.cpp, RosKmdAdapter.cpp, Vc4Display.cpp).       *)
(* Start acquires its resources one at a time and any of the steps can     *)
(* fail; the cleanup actions armed so far (ROS_FINALLY::DoUnless) are then *)
(* run by the destructors, in the reverse of the order they are declared   *)
(* in.  Stop releases everything by hand, in another order.  The worker    *)
(* thread and the interrupt routine use the same resources all along.      *)
(*                                                                         *)
(* Dxgkrnl is taken to stop an adapter only when every submission has been *)
(* notified, and to remove, never restart, one whose Start has failed.  It *)
(* is not taken to disconnect the interrupt before it calls Stop: an       *)
(* interrupt routine that has begun goes on while Stop does, and has ended *)
(* only when the adapter is started again or removed.                      *)
(***************************************************************************)
EXTENDS Naturals, Sequences

CONSTANT MaxOutstanding     \* submissions Dxgkrnl has in flight

ASSUME MaxOutstandingAssumption == MaxOutstanding \in Nat \ {0}

VARIABLES
    kind,           \* "soft"; "renderOnly" and "display": the VC4 adapter
    adapter,        \* what Dxgkrnl has done with it
    pc,             \* the step of Start, of its rollback or of Stop
    held,           \* resources acquired
    armed,          \* cleanup actions that run if Start returns now
    ready,          \* m_bReadyToHandleInterrupt
    intEna,         \* V3D_INTENA
    pvIntEn,        \* IntEn of the PixelValve
    isr,            \* "idle", or what InterruptRoutine is about to do
    worker,         \* the worker thread
    workerExit,     \* m_workerExit
    event,          \* m_workerThreadEvent, a synchronization event
    queued,         \* submissions on m_dmaBufQueue
    outstanding,    \* submissions not notified yet
    gpu,            \* "busy" with a frame; "done": INT_FRDONE is set
    dpc,            \* m_hwDmaBufCompletionDpc is queued
    completed       \* m_hwDmaBufCompletionEvent

call == <<adapter, pc, armed>>
interrupts == <<ready, intEna, pvIntEn, isr>>
thread == <<worker, workerExit, event>>
work == <<queued, outstanding, gpu, dpc, completed>>
vars == <<kind, call, held, interrupts, thread, work>>

VC4 == {"registers", "rpiq", "power"}
Display == {"hvs", "pv", "bios"}
Worker == {"thread", "reference"}

\* The resources of a started adapter.
Needs(k) == Worker \cup (IF k = "soft" THEN {} ELSE VC4)
                   \cup (IF k = "display" THEN Display ELSE {})

Init ==
    /\ kind \in {"soft", "renderOnly", "display"}
    /\ adapter = "added"
    /\ pc = "none"
    /\ held = {}
    /\ armed = {}
    /\ ready = FALSE
    /\ intEna = FALSE
    /\ pvIntEn = FALSE
    /\ isr = "idle"
    /\ worker = "none"
    /\ workerExit = FALSE
    /\ event = FALSE
    /\ queued = 0
    /\ outstanding = 0
    /\ gpu = "idle"
    /\ dpc = FALSE
    /\ completed = FALSE

-----------------------------------------------------------------------------
(* RosKmAdapter::Start: no cleanup action covers the thread yet *)

StartBegin ==
    /\ adapter = "added"
    /\ pc = "none"
    /\ isr = "idle"
    /\ adapter' = "starting"
    /\ pc' = "thread"
    /\ UNCHANGED <<kind, armed, held, interrupts, thread, work>>

CreateWorkerThread ==
    /\ pc = "thread"
    /\ event' = FALSE
    /\ workerExit' = FALSE
    /\ \/ /\ pc' = "reference"
          /\ held' = held \cup {"thread"}
          /\ worker' = "waiting"
       \/ pc' = "failed" /\ UNCHANGED <<held, worker>>
    /\ UNCHANGED <<kind, adapter, armed, interrupts, work>>

ReferenceWorkerThread ==
    /\ pc = "reference"
    /\ \/ pc' = "information" /\ held' = held \cup {"reference"}
       \/ pc' = "leaked" /\ UNCHANGED held
    /\ UNCHANGED <<kind, adapter, armed, interrupts, thread, work>>

\* mutant
GetDeviceInformationUnarmed ==
    /\ pc = "information"
    /\ \/ /\ pc' = IF kind = "soft" THEN "return" ELSE "map"
          /\ queued' = 0
          /\ dpc' = FALSE
          /\ completed' = FALSE
       \/ pc' = "leaked" /\ UNCHANGED <<queued, dpc, completed>>
    /\ UNCHANGED <<kind, adapter, armed, held, interrupts, thread, outstanding, gpu>>

\* The device information, then the queue, the DPC and the completion event;
\* on its return the VC4 adapter arms stopKmAdapter.
GetDeviceInformation ==
    /\ pc = "information"
    /\ \/ /\ pc' = IF kind = "soft" THEN "return" ELSE "map"
          /\ armed' = IF kind = "soft" THEN {} ELSE {"stopKmAdapter"}
          /\ queued' = 0
          /\ dpc' = FALSE
          /\ completed' = FALSE
       \/ pc' = "leaked" /\ UNCHANGED <<armed, queued, dpc, completed>>
    /\ UNCHANGED <<kind, adapter, held, interrupts, thread, outstanding, gpu>>

-----------------------------------------------------------------------------
(* RosKmdRapAdapter::Start and VC4_DISPLAY::StartDevice *)

\* A step that acquires r and arms its release, or fails.
Acquire(step, r, cleanup, next) ==
    /\ pc = step
    /\ \/ /\ pc' = next
          /\ held' = held \cup {r}
          /\ armed' = armed \cup {cleanup}
       \/ pc' = "rollback" /\ UNCHANGED <<held, armed>>
    /\ UNCHANGED <<kind, adapter, interrupts, thread, work>>

MapRegisters == Acquire("map", "registers", "unmapVc4Registers", "rpiq")
OpenRpiq == Acquire("rpiq", "rpiq", "closeRpiq", "power")
PowerOn == Acquire("power", "power", "powerDownVc4", "enable")

EnableInterrupt ==
    /\ \/ /\ pc = "enable"
          /\ intEna' = TRUE
          /\ pc' = "ready"
          /\ UNCHANGED <<ready, armed>>
       \/ /\ pc = "ready"
          /\ ready' = TRUE
          /\ armed' = armed \cup {"disableInterrupt"}
          /\ pc' = IF kind = "display" THEN "mapHvs" ELSE "return"
          /\ UNCHANGED intEna
    /\ UNCHANGED <<kind, adapter, held, pvIntEn, isr, thread, work>>

MapHvs == Acquire("mapHvs", "hvs", "unmapHvsRegisters", "mapPv")
MapPv == Acquire("mapPv", "pv", "unmapPvRegisters", "disable vsync")

\* The hardware must be as expected; then "ensure interrupts are disabled".
DisableVsync ==
    /\ pc = "disable vsync"
    /\ \/ pc' = "mapBios" /\ pvIntEn' = FALSE
       \/ pc' = "rollback" /\ UNCHANGED pvIntEn
    /\ UNCHANGED <<kind, adapter, armed, held, ready, intEna, isr, thread, work>>

MapBios == Acquire("mapBios", "bios", "unmapBiosFrameBuffer", "display list")

\* The display list must be as expected; then StartDevice keeps what it has
\* mapped, and Start arms stopDisplay, though no later step can fail.
CheckDisplayList ==
    /\ pc = "display list"
    /\ \/ /\ pc' = "return"
          /\ armed' = (armed \ {"unmapHvsRegisters", "unmapPvRegisters",
                                "unmapBiosFrameBuffer"}) \cup {"stopDisplay"}
       \/ pc' = "rollback" /\ UNCHANGED armed
    /\ UNCHANGED <<kind, adapter, held, interrupts, thread, work>>

StartReturn ==
    /\ pc = "return"
    /\ pc' = "none"
    /\ adapter' = "started"
    /\ armed' = {}
    /\ UNCHANGED <<kind, held, interrupts, thread, work>>

-----------------------------------------------------------------------------
(* The rollback *)

\* The cleanup actions that can be armed when a step fails, as declared.
Declared == <<"stopKmAdapter", "unmapVc4Registers", "closeRpiq", "powerDownVc4",
              "disableInterrupt", "unmapHvsRegisters", "unmapPvRegisters",
              "unmapBiosFrameBuffer">>

Releases(cleanup) ==
    CASE cleanup = "unmapVc4Registers" -> {"registers"}
      [] cleanup = "closeRpiq" -> {"rpiq"}
      [] cleanup = "powerDownVc4" -> {"power"}
      [] cleanup = "unmapHvsRegisters" -> {"hvs"}
      [] cleanup = "unmapPvRegisters" -> {"pv"}
      [] cleanup = "unmapBiosFrameBuffer" -> {"bios"}
      [] OTHER -> {}

\* mutant
LastFirstDeclared ==
    CHOOSE c \in armed :
        \E i \in DOMAIN Declared :
            Declared[i] = c /\ \A j \in 1 .. i - 1 : Declared[j] \notin armed

\* The destructors run in the reverse of the order of declaration.
LastDeclared ==
    CHOOSE c \in armed :
        \E i \in DOMAIN Declared :
            /\ Declared[i] = c
            /\ \A j \in i + 1 .. Len(Declared) : Declared[j] \notin armed

Rollback ==
    /\ pc = "rollback"
    /\ armed # {}
    /\ LET cleanup == LastDeclared
       IN /\ armed' = armed \ {cleanup}
          /\ held' = held \ Releases(cleanup)
          /\ pc' = IF cleanup = "stopKmAdapter" THEN "exit" ELSE "rollback"
          /\ IF cleanup = "disableInterrupt"
             THEN ready' = FALSE /\ intEna' = FALSE
             ELSE UNCHANGED <<ready, intEna>>
    /\ UNCHANGED <<kind, adapter, pvIntEn, isr, thread, work>>

\* Start returns its error.  "leaked": RosKmAdapter::Start failed after the
\* thread was created, which goes on waiting on the adapter's event.
StartFails ==
    /\ \/ pc \in {"failed", "leaked"} /\ adapter' = pc
       \/ pc = "rollback" /\ armed = {} /\ adapter' = "failed"
    /\ pc' = "none"
    /\ UNCHANGED <<kind, armed, held, interrupts, thread, work>>

-----------------------------------------------------------------------------
(* Stop *)

StopBegin ==
    /\ adapter = "started"
    /\ pc = "none"
    /\ outstanding = 0
    /\ adapter' = "stopping"
    /\ pc' = CASE kind = "display" -> "stop vsync"
               [] kind = "renderOnly" -> "disable"
               [] kind = "soft" -> "exit"
    /\ UNCHANGED <<kind, armed, held, interrupts, thread, work>>

\* mutant
StopDisplayUnmapFirst ==
    /\ \/ /\ pc = "stop vsync"
          /\ held' = held \ Display
          /\ pc' = "unmap display"
          /\ UNCHANGED pvIntEn
       \/ /\ pc = "unmap display"
          /\ pvIntEn' = FALSE
          /\ pc' = "disable"
          /\ UNCHANGED held
    /\ UNCHANGED <<kind, adapter, armed, ready, intEna, isr, thread, work>>

\* VC4_DISPLAY::StopDevice
StopDisplay ==
    /\ \/ /\ pc = "stop vsync"
          /\ pvIntEn' = FALSE
          /\ pc' = "unmap display"
          /\ UNCHANGED held
       \/ /\ pc = "unmap display"
          /\ held' = held \ Display
          /\ pc' = "disable"
          /\ UNCHANGED pvIntEn
    /\ UNCHANGED <<kind, adapter, armed, ready, intEna, isr, thread, work>>

\* m_bReadyToHandleInterrupt is left set.
DisableInterrupt ==
    /\ pc = "disable"
    /\ intEna' = FALSE
    /\ pc' = "power off"
    /\ UNCHANGED <<kind, adapter, armed, held, ready, pvIntEn, isr, thread, work>>

\* A VC4 without power does not go on with its frame.
Release(step, r, next) ==
    /\ pc = step
    /\ pc' = next
    /\ held' = held \ {r}
    /\ gpu' = IF r = "power" THEN "idle" ELSE gpu
    /\ UNCHANGED <<kind, adapter, armed, interrupts, thread, queued, outstanding,
                   dpc, completed>>

StopVC4 ==
    \/ Release("power off", "power", "close rpiq")
    \/ Release("close rpiq", "rpiq", "unmap")
    \/ Release("unmap", "registers", "exit")

\* mutant
StopWorkerSignalFirst ==
    /\ \/ /\ pc = "exit"
          /\ event' = TRUE
          /\ pc' = "signal"
          /\ UNCHANGED <<workerExit, worker, held, adapter>>
       \/ /\ pc = "signal"
          /\ workerExit' = TRUE
          /\ pc' = "join"
          /\ UNCHANGED <<event, worker, held, adapter>>
       \/ /\ pc = "join"
          /\ worker = "exited"
          /\ worker' = "none"
          /\ held' = held \ Worker
          /\ IF adapter = "starting"
             THEN pc' = "rollback" /\ UNCHANGED adapter
             ELSE pc' = "none" /\ adapter' = "added"
          /\ UNCHANGED <<event, workerExit>>
    /\ UNCHANGED <<kind, armed, interrupts, work>>

\* RosKmAdapter::Stop, from Stop or from the rollback.
StopWorker ==
    /\ \/ /\ pc = "exit"
          /\ workerExit' = TRUE
          /\ pc' = "signal"
          /\ UNCHANGED <<event, worker, held, adapter>>
       \/ /\ pc = "signal"
          /\ event' = TRUE
          /\ pc' = "join"
          /\ UNCHANGED <<workerExit, worker, held, adapter>>
       \/ /\ pc = "join"
          /\ worker = "exited"
          /\ worker' = "none"
          /\ held' = held \ Worker
          /\ IF adapter = "starting"
             THEN pc' = "rollback" /\ UNCHANGED adapter
             ELSE pc' = "none" /\ adapter' = "added"
          /\ UNCHANGED <<event, workerExit>>
    /\ UNCHANGED <<kind, armed, interrupts, work>>

\* DdiRemoveAdapter deletes the adapter.
Remove ==
    /\ pc = "none"
    /\ adapter \in {"added", "failed", "leaked"}
    /\ isr = "idle"
    /\ adapter' = "removed"
    /\ UNCHANGED <<kind, pc, armed, held, interrupts, thread, work>>

-----------------------------------------------------------------------------
(* Work: Dxgkrnl, the worker thread, the GPU and its interrupt *)

Submit ==
    /\ adapter = "started"
    /\ pc = "none"
    /\ outstanding < MaxOutstanding
    /\ outstanding' = outstanding + 1
    /\ queued' = queued + 1
    /\ event' = TRUE
    /\ UNCHANGED <<kind, call, held, interrupts, worker, workerExit, gpu, dpc,
                   completed>>

\* Dxgkrnl turns the vertical sync interrupt on and off.
ControlInterrupt ==
    /\ adapter = "started"
    /\ pc = "none"
    /\ kind = "display"
    /\ pvIntEn' = ~ pvIntEn
    /\ UNCHANGED <<kind, call, held, ready, intEna, isr, thread, work>>

WorkerWakes ==
    /\ worker = "waiting"
    /\ event
    /\ event' = FALSE
    /\ worker' = "woken"
    /\ UNCHANGED <<kind, call, held, interrupts, workerExit, work>>

WorkerChecks ==
    /\ worker = "woken"
    /\ worker' = IF workerExit THEN "exited" ELSE "dequeuing"
    /\ UNCHANGED <<kind, call, held, interrupts, workerExit, event, work>>

\* A paging buffer, and all work of the software adapter, is done by the
\* processor; other buffers by the GPU.
WorkerDequeues ==
    /\ worker = "dequeuing"
    /\ IF queued = 0
       THEN worker' = "waiting" /\ UNCHANGED queued
       ELSE /\ queued' = queued - 1
            /\ \/ worker' = "notifying"
               \/ kind # "soft" /\ worker' = "rendering"
    /\ UNCHANGED <<kind, call, held, interrupts, workerExit, event, outstanding,
                   gpu, dpc, completed>>

\* ProcessRenderBuffer: writes the control list registers, then waits, two
\* seconds at most.
WorkerRenders ==
    /\ \/ /\ worker = "rendering"
          /\ gpu' = "busy"
          /\ worker' = "waiting for gpu"
          /\ UNCHANGED completed
       \/ /\ worker = "waiting for gpu"
          /\ completed' = FALSE
          /\ worker' = "notifying"
          /\ UNCHANGED gpu
    /\ UNCHANGED <<kind, call, held, interrupts, workerExit, event, queued,
                   outstanding, dpc>>

\* NotifyDmaBufCompletion: Dxgkrnl hears of it before the worker is done.
WorkerNotifies ==
    /\ worker = "notifying"
    /\ outstanding' = outstanding - 1
    /\ worker' = "dequeuing"
    /\ UNCHANGED <<kind, call, held, interrupts, workerExit, event, queued, gpu,
                   dpc, completed>>

GpuFinishes ==
    /\ gpu = "busy"
    /\ gpu' = "done"
    /\ UNCHANGED <<kind, call, held, interrupts, thread, queued, outstanding, dpc,
                   completed>>

RendererInterrupts == gpu = "done" /\ intEna /\ "power" \in held

\* One of the two interrupts is raised, and is for this adapter if it is ready.
InterruptBegins ==
    /\ isr = "idle"
    /\ RendererInterrupts \/ pvIntEn
    /\ isr' = IF ready THEN "renderer"
              ELSE IF kind = "display" THEN "display" ELSE "idle"
    /\ UNCHANGED <<kind, call, held, ready, intEna, pvIntEn, thread, work>>

\* RendererInterruptRoutine reads V3D_INTCTL: INT_FRDONE, or it is for the
\* display to see.
RendererInterruptRoutine ==
    /\ isr = "renderer"
    /\ isr' = IF gpu = "done" THEN "acknowledge"
              ELSE IF kind = "display" THEN "display" ELSE "idle"
    /\ UNCHANGED <<kind, call, held, ready, intEna, pvIntEn, thread, work>>

\* It writes V3D_INTCTL and queues the DPC.
RendererAcknowledges ==
    /\ isr = "acknowledge"
    /\ isr' = "idle"
    /\ gpu' = IF gpu = "done" THEN "idle" ELSE gpu
    /\ dpc' = TRUE
    /\ UNCHANGED <<kind, call, held, ready, intEna, pvIntEn, thread, queued,
                   outstanding, completed>>

\* VC4_DISPLAY::InterruptRoutine reads IntStat of the PixelValve; if anything
\* is there it notifies Dxgkrnl, then writes IntStat.
DisplayInterruptRoutine ==
    /\ \/ isr = "display" /\ isr' \in {"idle", "vsync"}
       \/ isr = "vsync" /\ isr' = "idle"
    /\ UNCHANGED <<kind, call, held, ready, intEna, pvIntEn, thread, work>>

InterruptRoutine ==
    \/ InterruptBegins \/ RendererInterruptRoutine \/ RendererAcknowledges
    \/ DisplayInterruptRoutine

HwDmaBufCompletionDpcRoutine ==
    /\ dpc
    /\ dpc' = FALSE
    /\ completed' = TRUE
    /\ UNCHANGED <<kind, call, held, interrupts, thread, queued, outstanding, gpu>>

-----------------------------------------------------------------------------

DriverCall ==
    \/ CreateWorkerThread \/ ReferenceWorkerThread \/ GetDeviceInformation
    \/ MapRegisters \/ OpenRpiq \/ PowerOn \/ EnableInterrupt
    \/ MapHvs \/ MapPv \/ DisableVsync \/ MapBios \/ CheckDisplayList
    \/ StartReturn \/ Rollback \/ StartFails
    \/ StopDisplay \/ DisableInterrupt \/ StopVC4 \/ StopWorker

WorkerThread ==
    \/ WorkerWakes \/ WorkerChecks \/ WorkerDequeues \/ WorkerRenders
    \/ WorkerNotifies

Next ==
    \/ StartBegin \/ StopBegin \/ Remove \/ Submit \/ ControlInterrupt
    \/ DriverCall \/ WorkerThread
    \/ GpuFinishes \/ InterruptRoutine \/ HwDmaBufCompletionDpcRoutine

\* A call that has begun goes on, the worker thread is scheduled, the GPU ends
\* its frames and the processor takes interrupts.  Dxgkrnl need not call.
Spec ==
    /\ Init /\ [][Next]_vars
    /\ WF_vars(DriverCall) /\ WF_vars(WorkerThread)
    /\ WF_vars(GpuFinishes) /\ WF_vars(InterruptRoutine)
    /\ WF_vars(HwDmaBufCompletionDpcRoutine)

-----------------------------------------------------------------------------
(* Properties *)

\* The types of the variables, and cleanup actions armed only inside Start
\* (RosKmdAdapter.h, RosKmdRapAdapter.cpp Start).
TypeOK ==
    /\ kind \in {"soft", "renderOnly", "display"}
    /\ adapter \in {"added", "starting", "started", "stopping", "failed",
                    "leaked", "removed"}
    /\ held \in SUBSET Needs(kind)
    /\ armed # {} => adapter = "starting"
    /\ ready \in BOOLEAN
    /\ intEna \in BOOLEAN
    /\ pvIntEn \in BOOLEAN
    /\ isr \in {"idle", "renderer", "acknowledge", "display", "vsync"}
    /\ worker \in {"none", "waiting", "woken", "dequeuing", "rendering",
                   "waiting for gpu", "notifying", "exited"}
    /\ workerExit \in BOOLEAN
    /\ event \in BOOLEAN
    /\ outstanding \in 0 .. MaxOutstanding
    /\ queued \in 0 .. outstanding
    /\ gpu \in {"idle", "busy", "done"}
    /\ dpc \in BOOLEAN
    /\ completed \in BOOLEAN

\* "Disable interrupts": the interrupt routine finds the blocks mapped and
\* powered whose registers it is about to read or write.  Of a routine that has
\* begun before Stop this is not kept: Stop masks the interrupts but does not
\* wait for the routine, and unmaps the blocks.
InterruptFindsRegisters ==
    /\ isr \in {"renderer", "acknowledge"} => {"registers", "power"} \subseteq held
    /\ isr \in {"display", "vsync"} => "pv" \in held

\* The worker thread reaches the registers it uses whenever it runs, also while
\* Start or Stop is under way: the VC4 is mapped and powered while a frame is
\* in hand.  So does an interrupt routine when it begins, at any step of Start
\* or Stop, and all along while the adapter is started; a routine that is in
\* the middle when Stop is called is the subject of InterruptFindsRegisters.
RegistersReachable ==
    /\ worker \in {"rendering", "waiting for gpu"} \/ gpu # "idle" =>
           {"registers", "power"} \subseteq held
    /\ (RendererInterrupts \/ pvIntEn) /\ ready =>
           {"registers", "power"} \subseteq held
    /\ pvIntEn => "pv" \in held
    /\ adapter \notin {"stopping", "added"} => InterruptFindsRegisters

\* Start, whichever step fails, and Stop undo all they did: an adapter that is
\* not started holds nothing and cannot interrupt, a started one has all it
\* needs.  A failure inside RosKmAdapter::Start leaves at most the thread.
NothingLeftBehind ==
    /\ adapter \in {"added", "failed"} =>
           held = {} /\ worker = "none" /\ ~ intEna /\ ~ pvIntEn
    /\ adapter = "leaked" => held \subseteq Worker /\ ~ intEna
    /\ adapter = "started" => held = Needs(kind) /\ (kind # "soft" => ready)

\* What Start, its rollback and Stop switch, they switch while they hold the
\* means to: the interrupt enable with the VC4 mapped and powered, the power
\* through the mailbox device, the vertical sync through its registers, and
\* the adapter's thread is let go only after it has ended.
HeldWhenUsed ==
    [][/\ intEna' # intEna => {"registers", "power"} \subseteq held
       /\ ("power" \in held) # ("power" \in held') => "rpiq" \in held
       /\ pvIntEn' # pvIntEn => "pv" \in held
       /\ held \cap Worker # {} /\ held' \cap Worker = {} => worker = "exited"]_vars

\* Start and Stop return: the wait for the worker thread ends.
CallsReturn == adapter \in {"starting", "stopping"} ~> adapter \notin {"starting", "stopping"}
=============================================================================
