------------------------- MODULE RosKmdLifecycleProofs -------------------------
(***************************************************************************)
(* However many submissions are in flight, Start with its rollback and     *)
(* Stop keep the resources of the render adapter for as long as they or    *)
(* the worker thread use them, and leave none behind.  So they do for an   *)
(* interrupt routine that begins, and for one in the middle until Stop is  *)
(* called.                                                                 *)
(***************************************************************************)
EXTENDS RosKmdLifecycle, TLAPS

USE DEF vars, call, interrupts, thread, work

Busy == worker \in {"rendering", "waiting for gpu", "notifying"}

(* Where Start and Stop can be.                                            *)
Arming == {"map", "rpiq", "power", "enable", "ready", "mapHvs", "mapPv", "disable vsync",
           "mapBios", "display list", "rollback"}
Exiting == {"exit", "signal", "join"}
CallFits ==
  /\ adapter \notin {"starting", "stopping"} => pc = "none"
  /\ adapter = "starting" =>
       pc \in {"thread", "reference", "information", "return", "failed", "leaked"}
              \cup Arming \cup Exiting
  /\ adapter = "stopping" =>
       pc \in {"stop vsync", "unmap display", "disable", "power off", "close rpiq", "unmap"}
              \cup Exiting

(* What is held where no cleanup action accounts for it. *)
HeldFits ==
  /\ adapter \in {"added", "failed"} \/ pc \in {"thread", "failed"} => held = {}
  /\ pc = "reference" => held = {"thread"}
  /\ pc \in {"information"} \cup Exiting => held = Worker
  /\ adapter \in {"leaked", "removed"} \/ pc = "leaked" => held \subseteq Worker
  /\ adapter = "started" \/ pc \in {"return", "stop vsync", "unmap display"} => held = Needs(kind)
  /\ pc \in {"disable", "power off"} => held = Worker \cup VC4
  /\ pc = "close rpiq" => held = Worker \cup {"registers", "rpiq"}
  /\ pc = "unmap" => held = Worker \cup {"registers"}

Cleanups == {"stopKmAdapter", "unmapVc4Registers", "closeRpiq", "powerDownVc4",
             "disableInterrupt", "unmapHvsRegisters", "unmapPvRegisters",
             "unmapBiosFrameBuffer"}

(* While cleanup actions are armed each stands for what it releases, ... *)
ArmedFits ==
  /\ armed # {} => pc \in Arming \cup {"return"}
  /\ pc \in Arming =>
       /\ armed \subseteq Cleanups
       /\ "stopKmAdapter" \in armed <=> "thread" \in held
       /\ "stopKmAdapter" \in armed <=> "reference" \in held
       /\ "unmapVc4Registers" \in armed <=> "registers" \in held
       /\ "closeRpiq" \in armed <=> "rpiq" \in held
       /\ "powerDownVc4" \in armed <=> "power" \in held
       /\ "unmapHvsRegisters" \in armed <=> "hvs" \in held
       /\ "unmapPvRegisters" \in armed <=> "pv" \in held
       /\ "unmapBiosFrameBuffer" \in armed <=> "bios" \in held

(* ... and they are a beginning of the list in which they are declared: a  *)
(* step that fails leaves those armed that come before its own.            *)
ArmedInOrder ==
  pc \in Arming =>
    /\ "unmapVc4Registers" \in armed => "stopKmAdapter" \in armed
    /\ "closeRpiq" \in armed => "unmapVc4Registers" \in armed
    /\ "powerDownVc4" \in armed => "closeRpiq" \in armed
    /\ "disableInterrupt" \in armed => "powerDownVc4" \in armed
    /\ "unmapHvsRegisters" \in armed => "disableInterrupt" \in armed
    /\ "unmapPvRegisters" \in armed => "unmapHvsRegisters" \in armed
    /\ "unmapBiosFrameBuffer" \in armed => "unmapPvRegisters" \in armed

(* Each step of Start finds the action of the step before it armed. *)
StepFits ==
  /\ pc = "map" => "stopKmAdapter" \in armed /\ "unmapVc4Registers" \notin armed
  /\ pc = "rpiq" => "unmapVc4Registers" \in armed /\ "closeRpiq" \notin armed
  /\ pc = "power" => "closeRpiq" \in armed /\ "powerDownVc4" \notin armed
  /\ pc \in {"enable", "ready"} => "powerDownVc4" \in armed /\ "disableInterrupt" \notin armed
  /\ pc = "mapHvs" => "disableInterrupt" \in armed /\ "unmapHvsRegisters" \notin armed
  /\ pc = "mapPv" => "unmapHvsRegisters" \in armed /\ "unmapPvRegisters" \notin armed
  /\ pc \in {"disable vsync", "mapBios"} =>
       "unmapPvRegisters" \in armed /\ "unmapBiosFrameBuffer" \notin armed
  /\ pc = "display list" => "unmapBiosFrameBuffer" \in armed

(* Only the VC4 adapter has registers, and only the one with a display     *)
(* those of the display.                                                   *)
KindFits ==
  /\ pc \in Arming \cup {"disable", "power off", "close rpiq", "unmap"} => kind # "soft"
  /\ pc \in {"mapHvs", "mapPv", "disable vsync", "mapBios", "display list",
             "stop vsync", "unmap display"} => kind = "display"
  /\ adapter = "starting" /\ pc \in Exiting => kind # "soft"

(* When an interrupt is enabled, and that its routine is then ready. *)
IntEnaFits ==
  intEna =>
    /\ kind # "soft"
    /\ \/ adapter = "started"
       \/ pc \in {"ready", "return", "stop vsync", "unmap display", "disable"}
       \/ pc \in Arming /\ "disableInterrupt" \in armed
PvIntEnFits == pvIntEn => kind = "display" /\ (adapter = "started" \/ pc = "stop vsync")
ReadyFits ==
  /\ kind # "soft" /\ (adapter = "started" \/ pc = "return") => ready
  /\ pc \in Arming /\ "disableInterrupt" \in armed => ready

(* A submission is in one place, and only a started adapter has any. *)
Accounted ==
  /\ outstanding = queued + (IF Busy THEN 1 ELSE 0)
  /\ outstanding # 0 => adapter = "started"

(* The GPU may outlive the wait for it, until it loses its power. *)
WorkFits ==
  /\ worker \in {"rendering", "waiting for gpu"} => kind # "soft"
  /\ gpu # "idle" =>
       /\ kind # "soft"
       /\ \/ adapter = "started"
          \/ pc \in {"stop vsync", "unmap display", "disable", "power off"}
  /\ worker = "none" <=> "thread" \notin held

(* TypeOK in parts. *)
CallTypes ==
  /\ kind \in {"soft", "renderOnly", "display"}
  /\ adapter \in {"added", "starting", "started", "stopping", "failed", "leaked", "removed"}
  /\ armed # {} => adapter = "starting"
HeldTypes == held \in SUBSET Needs(kind)
RegisterTypes == ready \in BOOLEAN /\ intEna \in BOOLEAN /\ pvIntEn \in BOOLEAN
ThreadTypes ==
  /\ worker \in {"none", "waiting", "woken", "dequeuing", "rendering", "waiting for gpu",
                 "notifying", "exited"}
  /\ workerExit \in BOOLEAN
  /\ event \in BOOLEAN
WorkTypes ==
  /\ outstanding \in 0 .. MaxOutstanding
  /\ queued \in 0 .. outstanding
  /\ gpu \in {"idle", "busy", "done"}
  /\ dpc \in BOOLEAN
  /\ completed \in BOOLEAN

(* The invariant, by what it speaks of. *)
CallInv == CallTypes /\ CallFits /\ KindFits /\ StepFits
HeldInv == HeldTypes /\ HeldFits /\ ArmedFits /\ ArmedInOrder
RegisterInv == RegisterTypes /\ IntEnaFits /\ PvIntEnFits /\ ReadyFits
WorkInv == ThreadTypes /\ WorkTypes /\ Accounted /\ WorkFits
LifecycleInv == CallInv /\ HeldInv /\ RegisterInv /\ WorkInv

(* An interrupt routine has begun on a started VC4 adapter; Stop does not  *)
(* wait for it.                                                            *)
IsrFits ==
  /\ isr \in {"idle", "renderer", "acknowledge", "display", "vsync"}
  /\ isr # "idle" => kind # "soft" /\ adapter \in {"started", "stopping", "added"}
  /\ isr \in {"display", "vsync"} => kind = "display"

-----------------------------------------------------------------------------
(* Where submissions are. *)

(* Every submission that is not notified yet is on the queue or in the     *)
(* hands of the worker thread.  (m_dmaBufQueue and DoWork.)                *)
LEMMA Counts ==
  ASSUME WorkInv
  PROVE  /\ outstanding \in Nat /\ queued \in Nat /\ MaxOutstanding \in Nat
         /\ queued <= outstanding /\ outstanding <= MaxOutstanding
         /\ Busy => outstanding = queued + 1 /\ adapter = "started"
         /\ ~Busy => outstanding = queued
<1>1. /\ outstanding \in Nat /\ queued \in Nat /\ MaxOutstanding \in Nat
      /\ queued <= outstanding /\ outstanding <= MaxOutstanding
  BY MaxOutstandingAssumption DEF WorkInv, WorkTypes
<1>2. QED  BY <1>1 DEF WorkInv, Accounted

-----------------------------------------------------------------------------
(* The initial state and the steps. *)

(* The parts of the invariant give the types.  (The variables of           *)
(* RosKmdLifecycle.)                                                       *)
LEMMA FitsTypes == LifecycleInv /\ IsrFits => TypeOK
BY DEF LifecycleInv, CallInv, HeldInv, RegisterInv, WorkInv, TypeOK, CallTypes, HeldTypes,
       RegisterTypes, ThreadTypes, WorkTypes, IsrFits

(* Init, with nothing held or armed.  (RosKmAdapter's constructor.)        *)
LEMMA InitFits == Init => LifecycleInv
<1> SUFFICES ASSUME Init PROVE LifecycleInv
  OBVIOUS
<1> USE DEF Init
<1>1. CallInv
  BY DEF CallInv, CallTypes, CallFits, KindFits, StepFits, Arming, Exiting
<1>2. HeldInv
  BY DEF HeldInv, HeldTypes, HeldFits, ArmedFits, ArmedInOrder, Arming, Exiting
<1>3. RegisterInv
  BY DEF RegisterInv, RegisterTypes, IntEnaFits, PvIntEnFits, ReadyFits, Arming
<1>4. WorkInv
  <2>1. 0 \in 0 .. MaxOutstanding /\ 0 \in 0 .. 0 /\ 0 + 0 = 0
    BY MaxOutstandingAssumption
  <2>2. WorkTypes
    BY <2>1 DEF WorkTypes
  <2>3. ~Busy
    BY DEF Busy
  <2>4. Accounted
    BY <2>1, <2>3 DEF Accounted
  <2>5. ThreadTypes /\ WorkFits
    BY DEF ThreadTypes, WorkFits
  <2>6. QED  BY <2>2, <2>4, <2>5 DEF WorkInv
<1>5. QED  BY <1>1, <1>2, <1>3, <1>4 DEF LifecycleInv

(* What the calls of Start and Stop hold does not depend on the rest: a    *)
(* step of the worker thread or of the hardware leaves it as it is.        *)
LEMMA SameCall ==
  ASSUME CallInv, HeldInv, UNCHANGED <<kind, adapter, pc, armed, held>>
  PROVE  CallInv' /\ HeldInv'
<1>1. CallInv'
  BY ZenonT(60) DEF CallInv, CallTypes, CallFits, KindFits, StepFits, Arming, Exiting
<1>2. HeldTypes' /\ ArmedFits' /\ ArmedInOrder'
  BY DEF HeldInv, HeldTypes, ArmedFits, ArmedInOrder
<1>3. HeldFits'
  BY DEF HeldInv, HeldFits
<1>4. QED  BY <1>1, <1>2, <1>3 DEF HeldInv

(* Dxgkrnl starts an adapter that holds nothing.  (DdiStartAdapter.)       *)
LEMMA FitsStartBegin == LifecycleInv /\ StartBegin => LifecycleInv'
<1> SUFFICES ASSUME LifecycleInv, StartBegin PROVE LifecycleInv'
  OBVIOUS
<1> USE DEF StartBegin, LifecycleInv
<1>1. CallInv'
  BY DEF CallInv, CallTypes, CallFits, KindFits, StepFits, Arming, Exiting
<1>2. HeldInv'
  BY DEF HeldInv, HeldTypes, HeldFits, ArmedFits, ArmedInOrder, Needs, Worker, VC4,
         Display, Exiting, Arming, Cleanups
<1>3. RegisterInv'
  BY DEF RegisterInv, RegisterTypes, IntEnaFits, PvIntEnFits, ReadyFits, Arming
<1>4. WorkInv'
  BY MaxOutstandingAssumption DEF WorkInv, ThreadTypes, WorkTypes, Accounted, WorkFits,
                                  Busy
<1>5. QED  BY <1>1, <1>2, <1>3, <1>4

(* Dxgkrnl stops an adapter that has everything it needs.                  *)
(* (DdiStopAdapter.)                                                       *)
LEMMA FitsStopBegin == LifecycleInv /\ StopBegin => LifecycleInv'
<1> SUFFICES ASSUME LifecycleInv, StopBegin PROVE LifecycleInv'
  OBVIOUS
<1> USE DEF StopBegin, LifecycleInv
<1>1. CallInv'
  BY DEF CallInv, HeldInv, CallTypes, CallFits, KindFits, StepFits, HeldFits, Exiting,
         Arming, Needs, Worker, VC4, Display
<1>2. HeldInv'
  BY ZenonT(60) DEF HeldInv, CallInv, HeldTypes, HeldFits, ArmedFits, ArmedInOrder, CallTypes,
         CallFits, StepFits, Exiting, Needs, Worker, VC4, Display, Arming, Cleanups
<1>3. RegisterInv'
  BY DEF RegisterInv, CallInv, RegisterTypes, IntEnaFits, PvIntEnFits, ReadyFits,
         CallTypes, CallFits, Exiting, Arming
<1>4. WorkInv'
  BY ZenonT(60), MaxOutstandingAssumption DEF WorkInv, CallInv, ThreadTypes, WorkTypes, Accounted,
                                  WorkFits, CallTypes, CallFits, Exiting, Busy, Arming
<1>5. QED  BY <1>1, <1>2, <1>3, <1>4

(* An adapter is removed when it holds at most the leaked thread.          *)
(* (DdiRemoveAdapter.)                                                     *)
LEMMA FitsRemove == LifecycleInv /\ Remove => LifecycleInv'
<1> SUFFICES ASSUME LifecycleInv, Remove PROVE LifecycleInv'
  OBVIOUS
<1> USE DEF Remove, LifecycleInv
<1>1. CallInv'
  BY DEF CallInv, CallTypes, CallFits, KindFits, StepFits, Arming, Exiting
<1>2. HeldInv'
  BY DEF HeldInv, HeldTypes, HeldFits, ArmedFits, ArmedInOrder, Needs, Worker, VC4,
         Display, Exiting, Arming, Cleanups
<1>3. RegisterInv'
  BY DEF RegisterInv, RegisterTypes, IntEnaFits, PvIntEnFits, ReadyFits, Arming
<1>4. WorkInv'
  BY MaxOutstandingAssumption DEF WorkInv, ThreadTypes, WorkTypes, Accounted, WorkFits,
                                  Busy
<1>5. QED  BY <1>1, <1>2, <1>3, <1>4

(* A submission is queued while the adapter is started.                    *)
(* (RosKmAdapter::SubmitCommand.)                                          *)
LEMMA FitsSubmit == LifecycleInv /\ Submit => LifecycleInv'
<1> SUFFICES ASSUME LifecycleInv, Submit PROVE LifecycleInv'
  OBVIOUS
<1> USE DEF Submit, LifecycleInv
<1>1. CallInv' /\ HeldInv'
  BY SameCall DEF call
<1>2. RegisterInv'
  BY DEF RegisterInv, RegisterTypes, IntEnaFits, PvIntEnFits, ReadyFits, Arming
<1>3. WorkInv'
  <2>1. ThreadTypes'
    BY DEF WorkInv, ThreadTypes
  <2>2. WorkTypes'
    BY MaxOutstandingAssumption DEF WorkInv, WorkTypes
  <2>3. Accounted'
    <3>1. outstanding \in Nat /\ queued \in Nat /\ MaxOutstanding \in Nat
      BY Counts
    <3>2. (Busy' <=> Busy) /\ outstanding' # 0
      BY <3>1 DEF Busy
    <3>3. (outstanding = queued + (IF Busy THEN 1 ELSE 0))'
      BY <3>1, <3>2 DEF WorkInv, Accounted
    <3>4. (outstanding # 0 => adapter = "started")'
      BY <3>1, <3>2, <3>3 DEF WorkInv, Accounted, call
    <3>5. QED  BY <3>3, <3>4 DEF Accounted
  <2>4. WorkFits'
    BY DEF WorkInv, WorkFits
  <2>5. QED  BY <2>1, <2>2, <2>3, <2>4 DEF WorkInv
<1>4. QED  BY <1>1, <1>2, <1>3

(* The vertical sync is switched while the adapter is started.             *)
(* (DdiControlInterrupt.)                                                  *)
LEMMA FitsControlInterrupt == LifecycleInv /\ ControlInterrupt => LifecycleInv'
<1> SUFFICES ASSUME LifecycleInv, ControlInterrupt PROVE LifecycleInv'
  OBVIOUS
<1> USE DEF ControlInterrupt, LifecycleInv
<1>1. CallInv' /\ HeldInv'
  BY SameCall DEF call
<1>2. RegisterInv'
  BY DEF RegisterInv, RegisterTypes, IntEnaFits, PvIntEnFits, ReadyFits, Arming
<1>3. WorkInv'
  BY MaxOutstandingAssumption DEF WorkInv, ThreadTypes, WorkTypes, Accounted, WorkFits,
                                  Busy
<1>4. QED  BY <1>1, <1>2, <1>3

(* The first resource, the thread: nothing is armed yet.                   *)
(* (RosKmAdapter::Start.)                                                  *)
LEMMA FitsCreateWorkerThread == LifecycleInv /\ CreateWorkerThread => LifecycleInv'
<1> SUFFICES ASSUME LifecycleInv, CreateWorkerThread PROVE LifecycleInv'
  OBVIOUS
<1> USE DEF CreateWorkerThread, LifecycleInv
<1>1. CallInv'
  BY DEF CallInv, CallTypes, CallFits, KindFits, StepFits, Arming, Exiting
<1>2. HeldInv'
  BY DEF HeldInv, CallInv, HeldTypes, HeldFits, ArmedFits, ArmedInOrder, CallTypes,
         CallFits, Needs, Worker, VC4, Display, Exiting, Arming, Cleanups
<1>3. RegisterInv'
  BY DEF RegisterInv, RegisterTypes, IntEnaFits, PvIntEnFits, ReadyFits, Arming
<1>4. WorkInv'
  BY MaxOutstandingAssumption DEF WorkInv, CallInv, HeldInv, ThreadTypes, WorkTypes,
                                  Accounted, WorkFits, CallTypes, CallFits, HeldFits,
                                  Busy, Arming, Exiting, Needs, Worker, VC4, Display
<1>5. QED  BY <1>1, <1>2, <1>3, <1>4

(* The second, a reference to it.  (RosKmAdapter::Start.)                  *)
LEMMA FitsReferenceWorkerThread == LifecycleInv /\ ReferenceWorkerThread => LifecycleInv'
<1> SUFFICES ASSUME LifecycleInv, ReferenceWorkerThread PROVE LifecycleInv'
  OBVIOUS
<1> USE DEF ReferenceWorkerThread, LifecycleInv
<1>1. CallInv'
  BY DEF CallInv, CallTypes, CallFits, KindFits, StepFits, Arming, Exiting
<1>2. HeldInv'
  BY DEF HeldInv, HeldTypes, HeldFits, ArmedFits, ArmedInOrder, Needs, Worker, VC4,
         Display, Exiting, Arming, Cleanups
<1>3. RegisterInv'
  BY DEF RegisterInv, RegisterTypes, IntEnaFits, PvIntEnFits, ReadyFits, Arming
<1>4. WorkInv'
  BY ZenonT(60), MaxOutstandingAssumption DEF WorkInv, ThreadTypes, WorkTypes, Accounted, WorkFits,
                                  Busy
<1>5. QED  BY <1>1, <1>2, <1>3, <1>4

(* The return of RosKmAdapter::Start, where stopKmAdapter is armed.        *)
LEMMA FitsGetDeviceInformation == LifecycleInv /\ GetDeviceInformation => LifecycleInv'
<1> SUFFICES ASSUME LifecycleInv, GetDeviceInformation PROVE LifecycleInv'
  OBVIOUS
<1> USE DEF GetDeviceInformation, LifecycleInv
<1>1. CallInv'
  BY DEF CallInv, CallTypes, CallFits, KindFits, StepFits, Arming, Exiting
<1>2. HeldInv'
  <2>1. HeldTypes'
    BY DEF HeldInv, HeldTypes, Needs, Worker, VC4, Display
  <2>2. HeldFits'
    BY DEF HeldInv, HeldFits, Exiting, Needs, Worker, VC4, Display
  <2>3. ArmedFits'
    BY DEF HeldInv, CallInv, ArmedFits, CallTypes, CallFits, HeldFits, Arming, Cleanups,
           Exiting, Needs, Worker, VC4, Display
  <2>4. ArmedInOrder'
    <3>1. armed = {}
      BY DEF HeldInv, ArmedFits, Arming
    <3>2. armed' \subseteq {"stopKmAdapter"}
      BY <3>1
    <3>3. QED  BY <3>2 DEF ArmedInOrder
  <2>5. QED  BY <2>1, <2>2, <2>3, <2>4 DEF HeldInv
<1>3. RegisterInv'
  BY DEF RegisterInv, RegisterTypes, IntEnaFits, PvIntEnFits, ReadyFits, Arming
<1>4. WorkInv'
  <2>1. ThreadTypes'
    BY DEF WorkInv, ThreadTypes
  <2>2. WorkTypes'
    <3>1. outstanding = 0 /\ queued = 0
      <4>1. outstanding = 0
        BY DEF WorkInv, Accounted, CallInv, CallFits
      <4>2. QED  BY <4>1 DEF WorkInv, WorkTypes
    <3>2. QED  BY <3>1, MaxOutstandingAssumption DEF WorkInv, WorkTypes
  <2>3. Accounted'
    <3>1. outstanding = 0 /\ queued = 0
      <4>1. outstanding = 0
        BY DEF WorkInv, Accounted, CallInv, CallFits
      <4>2. QED  BY <4>1 DEF WorkInv, WorkTypes
    <3>2. ~Busy
      <4>1. queued + 1 # outstanding
        BY <3>1
      <4>2. QED  BY <4>1, Counts
    <3>3. ~Busy'
      BY <3>2 DEF Busy
    <3>4. QED  BY <3>1, <3>3 DEF Accounted
  <2>4. WorkFits'
    BY DEF WorkInv, WorkFits
  <2>5. QED  BY <2>1, <2>2, <2>3, <2>4 DEF WorkInv
<1>5. QED  BY <1>1, <1>2, <1>3, <1>4

(* The registers, with unmapVc4Registers.  (RosKmdRapAdapter::Start.)      *)
LEMMA FitsMapRegisters == LifecycleInv /\ MapRegisters => LifecycleInv'
<1> SUFFICES ASSUME LifecycleInv, MapRegisters PROVE LifecycleInv'
  OBVIOUS
<1> USE DEF MapRegisters, Acquire, LifecycleInv
<1>1. CallInv'
  BY DEF CallInv, HeldInv, CallTypes, CallFits, KindFits, StepFits, ArmedInOrder, Arming,
         Exiting
<1>2. HeldInv'
  <2>1. HeldTypes'
    BY DEF HeldInv, CallInv, HeldTypes, StepFits, KindFits, Needs, Worker, VC4, Display,
           Arming, Exiting
  <2>2. HeldFits'
    BY DEF HeldInv, CallInv, HeldFits, CallTypes, CallFits, Exiting, Needs, Worker, VC4,
           Display, Arming
  <2>3. ArmedFits'
    BY DEF HeldInv, ArmedFits, Arming, Cleanups
  <2>4. ArmedInOrder'
    <3>1. CASE UNCHANGED armed
      BY <3>1 DEF HeldInv, ArmedInOrder, Arming
    <3>2. CASE armed' = armed \cup {"unmapVc4Registers"}
      BY <3>2 DEF CallInv, HeldInv, ArmedInOrder, StepFits, Arming
    <3>3. QED  BY <3>1, <3>2
  <2>5. QED  BY <2>1, <2>2, <2>3, <2>4 DEF HeldInv
<1>3. RegisterInv'
  BY DEF RegisterInv, RegisterTypes, IntEnaFits, PvIntEnFits, ReadyFits, Arming
<1>4. WorkInv'
  BY ZenonT(60), MaxOutstandingAssumption DEF WorkInv, ThreadTypes, WorkTypes, Accounted, WorkFits,
                                  Busy
<1>5. QED  BY <1>1, <1>2, <1>3, <1>4

(* The mailbox device, with closeRpiq.  (RosKmdRapAdapter::Start.)         *)
LEMMA FitsOpenRpiq == LifecycleInv /\ OpenRpiq => LifecycleInv'
<1> SUFFICES ASSUME LifecycleInv, OpenRpiq PROVE LifecycleInv'
  OBVIOUS
<1> USE DEF OpenRpiq, Acquire, LifecycleInv
<1>1. CallInv'
  BY DEF CallInv, HeldInv, CallTypes, CallFits, KindFits, StepFits, ArmedInOrder, Arming,
         Exiting
<1>2. HeldInv'
  <2>1. HeldTypes'
    BY DEF HeldInv, CallInv, HeldTypes, StepFits, KindFits, Needs, Worker, VC4, Display,
           Arming, Exiting
  <2>2. HeldFits'
    BY DEF HeldInv, CallInv, HeldFits, CallTypes, CallFits, Exiting, Needs, Worker, VC4,
           Display, Arming
  <2>3. ArmedFits'
    BY DEF HeldInv, ArmedFits, Arming, Cleanups
  <2>4. ArmedInOrder'
    <3>1. CASE UNCHANGED armed
      BY <3>1 DEF HeldInv, ArmedInOrder, Arming
    <3>2. CASE armed' = armed \cup {"closeRpiq"}
      BY <3>2 DEF CallInv, HeldInv, ArmedInOrder, StepFits, Arming
    <3>3. QED  BY <3>1, <3>2
  <2>5. QED  BY <2>1, <2>2, <2>3, <2>4 DEF HeldInv
<1>3. RegisterInv'
  BY DEF RegisterInv, RegisterTypes, IntEnaFits, PvIntEnFits, ReadyFits, Arming
<1>4. WorkInv'
  BY ZenonT(60), MaxOutstandingAssumption DEF WorkInv, ThreadTypes, WorkTypes, Accounted, WorkFits,
                                  Busy
<1>5. QED  BY <1>1, <1>2, <1>3, <1>4

(* The power of the VC4, with powerDownVc4.  (RosKmdRapAdapter::Start.)    *)
LEMMA FitsPowerOn == LifecycleInv /\ PowerOn => LifecycleInv'
<1> SUFFICES ASSUME LifecycleInv, PowerOn PROVE LifecycleInv'
  OBVIOUS
<1> USE DEF PowerOn, Acquire, LifecycleInv
<1>1. CallInv'
  BY DEF CallInv, HeldInv, CallTypes, CallFits, KindFits, StepFits, ArmedInOrder, Arming,
         Exiting
<1>2. HeldInv'
  <2>1. HeldTypes'
    BY DEF HeldInv, CallInv, HeldTypes, StepFits, KindFits, Needs, Worker, VC4, Display,
           Arming, Exiting
  <2>2. HeldFits'
    BY DEF HeldInv, CallInv, HeldFits, CallTypes, CallFits, Exiting, Needs, Worker, VC4,
           Display, Arming
  <2>3. ArmedFits'
    BY DEF HeldInv, ArmedFits, Arming, Cleanups
  <2>4. ArmedInOrder'
    <3>1. CASE UNCHANGED armed
      BY <3>1 DEF HeldInv, ArmedInOrder, Arming
    <3>2. CASE armed' = armed \cup {"powerDownVc4"}
      BY <3>2 DEF CallInv, HeldInv, ArmedInOrder, StepFits, Arming
    <3>3. QED  BY <3>1, <3>2
  <2>5. QED  BY <2>1, <2>2, <2>3, <2>4 DEF HeldInv
<1>3. RegisterInv'
  BY DEF RegisterInv, RegisterTypes, IntEnaFits, PvIntEnFits, ReadyFits, Arming
<1>4. WorkInv'
  BY ZenonT(60), MaxOutstandingAssumption DEF WorkInv, ThreadTypes, WorkTypes, Accounted, WorkFits,
                                  Busy
<1>5. QED  BY <1>1, <1>2, <1>3, <1>4

(* The interrupt is enabled, then its routine is ready and                 *)
(* disableInterrupt armed.  (RosKmdRapAdapter::Start.)                     *)
LEMMA FitsEnableInterrupt == LifecycleInv /\ EnableInterrupt => LifecycleInv'
<1> SUFFICES ASSUME LifecycleInv, EnableInterrupt PROVE LifecycleInv'
  OBVIOUS
<1> USE DEF EnableInterrupt, LifecycleInv
<1>1. CallInv'
  BY DEF CallInv, HeldInv, CallTypes, CallFits, KindFits, StepFits, ArmedInOrder, Arming,
         Exiting
<1>2. HeldInv'
  <2>1. HeldTypes'
    BY DEF HeldInv, HeldTypes, Needs, Worker, VC4, Display
  <2>2. HeldFits'
    <3>1. CASE pc' = "return" /\ UNCHANGED <<kind, adapter, held>>
      <4>1. /\ {"power", "rpiq", "registers"} \subseteq held
            /\ {"thread", "reference"} \subseteq held
        BY <3>1 DEF CallInv, HeldInv, StepFits, ArmedFits, ArmedInOrder, Arming
      <4>2. kind = "renderOnly"
        BY <3>1 DEF CallInv, CallTypes, KindFits, Arming
      <4>3. held = Needs(kind)
        BY <4>1, <4>2 DEF HeldInv, HeldTypes, Needs, Worker, VC4, Display
      <4>4. adapter = "starting"
        BY DEF CallInv, CallTypes, CallFits, Exiting
      <4>5. QED  BY <3>1, <4>3, <4>4 DEF HeldFits, Exiting
    <3>2. CASE pc' \in {"ready", "mapHvs"} /\ UNCHANGED <<kind, adapter, held>>
      BY <3>2 DEF CallInv, HeldInv, HeldFits, CallTypes, CallFits, Exiting
    <3>3. QED  BY <3>1, <3>2
  <2>3. ArmedFits'
    BY DEF HeldInv, ArmedFits, Arming, Cleanups
  <2>4. ArmedInOrder'
    <3>1. CASE UNCHANGED armed
      BY <3>1 DEF HeldInv, ArmedInOrder, Arming
    <3>2. CASE armed' = armed \cup {"disableInterrupt"}
      BY <3>2 DEF CallInv, HeldInv, ArmedInOrder, StepFits, Arming
    <3>3. QED  BY <3>1, <3>2
  <2>5. QED  BY <2>1, <2>2, <2>3, <2>4 DEF HeldInv
<1>3. RegisterInv'
  BY DEF RegisterInv, CallInv, RegisterTypes, IntEnaFits, PvIntEnFits, ReadyFits,
         CallTypes, CallFits, KindFits, Arming, Exiting
<1>4. WorkInv'
  BY ZenonT(60), MaxOutstandingAssumption DEF WorkInv, ThreadTypes, WorkTypes, Accounted, WorkFits,
                                  Busy
<1>5. QED  BY <1>1, <1>2, <1>3, <1>4

(* The registers of the HVS.  (VC4_DISPLAY::StartDevice.)                  *)
LEMMA FitsMapHvs == LifecycleInv /\ MapHvs => LifecycleInv'
<1> SUFFICES ASSUME LifecycleInv, MapHvs PROVE LifecycleInv'
  OBVIOUS
<1> USE DEF MapHvs, Acquire, LifecycleInv
<1>1. CallInv'
  BY DEF CallInv, HeldInv, CallTypes, CallFits, KindFits, StepFits, ArmedInOrder, Arming,
         Exiting
<1>2. HeldInv'
  BY DEF HeldInv, CallInv, HeldTypes, HeldFits, ArmedFits, ArmedInOrder, StepFits,
         KindFits, CallTypes, CallFits, Needs, Worker, VC4, Display, Exiting, Arming,
         Cleanups
<1>3. RegisterInv'
  BY DEF RegisterInv, RegisterTypes, IntEnaFits, PvIntEnFits, ReadyFits, Arming
<1>4. WorkInv'
  BY ZenonT(60), MaxOutstandingAssumption DEF WorkInv, ThreadTypes, WorkTypes, Accounted, WorkFits,
                                  Busy
<1>5. QED  BY <1>1, <1>2, <1>3, <1>4

(* The registers of the PixelValve.  (VC4_DISPLAY::StartDevice.)           *)
LEMMA FitsMapPv == LifecycleInv /\ MapPv => LifecycleInv'
<1> SUFFICES ASSUME LifecycleInv, MapPv PROVE LifecycleInv'
  OBVIOUS
<1> USE DEF MapPv, Acquire, LifecycleInv
<1>1. CallInv'
  BY DEF CallInv, HeldInv, CallTypes, CallFits, KindFits, StepFits, ArmedInOrder, Arming,
         Exiting
<1>2. HeldInv'
  BY DEF HeldInv, CallInv, HeldTypes, HeldFits, ArmedFits, ArmedInOrder, StepFits,
         KindFits, CallTypes, CallFits, Needs, Worker, VC4, Display, Exiting, Arming,
         Cleanups
<1>3. RegisterInv'
  BY DEF RegisterInv, RegisterTypes, IntEnaFits, PvIntEnFits, ReadyFits, Arming
<1>4. WorkInv'
  BY ZenonT(60), MaxOutstandingAssumption DEF WorkInv, ThreadTypes, WorkTypes, Accounted, WorkFits,
                                  Busy
<1>5. QED  BY <1>1, <1>2, <1>3, <1>4

(* The vertical sync is switched off.  (VC4_DISPLAY::StartDevice.)         *)
LEMMA FitsDisableVsync == LifecycleInv /\ DisableVsync => LifecycleInv'
<1> SUFFICES ASSUME LifecycleInv, DisableVsync PROVE LifecycleInv'
  OBVIOUS
<1> USE DEF DisableVsync, LifecycleInv
<1>1. CallInv'
  BY DEF CallInv, CallTypes, CallFits, KindFits, StepFits, Arming, Exiting
<1>2. HeldInv'
  BY DEF HeldInv, HeldTypes, HeldFits, ArmedFits, ArmedInOrder, Needs, Worker, VC4,
         Display, Exiting, Arming, Cleanups
<1>3. RegisterInv'
  <2>1. RegisterTypes'
    BY DEF RegisterInv, RegisterTypes
  <2>2. IntEnaFits'
    BY DEF RegisterInv, IntEnaFits, Arming
  <2>3. PvIntEnFits'
    BY DEF RegisterInv, PvIntEnFits
  <2>4. ReadyFits'
    BY DEF RegisterInv, ReadyFits, Arming
  <2>5. QED  BY <2>1, <2>2, <2>3, <2>4 DEF RegisterInv
<1>4. WorkInv'
  BY ZenonT(60), MaxOutstandingAssumption DEF WorkInv, ThreadTypes, WorkTypes, Accounted, WorkFits,
                                  Busy
<1>5. QED  BY <1>1, <1>2, <1>3, <1>4

(* The frame buffer of the firmware.  (VC4_DISPLAY::StartDevice.)          *)
LEMMA FitsMapBios == LifecycleInv /\ MapBios => LifecycleInv'
<1> SUFFICES ASSUME LifecycleInv, MapBios PROVE LifecycleInv'
  OBVIOUS
<1> USE DEF MapBios, Acquire, LifecycleInv
<1>1. CallInv'
  BY DEF CallInv, CallTypes, CallFits, KindFits, StepFits, Arming, Exiting
<1>2. HeldInv'
  BY DEF HeldInv, CallInv, HeldTypes, HeldFits, ArmedFits, ArmedInOrder, StepFits,
         KindFits, CallTypes, CallFits, Needs, Worker, VC4, Display, Exiting, Arming,
         Cleanups
<1>3. RegisterInv'
  BY DEF RegisterInv, RegisterTypes, IntEnaFits, PvIntEnFits, ReadyFits, Arming
<1>4. WorkInv'
  BY ZenonT(60), MaxOutstandingAssumption DEF WorkInv, ThreadTypes, WorkTypes, Accounted, WorkFits,
                                  Busy
<1>5. QED  BY <1>1, <1>2, <1>3, <1>4

(* Start has everything and disarms, or its last check fails.              *)
(* (VC4_DISPLAY::StartDevice.)                                             *)
LEMMA FitsCheckDisplayList == LifecycleInv /\ CheckDisplayList => LifecycleInv'
<1> SUFFICES ASSUME LifecycleInv, CheckDisplayList PROVE LifecycleInv'
  OBVIOUS
<1> USE DEF CheckDisplayList, LifecycleInv
<1>1. CallInv'
  BY DEF CallInv, CallTypes, CallFits, KindFits, StepFits, Arming, Exiting
<1>2. HeldInv'
  <2>1. HeldTypes'
    BY DEF HeldInv, HeldTypes, Needs, Worker, VC4, Display
  <2>2. HeldFits'
    <3>1. CASE pc' = "return" /\ UNCHANGED <<kind, adapter, held>>
      <4>1. /\ {"hvs", "pv", "bios", "power", "rpiq", "registers"} \subseteq held
            /\ {"thread", "reference"} \subseteq held
        BY DEF CallInv, HeldInv, StepFits, ArmedFits, ArmedInOrder, Arming
      <4>2. held = Needs(kind)
        BY <4>1 DEF CallInv, HeldInv, HeldTypes, KindFits, Needs, Worker, VC4, Display
      <4>3. adapter = "starting"
        BY DEF CallInv, CallTypes, CallFits, Exiting
      <4>4. QED  BY <3>1, <4>2, <4>3 DEF HeldFits, Exiting
    <3>2. CASE pc' = "rollback" /\ UNCHANGED <<kind, adapter, held>>
      BY <3>2 DEF CallInv, HeldInv, HeldFits, CallTypes, CallFits, Exiting
    <3>3. QED  BY <3>1, <3>2
  <2>3. ArmedFits'
    BY DEF HeldInv, ArmedFits, Arming, Cleanups
  <2>4. ArmedInOrder'
    BY DEF HeldInv, ArmedInOrder, Arming
  <2>5. QED  BY <2>1, <2>2, <2>3, <2>4 DEF HeldInv
<1>3. RegisterInv'
  BY DEF RegisterInv, CallInv, HeldInv, RegisterTypes, IntEnaFits, PvIntEnFits, ReadyFits,
         CallTypes, CallFits, ArmedFits, ArmedInOrder, StepFits, KindFits, Arming,
         Exiting, Cleanups
<1>4. WorkInv'
  BY ZenonT(60), MaxOutstandingAssumption DEF WorkInv, ThreadTypes, WorkTypes, Accounted, WorkFits,
                                  Busy
<1>5. QED  BY <1>1, <1>2, <1>3, <1>4

(* Start returns, and its cleanup actions are dismissed.                   *)
(* (RosKmdRapAdapter::Start.)                                              *)
LEMMA FitsStartReturn == LifecycleInv /\ StartReturn => LifecycleInv'
<1> SUFFICES ASSUME LifecycleInv, StartReturn PROVE LifecycleInv'
  OBVIOUS
<1> USE DEF StartReturn, LifecycleInv
<1>1. CallInv'
  BY DEF CallInv, CallTypes, CallFits, KindFits, StepFits, Arming, Exiting
<1>2. HeldInv'
  BY DEF HeldInv, HeldTypes, HeldFits, ArmedFits, ArmedInOrder, Needs, Worker, VC4,
         Display, Exiting, Arming, Cleanups
<1>3. RegisterInv'
  BY DEF RegisterInv, RegisterTypes, IntEnaFits, PvIntEnFits, ReadyFits, Arming
<1>4. WorkInv'
  BY MaxOutstandingAssumption DEF WorkInv, ThreadTypes, WorkTypes, Accounted, WorkFits,
                                  Busy
<1>5. QED  BY <1>1, <1>2, <1>3, <1>4

(* Start returns an error after its cleanup actions, if any were armed.    *)
(* (RosKmdRapAdapter::Start.)                                              *)
LEMMA FitsStartFails == LifecycleInv /\ StartFails => LifecycleInv'
<1> SUFFICES ASSUME LifecycleInv, StartFails PROVE LifecycleInv'
  OBVIOUS
<1> USE DEF StartFails, LifecycleInv
<1>1. CallInv'
  <2>1. CallTypes'
    <3>1. armed = {}
      BY DEF HeldInv, ArmedFits, Arming
    <3>2. QED  BY <3>1 DEF CallInv, CallTypes
  <2>2. CallFits'
    BY DEF CallInv, CallFits, Arming, Exiting
  <2>3. KindFits'
    BY DEF CallInv, KindFits, Arming, Exiting
  <2>4. StepFits'
    BY DEF CallInv, StepFits
  <2>5. QED  BY <2>1, <2>2, <2>3, <2>4 DEF CallInv
<1>2. HeldInv'
  <2>1. HeldTypes'
    BY DEF HeldInv, HeldTypes, Needs, Worker, VC4, Display
  <2>2. HeldFits'
    <3>1. CASE pc = "rollback" /\ armed = {} /\ adapter' = "failed"
      <4>1. held = {}
        BY <3>1 DEF CallInv, HeldInv, HeldTypes, ArmedFits, ArmedInOrder, Arming, Needs,
                    Worker, VC4, Display
      <4>2. QED  BY <3>1, <4>1 DEF HeldFits, Exiting
    <3>2. CASE pc = "failed" /\ adapter' = pc
      BY <3>2 DEF HeldInv, HeldFits, Exiting
    <3>3. CASE pc = "leaked" /\ adapter' = pc
      BY <3>3 DEF HeldInv, HeldFits, Exiting
    <3>4. QED  BY <3>1, <3>2, <3>3
  <2>3. ArmedFits'
    BY DEF HeldInv, ArmedFits, Arming, Cleanups
  <2>4. ArmedInOrder'
    BY DEF HeldInv, ArmedInOrder, Arming
  <2>5. QED  BY <2>1, <2>2, <2>3, <2>4 DEF HeldInv
<1>3. RegisterInv'
  BY DEF RegisterInv, CallInv, RegisterTypes, IntEnaFits, PvIntEnFits, ReadyFits,
         CallTypes, CallFits, Arming, Exiting
<1>4. WorkInv'
  BY ZenonT(60), MaxOutstandingAssumption DEF WorkInv, CallInv, ThreadTypes, WorkTypes, Accounted,
                                  WorkFits, CallTypes, CallFits, Busy, Arming, Exiting
<1>5. QED  BY <1>1, <1>2, <1>3, <1>4

(* The display is stopped before its registers are unmapped.               *)
(* (VC4_DISPLAY::StopDevice.)                                              *)
LEMMA FitsStopDisplay == LifecycleInv /\ StopDisplay => LifecycleInv'
<1> SUFFICES ASSUME LifecycleInv, StopDisplay PROVE LifecycleInv'
  OBVIOUS
<1> USE DEF StopDisplay, LifecycleInv
<1>1. CallInv'
  BY DEF CallInv, CallTypes, CallFits, KindFits, StepFits, Arming, Exiting
<1>2. HeldInv'
  BY ZenonT(60) DEF HeldInv, CallInv, HeldTypes, HeldFits, ArmedFits, ArmedInOrder, CallTypes,
         CallFits, KindFits, Needs, Worker, VC4, Display, Exiting, Arming, Cleanups
<1>3. RegisterInv'
  <2>1. RegisterTypes'
    BY DEF RegisterInv, RegisterTypes
  <2>2. IntEnaFits'
    BY DEF RegisterInv, IntEnaFits, Arming
  <2>3. PvIntEnFits'
    BY DEF RegisterInv, PvIntEnFits
  <2>4. ReadyFits'
    BY DEF RegisterInv, ReadyFits, Arming
  <2>5. QED  BY <2>1, <2>2, <2>3, <2>4 DEF RegisterInv
<1>4. WorkInv'
  <2>1. ThreadTypes'
    BY DEF WorkInv, ThreadTypes
  <2>2. WorkTypes'
    BY MaxOutstandingAssumption DEF WorkInv, WorkTypes
  <2>3. Accounted'
    BY MaxOutstandingAssumption DEF WorkInv, Accounted, Busy
  <2>4. WorkFits'
    BY DEF WorkInv, CallInv, HeldInv, WorkFits, CallTypes, CallFits, HeldFits, WorkTypes,
           Arming, Exiting, Needs, Worker, VC4, Display
  <2>5. QED  BY <2>1, <2>2, <2>3, <2>4 DEF WorkInv
<1>5. QED  BY <1>1, <1>2, <1>3, <1>4

(* The interrupt is disabled before the power goes.                        *)
(* (RosKmdRapAdapter::Stop.)                                               *)
LEMMA FitsDisableInterrupt == LifecycleInv /\ DisableInterrupt => LifecycleInv'
<1> SUFFICES ASSUME LifecycleInv, DisableInterrupt PROVE LifecycleInv'
  OBVIOUS
<1> USE DEF DisableInterrupt, LifecycleInv
<1>1. CallInv'
  BY DEF CallInv, CallTypes, CallFits, KindFits, StepFits, Arming, Exiting
<1>2. HeldInv'
  BY DEF HeldInv, HeldTypes, HeldFits, ArmedFits, ArmedInOrder, Needs, Worker, VC4,
         Display, Exiting, Arming, Cleanups
<1>3. RegisterInv'
  BY DEF RegisterInv, RegisterTypes, IntEnaFits, PvIntEnFits, ReadyFits, Arming
<1>4. WorkInv'
  BY ZenonT(60), MaxOutstandingAssumption DEF WorkInv, ThreadTypes, WorkTypes, Accounted, WorkFits,
                                  Busy
<1>5. QED  BY <1>1, <1>2, <1>3, <1>4

(* The power, the mailbox device, the registers, in this order.            *)
(* (RosKmdRapAdapter::Stop.)                                               *)
LEMMA FitsStopVC4 == LifecycleInv /\ StopVC4 => LifecycleInv'
<1> SUFFICES ASSUME LifecycleInv, StopVC4 PROVE LifecycleInv'
  OBVIOUS
<1> USE DEF StopVC4, Release, LifecycleInv
<1>1. CallInv'
  BY DEF CallInv, CallTypes, CallFits, KindFits, StepFits, Arming, Exiting
<1>2. HeldInv'
  <2>1. HeldTypes'
    BY DEF HeldInv, HeldTypes, Needs, Worker, VC4, Display
  <2>2. adapter \notin {"added", "failed", "leaked", "removed", "started"}
    BY DEF CallInv, CallFits
  <2>3. HeldFits'
    BY <2>2 DEF HeldInv, HeldFits, Worker, VC4, Exiting
  <2>4. armed = {}
    BY DEF HeldInv, ArmedFits, Arming
  <2>5. ArmedFits' /\ ArmedInOrder'
    BY <2>4 DEF ArmedFits, ArmedInOrder, Arming
  <2>6. QED  BY <2>1, <2>3, <2>5 DEF HeldInv
<1>3. RegisterInv'
  <2>1. RegisterTypes'
    BY DEF RegisterInv, RegisterTypes
  <2>2. IntEnaFits'
    BY DEF RegisterInv, IntEnaFits, Arming
  <2>3. PvIntEnFits'
    BY DEF RegisterInv, PvIntEnFits
  <2>4. ReadyFits'
    BY DEF RegisterInv, ReadyFits, Arming
  <2>5. QED  BY <2>1, <2>2, <2>3, <2>4 DEF RegisterInv
<1>4. WorkInv'
  <2>1. ThreadTypes'
    BY DEF WorkInv, ThreadTypes
  <2>2. WorkTypes'
    BY MaxOutstandingAssumption DEF WorkInv, WorkTypes
  <2>3. Accounted'
    BY MaxOutstandingAssumption DEF WorkInv, CallInv, Accounted, CallTypes, CallFits,
                                    Busy, Arming, Exiting
  <2>4. WorkFits'
    BY DEF WorkInv, WorkFits
  <2>5. QED  BY <2>1, <2>2, <2>3, <2>4 DEF WorkInv
<1>5. QED  BY <1>1, <1>2, <1>3, <1>4

(* The thread is told to exit, woken and waited for.                       *)
(* (RosKmAdapter::Stop.)                                                   *)
LEMMA FitsStopWorker == LifecycleInv /\ StopWorker => LifecycleInv'
<1> SUFFICES ASSUME LifecycleInv, StopWorker PROVE LifecycleInv'
  OBVIOUS
<1> USE DEF StopWorker, LifecycleInv
<1>1. CallInv'
  BY DEF CallInv, RegisterInv, HeldInv, CallTypes, CallFits, KindFits, StepFits,
         IntEnaFits, PvIntEnFits, ReadyFits, HeldFits, Exiting, Arming, Needs, Worker,
         VC4, Display
<1>2. HeldInv'
  BY ZenonT(60) DEF HeldInv, CallInv, HeldTypes, HeldFits, ArmedFits, ArmedInOrder, CallTypes,
         CallFits, StepFits, Exiting, Needs, Worker, VC4, Display, Arming, Cleanups
<1>3. RegisterInv'
  BY DEF RegisterInv, CallInv, HeldInv, RegisterTypes, IntEnaFits, PvIntEnFits, ReadyFits,
         CallTypes, CallFits, ArmedFits, Exiting, Arming, Cleanups
<1>4. WorkInv'
  BY ZenonT(60), MaxOutstandingAssumption DEF WorkInv, CallInv, HeldInv, ThreadTypes, WorkTypes,
                                  Accounted, WorkFits, CallTypes, CallFits, HeldFits,
                                  Exiting, Busy, Arming, Needs, Worker, VC4, Display
<1>5. QED  BY <1>1, <1>2, <1>3, <1>4

(* The worker thread takes its event.  (RosKmAdapter::WorkerThread.)       *)
LEMMA FitsWorkerWakes == LifecycleInv /\ WorkerWakes => LifecycleInv'
<1> SUFFICES ASSUME LifecycleInv, WorkerWakes PROVE LifecycleInv'
  OBVIOUS
<1> USE DEF WorkerWakes, LifecycleInv
<1>1. CallInv' /\ HeldInv'
  BY SameCall DEF call
<1>2. RegisterInv'
  BY DEF RegisterInv, RegisterTypes, IntEnaFits, PvIntEnFits, ReadyFits, Arming
<1>3. WorkInv'
  BY MaxOutstandingAssumption DEF WorkInv, ThreadTypes, WorkTypes, Accounted, WorkFits,
                                  Busy
<1>4. QED  BY <1>1, <1>2, <1>3

(* It exits if it has been told to.  (RosKmAdapter::WorkerThread.)         *)
LEMMA FitsWorkerChecks == LifecycleInv /\ WorkerChecks => LifecycleInv'
<1> SUFFICES ASSUME LifecycleInv, WorkerChecks PROVE LifecycleInv'
  OBVIOUS
<1> USE DEF WorkerChecks, LifecycleInv
<1>1. CallInv' /\ HeldInv'
  BY SameCall DEF call
<1>2. RegisterInv'
  BY DEF RegisterInv, RegisterTypes, IntEnaFits, PvIntEnFits, ReadyFits, Arming
<1>3. WorkInv'
  BY MaxOutstandingAssumption DEF WorkInv, ThreadTypes, WorkTypes, Accounted, WorkFits,
                                  Busy
<1>4. QED  BY <1>1, <1>2, <1>3

(* It takes a submission in hand, or waits again.  (RosKmAdapter::DoWork.) *)
LEMMA FitsWorkerDequeues == LifecycleInv /\ WorkerDequeues => LifecycleInv'
<1> SUFFICES ASSUME LifecycleInv, WorkerDequeues PROVE LifecycleInv'
  OBVIOUS
<1> USE DEF WorkerDequeues, LifecycleInv
<1>1. CallInv' /\ HeldInv'
  BY SameCall DEF call
<1>2. RegisterInv'
  BY DEF RegisterInv, RegisterTypes, IntEnaFits, PvIntEnFits, ReadyFits, Arming
<1>3. WorkInv'
  <2>1. ThreadTypes'
    BY DEF WorkInv, ThreadTypes
  <2>2. WorkTypes'
    BY MaxOutstandingAssumption DEF WorkInv, WorkTypes
  <2>3. Accounted'
    <3>1. outstanding \in Nat /\ queued \in Nat /\ MaxOutstanding \in Nat
      BY Counts
    <3>2. ~Busy /\ (Busy' <=> queued # 0)
      BY DEF Busy
    <3>3. (outstanding = queued + (IF Busy THEN 1 ELSE 0))'
      BY <3>1, <3>2 DEF WorkInv, Accounted
    <3>4. (outstanding # 0 => adapter = "started")'
      BY <3>1, <3>2, <3>3 DEF WorkInv, Accounted, call
    <3>5. QED  BY <3>3, <3>4 DEF Accounted
  <2>4. WorkFits'
    BY DEF WorkInv, WorkFits
  <2>5. QED  BY <2>1, <2>2, <2>3, <2>4 DEF WorkInv
<1>4. QED  BY <1>1, <1>2, <1>3

(* It starts the GPU and waits, two seconds at most.                       *)
(* (RosKmdRapAdapter::ProcessRenderBuffer.)                                *)
LEMMA FitsWorkerRenders == LifecycleInv /\ WorkerRenders => LifecycleInv'
<1> SUFFICES ASSUME LifecycleInv, WorkerRenders PROVE LifecycleInv'
  OBVIOUS
<1> USE DEF WorkerRenders, LifecycleInv
<1>1. CallInv' /\ HeldInv'
  BY SameCall DEF call
<1>2. RegisterInv'
  BY DEF RegisterInv, RegisterTypes, IntEnaFits, PvIntEnFits, ReadyFits, Arming
<1>3. WorkInv'
  <2>1. ThreadTypes'
    BY DEF WorkInv, ThreadTypes
  <2>2. WorkTypes'
    BY MaxOutstandingAssumption DEF WorkInv, WorkTypes
  <2>3. Accounted'
    <3>1. outstanding \in Nat /\ queued \in Nat /\ MaxOutstanding \in Nat
      BY Counts
    <3>2. Busy /\ Busy'
      BY DEF Busy
    <3>3. (outstanding = queued + (IF Busy THEN 1 ELSE 0))'
      BY <3>1, <3>2 DEF WorkInv, Accounted
    <3>4. (outstanding # 0 => adapter = "started")'
      BY <3>1, <3>2, <3>3 DEF WorkInv, Accounted, call
    <3>5. QED  BY <3>3, <3>4 DEF Accounted
  <2>4. WorkFits'
    <3>1. kind # "soft" /\ worker # "none" /\ worker' # "none"
      BY DEF WorkInv, WorkFits
    <3>2. adapter = "started"
      <4>1. Busy
        BY DEF Busy
      <4>2. QED  BY <4>1, Counts
    <3>3. QED  BY <3>1, <3>2 DEF WorkInv, WorkFits, call
  <2>5. QED  BY <2>1, <2>2, <2>3, <2>4 DEF WorkInv
<1>4. QED  BY <1>1, <1>2, <1>3

(* It lets Dxgkrnl know: a submission less.                                *)
(* (RosKmAdapter::NotifyDmaBufCompletion.)                                 *)
LEMMA FitsWorkerNotifies == LifecycleInv /\ WorkerNotifies => LifecycleInv'
<1> SUFFICES ASSUME LifecycleInv, WorkerNotifies PROVE LifecycleInv'
  OBVIOUS
<1> USE DEF WorkerNotifies, LifecycleInv
<1>1. CallInv' /\ HeldInv'
  BY SameCall DEF call
<1>2. RegisterInv'
  BY DEF RegisterInv, RegisterTypes, IntEnaFits, PvIntEnFits, ReadyFits, Arming
<1>3. WorkInv'
  <2>1. ThreadTypes'
    BY DEF WorkInv, ThreadTypes
  <2>2. WorkTypes'
    <3>1. outstanding = queued + 1
      BY DEF WorkInv, Accounted, Busy
    <3>2. QED  BY <3>1, MaxOutstandingAssumption DEF WorkInv, WorkTypes
  <2>3. Accounted'
    <3>1. outstanding \in Nat /\ queued \in Nat /\ MaxOutstanding \in Nat
      BY Counts
    <3>2. Busy /\ ~Busy'
      BY DEF Busy
    <3>3. (outstanding = queued + (IF Busy THEN 1 ELSE 0))'
      BY <3>1, <3>2 DEF WorkInv, Accounted
    <3>4. (outstanding # 0 => adapter = "started")'
      BY <3>1, <3>2, <3>3 DEF WorkInv, Accounted, call
    <3>5. QED  BY <3>3, <3>4 DEF Accounted
  <2>4. WorkFits'
    BY DEF WorkInv, WorkFits
  <2>5. QED  BY <2>1, <2>2, <2>3, <2>4 DEF WorkInv
<1>4. QED  BY <1>1, <1>2, <1>3

(* The GPU ends a frame, with the power still on.                          *)
(* (RosKmdRapAdapter::InterruptRoutine sees INT_FRDONE.)                   *)
LEMMA FitsGpuFinishes == LifecycleInv /\ GpuFinishes => LifecycleInv'
<1> SUFFICES ASSUME LifecycleInv, GpuFinishes PROVE LifecycleInv'
  OBVIOUS
<1> USE DEF GpuFinishes, LifecycleInv
<1>1. CallInv' /\ HeldInv'
  BY SameCall DEF call
<1>2. RegisterInv'
  BY DEF RegisterInv, RegisterTypes, IntEnaFits, PvIntEnFits, ReadyFits, Arming
<1>3. WorkInv'
  BY MaxOutstandingAssumption DEF WorkInv, ThreadTypes, WorkTypes, Accounted, WorkFits,
                                  Busy
<1>4. QED  BY <1>1, <1>2, <1>3

(* The interrupt is acknowledged, if it is the renderer's; the rest only   *)
(* reads.  (RosKmdRapAdapter::InterruptRoutine.)                           *)
LEMMA FitsInterruptRoutine == LifecycleInv /\ InterruptRoutine => LifecycleInv'
<1> SUFFICES ASSUME LifecycleInv, InterruptRoutine PROVE LifecycleInv'
  OBVIOUS
<1> USE DEF LifecycleInv
<1>1. /\ UNCHANGED <<kind, call, held, ready, intEna, pvIntEn, thread, queued, outstanding,
                     completed>>
      /\ gpu' \in {gpu, "idle"} /\ dpc' \in {dpc, TRUE}
  BY DEF InterruptRoutine, InterruptBegins, RendererInterruptRoutine, RendererAcknowledges,
         DisplayInterruptRoutine
<1>2. CallInv' /\ HeldInv'
  BY <1>1, SameCall
<1>3. RegisterInv'
  BY <1>1 DEF RegisterInv, RegisterTypes, IntEnaFits, PvIntEnFits, ReadyFits, Arming
<1>4. WorkInv'
  <2> USE DEF WorkInv
  <2>1. /\ UNCHANGED <<kind, adapter, pc, armed, held, worker, workerExit, event, queued,
                       outstanding, completed>>
        /\ Busy' = Busy
    BY <1>1 DEF call, thread, Busy
  <2>2. ThreadTypes'
    BY <2>1 DEF ThreadTypes
  <2>3. WorkTypes'
    <3>1. gpu' \in {"idle", "busy", "done"}
      BY <1>1 DEF WorkTypes
    <3>2. dpc' \in BOOLEAN
      BY <1>1, ZenonT(30) DEF WorkTypes
    <3>3. QED  BY <2>1, <3>1, <3>2, ZenonT(30) DEF WorkTypes
  <2>4. Accounted'
    BY <2>1 DEF Accounted
  <2>5. WorkFits'
    <3>1. gpu' # "idle" => gpu # "idle"
      BY <1>1
    <3>2. QED  BY <2>1, <3>1 DEF WorkFits
  <2>6. QED  BY <2>2, <2>3, <2>4, <2>5
<1>5. QED  BY <1>2, <1>3, <1>4

(* The event of the worker's wait is set.  (HwDmaBufCompletionDpcRoutine.) *)
LEMMA FitsHwDmaBufCompletionDpcRoutine == LifecycleInv /\ HwDmaBufCompletionDpcRoutine => LifecycleInv'
<1> SUFFICES ASSUME LifecycleInv, HwDmaBufCompletionDpcRoutine PROVE LifecycleInv'
  OBVIOUS
<1> USE DEF HwDmaBufCompletionDpcRoutine, LifecycleInv
<1>1. CallInv' /\ HeldInv'
  BY SameCall DEF call
<1>2. RegisterInv'
  BY DEF RegisterInv, RegisterTypes, IntEnaFits, PvIntEnFits, ReadyFits, Arming
<1>3. WorkInv'
  BY MaxOutstandingAssumption DEF WorkInv, ThreadTypes, WorkTypes, Accounted, WorkFits,
                                  Busy
<1>4. QED  BY <1>1, <1>2, <1>3

-----------------------------------------------------------------------------
(* The rollback. *)

(* The values of the list of cleanup actions.  (The ROS_FINALLY objects of *)
(* RosKmdRapAdapter::Start and VC4_DISPLAY::StartDevice.)                  *)
LEMMA DeclaredAre ==
  /\ DOMAIN Declared = 1..8 /\ Len(Declared) = 8
  /\ Declared[1] = "stopKmAdapter" /\ Declared[2] = "unmapVc4Registers"
  /\ Declared[3] = "closeRpiq" /\ Declared[4] = "powerDownVc4"
  /\ Declared[5] = "disableInterrupt" /\ Declared[6] = "unmapHvsRegisters"
  /\ Declared[7] = "unmapPvRegisters" /\ Declared[8] = "unmapBiosFrameBuffer"
BY DEF Declared

(* The destructor that runs next is that of the armed action declared      *)
(* last.                                                                   *)
LEMMA LastIsArmed ==
  ASSUME armed # {}, armed \subseteq Cleanups
  PROVE  /\ LastDeclared \in armed
         /\ \E i \in 1..8 : /\ Declared[i] = LastDeclared
                           /\ \A j \in i + 1 .. 8 : Declared[j] \notin armed
<1> DEFINE Last(i) == Declared[i] \in armed /\ \A j \in i + 1 .. 8 : Declared[j] \notin armed
<1>1. \E i \in 1..8 : Last(i)
  <2>1. CASE "unmapBiosFrameBuffer" \in armed
    <3>1. Last(8)
      BY <2>1, DeclaredAre
    <3>2. QED  BY <3>1
  <2>2. CASE "unmapPvRegisters" \in armed /\ {"unmapBiosFrameBuffer"} \cap armed = {}
    <3>1. Last(7)
      BY <2>2, DeclaredAre
    <3>2. QED  BY <3>1
  <2>3. CASE "unmapHvsRegisters" \in armed /\ {"unmapPvRegisters", "unmapBiosFrameBuffer"} \cap armed = {}
    <3>1. Last(6)
      BY <2>3, DeclaredAre
    <3>2. QED  BY <3>1
  <2>4. CASE "disableInterrupt" \in armed /\ {"unmapHvsRegisters", "unmapPvRegisters", "unmapBiosFrameBuffer"} \cap armed = {}
    <3>1. Last(5)
      BY <2>4, DeclaredAre
    <3>2. QED  BY <3>1
  <2>5. CASE "powerDownVc4" \in armed /\ {"disableInterrupt", "unmapHvsRegisters", "unmapPvRegisters", "unmapBiosFrameBuffer"} \cap armed = {}
    <3>1. Last(4)
      BY <2>5, DeclaredAre
    <3>2. QED  BY <3>1
  <2>6. CASE "closeRpiq" \in armed /\ {"powerDownVc4", "disableInterrupt", "unmapHvsRegisters", "unmapPvRegisters", "unmapBiosFrameBuffer"} \cap armed = {}
    <3>1. Last(3)
      BY <2>6, DeclaredAre
    <3>2. QED  BY <3>1
  <2>7. CASE "unmapVc4Registers" \in armed /\ {"closeRpiq", "powerDownVc4", "disableInterrupt", "unmapHvsRegisters", "unmapPvRegisters", "unmapBiosFrameBuffer"} \cap armed = {}
    <3>1. Last(2)
      BY <2>7, DeclaredAre
    <3>2. QED  BY <3>1
  <2>8. CASE "stopKmAdapter" \in armed /\ {"unmapVc4Registers", "closeRpiq", "powerDownVc4", "disableInterrupt", "unmapHvsRegisters", "unmapPvRegisters", "unmapBiosFrameBuffer"} \cap armed = {}
    <3>1. Last(1)
      BY <2>8, DeclaredAre
    <3>2. QED  BY <3>1
  <2>9. QED  BY <2>1, <2>2, <2>3, <2>4, <2>5, <2>6, <2>7, <2>8 DEF Cleanups
<1>2. \E c \in armed : \E i \in DOMAIN Declared :
        /\ Declared[i] = c
        /\ \A j \in i + 1 .. Len(Declared) : Declared[j] \notin armed
  BY <1>1, DeclaredAre
<1>3. /\ LastDeclared \in armed
      /\ \E i \in DOMAIN Declared :
           /\ Declared[i] = LastDeclared
           /\ \A j \in i + 1 .. Len(Declared) : Declared[j] \notin armed
  BY <1>2 DEF LastDeclared
<1>4. QED  BY <1>3, DeclaredAre

(* So when a cleanup action runs, the one declared after it no longer      *)
(* is to run.                                                              *)
LEMMA LaterHaveRun ==
  ASSUME armed # {}, armed \subseteq Cleanups
  PROVE  /\ LastDeclared \in armed
         /\ LastDeclared = "stopKmAdapter" => "unmapVc4Registers" \notin armed
         /\ LastDeclared = "unmapVc4Registers" => "closeRpiq" \notin armed
         /\ LastDeclared = "closeRpiq" => "powerDownVc4" \notin armed
         /\ LastDeclared = "powerDownVc4" => "disableInterrupt" \notin armed
         /\ LastDeclared = "disableInterrupt" => "unmapHvsRegisters" \notin armed
         /\ LastDeclared = "unmapHvsRegisters" => "unmapPvRegisters" \notin armed
         /\ LastDeclared = "unmapPvRegisters" => "unmapBiosFrameBuffer" \notin armed
<1>1. PICK i \in 1..8 : /\ Declared[i] = LastDeclared
                       /\ \A j \in i + 1 .. 8 : Declared[j] \notin armed
  BY LastIsArmed
<1>2. LastDeclared \in armed
  BY LastIsArmed
<1>3. LastDeclared = "stopKmAdapter" => "unmapVc4Registers" \notin armed
  <2>1. LastDeclared = "stopKmAdapter" => i = 1
    BY <1>1, DeclaredAre
  <2>2. QED  BY <2>1, <1>1, DeclaredAre
<1>4. LastDeclared = "unmapVc4Registers" => "closeRpiq" \notin armed
  <2>1. LastDeclared = "unmapVc4Registers" => i = 2
    BY <1>1, DeclaredAre
  <2>2. QED  BY <2>1, <1>1, DeclaredAre
<1>5. LastDeclared = "closeRpiq" => "powerDownVc4" \notin armed
  <2>1. LastDeclared = "closeRpiq" => i = 3
    BY <1>1, DeclaredAre
  <2>2. QED  BY <2>1, <1>1, DeclaredAre
<1>6. LastDeclared = "powerDownVc4" => "disableInterrupt" \notin armed
  <2>1. LastDeclared = "powerDownVc4" => i = 4
    BY <1>1, DeclaredAre
  <2>2. QED  BY <2>1, <1>1, DeclaredAre
<1>7. LastDeclared = "disableInterrupt" => "unmapHvsRegisters" \notin armed
  <2>1. LastDeclared = "disableInterrupt" => i = 5
    BY <1>1, DeclaredAre
  <2>2. QED  BY <2>1, <1>1, DeclaredAre
<1>8. LastDeclared = "unmapHvsRegisters" => "unmapPvRegisters" \notin armed
  <2>1. LastDeclared = "unmapHvsRegisters" => i = 6
    BY <1>1, DeclaredAre
  <2>2. QED  BY <2>1, <1>1, DeclaredAre
<1>9. LastDeclared = "unmapPvRegisters" => "unmapBiosFrameBuffer" \notin armed
  <2>1. LastDeclared = "unmapPvRegisters" => i = 7
    BY <1>1, DeclaredAre
  <2>2. QED  BY <2>1, <1>1, DeclaredAre
<1>10. QED  BY <1>2, <1>3, <1>4, <1>5, <1>6, <1>7, <1>8, <1>9

(* A cleanup action of the rollback, from the last to stopKmAdapter, which *)
(* has the thread end.  (The destructors of Start's ROS_FINALLY objects.)  *)
LEMMA FitsRollback == LifecycleInv /\ Rollback => LifecycleInv'
<1> SUFFICES ASSUME LifecycleInv, Rollback PROVE LifecycleInv'
  OBVIOUS
<1> USE DEF LifecycleInv
<1>1. /\ pc = "rollback" /\ armed # {}
      /\ armed' = armed \ {LastDeclared}
      /\ held' = held \ Releases(LastDeclared)
      /\ pc' = IF LastDeclared = "stopKmAdapter" THEN "exit" ELSE "rollback"
      /\ IF LastDeclared = "disableInterrupt"
         THEN ready' = FALSE /\ intEna' = FALSE
         ELSE UNCHANGED <<ready, intEna>>
      /\ UNCHANGED <<kind, adapter, pvIntEn, thread, work>>
  BY DEF Rollback
<1>2. armed \subseteq Cleanups /\ adapter = "starting" /\ kind # "soft"
  BY <1>1 DEF CallInv, HeldInv, ArmedFits, Arming, CallTypes, KindFits
<1>3. LastDeclared \in Cleanups
  BY <1>1, <1>2, LaterHaveRun
<1>4. ThreadTypes' /\ WorkTypes' /\ Accounted'
  <2>1. ThreadTypes'
    BY <1>1 DEF WorkInv, ThreadTypes
  <2>2. WorkTypes'
    BY <1>1 DEF WorkInv, WorkTypes
  <2>3. Accounted'
    BY <1>1 DEF WorkInv, Accounted, Busy
  <2>4. QED  BY <2>1, <2>2, <2>3
<1>5. "thread" \in held <=> "thread" \in held'
  BY <1>1, <1>3 DEF Releases, Cleanups
<1>6. WorkInv'
  <2>1. WorkFits'
    BY <1>1, <1>2, <1>5 DEF WorkInv, WorkFits
  <2>2. QED  BY <2>1, <1>4 DEF WorkInv
<1>7. RegisterInv'
  <2>1. RegisterTypes'
    BY <1>1 DEF RegisterInv, RegisterTypes
  <2>2. PvIntEnFits'
    BY <1>1, <1>2 DEF RegisterInv, PvIntEnFits
  <2>3. IntEnaFits'
    <3>1. CASE LastDeclared = "disableInterrupt"
      BY <3>1, <1>1 DEF IntEnaFits
    <3>2. CASE LastDeclared # "disableInterrupt"
      <4>1. intEna => "disableInterrupt" \in armed
        BY <1>1, <1>2 DEF RegisterInv, IntEnaFits
      <4>2. intEna => LastDeclared # "stopKmAdapter"
        BY <4>1, <1>1, <1>2, LaterHaveRun DEF HeldInv, ArmedInOrder, Arming
      <4>3. QED  BY <3>2, <4>1, <4>2, <1>1, <1>2 DEF IntEnaFits, Arming
    <3>3. QED  BY <3>1, <3>2
  <2>4. ReadyFits'
    BY <1>1, <1>2 DEF RegisterInv, ReadyFits, Arming
  <2>5. QED  BY <2>1, <2>2, <2>3, <2>4 DEF RegisterInv
<1>8. CASE LastDeclared = "stopKmAdapter"
  <2>1. armed = {"stopKmAdapter"}
    BY <1>1, <1>2, <1>8, LaterHaveRun DEF HeldInv, ArmedInOrder, Arming, Cleanups
  <2>2. held = Worker
    BY <2>1, <1>1 DEF HeldInv, HeldTypes, ArmedFits, Arming, Needs, Worker, VC4, Display
  <2>3. armed' = {} /\ held' = Worker /\ pc' = "exit" /\ UNCHANGED <<kind, adapter>>
    BY <2>1, <2>2, <1>1, <1>8 DEF Releases
  <2>4. CallInv'
    BY <2>3, <1>2 DEF CallInv, CallTypes, CallFits, KindFits, StepFits, Arming, Exiting
  <2>5. HeldTypes'
    BY <2>3 DEF HeldTypes, Needs
  <2>6. HeldFits' /\ ArmedFits' /\ ArmedInOrder'
    BY <2>3, <1>2 DEF HeldFits, ArmedFits, ArmedInOrder, Arming, Exiting
  <2>7. QED  BY <2>4, <2>5, <2>6, <1>6, <1>7 DEF HeldInv
<1>9. CASE LastDeclared # "stopKmAdapter"
  <2>1. pc' = "rollback" /\ UNCHANGED <<kind, adapter>>
    BY <1>1, <1>9
  <2>2. CallInv'
    BY <2>1, <1>1, <1>2 DEF CallInv, CallTypes, CallFits, KindFits, StepFits, Arming,
                            Exiting
  <2>3. HeldTypes'
    BY <2>1, <1>1 DEF HeldInv, HeldTypes
  <2>4. HeldFits'
    BY <2>1, <1>2 DEF HeldFits, Exiting
  <2>5. ArmedFits'
    <3>1. HeldInv /\ pc \in Arming
      BY <1>1 DEF Arming
    <3>2. QED
      BY <3>1, <2>1, <1>1, <1>2, <1>3, <1>9 DEF HeldInv, ArmedFits, Arming, Releases,
                                                Cleanups
  <2>6. ArmedInOrder'
    BY <2>1, <1>1, <1>2, LaterHaveRun DEF HeldInv, ArmedInOrder, Arming
  <2>7. QED  BY <2>2, <2>3, <2>4, <2>5, <2>6, <1>6, <1>7 DEF HeldInv
<1>10. QED  BY <1>8, <1>9

-----------------------------------------------------------------------------
(* Theorems. *)

(* A step that changes nothing keeps the invariant.  (Stuttering.)         *)
LEMMA FitsUnchanged == LifecycleInv /\ UNCHANGED vars => LifecycleInv'
<1> SUFFICES ASSUME LifecycleInv, UNCHANGED vars PROVE LifecycleInv'
  OBVIOUS
<1> USE DEF LifecycleInv
<1>1. CallInv' /\ HeldInv'
  BY SameCall
<1>2. RegisterInv'
  BY DEF RegisterInv, RegisterTypes, IntEnaFits, PvIntEnFits, ReadyFits, Arming
<1>3. WorkInv'
  BY ZenonT(60) DEF WorkInv, ThreadTypes, WorkTypes, Accounted, WorkFits, Busy
<1>4. QED  BY <1>1, <1>2, <1>3

(* Every step of Start, Stop, the worker thread and the hardware keeps the *)
(* invariant.  (RosKmdRapAdapter.cpp, RosKmdAdapter.cpp, Vc4Display.cpp.)  *)
LEMMA FitsStep == LifecycleInv /\ [Next]_vars => LifecycleInv'
<1>1. ASSUME LifecycleInv, DriverCall PROVE LifecycleInv'
  BY <1>1, FitsCreateWorkerThread, FitsReferenceWorkerThread, FitsGetDeviceInformation,
     FitsMapRegisters, FitsOpenRpiq, FitsPowerOn, FitsEnableInterrupt, FitsMapHvs, FitsMapPv,
     FitsDisableVsync, FitsMapBios, FitsCheckDisplayList, FitsStartReturn, FitsRollback,
     FitsStartFails, FitsStopDisplay, FitsDisableInterrupt, FitsStopVC4, FitsStopWorker
     DEF DriverCall
<1>2. ASSUME LifecycleInv, WorkerThread PROVE LifecycleInv'
  BY <1>2, FitsWorkerWakes, FitsWorkerChecks, FitsWorkerDequeues, FitsWorkerRenders,
     FitsWorkerNotifies DEF WorkerThread
<1>3. QED
  BY <1>1, <1>2, FitsUnchanged, FitsStartBegin, FitsStopBegin, FitsRemove, FitsSubmit,
     FitsControlInterrupt, FitsGpuFinishes, FitsInterruptRoutine,
     FitsHwDmaBufCompletionDpcRoutine DEF Next

(* The invariant holds in every behaviour.  (The same code.)               *)
LEMMA AlwaysFits == Spec => []LifecycleInv
BY InitFits, FitsStep, PTL DEF Spec

(* A raised interrupt is that of an adapter that was started and has not   *)
(* been stopped to the end.  (V3D_INTENA and IntEn in Stop.)               *)
LEMMA Raised ==
  ASSUME LifecycleInv, RendererInterrupts \/ pvIntEn
  PROVE  /\ kind # "soft" /\ adapter \in {"started", "stopping"}
         /\ {"registers", "power"} \subseteq held
         /\ pvIntEn => "pv" \in held
<1> USE DEF LifecycleInv
<1>1. adapter = "started" => pc = "none"
  BY DEF CallInv, CallFits
<1>2. /\ kind # "soft"
      /\ \/ adapter = "started"
         \/ pc \in {"stop vsync", "unmap display", "disable", "power off"}
  BY DEF RendererInterrupts, WorkInv, WorkFits, RegisterInv, PvIntEnFits
<1>3. adapter \in {"started", "stopping"}
  BY <1>2 DEF CallInv, CallTypes, CallFits, Arming, Exiting
<1>4. {"registers", "power"} \subseteq held
  BY <1>2 DEF HeldInv, HeldFits, Needs, VC4
<1>5. pvIntEn => "pv" \in held
  BY DEF RegisterInv, PvIntEnFits, HeldInv, HeldFits, Needs, Display
<1>6. QED  BY <1>2, <1>3, <1>4, <1>5

(* Where the interrupt routine can be in the middle, step by step.         *)
(* (InterruptRoutine against DdiStartAdapter, Start, Stop and              *)
(* DdiRemoveAdapter.)                                                      *)
LEMMA IsrStep == LifecycleInv /\ IsrFits /\ [Next]_vars => IsrFits'
<1> SUFFICES ASSUME LifecycleInv, IsrFits, [Next]_vars PROVE IsrFits'
  OBVIOUS
<1>1. ASSUME UNCHANGED <<kind, isr>>,
             \/ isr = "idle"
             \/ adapter' = adapter
             \/ adapter' \in {"started", "stopping", "added"}
      PROVE  IsrFits'
  BY <1>1 DEF IsrFits
<1>2. CASE InterruptRoutine
  <2>1. UNCHANGED <<kind, adapter>>
    BY <1>2 DEF InterruptRoutine, InterruptBegins, RendererInterruptRoutine,
                RendererAcknowledges, DisplayInterruptRoutine
  <2>2. CASE InterruptBegins
    <3>1. kind # "soft" /\ adapter \in {"started", "stopping"}
      BY <2>2, Raised DEF InterruptBegins
    <3>2. isr' \in {"idle", "renderer"} \/ (isr' = "display" /\ kind = "display")
      BY <2>2 DEF InterruptBegins
    <3>3. QED  BY <2>1, <3>1, <3>2 DEF IsrFits
  <2>3. CASE RendererInterruptRoutine
    BY <2>1, <2>3 DEF RendererInterruptRoutine, IsrFits
  <2>4. CASE RendererAcknowledges
    BY <2>1, <2>4 DEF RendererAcknowledges, IsrFits
  <2>5. CASE DisplayInterruptRoutine
    BY <2>1, <2>5 DEF DisplayInterruptRoutine, IsrFits
  <2>6. QED  BY <1>2, <2>2, <2>3, <2>4, <2>5 DEF InterruptRoutine
<1>3. CASE WorkerThread \/ Submit \/ ControlInterrupt \/ GpuFinishes
           \/ HwDmaBufCompletionDpcRoutine \/ UNCHANGED vars
  <2>1. UNCHANGED <<kind, isr, adapter>>
    BY <1>3 DEF WorkerThread, WorkerWakes, WorkerChecks, WorkerDequeues, WorkerRenders,
                WorkerNotifies, Submit, ControlInterrupt, GpuFinishes,
                HwDmaBufCompletionDpcRoutine
  <2>2. QED  BY <2>1, <1>1
<1>4. CASE StartBegin \/ StopBegin \/ Remove
  <2>1. UNCHANGED <<kind, isr>> /\ (isr = "idle" \/ adapter' = "stopping")
    BY <1>4 DEF StartBegin, StopBegin, Remove
  <2>2. QED  BY <2>1, <1>1
<1>5. CASE CreateWorkerThread \/ ReferenceWorkerThread \/ GetDeviceInformation
           \/ MapRegisters \/ OpenRpiq \/ PowerOn \/ EnableInterrupt
           \/ MapHvs \/ MapPv \/ DisableVsync \/ MapBios \/ CheckDisplayList
  <2>1. UNCHANGED <<kind, isr, adapter>>
    BY <1>5 DEF CreateWorkerThread, ReferenceWorkerThread, GetDeviceInformation, MapRegisters,
                OpenRpiq, PowerOn, EnableInterrupt, MapHvs, MapPv, DisableVsync, MapBios,
                CheckDisplayList, Acquire
  <2>2. QED  BY <2>1, <1>1
<1>6. CASE StartReturn \/ Rollback \/ StopDisplay \/ DisableInterrupt \/ StopVC4 \/ StopWorker
  <2>1. UNCHANGED <<kind, isr>> /\ (adapter' = adapter \/ adapter' \in {"started", "added"})
    BY <1>6 DEF StartReturn, Rollback, StopDisplay, DisableInterrupt, StopVC4, Release,
                StopWorker
  <2>2. QED  BY <2>1, <1>1
<1>7. CASE StartFails
  <2>1. UNCHANGED <<kind, isr>> /\ pc \in {"failed", "leaked", "rollback"}
    BY <1>7 DEF StartFails
  <2>2. adapter = "starting"
    BY <2>1 DEF LifecycleInv, CallInv, CallFits, Exiting
  <2>3. isr = "idle"
    BY <2>2 DEF IsrFits
  <2>4. QED  BY <2>1, <2>3, <1>1
<1>8. QED
  BY <1>2, <1>3, <1>4, <1>5, <1>6, <1>7 DEF Next, DriverCall

(* It holds in every behaviour.  (The same code.)                          *)
LEMMA AlwaysIsrFits == Spec => []IsrFits
<1>1. Init => IsrFits
  BY DEF Init, IsrFits
<1>2. QED  BY <1>1, IsrStep, AlwaysFits, PTL DEF Spec

(* Every variable has its type, and cleanup actions are armed only inside  *)
(* Start.  (RosKmdAdapter.h, RosKmdRapAdapter::Start.)                     *)
THEOREM LifecycleTypes == Spec => []TypeOK
BY AlwaysFits, AlwaysIsrFits, FitsTypes, PTL

(* The registers that the worker thread uses are mapped, and the VC4 has   *)
(* power, whenever it runs; and so they are for an interrupt routine when  *)
(* it begins, at any step of Start and Stop, and at each of its reads and  *)
(* writes until Stop is called.  (ProcessRenderBuffer and InterruptRoutine *)
(* against Start, its rollback and Stop.)                                  *)
THEOREM RegistersStayReachable == Spec => []RegistersReachable
<1>1. ASSUME LifecycleInv, IsrFits PROVE RegistersReachable
  <2> USE <1>1 DEF LifecycleInv
  <2>1. adapter = "started" => pc = "none"
    BY DEF CallInv, CallFits
  <2>2. (gpu # "idle" \/ worker \in {"rendering", "waiting for gpu"}) =>
          kind # "soft" /\ (\/ adapter = "started"
                            \/ pc \in {"stop vsync", "unmap display", "disable", "power off"})
    <3>1. worker \in {"rendering", "waiting for gpu"} => adapter = "started"
      BY Counts DEF Busy
    <3>2. QED  BY <3>1 DEF WorkInv, WorkFits
  <2>3. kind # "soft" /\ (\/ adapter = "started"
                          \/ pc \in {"stop vsync", "unmap display", "disable", "power off"})
          => {"registers", "power"} \subseteq held
    BY DEF HeldInv, HeldFits, Needs, VC4
  <2>4. RendererInterrupts \/ pvIntEn => {"registers", "power"} \subseteq held
    BY Raised
  <2>5. pvIntEn => "pv" \in held
    BY Raised
  <2>6. ASSUME adapter \notin {"stopping", "added"}, isr # "idle"
        PROVE  InterruptFindsRegisters
    <3>1. adapter = "started" /\ kind # "soft"
      BY <1>1, <2>6 DEF IsrFits
    <3>2. held = Needs(kind)
      BY <3>1 DEF HeldInv, HeldFits
    <3>3. isr \in {"display", "vsync"} => kind = "display"
      BY <1>1 DEF IsrFits
    <3>4. QED
      BY <3>1, <3>2, <3>3 DEF InterruptFindsRegisters, Needs, VC4, Display
  <2>7. isr = "idle" => InterruptFindsRegisters
    BY DEF InterruptFindsRegisters
  <2>8. QED  BY <2>2, <2>3, <2>4, <2>5, <2>6, <2>7 DEF RegistersReachable
<1>2. QED  BY <1>1, AlwaysFits, AlwaysIsrFits, PTL

(* Whatever step of Start fails, and after Stop, an adapter that is not    *)
(* started holds nothing and cannot interrupt; a started one has all it    *)
(* needs.  (Start's ROS_FINALLY objects, RosKmdRapAdapter::Stop.)          *)
THEOREM NothingIsLeftBehind == Spec => []NothingLeftBehind
<1>1. ASSUME LifecycleInv PROVE NothingLeftBehind
  <2> USE <1>1 DEF LifecycleInv
  <2>1. adapter \in {"added", "failed", "leaked", "started"} => pc = "none"
    BY DEF CallInv, CallFits
  <2>2. adapter \in {"added", "failed", "leaked"} => ~intEna /\ ~pvIntEn
    BY <2>1 DEF RegisterInv, RegisterTypes, IntEnaFits, PvIntEnFits, Arming
  <2>3. adapter \in {"added", "failed"} => held = {} /\ worker = "none"
    BY DEF HeldInv, HeldFits, WorkInv, WorkFits
  <2>4. adapter = "leaked" => held \subseteq Worker
    BY DEF HeldInv, HeldFits
  <2>5. adapter = "started" => held = Needs(kind) /\ (kind # "soft" => ready)
    BY DEF HeldInv, HeldFits, RegisterInv, ReadyFits
  <2>6. QED  BY <2>2, <2>3, <2>4, <2>5 DEF NothingLeftBehind
<1>2. QED  BY <1>1, AlwaysFits, PTL

-----------------------------------------------------------------------------
(* What a step uses it holds. *)

(* The body of HeldWhenUsed.                                               *)
UsesHeld ==
  /\ intEna' # intEna => {"registers", "power"} \subseteq held
  /\ ("power" \in held) # ("power" \in held') => "rpiq" \in held
  /\ pvIntEn' # pvIntEn => "pv" \in held
  /\ held \cap Worker # {} /\ held' \cap Worker = {} => worker = "exited"

(* Most steps switch nothing and let nothing go.  (The same code.)         *)
LEMMA KeepsHeld ==
  ASSUME UNCHANGED <<held, intEna, pvIntEn>>
  PROVE  UsesHeld
BY DEF UsesHeld

(* A step that acquires a resource other than the power, which the mailbox *)
(* device must be open for.  (RosKmdRapAdapter::Start.)                    *)
LEMMA AcquiresHeld ==
  ASSUME NEW r \in {"thread", "reference", "registers", "rpiq", "hvs", "pv", "bios"},
         held' \in {held, held \cup {r}}, UNCHANGED <<intEna, pvIntEn>>
  PROVE  UsesHeld
BY DEF UsesHeld, Worker

(* The steps of Start.  (RosKmdRapAdapter::Start, VC4_DISPLAY::StartDevice.) *)
LEMMA StartUsesHeld ==
  ASSUME LifecycleInv,
         \/ CreateWorkerThread \/ ReferenceWorkerThread \/ GetDeviceInformation
         \/ MapRegisters \/ OpenRpiq \/ PowerOn \/ EnableInterrupt
         \/ MapHvs \/ MapPv \/ DisableVsync \/ MapBios \/ CheckDisplayList
  PROVE  UsesHeld
<1> USE DEF LifecycleInv
<1>1. CASE CreateWorkerThread
  BY <1>1, AcquiresHeld DEF CreateWorkerThread
<1>2. CASE ReferenceWorkerThread
  BY <1>2, AcquiresHeld DEF ReferenceWorkerThread
<1>3. CASE GetDeviceInformation
  BY <1>3, KeepsHeld DEF GetDeviceInformation
<1>4. CASE MapRegisters
  BY <1>4, AcquiresHeld DEF MapRegisters, Acquire
<1>5. CASE OpenRpiq
  BY <1>5, AcquiresHeld DEF OpenRpiq, Acquire
<1>6. CASE PowerOn
  <2>1. "rpiq" \in held
    BY <1>6 DEF PowerOn, Acquire, CallInv, StepFits, HeldInv, ArmedFits, Arming
  <2>2. held' \in {held, held \cup {"power"}} /\ UNCHANGED <<intEna, pvIntEn>>
    BY <1>6 DEF PowerOn, Acquire
  <2>3. QED  BY <2>1, <2>2 DEF UsesHeld, Worker
<1>7. CASE EnableInterrupt
  <2>1. pc \in {"enable", "ready"} /\ UNCHANGED <<held, pvIntEn>>
    BY <1>7 DEF EnableInterrupt
  <2>2. {"registers", "power"} \subseteq held
    BY <2>1 DEF CallInv, StepFits, HeldInv, ArmedFits, ArmedInOrder, Arming
  <2>3. QED  BY <2>1, <2>2 DEF UsesHeld
<1>8. CASE MapHvs
  BY <1>8, AcquiresHeld DEF MapHvs, Acquire
<1>9. CASE MapPv
  BY <1>9, AcquiresHeld DEF MapPv, Acquire
<1>10. CASE DisableVsync
  <2>1. pc = "disable vsync" /\ UNCHANGED <<held, intEna>>
    BY <1>10 DEF DisableVsync
  <2>2. "pv" \in held
    BY <2>1 DEF CallInv, StepFits, HeldInv, ArmedFits, Arming
  <2>3. QED  BY <2>1, <2>2 DEF UsesHeld
<1>11. CASE MapBios
  BY <1>11, AcquiresHeld DEF MapBios, Acquire
<1>12. CASE CheckDisplayList
  BY <1>12, KeepsHeld DEF CheckDisplayList
<1>13. QED
  BY <1>1, <1>2, <1>3, <1>4, <1>5, <1>6, <1>7, <1>8, <1>9, <1>10, <1>11, <1>12

(* The cleanup actions of a failed Start: the interrupt is disabled before *)
(* powerDownVc4, that before closeRpiq.  (RosKmdRapAdapter::Start.)        *)
LEMMA RollbackUsesHeld == LifecycleInv /\ Rollback => UsesHeld
<1> SUFFICES ASSUME LifecycleInv, Rollback PROVE UsesHeld
  OBVIOUS
<1> USE DEF LifecycleInv
<1>1. /\ pc = "rollback" /\ armed # {}
      /\ held' = held \ Releases(LastDeclared)
      /\ LastDeclared # "disableInterrupt" => UNCHANGED intEna
      /\ UNCHANGED pvIntEn
  BY DEF Rollback
<1>2. armed \subseteq Cleanups
  BY <1>1 DEF HeldInv, ArmedFits, Arming
<1>3. LastDeclared \in armed
  BY <1>1, <1>2, LaterHaveRun
<1>4. intEna' # intEna => {"registers", "power"} \subseteq held
  BY <1>1, <1>3 DEF HeldInv, ArmedFits, ArmedInOrder, Arming
<1>5. ("power" \in held) # ("power" \in held') => "rpiq" \in held
  <2>1. ("power" \in held) # ("power" \in held') => LastDeclared = "powerDownVc4"
    BY <1>1, <1>2, <1>3 DEF Releases, Cleanups
  <2>2. LastDeclared = "powerDownVc4" => "rpiq" \in held
    BY <1>1, <1>3 DEF HeldInv, ArmedFits, ArmedInOrder, Arming
  <2>3. QED  BY <2>1, <2>2
<1>6. held' \cap Worker = held \cap Worker
  BY <1>1, <1>2, <1>3 DEF Releases, Cleanups, Worker
<1>7. QED  BY <1>1, <1>4, <1>5, <1>6 DEF UsesHeld

(* The steps of Stop.  (RosKmdRapAdapter::Stop, VC4_DISPLAY::StopDevice,   *)
(* RosKmAdapter::Stop.)                                                    *)
LEMMA StopUsesHeld ==
  ASSUME LifecycleInv, StopDisplay \/ DisableInterrupt \/ StopVC4 \/ StopWorker
  PROVE  UsesHeld
<1> USE DEF LifecycleInv
<1>1. CASE StopDisplay
  <2>1. pc = "stop vsync" /\ UNCHANGED <<held, intEna>> => UsesHeld
    <3>1. pc = "stop vsync" => "pv" \in held
      BY DEF CallInv, KindFits, HeldInv, HeldFits, Needs, Display
    <3>2. QED  BY <3>1 DEF UsesHeld
  <2>2. held' = held \ Display /\ UNCHANGED <<intEna, pvIntEn>> => UsesHeld
    BY DEF UsesHeld, Display, Worker
  <2>3. QED  BY <1>1, <2>1, <2>2 DEF StopDisplay
<1>2. CASE DisableInterrupt
  <2>1. pc = "disable" /\ UNCHANGED <<held, pvIntEn>>
    BY <1>2 DEF DisableInterrupt
  <2>2. {"registers", "power"} \subseteq held
    BY <2>1 DEF HeldInv, HeldFits, VC4
  <2>3. QED  BY <2>1, <2>2 DEF UsesHeld
<1>3. CASE StopVC4
  <2>1. UNCHANGED <<intEna, pvIntEn>>
    BY <1>3 DEF StopVC4, Release
  <2>2. \/ pc = "power off" /\ held' = held \ {"power"}
        \/ held' = held \ {"rpiq"}
        \/ held' = held \ {"registers"}
    BY <1>3 DEF StopVC4, Release
  <2>3. pc = "power off" => "rpiq" \in held
    BY DEF HeldInv, HeldFits, VC4
  <2>4. held' \cap Worker = held \cap Worker
    BY <2>2 DEF Worker
  <2>5. ("power" \in held) # ("power" \in held') => "rpiq" \in held
    <3>1. CASE pc = "power off"
      BY <3>1, <2>3
    <3>2. CASE held' = held \ {"rpiq"} \/ held' = held \ {"registers"}
      <4>1. "power" \in held <=> "power" \in held'
        BY <3>2
      <4>2. QED  BY <4>1
    <3>3. QED  BY <3>1, <3>2, <2>2
  <2>6. QED  BY <2>1, <2>4, <2>5 DEF UsesHeld
<1>4. CASE StopWorker
  <2>1. UNCHANGED <<intEna, pvIntEn>>
    BY <1>4 DEF StopWorker
  <2>2. UNCHANGED held \/ (worker = "exited" /\ held' = held \ Worker)
    BY <1>4 DEF StopWorker
  <2>3. QED  BY <2>1, <2>2 DEF UsesHeld, Worker
<1>5. QED  BY <1>1, <1>2, <1>3, <1>4

(* Any step.  (The same code; Dxgkrnl switches the vertical sync only      *)
(* while the adapter is started.)                                          *)
LEMMA StepUsesHeld == LifecycleInv /\ [Next]_vars => [UsesHeld]_vars
<1>1. ASSUME LifecycleInv, ControlInterrupt PROVE UsesHeld
  <2>1. "pv" \in held /\ UNCHANGED <<held, intEna>>
    BY <1>1 DEF ControlInterrupt, LifecycleInv, HeldInv, HeldFits, Needs, Display
  <2>2. QED  BY <2>1 DEF UsesHeld
<1>2. ASSUME LifecycleInv, DriverCall PROVE UsesHeld
  <2>1. CASE StartReturn \/ StartFails
    <3>1. UNCHANGED <<held, intEna, pvIntEn>>
      BY <2>1 DEF StartReturn, StartFails
    <3>2. QED  BY <3>1, KeepsHeld
  <2>2. QED  BY <1>2, <2>1, StartUsesHeld, RollbackUsesHeld, StopUsesHeld DEF DriverCall
<1>3. ASSUME WorkerThread PROVE UsesHeld
  <2>1. UNCHANGED <<held, intEna, pvIntEn>>
    BY <1>3 DEF WorkerThread, WorkerWakes, WorkerChecks, WorkerDequeues, WorkerRenders,
                WorkerNotifies
  <2>2. QED  BY <2>1, KeepsHeld
<1>4. ASSUME \/ StartBegin \/ StopBegin \/ Remove \/ Submit
             \/ GpuFinishes \/ InterruptRoutine \/ HwDmaBufCompletionDpcRoutine
      PROVE  UsesHeld
  <2>1. UNCHANGED <<held, intEna, pvIntEn>>
    BY <1>4 DEF StartBegin, StopBegin, Remove, Submit, GpuFinishes, InterruptRoutine,
                InterruptBegins, RendererInterruptRoutine, RendererAcknowledges,
                DisplayInterruptRoutine, HwDmaBufCompletionDpcRoutine
  <2>2. QED  BY <2>1, KeepsHeld
<1>5. QED  BY <1>1, <1>2, <1>3, <1>4 DEF Next

(* What Start, its rollback and Stop switch, they switch while they hold   *)
(* the means to, and the thread is let go only after it has ended.         *)
(* (RosKmdRapAdapter.cpp, Vc4Display.cpp, RosKmAdapter::Stop.)             *)
THEOREM HeldWhileUsed == Spec => HeldWhenUsed
<1>1. LifecycleInv /\ [Next]_vars => [UsesHeld]_vars
  BY StepUsesHeld
<1>2. Spec => [][UsesHeld]_vars
  BY <1>1, AlwaysFits, PTL DEF Spec
<1>3. QED  BY <1>2 DEF HeldWhenUsed, UsesHeld
==============================================================================
