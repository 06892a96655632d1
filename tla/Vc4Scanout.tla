------------------------------ MODULE Vc4Scanout ------------------------------
(***************************************************************************)
(* Flips and the vertical sync interrupt of the VC4 display                *)
(* (roskmd/Vc4Display.cpp).  Three parties run at once: Dxgkrnl, which     *)
(* flips from one buffer to the next and reuses a buffer once it is told   *)
(* that its successor is shown; the interrupt routine, which tells it; and *)
(* the hardware.  The scaler (HVS) reads the address of the buffer from    *)
(* the display list when a frame starts and reads that buffer until the    *)
(* vertical front porch, where the PixelValve raises VfpStart.             *)
(*                                                                         *)
(* The driver writes the address twice, into the display list for the      *)
(* scaler and into a field for the interrupt routine, which can run        *)
(* between the two writes.  ControlInterrupt and the interrupt routine     *)
(* are sequences of register accesses as well.                             *)
(*                                                                         *)
(* Timing is assumed twice.  FrameStart: the interrupt routine reports a   *)
(* VfpStart before the blanking that VfpStart begins has passed.  VfpStart *)
(* and StartDevice: it has acknowledged one and returned before the next   *)
(* one comes, a frame later, and before the device is started again.  What *)
(* a routine finds that is still under way when StopDevice unmaps the      *)
(* registers is in RosKmdLifecycle.                                        *)
(***************************************************************************)
EXTENDS Naturals

CONSTANTS
    Buffers,        \* primaries in video memory
    FirstBuffer,    \* the one at offset 0 of the segment
    Bios,           \* the frame buffer of the firmware
    None

ASSUME BuffersAssumption ==
    /\ FirstBuffer \in Buffers
    /\ Bios \notin Buffers
    /\ None \notin Buffers \cup {Bios}

VARIABLES
    device,             \* "stopped", "started", "stopping" (IntEn cleared)
    \* registers and hardware
    displayList,        \* PointerWord0 of the active display list
    intStat,            \* VfpStart of the PixelValve's IntStat
    intEn,
    beam,               \* "active": the scaler reads a buffer; "porch"
    scanned,            \* the buffer of the frame being shown
    \* the driver
    currentVidPnSourceAddress,
    flip,               \* next write of SetVidPnSourceAddress
    control,            \* next write of ControlInterrupt
    isr,                \* next access of InterruptRoutine
    \* Dxgkrnl
    displayed,          \* the buffer it takes to be shown
    pending             \* the buffer of the flip not yet reported

hardware == <<displayList, intStat, intEn, beam, scanned>>
driver == <<currentVidPnSourceAddress, flip, control, isr>>
dxgkrnl == <<displayed, pending>>
vars == <<device, hardware, driver, dxgkrnl>>

Init ==
    /\ device = "stopped"
    /\ displayList = Bios
    /\ intStat = FALSE
    /\ intEn = FALSE
    /\ beam = "active"
    /\ scanned = Bios
    /\ currentVidPnSourceAddress = FirstBuffer   \* the field starts as 0
    /\ flip = "idle"
    /\ control = "idle"
    /\ isr = "idle"
    /\ displayed = None
    /\ pending = None

-----------------------------------------------------------------------------
(* The hardware *)

\* The interrupt is asserted and not reported yet.
Unreported == isr = "notify" \/ (isr = "idle" /\ intStat /\ intEn)

VfpStart ==
    /\ beam = "active"
    /\ isr = "idle"
    /\ beam' = "porch"
    /\ intStat' = TRUE
    /\ UNCHANGED <<device, displayList, intEn, scanned, driver, dxgkrnl>>

\* The timing assumption: no frame starts while a VfpStart is unreported.
FrameStart ==
    /\ beam = "porch"
    /\ ~ Unreported
    /\ beam' = "active"
    /\ scanned' = displayList
    /\ UNCHANGED <<device, displayList, intStat, intEn, driver, dxgkrnl>>

-----------------------------------------------------------------------------
(* StartDevice and StopDevice *)

\* StartDevice clears IntEn and insists that the display list points to the
\* firmware's buffer.  It leaves the reported address as it was.
StartDevice ==
    /\ device = "stopped"
    /\ isr = "idle"
    /\ intEn' = FALSE
    /\ device' = IF displayList = Bios THEN "started" ELSE "failed"
    /\ UNCHANGED <<displayList, intStat, beam, scanned, driver, dxgkrnl>>

Quiet == flip = "idle" /\ control = "idle"

StopDevice ==
    /\ device = "started"
    /\ Quiet
    /\ device' = "stopping"
    /\ intEn' = FALSE
    /\ UNCHANGED <<displayList, intStat, beam, scanned, driver, dxgkrnl>>

\* mutant
StopWithoutRestore ==
    /\ device = "stopping"
    /\ device' = "stopped"
    /\ displayed' = None
    /\ pending' = None
    /\ UNCHANGED <<hardware, driver>>

\* "Make the BIOS frame buffer active before freeing system buffers"; then
\* the registers are unmapped and Dxgkrnl frees the primaries.
StopRestoresBios ==
    /\ device = "stopping"
    /\ displayList' = Bios
    /\ device' = "stopped"
    /\ displayed' = None
    /\ pending' = None
    /\ UNCHANGED <<intStat, intEn, beam, scanned, driver>>

-----------------------------------------------------------------------------
(* SetVidPnSourceAddress, without the ModeChange flag *)

\* One flip at a time (MaxQueuedFlipOnVSync), with the interrupt on.  An
\* interrupt left from before the frame is taken first.
FlipBegin ==
    /\ device = "started"
    /\ Quiet
    /\ intEn
    /\ pending = None
    /\ ~ (beam = "active" /\ Unreported)
    /\ \E b \in Buffers \ {displayed} : pending' = b
    /\ flip' = "register"
    /\ UNCHANGED <<device, hardware, currentVidPnSourceAddress, control, isr,
                   displayed>>

\* The buffer of the call in progress: reported early, it is the displayed one.
Args == IF pending = None THEN displayed ELSE pending

\* mutant
FlipFieldFirst ==
    /\ \/ /\ flip = "register"
          /\ currentVidPnSourceAddress' = Args
          /\ flip' = "field"
          /\ UNCHANGED displayList
       \/ /\ flip = "field"
          /\ displayList' = Args
          /\ flip' = "idle"
          /\ UNCHANGED currentVidPnSourceAddress
    /\ UNCHANGED <<device, intStat, intEn, beam, scanned, control, isr, dxgkrnl>>

\* mutant
FlipRegisterOnly ==
    /\ flip = "register"
    /\ displayList' = Args
    /\ flip' = "idle"
    /\ UNCHANGED <<device, intStat, intEn, beam, scanned,
                   currentVidPnSourceAddress, control, isr, dxgkrnl>>

FlipWrite ==
    /\ \/ /\ flip = "register"
          /\ displayList' = Args
          /\ flip' = "field"
          /\ UNCHANGED currentVidPnSourceAddress
       \/ /\ flip = "field"
          /\ currentVidPnSourceAddress' = Args
          /\ flip' = "idle"
          /\ UNCHANGED displayList
    /\ UNCHANGED <<device, intStat, intEn, beam, scanned, control, isr, dxgkrnl>>

-----------------------------------------------------------------------------
(* ControlInterrupt: the flag is cleared before IntEn is set, and after it  *)
(* is reset.  Dxgkrnl turns the interrupt off when it awaits no flip.       *)

ControlBegin ==
    /\ device = "started"
    /\ Quiet
    /\ \/ ~ intEn /\ control' = "clear then enable"
       \/ intEn /\ pending = None /\ control' = "disable then clear"
    /\ UNCHANGED <<device, hardware, currentVidPnSourceAddress, flip, isr,
                   dxgkrnl>>

ControlWrite ==
    /\ \/ /\ control = "clear then enable"
          /\ intStat' = FALSE /\ control' = "enable" /\ UNCHANGED intEn
       \/ /\ control = "enable"
          /\ intEn' = TRUE /\ control' = "idle" /\ UNCHANGED intStat
       \/ /\ control = "disable then clear"
          /\ intEn' = FALSE /\ control' = "clear" /\ UNCHANGED intStat
       \/ /\ control = "clear"
          /\ intStat' = FALSE /\ control' = "idle" /\ UNCHANGED intEn
    /\ UNCHANGED <<device, displayList, beam, scanned, currentVidPnSourceAddress,
                   flip, isr, dxgkrnl>>

-----------------------------------------------------------------------------
(* InterruptRoutine *)

IsrRead ==
    /\ isr = "idle"
    /\ intStat /\ intEn
    /\ isr' = "notify"
    /\ UNCHANGED <<device, hardware, currentVidPnSourceAddress, flip, control,
                   dxgkrnl>>

\* DxgkCbNotifyInterrupt(CRTC_VSYNC): the flip to the reported address is done.
IsrNotify ==
    /\ isr = "notify"
    /\ isr' = "ack"
    /\ IF pending # None /\ pending = currentVidPnSourceAddress
       THEN displayed' = pending /\ pending' = None
       ELSE UNCHANGED dxgkrnl
    /\ UNCHANGED <<device, hardware, currentVidPnSourceAddress, flip, control>>

IsrAck ==
    /\ isr = "ack"
    /\ isr' = "idle"
    /\ intStat' = FALSE
    /\ UNCHANGED <<device, displayList, intEn, beam, scanned,
                   currentVidPnSourceAddress, flip, control, dxgkrnl>>

-----------------------------------------------------------------------------

Hardware == VfpStart \/ FrameStart
Isr == IsrRead \/ IsrNotify \/ IsrAck
Next ==
    \/ VfpStart \/ FrameStart
    \/ StartDevice \/ StopDevice \/ StopRestoresBios
    \/ FlipBegin \/ FlipWrite \/ ControlBegin \/ ControlWrite
    \/ IsrRead \/ IsrNotify \/ IsrAck

\* The display runs by itself, the processor takes interrupts, and a driver
\* call that has begun goes on.  Dxgkrnl need not call anything.
Spec ==
    /\ Init /\ [][Next]_vars
    /\ WF_vars(Hardware) /\ WF_vars(Isr)
    /\ WF_vars(FlipWrite) /\ WF_vars(ControlWrite) /\ WF_vars(StopRestoresBios)

-----------------------------------------------------------------------------
(* Properties *)

\* The types of the variables (Vc4Display.h, Vc4PixelValve.h).
TypeOK ==
    /\ device \in {"stopped", "started", "stopping", "failed"}
    /\ displayList \in Buffers \cup {Bios}
    /\ intStat \in BOOLEAN
    /\ intEn \in BOOLEAN
    /\ beam \in {"active", "porch"}
    /\ scanned \in Buffers \cup {Bios}
    /\ currentVidPnSourceAddress \in Buffers
    /\ flip \in {"idle", "register", "field"}
    /\ control \in {"idle", "clear then enable", "enable", "disable then clear",
                    "clear"}
    /\ isr \in {"idle", "notify", "ack"}
    /\ displayed \in Buffers \cup {None}
    /\ pending \in Buffers \cup {None}

\* "Notify framework that previous active buffer is now safe to use again":
\* while the device is started the scaler never reads a primary that Dxgkrnl
\* has been told is free, whatever the order of flips and interrupts.
FreeIsNotScanned ==
    device = "started" /\ beam = "active" /\ scanned \in Buffers
    /\ displayed # None
    => scanned \in {displayed, pending}

\* A device that was stopped can be started again: StartDevice finds the
\* display list as it demands it to be, on the firmware's buffer.
StartFindsBios == device # "failed"

\* Every flip is reported, unless the device is stopped first.
FlipIsReported == (pending # None) ~> (pending = None)

=============================================================================
