--------------------------- MODULE Vc4DisplayProofs ---------------------------
(***************************************************************************)
(* The two halves of the VC4 display.  They share no state, and each has   *)
(* an invariant of its own.                                                *)
(*                                                                         *)
(* For every set of buffers, the flips of Vc4Scanout are reported in time: *)
(* a primary that Dxgkrnl takes to be free is not the one that the scaler  *)
(* reads, and StopDevice leaves the display list as StartDevice wants it.  *)
(*                                                                         *)
(* The negotiation of Vc4VidPn for every sequence of calls and of failing  *)
(* callbacks: a call gives back or hands over each handle it was given,    *)
(* what the driver has offered is what it commits, an enumeration leaves   *)
(* pinned mode sets alone, and a commit is atomic.                         *)
(***************************************************************************)
EXTENDS Vc4Scanout, Vc4VidPn, TLAPS

-----------------------------------------------------------------------------
(* Flips and the vertical sync interrupt. *)

USE BuffersAssumption
USE DEF vars, hardware, driver, dxgkrnl

(* The driver's calls run on a started device, one at a time, and no       *)
(* primary is displayed while the device is stopped.                       *)
Calls ==
  /\ device # "started" => Quiet
  /\ flip = "idle" \/ control = "idle"
  /\ device = "stopped" => displayList = Bios /\ displayed = None /\ pending = None
  /\ device # "failed"

(* What the two copies of the address hold, at each point of a flip.  Only *)
(* the first flip after StartDevice can be reported early, when the field  *)
(* still has the address from before: then pending is None during the call.*)
Settled(b) == displayList = b /\ currentVidPnSourceAddress = b
BeforeFlip ==
  \/ displayed = None /\ displayList = Bios
  \/ displayed # None /\ Settled(displayed)
Copies ==
  /\ pending # None => pending # displayed
  /\ flip = "idle" => IF pending = None THEN BeforeFlip ELSE Settled(pending)
  /\ flip = "register" /\ pending # None => BeforeFlip
  /\ flip = "register" /\ pending = None =>
       displayed # None /\ displayList = Bios /\ currentVidPnSourceAddress = displayed
  /\ flip = "field" =>
       /\ displayList = Args
       /\ pending = None => displayed # None
       /\ displayed # None => currentVidPnSourceAddress = displayed

(* Dxgkrnl keeps the interrupt on while it waits for a flip, and what the  *)
(* hardware asserted for an earlier frame is not taken for that flip.      *)
InterruptForFlip ==
  /\ pending # None /\ device = "started" => intEn /\ control = "idle"
  /\ pending # None /\ beam = "active" => ~ Unreported

(* A frame that began when a primary was displayed shows it or its         *)
(* successor, on a started device and while it is being stopped.           *)
FrameIsOwned ==
  beam = "active" /\ scanned \in Buffers /\ displayed # None
    => scanned \in {displayed, pending}

ScanoutInv == TypeOK /\ Calls /\ Copies /\ InterruptForFlip /\ FrameIsOwned

(* The firmware's buffer is shown before StartDevice. *)
LEMMA ScanoutInit == Init => ScanoutInv
  BY DEF Init, ScanoutInv, TypeOK, Calls, Quiet, Copies, BeforeFlip, InterruptForFlip,
     FrameIsOwned

(* The scaler takes the address of one of the two copies' buffers, and     *)
(* the timing assumption keeps an unreported frame in the porch.           *)
LEMMA HardwareStep ==
  ASSUME ScanoutInv, Hardware
  PROVE  ScanoutInv'
<1> USE DEF ScanoutInv, TypeOK, Calls, Quiet, Copies, BeforeFlip, Settled, Args,
            InterruptForFlip, FrameIsOwned, Unreported
<1>1. CASE VfpStart
  BY ZenonT(60), <1>1 DEF VfpStart
<1>2. CASE FrameStart
  BY ZenonT(60), <1>2 DEF FrameStart
<1> QED
  BY <1>1, <1>2 DEF Hardware

(* StartDevice, StopDevice and the end of StopDevice. *)
LEMMA DeviceStep ==
  ASSUME ScanoutInv, StartDevice \/ StopDevice \/ StopRestoresBios
  PROVE  ScanoutInv'
<1> USE DEF ScanoutInv, TypeOK, Calls, Quiet, Copies, BeforeFlip, Settled, Args,
            InterruptForFlip, FrameIsOwned, Unreported
<1>1. CASE StartDevice
  BY <1>1 DEF StartDevice
<1>2. CASE StopDevice
  BY ZenonT(60), <1>2 DEF StopDevice
<1>3. CASE StopRestoresBios
  BY <1>3 DEF StopRestoresBios
<1> QED
  BY <1>1, <1>2, <1>3

(* The two writes of SetVidPnSourceAddress and those of ControlInterrupt. *)
LEMMA CallStep ==
  ASSUME ScanoutInv, FlipBegin \/ FlipWrite \/ ControlBegin \/ ControlWrite
  PROVE  ScanoutInv'
<1> USE DEF ScanoutInv, TypeOK, Calls, Quiet, Copies, BeforeFlip, Settled, Args,
            InterruptForFlip, FrameIsOwned, Unreported
<1>1. CASE FlipBegin
  BY <1>1 DEF FlipBegin
<1>2. CASE FlipWrite
  BY ZenonT(60), <1>2 DEF FlipWrite
<1>3. CASE ControlBegin
  BY ZenonT(60), <1>3 DEF ControlBegin
<1>4. CASE ControlWrite
  BY ZenonT(60), <1>4 DEF ControlWrite
<1> QED
  BY <1>1, <1>2, <1>3, <1>4

(* The interrupt routine reports a flip in the porch only: the next frame  *)
(* has its buffer.                                                         *)
LEMMA IsrStep ==
  ASSUME ScanoutInv, Isr
  PROVE  ScanoutInv'
<1> USE DEF ScanoutInv, TypeOK, Calls, Quiet, Copies, BeforeFlip, Settled, Args,
            InterruptForFlip, FrameIsOwned, Unreported
<1>1. CASE IsrRead
  BY ZenonT(60), <1>1 DEF IsrRead
<1>2. CASE IsrNotify
  BY ZenonT(60), <1>2 DEF IsrNotify
<1>3. CASE IsrAck
  BY ZenonT(60), <1>3 DEF IsrAck
<1> QED
  BY <1>1, <1>2, <1>3 DEF Isr

(* No step of hardware, driver or Dxgkrnl breaks the invariant. *)
LEMMA ScanoutStep ==
  ASSUME ScanoutInv, [Next]_vars
  PROVE  ScanoutInv'
<1>1. CASE UNCHANGED vars
  <2>1. TypeOK' /\ Calls'
    BY ZenonT(60), <1>1 DEF ScanoutInv, TypeOK, Calls, Quiet
  <2>2. Copies'
    BY <1>1 DEF ScanoutInv, Copies, BeforeFlip, Settled, Args
  <2>3. InterruptForFlip' /\ FrameIsOwned'
    BY <1>1 DEF ScanoutInv, InterruptForFlip, FrameIsOwned, Unreported
  <2> QED
    BY <2>1, <2>2, <2>3 DEF ScanoutInv
<1> QED
  BY <1>1, HardwareStep, DeviceStep, CallStep, IsrStep DEF Next, Hardware, Isr

(* The invariant holds throughout; the fairness of Spec is not needed. *)
LEMMA ScanoutInvariant == Spec => []ScanoutInv
  BY ScanoutInit, ScanoutStep, PTL DEF Spec

(* The variables keep their types. *)
THEOREM ScanoutTypes == Spec => []TypeOK
<1>1. ScanoutInv => TypeOK
  BY DEF ScanoutInv
<1> QED
  BY <1>1, ScanoutInvariant, PTL

(* SetVidPnSourceAddress and the interrupt routine, in any order of their  *)
(* register accesses: the scaler reads no primary that the vertical sync   *)
(* interrupt has reported free.                                            *)
THEOREM FreedPrimaryIsNotRead == Spec => []FreeIsNotScanned
<1>1. ScanoutInv => FreeIsNotScanned
  BY DEF ScanoutInv, FrameIsOwned, FreeIsNotScanned
<1> QED
  BY <1>1, ScanoutInvariant, PTL

(* StartDevice never fails for what an earlier StopDevice left behind. *)
THEOREM RestartFindsBios == Spec => []StartFindsBios
<1>1. ScanoutInv => StartFindsBios
  BY DEF ScanoutInv, Calls, StartFindsBios
<1> QED
  BY <1>1, ScanoutInvariant, PTL

HIDE BuffersAssumption
HIDE DEF vars, hardware, driver, dxgkrnl

-----------------------------------------------------------------------------
(* The negotiation of a VidPn. *)

(* Which callbacks a call comes by. *)
Route ==
  [none |-> {"none"},
   IsSupportedVidPn |->
     {"QueryVidPnInterface", "GetTopology", "GetNumPaths", "AcquireFirstPathInfo"},
   EnumVidPnCofuncModality |->
     {"QueryVidPnInterface", "GetTopology", "AcquireFirstPathInfo", "AcquireModeSet",
      "AcquirePinnedModeInfo", "CreateNewModeSet", "CreateNewModeInfo", "AddMode",
      "AssignModeSet", "UpdatePathSupportInfo", "AcquireNextPathInfo"},
   CommitVidPn |->
     {"QueryVidPnInterface", "GetTopology", "GetNumPaths", "AcquireModeSet",
      "AcquirePinnedModeInfo", "GetNumPathsFromSource", "EnumPathTargetsFromSource",
      "AcquirePathInfo"},
   RecommendMonitorModes |-> {"CreateNewModeInfo", "AddMode"}]

CallInv ==
  /\ call.op \in DOMAIN Route
  /\ call.at \in Route[call.op]
  /\ call.op = "none" => call = NoCall

(* A finalizer is armed for exactly the handles that the driver holds.     *)
(* RecommendMonitorModes holds no more than the mode it hands over.        *)
HandleInv ==
  /\ armed = acquired
  /\ call.op = "none" => acquired = {}
  /\ call.op = "RecommendMonitorModes" =>
       acquired = IF call.at = "AddMode" THEN {"newMode"} ELSE {}

(* EnumVidPnCofuncModality works on the mode set of a side that is not the *)
(* pivot, and replaces it when no mode is pinned in it.                    *)
EnumInv ==
  call.op = "EnumVidPnCofuncModality" =>
    /\ call.side \in {"source", "target"}
    /\ call.at \in {"QueryVidPnInterface", "GetTopology", "AcquireFirstPathInfo"} =>
         call.side = "source"
    /\ call.at \in {"AcquireModeSet", "AcquirePinnedModeInfo", "CreateNewModeSet",
                    "CreateNewModeInfo", "AddMode", "AssignModeSet"} => ~ IsPivot(call.side)
    /\ call.at \in {"CreateNewModeSet", "CreateNewModeInfo", "AddMode", "AssignModeSet"} =>
         vidpn.pin[call.side] = NoMode

(* Everything a negotiated VidPn offers and pins is the driver's. *)
OfferInv ==
  /\ vidpn.scalingSupport \subseteq {"identity"}
  /\ vidpn.rotationSupport \subseteq {"identity"}
  /\ vidpn.negotiated =>
       /\ vidpn.set.source \subseteq {DisplayMode}
       /\ vidpn.pin.source \in {DisplayMode, NoMode}
       /\ vidpn.scaling \in {"unpinned", "identity"}
       /\ vidpn.rotation \in {"unpinned", "identity"}

(* CommitVidPn looks at the paths once it has found the pinned mode to be  *)
(* one of the display, which nobody changes in the meantime.               *)
CommitInv ==
  call.at \in {"GetNumPathsFromSource", "EnumPathTargetsFromSource", "AcquirePathInfo"} =>
    vidpn.pin.source.size = "display"

VidPnInv ==
  /\ VidPnTypeOK /\ CallInv /\ HandleInv /\ EnumInv /\ OfferInv /\ CommitInv
  /\ NegotiatedIsCommitted

(* After the mode sets of a side comes the other side's, or the path. *)
LEMMA AfterSideGoes ==
  ASSUME VidPnTypeOK, NEW side, AfterSide(side)
  PROVE  \E s \in Sides, at \in Callbacks :
           /\ call' = [op |-> call.op, at |-> at, side |-> s, pivot |-> call.pivot]
           /\ \/ s = "target" /\ at = "AcquireModeSet" /\ ~ IsPivot("target")
              \/ s = call.side /\ at \in {"UpdatePathSupportInfo", "AcquireNextPathInfo"}
<1>0. call.side \in Sides
  BY DEF VidPnTypeOK
<1>c. call = [op |-> call.op, at |-> call.at, side |-> call.side, pivot |-> call.pivot]
  BY DEF VidPnTypeOK
<1>1. CASE side = "source" /\ ~ IsPivot("target")
  <2>1. call' = [op |-> call.op, at |-> "AcquireModeSet", side |-> "target", pivot |-> call.pivot]
    BY <1>1, <1>c DEF AfterSide, VidPnTypeOK
  <2> QED
    BY <2>1, <1>1 DEF Sides, Callbacks
<1>2. CASE ~ (side = "source" /\ ~ IsPivot("target"))
  <2>1. PICK at \in {"UpdatePathSupportInfo",
        "AcquireNextPathInfo"} : call' = [call EXCEPT !.at = at]
    BY <1>2 DEF AfterSide, GoTo
  <2>2. call' = [op |-> call.op, at |-> at, side |-> call.side, pivot |-> call.pivot]
    BY <2>1, <1>c DEF VidPnTypeOK
  <2> QED
    BY <2>2, <1>0 DEF Callbacks
<1> QED
  BY <1>1, <1>2

(* A call starts at its first callback, on the source's side or, for the   *)
(* modes of the monitor, on the monitor's.                                 *)
LEMMA CallDdiCalls ==
  ASSUME CallDdi
  PROVE  \E op \in Ops, at \in Callbacks, side \in Sides, p \in Pivots \cup {NoPivot} :
           /\ call' = [op |-> op, at |-> at, side |-> side, pivot |-> p]
           /\ \/ op # "RecommendMonitorModes" /\ at = "QueryVidPnInterface" /\ side = "source"
                 /\ op # "ModeChange"
              \/ op = "RecommendMonitorModes" /\ at = "CreateNewModeInfo" /\ side = "monitor"
<1>1. ASSUME NEW op \in {"IsSupportedVidPn", "CommitVidPn"},
             call' = [NoCall EXCEPT !.op = op, !.at = "QueryVidPnInterface"]
      PROVE  call' = [op |-> op, at |-> "QueryVidPnInterface", side |-> "source",
            pivot |-> NoPivot]
  BY <1>1 DEF NoCall
<1>2. ASSUME NEW p \in Pivots,
             call' = [NoCall EXCEPT !.op = "EnumVidPnCofuncModality",
                                    !.at = "QueryVidPnInterface", !.pivot = p]
      PROVE  call' = [op |-> "EnumVidPnCofuncModality", at |-> "QueryVidPnInterface",
                      side |-> "source", pivot |-> p]
  BY <1>2 DEF NoCall
<1>3. ASSUME call' = [NoCall EXCEPT !.op = "RecommendMonitorModes",
                                    !.at = "CreateNewModeInfo", !.side = "monitor"]
      PROVE  call' = [op |-> "RecommendMonitorModes", at |-> "CreateNewModeInfo",
                      side |-> "monitor", pivot |-> NoPivot]
  BY <1>3 DEF NoCall
<1>4. CASE \E op \in {"IsSupportedVidPn", "CommitVidPn"} :
             call' = [NoCall EXCEPT !.op = op, !.at = "QueryVidPnInterface"]
  <2>1. PICK op \in {"IsSupportedVidPn", "CommitVidPn"} : 
             call' = [NoCall EXCEPT !.op = op, !.at = "QueryVidPnInterface"]
    BY <1>4
  <2>2. call' = [op |-> op, at |-> "QueryVidPnInterface", side |-> "source", pivot |-> NoPivot]
    BY <2>1, <1>1
  <2> QED
    BY <2>2 DEF Ops, Callbacks, Sides
<1>5. CASE \E p \in Pivots :
             call' = [NoCall EXCEPT !.op = "EnumVidPnCofuncModality",
                                    !.at = "QueryVidPnInterface", !.pivot = p]
  <2>1. PICK p \in Pivots : 
             call' = [NoCall EXCEPT !.op = "EnumVidPnCofuncModality",
                                    !.at = "QueryVidPnInterface", !.pivot = p]
    BY <1>5
  <2>2. call' = [op |-> "EnumVidPnCofuncModality", at |-> "QueryVidPnInterface",
                      side |-> "source", pivot |-> p]
    BY <2>1, <1>2
  <2> QED
    BY <2>2 DEF Ops, Callbacks, Sides
<1>6. CASE call' = [NoCall EXCEPT !.op = "RecommendMonitorModes",
                                    !.at = "CreateNewModeInfo", !.side = "monitor"]
  <2>2. call' = [op |-> "RecommendMonitorModes", at |-> "CreateNewModeInfo",
                      side |-> "monitor", pivot |-> NoPivot]
    BY <1>6, <1>3
  <2> QED
    BY <2>2 DEF Ops, Callbacks, Sides
<1> QED
  BY <1>4, <1>5, <1>6 DEF CallDdi

(* No handle is held when Dxgkrnl calls the driver. *)
LEMMA CallDdiStep == VidPnInv /\ CallDdi => VidPnInv'
<1> SUFFICES ASSUME VidPnInv, CallDdi PROVE VidPnInv'
  OBVIOUS
<1>0. PICK op \in Ops, at \in Callbacks, side \in Sides, p \in Pivots \cup {NoPivot} :
           /\ call' = [op |-> op, at |-> at, side |-> side, pivot |-> p]
           /\ \/ op # "RecommendMonitorModes" /\ at = "QueryVidPnInterface" /\ side = "source"
                 /\ op # "ModeChange"
              \/ op = "RecommendMonitorModes" /\ at = "CreateNewModeInfo" /\ side = "monitor"
  BY CallDdiCalls
<1>a. /\ call = NoCall /\ acquired = {} /\ armed = {}
      /\ result' = NoResult
      /\ UNCHANGED <<vidpn, monitorModes, acquired, armed, dxgkCurrentSourceMode>>
  BY DEF CallDdi, Idle, VidPnInv, HandleInv, NoCall
<1>1. VidPnTypeOK'
  <2>1. call' \in [op : Ops \cup {"none"}, at : Callbacks \cup {"none"},
                   side : Sides, pivot : Pivots \cup {NoPivot}]
    BY <1>0
  <2> QED
    BY <1>a, <2>1 DEF VidPnTypeOK, VidPnInv, NoResult
<1>2. CallInv'
  BY <1>0 DEF CallInv, Route, Ops
<1>3. HandleInv'
  BY <1>a, <1>0 DEF HandleInv
<1>4. EnumInv'
  BY <1>0 DEF EnumInv
<1>5. OfferInv'
  BY <1>a DEF OfferInv, VidPnInv
<1>6. CommitInv'
  BY <1>0 DEF CommitInv
<1>7. NegotiatedIsCommitted'
  BY <1>a DEF NegotiatedIsCommitted, NoResult
<1> QED
  BY <1>1, <1>2, <1>3, <1>4, <1>5, <1>6, <1>7 DEF VidPnInv

(* What Dxgkrnl proposes is a VidPn in which nothing was offered yet, or   *)
(* one that was not negotiated.                                            *)
LEMMA NewVidPnProposes ==
  ASSUME VidPnTypeOK, NewVidPn
  PROVE  vidpn' \in VidPns /\ OfferInv'
<1> USE DEF EmptyVidPn
<1>1. ASSUME NEW n \in 0 .. 1, vidpn' = EmptyVidPn(n)
      PROVE  vidpn' \in VidPns /\ OfferInv'
  <2>1. vidpn' \in VidPns
    BY <1>1 DEF VidPns, Scalings, Rotations
  <2>2. OfferInv'
    BY <1>1 DEF OfferInv, NoMode
  <2> QED
    BY <2>1, <2>2
<1>2. ASSUME NEW m \in Modes, NEW s \in Scalings, NEW r \in Rotations,
             vidpn' = [EmptyVidPn(1) EXCEPT !.set.source = {m}, !.pin.source = m,
                                            !.scaling = s, !.rotation = r,
                                            !.negotiated = FALSE]
      PROVE  vidpn' \in VidPns /\ OfferInv'
  <2>1. vidpn' = [paths |-> 1,
                  set |-> [source |-> {m}, target |-> {}],
                  pin |-> [source |-> m, target |-> NoMode],
                  scaling |-> s, scalingSupport |-> {},
                  rotation |-> r, rotationSupport |-> {},
                  negotiated |-> FALSE]
    BY <1>2
  <2>2. vidpn' \in VidPns
    BY <2>1 DEF VidPns
  <2>3. OfferInv'
    BY <2>1 DEF OfferInv
  <2> QED
    BY <2>2, <2>3
<1>3. CASE \E n \in 0 .. 1 : vidpn' = EmptyVidPn(n)
  <2> HIDE DEF EmptyVidPn
  <2> QED
    BY <1>1, <1>3
<1>4. CASE \E m \in Modes, s \in Scalings, r \in Rotations :
             vidpn' = [EmptyVidPn(1) EXCEPT !.set.source = {m}, !.pin.source = m,
                                            !.scaling = s, !.rotation = r,
                                            !.negotiated = FALSE]
  <2> HIDE DEF EmptyVidPn
  <2> QED
    BY <1>2, <1>4
<1> QED
  BY <1>3, <1>4 DEF NewVidPn

(* A proposal is made between two calls. *)
LEMMA NewVidPnStep == VidPnInv /\ NewVidPn => VidPnInv'
<1> SUFFICES ASSUME VidPnInv, NewVidPn PROVE VidPnInv'
  OBVIOUS
<1>0. vidpn' \in VidPns /\ OfferInv'
  BY NewVidPnProposes DEF VidPnInv
<1>a. /\ call = NoCall
      /\ result' = NoResult
      /\ UNCHANGED <<monitorModes, call, acquired, armed, dxgkCurrentSourceMode>>
  BY DEF NewVidPn, Idle
<1>1. VidPnTypeOK'
  BY <1>0, <1>a DEF VidPnTypeOK, VidPnInv, NoResult
<1>2. CallInv'
  BY <1>a DEF CallInv, VidPnInv
<1>3. HandleInv'
  BY <1>a DEF HandleInv, VidPnInv
<1>4. EnumInv'
  BY <1>a DEF EnumInv, NoCall
<1>6. CommitInv'
  BY <1>a DEF CommitInv, NoCall
<1>7. NegotiatedIsCommitted'
  BY <1>a DEF NegotiatedIsCommitted, NoResult
<1> QED
  BY <1>0, <1>1, <1>2, <1>3, <1>4, <1>6, <1>7 DEF VidPnInv

(* A DDI that returns gives back all it holds.  It may report "rejected"   *)
(* of a VidPn only that was not negotiated.                                *)
LEMMA Returned ==
  ASSUME VidPnInv, call # NoCall,
         NEW status \in {"failed", "rejected", "success", "supported", "unsupported"},
         Return(status), UNCHANGED vidpn,
         monitorModes' \in SUBSET {DisplayMode},
         dxgkCurrentSourceMode' \in Modes \cup {NoMode},
         status = "rejected" /\ vidpn.negotiated /\ vidpn.rotation # "unpinned"
           => vidpn.scaling = "unpinned"
  PROVE  VidPnInv'
<1>1. /\ call' = NoCall /\ acquired' = {} /\ armed' = {}
      /\ result' = [op |-> call.op, status |-> status, pivot |-> call.pivot]
  BY DEF Return, Leave, VidPnInv, VidPnTypeOK, HandleInv
<1>2. VidPnTypeOK'
  <2>1. call' \in [op : Ops \cup {"none"}, at : Callbacks \cup {"none"},
                   side : Sides, pivot : Pivots \cup {NoPivot}]
    BY <1>1 DEF NoCall, Sides
  <2>2. result' \in [op : Ops \cup {"none"},
                     status : {"none", "failed", "rejected", "success",
                               "supported", "unsupported"},
                     pivot : Pivots \cup {NoPivot}]
    BY <1>1 DEF VidPnInv, VidPnTypeOK
  <2> QED
    BY <1>1, <2>1, <2>2 DEF VidPnTypeOK, VidPnInv
<1>3. CallInv'
  BY <1>1 DEF CallInv, NoCall, Route
<1>4. HandleInv'
  BY <1>1 DEF HandleInv, NoCall
<1>5. EnumInv'
  BY <1>1 DEF EnumInv, NoCall
<1>6. OfferInv'
  BY DEF OfferInv, VidPnInv
<1>7. CommitInv'
  BY <1>1 DEF CommitInv, NoCall
<1>8. NegotiatedIsCommitted'
  BY <1>1 DEF NegotiatedIsCommitted
<1> QED
  BY <1>2, <1>3, <1>4, <1>5, <1>6, <1>7, <1>8 DEF VidPnInv

(* A DDI that goes on to another callback, from the pinned modes it found. *)
LEMMA Continued ==
  ASSUME VidPnInv, call # NoCall, NEW at \in Callbacks, NEW side \in Sides,
         call' = [op |-> call.op, at |-> at, side |-> side, pivot |-> call.pivot],
         at \in Route[call.op],
         vidpn' \in VidPns, OfferInv', vidpn'.pin = vidpn.pin,
         NegotiatedIsCommitted',
         acquired' \in SUBSET Handles, armed' = acquired',
         call.op = "RecommendMonitorModes" =>
            acquired' = IF at = "AddMode" THEN {"newMode"} ELSE {},
         EnumInv',
         at \in {"GetNumPathsFromSource", "EnumPathTargetsFromSource", "AcquirePathInfo"} =>
            vidpn.pin.source.size = "display",
         UNCHANGED <<monitorModes, dxgkCurrentSourceMode, result>>
  PROVE  VidPnInv'
<1>2. VidPnTypeOK'
  <2>1. call' \in [op : Ops \cup {"none"}, at : Callbacks \cup {"none"},
                   side : Sides, pivot : Pivots \cup {NoPivot}]
    BY DEF VidPnInv, VidPnTypeOK
  <2> QED
    BY <2>1 DEF VidPnTypeOK, VidPnInv
<1>0. call.op # "none"
  BY DEF VidPnInv, CallInv
<1>3. CallInv'
  BY <1>0 DEF CallInv, VidPnInv
<1>4. HandleInv'
  BY <1>0 DEF HandleInv
<1>7. CommitInv'
  BY DEF CommitInv
<1> QED
  BY <1>2, <1>3, <1>4, <1>7 DEF VidPnInv

(* Dxgkrnl pins what was offered, which is the driver's. *)
LEMMA PinStep == VidPnInv /\ Pin => VidPnInv'
<1> SUFFICES ASSUME VidPnInv, Pin PROVE VidPnInv'
  OBVIOUS
<1>0. vidpn' \in VidPns /\ OfferInv'
  <2>1. ASSUME NEW side \in {"source", "target"}, NEW m \in vidpn.set[side],
               vidpn' = [vidpn EXCEPT !.pin[side] = m]
        PROVE  vidpn' \in VidPns /\ OfferInv'
    BY <2>1 DEF VidPnInv, VidPnTypeOK, VidPns, OfferInv
  <2>2. ASSUME NEW s \in vidpn.scalingSupport, vidpn' = [vidpn EXCEPT !.scaling = s]
        PROVE  vidpn' \in VidPns /\ OfferInv'
    BY <2>2 DEF VidPnInv, VidPnTypeOK, VidPns, OfferInv
  <2>3. ASSUME NEW r \in vidpn.rotationSupport, vidpn' = [vidpn EXCEPT !.rotation = r]
        PROVE  vidpn' \in VidPns /\ OfferInv'
    BY <2>3 DEF VidPnInv, VidPnTypeOK, VidPns, OfferInv
  <2> QED
    BY <2>1, <2>2, <2>3 DEF Pin
<1>a. /\ call = NoCall
      /\ result' = NoResult
      /\ UNCHANGED <<monitorModes, call, acquired, armed, dxgkCurrentSourceMode>>
  BY DEF Pin, Idle
<1>1. VidPnTypeOK'
  BY <1>0, <1>a DEF VidPnTypeOK, VidPnInv, NoResult
<1>2. CallInv'
  BY <1>a DEF CallInv, VidPnInv
<1>3. HandleInv'
  BY <1>a DEF HandleInv, VidPnInv
<1>4. EnumInv'
  BY <1>a DEF EnumInv, NoCall
<1>6. CommitInv'
  BY <1>a DEF CommitInv, NoCall
<1>7. NegotiatedIsCommitted'
  BY <1>a DEF NegotiatedIsCommitted, NoResult
<1> QED
  BY <1>0, <1>1, <1>2, <1>3, <1>4, <1>6, <1>7 DEF VidPnInv

(* A mode change reads the current mode only. *)
LEMMA ModeChangeStep == VidPnInv /\ ModeChange => VidPnInv'
<1> SUFFICES ASSUME VidPnInv, ModeChange PROVE VidPnInv'
  OBVIOUS
<1>a. UNCHANGED <<vidpn, monitorModes, call, acquired, armed, dxgkCurrentSourceMode>>
  BY DEF ModeChange
<1>0. PICK status \in {"success", "rejected"} :
        result' = [NoResult EXCEPT !.op = "ModeChange", !.status = status]
  BY DEF ModeChange
<1>b. result' = [op |-> "ModeChange", status |-> status, pivot |-> NoPivot]
  BY <1>0 DEF NoResult
<1>1. VidPnTypeOK'
  BY <1>a, <1>b DEF VidPnTypeOK, VidPnInv, Ops
<1>2. CallInv' /\ HandleInv' /\ OfferInv' /\ CommitInv' 
  BY <1>a DEF CallInv, HandleInv, OfferInv, CommitInv, VidPnInv
<1>3. EnumInv'
  BY <1>a DEF EnumInv, VidPnInv, IsPivot
<1>7. NegotiatedIsCommitted'
  BY <1>a, <1>b DEF NegotiatedIsCommitted
<1> QED
  BY <1>1, <1>2, <1>3, <1>7 DEF VidPnInv

(* The finalizers run, whichever callback has failed. *)
LEMMA CallbackFailsStep == VidPnInv /\ CallbackFails => VidPnInv'
  BY Returned DEF CallbackFails, VidPnInv, VidPnTypeOK

(* The same for a callback that leaves the VidPn and the side as they are. *)
LEMMA GoesTo ==
  ASSUME VidPnInv, call # NoCall, NEW at \in Callbacks, GoTo(at),
         at \in Route[call.op],
         call.op = "EnumVidPnCofuncModality" =>
            /\ at \in {"QueryVidPnInterface", "GetTopology", "AcquireFirstPathInfo"} =>
                  call.side = "source"
            /\ at \in {"AcquireModeSet", "AcquirePinnedModeInfo", "CreateNewModeSet",
                      "CreateNewModeInfo", "AddMode", "AssignModeSet"} => ~ IsPivot(call.side)
            /\ at \in {"CreateNewModeSet", "CreateNewModeInfo", "AddMode", "AssignModeSet"} =>
                  vidpn.pin[call.side] = NoMode,
         acquired' \in SUBSET Handles, armed' = acquired',
         call.op = "RecommendMonitorModes" =>
            acquired' = IF at = "AddMode" THEN {"newMode"} ELSE {},
         at \in {"GetNumPathsFromSource", "EnumPathTargetsFromSource", "AcquirePathInfo"} =>
            vidpn.pin.source.size = "display",
         UNCHANGED <<vidpn, monitorModes, dxgkCurrentSourceMode, result>>
  PROVE  VidPnInv'
<1>1. call' = [op |-> call.op, at |-> at, side |-> call.side, pivot |-> call.pivot]
  BY DEF GoTo, VidPnInv, VidPnTypeOK
<1>2. EnumInv'
  BY <1>1 DEF EnumInv, VidPnInv, IsPivot
<1>3. OfferInv' /\ NegotiatedIsCommitted' /\ vidpn' \in VidPns
  BY DEF OfferInv, NegotiatedIsCommitted, VidPnInv, VidPnTypeOK
<1>4. call.side \in Sides
  BY DEF VidPnInv, VidPnTypeOK
<1> QED
  BY <1>1, <1>2, <1>3, <1>4, Continued

(* The first callbacks take no handles. *)
LEMMA QueryInterfaceStep == VidPnInv /\ QueryInterface => VidPnInv'
<1> SUFFICES ASSUME VidPnInv, QueryInterface PROVE VidPnInv'
  OBVIOUS
<1>1. call # NoCall /\ call.op \in DOMAIN Route \ {"none", "RecommendMonitorModes"}
  BY DEF QueryInterface, At, NoCall, VidPnInv, CallInv, Route
<1>2. PICK at \in {"GetTopology", "GetNumPaths", "AcquireFirstPathInfo"} :
        GoTo(at) /\ at \in Route[call.op]
  BY <1>1 DEF QueryInterface, Route, At
<1>3. acquired' \in SUBSET Handles /\ armed' = acquired'
  BY DEF QueryInterface, VidPnInv, VidPnTypeOK, HandleInv
<1>4. call.op = "EnumVidPnCofuncModality" => call.side = "source"
  BY DEF QueryInterface, VidPnInv, EnumInv, At
<1>5. UNCHANGED <<vidpn, monitorModes, dxgkCurrentSourceMode, result>>
  BY DEF QueryInterface
<1>6. at \in Callbacks
  BY DEF Callbacks
<1> QED
  BY <1>1, <1>2, <1>3, <1>4, <1>5, <1>6, GoesTo

(* IsSupportedVidPn gives back the path. *)
LEMMA IsSupportedVidPnStep == VidPnInv /\ IsSupportedVidPn => VidPnInv'
<1> SUFFICES ASSUME VidPnInv, IsSupportedVidPn PROVE VidPnInv'
  OBVIOUS
<1>1. /\ call # NoCall /\ call.op = "IsSupportedVidPn"
      /\ UNCHANGED <<vidpn, monitorModes, dxgkCurrentSourceMode>>
  BY DEF IsSupportedVidPn, NoCall
<1>2. CASE GoTo("AcquireFirstPathInfo") /\ UNCHANGED <<acquired, armed, result>>
  <2>1. /\ "AcquireFirstPathInfo" \in Callbacks
        /\ "AcquireFirstPathInfo" \in Route[call.op]
        /\ acquired' \in SUBSET Handles /\ armed' = acquired'
    BY <1>1, <1>2 DEF Callbacks, Route, VidPnInv, VidPnTypeOK, HandleInv
  <2> QED
    BY <1>1, <1>2, <2>1, GoesTo
<1>3. CASE Return("unsupported") \/ Return("supported")
  <2>1. monitorModes' \in SUBSET {DisplayMode} /\ dxgkCurrentSourceMode' \in Modes \cup {NoMode}
    BY <1>1 DEF VidPnInv, VidPnTypeOK
  <2> QED
    BY <1>1, <1>3, <2>1, Returned
<1> QED
  BY <1>2, <1>3 DEF IsSupportedVidPn

(* The end of CreateAndAssign...ModeSet, or of a side that needs none. *)
LEMMA SideIsDone ==
  ASSUME VidPnInv, call.op = "EnumVidPnCofuncModality", NEW side, AfterSide(side),
         call.side \in {"source", "target"},
         vidpn' \in VidPns, OfferInv', vidpn'.pin = vidpn.pin,
         NegotiatedIsCommitted',
         acquired' \in SUBSET Handles, armed' = acquired',
         UNCHANGED <<monitorModes, dxgkCurrentSourceMode, result>>
  PROVE  VidPnInv'
<1>1. PICK s \in Sides, at \in Callbacks :
         /\ call' = [op |-> call.op, at |-> at, side |-> s, pivot |-> call.pivot]
         /\ \/ s = "target" /\ at = "AcquireModeSet" /\ ~ IsPivot("target")
            \/ s = call.side /\ at \in {"UpdatePathSupportInfo", "AcquireNextPathInfo"}
  BY AfterSideGoes DEF VidPnInv
<1>2. EnumInv'
  BY <1>1 DEF EnumInv, IsPivot
<1>3. at \in Route[call.op]
  BY <1>1 DEF Route
<1>4. call # NoCall
  BY DEF NoCall
<1> QED
  BY <1>1, <1>2, <1>3, <1>4, Continued

(* The loop over the paths begins with the source, unless it is the pivot. *)
LEMMA EnumFirstPathStep == VidPnInv /\ EnumFirstPath => VidPnInv'
<1> SUFFICES ASSUME VidPnInv, EnumFirstPath PROVE VidPnInv'
  OBVIOUS
<1>1. /\ call # NoCall /\ call.op = "EnumVidPnCofuncModality" /\ call.side = "source"
      /\ UNCHANGED <<vidpn, monitorModes, dxgkCurrentSourceMode>>
  BY DEF EnumFirstPath, NoCall, At, VidPnInv, EnumInv
<1>2. /\ vidpn' \in VidPns /\ OfferInv'
      /\ monitorModes' \in SUBSET {DisplayMode} /\ dxgkCurrentSourceMode' \in Modes \cup {NoMode}
  BY <1>1 DEF VidPnInv, VidPnTypeOK, OfferInv
<1>3. CASE Return("success")
  BY <1>1, <1>2, <1>3, Returned
<1>4. CASE Acquire("path") /\ UNCHANGED result
  <2>1. acquired' \in SUBSET Handles /\ armed' = acquired'
    BY <1>4 DEF Acquire, Handles, VidPnInv, VidPnTypeOK, HandleInv
  <2>2. NegotiatedIsCommitted'
    BY <1>1, <1>4 DEF NegotiatedIsCommitted, VidPnInv
  <2>3. CASE AfterSide("source")
    BY <1>1, <1>2, <1>4, <2>1, <2>2, <2>3, SideIsDone
  <2>4. CASE GoTo("AcquireModeSet") /\ ~ IsPivot("source")
    <3>1. "AcquireModeSet" \in Callbacks /\ "AcquireModeSet" \in Route[call.op]
      BY <1>1 DEF Callbacks, Route
    <3> QED
      BY <1>1, <1>4, <2>1, <2>4, <3>1, GoesTo
  <2> QED
    BY <1>4, <2>3, <2>4, <1>3 DEF EnumFirstPath
<1> QED
  BY <1>3, <1>4 DEF EnumFirstPath

(* A new mode set is made when no mode is pinned in the old one. *)
LEMMA HasPinnedModeStep == VidPnInv /\ HasPinnedMode => VidPnInv'
<1> SUFFICES ASSUME VidPnInv, HasPinnedMode PROVE VidPnInv'
  OBVIOUS
<1>1. /\ call # NoCall /\ call.op = "EnumVidPnCofuncModality"
      /\ call.side \in {"source", "target"} /\ ~ IsPivot(call.side)
      /\ UNCHANGED <<vidpn, monitorModes, dxgkCurrentSourceMode, result>>
  BY DEF HasPinnedMode, NoCall, At, VidPnInv, EnumInv
<1>2. vidpn' \in VidPns /\ OfferInv' /\ NegotiatedIsCommitted'
  BY <1>1 DEF VidPnInv, VidPnTypeOK, OfferInv, NegotiatedIsCommitted
<1>3. acquired' \in SUBSET Handles /\ armed' = acquired'
  BY DEF HasPinnedMode, Acquire, Leave, Handles, VidPnInv, VidPnTypeOK, HandleInv
<1>4. CASE GoTo("AcquirePinnedModeInfo")
  <2>1. "AcquirePinnedModeInfo" \in Callbacks /\ "AcquirePinnedModeInfo" \in Route[call.op]
    BY <1>1 DEF Callbacks, Route
  <2> QED
    BY <1>1, <1>3, <1>4, <2>1, GoesTo
<1>5. CASE AfterSide(call.side)
  BY <1>1, <1>2, <1>3, <1>5, SideIsDone
<1>6. CASE GoTo("CreateNewModeSet") /\ vidpn.pin[call.side] = NoMode
  <2>1. "CreateNewModeSet" \in Callbacks /\ "CreateNewModeSet" \in Route[call.op]
    BY <1>1 DEF Callbacks, Route
  <2> QED
    BY <1>1, <1>3, <1>6, <2>1, GoesTo
<1> QED
  BY <1>4, <1>5, <1>6 DEF HasPinnedMode

(* Handles of the new set and its mode are taken, and the mode's is        *)
(* handed over.                                                            *)
LEMMA CreateModeSetStep == VidPnInv /\ CreateModeSet => VidPnInv'
<1> SUFFICES ASSUME VidPnInv, CreateModeSet PROVE VidPnInv'
  OBVIOUS
<1>1. /\ call # NoCall /\ call.op = "EnumVidPnCofuncModality"
      /\ call.side \in {"source", "target"} /\ ~ IsPivot(call.side)
      /\ vidpn.pin[call.side] = NoMode
      /\ UNCHANGED <<vidpn, monitorModes, dxgkCurrentSourceMode, result>>
  BY DEF CreateModeSet, NoCall, At, VidPnInv, EnumInv
<1>2. acquired' \in SUBSET Handles /\ armed' = acquired'
  BY DEF CreateModeSet, Acquire, HandOver, Handles, VidPnInv, VidPnTypeOK, HandleInv
<1>3. PICK at \in {"CreateNewModeInfo", "AddMode", "AssignModeSet"} : GoTo(at)
  BY DEF CreateModeSet
<1>4. at \in Callbacks /\ at \in Route[call.op]
  BY <1>1 DEF Callbacks, Route
<1> QED
  BY <1>1, <1>2, <1>3, <1>4, GoesTo

(* The new set holds the display's mode, and the VidPn takes it over. *)
LEMMA AssignModeSetStep == VidPnInv /\ AssignModeSet => VidPnInv'
<1> SUFFICES ASSUME VidPnInv, AssignModeSet PROVE VidPnInv'
  OBVIOUS
<1>1. /\ call.op = "EnumVidPnCofuncModality" /\ call.side \in {"source", "target"}
      /\ AfterSide(call.side)
      /\ UNCHANGED <<monitorModes, dxgkCurrentSourceMode, result>>
      /\ vidpn' = [vidpn EXCEPT !.set[call.side] = {DisplayMode}]
  BY DEF AssignModeSet, At, VidPnInv, EnumInv
<1>2. vidpn' \in VidPns /\ OfferInv' /\ vidpn'.pin = vidpn.pin
  <2>1. vidpn \in VidPns /\ OfferInv
    BY DEF VidPnInv, VidPnTypeOK
  <2>2. PICK src, tgt : vidpn.set = [source |-> src, target |-> tgt]
    BY <2>1 DEF VidPns
  <2>3. vidpn'.set \in [source : SUBSET Modes, target : SUBSET {DisplayMode}]
    BY <1>1, <2>1 DEF VidPns, Modes, DisplayMode
  <2>4. vidpn' \in VidPns
    BY <1>1, <2>1, <2>3 DEF VidPns
  <2>5. vidpn'.set.source \in {vidpn.set.source, {DisplayMode}}
    BY <1>1, <2>1 DEF VidPns
  <2> QED
    BY <1>1, <2>1, <2>4, <2>5 DEF VidPns, OfferInv
<1>3. acquired' \in SUBSET Handles /\ armed' = acquired'
  BY DEF AssignModeSet, HandOver, Handles, VidPnInv, VidPnTypeOK, HandleInv
<1>4. NegotiatedIsCommitted'
  BY <1>1 DEF NegotiatedIsCommitted, VidPnInv, VidPnTypeOK, VidPns
<1> QED
  BY <1>1, <1>2, <1>3, <1>4, SideIsDone

(* The driver supports no scaling and no rotation but the identity. *)
LEMMA UpdatePathSupportInfoStep == VidPnInv /\ UpdatePathSupportInfo => VidPnInv'
<1> SUFFICES ASSUME VidPnInv, UpdatePathSupportInfo PROVE VidPnInv'
  OBVIOUS
<1>1. /\ call.at = "UpdatePathSupportInfo" /\ call.op \in DOMAIN Route
      /\ call.at \in Route[call.op]
      /\ UNCHANGED <<monitorModes, acquired, armed, dxgkCurrentSourceMode, result>>
  BY DEF UpdatePathSupportInfo, At, VidPnInv, CallInv
<1>2. call # NoCall /\ call.op = "EnumVidPnCofuncModality"
  BY <1>1 DEF NoCall, Route
<1>3. PICK ss \in SUBSET {"identity"}, rs \in SUBSET {"identity"} :
        vidpn' = [vidpn EXCEPT !.scalingSupport = ss, !.rotationSupport = rs]
  BY DEF UpdatePathSupportInfo, Supported, ScalingSupport, VidPnInv, OfferInv, VidPnTypeOK, VidPns
<1>4. vidpn' \in VidPns
  BY <1>3 DEF VidPnInv, VidPnTypeOK, VidPns, Scalings, Rotations
<1>5. OfferInv' /\ vidpn'.pin = vidpn.pin /\ NegotiatedIsCommitted'
  BY <1>1, <1>3 DEF OfferInv, VidPnInv, VidPnTypeOK, VidPns, NegotiatedIsCommitted
<1>6. call' = [op |-> call.op, at |-> "AcquireNextPathInfo", side |-> call.side,
      pivot |-> call.pivot]
  BY DEF UpdatePathSupportInfo, GoTo, VidPnInv, VidPnTypeOK
<1>7. EnumInv'
  BY <1>2, <1>6 DEF EnumInv, VidPnInv
<1>8. /\ acquired' \in SUBSET Handles /\ armed' = acquired'
      /\ "AcquireNextPathInfo" \in Callbacks /\ "AcquireNextPathInfo" \in Route[call.op]
      /\ call.side \in Sides
  BY <1>1, <1>2 DEF VidPnInv, VidPnTypeOK, HandleInv, Callbacks, Route
<1> QED
  BY <1>1, <1>2, <1>4, <1>5, <1>6, <1>7, <1>8, Continued

(* The path is given back at the end of the loop. *)
LEMMA EnumNextPathStep == VidPnInv /\ EnumNextPath => VidPnInv'
<1> SUFFICES ASSUME VidPnInv, EnumNextPath PROVE VidPnInv'
  OBVIOUS
<1>1. call # NoCall /\ Return("success") /\ UNCHANGED <<vidpn, monitorModes,
      dxgkCurrentSourceMode>>
  BY DEF EnumNextPath, At, NoCall
<1>2. monitorModes' \in SUBSET {DisplayMode} /\ dxgkCurrentSourceMode' \in Modes \cup {NoMode}
  BY <1>1 DEF VidPnInv, VidPnTypeOK
<1> QED
  BY <1>1, <1>2, Returned

(* CommitVidPn turns down a pinned mode that is not the display's; no      *)
(* negotiated VidPn has one.                                               *)
LEMMA CommitSourceStep == VidPnInv /\ CommitSource => VidPnInv'
<1> SUFFICES ASSUME VidPnInv, CommitSource PROVE VidPnInv'
  OBVIOUS
<1>1. /\ call # NoCall /\ call.op = "CommitVidPn"
      /\ UNCHANGED <<vidpn, monitorModes, dxgkCurrentSourceMode>>
  BY DEF CommitSource, NoCall
<1>2. /\ monitorModes' \in SUBSET {DisplayMode} /\ dxgkCurrentSourceMode' \in Modes \cup {NoMode}
      /\ {"AcquireModeSet", "AcquirePinnedModeInfo", "GetNumPathsFromSource"}
            \subseteq Callbacks \cap Route[call.op]
  BY <1>1 DEF VidPnInv, VidPnTypeOK, Callbacks, Route
<1>3. CASE At("GetNumPaths")
  <2>1. CASE Return("success")
    BY <1>1, <1>2, <2>1, Returned
  <2>2. CASE GoTo("AcquireModeSet") /\ UNCHANGED <<acquired, armed, result>>
    <3>1. acquired' \in SUBSET Handles /\ armed' = acquired'
      BY <2>2 DEF VidPnInv, VidPnTypeOK, HandleInv
    <3> QED
      BY <1>1, <1>2, <2>2, <3>1, GoesTo
  <2> QED
    BY <1>3, <2>1, <2>2 DEF CommitSource, At
<1>4. CASE At("AcquireModeSet")
  <2>1. Acquire("modeSet") /\ GoTo("AcquirePinnedModeInfo") /\ UNCHANGED result
    BY <1>4 DEF CommitSource, At
  <2>2. acquired' \in SUBSET Handles /\ armed' = acquired'
    BY <2>1 DEF Acquire, Handles, VidPnInv, VidPnTypeOK, HandleInv
  <2> QED
    BY <1>1, <1>2, <2>1, <2>2, GoesTo
<1>5. CASE At("AcquirePinnedModeInfo")
  <2> DEFINE m == vidpn.pin.source
  <2>1. CASE m = NoMode
    <3>1. Return("success")
      BY <1>5, <2>1 DEF CommitSource, At
    <3> QED
      BY <1>1, <1>2, <3>1, Returned
  <2>2. CASE m # NoMode /\ IsVidPnSourceModeFieldsValid(m) /\ m.size = "display"
    <3>1. Acquire("pinnedMode") /\ GoTo("GetNumPathsFromSource") /\ UNCHANGED result
      BY <1>5, <2>2 DEF CommitSource, At
    <3>2. acquired' \in SUBSET Handles /\ armed' = acquired'
      BY <3>1 DEF Acquire, Handles, VidPnInv, VidPnTypeOK, HandleInv
    <3> QED
      BY <1>1, <1>2, <2>2, <3>1, <3>2, GoesTo
  <2>3. CASE m # NoMode /\ ~ (IsVidPnSourceModeFieldsValid(m) /\ m.size = "display")
    <3>1. Return("rejected")
      BY <1>5, <2>3 DEF CommitSource, At
    <3>2. ~ vidpn.negotiated
      BY <2>3 DEF VidPnInv, OfferInv, IsVidPnSourceModeFieldsValid, DisplayMode
    <3> QED
      BY <1>1, <1>2, <3>1, <3>2, Returned
  <2> QED
    BY <2>1, <2>2, <2>3
<1> QED
  BY <1>3, <1>4, <1>5 DEF CommitSource

(* The walk over the targets of the source takes no handle. *)
LEMMA CommitPathsStep == VidPnInv /\ CommitPaths => VidPnInv'
<1> SUFFICES ASSUME VidPnInv, CommitPaths PROVE VidPnInv'
  OBVIOUS
<1>1. /\ call # NoCall /\ call.op = "CommitVidPn" /\ vidpn.pin.source.size = "display"
      /\ UNCHANGED <<vidpn, monitorModes, acquired, armed, dxgkCurrentSourceMode, result>>
  BY DEF CommitPaths, NoCall, At, VidPnInv, CommitInv
<1>2. PICK at \in {"EnumPathTargetsFromSource", "AcquirePathInfo"} : GoTo(at)
  BY DEF CommitPaths
<1>3. at \in Callbacks /\ at \in Route[call.op] /\ acquired' \in SUBSET Handles
      /\ armed' = acquired'
  BY <1>1 DEF Callbacks, Route, VidPnInv, VidPnTypeOK, HandleInv
<1> QED
  BY <1>1, <1>2, <1>3, GoesTo

(* Transformations that are turned down were not offered. *)
LEMMA CommitModeStep == VidPnInv /\ CommitMode => VidPnInv'
<1> SUFFICES ASSUME VidPnInv, CommitMode PROVE VidPnInv'
  OBVIOUS
<1>1. call # NoCall /\ UNCHANGED <<vidpn, monitorModes>>
  BY DEF CommitMode, At, NoCall
<1>2. monitorModes' \in SUBSET {DisplayMode} /\ vidpn.pin.source \in Modes \cup {NoMode}
  BY <1>1 DEF VidPnInv, VidPnTypeOK, VidPns
<1>3. CASE IsVidPnPathFieldsValid
  BY <1>1, <1>2, <1>3, Returned DEF CommitMode
<1>4. CASE ~ IsVidPnPathFieldsValid
  <2>1. Return("rejected") /\ UNCHANGED dxgkCurrentSourceMode
    BY <1>4 DEF CommitMode
  <2>2. vidpn.negotiated /\ vidpn.rotation # "unpinned" => vidpn.scaling = "unpinned"
    BY <1>4 DEF IsVidPnPathFieldsValid, VidPnInv, OfferInv
  <2>3. dxgkCurrentSourceMode' \in Modes \cup {NoMode}
    BY <2>1 DEF VidPnInv, VidPnTypeOK
  <2> QED
    BY <1>1, <1>2, <2>1, <2>2, <2>3, Returned
<1> QED
  BY <1>3, <1>4

(* The one mode that RecommendMonitorModes makes is handed over or given   *)
(* back.                                                                   *)
LEMMA RecommendMonitorModesStep == VidPnInv /\ RecommendMonitorModes => VidPnInv'
<1> SUFFICES ASSUME VidPnInv, RecommendMonitorModes PROVE VidPnInv'
  OBVIOUS
<1>1. /\ call # NoCall /\ call.op = "RecommendMonitorModes"
      /\ UNCHANGED <<vidpn, dxgkCurrentSourceMode>>
  BY DEF RecommendMonitorModes, NoCall
<1>2. dxgkCurrentSourceMode' \in Modes \cup {NoMode}
  BY <1>1 DEF VidPnInv, VidPnTypeOK
<1>3. CASE At("CreateNewModeInfo")
  <2>1. /\ acquired' = {"newMode"} /\ armed' = {"newMode"} /\ GoTo("AddMode")
        /\ UNCHANGED <<monitorModes, result>>
    BY <1>1, <1>3 DEF RecommendMonitorModes, Acquire, At, VidPnInv, HandleInv
  <2>2. "AddMode" \in Callbacks /\ "AddMode" \in Route[call.op] /\ {"newMode"} \in SUBSET Handles
    BY <1>1 DEF Callbacks, Route, Handles
  <2> QED
    BY <1>1, <2>1, <2>2, GoesTo
<1>4. CASE At("AddMode") /\ Return("success") /\ UNCHANGED monitorModes
  <2>1. monitorModes' \in SUBSET {DisplayMode}
    BY <1>4 DEF VidPnInv, VidPnTypeOK
  <2> QED
    BY <1>1, <1>2, <1>4, <2>1, Returned
<1>5. CASE /\ At("AddMode")
           /\ monitorModes' = {DisplayMode}
           /\ acquired' = acquired \ {"newMode"}
           /\ armed' = {}
           /\ call' = NoCall
           /\ result' = [NoResult EXCEPT !.op = call.op, !.status = "success"]
  <2>1. acquired' = {}
    BY <1>1, <1>5 DEF At, VidPnInv, HandleInv
  <2>2. result' = [op |-> "RecommendMonitorModes", status |-> "success", pivot |-> NoPivot]
    BY <1>1, <1>5 DEF NoResult
  <2>3. call' \in [op : Ops \cup {"none"}, at : Callbacks \cup {"none"},
                   side : Sides, pivot : Pivots \cup {NoPivot}]
    BY <1>5 DEF NoCall, Sides
  <2>4. VidPnTypeOK'
    BY <1>1, <1>2, <1>5, <2>1, <2>2, <2>3 DEF VidPnInv, VidPnTypeOK, Ops
  <2>5. CallInv' /\ EnumInv' /\ CommitInv'
    BY <1>5 DEF CallInv, EnumInv, CommitInv, NoCall, Route
  <2>6. HandleInv'
    BY <1>5, <2>1 DEF HandleInv, NoCall
  <2>7. OfferInv' /\ NegotiatedIsCommitted'
    BY <1>1, <2>2 DEF OfferInv, NegotiatedIsCommitted, VidPnInv
  <2> QED
    BY <2>4, <2>5, <2>6, <2>7 DEF VidPnInv
<1> QED
  BY <1>3, <1>4, <1>5 DEF RecommendMonitorModes

(* No negotiation has begun. *)
LEMMA VidPnStarts == VidPnInit => VidPnInv
<1> SUFFICES ASSUME VidPnInit PROVE VidPnInv
  OBVIOUS
<1> USE DEF VidPnInit
<1>1. vidpn \in VidPns /\ OfferInv
  BY DEF VidPns, EmptyVidPn, OfferInv, NoMode, Scalings, Rotations
<1>2. VidPnTypeOK
  BY <1>1 DEF VidPnTypeOK, NoCall, NoResult, Sides
<1>3. CallInv /\ EnumInv /\ CommitInv
  BY DEF CallInv, EnumInv, CommitInv, NoCall, Route
<1>4. HandleInv
  BY DEF HandleInv, NoCall
<1>5. NegotiatedIsCommitted
  BY DEF NegotiatedIsCommitted, NoResult
<1> QED
  BY <1>1, <1>2, <1>3, <1>4, <1>5 DEF VidPnInv

(* No callback and no step of Dxgkrnl breaks the invariant. *)
LEMMA VidPnStep == VidPnInv /\ [VidPnNext]_vidPnVars => VidPnInv'
<1> SUFFICES ASSUME VidPnInv, [VidPnNext]_vidPnVars PROVE VidPnInv'
  OBVIOUS
<1>1. CASE UNCHANGED vidPnVars
  <2>1. UNCHANGED <<vidpn, monitorModes, call, acquired, armed, dxgkCurrentSourceMode, result>>
    BY <1>1 DEF vidPnVars
  <2>2. VidPnTypeOK' /\ CallInv' /\ HandleInv' /\ OfferInv' /\ CommitInv'
    BY <2>1 DEF VidPnInv, VidPnTypeOK, CallInv, HandleInv, OfferInv, CommitInv
  <2>3. EnumInv' /\ NegotiatedIsCommitted'
    BY <2>1 DEF VidPnInv, EnumInv, IsPivot, NegotiatedIsCommitted
  <2> QED
    BY <2>2, <2>3 DEF VidPnInv
<1>2. CASE VidPnNext
  BY <1>2, NewVidPnStep, PinStep, CallDdiStep, CallbackFailsStep, QueryInterfaceStep,
     IsSupportedVidPnStep, EnumFirstPathStep, HasPinnedModeStep, CreateModeSetStep,
     AssignModeSetStep, UpdatePathSupportInfoStep, EnumNextPathStep, CommitSourceStep,
     CommitPathsStep, CommitModeStep, RecommendMonitorModesStep, ModeChangeStep DEF VidPnNext
<1> QED
  BY <1>1, <1>2

(* The variables keep their types. *)
THEOREM NegotiationTypes == VidPnSpec => []VidPnTypeOK
<1>1. VidPnInv => VidPnTypeOK
  BY DEF VidPnInv
<1> QED
  BY <1>1, VidPnStarts, VidPnStep, PTL DEF VidPnSpec

(* Whichever callback fails, a DDI that has returned holds no path, mode   *)
(* set or mode: for every order of calls, and every pivot.                 *)
THEOREM HandlesAreGivenBack == VidPnSpec => []NothingHeldBetweenCalls
<1>1. VidPnInv => NothingHeldBetweenCalls
  BY DEF VidPnInv, HandleInv, NothingHeldBetweenCalls, Idle, NoCall
<1> QED
  BY <1>1, VidPnStarts, VidPnStep, PTL DEF VidPnSpec

(* CommitVidPn turns down no VidPn in which everything was chosen from     *)
(* what EnumVidPnCofuncModality has offered.                               *)
THEOREM OfferedIsCommitted == VidPnSpec => []NegotiatedIsCommitted
<1>1. VidPnInv => NegotiatedIsCommitted
  BY DEF VidPnInv
<1> QED
  BY <1>1, VidPnStarts, VidPnStep, PTL DEF VidPnSpec

(* AssignModeSet is the only callback that replaces a mode set, and it     *)
(* replaces the set of the side at hand.                                   *)
LEMMA SetsChangeInAssign ==
  ASSUME VidPnInv, [VidPnNext]_vidPnVars, call.op = "EnumVidPnCofuncModality",
         NEW side \in {"source", "target"}, vidpn'.set[side] # vidpn.set[side]
  PROVE  AssignModeSet /\ side = call.side
<1>1. call # NoCall /\ vidpn \in VidPns
  BY DEF NoCall, VidPnInv, VidPnTypeOK
<1>2. vidpn' # vidpn
  OBVIOUS
<1>3. ~ UpdatePathSupportInfo
  BY DEF UpdatePathSupportInfo, Supported, VidPns, VidPnInv, VidPnTypeOK
<1>4. AssignModeSet
  BY <1>1, <1>2, <1>3 DEF VidPnNext, vidPnVars, NewVidPn, Pin, CallDdi, Idle, CallbackFails,
     QueryInterface,
     IsSupportedVidPn, EnumFirstPath, HasPinnedMode, CreateModeSet, EnumNextPath,
     CommitSource, CommitPaths, CommitMode, RecommendMonitorModes, ModeChange
<1> QED
  BY <1>1, <1>4 DEF AssignModeSet, VidPns, VidPnInv, EnumInv

(* An enumeration replaces neither a set that a mode is pinned in nor the  *)
(* pivot.                                                                  *)
THEOREM PinnedSetsSurviveEnum == VidPnSpec => PinsSurviveEnum
<1> DEFINE Survives(side) ==
      call.op = "EnumVidPnCofuncModality" /\ vidpn'.set[side] # vidpn.set[side]
      => /\ vidpn.pin[side] = NoMode
         /\ call.pivot.type # (IF side = "source" THEN "VIDPNSOURCE" ELSE "VIDPNTARGET")
<1>1. VidPnInv /\ [VidPnNext]_vidPnVars
        => [\A side \in {"source", "target"} : Survives(side)]_vidPnVars
  <2> SUFFICES ASSUME VidPnInv, [VidPnNext]_vidPnVars, NEW side \in {"source", "target"},
                      call.op = "EnumVidPnCofuncModality",
                      vidpn'.set[side] # vidpn.set[side]
               PROVE  /\ vidpn.pin[side] = NoMode
                      /\ call.pivot.type # (IF side = "source" THEN "VIDPNSOURCE"
                                                               ELSE "VIDPNTARGET")
    OBVIOUS
  <2>1. AssignModeSet /\ side = call.side
    BY SetsChangeInAssign
  <2>2. vidpn.pin[side] = NoMode /\ ~ IsPivot(side)
    BY <2>1 DEF AssignModeSet, At, VidPnInv, EnumInv
  <2>3. call.pivot \in Pivots \cup {NoPivot}
    BY DEF VidPnInv, VidPnTypeOK
  <2> QED
    BY <2>2, <2>3 DEF IsPivot, Pivots, NoPivot
<1> QED
  BY <1>1, VidPnStarts, VidPnStep, PTL DEF VidPnSpec, PinsSurviveEnum

(* The current mode changes only in the last step of a CommitVidPn that    *)
(* reports success, to a pinned mode of the display's size.                *)
THEOREM CommitsAreAtomic == VidPnSpec => CommitIsAtomic
<1> DEFINE Atomic ==
      dxgkCurrentSourceMode' # dxgkCurrentSourceMode
      => /\ result'.op = "CommitVidPn" /\ result'.status = "success"
         /\ vidpn.scaling # "unpinned" /\ vidpn.rotation # "unpinned"
         /\ dxgkCurrentSourceMode'.size = "display"
<1>1. VidPnInv /\ [VidPnNext]_vidPnVars => [Atomic]_vidPnVars
  <2> SUFFICES ASSUME VidPnInv, VidPnNext, dxgkCurrentSourceMode' # dxgkCurrentSourceMode
               PROVE  Atomic
    BY DEF vidPnVars
  <2>1. CommitMode
    BY DEF VidPnNext, NewVidPn, Pin, CallDdi, CallbackFails, QueryInterface, IsSupportedVidPn,
       EnumFirstPath, HasPinnedMode, CreateModeSet, AssignModeSet, UpdatePathSupportInfo,
       EnumNextPath, CommitSource, CommitPaths, RecommendMonitorModes, ModeChange
  <2>2. /\ IsVidPnPathFieldsValid /\ Return("success")
        /\ dxgkCurrentSourceMode' = vidpn.pin.source
    BY <2>1 DEF CommitMode
  <2>3. call.op = "CommitVidPn" /\ vidpn.pin.source.size = "display"
    BY <2>1 DEF CommitMode, At, VidPnInv, CallInv, Route, CommitInv
  <2> QED
    BY <2>2, <2>3 DEF IsVidPnPathFieldsValid, Return
<1> QED
  BY <1>1, VidPnStarts, VidPnStep, PTL DEF VidPnSpec, CommitIsAtomic
=============================================================================
