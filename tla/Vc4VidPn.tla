------------------------------- MODULE Vc4VidPn -------------------------------
(***************************************************************************)
(* The negotiation of a video present network (VidPn) between Dxgkrnl and  *)
(* the VC4 display (roskmd/Vc4Display.cpp).  Dxgkrnl proposes a VidPn,     *)
(* lets the driver add the modes it can drive, pins what it chooses and    *)
(* commits the result.  A DDI of the driver is a sequence of callbacks     *)
(* into Dxgkrnl, each of which may fail, and each of which may hand out a  *)
(* handle that the driver has to give back: one action per callback here.  *)
(*                                                                         *)
(* The adapter reports one source and one target, so that a topology is    *)
(* empty or holds the path from source 0 to target 0.  A source mode is    *)
(* told apart by its size (that of the display or another one) and by its  *)
(* fields (those the driver accepts or others).                            *)
(*                                                                         *)
(* No name is shared with Vc4Scanout, the other half of the display.       *)
(***************************************************************************)
EXTENDS Naturals, FiniteSets

Modes == [size : {"display", "other"}, fields : {"valid", "invalid"}]
NoMode == [size |-> "none", fields |-> "none"]

\* The only mode of the driver: the size of the POST display, A8R8G8B8.
DisplayMode == [size |-> "display", fields |-> "valid"]

Scalings == {"unpinned", "identity", "notspecified", "centered"}
Rotations == {"unpinned", "identity", "notspecified", "rotate90"}

VidPns == [paths : 0 .. 1,
           set : [source : SUBSET Modes, target : SUBSET {DisplayMode}],
           pin : [source : Modes \cup {NoMode}, target : {DisplayMode, NoMode}],
           scaling : Scalings, scalingSupport : SUBSET Scalings,
           rotation : Rotations, rotationSupport : SUBSET Rotations,
           negotiated : BOOLEAN]

\* What EnumVidPnCofuncModality must leave alone.  The two identifiers that
\* come with a pivot mean something for the kinds that use them only.
PivotTypes == {"NOPIVOT", "VIDPNSOURCE", "VIDPNTARGET", "SCALING", "ROTATION"}
Pivots == {p \in [type : PivotTypes, source : BOOLEAN, target : BOOLEAN] :
              /\ p.type \in {"VIDPNSOURCE", "SCALING", "ROTATION"} => p.source
              /\ p.type \in {"VIDPNTARGET", "SCALING", "ROTATION"} => p.target}
NoPivot == [type |-> "NOPIVOT", source |-> FALSE, target |-> FALSE]

Handles == {"path", "modeSet", "pinnedMode", "newModeSet", "newMode"}
Sides == {"source", "target", "monitor"}
Ops == {"IsSupportedVidPn", "EnumVidPnCofuncModality", "CommitVidPn",
        "RecommendMonitorModes", "ModeChange"}
Callbacks == {"QueryVidPnInterface", "GetTopology", "GetNumPaths",
              "AcquireFirstPathInfo", "AcquireModeSet", "AcquirePinnedModeInfo",
              "CreateNewModeSet", "CreateNewModeInfo", "AddMode",
              "AssignModeSet", "UpdatePathSupportInfo", "AcquireNextPathInfo",
              "GetNumPathsFromSource", "EnumPathTargetsFromSource",
              "AcquirePathInfo"}

NoCall == [op |-> "none", at |-> "none", side |-> "source", pivot |-> NoPivot]
NoResult == [op |-> "none", status |-> "none", pivot |-> NoPivot]

VARIABLES
    vidpn,              \* the VidPn under negotiation
    monitorModes,       \* the modes of the monitor's source mode set
    call,               \* the DDI in progress and its next callback
    acquired,           \* handles Dxgkrnl has given out and not got back
    armed,              \* handles a finalizer of the DDI will give back
    dxgkCurrentSourceMode,
    result              \* of the last DDI, until Dxgkrnl acts on it

vidPnVars == <<vidpn, monitorModes, call, acquired, armed,
               dxgkCurrentSourceMode, result>>

EmptyVidPn(n) ==
    [paths |-> n,
     set |-> [source |-> {}, target |-> {}],
     pin |-> [source |-> NoMode, target |-> NoMode],
     scaling |-> "unpinned", scalingSupport |-> {},
     rotation |-> "unpinned", rotationSupport |-> {},
     negotiated |-> TRUE]

VidPnInit ==
    /\ vidpn = EmptyVidPn(0)
    /\ monitorModes = {}
    /\ call = NoCall
    /\ acquired = {}
    /\ armed = {}
    /\ dxgkCurrentSourceMode = NoMode
    /\ result = NoResult

-----------------------------------------------------------------------------
(* Dxgkrnl between two calls *)

Idle == call = NoCall

\* A new proposal: an empty one to be negotiated, or one it has kept from
\* earlier, everything in it pinned without asking the driver.
NewVidPn ==
    /\ Idle
    /\ \/ \E n \in 0 .. 1 : vidpn' = EmptyVidPn(n)
       \/ \E m \in Modes, s \in Scalings, r \in Rotations :
             vidpn' = [EmptyVidPn(1) EXCEPT !.set.source = {m},
                                            !.pin.source = m,
                                            !.scaling = s, !.rotation = r,
                                            !.negotiated = FALSE]
    /\ result' = NoResult
    /\ UNCHANGED <<monitorModes, call, acquired, armed, dxgkCurrentSourceMode>>

\* Dxgkrnl pins what the driver has offered.
Pin ==
    /\ Idle
    /\ \/ \E side \in {"source", "target"} :
             /\ vidpn.pin[side] = NoMode
             /\ \E m \in vidpn.set[side] :
                   vidpn' = [vidpn EXCEPT !.pin[side] = m]
       \/ /\ vidpn.scaling = "unpinned"
          /\ \E s \in vidpn.scalingSupport :
                vidpn' = [vidpn EXCEPT !.scaling = s]
       \/ /\ vidpn.rotation = "unpinned"
          /\ \E r \in vidpn.rotationSupport :
                vidpn' = [vidpn EXCEPT !.rotation = r]
    /\ result' = NoResult
    /\ UNCHANGED <<monitorModes, call, acquired, armed, dxgkCurrentSourceMode>>

CallDdi ==
    /\ Idle
    /\ \/ \E op \in {"IsSupportedVidPn", "CommitVidPn"} :
             call' = [NoCall EXCEPT !.op = op, !.at = "QueryVidPnInterface"]
       \/ \E p \in Pivots :
             call' = [NoCall EXCEPT !.op = "EnumVidPnCofuncModality",
                                    !.at = "QueryVidPnInterface", !.pivot = p]
       \/ call' = [NoCall EXCEPT !.op = "RecommendMonitorModes",
                                 !.at = "CreateNewModeInfo", !.side = "monitor"]
    /\ result' = NoResult
    /\ UNCHANGED <<vidpn, monitorModes, acquired, armed, dxgkCurrentSourceMode>>

-----------------------------------------------------------------------------
(* Steps every DDI is made of *)

GoTo(cb) == call' = [call EXCEPT !.at = cb]

\* A callback that hands out h, with a finalizer armed right after it.
Acquire(h) ==
    /\ acquired' = acquired \cup {h}
    /\ armed' = armed \cup {h}

\* The end of a scope: its finalizers give back what they cover.
Leave(hs) ==
    /\ acquired' = acquired \ (hs \cap armed)
    /\ armed' = armed \ hs

\* Dxgkrnl takes over h: the driver calls off the finalizer (DoNot).
HandOver(h) ==
    /\ acquired' = acquired \ {h}
    /\ armed' = armed \ {h}

Return(status) ==
    /\ Leave(Handles)
    /\ call' = NoCall
    /\ result' = [op |-> call.op, status |-> status, pivot |-> call.pivot]

At(cb) == call.at = cb

\* Any callback may fail, and the DDI returns what the callback returned.
CallbackFails ==
    /\ call # NoCall
    /\ Return("failed")
    /\ UNCHANGED <<vidpn, monitorModes, dxgkCurrentSourceMode>>

QueryInterface ==
    /\ \/ At("QueryVidPnInterface") /\ GoTo("GetTopology")
       \/ /\ At("GetTopology")
          /\ GoTo(IF call.op = "EnumVidPnCofuncModality"
                  THEN "AcquireFirstPathInfo" ELSE "GetNumPaths")
    /\ UNCHANGED <<vidpn, monitorModes, acquired, armed, dxgkCurrentSourceMode,
                   result>>

-----------------------------------------------------------------------------
(* IsSupportedVidPn: exactly one path, from source 0 to target 0.          *)

IsSupportedVidPn ==
    /\ call.op = "IsSupportedVidPn"
    /\ \/ /\ At("GetNumPaths")
          /\ IF vidpn.paths = 1
             THEN /\ GoTo("AcquireFirstPathInfo")
                  /\ UNCHANGED <<acquired, armed, result>>
             ELSE Return("unsupported")
       \/ /\ At("AcquireFirstPathInfo")      \* released by the finalizer
          /\ Return("supported")
    /\ UNCHANGED <<vidpn, monitorModes, dxgkCurrentSourceMode>>

-----------------------------------------------------------------------------
(* EnumVidPnCofuncModality *)

\* mutant
IsPivotOfTheOtherKind(side) ==
    \/ side = "source" /\ call.pivot.type = "VIDPNTARGET" /\ call.pivot.source
    \/ side = "target" /\ call.pivot.type = "VIDPNSOURCE" /\ call.pivot.target

IsPivot(side) ==
    \/ side = "source" /\ call.pivot.type = "VIDPNSOURCE" /\ call.pivot.source
    \/ side = "target" /\ call.pivot.type = "VIDPNTARGET" /\ call.pivot.target

PivotPath == call.pivot.source /\ call.pivot.target

\* mutant
CenteredToo == {"identity", "centered"}

\* The scaling the driver can do, as it reports it.
ScalingSupport == {"identity"}

\* The path with the transformations the driver supports filled in where they
\* are unpinned: scaling unless it is the pivot, rotation unless the pivot
\* is of another kind and names this path.
Supported ==
    LET doScaling == /\ ~ (call.pivot.type = "SCALING" /\ PivotPath)
                     /\ vidpn.scaling = "unpinned"
        doRotation == /\ ~ (call.pivot.type # "ROTATION" /\ PivotPath)
                      /\ vidpn.rotation = "unpinned"
    IN  [vidpn EXCEPT !.scalingSupport = IF doScaling THEN ScalingSupport ELSE @,
                      !.rotationSupport = IF doRotation THEN {"identity"} ELSE @]

\* What follows the mode sets of a side in the loop over the paths.
AfterSide(side) ==
    IF side = "source" /\ ~ IsPivot("target")
    THEN call' = [call EXCEPT !.side = "target", !.at = "AcquireModeSet"]
    ELSE GoTo(IF Supported # vidpn THEN "UpdatePathSupportInfo"
                                   ELSE "AcquireNextPathInfo")

EnumFirstPath ==
    /\ call.op = "EnumVidPnCofuncModality"
    /\ At("AcquireFirstPathInfo")
    /\ IF vidpn.paths = 0
       THEN Return("success")
       ELSE /\ Acquire("path")
            /\ IF IsPivot("source") THEN AfterSide("source")
                                    ELSE GoTo("AcquireModeSet")
            /\ UNCHANGED result
    /\ UNCHANGED <<vidpn, monitorModes, dxgkCurrentSourceMode>>

\* SourceHasPinnedMode and TargetHasPinnedMode
HasPinnedMode ==
    /\ call.op = "EnumVidPnCofuncModality"
    /\ \/ /\ At("AcquireModeSet")
          /\ Acquire("modeSet")
          /\ GoTo("AcquirePinnedModeInfo")
       \/ /\ At("AcquirePinnedModeInfo")
          /\ Leave({"modeSet", "pinnedMode"})
          /\ IF vidpn.pin[call.side] # NoMode THEN AfterSide(call.side)
                                              ELSE GoTo("CreateNewModeSet")
    /\ UNCHANGED <<vidpn, monitorModes, dxgkCurrentSourceMode, result>>

\* mutant
HandOverBeforeAssign ==
    /\ call.op = "EnumVidPnCofuncModality"
    /\ \/ /\ At("CreateNewModeSet") /\ Acquire("newModeSet")
          /\ GoTo("CreateNewModeInfo")
       \/ /\ At("CreateNewModeInfo") /\ Acquire("newMode") /\ GoTo("AddMode")
       \/ /\ At("AddMode") /\ acquired' = acquired \ {"newMode"}
          /\ armed' = armed \ {"newMode", "newModeSet"}
          /\ GoTo("AssignModeSet")
    /\ UNCHANGED <<vidpn, monitorModes, dxgkCurrentSourceMode, result>>

\* CreateAndAssignSourceModeSet and CreateAndAssignTargetModeSet: a new set
\* with the one mode of the display ...
CreateModeSet ==
    /\ call.op = "EnumVidPnCofuncModality"
    /\ \/ /\ At("CreateNewModeSet") /\ Acquire("newModeSet")
          /\ GoTo("CreateNewModeInfo")
       \/ /\ At("CreateNewModeInfo") /\ Acquire("newMode") /\ GoTo("AddMode")
       \/ /\ At("AddMode") /\ HandOver("newMode") /\ GoTo("AssignModeSet")
    /\ UNCHANGED <<vidpn, monitorModes, dxgkCurrentSourceMode, result>>

\* ... that replaces the set the VidPn had.
AssignModeSet ==
    /\ call.op = "EnumVidPnCofuncModality"
    /\ At("AssignModeSet")
    /\ vidpn' = [vidpn EXCEPT !.set[call.side] = {DisplayMode}]
    /\ HandOver("newModeSet")
    /\ AfterSide(call.side)
    /\ UNCHANGED <<monitorModes, dxgkCurrentSourceMode, result>>

UpdatePathSupportInfo ==
    /\ At("UpdatePathSupportInfo")
    /\ vidpn' = Supported
    /\ GoTo("AcquireNextPathInfo")
    /\ UNCHANGED <<monitorModes, acquired, armed, dxgkCurrentSourceMode, result>>

\* There is no second path: the loop ends and the path is given back.
EnumNextPath ==
    /\ At("AcquireNextPathInfo")
    /\ Return("success")
    /\ UNCHANGED <<vidpn, monitorModes, dxgkCurrentSourceMode>>

-----------------------------------------------------------------------------
(* CommitVidPn *)

IsVidPnSourceModeFieldsValid(m) == m.fields = "valid"

IsVidPnPathFieldsValid ==
    /\ vidpn.scaling \in {"identity", "notspecified"}
    /\ vidpn.rotation \in {"identity", "notspecified"}

CommitSource ==
    /\ call.op = "CommitVidPn"
    /\ \/ /\ At("GetNumPaths")
          /\ IF vidpn.paths = 0
             THEN Return("success")     \* the current mode stays as it was
             ELSE /\ GoTo("AcquireModeSet")
                  /\ UNCHANGED <<acquired, armed, result>>
       \/ /\ At("AcquireModeSet")
          /\ Acquire("modeSet")
          /\ GoTo("AcquirePinnedModeInfo")
          /\ UNCHANGED result
       \/ /\ At("AcquirePinnedModeInfo")
          /\ LET m == vidpn.pin.source
             IN  IF m = NoMode THEN Return("success")
                 ELSE IF IsVidPnSourceModeFieldsValid(m) /\ m.size = "display"
                 THEN /\ Acquire("pinnedMode")
                      /\ GoTo("GetNumPathsFromSource")
                      /\ UNCHANGED result
                 ELSE Return("rejected")
    /\ UNCHANGED <<vidpn, monitorModes, dxgkCurrentSourceMode>>

CommitPaths ==
    /\ call.op = "CommitVidPn"
    /\ \/ At("GetNumPathsFromSource") /\ GoTo("EnumPathTargetsFromSource")
       \/ At("EnumPathTargetsFromSource") /\ GoTo("AcquirePathInfo")
    /\ UNCHANGED <<vidpn, monitorModes, acquired, armed, dxgkCurrentSourceMode,
                   result>>

\* mutant
CommitBeforeCheck ==
    /\ At("AcquirePathInfo")
    /\ dxgkCurrentSourceMode' = vidpn.pin.source
    /\ IF IsVidPnPathFieldsValid THEN Return("success") ELSE Return("rejected")
    /\ UNCHANGED <<vidpn, monitorModes>>

CommitMode ==
    /\ At("AcquirePathInfo")
    /\ IF IsVidPnPathFieldsValid
       THEN /\ Return("success")
            /\ dxgkCurrentSourceMode' = vidpn.pin.source
       ELSE /\ Return("rejected")
            /\ UNCHANGED dxgkCurrentSourceMode
    /\ UNCHANGED <<vidpn, monitorModes>>

-----------------------------------------------------------------------------
(* RecommendMonitorModes and the mode change of SetVidPnSourceAddress *)

\* The new mode joins the set, or is there already: success that leaves it
\* to the finalizer.
RecommendMonitorModes ==
    /\ call.op = "RecommendMonitorModes"
    /\ \/ /\ At("CreateNewModeInfo")
          /\ Acquire("newMode")
          /\ GoTo("AddMode")
          /\ UNCHANGED <<monitorModes, result>>
       \/ /\ At("AddMode")
          /\ DisplayMode \in monitorModes
          /\ Return("success")
          /\ UNCHANGED monitorModes
       \/ /\ At("AddMode")
          /\ DisplayMode \notin monitorModes
          /\ monitorModes' = {DisplayMode}
          /\ acquired' = acquired \ {"newMode"}
          /\ armed' = {}
          /\ call' = NoCall
          /\ result' = [NoResult EXCEPT !.op = call.op, !.status = "success"]
    /\ UNCHANGED <<vidpn, dxgkCurrentSourceMode>>

\* SetVidPnSourceAddress with the ModeChange flag: is the primary one of the
\* current mode?
ModeChange ==
    /\ Idle
    /\ dxgkCurrentSourceMode # NoMode
    /\ \E primary \in Modes :
          result' = [NoResult EXCEPT !.op = "ModeChange",
                       !.status = IF primary = dxgkCurrentSourceMode
                                  THEN "success" ELSE "rejected"]
    /\ UNCHANGED <<vidpn, monitorModes, call, acquired, armed,
                   dxgkCurrentSourceMode>>

VidPnNext ==
    \/ NewVidPn \/ Pin \/ CallDdi
    \/ CallbackFails \/ QueryInterface \/ IsSupportedVidPn
    \/ EnumFirstPath \/ HasPinnedMode \/ CreateModeSet \/ AssignModeSet
    \/ UpdatePathSupportInfo \/ EnumNextPath
    \/ CommitSource \/ CommitPaths \/ CommitMode
    \/ RecommendMonitorModes \/ ModeChange

VidPnSpec == VidPnInit /\ [][VidPnNext]_vidPnVars

-----------------------------------------------------------------------------
(* Properties *)

\* The types of the variables (Vc4Display.h, the VidPn interface of Dxgkrnl).
VidPnTypeOK ==
    /\ vidpn \in VidPns
    /\ monitorModes \in SUBSET {DisplayMode}
    /\ call \in [op : Ops \cup {"none"}, at : Callbacks \cup {"none"},
                 side : Sides, pivot : Pivots \cup {NoPivot}]
    /\ acquired \in SUBSET Handles
    /\ armed \in SUBSET Handles
    /\ dxgkCurrentSourceMode \in Modes \cup {NoMode}
    /\ result \in [op : Ops \cup {"none"},
                   status : {"none", "failed", "rejected", "success",
                             "supported", "unsupported"},
                   pivot : Pivots \cup {NoPivot}]

\* Whichever callback fails, a DDI that has returned holds no path, mode set
\* or mode of Dxgkrnl any more: each was given back or has been taken over.
NothingHeldBetweenCalls == Idle => acquired = {}

\* A VidPn in which everything was chosen from what EnumVidPnCofuncModality
\* has offered is never turned down by CommitVidPn: what the two TODO comments
\* of CommitVidPn ask ("shouldn't this vidpn be valid by design").
NegotiatedIsCommitted ==
    (/\ result.op = "CommitVidPn"
     /\ vidpn.negotiated
     /\ vidpn.scaling # "unpinned"
     /\ vidpn.rotation # "unpinned")
    => result.status # "rejected"

\* Enumerating never replaces the set that a mode is pinned in, nor the set
\* that is the pivot of the call: the choice already made stays possible.
PinsSurviveEnum ==
    [][\A side \in {"source", "target"} :
          call.op = "EnumVidPnCofuncModality" /\ vidpn'.set[side] # vidpn.set[side]
          => /\ vidpn.pin[side] = NoMode
             /\ call.pivot.type # (IF side = "source" THEN "VIDPNSOURCE"
                                                      ELSE "VIDPNTARGET")]_vidPnVars

\* A commit changes the current mode as a whole or not at all: it changes in
\* the step in which CommitVidPn reports success, after every check, to a mode
\* of the size of the display.
CommitIsAtomic ==
    [][dxgkCurrentSourceMode' # dxgkCurrentSourceMode
       => /\ result'.op = "CommitVidPn" /\ result'.status = "success"
          /\ vidpn.scaling # "unpinned" /\ vidpn.rotation # "unpinned"
          /\ dxgkCurrentSourceMode'.size = "display"]_vidPnVars

-----------------------------------------------------------------------------
(* What the comments of the code claim and it does not keep *)

\* "If this path's rotation isn't the pivot point, do work on the rotation
\* support": after an enumeration whose pivot is not the rotation, Dxgkrnl
\* knows which rotations of the path are supported.
RotationSupportReported ==
    (/\ result.op = "EnumVidPnCofuncModality"
     /\ result.status = "success"
     /\ result.pivot.type # "ROTATION"
     /\ vidpn.paths = 1
     /\ vidpn.rotation = "unpinned")
    => vidpn.rotationSupport # {}

\* "Find out the number of paths now, if it's 0 don't bother with source mode
\* set and pinned mode, just clear current and then quit": after the commit of
\* an empty topology there is no current mode.
EmptyCommitClears ==
    (result.op = "CommitVidPn" /\ result.status = "success" /\ vidpn.paths = 0)
    => dxgkCurrentSourceMode = NoMode
=============================================================================
