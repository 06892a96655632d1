----------------------- MODULE RosUmdCommandBufferProofs -----------------------
(***************************************************************************)
(* Whatever the sizes of the lists, the resources and the calls, the user- *)
(* mode driver overruns no list, patches every command with the allocation *)
(* it means, draws to one target for each batch, clears before it draws,   *)
(* queues nothing that the CPU has mapped and loses no command.            *)
(***************************************************************************)
EXTENDS RosUmdCommandBuffer, TLAPS

------------------------------------------------------------------------------
(* The record dev.                                                         *)

Device ==
  [pos : Nat, commands : Seq(Kinds), allocs : Seq(Allocations), patches : Seq(PatchType),
   fence : Nat, sw : BOOLEAN, clear : BOOLEAN, clearedAt : Nat,
   binning : BOOLEAN, draws : BOOLEAN,
   target : Resources \cup {NoTarget}, targets : SUBSET Resources,
   lastFence : [Resources -> Nat], index : [Resources -> Nat],
   handle : [Resources -> Allocations],
   outcome : Outcomes, renders : Nat, sent : Seq(BatchType)]

(* The sizes, one by one.  (The constants of RosUmdCommandBuffer.h.)       *)
LEMMA SizesAreNumbers ==
  /\ CommandBufferSize \in Nat /\ AllocationListSize \in Nat /\ PatchLocationListSize \in Nat
  /\ CommandThreshold \in Nat /\ AllocationThreshold \in Nat /\ PatchThreshold \in Nat
  /\ HeaderSize \in Nat /\ EpilogSize \in Nat \ {0}
  /\ CopySize \in Nat \ {0} /\ HeaderSize + CopySize + CommandThreshold <= CommandBufferSize
  /\ DrawSize \in Nat \ {0} /\ HeaderSize + DrawSize + CommandThreshold <= CommandBufferSize
  /\ MaxStateCommands \in Nat
  /\ HeaderSize + MaxStateCommands + CommandThreshold <= CommandBufferSize
  /\ MaxAllocationsUsed \in Nat /\ MaxAllocationsUsed >= 3
  /\ MaxAllocationsUsed + AllocationThreshold <= AllocationListSize
  /\ MaxPatchLocations \in Nat /\ MaxPatchLocations >= 3
  /\ MaxPatchLocations + PatchThreshold <= PatchLocationListSize
BY SizesAssumption

SameLists(d, e) ==
  e.pos = d.pos /\ e.commands = d.commands /\ e.allocs = d.allocs /\ e.patches = d.patches
SameHeader(d, e) == e.clear = d.clear /\ e.clearedAt = d.clearedAt /\ e.targets = d.targets
SameUses(d, e) ==
  e.fence = d.fence /\ e.lastFence = d.lastFence /\ e.index = d.index /\ e.handle = d.handle
SameFlags(d, e) == e.draws = d.draws /\ e.target = d.target
SameCall(d, e) == e.outcome = d.outcome /\ e.renders = d.renders /\ e.sent = d.sent

(* What changes one field leaves the others.  (RosUmdDevice's members.)    *)
LEMMA SetFields ==
  ASSUME NEW d \in Device
  PROVE  /\ \A o \in Outcomes : LET e == [d EXCEPT !.outcome = o] IN
              /\ e \in Device /\ e.outcome = o /\ e.renders = d.renders /\ e.sent = d.sent
              /\ e.sw = d.sw /\ SameLists(d, e) /\ SameHeader(d, e) /\ SameUses(d, e)
              /\ SameFlags(d, e)
         /\ \A b \in BOOLEAN : LET e == [d EXCEPT !.sw = b] IN
              /\ e \in Device /\ e.sw = b
              /\ SameLists(d, e) /\ SameHeader(d, e) /\ SameUses(d, e) /\ SameFlags(d, e)
              /\ SameCall(d, e)
         /\ \A b \in BOOLEAN : LET e == [d EXCEPT !.binning = b] IN
              /\ e \in Device /\ e.sw = d.sw
              /\ SameLists(d, e) /\ SameHeader(d, e) /\ SameUses(d, e) /\ SameFlags(d, e)
              /\ SameCall(d, e)
         /\ \A t \in Resources : LET e == [d EXCEPT !.target = t] IN
              /\ e \in Device /\ e.sw = d.sw /\ e.target = t /\ e.draws = d.draws
              /\ SameLists(d, e) /\ SameHeader(d, e) /\ SameUses(d, e) /\ SameCall(d, e)
         /\ \A h \in [Resources -> Allocations] : LET e == [d EXCEPT !.handle = h] IN
              /\ e \in Device /\ e.sw = d.sw /\ e.handle = h
              /\ e.fence = d.fence /\ e.lastFence = d.lastFence /\ e.index = d.index
              /\ SameLists(d, e) /\ SameHeader(d, e) /\ SameFlags(d, e) /\ SameCall(d, e)
<1> USE DEF SameLists, SameHeader, SameUses, SameFlags, SameCall
<1>1. \A o \in Outcomes : LET e == [d EXCEPT !.outcome = o] IN
        /\ e \in Device /\ e.outcome = o /\ e.renders = d.renders /\ e.sent = d.sent
        /\ e.sw = d.sw /\ SameLists(d, e) /\ SameHeader(d, e) /\ SameUses(d, e)
        /\ SameFlags(d, e)
  BY DEF Device
<1>2. \A b \in BOOLEAN : LET e == [d EXCEPT !.sw = b] IN
        /\ e \in Device /\ e.sw = b
        /\ SameLists(d, e) /\ SameHeader(d, e) /\ SameUses(d, e) /\ SameFlags(d, e)
        /\ SameCall(d, e)
  BY DEF Device
<1>3. \A b \in BOOLEAN : LET e == [d EXCEPT !.binning = b] IN
        /\ e \in Device /\ e.sw = d.sw
        /\ SameLists(d, e) /\ SameHeader(d, e) /\ SameUses(d, e) /\ SameFlags(d, e)
        /\ SameCall(d, e)
  BY DEF Device
<1>4. \A t \in Resources : LET e == [d EXCEPT !.target = t] IN
        /\ e \in Device /\ e.sw = d.sw /\ e.target = t /\ e.draws = d.draws
        /\ SameLists(d, e) /\ SameHeader(d, e) /\ SameUses(d, e) /\ SameCall(d, e)
  BY DEF Device
<1>5. \A h \in [Resources -> Allocations] : LET e == [d EXCEPT !.handle = h] IN
        /\ e \in Device /\ e.sw = d.sw /\ e.handle = h
        /\ e.fence = d.fence /\ e.lastFence = d.lastFence /\ e.index = d.index
        /\ SameLists(d, e) /\ SameHeader(d, e) /\ SameFlags(d, e) /\ SameCall(d, e)
  BY DEF Device
<1>6. QED  BY <1>1, <1>2, <1>3, <1>4, <1>5

(* What every command changes, whatever flags it changes besides.          *)
Committed(d, e, kind, size, patches) ==
  /\ e.pos = d.pos + size
  /\ e.commands = Append(d.commands, kind)
  /\ e.patches = d.patches \o patches
  /\ e.allocs = d.allocs /\ e.sw = d.sw /\ e.target = d.target
  /\ e.clear = d.clear /\ e.clearedAt = d.clearedAt
  /\ SameUses(d, e) /\ SameCall(d, e)

(* A command with its patch locations.  (CommitCommandBufferSpace.)        *)
LEMMA CommitIs ==
  ASSUME NEW d \in Device, NEW kind \in Kinds, NEW size \in Nat, NEW patches \in Seq(PatchType)
  PROVE  LET e == Commit(d, kind, size, patches) IN
         e \in Device /\ Committed(d, e, kind, size, patches) /\ e.targets = d.targets
                     /\ SameFlags(d, e)
<1> USE DEF Committed, SameHeader, SameUses, SameFlags, SameCall
<1> DEFINE n == d.pos + size
           c == Append(d.commands, kind)
           p == d.patches \o patches
           e == [d EXCEPT !.pos = n, !.commands = c, !.patches = p]
<1>1. n \in Nat /\ c \in Seq(Kinds) /\ p \in Seq(PatchType)
  BY DEF Device
<1>2. Commit(d, kind, size, patches) = e
  BY DEF Commit
<1> HIDE DEF n, c, p
<1>3. /\ e \in Device /\ e.pos = n /\ e.commands = c /\ e.patches = p
      /\ e.allocs = d.allocs /\ e.sw = d.sw
      /\ SameHeader(d, e) /\ SameUses(d, e) /\ SameFlags(d, e) /\ SameCall(d, e)
  BY <1>1 DEF Device
<1> HIDE DEF e
<1>4. QED  BY <1>2, <1>3 DEF n, c, p

(* An entry of the allocation list.  (UseResource.)                        *)
LEMMA UseResourceIs ==
  ASSUME NEW d \in Device, NEW r \in Resources, d.lastFence[r] < d.fence
  PROVE  LET e == UseResource(d, r) IN
         /\ e \in Device
         /\ e.allocs = Append(d.allocs, d.handle[r])
         /\ e.lastFence = [d.lastFence EXCEPT ![r] = d.fence]
         /\ e.index = [d.index EXCEPT ![r] = Len(d.allocs) + 1]
         /\ e.fence = d.fence /\ e.handle = d.handle
         /\ e.pos = d.pos /\ e.commands = d.commands /\ e.patches = d.patches /\ e.sw = d.sw
         /\ SameHeader(d, e) /\ SameFlags(d, e) /\ SameCall(d, e)
<1> USE DEF SameHeader, SameFlags, SameCall
<1> DEFINE a == Append(d.allocs, d.handle[r])
           f == [d.lastFence EXCEPT ![r] = d.fence]
           i == [d.index EXCEPT ![r] = Len(d.allocs) + 1]
           e == [d EXCEPT !.allocs = a, !.lastFence = f, !.index = i]
<1>1. a \in Seq(Allocations) /\ f \in [Resources -> Nat] /\ i \in [Resources -> Nat]
  BY DEF Device
<1>2. UseResource(d, r) = e
  BY DEF UseResource
<1> HIDE DEF a, f, i
<1>3. /\ e \in Device /\ e.allocs = a /\ e.lastFence = f /\ e.index = i
      /\ e.fence = d.fence /\ e.handle = d.handle
      /\ e.pos = d.pos /\ e.commands = d.commands /\ e.patches = d.patches
      /\ e.sw = d.sw /\ SameHeader(d, e) /\ SameFlags(d, e) /\ SameCall(d, e)
  BY <1>1 DEF Device
<1> HIDE DEF e
<1>4. QED  BY <1>2, <1>3 DEF a, f, i

(* A submission that succeeds begins the next batch.  (Flush, Render.)     *)
LEMMA SubmitIs ==
  ASSUME NEW d \in Device, d.renders # 0
  PROVE  LET e == Submit(d) IN
         /\ e \in Device
         /\ e.renders = d.renders - 1 /\ e.sent = Append(d.sent, Batch(d))
         /\ e.outcome = d.outcome /\ e.fence = d.fence + 1
         /\ e.lastFence = d.lastFence /\ e.index = d.index /\ e.handle = d.handle
         /\ e.pos = HeaderSize /\ e.commands = <<>> /\ e.allocs = <<>> /\ e.patches = <<>>
         /\ e.sw = TRUE /\ e.clear = FALSE /\ e.clearedAt = 0 /\ e.targets = {}
         /\ SameFlags(d, e)
<1>1. PICK b \in Seq(BatchType) : b = Append(d.sent, Batch(d))
  <2>1. Batch(d) \in BatchType
    BY DEF Batch, BatchType, Device
  <2>2. d.sent \in Seq(BatchType)
    BY DEF Device
  <2>3. Append(d.sent, Batch(d)) \in Seq(BatchType)
    BY <2>1, <2>2
  <2>4. QED  BY <2>3
<1>2. PICK k \in Nat : k = d.renders - 1
  BY DEF Device
<1>3. PICK f \in Nat : f = d.fence + 1
  BY DEF Device
<1> DEFINE e == [pos |-> HeaderSize, commands |-> <<>>, allocs |-> <<>>, patches |-> <<>>,
                 fence |-> f, sw |-> TRUE, clear |-> FALSE, clearedAt |-> 0,
                 binning |-> d.binning, draws |-> d.draws,
                 target |-> d.target, targets |-> {},
                 lastFence |-> d.lastFence, index |-> d.index, handle |-> d.handle,
                 outcome |-> d.outcome, renders |-> k, sent |-> b]
<1>4. Submit(d) = e
  BY <1>1, <1>2, <1>3 DEF Submit, Device
<1>5. /\ <<>> \in Seq(Kinds) /\ <<>> \in Seq(Allocations) /\ <<>> \in Seq(PatchType)
      /\ {} \in SUBSET Resources /\ HeaderSize \in Nat
  BY SizesAssumption
<1>6. e \in Device
  BY <1>5 DEF Device
<1>7. QED  BY <1>1, <1>2, <1>3, <1>4, <1>6 DEF SameFlags

(* One that fails leaves the batch as it is.  (Render throws.)             *)
LEMMA SubmitFails ==
  ASSUME NEW d \in Device, d.renders = 0
  PROVE  Submit(d) = [d EXCEPT !.outcome = "throws"]
BY DEF Submit

(* The flags that a draw changes.  (The end of Draw and DrawIndexed.)      *)
LEMMA DrawIs ==
  ASSUME NEW d \in Device, d.target \in Resources
  PROVE  LET e == [d EXCEPT !.draws = TRUE, !.targets = d.targets \cup {d.target}] IN
         /\ e \in Device
         /\ e.draws = TRUE /\ e.targets = d.targets \cup {d.target} /\ e.target = d.target
         /\ e.clear = d.clear /\ e.clearedAt = d.clearedAt /\ e.sw = d.sw
         /\ SameLists(d, e) /\ SameUses(d, e) /\ SameCall(d, e)
<1> DEFINE t == d.targets \cup {d.target}
<1>1. t \in SUBSET Resources
  BY DEF Device
<1> HIDE DEF t
<1>2. QED  BY <1>1 DEF Device, SameLists, SameUses, SameCall

(* The flags that an epilogue changes.  (WriteEpilog.)                     *)
LEMMA EpilogIs ==
  ASSUME NEW d \in Device
  PROVE  LET e == [d EXCEPT !.binning = FALSE, !.draws = FALSE] IN
         /\ e \in Device /\ e.draws = FALSE /\ e.target = d.target /\ e.sw = d.sw
         /\ SameLists(d, e) /\ SameHeader(d, e) /\ SameUses(d, e) /\ SameCall(d, e)
BY DEF Device, SameLists, SameHeader, SameUses, SameCall

(* The header of a batch that is cleared.  (ClearRenderTargetView.)        *)
LEMMA ClearIs ==
  ASSUME NEW d \in Device
  PROVE  LET e == [d EXCEPT !.clear = TRUE, !.clearedAt = Len(d.commands)] IN
         /\ e \in Device /\ e.clear = TRUE /\ e.clearedAt = Len(d.commands)
         /\ e.targets = d.targets /\ e.sw = d.sw
         /\ SameLists(d, e) /\ SameUses(d, e) /\ SameFlags(d, e) /\ SameCall(d, e)
<1> DEFINE n == Len(d.commands)
<1>1. n \in Nat
  BY DEF Device
<1>2. n = Len(d.commands)
  OBVIOUS
<1> HIDE DEF n
<1>3. QED  BY <1>1, <1>2 DEF Device, SameLists, SameUses, SameFlags, SameCall

(* The beginning of a call.                                                *)
LEMMA CalledIs ==
  ASSUME dev \in Device, NEW n \in Nat
  PROVE  LET e == Called(n) IN
         /\ e \in Device /\ e.outcome = "returns" /\ e.renders = n /\ e.sent = <<>>
         /\ e.sw = dev.sw
         /\ SameLists(dev, e) /\ SameHeader(dev, e) /\ SameUses(dev, e) /\ SameFlags(dev, e)
<1>1. <<>> \in Seq(BatchType) /\ "returns" \in Outcomes
  BY DEF Outcomes
<1>2. QED  BY <1>1 DEF Called, Device, SameLists, SameHeader, SameUses, SameFlags

------------------------------------------------------------------------------
(* The inductive invariant.                                                *)

(* What has been written of a batch, and the room that is left.            *)
Written(d) == d.pos >= HeaderSize /\ (d.commands # <<>> => d.pos > HeaderSize)
Room(d) ==
  /\ d.pos + CommandThreshold <= CommandBufferSize
  /\ Len(d.allocs) + AllocationThreshold <= AllocationListSize
  /\ Len(d.patches) + PatchThreshold <= PatchLocationListSize + 1

(* A resource used in the batch is in its list; what is in the list        *)
(* belongs to a resource that is used, or to the swap chain, whose         *)
(* identities rotate; no two resources have one allocation.                *)
Listed(d) ==
  \A r \in Resources :
    /\ d.lastFence[r] <= d.fence
    /\ IsResourceUsed(d, r) =>
         /\ d.index[r] \in 1..Len(d.allocs)
         /\ r \notin SwapChain => d.allocs[d.index[r]] = d.handle[r]
Owned(d) ==
  \A i \in 1..Len(d.allocs) : \E r \in Resources :
    d.allocs[i] = d.handle[r] /\ (r \in SwapChain \/ IsResourceUsed(d, r))
Distinct(d) == \A r, q \in Resources : d.handle[r] = d.handle[q] => r = q

(* A patch location leads to the allocation that its command means.        *)
Leads(p, allocs) ==
  p # Unwritten => /\ p.index \in 1..Len(allocs)
                   /\ p.resource \notin SwapChain => allocs[p.index] = p.means
Resolves(patches, allocs) == \A i \in 1..Len(patches) : Leads(patches[i], allocs)

(* Unless the batch was resumed after its epilogue, which one marked SW    *)
(* never is, the flag tells whether it holds a draw, and to what target.   *)
Plain(d) == d.sw => ~Resumed(d.commands)
Drawn(d) ==
  \/ Resumed(d.commands)
  \/ /\ d.targets \subseteq {d.target}
     /\ d.targets # {} => d.draws
     /\ \A i \in 1..Len(d.commands) : d.commands[i] = "draw" => d.draws
Cleared(d) ==
  /\ d.clearedAt <= Len(d.commands)
  /\ Resumed(d.commands) \/ ClearIsFirst(Batch(d))

(* A batch that may be submitted, and those that this call has submitted.  *)
Submittable(b) ==
  /\ Resolves(b.patches, b.allocs)
  /\ (\A t, u \in b.targets : t = u) \/ ResumedWhenSent(b.commands)
  /\ ClearIsFirst(b) \/ ResumedWhenSent(b.commands)
Sent(d) == \A i \in 1..Len(d.sent) : Submittable(d.sent[i])

(* What the CPU has mapped is not used, nor ever the target.               *)
Unused(d, m) ==
  /\ \A r \in m : d.lastFence[r] < d.fence
  /\ d.target \in Default \cup {NoTarget}

(* The commands that the call has found are there or were submitted.       *)
Continues(d, found) ==
  IF Len(d.sent) = 0 THEN IsPrefixOf(found, d.commands)
                     ELSE IsPrefixOf(found, d.sent[1].commands)

Sound(d, m, found) ==
  /\ d \in Device
  /\ Written(d) /\ Room(d)
  /\ Listed(d) /\ Owned(d) /\ Distinct(d)
  /\ Resolves(d.patches, d.allocs)
  /\ Plain(d) /\ Drawn(d) /\ Cleared(d) /\ Sent(d)
  /\ Unused(d, m) /\ Continues(d, found)

BatchInv == mapped \subseteq Dynamic /\ Sound(dev, mapped, <<>>)

------------------------------------------------------------------------------
(* The changes of a batch, one at a time, keep the invariant.              *)

(* What the invariant does not speak of may change.  (m_binningStarted,    *)
(* and how the call goes on.)                                              *)
LEMMA SoundSame ==
  ASSUME NEW d, NEW e \in Device, NEW m, NEW found, Sound(d, m, found),
         SameLists(d, e), SameHeader(d, e), SameUses(d, e), SameFlags(d, e),
         e.sw = d.sw, e.sent = d.sent
  PROVE  Sound(e, m, found)
<1> USE DEF Sound, SameLists, SameHeader, SameUses, SameFlags
<1>1. Written(e) /\ Room(e)
  BY DEF Written, Room
<1>2. Listed(e) /\ Owned(e) /\ Distinct(e) /\ Resolves(e.patches, e.allocs)
  BY DEF Listed, Owned, Distinct, IsResourceUsed
<1>3. Plain(e) /\ Drawn(e)
  BY DEF Plain, Drawn
<1>4. Cleared(e)
  BY DEF Cleared, ClearIsFirst, Batch
<1>5. Sent(e) /\ Unused(e, m) /\ Continues(e, found)
  BY DEF Sent, Unused, Continues
<1>6. QED  BY <1>1, <1>2, <1>3, <1>4, <1>5

(* The header says which kind of commands it has.  (SetType.)              *)
LEMMA SoundType ==
  ASSUME NEW d \in Device, NEW m, NEW found, Sound(d, m, found), NEW b \in BOOLEAN,
         b => ~Resumed(d.commands)
  PROVE  LET e == [d EXCEPT !.sw = b] IN
         Sound(e, m, found) /\ SameLists(d, e) /\ SameUses(d, e) /\ SameFlags(d, e)
                            /\ SameCall(d, e)
<1> DEFINE e == [d EXCEPT !.sw = b]
<1>1. /\ e \in Device /\ e.sw = b
      /\ SameLists(d, e) /\ SameHeader(d, e) /\ SameUses(d, e) /\ SameFlags(d, e)
      /\ SameCall(d, e)
  BY SetFields
<1> HIDE DEF e
<1> USE <1>1 DEF Sound, SameLists, SameHeader, SameUses, SameFlags, SameCall
<1>2. Written(e) /\ Room(e)
  BY DEF Written, Room
<1>3. Listed(e) /\ Owned(e) /\ Distinct(e) /\ Resolves(e.patches, e.allocs)
  BY DEF Listed, Owned, Distinct, IsResourceUsed
<1>4. Plain(e) /\ Drawn(e)
  BY DEF Plain, Drawn
<1>5. Cleared(e)
  BY DEF Cleared, ClearIsFirst, Batch
<1>6. Sent(e) /\ Unused(e, m) /\ Continues(e, found)
  BY DEF Sent, Unused, Continues
<1>7. QED  BY <1>2, <1>3, <1>4, <1>5, <1>6 DEF e

(* A longer allocation list leaves the patch locations right.  (The list   *)
(* only grows until the batch is submitted.)                               *)
LEMMA LeadsInLonger ==
  ASSUME NEW p \in PatchType, NEW allocs \in Seq(Allocations), NEW a \in Allocations,
         Leads(p, allocs)
  PROVE  Leads(p, Append(allocs, a))
BY DEF Leads

(* What UseResource does for the call it is made from.                     *)
Uses(d, e, r) ==
  /\ e.pos = d.pos /\ e.commands = d.commands /\ e.patches = d.patches
  /\ Len(e.allocs) <= Len(d.allocs) + 1
  /\ e.fence = d.fence /\ e.handle = d.handle /\ e.target = d.target
  /\ e.sw = d.sw /\ SameCall(d, e)
  /\ IsResourceUsed(e, r)
  /\ \A q \in Resources : IsResourceUsed(d, q) => IsResourceUsed(e, q)

(* A resource that is not mapped is used.  (UseResource.)                  *)
LEMMA SoundUse ==
  ASSUME NEW d \in Device, NEW m, NEW found, Sound(d, m, found), NEW r \in Resources \ m,
         Len(d.allocs) + 1 + AllocationThreshold <= AllocationListSize
  PROVE  LET e == UseResource(d, r) IN Sound(e, m, found) /\ Uses(d, e, r)
<1> DEFINE e == UseResource(d, r)
<1>1. CASE ~(d.lastFence[r] < d.fence)
  <2>1. e = d
    BY <1>1 DEF UseResource
  <2>2. IsResourceUsed(d, r)
    BY <1>1 DEF Sound, Listed, IsResourceUsed, Device
  <2>3. Len(d.allocs) <= Len(d.allocs) + 1
    BY DEF Device
  <2>4. QED  BY <2>1, <2>2, <2>3 DEF Uses, SameCall
<1>2. CASE d.lastFence[r] < d.fence
  <2>1. /\ e \in Device
        /\ e.allocs = Append(d.allocs, d.handle[r])
        /\ e.lastFence = [d.lastFence EXCEPT ![r] = d.fence]
        /\ e.index = [d.index EXCEPT ![r] = Len(d.allocs) + 1]
        /\ e.fence = d.fence /\ e.handle = d.handle
        /\ e.pos = d.pos /\ e.commands = d.commands /\ e.patches = d.patches
        /\ e.sw = d.sw
        /\ SameHeader(d, e) /\ SameFlags(d, e) /\ SameCall(d, e)
    BY <1>2, UseResourceIs
  <2> HIDE DEF e
  <2>2. /\ d.allocs \in Seq(Allocations) /\ d.handle[r] \in Allocations /\ d.fence \in Nat
        /\ d.lastFence \in [Resources -> Nat] /\ d.index \in [Resources -> Nat]
        /\ d.patches \in Seq(PatchType)
    BY DEF Device
  <2> USE DEF Sound, SameHeader, SameFlags, SameCall
  <2>3. Written(e) /\ Room(e)
    BY <2>1, <2>2 DEF Written, Room
  <2>4. Listed(e)
    <3> SUFFICES ASSUME NEW q \in Resources
                 PROVE  /\ e.lastFence[q] <= e.fence
                        /\ IsResourceUsed(e, q) =>
                             /\ e.index[q] \in 1..Len(e.allocs)
                             /\ q \notin SwapChain => e.allocs[e.index[q]] = e.handle[q]
      BY DEF Listed
    <3>1. CASE q = r
      BY <3>1, <2>1, <2>2
    <3>2. CASE q # r
      <4>1. e.lastFence[q] = d.lastFence[q] /\ e.index[q] = d.index[q]
        BY <3>2, <2>1, <2>2
      <4>2. QED  BY <4>1, <2>1, <2>2 DEF Listed, IsResourceUsed
    <3>3. QED  BY <3>1, <3>2
  <2>5. Owned(e)
    <3> SUFFICES ASSUME NEW i \in 1..Len(e.allocs)
                 PROVE  \E q \in Resources :
                          e.allocs[i] = e.handle[q] /\ (q \in SwapChain \/ IsResourceUsed(e, q))
      BY DEF Owned
    <3>1. CASE i = Len(d.allocs) + 1
      BY <3>1, <2>1, <2>2 DEF IsResourceUsed
    <3>2. CASE i \in 1..Len(d.allocs)
      <4>1. PICK q \in Resources :
              d.allocs[i] = d.handle[q] /\ (q \in SwapChain \/ IsResourceUsed(d, q))
        BY <3>2 DEF Owned
      <4>2. e.allocs[i] = e.handle[q] /\ (q \in SwapChain \/ IsResourceUsed(e, q))
        BY <4>1, <3>2, <2>1, <2>2 DEF IsResourceUsed
      <4>3. QED  BY <4>2
    <3>3. QED  BY <3>1, <3>2, <2>1, <2>2
  <2>6. Distinct(e)
    BY <2>1 DEF Distinct
  <2>7. Resolves(e.patches, e.allocs)
    BY <2>1, <2>2, LeadsInLonger DEF Resolves
  <2>8. Plain(e) /\ Drawn(e)
    BY <2>1 DEF Plain, Drawn
  <2>9. Cleared(e)
    BY <2>1 DEF Cleared, ClearIsFirst, Batch
  <2>10. Sent(e) /\ Unused(e, m) /\ Continues(e, found)
    <3>1. \A q \in m : e.lastFence[q] < e.fence
      BY <2>1, <2>2 DEF Unused
    <3>2. QED  BY <3>1, <2>1 DEF Sent, Unused, Continues
  <2>11. Uses(d, e, r)
    BY <2>1, <2>2 DEF Uses, IsResourceUsed
  <2>12. QED
    BY <2>1, <2>3, <2>4, <2>5, <2>6, <2>7, <2>8, <2>9, <2>10, <2>11 DEF e
<1>3. QED  BY <1>1, <1>2

(* The patch location of a resource that is used.  (SetPatchLocation.)     *)
LEMMA PatchLocationLeads ==
  ASSUME NEW d \in Device, NEW m, NEW found, Sound(d, m, found), NEW r \in Resources,
         IsResourceUsed(d, r)
  PROVE  PatchLocation(d, r) \in PatchType /\ Leads(PatchLocation(d, r), d.allocs)
<1>1. /\ d.index[r] \in 1..Len(d.allocs)
      /\ r \notin SwapChain => d.allocs[d.index[r]] = d.handle[r]
  BY DEF Sound, Listed
<1>2. d.index[r] \in Nat /\ d.handle[r] \in Allocations
  BY DEF Device
<1>3. QED  BY <1>1, <1>2 DEF PatchLocation, PatchType, Leads

(* The end of a sequence.  (CommitCommandBufferSpace appends.)             *)
LEMMA AppendIs ==
  ASSUME NEW T, NEW s \in Seq(T), NEW x \in T
  PROVE  /\ Append(s, x) \in Seq(T) /\ Len(Append(s, x)) = Len(s) + 1 /\ Len(s) \in Nat
         /\ \A i \in 1..Len(s) : Append(s, x)[i] = s[i]
         /\ Append(s, x)[Len(s) + 1] = x
         /\ Append(s, x) # <<>>
OBVIOUS

(* A batch that was resumed stays so.  (WriteEpilog.)                      *)
LEMMA ResumedStays ==
  ASSUME NEW s \in Seq(Kinds), NEW kind \in Kinds
  PROVE  /\ Resumed(Append(s, kind)) <=> Resumed(s) \/ kind = "epilog"
         /\ ResumedWhenSent(Append(s, kind)) <=> Resumed(s)
<1>1. Resumed(Append(s, kind)) <=> Resumed(s) \/ kind = "epilog"
  BY AppendIs DEF Resumed
<1>2. SubSeq(Append(s, kind), 1, Len(Append(s, kind)) - 1) = s
  OBVIOUS
<1>3. QED  BY <1>1, <1>2 DEF ResumedWhenSent

(* A prefix stays one.  (CommitCommandBufferSpace appends.)                *)
LEMMA PrefixStays ==
  ASSUME NEW found \in Seq(Kinds), NEW s \in Seq(Kinds), NEW kind \in Kinds, IsPrefixOf(found, s)
  PROVE  IsPrefixOf(found, Append(s, kind))
BY DEF IsPrefixOf

(* Joined lists of patch locations lead where each does.  (The same.)      *)
LEMMA ResolvesJoined ==
  ASSUME NEW p \in Seq(PatchType), NEW q \in Seq(PatchType), NEW allocs,
         Resolves(p, allocs), Resolves(q, allocs)
  PROVE  Resolves(p \o q, allocs) /\ Len(p \o q) = Len(p) + Len(q)
<1>1. /\ p \o q \in Seq(PatchType) /\ Len(p \o q) = Len(p) + Len(q)
      /\ \A i \in 1..Len(p) : (p \o q)[i] = p[i]
      /\ \A i \in Len(p) + 1 .. Len(p) + Len(q) : (p \o q)[i] = q[i - Len(p)]
  OBVIOUS
<1>2. ASSUME NEW i \in 1..Len(p \o q) PROVE Leads((p \o q)[i], allocs)
  <2>1. CASE i \in 1..Len(p)
    BY <2>1, <1>1 DEF Resolves
  <2>2. CASE i \in Len(p) + 1 .. Len(p) + Len(q)
    <3>1. i - Len(p) \in 1..Len(q)
      BY <2>2
    <3>2. QED  BY <3>1, <2>2, <1>1 DEF Resolves
  <2>3. QED  BY <2>1, <2>2, <1>1
<1>3. QED  BY <1>1, <1>2 DEF Resolves

(* Its size was reserved, and its patch locations lead where they should.  *)
Commits(d, size, patches) ==
  /\ d.pos + size + CommandThreshold <= CommandBufferSize
  /\ Len(d.patches) + Len(patches) + PatchThreshold <= PatchLocationListSize + 1
  /\ Resolves(patches, d.allocs)

(* A command that had its room reserved keeps the batch sound, if the      *)
(* flags still tell what it draws.  (CommitCommandBufferSpace.)            *)
LEMMA SoundCommitted ==
  ASSUME NEW d \in Device, NEW e \in Device, NEW m \in SUBSET Dynamic, NEW found \in Seq(Kinds),
         Sound(d, m, found), NEW kind \in Kinds, NEW size \in Nat \ {0},
         NEW patches \in Seq(PatchType),
         Committed(d, e, kind, size, patches), Commits(d, size, patches),
         kind = "epilog" => ~d.sw,
         kind = "epilog" \/ Drawn(e)
  PROVE  Sound(e, m, found)
<1> USE DEF Sound, Committed, Commits, SameUses, SameCall
<1>1. /\ d.commands \in Seq(Kinds) /\ d.patches \in Seq(PatchType) /\ d.pos \in Nat
      /\ d.allocs \in Seq(Allocations)
  BY DEF Device
<1>2. Written(e)
  <2>1. d.pos >= HeaderSize /\ HeaderSize \in Nat
    BY SizesAreNumbers DEF Written
  <2>2. e.pos > HeaderSize /\ e.pos >= HeaderSize
    BY SMTT(30), <1>1, <2>1
  <2>3. QED  BY <2>1, <2>2 DEF Written
<1>3. Resolves(e.patches, e.allocs) /\ Len(e.patches) = Len(d.patches) + Len(patches)
  BY <1>1, ResolvesJoined
<1>4. Room(e)
  BY <1>1, <1>3 DEF Room
<1>5. Listed(e) /\ Owned(e) /\ Distinct(e)
  BY DEF Listed, Owned, Distinct, IsResourceUsed
<1>6. Resumed(e.commands) <=> Resumed(d.commands) \/ kind = "epilog"
  BY <1>1, ResumedStays
<1>7. Plain(e) /\ Drawn(e)
  BY <1>6 DEF Plain, Drawn
<1>8. Cleared(e)
  <2>1. /\ Len(e.commands) = Len(d.commands) + 1 /\ Len(d.commands) \in Nat
        /\ d.clearedAt <= Len(d.commands) /\ d.clearedAt \in Nat
        /\ \A i \in 1..d.clearedAt : e.commands[i] = d.commands[i]
    BY SMTT(30), <1>1, AppendIs DEF Cleared, Device
  <2>2. ClearIsFirst(Batch(d)) => ClearIsFirst(Batch(e))
    BY <2>1 DEF ClearIsFirst, Batch
  <2>3. QED  BY <2>1, <2>2, <1>6 DEF Cleared
<1>9. Continues(e, found)
  BY <1>1, PrefixStays DEF Continues
<1>10. Sent(e) /\ Unused(e, m)
  BY DEF Sent, Unused
<1>11. QED  BY <1>2, <1>3, <1>4, <1>5, <1>7, <1>8, <1>9, <1>10

(* A command that is neither a draw nor an epilogue.  (ResourceCopy and    *)
(* RefreshPipelineState.)                                                  *)
LEMMA SoundCommit ==
  ASSUME NEW d \in Device, NEW m \in SUBSET Dynamic, NEW found \in Seq(Kinds),
         Sound(d, m, found),
         NEW kind \in {"copy", "state"}, NEW size \in Nat \ {0},
         NEW patches \in Seq(PatchType), Commits(d, size, patches)
  PROVE  LET e == Commit(d, kind, size, patches) IN
         /\ e \in Device /\ Sound(e, m, found) /\ SameUses(d, e) /\ SameFlags(d, e)
         /\ SameCall(d, e)
<1> DEFINE e == Commit(d, kind, size, patches)
<1>1. /\ kind \in Kinds /\ kind \notin {"draw", "epilog"} /\ size \in Nat
      /\ d.commands \in Seq(Kinds)
  BY DEF Kinds, Device
<1>2. e \in Device /\ Committed(d, e, kind, size, patches) /\ e.targets = d.targets
                  /\ SameFlags(d, e)
  BY <1>1, CommitIs
<1> HIDE DEF e
<1>3. e.commands = Append(d.commands, kind) /\ SameUses(d, e) /\ SameCall(d, e)
  BY <1>2 DEF Committed
<1>4. Drawn(e)
  <2>1. Resumed(e.commands) <=> Resumed(d.commands)
    BY <1>1, <1>3, ResumedStays
  <2>2. e.targets = d.targets /\ e.target = d.target /\ e.draws = d.draws
    BY <1>2 DEF SameFlags
  <2>3. (\A i \in 1..Len(d.commands) : d.commands[i] = "draw" => d.draws) =>
           (\A i \in 1..Len(e.commands) : e.commands[i] = "draw" => d.draws)
    BY <1>1, <1>3, AppendIs
  <2>4. QED  BY <2>1, <2>2, <2>3 DEF Drawn, Sound
<1>5. Sound(e, m, found)
  BY <1>1, <1>2, <1>4, SoundCommitted
<1>6. QED  BY <1>2, <1>3, <1>5 DEF e

(* A draw.  (Draw, DrawIndexed.)                                           *)
LEMMA SoundDraw ==
  ASSUME NEW d \in Device, NEW m \in SUBSET Dynamic, NEW found \in Seq(Kinds),
         Sound(d, m, found),
         d.target \in Resources, NEW patches \in Seq(PatchType), Commits(d, DrawSize, patches)
  PROVE  LET e == CommitDraw(d, patches) IN
         e \in Device /\ Sound(e, m, found) /\ SameCall(d, e)
<1> DEFINE c == Commit(d, "draw", DrawSize, patches)
           e == [c EXCEPT !.draws = TRUE, !.targets = c.targets \cup {c.target}]
<1>1. "draw" \in Kinds /\ DrawSize \in Nat /\ DrawSize \in Nat \ {0} /\ d.commands \in Seq(Kinds)
  BY SizesAreNumbers DEF Kinds, Device
<1>2. c \in Device /\ Committed(d, c, "draw", DrawSize, patches) /\ c.targets = d.targets
                  /\ SameFlags(d, c)
  BY <1>1, CommitIs
<1>3. c.targets = d.targets /\ c.target = d.target
  BY <1>2 DEF SameFlags
<1>4. CommitDraw(d, patches) = e
  BY <1>3 DEF CommitDraw
<1> HIDE DEF c
<1>5. /\ e \in Device
      /\ e.draws = TRUE /\ e.targets = c.targets \cup {c.target} /\ e.target = c.target
      /\ e.clear = c.clear /\ e.clearedAt = c.clearedAt /\ e.sw = c.sw
      /\ SameLists(c, e) /\ SameUses(c, e) /\ SameCall(c, e)
  BY <1>2, <1>3, DrawIs
<1> HIDE DEF e
<1>6. Committed(d, e, "draw", DrawSize, patches)
  BY <1>2, <1>3, <1>5 DEF Committed, SameLists, SameUses, SameCall
<1>7. Drawn(e)
  <2>1. Resumed(e.commands) <=> Resumed(d.commands)
    BY <1>1, <1>6, ResumedStays DEF Committed
  <2>2. Resumed(d.commands) \/ d.targets \subseteq {d.target}
    BY DEF Sound, Drawn
  <2>3. QED  BY <2>1, <2>2, <1>3, <1>5 DEF Drawn
<1>8. Sound(e, m, found)
  BY <1>1, <1>5, <1>6, <1>7, SoundCommitted
<1>9. SameCall(d, e)
  BY <1>6 DEF Committed
<1>10. QED  BY <1>4, <1>5, <1>8, <1>9

(* An epilogue.  (WriteEpilog.)                                            *)
LEMMA SoundEpilog ==
  ASSUME NEW d \in Device, NEW m \in SUBSET Dynamic, NEW found \in Seq(Kinds),
         Sound(d, m, found), ~d.sw
  PROVE  LET e == WriteEpilog(d) IN
         /\ e \in Device /\ Sound(e, m, found)
         /\ e.outcome \in {d.outcome, "recurses"}
         /\ e.outcome = d.outcome /\ d.outcome # "recurses" =>
              /\ SameUses(d, e) /\ e.target = d.target /\ e.renders = d.renders
              /\ Submittable(Batch(e))
<1> DEFINE e == WriteEpilog(d)
<1>1. CASE ~Fits(d, EpilogSize, 0, 0)
  <2>1. e = [d EXCEPT !.outcome = "recurses"] /\ "recurses" \in Outcomes
    BY <1>1 DEF WriteEpilog, Outcomes
  <2>2. /\ e \in Device /\ e.outcome = "recurses" /\ e.sent = d.sent /\ e.sw = d.sw
        /\ SameLists(d, e) /\ SameHeader(d, e) /\ SameUses(d, e) /\ SameFlags(d, e)
    BY <2>1, SetFields
  <2>3. Sound(e, m, found)
    BY <2>2, SoundSame
  <2>4. QED  BY <2>2, <2>3
<1>2. CASE Fits(d, EpilogSize, 0, 0)
  <2>0. PICK none \in Seq(PatchType) : none = <<>>
    <3>1. <<>> \in Seq(PatchType)
      OBVIOUS
    <3>2. QED  BY <3>1
  <2> DEFINE c == Commit(d, "epilog", EpilogSize, none)
  <2>1. /\ "epilog" \in Kinds /\ EpilogSize \in Nat /\ EpilogSize \in Nat \ {0}
        /\ d.commands \in Seq(Kinds) /\ d.patches \in Seq(PatchType)
    BY SizesAreNumbers DEF Kinds, Device
  <2>2. c \in Device /\ Committed(d, c, "epilog", EpilogSize, none) /\ c.targets = d.targets
    BY <2>1, CommitIs
  <2>3. e = [c EXCEPT !.binning = FALSE, !.draws = FALSE]
    BY <1>2, <2>0 DEF WriteEpilog
  <2> HIDE DEF c
  <2>4. /\ e \in Device /\ e.draws = FALSE /\ e.target = c.target /\ e.sw = c.sw
        /\ SameLists(c, e) /\ SameHeader(c, e) /\ SameUses(c, e) /\ SameCall(c, e)
    BY <2>2, <2>3, EpilogIs
  <2> HIDE DEF e
  <2>5. Committed(d, e, "epilog", EpilogSize, none)
    BY <2>2, <2>4 DEF Committed, SameLists, SameHeader, SameUses, SameCall
  <2>6. Commits(d, EpilogSize, none)
    <3>1. Len(d.patches) + 0 + PatchThreshold <= PatchLocationListSize
      BY <1>2 DEF Fits
    <3>2. Len(none) = 0 /\ Resolves(none, d.allocs)
      BY <2>0 DEF Resolves
    <3>3. Len(d.patches) \in Nat
      BY <2>1
    <3>4. QED  BY <1>2, <3>1, <3>2, <3>3, SizesAreNumbers DEF Commits, Fits
  <2>7. Sound(e, m, found)
    BY <2>1, <2>4, <2>5, <2>6, SoundCommitted
  <2>8. ResumedWhenSent(e.commands) <=> Resumed(d.commands)
    BY <2>1, <2>5, ResumedStays DEF Committed
  <2>9. Submittable(Batch(e))
    <3>1. Resolves(e.patches, e.allocs)
      BY <2>7 DEF Sound
    <3>2. Resumed(d.commands) \/ \A t, u \in e.targets : t = u
      BY <2>2, <2>4 DEF Sound, Drawn, SameHeader
    <3>3. Resumed(d.commands) \/ ClearIsFirst(Batch(e))
      <4>1. /\ d.clearedAt <= Len(d.commands) /\ d.clearedAt \in Nat
            /\ \A i \in 1..d.clearedAt : e.commands[i] = d.commands[i]
        <5>1. d.clearedAt <= Len(d.commands) /\ d.clearedAt \in Nat /\ Len(d.commands) \in Nat
          BY <2>1, AppendIs DEF Sound, Cleared, Device
        <5>2. e.commands = Append(d.commands, "epilog")
          BY <2>5 DEF Committed
        <5>3. \A i \in 1..Len(d.commands) : e.commands[i] = d.commands[i]
          BY <2>1, <5>2, AppendIs
        <5>4. QED  BY <5>1, <5>3
      <4>2. e.clear = d.clear /\ e.clearedAt = d.clearedAt
        BY <2>5 DEF Committed
      <4>3. QED  BY <4>1, <4>2 DEF Sound, Cleared, ClearIsFirst, Batch
    <3>4. QED  BY <2>8, <3>1, <3>2, <3>3 DEF Submittable, Batch
  <2>10. SameUses(d, e) /\ e.target = d.target /\ SameCall(d, e)
    BY <2>5 DEF Committed
  <2>11. QED  BY <2>4, <2>7, <2>9, <2>10 DEF e, SameCall
<1>3. QED  BY <1>1, <1>2

------------------------------------------------------------------------------
(* The submission of a batch, and what it makes room for.                  *)

(* The next batch is begun.                                                *)
Emptied(d, e) ==
  /\ e.pos = HeaderSize /\ e.commands = <<>> /\ e.allocs = <<>> /\ e.patches = <<>>
  /\ e.targets = {} /\ e.fence = d.fence + 1
  /\ e.lastFence = d.lastFence /\ e.handle = d.handle /\ e.target = d.target

(* Copies need no epilogue to be submitted.  (Flush, of m_swCommandBuffer.) *)
LEMMA CopiesAreSubmittable ==
  ASSUME NEW d \in Device, NEW m, NEW found, Sound(d, m, found), d.sw
  PROVE  Submittable(Batch(d))
<1>1. ~Resumed(d.commands)
  BY DEF Sound, Plain
<1>2. Resolves(d.patches, d.allocs) /\ ClearIsFirst(Batch(d)) /\ d.targets \subseteq {d.target}
  BY <1>1 DEF Sound, Cleared, Drawn
<1>3. QED  BY <1>2 DEF Submittable, Batch

(* The list of what was submitted grows at its end.  (Render.)             *)
LEMMA SentIs ==
  ASSUME NEW d \in Device, NEW m \in SUBSET Dynamic, NEW found \in Seq(Kinds),
         Sound(d, m, found),
         Submittable(Batch(d)), NEW sent, sent = Append(d.sent, Batch(d))
  PROVE  /\ \A i \in 1..Len(sent) : Submittable(sent[i])
         /\ Len(sent) # 0 /\ IsPrefixOf(found, sent[1].commands)
<1>1. PICK b \in BatchType : b = Batch(d)
  BY DEF Batch, BatchType, Device
<1>2. d.sent \in Seq(BatchType) /\ Len(d.sent) \in Nat
  BY DEF Device
<1>3. /\ Len(sent) = Len(d.sent) + 1 /\ sent[Len(d.sent) + 1] = b
      /\ \A i \in 1..Len(d.sent) : sent[i] = d.sent[i]
  BY <1>1, <1>2, AppendIs
<1>4. \A i \in 1..Len(sent) : Submittable(sent[i])
  BY <1>1, <1>2, <1>3 DEF Sound, Sent
<1>5. IsPrefixOf(found, sent[1].commands)
  <2>1. CASE Len(d.sent) = 0
    <3>1. sent[1] = b /\ b.commands = d.commands
      BY <2>1, <1>1, <1>3 DEF Batch
    <3>2. QED  BY <2>1, <3>1 DEF Sound, Continues
  <2>2. CASE Len(d.sent) # 0
    <3>1. 1 \in 1..Len(d.sent)
      BY <2>2, <1>2
    <3>2. QED  BY <2>2, <3>1, <1>3 DEF Sound, Continues
  <2>3. QED  BY <2>1, <2>2
<1>6. QED  BY <1>2, <1>3, <1>4, <1>5

(* No resource is used in the batch that follows.  (m_mostRecentFence and  *)
(* m_submissionFence.)                                                     *)
LEMMA FencesPass ==
  ASSUME NEW d \in Device
  PROVE  /\ Listed(d) => \A r \in Resources : d.lastFence[r] < d.fence + 1
         /\ \A r \in Resources :
              d.lastFence[r] < d.fence => d.lastFence[r] <= d.fence /\ d.lastFence[r] # d.fence
<1>1. \A r \in Resources : d.lastFence[r] \in Nat /\ d.fence \in Nat
  BY DEF Device
<1>2. \A r \in Resources :
        d.lastFence[r] < d.fence => d.lastFence[r] <= d.fence /\ d.lastFence[r] # d.fence
  BY <1>1
<1>3. ASSUME Listed(d), NEW r \in Resources PROVE d.lastFence[r] < d.fence + 1
  <2>1. d.lastFence[r] <= d.fence
    BY <1>3 DEF Listed
  <2>2. d.lastFence[r] \in Nat /\ d.fence \in Nat
    BY <1>1
  <2>3. QED  BY <2>1, <2>2
<1>4. QED  BY <1>2, <1>3

(* What is submitted leaves an empty batch.  (Flush, from pfnRenderCb on.) *)
LEMMA SoundSubmit ==
  ASSUME NEW d \in Device, NEW m \in SUBSET Dynamic, NEW found \in Seq(Kinds), Sound(d, m, found),
         d.outcome = "returns", Submittable(Batch(d))
  PROVE  LET e == Submit(d) IN
         Sound(e, m, found) /\ (e.outcome = "returns" => Emptied(d, e))
<1> DEFINE e == Submit(d)
<1>1. CASE d.renders = 0
  <2>1. e = [d EXCEPT !.outcome = "throws"] /\ "throws" \in Outcomes
    BY <1>1, SubmitFails DEF Outcomes
  <2>2. /\ e \in Device /\ e.outcome = "throws" /\ e.sent = d.sent /\ e.sw = d.sw
        /\ SameLists(d, e) /\ SameHeader(d, e) /\ SameUses(d, e) /\ SameFlags(d, e)
    BY <2>1, SetFields
  <2> HIDE DEF e
  <2>3. Sound(e, m, found)
    BY <2>2, SoundSame
  <2>4. QED  BY <2>2, <2>3 DEF e
<1>2. CASE d.renders # 0
  <2>1. /\ e \in Device
        /\ e.renders = d.renders - 1 /\ e.sent = Append(d.sent, Batch(d))
        /\ e.outcome = d.outcome /\ e.fence = d.fence + 1
        /\ e.lastFence = d.lastFence /\ e.index = d.index /\ e.handle = d.handle
        /\ e.pos = HeaderSize /\ e.commands = <<>> /\ e.allocs = <<>> /\ e.patches = <<>>
        /\ e.sw = TRUE /\ e.clear = FALSE /\ e.clearedAt = 0 /\ e.targets = {}
        /\ SameFlags(d, e)
    BY <1>2, SubmitIs
  <2> HIDE DEF e
  <2>2. Emptied(d, e)
    BY <2>1 DEF Emptied, SameFlags
  <2>3. Written(e) /\ Room(e)
    <3>1. Len(e.allocs) = 0 /\ Len(e.patches) = 0
      BY <2>1
    <3>2. /\ HeaderSize + CommandThreshold <= CommandBufferSize
          /\ 0 + AllocationThreshold <= AllocationListSize
          /\ 0 + PatchThreshold <= PatchLocationListSize + 1
          /\ HeaderSize >= HeaderSize
      BY SizesAreNumbers
    <3>3. QED  BY <2>1, <3>1, <3>2 DEF Written, Room
  <2>4. \A r \in Resources : e.lastFence[r] < e.fence
    <3>1. Listed(d)
      BY DEF Sound
    <3>2. \A r \in Resources : d.lastFence[r] < d.fence + 1
      BY <3>1, FencesPass
    <3>3. QED  BY <2>1, <3>2
  <2>5. Listed(e)
    BY <2>1, <2>4, FencesPass DEF Listed, IsResourceUsed
  <2>6. Owned(e) /\ Distinct(e) /\ Resolves(e.patches, e.allocs)
    BY <2>1 DEF Owned, Distinct, Resolves, Sound
  <2>7. Plain(e) /\ Drawn(e)
    BY <2>1 DEF Plain, Drawn, Resumed
  <2>8. Cleared(e)
    BY <2>1 DEF Cleared, ClearIsFirst, Batch
  <2>9. Sent(e) /\ Continues(e, found)
    BY <2>1, SentIs DEF Sent, Continues
  <2>10. Unused(e, m)
    <3>1. m \subseteq Resources
      BY ResourcesAssumption
    <3>2. d.target \in Default \cup {NoTarget} /\ e.target = d.target
      BY <2>1 DEF Sound, Unused, SameFlags
    <3>3. QED  BY <2>4, <3>1, <3>2 DEF Unused
  <2>11. Sound(e, m, found)
    BY <2>1, <2>3, <2>5, <2>6, <2>7, <2>8, <2>9, <2>10 DEF Sound
  <2>12. QED  BY <2>2, <2>11 DEF e
<1>3. QED  BY <1>1, <1>2

(* A flush writes the epilogue and submits.  (RosUmdCommandBuffer::Flush.) *)
LEMMA SoundFlush ==
  ASSUME NEW d \in Device, NEW m \in SUBSET Dynamic, NEW found \in Seq(Kinds),
         Sound(d, m, found),
         d.outcome = "returns"
  PROVE  LET e == Flush(d) IN
         /\ e \in Device /\ Sound(e, m, found)
         /\ e.outcome = "returns" => Emptied(d, e)
<1>1. CASE d.sw
  <2>1. Flush(d) = Submit(d)
    BY <1>1 DEF Flush, Aborted
  <2>2. Submittable(Batch(d))
    BY <1>1, CopiesAreSubmittable
  <2>3. QED  BY <2>1, <2>2, SoundSubmit DEF Sound
<1>2. CASE ~d.sw
  <2> DEFINE ended == WriteEpilog(d)
  <2>1. /\ ended \in Device /\ Sound(ended, m, found)
        /\ ended.outcome \in {d.outcome, "recurses"}
        /\ ended.outcome = d.outcome /\ d.outcome # "recurses" =>
             /\ SameUses(d, ended) /\ ended.target = d.target /\ ended.renders = d.renders
             /\ Submittable(Batch(ended))
    BY <1>2, SoundEpilog
  <2>2. Flush(d) = IF Aborted(ended) THEN ended ELSE Submit(ended)
    BY <1>2 DEF Flush
  <2> HIDE DEF ended
  <2>3. CASE Aborted(ended)
    BY <2>1, <2>2, <2>3 DEF Aborted
  <2>4. CASE ~Aborted(ended)
    <3>1. /\ SameUses(d, ended) /\ ended.target = d.target /\ ended.outcome = "returns"
          /\ Submittable(Batch(ended))
      BY <2>1, <2>4 DEF Aborted
    <3> DEFINE e == Submit(ended)
    <3>2. Sound(e, m, found) /\ (e.outcome = "returns" => Emptied(ended, e))
      BY <2>1, <3>1, SoundSubmit
    <3>3. Flush(d) = e
      BY <2>2, <2>4
    <3> HIDE DEF e
    <3>4. e.outcome = "returns" => Emptied(d, e)
      BY <3>1, <3>2 DEF Emptied, SameUses
    <3>5. QED  BY <3>2, <3>3, <3>4 DEF Sound
  <2>5. QED  BY <2>3, <2>4
<1>3. QED  BY <1>1, <1>2

(* A resource that the batch uses is flushed with it.  (FlushIfMatching.)  *)
LEMMA SoundFlushIfMatching ==
  ASSUME NEW d \in Device, NEW m \in SUBSET Dynamic, NEW found \in Seq(Kinds),
         Sound(d, m, found),
         d.outcome = "returns", NEW r \in Resources
  PROVE  LET e == FlushIfMatching(d, d.lastFence[r]) IN
         /\ e \in Device /\ Sound(e, m, found)
         /\ e.outcome = "returns" => e.lastFence[r] < e.fence /\ e.handle = d.handle
<1> DEFINE e == FlushIfMatching(d, d.lastFence[r])
<1>1. d.lastFence[r] <= d.fence /\ d.lastFence[r] \in Nat /\ d.fence \in Nat
  BY DEF Sound, Listed, Device
<1>2. CASE d.lastFence[r] = d.fence
  <2>1. e = Flush(d)
    BY <1>2 DEF FlushIfMatching
  <2> HIDE DEF e
  <2>2. e \in Device /\ Sound(e, m, found) /\ (e.outcome = "returns" => Emptied(d, e))
    BY <2>1, SoundFlush
  <2>3. e.outcome = "returns" => e.lastFence[r] < e.fence /\ e.handle = d.handle
    BY <1>1, <2>2 DEF Emptied
  <2>4. QED  BY <2>2, <2>3 DEF e
<1>3. CASE d.lastFence[r] # d.fence
  <2>1. e = d
    BY <1>3 DEF FlushIfMatching
  <2>2. d.lastFence[r] < d.fence
    BY <1>1, <1>3
  <2>3. QED  BY <2>1, <2>2
<1>4. QED  BY <1>2, <1>3

(* A batch holds copies or draws: another kind begins a new one.  (The     *)
(* first part of ReserveCommandBufferSpace.)                               *)
LEMMA SoundSetType ==
  ASSUME NEW d \in Device, NEW m \in SUBSET Dynamic, NEW found \in Seq(Kinds),
         Sound(d, m, found),
         d.outcome = "returns", NEW b \in BOOLEAN
  PROVE  LET e == SetType(d, b) IN
         /\ e \in Device /\ Sound(e, m, found)
         /\ e.outcome = "returns" => e.target = d.target
<1> DEFINE e == SetType(d, b)
<1>1. CASE d.sw = b
  BY <1>1 DEF SetType
<1>2. CASE d.sw # b
  <2> DEFINE flushed == IF IsCommandBufferEmpty(d) THEN d ELSE Flush(d)
  <2>1. e = IF Aborted(flushed) THEN flushed ELSE [flushed EXCEPT !.sw = b]
    BY <1>2 DEF SetType
  <2>2. /\ flushed \in Device /\ Sound(flushed, m, found)
        /\ flushed.outcome = "returns" => flushed.commands = <<>> /\ flushed.target = d.target
    <3>1. CASE IsCommandBufferEmpty(d)
      <4>1. flushed = d
        BY <3>1
      <4>2. d.pos <= HeaderSize /\ d.pos \in Nat /\ HeaderSize \in Nat
        BY <3>1, SizesAreNumbers DEF IsCommandBufferEmpty, Device
      <4>3. d.commands = <<>>
        BY <4>2 DEF Sound, Written
      <4>4. QED  BY <4>1, <4>3
    <3>2. CASE ~IsCommandBufferEmpty(d)
      <4>1. flushed = Flush(d)
        BY <3>2
      <4> HIDE DEF flushed
      <4>2. QED  BY <4>1, SoundFlush DEF Emptied
    <3>3. QED  BY <3>1, <3>2
  <2> HIDE DEF flushed
  <2>3. CASE Aborted(flushed)
    BY <2>1, <2>2, <2>3 DEF Aborted
  <2>4. CASE ~Aborted(flushed)
    <3>1. e = [flushed EXCEPT !.sw = b] /\ ~Resumed(flushed.commands)
      BY <2>1, <2>2, <2>4 DEF Aborted, Resumed
    <3> HIDE DEF e
    <3>2. Sound(e, m, found) /\ SameFlags(flushed, e)
      BY <2>2, <3>1, SoundType
    <3>3. e.target = d.target
      BY <2>2, <2>4, <3>2 DEF Aborted, SameFlags
    <3>4. QED  BY <3>2, <3>3 DEF Sound, e
  <2>5. QED  BY <2>3, <2>4
<1>3. QED  BY <1>1, <1>2

(* A request that an empty batch has room for.                             *)
Fair(size, allocs, patches) ==
  /\ size \in Nat /\ allocs \in Nat /\ patches \in Nat
  /\ HeaderSize + size + CommandThreshold <= CommandBufferSize
  /\ allocs + AllocationThreshold <= AllocationListSize
  /\ patches + PatchThreshold <= PatchLocationListSize

(* What a reservation leaves: what was asked for fits, the target is kept. *)
Reserved(d, e, size, allocs, patches) ==
  e.outcome = "returns" => Fits(e, size, allocs, patches) /\ e.target = d.target

(* A reservation that returns has made room, in a batch of its kind, and   *)
(* the batch stays sound.  (ReserveCommandBufferSpace.)                    *)
LEMMA SoundReserve ==
  ASSUME NEW d \in Device, NEW m \in SUBSET Dynamic, NEW found \in Seq(Kinds),
         Sound(d, m, found),
         d.outcome = "returns", NEW b \in BOOLEAN,
         NEW size, NEW allocs, NEW patches, Fair(size, allocs, patches)
  PROVE  LET e == Reserve(d, b, size, allocs, patches) IN
         /\ e \in Device /\ Sound(e, m, found)
         /\ Reserved(d, e, size, allocs, patches)
<1> DEFINE f == SetType(d, b)
           e == Reserve(d, b, size, allocs, patches)
<1>1. /\ f \in Device /\ Sound(f, m, found)
      /\ f.outcome = "returns" => f.target = d.target
  BY SoundSetType
<1>2. e = MakeRoom(f, size, allocs, patches)
  BY DEF Reserve
<1> HIDE DEF f, e
<1>3. CASE Aborted(f) \/ Fits(f, size, allocs, patches)
  <2>1. e = f
    BY <1>2, <1>3 DEF MakeRoom
  <2>2. Reserved(d, e, size, allocs, patches)
    BY <1>1, <1>3, <2>1 DEF Aborted, Reserved
  <2>3. QED  BY <1>1, <2>1, <2>2 DEF e
<1>4. CASE ~(Aborted(f) \/ Fits(f, size, allocs, patches))
  <2>1. e = Flush(f) /\ f.outcome = "returns"
    BY <1>2, <1>4 DEF MakeRoom, Aborted
  <2>2. e \in Device /\ Sound(e, m, found) /\ (e.outcome = "returns" => Emptied(f, e))
    BY <1>1, <2>1, SoundFlush
  <2>3. ASSUME e.outcome = "returns" PROVE Fits(e, size, allocs, patches)
    <3>1. e.pos = HeaderSize /\ Len(e.allocs) = 0 /\ Len(e.patches) = 0
      BY <2>2, <2>3 DEF Emptied
    <3>2. 0 + allocs = allocs /\ 0 + patches = patches
      BY DEF Fair
    <3>3. QED  BY <3>1, <3>2 DEF Fits, Fair
  <2>4. e.outcome = "returns" => e.target = d.target
    BY <1>1, <2>1, <2>2 DEF Emptied
  <2>5. QED  BY <2>2, <2>3, <2>4 DEF e, Reserved
<1>5. QED  BY <1>3, <1>4

------------------------------------------------------------------------------
(* The other changes of the device.                                        *)

(* Another target is bound once nothing has been drawn to the last one.    *)
(* (SetRenderTargets, after its flush.)                                    *)
LEMMA SoundTarget ==
  ASSUME NEW d \in Device, NEW m, NEW found, Sound(d, m, found), NEW t \in Default,
         d.targets = {} \/ Resumed(d.commands),
         Resumed(d.commands) \/ \A i \in 1..Len(d.commands) : d.commands[i] # "draw"
  PROVE  Sound([d EXCEPT !.target = t], m, found)
<1> DEFINE e == [d EXCEPT !.target = t]
<1>1. t \in Resources
  BY DEF Default
<1>2. /\ e \in Device /\ e.sw = d.sw /\ e.target = t /\ e.draws = d.draws
      /\ SameLists(d, e) /\ SameHeader(d, e) /\ SameUses(d, e) /\ SameCall(d, e)
  BY <1>1, SetFields
<1> HIDE DEF e
<1> USE <1>2 DEF Sound, SameLists, SameHeader, SameUses, SameCall
<1>3. Written(e) /\ Room(e)
  BY DEF Written, Room
<1>4. Listed(e) /\ Owned(e) /\ Distinct(e) /\ Resolves(e.patches, e.allocs)
  BY DEF Listed, Owned, Distinct, IsResourceUsed
<1>5. Plain(e) /\ Drawn(e)
  BY DEF Plain, Drawn
<1>6. Cleared(e)
  BY DEF Cleared, ClearIsFirst, Batch
<1>7. Sent(e) /\ Unused(e, m) /\ Continues(e, found)
  BY DEF Sent, Unused, Continues
<1>8. QED  BY <1>3, <1>4, <1>5, <1>6, <1>7 DEF e

(* A clear is put into the header while the batch holds no draw.           *)
(* (ClearRenderTargetView, ClearDepthStencilView, after their flush.)      *)
LEMMA SoundClear ==
  ASSUME NEW d \in Device, NEW m, NEW found, Sound(d, m, found),
         Resumed(d.commands) \/ \A i \in 1..Len(d.commands) : d.commands[i] # "draw"
  PROVE  Sound([d EXCEPT !.clear = TRUE, !.clearedAt = Len(d.commands)], m, found)
<1> DEFINE e == [d EXCEPT !.clear = TRUE, !.clearedAt = Len(d.commands)]
<1>1. /\ e \in Device /\ e.clear = TRUE /\ e.clearedAt = Len(d.commands)
      /\ e.targets = d.targets /\ e.sw = d.sw
      /\ SameLists(d, e) /\ SameUses(d, e) /\ SameFlags(d, e) /\ SameCall(d, e)
  BY ClearIs
<1> HIDE DEF e
<1> USE <1>1 DEF Sound, SameLists, SameUses, SameFlags, SameCall
<1>2. Written(e) /\ Room(e)
  BY DEF Written, Room
<1>3. Listed(e) /\ Owned(e) /\ Distinct(e) /\ Resolves(e.patches, e.allocs)
  BY DEF Listed, Owned, Distinct, IsResourceUsed
<1>4. Plain(e) /\ Drawn(e)
  BY DEF Plain, Drawn
<1>5. Cleared(e)
  <2>1. Len(d.commands) \in Nat
    BY DEF Device
  <2>2. Len(d.commands) <= Len(d.commands)
    BY <2>1
  <2>3. QED  BY <2>2 DEF Cleared, ClearIsFirst, Batch
<1>6. Sent(e) /\ Unused(e, m) /\ Continues(e, found)
  BY DEF Sent, Unused, Continues
<1>7. QED  BY <1>2, <1>3, <1>4, <1>5, <1>6 DEF e

(* Without a draw since the last epilogue the batch holds none, unless it  *)
(* was resumed.  (m_hasDrawCall.)                                          *)
LEMMA NothingDrawn ==
  ASSUME NEW d, NEW m, NEW found, Sound(d, m, found), ~d.draws
  PROVE  /\ d.targets = {} \/ Resumed(d.commands)
         /\ Resumed(d.commands) \/ \A i \in 1..Len(d.commands) : d.commands[i] # "draw"
BY DEF Sound, Drawn

(* A resource that the batch does not use gets a new allocation.           *)
(* (RosUmdResource::Map with a discarding lock.)                           *)
LEMMA SoundRename ==
  ASSUME NEW d \in Device, NEW m, NEW found, Sound(d, m, found), NEW r \in Resources \ SwapChain,
         d.lastFence[r] < d.fence, NEW new \in Allocations, \A q \in Resources : d.handle[q] # new
  PROVE  Sound([d EXCEPT !.handle[r] = new], m, found)
<1> DEFINE h == [d.handle EXCEPT ![r] = new]
           e == [d EXCEPT !.handle = h]
<1>1. d.handle \in [Resources -> Allocations] /\ ~IsResourceUsed(d, r)
  BY DEF Device, IsResourceUsed
<1>2. /\ h \in [Resources -> Allocations] /\ h[r] = new
      /\ \A q \in Resources \ {r} : h[q] = d.handle[q]
  BY <1>1
<1>3. [d EXCEPT !.handle[r] = new] = e
  BY DEF Device
<1> HIDE DEF h
<1>4. /\ e \in Device /\ e.sw = d.sw /\ e.handle = h
      /\ e.fence = d.fence /\ e.lastFence = d.lastFence /\ e.index = d.index
      /\ SameLists(d, e) /\ SameHeader(d, e) /\ SameFlags(d, e) /\ SameCall(d, e)
  BY <1>2, SetFields
<1> HIDE DEF e
<1> USE <1>4 DEF Sound, SameLists, SameHeader, SameFlags, SameCall
<1>5. Written(e) /\ Room(e)
  BY DEF Written, Room
<1>6. Listed(e)
  <2> SUFFICES ASSUME NEW q \in Resources
               PROVE  /\ e.lastFence[q] <= e.fence
                      /\ IsResourceUsed(e, q) =>
                           /\ e.index[q] \in 1..Len(e.allocs)
                           /\ q \notin SwapChain => e.allocs[e.index[q]] = e.handle[q]
    BY DEF Listed
  <2>1. CASE q = r
    BY <2>1, <1>1 DEF Listed, IsResourceUsed
  <2>2. CASE q # r
    <3>1. h[q] = d.handle[q]
      BY <2>2, <1>2
    <3>2. QED  BY <3>1 DEF Listed, IsResourceUsed
  <2>3. QED  BY <2>1, <2>2
<1>7. Owned(e)
  <2> SUFFICES ASSUME NEW i \in 1..Len(d.allocs)
               PROVE  \E q \in Resources :
                        d.allocs[i] = h[q] /\ (q \in SwapChain \/ IsResourceUsed(d, q))
    BY DEF Owned, IsResourceUsed
  <2>1. PICK q \in Resources :
          d.allocs[i] = d.handle[q] /\ (q \in SwapChain \/ IsResourceUsed(d, q))
    BY DEF Owned
  <2>2. q # r
    BY <2>1, <1>1
  <2>3. QED  BY <2>1, <2>2, <1>2
<1>8. Distinct(e)
  BY <1>2 DEF Distinct
<1>9. Resolves(e.patches, e.allocs) /\ Plain(e) /\ Drawn(e)
  BY DEF Plain, Drawn
<1>10. Cleared(e)
  BY DEF Cleared, ClearIsFirst, Batch
<1>11. Sent(e) /\ Unused(e, m) /\ Continues(e, found)
  BY DEF Sent, Unused, Continues
<1>12. QED  BY <1>3, <1>5, <1>6, <1>7, <1>8, <1>9, <1>10, <1>11

(* Two resources of the swap chain exchange their allocations.             *)
(* (RotateResourceIdentities.)                                             *)
LEMMA SoundRotate ==
  ASSUME NEW d \in Device, NEW m, NEW found, Sound(d, m, found),
         NEW r \in SwapChain, NEW q \in SwapChain, r # q
  PROVE  Sound(Rotate(d, r, q), m, found)
<1> DEFINE h == [d.handle EXCEPT ![r] = d.handle[q], ![q] = d.handle[r]]
           e == [d EXCEPT !.handle = h]
<1>1. d.handle \in [Resources -> Allocations] /\ r \in Resources /\ q \in Resources
  BY ResourcesAssumption DEF Device
<1>2. /\ h \in [Resources -> Allocations] /\ h[r] = d.handle[q] /\ h[q] = d.handle[r]
      /\ \A x \in Resources \ {r, q} : h[x] = d.handle[x]
  BY <1>1
<1>3. Rotate(d, r, q) = e
  BY DEF Rotate, Device
<1> HIDE DEF h
<1>4. /\ e \in Device /\ e.sw = d.sw /\ e.handle = h
      /\ e.fence = d.fence /\ e.lastFence = d.lastFence /\ e.index = d.index
      /\ SameLists(d, e) /\ SameHeader(d, e) /\ SameFlags(d, e) /\ SameCall(d, e)
  BY <1>2, SetFields
<1> HIDE DEF e
<1> USE <1>4 DEF Sound, SameLists, SameHeader, SameFlags, SameCall
<1>5. Written(e) /\ Room(e)
  BY DEF Written, Room
<1>6. Listed(e)
  <2> SUFFICES ASSUME NEW x \in Resources
               PROVE  /\ e.lastFence[x] <= e.fence
                      /\ IsResourceUsed(e, x) =>
                           /\ e.index[x] \in 1..Len(e.allocs)
                           /\ x \notin SwapChain => e.allocs[e.index[x]] = e.handle[x]
    BY DEF Listed
  <2>1. CASE x \in SwapChain
    BY <2>1 DEF Listed, IsResourceUsed
  <2>2. CASE x \notin SwapChain
    <3>1. h[x] = d.handle[x]
      BY <2>2, <1>2
    <3>2. QED  BY <3>1 DEF Listed, IsResourceUsed
  <2>3. QED  BY <2>1, <2>2
<1>7. Owned(e)
  <2> SUFFICES ASSUME NEW i \in 1..Len(d.allocs)
               PROVE  \E x \in Resources :
                        d.allocs[i] = h[x] /\ (x \in SwapChain \/ IsResourceUsed(d, x))
    BY DEF Owned, IsResourceUsed
  <2>1. PICK x \in Resources :
          d.allocs[i] = d.handle[x] /\ (x \in SwapChain \/ IsResourceUsed(d, x))
    BY DEF Owned
  <2>2. CASE x \in {r, q}
    BY <2>1, <2>2, <1>1, <1>2
  <2>3. CASE x \notin {r, q}
    BY <2>1, <2>3, <1>2
  <2>4. QED  BY <2>2, <2>3
<1>8. Distinct(e)
  <2>1. \A x, y \in Resources : d.handle[x] = d.handle[y] => x = y
    BY DEF Distinct
  <2>2. \A x, y \in Resources : h[x] = h[y] => x = y
    BY <2>1, <1>1, <1>2
  <2>3. QED  BY <2>2 DEF Distinct
<1>9. Resolves(e.patches, e.allocs) /\ Plain(e) /\ Drawn(e)
  BY DEF Plain, Drawn
<1>10. Cleared(e)
  BY DEF Cleared, ClearIsFirst, Batch
<1>11. Sent(e) /\ Unused(e, m) /\ Continues(e, found)
  BY DEF Sent, Unused, Continues
<1>12. QED  BY <1>3, <1>5, <1>6, <1>7, <1>8, <1>9, <1>10, <1>11

(* A call finds the batch as the last one left it.                         *)
LEMMA SoundCalled ==
  ASSUME NEW m, Sound(dev, m, <<>>), NEW n \in Nat
  PROVE  LET e == Called(n) IN
         /\ e \in Device /\ Sound(e, m, dev.commands) /\ e.outcome = "returns"
         /\ dev.commands \in Seq(Kinds)
         /\ SameUses(dev, e) /\ e.target = dev.target
<1> DEFINE e == Called(n)
<1>1. dev \in Device /\ dev.commands \in Seq(Kinds)
  BY DEF Sound, Device
<1>2. /\ e \in Device /\ e.outcome = "returns" /\ e.renders = n /\ e.sent = <<>>
      /\ e.sw = dev.sw
      /\ SameLists(dev, e) /\ SameHeader(dev, e) /\ SameUses(dev, e) /\ SameFlags(dev, e)
  BY <1>1, CalledIs
<1> HIDE DEF e
<1> USE <1>1, <1>2 DEF Sound, SameLists, SameHeader, SameUses, SameFlags
<1>3. Written(e) /\ Room(e)
  BY DEF Written, Room
<1>4. Listed(e) /\ Owned(e) /\ Distinct(e) /\ Resolves(e.patches, e.allocs)
  BY DEF Listed, Owned, Distinct, IsResourceUsed
<1>5. Plain(e) /\ Drawn(e)
  BY DEF Plain, Drawn
<1>6. Cleared(e)
  BY DEF Cleared, ClearIsFirst, Batch
<1>7. Sent(e) /\ Unused(e, m)
  BY DEF Sent, Unused
<1>8. Continues(e, dev.commands)
  <2>1. Len(dev.commands) \in Nat
    OBVIOUS
  <2>2. IsPrefixOf(dev.commands, dev.commands)
    BY <2>1 DEF IsPrefixOf
  <2>3. QED  BY <2>2 DEF Continues
<1>9. QED  BY <1>3, <1>4, <1>5, <1>6, <1>7, <1>8 DEF e

(* A lock that fails ends the call with an exception and changes nothing.  *)
(* (pfnLockCb, in RosUmdResource::Map and the copies of the CPU.)          *)
LEMMA SoundLockFails ==
  ASSUME NEW d \in Device, NEW m, NEW found, Sound(d, m, found)
  PROVE  Sound(LockFails(d), m, found)
<1>1. CASE Aborted(d)
  BY <1>1 DEF LockFails
<1>2. CASE ~Aborted(d)
  <2> DEFINE e == [d EXCEPT !.outcome = "throws"]
  <2>1. LockFails(d) = e /\ "throws" \in Outcomes
    BY <1>2 DEF LockFails, Outcomes
  <2>2. /\ e \in Device /\ e.sent = d.sent /\ e.sw = d.sw
        /\ SameLists(d, e) /\ SameHeader(d, e) /\ SameUses(d, e) /\ SameFlags(d, e)
    BY <2>1, SetFields
  <2> HIDE DEF e
  <2>3. QED  BY <2>1, <2>2, SoundSame
<1>3. QED  BY <1>1, <1>2

------------------------------------------------------------------------------
(* The commands, from the reservation to the commitment.                   *)

(* What copies, states and draws reserve.  (ResourceCopy,                  *)
(* RefreshPipelineState, Draw, DrawIndexed.)                               *)
LEMMA FairRequests ==
  /\ Fair(CopySize, 2, 2) /\ Fair(DrawSize, 0, 0) /\ Fair(DrawSize, 1, 1)
  /\ Fair(MaxStateCommands, MaxAllocationsUsed, MaxPatchLocations)
BY SizesAreNumbers DEF Fair

(* One, two and no patch locations that lead where they should.            *)
(* (SetPatchLocation.)                                                     *)
LEMMA FewPatches ==
  ASSUME NEW allocs, NEW p \in PatchType, NEW q \in PatchType
  PROVE  /\ <<>> \in Seq(PatchType) /\ Len(<<>>) = 0 /\ Resolves(<<>>, allocs)
         /\ <<p>> \in Seq(PatchType) /\ Len(<<p>>) = 1
         /\ Leads(p, allocs) => Resolves(<<p>>, allocs)
         /\ <<p, q>> \in Seq(PatchType) /\ Len(<<p, q>>) = 2
         /\ Leads(p, allocs) /\ Leads(q, allocs) => Resolves(<<p, q>>, allocs)
<1>1. <<>> \in Seq(PatchType) /\ Len(<<>>) = 0 /\ Resolves(<<>>, allocs)
  BY DEF Resolves
<1>2. <<p>> \in Seq(PatchType) /\ Len(<<p>>) = 1 /\ <<p>>[1] = p
  OBVIOUS
<1>3. /\ <<p, q>> \in Seq(PatchType) /\ Len(<<p, q>>) = 2
      /\ <<p, q>>[1] = p /\ <<p, q>>[2] = q
  OBVIOUS
<1>4. Leads(p, allocs) => Resolves(<<p>>, allocs)
  <2>1. \A i \in 1..1 : i = 1
    OBVIOUS
  <2>2. QED  BY <1>2, <2>1 DEF Resolves
<1>5. Leads(p, allocs) /\ Leads(q, allocs) => Resolves(<<p, q>>, allocs)
  <2>1. \A i \in 1..2 : i = 1 \/ i = 2
    OBVIOUS
  <2>2. QED  BY <1>3, <2>1 DEF Resolves
<1>6. QED  BY <1>1, <1>2, <1>3, <1>4, <1>5

(* A patch location that Draw does not write leads nowhere.  (Draw commits *)
(* one that it has not reserved.)                                          *)
LEMMA UnwrittenLeads ==
  ASSUME NEW allocs
  PROVE  <<Unwritten>> \in Seq(PatchType) /\ Len(<<Unwritten>>) = 1
         /\ Resolves(<<Unwritten>>, allocs)
<1>1. Unwritten \in PatchType /\ Leads(Unwritten, allocs)
  BY DEF PatchType, Leads
<1>2. QED  BY <1>1, FewPatches

(* The lists of a device have lengths.  (RosUmdCommandBuffer's positions.) *)
LEMMA ListLengths ==
  ASSUME NEW d \in Device
  PROVE  d.pos \in Nat /\ Len(d.allocs) \in Nat /\ Len(d.patches) \in Nat
BY DEF Device

(* One entry of those that were reserved.  (UseResource.)                  *)
LEMMA OneOfReserved ==
  ASSUME NEW n \in Nat, NEW l \in Nat, NEW k \in Nat,
         n + (k + 1) + AllocationThreshold <= AllocationListSize
  PROVE  /\ n + 1 + AllocationThreshold <= AllocationListSize
         /\ l <= n + 1 => l + k + AllocationThreshold <= AllocationListSize
<1>1. AllocationThreshold \in Nat /\ AllocationListSize \in Nat
  BY SizesAreNumbers
<1>2. QED  BY <1>1

(* The entries that UseResource makes were reserved: k + 1 before it, k    *)
(* after it.  (UseResource.)                                               *)
LEMMA SoundReservedUse ==
  ASSUME NEW d \in Device, NEW m, NEW found, Sound(d, m, found), NEW r \in Resources \ m,
         NEW k \in Nat, Len(d.allocs) + (k + 1) + AllocationThreshold <= AllocationListSize
  PROVE  LET e == UseResource(d, r) IN
         /\ e \in Device /\ Sound(e, m, found) /\ Uses(d, e, r)
         /\ Len(e.allocs) + k + AllocationThreshold <= AllocationListSize
<1> DEFINE e == UseResource(d, r)
<1>1. Len(d.allocs) \in Nat
  BY DEF Device
<1>2. Len(d.allocs) + 1 + AllocationThreshold <= AllocationListSize
  BY <1>1, OneOfReserved
<1>3. Sound(e, m, found) /\ Uses(d, e, r)
  BY <1>2, SoundUse
<1> HIDE DEF e
<1>4. e \in Device
  BY <1>3 DEF Sound
<1>5. Len(e.allocs) \in Nat
  BY <1>4 DEF Device
<1>6. Len(e.allocs) <= Len(d.allocs) + 1
  BY <1>3 DEF Uses
<1>7. Len(e.allocs) + k + AllocationThreshold <= AllocationListSize
  BY <1>1, <1>5, <1>6, OneOfReserved
<1>8. QED  BY <1>3, <1>4, <1>7 DEF e

(* A copy by the GPU.  (ResourceCopy.)                                     *)
LEMMA SoundCopyResource ==
  ASSUME NEW d \in Device, NEW m \in SUBSET Dynamic, NEW found \in Seq(Kinds),
         Sound(d, m, found), d.outcome = "returns",
         NEW dst \in Resources \ m, NEW src \in Resources \ m
  PROVE  Sound(CopyResource(d, dst, src), m, found)
<1> DEFINE room == Reserve(d, TRUE, CopySize, 2, 2)
           one == UseResource(room, dst)
           used == UseResource(one, src)
           p == PatchLocation(used, dst)
           q == PatchLocation(used, src)
<1>1. CopyResource(d, dst, src) =
        IF Aborted(room) THEN room ELSE Commit(used, "copy", CopySize, <<p, q>>)
  BY DEF CopyResource
<1>2. /\ room \in Device /\ Sound(room, m, found)
      /\ Reserved(d, room, CopySize, 2, 2)
  <2>1. Fair(CopySize, 2, 2) /\ TRUE \in BOOLEAN
    BY FairRequests
  <2>2. QED  BY <2>1, SoundReserve
<1> HIDE DEF room
<1>3. CASE Aborted(room)
  BY <1>1, <1>2, <1>3
<1>4. CASE ~Aborted(room)
  <2>1. /\ room.pos + CopySize + CommandThreshold <= CommandBufferSize
        /\ Len(room.allocs) + 2 + AllocationThreshold <= AllocationListSize
        /\ Len(room.patches) + 2 + PatchThreshold <= PatchLocationListSize
    BY <1>2, <1>4 DEF Aborted, Reserved, Fits
  <2>2. room \in Device
    BY <1>2
  <2>3. Len(room.patches) \in Nat
    BY <2>2 DEF Device
  <2>4. Len(room.allocs) + (1 + 1) + AllocationThreshold <= AllocationListSize
    BY <2>1
  <2>5. /\ one \in Device /\ Sound(one, m, found) /\ Uses(room, one, dst)
        /\ Len(one.allocs) + 1 + AllocationThreshold <= AllocationListSize
    BY <1>2, <2>4, SoundReservedUse
  <2> HIDE DEF one
  <2>6. Len(one.allocs) + (0 + 1) + AllocationThreshold <= AllocationListSize
    BY <2>5
  <2>7. Sound(used, m, found) /\ Uses(one, used, src)
    BY <2>5, <2>6, SoundReservedUse
  <2> HIDE DEF used
  <2>8. used \in Device
    BY <2>7 DEF Sound
  <2>9. IsResourceUsed(used, dst) /\ IsResourceUsed(used, src)
    BY <2>5, <2>7 DEF Uses
  <2>10. /\ p \in PatchType /\ Leads(p, used.allocs)
         /\ q \in PatchType /\ Leads(q, used.allocs)
    BY <2>7, <2>8, <2>9, PatchLocationLeads
  <2> HIDE DEF p, q
  <2>11. <<p, q>> \in Seq(PatchType) /\ Len(<<p, q>>) = 2 /\ Resolves(<<p, q>>, used.allocs)
    BY <2>10, FewPatches
  <2>12. PICK patches \in Seq(PatchType) : patches = <<p, q>>
    BY <2>11
  <2>13. used.pos = room.pos /\ used.patches = room.patches
    BY <2>5, <2>7 DEF Uses
  <2>14. Commits(used, CopySize, patches)
    <3>1. Len(patches) = 2 /\ Resolves(patches, used.allocs)
      BY <2>11, <2>12
    <3>2. Len(room.patches) + 2 + PatchThreshold <= PatchLocationListSize + 1
      BY <2>1, <2>3, SizesAreNumbers
    <3>3. QED  BY <3>1, <3>2, <2>1, <2>13 DEF Commits
  <2>15. "copy" \in {"copy", "state"} /\ CopySize \in Nat \ {0}
    BY SizesAreNumbers
  <2>16. Sound(Commit(used, "copy", CopySize, patches), m, found)
    BY <2>7, <2>8, <2>14, <2>15, SoundCommit
  <2>17. QED  BY <1>1, <1>4, <2>12, <2>16
<1>5. QED  BY <1>3, <1>4

(* The state of a draw, with the resources it reads and, once for each     *)
(* batch, its target.  (RefreshPipelineState.)                             *)
LEMMA SoundState ==
  ASSUME NEW d \in Device, NEW m \in SUBSET Dynamic, NEW found \in Seq(Kinds),
         Sound(d, m, found), d.outcome = "returns", d.target # NoTarget,
         NEW read \in Resources \ m, NEW size \in StateSizes
  PROVE  LET e == RefreshPipelineState(d, read, size) IN
         /\ e \in Device /\ Sound(e, m, found)
         /\ e.outcome = "returns" => e.target = d.target
<1> DEFINE room == Reserve(d, FALSE, MaxStateCommands, MaxAllocationsUsed, MaxPatchLocations)
           listed == UseResource(room, dummyBuffer)
           begun == IF listed.binning THEN listed ELSE UseResource(listed, d.target)
           used == UseResource(begun, read)
           first == IF listed.binning THEN <<>> ELSE <<PatchLocation(used, d.target)>>
           p == PatchLocation(used, dummyBuffer)
           q == PatchLocation(used, read)
           e == RefreshPipelineState(d, read, size)
<1>1. e = IF Aborted(room) THEN room
          ELSE [Commit(used, "state", size, first \o <<p, q>>) EXCEPT !.binning = TRUE]
  BY DEF RefreshPipelineState
<1>2. /\ room \in Device /\ Sound(room, m, found)
      /\ Reserved(d, room, MaxStateCommands, MaxAllocationsUsed, MaxPatchLocations)
  <2>1. Fair(MaxStateCommands, MaxAllocationsUsed, MaxPatchLocations) /\ FALSE \in BOOLEAN
    BY FairRequests
  <2> HIDE DEF listed, begun, used, first, p, q, e
  <2>2. QED  BY <2>1, SoundReserve
<1>3. dummyBuffer \in Resources \ m /\ d.target \in Resources \ m
  BY ResourcesAssumption DEF Sound, Unused, Default
<1> HIDE DEF room, e
<1>4. CASE Aborted(room)
  <2>1. e = room /\ room.outcome # "returns"
    BY <1>1, <1>4 DEF Aborted
  <2>2. QED  BY <1>2, <2>1 DEF e
<1>5. CASE ~Aborted(room)
  <2>1. /\ room.pos + MaxStateCommands + CommandThreshold <= CommandBufferSize
        /\ Len(room.allocs) + MaxAllocationsUsed + AllocationThreshold <= AllocationListSize
        /\ Len(room.patches) + MaxPatchLocations + PatchThreshold <= PatchLocationListSize
        /\ room.target = d.target
    BY <1>2, <1>5 DEF Aborted, Reserved, Fits
  <2>2. room \in Device
    BY <1>2
  <2>3. room.pos \in Nat /\ Len(room.allocs) \in Nat /\ Len(room.patches) \in Nat
    BY <2>2, ListLengths
  <2>4. Len(room.allocs) + (2 + 1) + AllocationThreshold <= AllocationListSize
    BY <2>1, <2>3, SizesAreNumbers
  <2>5. /\ listed \in Device /\ Sound(listed, m, found) /\ Uses(room, listed, dummyBuffer)
        /\ Len(listed.allocs) + 2 + AllocationThreshold <= AllocationListSize
    BY <1>2, <1>3, <2>4, SoundReservedUse
  <2> HIDE DEF listed
  <2>6. /\ begun \in Device /\ Sound(begun, m, found)
        /\ Len(begun.allocs) + 1 + AllocationThreshold <= AllocationListSize
        /\ IsResourceUsed(begun, dummyBuffer)
        /\ listed.binning \/ IsResourceUsed(begun, d.target)
        /\ begun.pos = listed.pos /\ begun.patches = listed.patches
        /\ begun.target = listed.target /\ SameCall(listed, begun)
    <3>1. CASE listed.binning
      <4>1. begun = listed
        BY <3>1
      <4>2. Len(listed.allocs) \in Nat
        BY <2>5 DEF Device
      <4>3. Len(listed.allocs) + 1 + AllocationThreshold <= AllocationListSize
        BY <2>5, <4>2, SizesAreNumbers
      <4>4. IsResourceUsed(listed, dummyBuffer)
        BY <2>5 DEF Uses
      <4>5. QED  BY <2>5, <3>1, <4>1, <4>3, <4>4 DEF SameCall
    <3>2. CASE ~listed.binning
      <4>1. begun = UseResource(listed, d.target)
        BY <3>2
      <4>2. Len(listed.allocs) + (1 + 1) + AllocationThreshold <= AllocationListSize
        BY <2>5
      <4> HIDE DEF begun
      <4>3. /\ begun \in Device /\ Sound(begun, m, found) /\ Uses(listed, begun, d.target)
            /\ Len(begun.allocs) + 1 + AllocationThreshold <= AllocationListSize
        BY <1>3, <2>5, <4>1, <4>2, SoundReservedUse
      <4>4. IsResourceUsed(begun, dummyBuffer)
        BY <1>3, <2>5, <4>3 DEF Uses
      <4>5. QED  BY <4>3, <4>4 DEF Uses
    <3>3. QED  BY <3>1, <3>2
  <2> HIDE DEF begun
  <2>7. Len(begun.allocs) + (0 + 1) + AllocationThreshold <= AllocationListSize
    BY <2>6
  <2>8. used \in Device /\ Sound(used, m, found) /\ Uses(begun, used, read)
    BY <2>6, <2>7, SoundReservedUse
  <2> HIDE DEF used
  <2>9. /\ IsResourceUsed(used, dummyBuffer) /\ IsResourceUsed(used, read)
        /\ listed.binning \/ IsResourceUsed(used, d.target)
    BY <1>3, <2>6, <2>8 DEF Uses
  <2>10. /\ p \in PatchType /\ Leads(p, used.allocs)
         /\ q \in PatchType /\ Leads(q, used.allocs)
    BY <1>3, <2>8, <2>9, PatchLocationLeads
  <2>11. first \in Seq(PatchType) /\ Len(first) <= 1 /\ Resolves(first, used.allocs)
    <3>1. CASE listed.binning
      <4>1. first = <<>>
        BY <3>1
      <4> HIDE DEF first
      <4>2. Len(<<>>) <= 1 /\ Unwritten \in PatchType
        BY DEF PatchType
      <4>3. QED  BY <4>1, <4>2, FewPatches
    <3>2. CASE ~listed.binning
      <4> DEFINE t == PatchLocation(used, d.target)
      <4>1. first = <<t>>
        BY <3>2
      <4>2. t \in PatchType /\ Leads(t, used.allocs)
        BY <1>3, <2>8, <2>9, <3>2, PatchLocationLeads
      <4> HIDE DEF t, first
      <4>3. <<t>> \in Seq(PatchType) /\ Len(<<t>>) = 1 /\ Resolves(<<t>>, used.allocs)
        BY <4>2, FewPatches
      <4>4. QED  BY <4>1, <4>3
    <3>3. QED  BY <3>1, <3>2
  <2> HIDE DEF first, p, q
  <2>12. <<p, q>> \in Seq(PatchType) /\ Len(<<p, q>>) = 2 /\ Resolves(<<p, q>>, used.allocs)
    BY <2>10, FewPatches
  <2>13. PICK rest \in Seq(PatchType) : rest = <<p, q>>
    BY <2>12
  <2>14. /\ first \o rest \in Seq(PatchType) /\ Len(first \o rest) = Len(first) + Len(rest)
         /\ Resolves(first \o rest, used.allocs)
    <3>1. first \in Seq(PatchType) /\ Resolves(first, used.allocs)
      BY <2>11
    <3>2. Resolves(rest, used.allocs)
      BY <2>12, <2>13
    <3>3. QED  BY <3>1, <3>2, ResolvesJoined
  <2>15. PICK patches \in Seq(PatchType) : patches = first \o <<p, q>>
    BY <2>13, <2>14
  <2>16. Len(patches) <= 3 /\ Len(patches) \in Nat /\ Resolves(patches, used.allocs)
    <3>1. Len(patches) = Len(first) + Len(rest) /\ Len(rest) = 2 /\ Len(first) \in Nat
      BY <2>11, <2>12, <2>13, <2>14, <2>15
    <3>2. QED  BY <2>11, <2>13, <2>14, <2>15, <3>1
  <2>17. used.pos = room.pos /\ used.patches = room.patches
    BY <2>5, <2>6, <2>8 DEF Uses
  <2>18. size \in Nat \ {0} /\ size <= MaxStateCommands
    <3>1. size \in 1..MaxStateCommands
      BY SizesAssumption
    <3>2. QED  BY <3>1, SizesAreNumbers
  <2>19. Commits(used, size, patches)
    <3>1. room.pos + size + CommandThreshold <= CommandBufferSize
      BY SMTT(30), <2>1, <2>3, <2>18, SizesAreNumbers
    <3>2. Len(room.patches) + Len(patches) + PatchThreshold <= PatchLocationListSize + 1
      BY <2>1, <2>3, <2>16, SizesAreNumbers
    <3>3. QED  BY <2>16, <2>17, <3>1, <3>2 DEF Commits
  <2> DEFINE c == Commit(used, "state", size, patches)
  <2>20. "state" \in {"copy", "state"}
    OBVIOUS
  <2>21. c \in Device /\ Sound(c, m, found) /\ SameFlags(used, c) /\ SameCall(used, c)
    BY <2>8, <2>18, <2>19, <2>20, SoundCommit
  <2>22. e = [c EXCEPT !.binning = TRUE]
    BY <1>1, <1>5, <2>15
  <2> HIDE DEF c
  <2>23. /\ e \in Device /\ e.sw = c.sw
         /\ SameLists(c, e) /\ SameHeader(c, e) /\ SameUses(c, e) /\ SameFlags(c, e)
         /\ SameCall(c, e)
    BY <2>21, <2>22, SetFields
  <2>24. Sound(e, m, found)
    BY <2>21, <2>23, SoundSame DEF SameCall
  <2>25. e.target = d.target
    BY <2>1, <2>5, <2>6, <2>8, <2>21, <2>23 DEF Uses, SameFlags
  <2>26. QED  BY <2>23, <2>24, <2>25 DEF e
<1>6. QED  BY <1>4, <1>5

(* The room that a draw takes, with one patch location more than Draw      *)
(* reserves.  (Draw, DrawIndexed.)                                         *)
LEMMA DrawCommits ==
  ASSUME NEW d \in Device, NEW i \in Nat, NEW j \in Nat, Fits(d, DrawSize, i, j),
         NEW e, e.pos = d.pos, e.patches = d.patches,
         NEW patches, Len(patches) = 1, Resolves(patches, e.allocs)
  PROVE  Commits(e, DrawSize, patches)
<1>1. /\ d.pos + DrawSize + CommandThreshold <= CommandBufferSize
      /\ Len(d.patches) + j + PatchThreshold <= PatchLocationListSize
  BY DEF Fits
<1>2. Len(d.patches) \in Nat
  BY ListLengths
<1>3. Len(d.patches) + 1 + PatchThreshold <= PatchLocationListSize + 1
  BY <1>1, <1>2, SizesAreNumbers
<1>4. QED  BY <1>1, <1>3 DEF Commits

(* A draw of vertices.  (RosUmdDevice::Draw.)                              *)
LEMMA SoundDrawVertices ==
  ASSUME NEW d \in Device, NEW m \in SUBSET Dynamic, NEW found \in Seq(Kinds),
         Sound(d, m, found), d.outcome = "returns", d.target # NoTarget,
         NEW read \in Resources \ m, NEW size \in StateSizes
  PROVE  Sound(Draw(d, read, size), m, found)
<1> DEFINE ready == RefreshPipelineState(d, read, size)
           room == Reserve(ready, FALSE, DrawSize, 0, 0)
<1>1. Draw(d, read, size) =
        IF Aborted(ready) THEN ready
        ELSE IF Aborted(room) THEN room ELSE CommitDraw(room, <<Unwritten>>)
  BY DEF Draw
<1>2. /\ ready \in Device /\ Sound(ready, m, found)
      /\ ready.outcome = "returns" => ready.target = d.target
  BY SoundState
<1> HIDE DEF ready
<1>3. CASE Aborted(ready)
  BY <1>1, <1>2, <1>3
<1>4. CASE ~Aborted(ready)
  <2>1. ready.outcome = "returns" /\ ready.target = d.target
    BY <1>2, <1>4 DEF Aborted
  <2>2. Fair(DrawSize, 0, 0) /\ FALSE \in BOOLEAN
    BY FairRequests
  <2>3. /\ room \in Device /\ Sound(room, m, found)
        /\ Reserved(ready, room, DrawSize, 0, 0)
    BY <1>2, <2>1, <2>2, SoundReserve
  <2> HIDE DEF room
  <2>4. CASE Aborted(room)
    BY <1>1, <1>4, <2>3, <2>4
  <2>5. CASE ~Aborted(room)
    <3>1. Fits(room, DrawSize, 0, 0) /\ room.target = d.target
      BY <2>1, <2>3, <2>5 DEF Aborted, Reserved
    <3>2. room.target \in Resources
      BY <3>1 DEF Device
    <3>3. PICK patches \in Seq(PatchType) : patches = <<Unwritten>>
      BY UnwrittenLeads
    <3>4. Len(patches) = 1 /\ Resolves(patches, room.allocs)
      BY <3>3, UnwrittenLeads
    <3>5. Commits(room, DrawSize, patches)
      BY <2>3, <3>1, <3>4, DrawCommits
    <3>6. Sound(CommitDraw(room, patches), m, found)
      BY <2>3, <3>2, <3>5, SoundDraw
    <3>7. QED  BY <1>1, <1>4, <2>5, <3>3, <3>6
  <2>6. QED  BY <2>4, <2>5
<1>5. QED  BY <1>3, <1>4

(* A draw of indexed vertices.  (RosUmdDevice::DrawIndexed.)               *)
LEMMA SoundDrawIndexed ==
  ASSUME NEW d \in Device, NEW m \in SUBSET Dynamic, NEW found \in Seq(Kinds),
         Sound(d, m, found), d.outcome = "returns", d.target # NoTarget,
         NEW read \in Resources \ m, NEW size \in StateSizes, NEW indexBuffer \in Resources \ m
  PROVE  Sound(DrawIndexed(d, read, size, indexBuffer), m, found)
<1> DEFINE ready == RefreshPipelineState(d, read, size)
           room == Reserve(ready, FALSE, DrawSize, 1, 1)
           used == UseResource(room, indexBuffer)
           p == PatchLocation(used, indexBuffer)
<1>1. DrawIndexed(d, read, size, indexBuffer) =
        IF Aborted(ready) THEN ready
        ELSE IF Aborted(room) THEN room ELSE CommitDraw(used, <<p>>)
  BY DEF DrawIndexed
<1>2. /\ ready \in Device /\ Sound(ready, m, found)
      /\ ready.outcome = "returns" => ready.target = d.target
  BY SoundState
<1> HIDE DEF ready
<1>3. CASE Aborted(ready)
  BY <1>1, <1>2, <1>3
<1>4. CASE ~Aborted(ready)
  <2>1. ready.outcome = "returns" /\ ready.target = d.target
    BY <1>2, <1>4 DEF Aborted
  <2>2. Fair(DrawSize, 1, 1) /\ FALSE \in BOOLEAN
    BY FairRequests
  <2>3. /\ room \in Device /\ Sound(room, m, found)
        /\ Reserved(ready, room, DrawSize, 1, 1)
    BY <1>2, <2>1, <2>2, SoundReserve
  <2> HIDE DEF room
  <2>4. CASE Aborted(room)
    BY <1>1, <1>4, <2>3, <2>4
  <2>5. CASE ~Aborted(room)
    <3>1. Fits(room, DrawSize, 1, 1) /\ room.target = d.target
      BY <2>1, <2>3, <2>5 DEF Aborted, Reserved
    <3>2. Len(room.allocs) + (0 + 1) + AllocationThreshold <= AllocationListSize
      BY <3>1 DEF Fits
    <3>3. used \in Device /\ Sound(used, m, found) /\ Uses(room, used, indexBuffer)
      BY <2>3, <3>2, SoundReservedUse
    <3> HIDE DEF used
    <3>4. /\ used.target \in Resources /\ IsResourceUsed(used, indexBuffer)
          /\ used.pos = room.pos /\ used.patches = room.patches
      BY <3>1, <3>3 DEF Device, Uses
    <3>5. p \in PatchType /\ Leads(p, used.allocs)
      BY <3>3, <3>4, PatchLocationLeads
    <3> HIDE DEF p
    <3>6. PICK patches \in Seq(PatchType) : patches = <<p>>
      BY <3>5, FewPatches
    <3>7. Len(patches) = 1 /\ Resolves(patches, used.allocs)
      BY <3>5, <3>6, FewPatches
    <3>8. Commits(used, DrawSize, patches)
      BY <2>3, <3>1, <3>4, <3>7, DrawCommits
    <3>9. Sound(CommitDraw(used, patches), m, found)
      BY <3>3, <3>4, <3>8, SoundDraw
    <3>10. QED  BY <1>1, <1>4, <2>5, <3>6, <3>9
  <2>6. QED  BY <2>4, <2>5
<1>5. QED  BY <1>3, <1>4

(* What has been drawn is submitted first.  (The flush of m_hasDrawCall in *)
(* ClearRenderTargetView, ClearDepthStencilView and SetRenderTargets.)     *)
LEMMA SoundBefore ==
  ASSUME NEW d \in Device, NEW m \in SUBSET Dynamic, NEW found \in Seq(Kinds),
         Sound(d, m, found), d.outcome = "returns"
  PROVE  LET e == IF d.draws THEN Flush(d) ELSE d IN
         /\ e \in Device /\ Sound(e, m, found)
         /\ e.outcome = "returns" =>
              /\ e.targets = {} \/ Resumed(e.commands)
              /\ Resumed(e.commands) \/ \A i \in 1..Len(e.commands) : e.commands[i] # "draw"
<1> DEFINE e == IF d.draws THEN Flush(d) ELSE d
<1>1. CASE d.draws
  <2>1. e = Flush(d)
    BY <1>1
  <2> HIDE DEF e
  <2>2. e \in Device /\ Sound(e, m, found) /\ (e.outcome = "returns" => Emptied(d, e))
    BY <2>1, SoundFlush
  <2>3. Emptied(d, e) => e.targets = {} /\ \A i \in 1..Len(e.commands) : e.commands[i] # "draw"
    BY DEF Emptied
  <2>4. QED  BY <2>2, <2>3 DEF e
<1>2. CASE ~d.draws
  <2>1. e = d
    BY <1>2
  <2>2. QED  BY <1>2, <2>1, NothingDrawn
<1>3. QED  BY <1>1, <1>2

(* A clear.  (ClearRenderTargetView, ClearDepthStencilView.)               *)
LEMMA SoundClearView ==
  ASSUME NEW d \in Device, NEW m \in SUBSET Dynamic, NEW found \in Seq(Kinds),
         Sound(d, m, found), d.outcome = "returns"
  PROVE  Sound(Clear(d), m, found)
<1> DEFINE before == IF d.draws THEN Flush(d) ELSE d
<1>1. /\ before \in Device /\ Sound(before, m, found)
      /\ before.outcome = "returns" =>
           /\ before.targets = {} \/ Resumed(before.commands)
           /\ \/ Resumed(before.commands)
              \/ \A i \in 1..Len(before.commands) : before.commands[i] # "draw"
  BY SoundBefore
<1>2. Clear(d) = IF Aborted(before) THEN before
                 ELSE [before EXCEPT !.clear = TRUE, !.clearedAt = Len(before.commands)]
  BY DEF Clear
<1> HIDE DEF before
<1>3. CASE Aborted(before)
  BY <1>1, <1>2, <1>3
<1>4. CASE ~Aborted(before)
  <2>1. /\ \/ Resumed(before.commands)
           \/ \A i \in 1..Len(before.commands) : before.commands[i] # "draw"
    BY <1>1, <1>4 DEF Aborted
  <2>2. Sound([before EXCEPT !.clear = TRUE, !.clearedAt = Len(before.commands)], m, found)
    BY <1>1, <2>1, SoundClear
  <2>3. QED  BY <1>2, <1>4, <2>2
<1>5. QED  BY <1>3, <1>4

(* Another target.  (RosUmdDevice::SetRenderTargets.)                      *)
LEMMA SoundSetRenderTargets ==
  ASSUME NEW d \in Device, NEW m \in SUBSET Dynamic, NEW found \in Seq(Kinds),
         Sound(d, m, found), d.outcome = "returns", NEW t \in Default
  PROVE  Sound(SetRenderTargets(d, t), m, found)
<1> DEFINE before == IF d.draws THEN Flush(d) ELSE d
<1>1. /\ before \in Device /\ Sound(before, m, found)
      /\ before.outcome = "returns" =>
           /\ before.targets = {} \/ Resumed(before.commands)
           /\ \/ Resumed(before.commands)
              \/ \A i \in 1..Len(before.commands) : before.commands[i] # "draw"
  BY SoundBefore
<1>2. SetRenderTargets(d, t) = IF Aborted(before) THEN before ELSE [before EXCEPT !.target = t]
  BY DEF SetRenderTargets
<1> HIDE DEF before
<1>3. CASE Aborted(before)
  BY <1>1, <1>2, <1>3
<1>4. CASE ~Aborted(before)
  <2>1. /\ before.targets = {} \/ Resumed(before.commands)
        /\ \/ Resumed(before.commands)
           \/ \A i \in 1..Len(before.commands) : before.commands[i] # "draw"
    BY <1>1, <1>4 DEF Aborted
  <2>2. Sound([before EXCEPT !.target = t], m, found)
    BY <1>1, <2>1, SoundTarget
  <2>3. QED  BY <1>2, <1>4, <2>2
<1>5. QED  BY <1>3, <1>4

(* A copy by the CPU, before its locks.  (ResourceCopy.)                   *)
LEMMA SoundCopyByCpu ==
  ASSUME NEW d \in Device, NEW m \in SUBSET Dynamic, NEW found \in Seq(Kinds),
         Sound(d, m, found), d.outcome = "returns", NEW dst \in Resources, NEW src \in Resources
  PROVE  LET e == CopyByCpu(d, dst, src) IN e \in Device /\ Sound(e, m, found)
<1> DEFINE first == FlushIfMatching(d, d.lastFence[dst])
<1>1. first \in Device /\ Sound(first, m, found)
  BY SoundFlushIfMatching
<1>2. CopyByCpu(d, dst, src) =
        IF Aborted(first) THEN first ELSE FlushIfMatching(first, first.lastFence[src])
  BY DEF CopyByCpu
<1> HIDE DEF first
<1>3. CASE Aborted(first)
  BY <1>1, <1>2, <1>3
<1>4. CASE ~Aborted(first)
  <2> DEFINE e == FlushIfMatching(first, first.lastFence[src])
  <2>1. e \in Device /\ Sound(e, m, found)
    BY <1>1, <1>4, SoundFlushIfMatching DEF Aborted
  <2>2. CopyByCpu(d, dst, src) = e
    BY <1>2, <1>4
  <2> HIDE DEF e
  <2>3. QED  BY <2>1, <2>2
<1>5. QED  BY <1>3, <1>4

(* A resource that the CPU maps is used by no command of the batch that is *)
(* left: its fence is that of a submitted one.  (RosUmdResource::Map; its  *)
(* correction of m_mostRecentFence is never reached.)                      *)
LEMMA SoundMap ==
  ASSUME NEW d \in Device, NEW m \in SUBSET Dynamic, NEW found \in Seq(Kinds),
         Sound(d, m, found), d.outcome = "returns", NEW r \in Dynamic,
         NEW new \in Allocations, new = d.handle[r] \/ \A q \in Resources : d.handle[q] # new
  PROVE  LET e == Map(d, r, new) IN
         Sound(e, m, found) /\ (e.outcome = "returns" => e.lastFence[r] < e.fence)
<1> DEFINE flushed == FlushIfMatching(d, d.lastFence[r])
           renamed == [flushed EXCEPT !.handle[r] = new]
<1>1. r \in Resources /\ r \in Resources \ SwapChain
  BY ResourcesAssumption
<1>2. /\ flushed \in Device /\ Sound(flushed, m, found)
      /\ flushed.outcome = "returns" =>
           flushed.lastFence[r] < flushed.fence /\ flushed.handle = d.handle
  BY <1>1, SoundFlushIfMatching
<1>3. Map(d, r, new) =
        IF Aborted(flushed) \/ new = flushed.handle[r] THEN flushed
        ELSE IF IsResourceUsed(renamed, r)
        THEN [renamed EXCEPT !.lastFence[r] = renamed.lastFence[r] - 1]
        ELSE renamed
  BY DEF Map
<1> HIDE DEF flushed
<1>4. CASE Aborted(flushed) \/ new = flushed.handle[r]
  BY <1>2, <1>3, <1>4 DEF Aborted
<1>5. CASE ~(Aborted(flushed) \/ new = flushed.handle[r])
  <2>1. /\ flushed.lastFence[r] < flushed.fence /\ flushed.handle = d.handle
        /\ flushed.outcome = "returns"
    BY <1>2, <1>5 DEF Aborted
  <2>2. \A q \in Resources : flushed.handle[q] # new
    BY <1>5, <2>1
  <2>3. Sound(renamed, m, found)
    BY <1>1, <1>2, <2>1, <2>2, SoundRename
  <2>4. renamed.lastFence = flushed.lastFence /\ renamed.fence = flushed.fence
    BY <1>2 DEF Device
  <2> HIDE DEF renamed
  <2>5. flushed.lastFence[r] \in Nat /\ flushed.fence \in Nat
    BY <1>1, <1>2 DEF Device
  <2>6. ~IsResourceUsed(renamed, r)
    BY <2>1, <2>4, <2>5 DEF IsResourceUsed
  <2>7. Map(d, r, new) = renamed
    BY <1>3, <1>5, <2>6
  <2>8. QED  BY <2>1, <2>3, <2>4, <2>7
<1>6. QED  BY <1>4, <1>5

------------------------------------------------------------------------------
(* Every call keeps the invariant, and the commands that it finds.         *)

Kept == mapped' \subseteq Dynamic /\ Sound(dev', mapped', dev.commands)

(* A call that leaves the batch sound, for the mappings that it leaves.    *)
LEMMA ReturnsKept ==
  ASSUME NEW e, Sound(e, mapped, dev.commands), Returns(e), BatchInv, UNCHANGED mapped
  PROVE  Kept
BY DEF Returns, BatchInv, Kept

(* A call of the device finds it sound.  (RosUmdDevice, between two calls.) *)
LEMMA CallFinds ==
  ASSUME BatchInv, NEW n \in Nat
  PROVE  LET e == Called(n) IN
         /\ mapped \in SUBSET Dynamic /\ dev.commands \in Seq(Kinds)
         /\ e \in Device /\ Sound(e, mapped, dev.commands) /\ e.outcome = "returns"
         /\ e.target = dev.target /\ e.handle = dev.handle /\ e.lastFence = dev.lastFence
<1>1. mapped \in SUBSET Dynamic /\ Sound(dev, mapped, <<>>)
  BY DEF BatchInv
<1>2. QED  BY <1>1, SoundCalled DEF SameUses

(* RosUmdDevice's copies.  (ResourceCopy.)                                 *)
LEMMA ResourceCopyKept ==
  ASSUME BatchInv, NEW n \in Nat, ResourceCopy(n)
  PROVE  Kept
<1> DEFINE d == Called(n)
<1>1. /\ mapped \in SUBSET Dynamic /\ dev.commands \in Seq(Kinds)
      /\ d \in Device /\ Sound(d, mapped, dev.commands) /\ d.outcome = "returns"
  BY CallFinds
<1>2. PICK dst \in Usable, src \in Usable :
        /\ LET copied == CopyByCpu(d, dst, src)
           IN IF {dst, src} \subseteq Default THEN Returns(CopyResource(d, dst, src))
                                             ELSE Returns(copied) \/ Returns(LockFails(copied))
        /\ UNCHANGED mapped
  BY DEF ResourceCopy
<1> HIDE DEF d
<1>3. dst \in Resources \ mapped /\ src \in Resources \ mapped
  BY DEF Usable
<1>4. Sound(CopyResource(d, dst, src), mapped, dev.commands)
  BY <1>1, <1>3, SoundCopyResource
<1> DEFINE c == CopyByCpu(d, dst, src)
<1>5. c \in Device /\ Sound(c, mapped, dev.commands)
  BY <1>1, <1>3, SoundCopyByCpu
<1>6. \/ Returns(CopyResource(d, dst, src))
      \/ Returns(c)
      \/ Returns(LockFails(c))
  BY <1>2
<1> HIDE DEF c
<1>7. Sound(LockFails(c), mapped, dev.commands)
  BY <1>5, SoundLockFails
<1>8. UNCHANGED mapped
  BY <1>2
<1>9. QED  BY <1>4, <1>5, <1>6, <1>7, <1>8, ReturnsKept

(* RosUmdDevice's draws of vertices.  (Draw.)                              *)
LEMMA DrawVerticesKept ==
  ASSUME BatchInv, NEW n \in Nat, DrawVertices(n)
  PROVE  Kept
<1> DEFINE d == Called(n)
<1>1. /\ mapped \in SUBSET Dynamic /\ dev.commands \in Seq(Kinds)
      /\ d \in Device /\ Sound(d, mapped, dev.commands) /\ d.outcome = "returns"
      /\ d.target = dev.target
  BY CallFinds
<1>2. PICK read \in Usable, size \in StateSizes :
        dev.target # NoTarget /\ Returns(Draw(d, read, size)) /\ UNCHANGED mapped
  BY DEF DrawVertices
<1> HIDE DEF d
<1>3. read \in Resources \ mapped /\ d.target # NoTarget
  BY <1>1, <1>2 DEF Usable
<1>4. Sound(Draw(d, read, size), mapped, dev.commands)
  BY <1>1, <1>3, SoundDrawVertices
<1>5. QED  BY <1>2, <1>4, ReturnsKept

(* RosUmdDevice's draws of indexed vertices.  (DrawIndexed.)               *)
LEMMA DrawIndicesKept ==
  ASSUME BatchInv, NEW n \in Nat, DrawIndices(n)
  PROVE  Kept
<1> DEFINE d == Called(n)
<1>1. /\ mapped \in SUBSET Dynamic /\ dev.commands \in Seq(Kinds)
      /\ d \in Device /\ Sound(d, mapped, dev.commands) /\ d.outcome = "returns"
      /\ d.target = dev.target
  BY CallFinds
<1>2. PICK read \in Usable, indexBuffer \in Usable, size \in StateSizes :
        /\ dev.target \notin {NoTarget, indexBuffer}
        /\ Returns(DrawIndexed(d, read, size, indexBuffer)) /\ UNCHANGED mapped
  BY DEF DrawIndices
<1> HIDE DEF d
<1>3. /\ read \in Resources \ mapped /\ indexBuffer \in Resources \ mapped
      /\ d.target # NoTarget
  BY <1>1, <1>2 DEF Usable
<1>4. Sound(DrawIndexed(d, read, size, indexBuffer), mapped, dev.commands)
  BY <1>1, <1>3, SoundDrawIndexed
<1>5. QED  BY <1>2, <1>4, ReturnsKept

(* RosUmdDevice's clears.  (ClearRenderTargetView, ClearDepthStencilView.) *)
LEMMA ClearViewKept ==
  ASSUME BatchInv, NEW n \in Nat, ClearView(n)
  PROVE  Kept
<1>1. Sound(Clear(Called(n)), mapped, dev.commands)
  BY CallFinds, SoundClearView
<1>2. QED  BY <1>1, ReturnsKept DEF ClearView

(* RosUmdDevice's change of its render target.  (SetRenderTargets.)        *)
LEMMA ChangeTargetKept ==
  ASSUME BatchInv, NEW n \in Nat, ChangeTarget(n)
  PROVE  Kept
<1>1. PICK target \in Default :
        Returns(SetRenderTargets(Called(n), target)) /\ UNCHANGED mapped
  BY DEF ChangeTarget
<1>2. Sound(SetRenderTargets(Called(n), target), mapped, dev.commands)
  BY CallFinds, SoundSetRenderTargets
<1>3. QED  BY <1>1, <1>2, ReturnsKept

(* The runtime's flush.  (DdiFlush.)                                       *)
LEMMA DdiFlushKept ==
  ASSUME BatchInv, NEW n \in Nat, DdiFlush(n)
  PROVE  Kept
<1> DEFINE d == Called(n)
           e == Flush(d)
<1>1. /\ mapped \in SUBSET Dynamic /\ dev.commands \in Seq(Kinds)
      /\ d \in Device /\ Sound(d, mapped, dev.commands) /\ d.outcome = "returns"
  BY CallFinds
<1>2. Returns(e) /\ UNCHANGED mapped
  BY DEF DdiFlush
<1> HIDE DEF d
<1>3. Sound(e, mapped, dev.commands)
  BY <1>1, SoundFlush
<1> HIDE DEF e
<1>4. QED  BY <1>2, <1>3, ReturnsKept

(* What is mapped, once more than before, is used by no command that       *)
(* waits.  (RosUmdResource::Map.)                                          *)
LEMMA MapResourceKept ==
  ASSUME BatchInv, NEW n \in Nat, MapResource(n)
  PROVE  Kept
<1> DEFINE d == Called(n)
<1>1. /\ mapped \in SUBSET Dynamic /\ dev.commands \in Seq(Kinds)
      /\ d \in Device /\ Sound(d, mapped, dev.commands) /\ d.outcome = "returns"
      /\ d.handle = dev.handle
  BY CallFinds
<1>2. PICK r \in Dynamic \ mapped : \E new \in Spare \cup {dev.handle[r]} :
        /\ Returns(Map(d, r, new))
        /\ mapped' = IF dev'.outcome = "returns" THEN mapped \cup {r} ELSE mapped
  BY DEF MapResource
<1>3. PICK new \in Spare \cup {dev.handle[r]} :
        /\ Returns(Map(d, r, new))
        /\ mapped' = IF dev'.outcome = "returns" THEN mapped \cup {r} ELSE mapped
  BY <1>2
<1> HIDE DEF d
<1>4. r \in Dynamic /\ r \in Resources
  BY ResourcesAssumption
<1>5. new \in Allocations /\ (new = d.handle[r] \/ \A q \in Resources : d.handle[q] # new)
  <2>1. CASE new \in Spare
    BY <2>1, <1>1 DEF Spare
  <2>2. CASE new = dev.handle[r]
    BY <2>2, <1>1, <1>4 DEF Device
  <2>3. QED  BY <2>1, <2>2
<1> DEFINE e == Map(d, r, new)
<1>6. Sound(e, mapped, dev.commands) /\ (e.outcome = "returns" => e.lastFence[r] < e.fence)
  BY <1>1, <1>4, <1>5, SoundMap
<1>7. dev' = e
  BY <1>3 DEF Returns
<1> HIDE DEF e
<1>8. mapped' \subseteq Dynamic
  BY <1>1, <1>3, <1>4
<1>9. Unused(dev', mapped')
  BY <1>3, <1>6, <1>7 DEF Sound, Unused
<1>10. QED  BY <1>6, <1>7, <1>8, <1>9 DEF Kept, Sound

(* A mapping whose lock fails.  (RosUmdResource::Map.)                     *)
LEMMA MapFailsKept ==
  ASSUME BatchInv, NEW n \in Nat, MapFails(n)
  PROVE  Kept
<1> DEFINE d == Called(n)
<1>1. /\ mapped \in SUBSET Dynamic /\ dev.commands \in Seq(Kinds)
      /\ d \in Device /\ Sound(d, mapped, dev.commands) /\ d.outcome = "returns"
      /\ d.lastFence = dev.lastFence
  BY CallFinds
<1>2. PICK r \in Dynamic \ mapped :
        Returns(LockFails(FlushIfMatching(d, dev.lastFence[r]))) /\ UNCHANGED mapped
  BY DEF MapFails
<1> HIDE DEF d
<1>3. r \in Resources
  BY ResourcesAssumption
<1> DEFINE f == FlushIfMatching(d, d.lastFence[r])
<1>4. f \in Device /\ Sound(f, mapped, dev.commands)
  BY <1>1, <1>3, SoundFlushIfMatching
<1>5. Returns(LockFails(f))
  BY <1>1, <1>2
<1> HIDE DEF f
<1>6. Sound(LockFails(f), mapped, dev.commands)
  BY <1>4, SoundLockFails
<1>7. QED  BY <1>2, <1>5, <1>6, ReturnsKept

(* The end of a mapping.  (RosUmdResource::Unmap.)                         *)
LEMMA UnmapKept ==
  ASSUME BatchInv, NEW n \in Nat, Unmap(n)
  PROVE  Kept
<1> DEFINE e == Called(n)
<1>1. mapped \in SUBSET Dynamic /\ Sound(e, mapped, dev.commands)
  BY CallFinds
<1>2. mapped' \subseteq mapped /\ dev' = e
  BY DEF Unmap, Returns
<1> HIDE DEF e
<1>3. Unused(dev', mapped')
  BY <1>1, <1>2 DEF Sound, Unused
<1>4. QED  BY <1>1, <1>2, <1>3 DEF Kept, Sound

(* The presentation of a swap chain buffer.  (RotateResourceIdentities.)   *)
LEMMA RotateResourceIdentitiesKept ==
  ASSUME BatchInv, NEW n \in Nat, RotateResourceIdentities(n)
  PROVE  Kept
<1> DEFINE d == Called(n)
<1>1. d \in Device /\ Sound(d, mapped, dev.commands)
  BY CallFinds
<1>2. PICK r \in SwapChain, q \in SwapChain :
        r # q /\ Returns(Rotate(d, r, q)) /\ UNCHANGED mapped
  BY DEF RotateResourceIdentities
<1> HIDE DEF d
<1>3. Sound(Rotate(d, r, q), mapped, dev.commands)
  BY <1>1, <1>2, SoundRotate
<1>4. QED  BY <1>2, <1>3, ReturnsKept

(* Every step is such a call, or changes nothing.  (RosUmdDevice.)         *)
LEMMA StepKept ==
  ASSUME BatchInv, Next
  PROVE  Kept \/ UNCHANGED vars
<1>1. CASE Over
  BY <1>1 DEF Over
<1>2. ASSUME NEW n \in 0..MaxRenders,
             \/ ResourceCopy(n) \/ DrawVertices(n) \/ DrawIndices(n)
             \/ ClearView(n) \/ ChangeTarget(n) \/ DdiFlush(n)
             \/ MapResource(n) \/ MapFails(n) \/ Unmap(n) \/ RotateResourceIdentities(n)
      PROVE  Kept
  <2>1. n \in Nat
    BY DEF MaxRenders
  <2>2. CASE ResourceCopy(n)
    BY <2>1, <2>2, ResourceCopyKept
  <2>3. CASE DrawVertices(n)
    BY <2>1, <2>3, DrawVerticesKept
  <2>4. CASE DrawIndices(n)
    BY <2>1, <2>4, DrawIndicesKept
  <2>5. CASE ClearView(n)
    BY <2>1, <2>5, ClearViewKept
  <2>6. CASE ChangeTarget(n)
    BY <2>1, <2>6, ChangeTargetKept
  <2>7. CASE DdiFlush(n)
    BY <2>1, <2>7, DdiFlushKept
  <2>8. CASE MapResource(n)
    BY <2>1, <2>8, MapResourceKept
  <2>9. CASE MapFails(n)
    BY <2>1, <2>9, MapFailsKept
  <2>10. CASE Unmap(n)
    BY <2>1, <2>10, UnmapKept
  <2>11. CASE RotateResourceIdentities(n)
    BY <2>1, <2>11, RotateResourceIdentitiesKept
  <2>12. QED
    BY <1>2, <2>2, <2>3, <2>4, <2>5, <2>6, <2>7, <2>8, <2>9, <2>10, <2>11
<1>3. QED  BY <1>1, <1>2 DEF Next

(* What a call may rely on holds again after it.                           *)
LEMMA KeptIsSound ==
  ASSUME Kept
  PROVE  BatchInv'
<1>1. Sound(dev', mapped', dev.commands) /\ mapped' \subseteq Dynamic
  BY DEF Kept
<1>2. dev' \in Device
  BY <1>1 DEF Sound
<1>3. Continues(dev', <<>>)
  BY <1>2 DEF Continues, IsPrefixOf, Device
<1>4. Sound(dev', mapped', <<>>)
  BY <1>1, <1>3 DEF Sound
<1>5. QED  BY <1>1, <1>4 DEF BatchInv

(* What the lists hold when the device is created.  (Standup.)             *)
LEMMA InitIsSound ==
  ASSUME Init
  PROVE  BatchInv
<1>1. /\ <<>> \in Seq(Kinds) /\ <<>> \in Seq(Allocations) /\ <<>> \in Seq(PatchType)
      /\ <<>> \in Seq(BatchType) /\ {} \in SUBSET Resources /\ HeaderSize \in Nat
      /\ FirstAllocation \in [Resources -> Allocations]
      /\ "returns" \in Outcomes /\ NoTarget \in Resources \cup {NoTarget}
      /\ s_firstFence = 1 /\ s_nullFence = 0
  BY SizesAreNumbers, ResourcesAssumption DEF Outcomes, s_firstFence, s_nullFence
<1>2. /\ [r \in Resources |-> s_nullFence] \in [Resources -> Nat]
      /\ [r \in Resources |-> 0] \in [Resources -> Nat]
  BY <1>1
<1>3. /\ dev.pos = HeaderSize /\ dev.commands = <<>> /\ dev.allocs = <<>>
      /\ dev.patches = <<>> /\ dev.fence = 1 /\ dev.sw = TRUE /\ dev.clear = FALSE
      /\ dev.clearedAt = 0 /\ dev.target = NoTarget /\ dev.targets = {}
      /\ dev.handle = FirstAllocation /\ dev.sent = <<>>
      /\ \A r \in Resources : dev.lastFence[r] = 0
  BY <1>1 DEF Init
<1>4. dev \in Device
  <2>1. PICK f \in [Resources -> Nat] : f = [r \in Resources |-> s_nullFence]
    BY <1>2
  <2>2. PICK i \in [Resources -> Nat] : i = [r \in Resources |-> 0]
    BY <1>2
  <2>3. dev = [pos |-> HeaderSize, commands |-> <<>>, allocs |-> <<>>, patches |-> <<>>,
               fence |-> s_firstFence, sw |-> TRUE, clear |-> FALSE, clearedAt |-> 0,
               binning |-> FALSE, draws |-> FALSE,
               target |-> NoTarget, targets |-> {},
               lastFence |-> f, index |-> i, handle |-> FirstAllocation,
               outcome |-> "returns", renders |-> 0, sent |-> <<>>]
    BY <2>1, <2>2 DEF Init
  <2>4. s_firstFence \in Nat /\ 0 \in Nat
    BY <1>1
  <2>5. QED  BY <1>1, <2>3, <2>4 DEF Device
<1>5. Written(dev) /\ Room(dev)
  <2>1. Len(dev.allocs) = 0 /\ Len(dev.patches) = 0
    BY <1>3
  <2>2. /\ HeaderSize + CommandThreshold <= CommandBufferSize
        /\ 0 + AllocationThreshold <= AllocationListSize
        /\ 0 + PatchThreshold <= PatchLocationListSize + 1
        /\ HeaderSize >= HeaderSize
    BY SizesAreNumbers
  <2>3. QED  BY <1>3, <2>1, <2>2 DEF Written, Room
<1>6. Listed(dev)
  <2>1. \A r \in Resources : dev.lastFence[r] < dev.fence
    <3>1. 0 < 1
      OBVIOUS
    <3>2. QED  BY <1>3, <3>1
  <2>2. \A r \in Resources : dev.lastFence[r] <= dev.fence /\ dev.lastFence[r] # dev.fence
    BY <1>4, <2>1, FencesPass
  <2>3. QED  BY <2>2 DEF Listed, IsResourceUsed
<1>7. Owned(dev) /\ Distinct(dev) /\ Resolves(dev.patches, dev.allocs)
  <2>1. Len(dev.allocs) = 0 /\ Len(dev.patches) = 0
    BY <1>3
  <2>2. QED  BY <1>3, <2>1, ResourcesAssumption DEF Owned, Distinct, Resolves
<1>8. Plain(dev) /\ Drawn(dev) /\ Cleared(dev)
  <2>1. Len(dev.commands) = 0
    BY <1>3
  <2>2. QED  BY <1>3, <2>1 DEF Plain, Drawn, Cleared, ClearIsFirst, Batch, Resumed
<1>9. Sent(dev) /\ Unused(dev, {}) /\ Continues(dev, <<>>)
  <2>1. Len(dev.sent) = 0 /\ Len(<<>>) = 0 /\ Len(dev.commands) = 0
    BY <1>3
  <2>2. QED  BY <1>3, <2>1 DEF Sent, Unused, Continues, IsPrefixOf
<1>10. mapped = {}
  BY DEF Init
<1>11. Sound(dev, {}, <<>>)
  BY <1>4, <1>5, <1>6, <1>7, <1>8, <1>9 DEF Sound
<1>12. QED  BY <1>10, <1>11 DEF BatchInv

(* Between two calls the batch is always sound: each step leaves it so.    *)
(* (RosUmdDevice and RosUmdCommandBuffer.)                                 *)
LEMMA Soundness == Spec => []BatchInv
<1>1. Init => BatchInv
  BY InitIsSound
<1>2. BatchInv /\ [Next]_vars => BatchInv'
  <2>1. CASE Next
    BY <2>1, StepKept, KeptIsSound DEF vars, BatchInv
  <2>2. CASE UNCHANGED vars
    BY <2>2 DEF vars, BatchInv
  <2>3. QED  BY <2>1, <2>2
<1>3. QED  BY <1>1, <1>2, PTL DEF Spec

------------------------------------------------------------------------------
(* The theorems.                                                           *)

(* Every variable has its type, for all sizes, resources and calls.        *)
(* (RosUmdDevice, RosUmdCommandBuffer, RosUmdResource.)                    *)
THEOREM BatchTypes == Spec => []TypeOK
<1>1. BatchInv => TypeOK
  BY DEF BatchInv, Sound, Device, TypeOK
<1>2. QED  BY <1>1, Soundness, PTL

(* The command buffer, the allocation list and the patch location list are *)
(* never overrun, whatever their sizes, as long as a request fits into an  *)
(* empty batch: the thresholds stay free, but for the one patch location   *)
(* that Draw commits without reserving it.  (ReserveCommandBufferSpace,    *)
(* CommitCommandBufferSpace, UseResource.)                                 *)
THEOREM ListsAreNotOverrun == Spec => []ListsNotOverrun
<1>1. BatchInv => ListsNotOverrun
  BY DEF BatchInv, Sound, Room, ListsNotOverrun
<1>2. QED  BY <1>1, Soundness, PTL

(* Every patch location of a batch, submitted or not, leads to the         *)
(* allocation that its command means, across the flushes in the middle of  *)
(* a call and the renamings of Map.  (UseResource, SetPatchLocation.)      *)
THEOREM PatchesAreResolved == Spec => []PatchesResolve
<1>1. ASSUME BatchInv PROVE PatchesResolve
  <2>1. ASSUME NEW batch \in Batches PROVE Resolves(batch.patches, batch.allocs)
    <3>1. CASE batch = Batch(dev)
      BY <1>1, <3>1 DEF BatchInv, Sound, Batch
    <3>2. CASE batch \in {dev.sent[i] : i \in 1..Len(dev.sent)}
      BY <1>1, <3>2 DEF BatchInv, Sound, Sent, Submittable
    <3>3. QED  BY <3>1, <3>2 DEF Batches
  <2>2. \A r \in Resources : IsResourceUsed(dev, r) =>
          /\ dev.index[r] \in 1..Len(dev.allocs)
          /\ r \notin SwapChain => dev.allocs[dev.index[r]] = dev.handle[r]
    BY <1>1 DEF BatchInv, Sound, Listed
  <2>3. QED  BY <2>1, <2>2 DEF PatchesResolve, Resolves, Leads
<1>2. QED  BY <1>1, Soundness, PTL

(* A batch draws to one render target, unless it was continued after a     *)
(* submission of it failed.  (SetRenderTargets, m_hasDrawCall.)            *)
THEOREM BatchHasOneTarget == Spec => []OneTarget
<1>1. ASSUME BatchInv PROVE OneTarget
  <2>1. \A t, u \in dev.targets : t = u \/ Resumed(dev.commands)
    BY <1>1 DEF BatchInv, Sound, Drawn
  <2>2. \A i \in 1..Len(dev.sent) : \A t, u \in dev.sent[i].targets :
          t = u \/ ResumedWhenSent(dev.sent[i].commands)
    BY <1>1 DEF BatchInv, Sound, Sent, Submittable
  <2>3. QED  BY <2>1, <2>2 DEF OneTarget
<1>2. QED  BY <1>1, Soundness, PTL

(* The clear that a batch carries was asked for before any draw of it,     *)
(* unless the batch was continued after a submission of it failed.         *)
(* (ClearRenderTargetView, ClearDepthStencilView.)                         *)
THEOREM ClearComesFirst == Spec => []ClearPrecedesDraws
<1>1. ASSUME BatchInv PROVE ClearPrecedesDraws
  <2>1. ClearIsFirst(Batch(dev)) \/ Resumed(dev.commands)
    BY <1>1 DEF BatchInv, Sound, Cleared
  <2>2. \A i \in 1..Len(dev.sent) :
          ClearIsFirst(dev.sent[i]) \/ ResumedWhenSent(dev.sent[i].commands)
    BY <1>1 DEF BatchInv, Sound, Sent, Submittable
  <2>3. QED  BY <2>1, <2>2 DEF ClearPrecedesDraws
<1>2. QED  BY <1>1, Soundness, PTL

(* While the CPU has a resource mapped, no command that waits refers to    *)
(* the allocation it maps: what is in the list belongs to a resource that  *)
(* the batch uses, which no mapped one is.  (RosUmdResource::Map,          *)
(* FlushIfMatching.)                                                       *)
THEOREM MappedStaysUnqueued == Spec => []MappedIsNotQueued
<1>1. ASSUME BatchInv PROVE MappedIsNotQueued
  <2> SUFFICES ASSUME NEW r \in mapped, NEW i \in 1..Len(dev.allocs)
               PROVE  dev.allocs[i] # dev.handle[r]
    BY DEF MappedIsNotQueued
  <2>1. r \in Resources /\ r \notin SwapChain /\ dev \in Device
    BY <1>1, ResourcesAssumption DEF BatchInv, Sound
  <2>2. dev.lastFence[r] < dev.fence
    BY <1>1 DEF BatchInv, Sound, Unused
  <2>3. dev.lastFence[r] # dev.fence
    BY <2>1, <2>2, FencesPass
  <2>4. PICK q \in Resources :
          dev.allocs[i] = dev.handle[q] /\ (q \in SwapChain \/ IsResourceUsed(dev, q))
    BY <1>1 DEF BatchInv, Sound, Owned
  <2>5. dev.handle[q] = dev.handle[r] => q = r
    BY <1>1, <2>1 DEF BatchInv, Sound, Distinct
  <2>6. QED  BY <2>1, <2>3, <2>4, <2>5 DEF IsResourceUsed
<1>2. QED  BY <1>1, Soundness, PTL

(* No command is lost: a call finds the commands of the batch and leaves   *)
(* them there, or at the beginning of the first batch it submits; a batch  *)
(* whose submission fails stays.  (Flush, Render.)                         *)
THEOREM NoCommandIsLost == Spec => NothingLost
<1> DEFINE left == IF Len(dev'.sent) = 0 THEN dev' ELSE dev'.sent[1]
           Lost == IsPrefixOf(dev.commands, left.commands)
<1>1. ASSUME BatchInv, [Next]_vars PROVE [Lost]_vars
  <2>1. Kept => Lost
    BY DEF Kept, Sound, Continues
  <2>2. Kept \/ UNCHANGED vars
    BY <1>1, StepKept
  <2>3. QED  BY <2>1, <2>2
<1>2. BatchInv /\ [Next]_vars => [Lost]_vars
  BY <1>1
<1> HIDE DEF Lost
<1>3. Spec => [][Lost]_vars
  BY <1>2, Soundness, PTL DEF Spec
<1>4. QED  BY <1>3 DEF NothingLost, Lost

==============================================================================
