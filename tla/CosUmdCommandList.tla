------------------------- MODULE CosUmdCommandList -------------------------
(***************************************************************************)
(* A compute command list of the cosumd12 driver and the command queue it  *)
(* is executed on (CosUmd12CommandList, CosUmd12CommandBuffer,             *)
(* CosUmd12RootSignature, CosUmd12Descriptor, CosUmd12CommandPool,         *)
(* CosUmd12CommandQueue), in the configuration the sources are built with: *)
(* physical memory model, descriptors copied into the command buffer       *)
(* (COS_GPUVA_SUPPORT = 0, COS_RS_2LEVEL_SUPPORT = 0), with the option of  *)
(* meta commands (COS_MLMC_RS5_SUPPORT).                                   *)
(*                                                                         *)
(* The application records copies, dispatches and meta commands.  They go  *)
(* into command buffers that each have three limits: space, entries of the *)
(* allocation list and entries of the patch location list.  A full buffer, *)
(* or one that holds the other kind of commands, is put aside in           *)
(* m_filledCommandBuffers and a new one is acquired, which may fail.       *)
(* Executing the list submits the filled buffers one by one.               *)
(*                                                                         *)
(* A dispatch carries its root arguments along.  They are kept, in the     *)
(* list, as an array of words laid out by the root signature, and are      *)
(* turned into tables of hardware registers in the command, in which the   *)
(* address of each resource is left to the kernel driver by a patch        *)
(* location.                                                               *)
(*                                                                         *)
(* The kernel driver (coskmd: CosKmContext::DdiRender, CosKmAdapter::Patch *)
(* and CosKmdSoftAdapter) copies a submitted buffer, writes the addresses  *)
(* in, and interprets the commands, finding each by the size of the one    *)
(* before and each register by tables it derives from the command.         *)
(*                                                                         *)
(* Sizes are in words of 32 bits.                                          *)
(***************************************************************************)
EXTENDS Integers, Sequences, FiniteSets, SequencesExt, FiniteSetsExt

CONSTANTS
  Allocations,                   \* what resources and descriptors refer to
  NoAllocation,                  \* what a word that is no handle refers to
  Signatures,                    \* root signatures: sequences of parameters
  ShaderSizes,                   \* sizes of shader images
  TensorBindings,                \* descriptors of a meta command's two tensors, or -1
  HeapSize,                      \* descriptors in the descriptor heap
  RootSignatureSize,             \* SIZE_ROOT_SIGNATURE
  CommandBufferSize,             \* COS_COMMAND_BUFFER_SIZE
  AllocationListSize,            \* C_COS_ALLOCATION_LIST_SIZE
  PatchLocationListSize,         \* C_COS_PATCH_LOCATION_LIST_SIZE
  MaxCommandBuffers,             \* COS_MAX_NUM_COMMAND_BUFFERS
  MaxCommands                    \* bound: commands recorded between resets

(* Thresholds of CosUmd12CommandBuffer, in the proportions of the model. *)
COMMAND_BUFFER_FLUSH_THRESHOLD == 2
LIST_FLUSH_THRESHOLD == 1

GpuCommandSize == 8                            \* sizeof(GpuCommand): header, copy
RootSignatureSetSize == 5                      \* GpuHWRootSignatureSet
DispatchSize == 12                             \* GpuHwComputeShaderDisptch
MetaCommandSize == 6                           \* with its descriptor

(* Root signatures.  A parameter is a descriptor table, a set of 32 bit    *)
(* constants or a view; a register belongs to one of three classes.        *)

Classes == {"cbv", "srv", "uav"}
Table(ranges) == [type |-> "table", ranges |-> ranges]
Constants(register, num) == [type |-> "constants", register |-> register, num |-> num]
View(class, register) == [type |-> "view", class |-> class, register |-> register]
DescriptorRange(class, base, num, offset) ==
  [class |-> class, base |-> base, num |-> num, offset |-> offset]

DescriptorRanges == [class : Classes, base : Nat, num : Nat, offset : Nat]
RootParameters ==
  [type : {"table"}, ranges : Seq(DescriptorRanges)]
  \cup [type : {"constants"}, register : Nat, num : Nat]
  \cup [type : {"view"}, class : Classes, register : Nat]

Parameters(sig) == DOMAIN sig
Ranges(p) == IF p.type = "table" THEN ToSet(p.ranges) ELSE {}
Total(numbers) == FoldLeft(LAMBDA sum, n : sum + n, 0, numbers)

(* The words a parameter takes in m_rootValues. *)
RootWords(p) ==
  CASE p.type = "table" -> 1                   \* an offset into the heap
    [] p.type = "constants" -> p.num
    [] p.type = "view" -> 2                    \* handle and offset

(* m_pRootValueOffsets *)
RootValueOffset(sig, i) == Total([j \in 1 .. i - 1 |-> RootWords(sig[j])])

Tensors == 1 .. 2

(* No root signature is larger than the runtime allows. *)
ASSUME SizesAssumption ==
  /\ NoAllocation \notin Allocations
  /\ RootSignatureSize \in Nat /\ Signatures \subseteq Seq(RootParameters)
  /\ \A sig \in Signatures : RootValueOffset(sig, Len(sig) + 1) <= RootSignatureSize
  /\ ShaderSizes \subseteq Nat /\ TensorBindings \subseteq [Tensors -> -1 .. HeapSize - 1]
  /\ HeapSize \in Nat \ {0}
  /\ {CommandBufferSize, AllocationListSize, PatchLocationListSize} \subseteq Nat
  /\ CommandBufferSize >= 2 * GpuCommandSize + COMMAND_BUFFER_FLUSH_THRESHOLD
  /\ {AllocationListSize, PatchLocationListSize} \subseteq {n \in Nat : n > 2}
  /\ MaxCommandBuffers \in Nat \ {0} /\ MaxCommands \in Nat

Null == [sw |-> TRUE, pos |-> 0, allocs |-> << >>, patches |-> << >>, cmds |-> << >>]
Unset == <<"unset">>

(* The registers of a parameter that refer to an allocation. *)
RangeRegisters(r) == {<<r.class, r.base + k>> : k \in 0 .. r.num - 1}
RegistersOf(p) ==
  IF p.type = "view" THEN {<<p.class, p.register>>}
                     ELSE UNION {RangeRegisters(r) : r \in Ranges(p)}

(* The runtime accepts no root signature that names a register twice.      *)
ASSUME RegistersAssumption ==
  \A sig \in Signatures :
    /\ \A i, j \in Parameters(sig) : i # j => RegistersOf(sig[i]) \cap RegistersOf(sig[j]) = {}
    /\ \A i \in Parameters(sig) : \A r, s \in Ranges(sig[i]) :
         r # s => RangeRegisters(r) \cap RangeRegisters(s) = {}

VARIABLES
  list,            \* "created", "recording", "closed", "removed", "crashed"
  m_pCurCommandBuffer,           \* the buffer being filled, Null when there is none
  m_filledCommandBuffers,        \* buffers put aside, in order
  live,                          \* command buffers acquired and not released
  m_pRootSignature,              \* hRootSignature of the pipeline state
  m_rootValues,                  \* the words of the current root arguments
  m_pDescriptors,                \* the bound descriptor heap
  args,            \* what the application has set for each root parameter
  recorded,        \* what the application has recorded since the reset
  submitted        \* what the engine executes of the last execution

listVars == <<list, m_pCurCommandBuffer, m_filledCommandBuffers, live, recorded>>
rootVars == <<m_pRootSignature, m_rootValues, m_pDescriptors, args>>
vars == <<listVars, rootVars, submitted>>

-----------------------------------------------------------------------------
(* Registers. *)

RootValueWords == 0 .. RootSignatureSize - 1

EndOfRegistersBaseOnly(p, class) ==                                   \* mutant
  Max({0} \cup {r.base + 1 : r \in {r \in Ranges(p) : r.class = class}}
          \cup (IF p.type = "constants" /\ class = "cbv" THEN {p.register + 1} ELSE {})
          \cup (IF p.type = "view" THEN (IF p.class = class THEN {p.register + 1} ELSE {}) ELSE {}))

(* PrepareHWRootSignature: the registers of a class that a parameter needs, *)
(* and the patch locations.  Four words of constants make a register, but  *)
(* the code reserves a register for every word.                            *)
EndOfRegisters(p, class) ==
  Max({0} \cup {r.base + r.num : r \in {r \in Ranges(p) : r.class = class}}
          \cup (IF p.type = "constants" /\ class = "cbv"
                  THEN {p.register + 4 * ((p.num + 3) \div 4)} ELSE {})
          \cup (IF p.type = "view" THEN (IF p.class = class THEN {p.register + 1} ELSE {}) ELSE {}))

(* Computed once, when the root signature is created. *)
m_hwRootSignature ==
  [sig \in Signatures |->
     [class \in Classes |-> Max({0} \cup {EndOfRegisters(sig[i], class) : i \in Parameters(sig)})]]

NumRegisters(sig, class) == m_hwRootSignature[sig][class]

RegistersToPatch(p) ==
  CASE p.type = "table" -> Total([j \in DOMAIN p.ranges |-> p.ranges[j].num])
    [] p.type = "constants" -> 0
    [] p.type = "view" -> 1

NumRegistersToPatch(sig) == Total([i \in Parameters(sig) |-> RegistersToPatch(sig[i])])

RegisterSize(class) == IF class = "cbv" THEN 4 ELSE 2

(* The tables follow each other behind the command: CBVs, SRVs, UAVs. *)
HwViewTableOffset(sig, class) ==
  RootSignatureSetSize
    + (IF class # "cbv" THEN RegisterSize("cbv") * NumRegisters(sig, "cbv") ELSE 0)
    + (IF class = "uav" THEN RegisterSize("srv") * NumRegisters(sig, "srv") ELSE 0)

HwRootSignatureSize(sig) ==
  HwViewTableOffset(sig, "uav") + RegisterSize("uav") * NumRegisters(sig, "uav")

RegisterOffset(sig, class, register) ==
  HwViewTableOffset(sig, class) + register * RegisterSize(class)

-----------------------------------------------------------------------------
(* Setting root arguments. *)

Init ==
  /\ list = "created"
  /\ m_pCurCommandBuffer = Null
  /\ m_filledCommandBuffers = << >>
  /\ live = 0
  /\ m_pRootSignature \in Signatures
  /\ m_rootValues = [w \in RootValueWords |-> Unset]
  /\ m_pDescriptors \in [0 .. HeapSize - 1 -> Allocations]
  /\ args = << >>
  /\ recorded = << >>
  /\ submitted = << >>

Recording == list = "recording" /\ Len(recorded) < MaxCommands

(* ... and the arguments of the one before are void. *)
SetRootSignature(sig) ==
  /\ Recording
  /\ sig # m_pRootSignature
  /\ m_pRootSignature' = sig
  /\ args' = << >>
  /\ UNCHANGED <<m_rootValues, m_pDescriptors, listVars, submitted>>

WriteRootValues(i, words) ==
  LET start == RootValueOffset(m_pRootSignature, i) IN
  m_rootValues' = [w \in RootValueWords |->
                     IF w \in start .. start + Len(words) - 1
                       THEN words[w - start + 1] ELSE m_rootValues[w]]

(* The words of an argument, by the type of its parameter. *)
WordsOf(p, value) ==
  CASE p.type = "table" -> <<<<"offset", value>>>>
    [] p.type = "constants" -> [w \in 1 .. p.num |-> <<"constant">>]
    [] p.type = "view" -> <<<<"offset", 0>>, <<"handle", value>>>>

Arguments(p) ==
  CASE p.type = "table" -> {o \in 0 .. HeapSize - 1 : \A r \in Ranges(p) : o + r.offset + r.num <= HeapSize}
    [] p.type = "constants" -> {<<"constant">>}
    [] p.type = "view" -> Allocations

(* SetRootDescriptorTable, SetRoot32BitConstants, SetRootView *)
SetRootArgument(i, value) ==
  /\ Recording
  /\ WriteRootValues(i, WordsOf(m_pRootSignature[i], value))
  /\ args' = [j \in DOMAIN args \cup {i} |-> IF j = i THEN value ELSE args[j]]
  /\ UNCHANGED <<m_pRootSignature, m_pDescriptors, listVars, submitted>>

-----------------------------------------------------------------------------
(* Command buffers. *)

NewCommandBuffer ==
  [sw |-> TRUE, pos |-> GpuCommandSize, allocs |-> << >>, patches |-> << >>, cmds |-> << >>]
IsCommandBufferEmpty(b) == b.pos <= GpuCommandSize

(* CosUmd12CommandBuffer::ReserveCommandBufferSpace: the kind of an empty  *)
(* buffer may still change.                                                *)
Retyped(b, sw) == IF IsCommandBufferEmpty(b) THEN [b EXCEPT !.sw = sw] ELSE b
FitsWithoutPatches(b, sw, size, num) ==                               \* mutant
  /\ Retyped(b, sw).sw = sw
  /\ b.pos + size + COMMAND_BUFFER_FLUSH_THRESHOLD <= CommandBufferSize
  /\ Len(b.allocs) + num + LIST_FLUSH_THRESHOLD <= AllocationListSize

Fits(b, sw, size, num) ==
  /\ Retyped(b, sw).sw = sw
  /\ b.pos + size + COMMAND_BUFFER_FLUSH_THRESHOLD <= CommandBufferSize
  /\ Len(b.allocs) + num + LIST_FLUSH_THRESHOLD <= AllocationListSize
  /\ Len(b.patches) + num + LIST_FLUSH_THRESHOLD <= PatchLocationListSize

FitsEmpty(sw, size, num) == Fits(NewCommandBuffer, sw, size, num)

(* UseAllocation: one entry for each allocation, found by a search. *)
UseAllocation(b, a) ==
  IF Contains(b.allocs, a) THEN b ELSE [b EXCEPT !.allocs = Append(@, a)]

(* UseAllocation and SetPatchLocation for one reference. *)
Refer(b, ref) ==
  LET used == UseAllocation(b, ref.alloc) IN
  [used EXCEPT !.patches =
     Append(@, [at |-> b.pos + ref.offset,
                index |-> SelectInSeq(used.allocs, LAMBDA a : a = ref.alloc)])]

(* The references, in order, and CommitCommandBufferSpace. *)
Written(b, sw, size, refs, id) ==
  LET start == [Retyped(b, sw) EXCEPT !.cmds = Append(@, [id |-> id, at |-> b.pos])]
      end == FoldLeft(Refer, start, refs)
  IN  [end EXCEPT !.pos = @ + size]

RecordWithoutNewBuffer(command, sw, size, num, refs) ==               \* mutant
  LET id == Len(recorded) + 1 IN
  \/ /\ Fits(m_pCurCommandBuffer, sw, size, num)
     /\ m_pCurCommandBuffer' = Written(m_pCurCommandBuffer, sw, size, refs, id)
     /\ recorded' = Append(recorded, command)
     /\ UNCHANGED <<list, m_filledCommandBuffers, live>>
  \/ /\ ~Fits(m_pCurCommandBuffer, sw, size, num)
     /\ FitsEmpty(sw, size, num)
     /\ m_pCurCommandBuffer' = Written(NewCommandBuffer, sw, size, refs, id)
     /\ recorded' = Append(recorded, command)
     /\ live' = live + 1
     /\ UNCHANGED <<list, m_filledCommandBuffers>>

(* CosUmd12CommandList::ReserveCommandBufferSpace and the writing of the   *)
(* command.  num is the number of references reserved for.  A full list    *)
(* of filled buffers removes the device; a buffer that cannot be acquired  *)
(* is used all the same.                                                   *)
Record(command, sw, size, num, refs) ==
  LET id == Len(recorded) + 1 IN
  \/ /\ Fits(m_pCurCommandBuffer, sw, size, num)
     /\ m_pCurCommandBuffer' = Written(m_pCurCommandBuffer, sw, size, refs, id)
     /\ recorded' = Append(recorded, command)
     /\ UNCHANGED <<list, m_filledCommandBuffers, live>>
  \/ /\ ~Fits(m_pCurCommandBuffer, sw, size, num)
     /\ \/ /\ Len(m_filledCommandBuffers) = MaxCommandBuffers - 1
           /\ list' = "removed"
           /\ UNCHANGED <<m_pCurCommandBuffer, m_filledCommandBuffers, live, recorded>>
        \/ /\ Len(m_filledCommandBuffers) # MaxCommandBuffers - 1
           /\ m_filledCommandBuffers' = Append(m_filledCommandBuffers, Retyped(m_pCurCommandBuffer, sw))
           /\ \/ /\ FitsEmpty(sw, size, num)
                 /\ m_pCurCommandBuffer' = Written(NewCommandBuffer, sw, size, refs, id)
                 /\ recorded' = Append(recorded, command)
                 /\ live' = live + 1
                 /\ UNCHANGED list
              \/ /\ ~FitsEmpty(sw, size, num)             \* dropped in silence
                 /\ m_pCurCommandBuffer' = Retyped(NewCommandBuffer, sw)
                 /\ live' = live + 1
                 /\ UNCHANGED <<list, recorded>>
              \/ /\ m_pCurCommandBuffer' = Null           \* no memory
                 /\ list' = "crashed"
                 /\ UNCHANGED <<live, recorded>>

-----------------------------------------------------------------------------
(* Recording. *)

Resolve(refs) == {[at |-> refs[i].offset, alloc |-> refs[i].alloc] : i \in DOMAIN refs}

(* ResourceCopy, CopyBufferRegion and GpuMemoryCopy: destination, source. *)
ResourceCopy(dst, src) ==
  /\ Recording
  /\ LET refs == <<[offset |-> 2, alloc |-> dst], [offset |-> 4, alloc |-> src]>> IN
     Record([kind |-> "copy", sw |-> TRUE, size |-> GpuCommandSize, expected |-> Resolve(refs)],
            TRUE, GpuCommandSize, 2, refs)
  /\ UNCHANGED <<rootVars, submitted>>

(* WriteHWRootSignature: every reference of every parameter, from the      *)
(* words of the root arguments and the descriptors of the heap.            *)
ViewHandle(sig, i) ==
  LET word == m_rootValues[RootValueOffset(sig, i) + 1] IN
  IF word[1] = "handle" THEN word[2] ELSE NoAllocation

TableOffset(sig, i) ==
  LET word == m_rootValues[RootValueOffset(sig, i)] IN
  IF word[1] = "offset" THEN word[2] ELSE 0

RangeReferences(sig, i, r) ==
  [k \in 1 .. r.num |->
     [offset |-> RegisterOffset(sig, r.class, r.base + k - 1),
      alloc |-> m_pDescriptors[TableOffset(sig, i) + r.offset + k - 1]]]

ParameterReferences(sig, i) ==
  LET p == sig[i] IN
  CASE p.type = "table" ->
         FlattenSeq([j \in DOMAIN p.ranges |-> RangeReferences(sig, i, p.ranges[j])])
    [] p.type = "view" ->
         <<[offset |-> RegisterOffset(sig, p.class, p.register), alloc |-> ViewHandle(sig, i)]>>
    [] p.type = "constants" -> << >>

HwReferences(sig) ==
  FlattenSeq([i \in Parameters(sig) |-> ParameterReferences(sig, i)])

(* What the application means by its arguments, register by register. *)
RangeBound(i, r) ==
  {[class |-> r.class, register |-> r.base + k, alloc |-> m_pDescriptors[args[i] + r.offset + k]] :
     k \in 0 .. r.num - 1}

ParameterBound(sig, i) ==
  IF sig[i].type = "view"
    THEN {[class |-> sig[i].class, register |-> sig[i].register, alloc |-> args[i]]}
    ELSE UNION {RangeBound(i, r) : r \in Ranges(sig[i])}

Bound(sig) == UNION {ParameterBound(sig, i) : i \in Parameters(sig)}

(* State setup and dispatch share a command buffer.  All arguments are set *)
(* (a rule of the interface).                                              *)
Dispatch(shader) ==
  LET sig == m_pRootSignature
      size == HwRootSignatureSize(sig) + DispatchSize + shader
  IN
  /\ Recording
  /\ DOMAIN args = Parameters(sig)
  /\ Record([kind |-> "dispatch", sw |-> FALSE, size |-> size, sig |-> sig, expected |-> Bound(sig)],
            FALSE, size, NumRegistersToPatch(sig), HwReferences(sig))
  /\ UNCHANGED <<rootVars, submitted>>

(* ExecuteMlMetaCommand: a descriptor for each tensor, which may be        *)
(* absent; space is reserved for all of them.                              *)
ExecuteMlMetaCommand(descriptors) ==
  LET size == MetaCommandSize + 2 * Cardinality(Tensors)
      Tensor(t) == IF descriptors[t] = -1 THEN << >>
                   ELSE <<[offset |-> MetaCommandSize + 2 * (t - 1),
                           alloc |-> m_pDescriptors[descriptors[t]]]>>
      refs == Tensor(1) \o Tensor(2)
  IN
  /\ Recording
  /\ Record([kind |-> "meta", sw |-> FALSE, size |-> size, expected |-> Resolve(refs)],
            FALSE, size, Cardinality(Tensors), refs)
  /\ UNCHANGED <<rootVars, submitted>>

(* The application changes a descriptor between two commands. *)
CreateView(d, a) ==
  /\ Recording
  /\ m_pDescriptors[d] # a
  /\ m_pDescriptors' = [m_pDescriptors EXCEPT ![d] = a]
  /\ UNCHANGED <<m_pRootSignature, m_rootValues, args, listVars, submitted>>

-----------------------------------------------------------------------------
(* The kernel driver. *)

(* PatchDmaBuffer: at which offsets it writes an address, and the address, *)
(* which stands for the allocation.                                        *)
WriteAddress(b, memory, p) ==
  [at \in DOMAIN memory \cup {p.at} |-> IF at = p.at THEN b.allocs[p.index] ELSE memory[at]]

PatchDmaBuffer(b) ==
  FoldLeft(LAMBDA memory, p : WriteAddress(b, memory, p), << >>, b.patches)

(* ValidateDmaBuffer looks at the buffers of hardware commands only.       *)
ValidateDmaBuffer(b) == b.sw \/ \A p \in ToSet(b.patches) : p.index <= Len(b.allocs)

(* What a buffer holds at an offset behind its header.  A dispatch is      *)
(* two commands to the engine: the root signature and the dispatch proper. *)
CommandsAt(b, pos) ==
  UNION {LET command == recorded[cmd.id]
             split == IF command.kind = "dispatch" THEN HwRootSignatureSize(command.sig) ELSE 0
         IN  (IF pos = cmd.at + split
                THEN {[kind |-> command.kind, id |-> cmd.id, size |-> command.size - split]} ELSE {})
             \cup (IF split # 0 /\ pos = cmd.at
                     THEN {[kind |-> "root signature", sig |-> command.sig, size |-> split]} ELSE {}) :
         cmd \in ToSet(b.cmds)}

(* The tables of a root signature; those without registers keep the place  *)
(* they had in the last one.                                               *)
Tables(sig, pos, old) ==
  LET cbvs == pos + RootSignatureSetSize
      srvs == cbvs + RegisterSize("cbv") * NumRegisters(sig, "cbv")
      uavs == srvs + RegisterSize("srv") * NumRegisters(sig, "srv")
      place == [cbv |-> cbvs, srv |-> srvs, uav |-> uavs]
  IN  [c \in Classes |-> IF NumRegisters(sig, c) # 0 THEN place[c] ELSE old[c]]

(* The registers of a dispatch that have an address, and what is there.    *)
(* The software engine goes on to use the UAVs, three of them, however     *)
(* many there are.                                                         *)
RegistersFound(sig, tables, memory) ==
  UNION {{[class |-> c, register |-> r, alloc |-> memory[tables[c] + r * RegisterSize(c)]] :
            r \in {r \in 0 .. NumRegisters(sig, c) - 1 : tables[c] + r * RegisterSize(c) \in DOMAIN memory}} :
         c \in Classes}

(* The addresses in a command that is not a dispatch; a zero is none. *)
AddressesFound(pos, offsets, memory) ==
  {[at |-> o, alloc |-> memory[pos + o]] : o \in {o \in offsets : pos + o \in DOMAIN memory}}

(* ProcessRenderBuffer: commands of one size. *)
ProcessRenderBuffer(b, memory) ==
  FlattenSeq([n \in 1 .. b.pos \div GpuCommandSize - 1 |->
                SetToSeq({[id |-> command.id, found |-> AddressesFound(n * GpuCommandSize, {2, 4}, memory)] :
                            command \in CommandsAt(b, n * GpuCommandSize)})])

(* ProcessHWRenderBuffer: each command is found by the size of the one     *)
(* before; an unknown one ends the buffer.                                 *)
Interpret(b, memory, engine) ==
  LET commands == CommandsAt(b, engine.pos) IN
  IF engine.pos >= b.pos \/ commands = {}
    THEN engine
    ELSE LET command == CHOOSE c \in commands : TRUE
             after == [engine EXCEPT !.pos = @ + command.size]
         IN CASE command.kind = "root signature" ->
                   [after EXCEPT !.sig = command.sig,
                                 !.tables = Tables(command.sig, engine.pos, @)]
              [] command.kind = "dispatch" ->
                   [after EXCEPT !.done = Append(@,
                      [id |-> command.id, found |-> RegistersFound(engine.sig, engine.tables, memory)])]
              [] command.kind = "meta" ->
                   [after EXCEPT !.done = Append(@,
                      [id |-> command.id,
                       found |-> AddressesFound(engine.pos, MetaCommandSize .. command.size - 1, memory)])]

ProcessHWRenderBuffer(b, memory) ==
  FoldLeft(LAMBDA engine, n : Interpret(b, memory, engine),
           [pos |-> GpuCommandSize, sig |-> << >>, tables |-> [c \in Classes |-> 0], done |-> << >>],
           [n \in 1 .. 2 * Len(b.cmds) |-> n]).done

(* What the engine executes of a buffer, and the addresses it finds. *)
Processed(b) ==
  IF b.sw THEN ProcessRenderBuffer(b, PatchDmaBuffer(b))
          ELSE ProcessHWRenderBuffer(b, PatchDmaBuffer(b))

(* DdiRender, and what becomes of the buffer; a copy may fault. *)
DdiRender(b, fault) == IF fault \/ ~ValidateDmaBuffer(b) THEN << >> ELSE Processed(b)

-----------------------------------------------------------------------------
CloseKeepingCurrent ==                                                \* mutant
  /\ list = "recording"
  /\ list' = "closed"
  /\ m_filledCommandBuffers' = IF IsCommandBufferEmpty(m_pCurCommandBuffer)
                                 THEN m_filledCommandBuffers
                                 ELSE Append(m_filledCommandBuffers, m_pCurCommandBuffer)
  /\ UNCHANGED <<m_pCurCommandBuffer, live, recorded, rootVars, submitted>>

(* The life of the list. *)

Close ==
  /\ list = "recording"
  /\ list' = "closed"
  /\ IF IsCommandBufferEmpty(m_pCurCommandBuffer)
       THEN UNCHANGED <<m_filledCommandBuffers, m_pCurCommandBuffer>>
       ELSE /\ m_filledCommandBuffers' = Append(m_filledCommandBuffers, m_pCurCommandBuffer)
            /\ m_pCurCommandBuffer' = Null
  /\ UNCHANGED <<live, recorded, rootVars, submitted>>

HeldBuffers == Len(m_filledCommandBuffers) + (IF m_pCurCommandBuffer = Null THEN 0 ELSE 1)

(* All buffers go back to the pool, and a new one is acquired from it. *)
Reset ==
  /\ list \in {"created", "closed"}
  /\ m_filledCommandBuffers' = << >>
  /\ recorded' = << >>
  /\ \/ /\ m_pCurCommandBuffer' = NewCommandBuffer
        /\ live' = live - HeldBuffers + 1
        /\ list' = "recording"
     \/ /\ m_pCurCommandBuffer' = Null                    \* E_OUTOFMEMORY
        /\ live' = live - HeldBuffers
        /\ list' = "removed"
  /\ args' = << >>
  /\ submitted' = << >>
  /\ UNCHANGED <<m_pRootSignature, m_rootValues, m_pDescriptors>>

(* ExecuteCommandLists of the queue.  A buffer that the kernel refuses is  *)
(* left out and the next ones are submitted.                               *)
Execute(refused) ==
  /\ list = "closed"
  /\ refused \subseteq DOMAIN m_filledCommandBuffers
  /\ submitted' =
       FlattenSeq([i \in DOMAIN m_filledCommandBuffers |->
                     IF IsCommandBufferEmpty(m_filledCommandBuffers[i])
                       THEN << >> ELSE DdiRender(m_filledCommandBuffers[i], i \in refused)])
  /\ UNCHANGED <<listVars, rootVars>>

Next ==
  \/ \E sig \in Signatures : SetRootSignature(sig)
  \/ \E i \in Parameters(m_pRootSignature) :
       \E value \in Arguments(m_pRootSignature[i]) : SetRootArgument(i, value)
  \/ \E dst, src \in Allocations : dst # src /\ ResourceCopy(dst, src)
  \/ \E shader \in ShaderSizes : Dispatch(shader)
  \/ \E descriptors \in TensorBindings : ExecuteMlMetaCommand(descriptors)
  \/ \E d \in 0 .. HeapSize - 1, a \in Allocations : CreateView(d, a)
  \/ Close \/ Reset
  \/ \E refused \in SUBSET DOMAIN m_filledCommandBuffers : Execute(refused)

Spec == Init /\ [][Next]_vars

-----------------------------------------------------------------------------
(* Properties. *)

CommandBuffers ==
  IF m_pCurCommandBuffer = Null
    THEN m_filledCommandBuffers ELSE Append(m_filledCommandBuffers, m_pCurCommandBuffer)

(* The variables range over what their names say; every allocation list    *)
(* names allocations, each once.                                           *)
TypeOK ==
  /\ list \in {"created", "recording", "closed", "removed", "crashed"}
  /\ m_pRootSignature \in Signatures
  /\ m_pDescriptors \in [0 .. HeapSize - 1 -> Allocations]
  /\ DOMAIN m_rootValues = RootValueWords
  /\ DOMAIN args \subseteq Parameters(m_pRootSignature)
  /\ Len(recorded) \in 0 .. MaxCommands
  /\ \A i \in DOMAIN CommandBuffers :
       /\ CommandBuffers[i].pos \in Nat
       /\ ToSet(CommandBuffers[i].allocs) \subseteq Allocations
       /\ IsInjective(CommandBuffers[i].allocs)

(* Wherever a command ends up, the engine finds it, and in each of its     *)
(* registers and address fields the allocation that the application bound  *)
(* to it when it recorded the command; the kernel driver writes no address *)
(* anywhere else.  The word offsets of the root arguments, the sizes of    *)
(* the register tables and of the commands, the offsets into the command   *)
(* buffer and the indices into its allocation list agree, in two drivers.  *)
PatchesNameTheirAllocation ==
  \A i \in DOMAIN CommandBuffers :
    LET b == CommandBuffers[i]
        done == Processed(b)
    IN
    /\ ValidateDmaBuffer(b)
    /\ done = [c \in DOMAIN b.cmds |->
                 [id |-> b.cmds[c].id, found |-> recorded[b.cmds[c].id].expected]]
    /\ Cardinality(DOMAIN PatchDmaBuffer(b)) =
         Total([c \in DOMAIN done |-> Cardinality(done[c].found)])

(* No list of a command buffer and not the array of filled buffers is      *)
(* overrun, whatever the mix of commands: the reservation counts enough of *)
(* each, and the thresholds stay free behind what was written.  The        *)
(* assertions made after each commit ask for more: CommitAssertions.       *)
ListsWithinBuffer ==
  /\ \A i \in DOMAIN CommandBuffers :
       /\ CommandBuffers[i].pos + COMMAND_BUFFER_FLUSH_THRESHOLD <= CommandBufferSize
       /\ Len(CommandBuffers[i].allocs) + LIST_FLUSH_THRESHOLD <= AllocationListSize
       /\ Len(CommandBuffers[i].patches) + LIST_FLUSH_THRESHOLD <= PatchLocationListSize
  /\ Len(m_filledCommandBuffers) <= MaxCommandBuffers

(* No command buffer is held twice, so that Reset releases each once, and  *)
(* none that was acquired is forgotten while the list lives.               *)
BuffersAccountedFor == live = HeldBuffers

(* The buffers of the list hold what was recorded, all of it and in order, *)
(* hardware and software commands never in one buffer, whose header tells  *)
(* the kernel driver how to read it; and what an execution submits is in   *)
(* that order, whatever is refused.                                        *)
RecordedInOrder ==
  /\ FlattenSeq([i \in DOMAIN CommandBuffers |->
                   [c \in DOMAIN CommandBuffers[i].cmds |-> CommandBuffers[i].cmds[c].id]])
       = [n \in DOMAIN recorded |-> n]
  /\ \A i \in DOMAIN CommandBuffers : \A c \in DOMAIN CommandBuffers[i].cmds :
       recorded[CommandBuffers[i].cmds[c].id].sw = CommandBuffers[i].sw
  /\ \A i, j \in DOMAIN submitted : i < j => submitted[i].id < submitted[j].id

-----------------------------------------------------------------------------
(* The assertions of CommitCommandBufferSpace and UseAllocation, which do  *)
(* not hold: more than the threshold is free in each list, where the       *)
(* reservation is content with the threshold.                              *)
CommitAssertions ==
  \A i \in DOMAIN CommandBuffers :
    /\ CommandBuffers[i].pos + COMMAND_BUFFER_FLUSH_THRESHOLD < CommandBufferSize
    /\ Len(CommandBuffers[i].allocs) + LIST_FLUSH_THRESHOLD < AllocationListSize
    /\ Len(CommandBuffers[i].patches) + LIST_FLUSH_THRESHOLD < PatchLocationListSize
=============================================================================
