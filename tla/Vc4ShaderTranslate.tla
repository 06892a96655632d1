-------------------------- MODULE Vc4ShaderTranslate --------------------------
(***************************************************************************)
(* The translation of HLSL shaders to QPU programs                         *)
(* (roscompiler/Vc4Shader.cpp, Vc4Shader.hpp).  One HLSL instruction works *)
(* on up to four components at once; the QPU code for it does one          *)
(* component after the other, through two source registers (r1, r2), one   *)
(* read port for each register file and a stream of uniforms that every    *)
(* read advances.                                                          *)
(*                                                                         *)
(* A shader is a record: its type ("VS", "PS"), the components of each     *)
(* input and output register it declares, the output register that holds   *)
(* the position, the output components the next shader reads (linked),     *)
(* whether the pixel's depth is written, and its instructions (body).      *)
(***************************************************************************)
EXTENDS Vc4Emit

CONSTANTS
    SwappedTarget,      \* the render target is B8G8R8A8, not R8G8B8A8
    SwappedTextures     \* the textures that are B8G8R8A8

Components == 0 .. 3

ASSUME SwappedTargetAssumption == SwappedTarget \in BOOLEAN
ASSUME SwappedTexturesAssumption == SwappedTextures \subseteq 0 .. 15

-----------------------------------------------------------------------------
(* Registers (HLSL_ParseDecl) *)

InputStart == 0         \* ROS_VC4_INPUT_REGISTER_FILE_START
TempStart == 16         \* ROS_VC4_TEMP_REGISTER_FILE_START
OutputStart == 16       \* ROS_VC4_OUTPUT_REGISTER_FILE_START
PixelW == A(15)         \* reserved, in a pixel shader
PixelZ == B(15)

\* Register r, component c of a list of masks; registers are declared in order.
Slots(masks) == UNION {{r} \X masks[r + 1] : r \in 0 .. Len(masks) - 1}
Before(s1, s2) == s1[1] < s2[1] \/ (s1[1] = s2[1] /\ s1[2] < s2[2])
Index(masks, slot) == Cardinality({s \in Slots(masks) : Before(s, slot)})
InOrder(slots) ==
    [k \in 1 .. Cardinality(slots) |->
        CHOOSE s \in slots : Cardinality({t \in slots : Before(t, s)}) = k - 1]

TempAddr(index, c) == TempStart + 4 * index + c
InputRegister(sh, r, c) == A(InputStart + Index(sh.inputs, <<r, c>>))

\* The position has all four components, whatever its declaration says.
OutputMasks(sh) ==
    [k \in DOMAIN sh.outputs |-> IF k - 1 = sh.position THEN Components ELSE sh.outputs[k]]

\* The components of a pixel's color are packed in one register.
Packed(sh, i) == sh.type = "PS" /\ i.dst.kind = "output"
Color == B(OutputStart)
OutputRegister(sh, r, c) ==
    IF sh.type = "PS" THEN Color ELSE B(OutputStart + Index(OutputMasks(sh), <<r, c>>))

-----------------------------------------------------------------------------
(* Sources (Find_Vc4Register_M, Find_Vc4Register_I, Setup_SourceRegisters).  *)
(* An operand names a register, which component of it each component of    *)
(* the instruction reads, and a modifier.                                  *)

\* The register of component c of operand o.
Find(sh, o, c) ==
    CASE o.kind = "temp" -> A(TempAddr(o.index, o.swizzle[c]))
      [] o.kind = "input" -> InputRegister(sh, o.index, o.swizzle[c])
      [] o.kind = "constant" -> A(UNIFORM)
      [] o.kind = "immediate" -> Immediate(<<"number", o.swizzle[c]>>)

\* The uniform reference recorded when the operand is looked up.
Reference(o, c) ==
    IF o.kind = "constant" THEN << <<"user", 4 * o.index + o.swizzle[c]>> >>
    ELSE <<>>

Modifier_Abs(dst, src) == OnAdd("fmaxabs", dst, <<src, SmallZero>>)
Modifier_Negate(dst, src) ==
    OnMul("mov", dst, <<Immediate(<<"number", -1>>)>>) \o OnMul("fmul", dst, <<src, dst>>)

Resolve_Modifier(modifier, rX, src) ==
    CASE modifier = "none" -> <<>>
      [] modifier = "neg" -> Modifier_Negate(rX, src)
      [] modifier = "abs" -> Modifier_Abs(rX, src)
      [] modifier = "absneg" -> Modifier_Abs(R(0), src) \o Modifier_Negate(rX, R(0))

\* Setting up sources gives code, the uniforms it reads and the registers
\* where the operation finds the sources; the operation follows.
Using(setup, Op(_)) ==
    [code |-> setup.code \o Op(setup.src), uniforms |-> setup.uniforms]

\* An immediate or modified operand is brought to rX.
BringTo(rX, o, found) ==
    IF o.kind = "immediate" THEN OnMul("mov", rX, <<found>>)
    ELSE Resolve_Modifier(o.modifier, rX, found)

\* rX is r1 for t = 0, r2 for t = 1.
Setup_SourceRegister(sh, o, t, c) ==
    [code |-> BringTo(R(1 + t), o, Find(sh, o, c)),
     uniforms |-> Reference(o, c),
     src |-> IF o.kind = "immediate" \/ o.modifier # "none" THEN <<R(1 + t)>>
             ELSE <<Find(sh, o, c)>>]

OtherFile(reg) == [reg EXCEPT !.mux = IF @ = "A" THEN "B" ELSE "A"]

\* Two registers of one file do not fit its read port: a uniform is read
\* through the other file, else the second register is copied to r2.
SeparatePorts(s1, s2) ==
    CASE s1.mux # s2.mux \/ s1.mux # "A" \/ s1.addr = s2.addr ->
             [code |-> <<>>, src |-> <<s1, s2>>]
      [] s1.addr = UNIFORM -> [code |-> <<>>, src |-> <<OtherFile(s1), s2>>]
      [] s2.addr = UNIFORM -> [code |-> <<>>, src |-> <<s1, OtherFile(s2)>>]
      [] OTHER -> [code |-> OnMul("mov", R(2), <<s2>>), src |-> <<s1, R(2)>>]

Both(s1, s2) ==
    LET ports == SeparatePorts(s1.src[1], s2.src[1])
    IN [code |-> s1.code \o s2.code \o ports.code,
        uniforms |-> s1.uniforms \o s2.uniforms,
        src |-> ports.src]

SetupPair(sh, o1, o2, c) ==
    Both(Setup_SourceRegister(sh, o1, 0, c), Setup_SourceRegister(sh, o2, 1, c))

-----------------------------------------------------------------------------
(* Emit_Mov, Emit_with_Mul_pipe, Emit_with_Add_pipe, Emit_Mad, Emit_DPx *)

\* Red and blue change places in a swapped target, alpha stays.
GetPack(c) == Pack8(IF SwappedTarget /\ c # 3 THEN 2 - c ELSE c)

Destination(sh, i, c) ==
    IF i.dst.kind = "output" THEN OutputRegister(sh, i.dst.index, c)
    ELSE A(TempAddr(i.dst.index, c))

OnMulTo(sh, i, c, op, src) ==
    OnMulPacked(op, Destination(sh, i, c), src, IF Packed(sh, i) THEN GetPack(c) ELSE Pack32)

\* Only the mul pipe packs: a packed sum goes through r3.
AddThenPack(sh, i, c, op, src) ==
    IF Packed(sh, i) THEN OnAdd(op, R(3), src) \o OnMulTo(sh, i, c, "mov", <<R(3)>>)
    ELSE OnAdd(op, Destination(sh, i, c), src)

Emit_Mov(sh, i, c) ==
    Using(Setup_SourceRegister(sh, i.src[1], 0, c),
          LAMBDA src : OnMulTo(sh, i, c, "mov", src))

Emit_with_Mul_pipe(sh, i, c) ==
    Using(SetupPair(sh, i.src[1], i.src[2], c), LAMBDA src : OnMulTo(sh, i, c, "fmul", src))

AddPipe == [add |-> "fadd", max |-> "fmax", min |-> "fmin", iadd |-> "iadd"]

Emit_with_Add_pipe(sh, i, c) ==
    Using(SetupPair(sh, i.src[1], i.src[2], c),
          LAMBDA src : AddThenPack(sh, i, c, AddPipe[i.op], src))

InAll(parts) ==
    [code |-> FlattenSeq([k \in DOMAIN parts |-> parts[k].code]),
     uniforms |-> FlattenSeq([k \in DOMAIN parts |-> parts[k].uniforms])]

\* The product waits in r3 while the third source is set up.
Emit_Mad(sh, i, c) ==
    InAll(<< Using(SetupPair(sh, i.src[1], i.src[2], c), LAMBDA src : OnMul("fmul", R(3), src)),
             Using(Setup_SourceRegister(sh, i.src[3], 0, c),
                   LAMBDA src : AddThenPack(sh, i, c, "fadd", <<R(3)>> \o src)) >>)

Accumulate == Pipe("fadd", R(3), <<R(3), R(1)>>)
Terms == [dp2 |-> 2, dp3 |-> 3, dp4 |-> 4]

\* Product k goes to r1; product k - 1 is added to r3 by the same instruction.
Term(sh, i, k) ==
    Using(SetupPair(sh, i.src[1], i.src[2], k - 1),
          LAMBDA src : << Inst(IF k = 1 THEN NoOp ELSE Accumulate, Pipe("fmul", R(1), src)) >>)

\* The sum is written to every component of the mask.
Emit_DPx(sh, i, order) ==
    [InAll([k \in 1 .. Terms[i.op] |-> Term(sh, i, k)]) EXCEPT
        !.code = OnMul("mov", R(3), <<SmallZero>>) \o @ \o << Inst(Accumulate, NoOp) >>
                 \o FlattenSeq([k \in DOMAIN order |->
                        OnMulTo(sh, i, order[k], "mov", <<R(3)>>)])]

-----------------------------------------------------------------------------
(* Emit_Sample, of a texture of two dimensions (rosumd creates no others).  *)
(* The first operand is the coordinate, the second the texture.            *)

LoadTmu == Signal(NOP, "ldtmu")

\* t first; s, written last, starts the fetch.
WriteCoordinates(sh, o) ==
    OnAdd("mov", Unit("tmu_t"), <<Find(sh, o, 1)>>)
    \o OnAdd("mov", Unit("tmu_s"), <<Find(sh, o, 0)>>)

SamplerReferences(texture) == << <<"P0", texture>>, <<"P1", texture>> >>

\* The texel in r4 to the color: as a word, or byte by byte when the texture
\* and the target differ in their order of channels.
TexelToColor(texture) ==
    IF (texture \in SwappedTextures) = SwappedTarget THEN OnAdd("mov", Color, <<R(4)>>)
    ELSE FlattenSeq([k \in 1 .. 4 |->
             OnMulPacked("mov", Color, <<R4Byte(k - 1)>>, Pack8(IF k = 4 THEN 3 ELSE 3 - k))])

TexelToTemp(i, texture) ==
    FlattenSeq([k \in 1 .. 4 |->
        LET c == IF texture \in SwappedTextures /\ k < 4 THEN 3 - k ELSE k - 1
        IN OnMul("mov", A(TempAddr(i.dst.index, c)), <<R4Byte(k - 1)>>)])

Emit_Sample(sh, i) ==
    LET texture == i.src[2].index
    IN [code |-> WriteCoordinates(sh, i.src[1]) \o LoadTmu
                 \o (IF i.dst.kind = "output" THEN TexelToColor(texture)
                     ELSE TexelToTemp(i, texture)),
        uniforms |-> SamplerReferences(texture)]

-----------------------------------------------------------------------------
(* A whole shader *)

\* The instructions handled here, with their number of sources.
Arity == [mov |-> 1, add |-> 2, max |-> 2, min |-> 2, iadd |-> 2, mul |-> 2, mad |-> 3,
          dp2 |-> 2, dp3 |-> 2, dp4 |-> 2, sample |-> 2]

Emit(sh, i) ==
    LET order == SetToSortSeq(i.mask, <)
        Each(op(_, _, _)) == InAll([k \in DOMAIN order |-> op(sh, i, order[k])])
        body == CASE i.op = "mov" -> Each(Emit_Mov)
                  [] i.op = "mul" -> Each(Emit_with_Mul_pipe)
                  [] i.op = "mad" -> Each(Emit_Mad)
                  [] i.op \in DOMAIN AddPipe -> Each(Emit_with_Add_pipe)
                  [] i.op \in DOMAIN Terms -> Emit_DPx(sh, i, order)
                  [] i.op = "sample" -> Emit_Sample(sh, i)
    IN [body EXCEPT !.code = @ \o NOP]

Emit_Prologue_VS(sh) ==
    LET slots == InOrder(Slots(sh.inputs))
    IN OnAdd("load", Unit("rd_setup"), <<Immediate(Len(slots))>>)
       \o OnAdd("load", Unit("wr_setup"), <<Immediate(0)>>)
       \o FlattenSeq([k \in DOMAIN slots |->
              OnAdd("mov", InputRegister(sh, slots[k][1], slots[k][2]), <<A(VPM)>>)])
       \o NOP

\* A varying is read as its slope, which W completes, and leaves its offset
\* in r5.
Emit_Prologue_PS(sh) ==
    LET slots == InOrder(Slots(sh.inputs))
    IN FlattenSeq([k \in DOMAIN slots |->
           OnMul("fmul", R(0), <<B(VARYING), PixelW>>)
           \o OnAdd("fadd", InputRegister(sh, slots[k][1], slots[k][2]), <<R(0), R(5)>>)])
       \o Signal(NOP, "sbwait")

\* Component c of the position: the search stops after as many places as
\* there are output components, four places for every register.
PositionFound(sh) == 4 * sh.position < Cardinality(Slots(OutputMasks(sh)))
PositionRegister(sh, c) ==
    IF PositionFound(sh) THEN OutputRegister(sh, sh.position, c) ELSE Unit("none")

\* mutant
LinkedAll(sh) == InOrder(Slots(OutputMasks(sh)))

\* The outputs the pixel shader reads (HLSL_Link_PS), in the order of the
\* registers.
Linked(sh) == InOrder(Slots(OutputMasks(sh)) \cap Slots(sh.linked))

ToVpm(src) == OnMul("mov", Unit("vpm"), <<src>>)

Emit_ShaderOutput_VS(sh, bVS) ==
    LET Raw == FlattenSeq([k \in 1 .. 4 |-> ToVpm(PositionRegister(sh, k - 1))])
        Recip == OnAdd("mov", Unit("recip"), <<PositionRegister(sh, 3)>>) \o NOP \o NOP
        Screen(n) == OnMul("fmul", R(n), <<PositionRegister(sh, n), R(4)>>)
                     \o OnMul("fmul", R(n), <<R(n), A(UNIFORM)>>)
        Halves(n) == << Inst(Packing(Pipe("ftoi", A(TempStart), <<R(n)>>), Pack16(n)), NoOp) >>
        Depth == OnMul("fmul", Unit("vpm"), <<PositionRegister(sh, 2), R(4)>>)
        slots == Linked(sh)
        Varyings == FlattenSeq([k \in DOMAIN slots |->
                        ToVpm(OutputRegister(sh, slots[k][1], slots[k][2]))])
    IN [code |-> (IF bVS THEN <<>> ELSE Raw) \o Recip \o Screen(0) \o Screen(1)
                 \o Halves(0) \o Halves(1) \o NOP \o ToVpm(A(TempStart))
                 \o Depth \o ToVpm(R(4)) \o (IF bVS THEN Varyings ELSE <<>>),
        uniforms |-> << <<"viewport", 0>>, <<"viewport", 1>> >>]

\* Depth and color leave at the end of a pixel shader; two more instructions
\* are executed.
Emit_Epilogue(sh) ==
    IF sh.type = "PS"
    THEN (IF sh.depth THEN OnMul("mov", Unit("z"), <<PixelZ>>) ELSE <<>>)
         \o Signal(OnAdd("mov", Unit("c"), <<Color>>), "thrend")
         \o NOP \o Signal(NOP, "sbdone")
    ELSE Signal(NOP, "thrend") \o NOP \o NOP

Body(sh) == InAll([k \in DOMAIN sh.body |-> Emit(sh, sh.body[k])])

Translate_PS(sh) ==
    [Body(sh) EXCEPT !.code = Emit_Prologue_PS(sh) \o @ \o Emit_Epilogue(sh)]

\* The vertex shader (VS) and the coordinate shader (CS), which the binner runs.
Translate_VS(sh, bVS) ==
    [InAll(<<Body(sh), Emit_ShaderOutput_VS(sh, bVS)>>) EXCEPT
        !.code = Emit_Prologue_VS(sh) \o @ \o Emit_Epilogue(sh)]
=============================================================================
