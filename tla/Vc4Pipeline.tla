------------------------------ MODULE Vc4Pipeline ------------------------------
(***************************************************************************)
(* A vertex shader and a pixel shader, translated together, and the three  *)
(* programs made of them run one after the other: the vertex shader (VS),  *)
(* the coordinate shader (CS) and the pixel shader (PS), which receives    *)
(* the varyings that VS left in the vertex pipe memory.  The driver lays   *)
(* out the words of the vertex and writes the uniforms of each program     *)
(* (rosumd/RosUmdDevice.cpp).                                              *)
(***************************************************************************)
EXTENDS Vc4Qpu, Vc4ShaderTranslate

CONSTANTS
    PixelShaders,       \* pixel shaders run alone, on any varyings
    Pairs               \* vertex and pixel shaders that follow each other, and
                        \* the layout of the vertex: its elements in order

AnyOperand ==
    [kind : {"temp", "input", "constant", "immediate", "texture"}, index : 0 .. 7,
     swizzle : [Components -> Components], modifier : {"none", "neg", "abs", "absneg"}]

\* What Direct3D guarantees of a shader.
IsInstruction(i) ==
    /\ i.op \in DOMAIN Arity
    /\ i.dst.kind \in {"temp", "output"}
    /\ i.mask # {} /\ i.mask \subseteq Components
    /\ DOMAIN i.src = 1 .. Arity[i.op]
    /\ \A k \in DOMAIN i.src :
           /\ i.src[k] \in AnyOperand
           /\ i.src[k].kind = "texture" <=> (i.op = "sample" /\ k = 2)
           /\ i.src[k].kind = "immediate" => i.src[k].modifier = "none"
    /\ i.op = "sample" => i.mask = Components

IsShader(sh) ==
    /\ sh.type \in {"VS", "PS"} /\ sh.depth \in BOOLEAN
    /\ \A k \in DOMAIN sh.body :
           /\ IsInstruction(sh.body[k])
           /\ sh.body[k].op = "iadd" => sh.type = "VS"
           /\ sh.body[k].op = "sample" => sh.type = "PS"
    /\ sh.type = "VS" => sh.position \in 0 .. Len(sh.outputs) - 1

ASSUME PixelShadersAssumption == \A sh \in PixelShaders : IsShader(sh) /\ sh.type = "PS"
ASSUME PairsAssumption ==
    \A p \in Pairs :
        /\ IsShader(p.vs) /\ p.vs.type = "VS" /\ IsShader(p.ps) /\ p.ps.type = "PS"
        /\ p.vs.linked = p.ps.inputs
        /\ Slots(p.ps.inputs) \subseteq Slots(p.vs.outputs)

VARIABLES
    pair,       \* the shaders; the vertex shader is absent for a pixel shader alone
    stage,      \* the program that runs: "VS", "CS" or "PS"
    varyings    \* what the rasterizer gives to the pixel shader

vars == <<qpuVars, pair, stage, varyings>>

Alone == pair.layout = <<>>

-----------------------------------------------------------------------------
(* The driver *)

\* The words of a vertex, elements one behind the other.
VertexWords(layout) ==
    FlattenSeq([k \in DOMAIN layout |->
        [c \in 1 .. layout[k].words |-> <<"element", layout[k].register, c - 1>>]])

\* The word written for a uniform reference: a constant is one of the pixel
\* shader or, for both programs of a vertex, of the vertex shader.
WriteUniforms(references, bPSUniform) ==
    [k \in DOMAIN references |->
        IF references[k][1] = "user"
        THEN <<"constant", IF bPSUniform THEN "ps" ELSE "vs", references[k][2]>>
        ELSE references[k]]

Translation(program) ==
    IF program = "PS" THEN Translate_PS(pair.ps) ELSE Translate_VS(pair.vs, program = "VS")
References(program) == Translation(program).uniforms

\* The uniforms of the three programs lie behind each other in the command
\* buffer, each at an offset computed from the number of references.
Programs == IF Alone THEN <<"PS">> ELSE <<"PS", "VS", "CS">>
Uniforms ==
    FlattenSeq([k \in DOMAIN Programs |->
        WriteUniforms(References(Programs[k]), Programs[k] = "PS")])

Preceding == [PS |-> <<>>, VS |-> <<"PS">>, CS |-> <<"PS", "VS">>]

\* mutant
UniformOffsetWithoutPS(program) ==
    IF program = "CS" THEN Len(References("VS")) ELSE 0

UniformOffset(program) ==
    Len(FlattenSeq([k \in DOMAIN Preceding[program] |-> References(Preceding[program][k])]))

-----------------------------------------------------------------------------
(* The programs *)

Init ==
    /\ \/ \E sh \in PixelShaders :
              /\ pair = [ps |-> sh, layout |-> <<>>]
              /\ stage = "PS"
              /\ varyings = [k \in 1 .. Cardinality(Slots(sh.inputs)) |-> <<"varying", k - 1>>]
       \/ /\ pair \in Pairs
          /\ stage = "VS"
          /\ varyings = <<>>
    /\ code = <<>> /\ words = <<>> /\ pc = 0 /\ read = 0
    /\ ra = <<>> /\ rb = <<>> /\ acc = <<>> /\ wait = 0 /\ fresh = {}
    /\ queue = <<>> /\ vpm = <<>> /\ tmu = <<>> /\ tlb = <<>> /\ locked = FALSE

Temps == {TempAddr(index, c) : index \in 0 .. 1, c \in Components}
Initially(a) ==
    CASE a \in Temps -> <<"temp", (a - TempStart) \div 4, (a - TempStart) % 4>>
      [] A(a) = PixelW -> IF stage = "PS" THEN <<"w">> ELSE Hazard
      [] OTHER -> Hazard

\* The bytes of B8G8R8A8 are blue, green, red, alpha.
ChannelOfByte == IF SwappedTarget THEN <<2, 1, 0, 3>> ELSE <<0, 1, 2, 3>>

OldColor ==
    [n \in 1 .. 5 |-> IF n = 1 THEN "bytes" ELSE <<"color", ChannelOfByte[n - 1]>>]

Start ==
    /\ pc = 0
    /\ code' = Translation(stage).code
    /\ words' = SubSeq(Uniforms, UniformOffset(stage) + 1, Len(Uniforms))
    /\ pc' = 1 /\ read' = 0
    /\ ra' = [a \in InputStart .. InputStart + 15 \cup Temps |-> Initially(a)]
    /\ rb' = [b \in 15 .. 31 |->
                 CASE stage = "PS" /\ B(b) = PixelZ -> <<"z">>
                   [] stage = "PS" /\ B(b) = Color -> OldColor
                   [] OTHER -> Hazard]
    /\ acc' = [n \in 0 .. 5 |-> Hazard]
    /\ wait' = 0 /\ fresh' = {} /\ vpm' = <<>> /\ tmu' = <<>> /\ locked' = FALSE
    /\ queue' = IF stage = "PS" THEN varyings ELSE VertexWords(pair.layout)
    /\ tlb' = [u \in {"c", "z"} |-> Nothing]
    /\ UNCHANGED <<pair, stage, varyings>>

Run == Execute /\ UNCHANGED <<pair, stage, varyings>>

\* The vertex shader leaves three words, then the varyings, as many of which
\* as the pixel shader has inputs are interpolated.
Continue ==
    /\ Done /\ stage # "PS"
    /\ stage' = IF stage = "VS" THEN "CS" ELSE "PS"
    /\ varyings' = IF stage = "VS" THEN Prefix(SubSeq(vpm, 4, Len(vpm)),
                                     Cardinality(Slots(pair.ps.inputs)))
                   ELSE varyings
    /\ pc' = 0
    /\ UNCHANGED <<code, words, read, ra, rb, acc, wait, fresh, queue, vpm, tmu, tlb,
                   locked, pair>>

Next == Start \/ Run \/ Continue
Spec == Init /\ [][Next]_vars

-----------------------------------------------------------------------------
(* What a shader means: its instructions one after the other, each of which *)
(* reads all its sources before it writes a component.                     *)

Numeral(o, c) == <<"number", o.swizzle[c]>>
ConstantOf(sh, o, c) ==
    <<"constant", IF sh.type = "PS" THEN "ps" ELSE "vs", 4 * o.index + o.swizzle[c]>>

\* Component c of an operand; env holds the registers.
Operand(sh, env, o, c) ==
    LET plain == CASE o.kind \in {"temp", "input"} -> env[<<o.kind, o.index, o.swizzle[c]>>]
                   [] o.kind = "constant" -> ConstantOf(sh, o, c)
                   [] o.kind = "immediate" -> Numeral(o, c)
    IN CASE o.modifier = "none" -> plain
         [] o.modifier = "neg" -> Neg(plain)
         [] o.modifier = "abs" -> Abs(plain)
         [] o.modifier = "absneg" -> Neg(Abs(plain))

Channel(texture, c) == IF texture \in SwappedTextures /\ c # 3 THEN 2 - c ELSE c

Meaning(sh, env, i, c) ==
    LET Arg(k, d) == Operand(sh, env, i.src[k], d)
        Product(d) == <<"fmul", Arg(1, d), Arg(2, d)>>
    IN CASE i.op = "mov" -> Arg(1, c)
         [] i.op = "mul" -> Product(c)
         [] i.op \in DOMAIN AddPipe -> <<AddPipe[i.op], Arg(1, c), Arg(2, c)>>
         [] i.op = "mad" -> <<"fadd", Product(c), Arg(3, c)>>
         [] i.op \in DOMAIN Terms ->
                FoldLeft(LAMBDA sum, k : <<"fadd", sum, Product(k)>>, Product(0),
                         [k \in 1 .. Terms[i.op] - 1 |-> k])
         [] i.op = "sample" ->
                <<"byte", Channel(i.src[2].index, c),
                  <<"texel", Arg(1, 0), Arg(1, 1),
                    << <<"P0", i.src[2].index>>, <<"P1", i.src[2].index>> >> >> >>

Step(sh, env, i) ==
    [r \in DOMAIN env |->
        IF r[1] = i.dst.kind /\ r[2] = i.dst.index /\ r[3] \in i.mask
        THEN Meaning(sh, env, i, r[3]) ELSE env[r]]

\* The registers at the end of a shader, from the given inputs.
Evaluate(sh, In(_, _)) ==
    FoldLeft(LAMBDA env, i : Step(sh, env, i),
             [r \in {"temp", "input", "output"} \X (0 .. 7) \X Components |->
                 IF r[1] = "input" THEN In(r[2], r[3])
                 ELSE IF r[1] = "temp" THEN r ELSE <<"color", r[3]>>],
             sh.body)

VertexEnd == Evaluate(pair.vs, LAMBDA r, c : <<"element", r, c>>)

\* Input r, c of the pixel shader is output r, c of the vertex shader,
\* interpolated.
Interpolated(t) == <<"fadd", <<"fmul", <<"slope", t>>, <<"w">> >>, <<"offset", t>> >>
PixelInput(r, c) ==
    Interpolated(IF Alone THEN <<"varying", Index(pair.ps.inputs, <<r, c>>)>>
                 ELSE VertexEnd[<<"output", r, c>>])
PixelEnd == Evaluate(pair.ps, PixelInput)

-----------------------------------------------------------------------------
(* Where the translation is at its limits *)

Shaders == IF Alone THEN {pair.ps} ELSE {pair.vs, pair.ps}
Some(P(_)) == \E sh \in Shaders : \E k \in DOMAIN sh.body : P(sh.body[k])

\* Two constants in one operation: both are read by one QPU instruction, or
\* in the other order.
TwoConstants(i) ==
    Len(i.src) > 1 /\ i.src[1].kind = "constant" /\ i.src[2].kind = "constant"

\* A component is read after it was written for an earlier one.
ReadsWhatItWrote(i) ==
    /\ i.dst.kind = "temp" /\ i.op \notin DOMAIN Terms \cup {"sample"}
    /\ \E k \in DOMAIN i.src, c, d \in i.mask :
           /\ c < d
           /\ i.src[k].kind = "temp" /\ i.src[k].index = i.dst.index
           /\ i.src[k].swizzle[d] = c

\* A dot product whose first operand needs r1, where the products go.
DotProductNeedsR1(i) ==
    i.op \in DOMAIN Terms /\ (i.src[1].kind = "immediate" \/ i.src[1].modifier # "none")

\* A source of an integer operation is negated as a float.
IntegerModified(i) ==
    i.op = "iadd" /\ \E k \in DOMAIN i.src : i.src[k].modifier # "none"

\* Each element has the words of one input register, in the order of these.
LayoutMatches ==
    /\ Len(pair.layout) = Len(pair.vs.inputs)
    /\ \A k \in DOMAIN pair.layout :
           /\ pair.layout[k].register = k - 1
           /\ pair.vs.inputs[k] = 0 .. pair.layout[k].words - 1

Within ==
    /\ ~ Some(TwoConstants) /\ ~ Some(ReadsWhatItWrote)
    /\ ~ Some(DotProductNeedsR1) /\ ~ Some(IntegerModified)
    /\ Alone \/ (LayoutMatches /\ PositionFound(pair.vs))

-----------------------------------------------------------------------------
(* Properties *)

\* The types of the variables.
TypeOK ==
    /\ stage \in {"VS", "CS", "PS"}
    /\ pc \in 0 .. Len(code) + 1
    /\ read \in Nat /\ wait \in 0 .. 2
    /\ locked \in BOOLEAN

ComputesPixel ==
    /\ \A n \in Components :
           ByteOf(tlb["c"], n) = PixelEnd[<<"output", 0, ChannelOfByte[n + 1]>>]
    /\ tlb["z"] = IF pair.ps.depth THEN <<"z">> ELSE Nothing
    /\ \A index \in 0 .. 1, c \in Components :
           ra[TempAddr(index, c)] = PixelEnd[<<"temp", index, c>>]

\* A pixel shader writes to the tile buffer what its instructions mean, for
\* every operation, mask, swizzle, modifier and texture format, on the
\* interpolated outputs of the vertex shader of the same register and
\* component; it changes no other temporary, reads every uniform and varying,
\* and gives the scoreboard back.  The limits stated above are outside.
PixelComputed ==
    Done /\ stage = "PS" /\ Within
    => ComputesPixel /\ read = Len(References(stage)) /\ queue = <<>> /\ ~ locked

Position(c) == VertexEnd[<<"output", pair.vs.position, c>>]
RecipW == <<"recip", Position(3)>>
OnScreen(n) ==
    <<"ftoi", <<"fmul", <<"fmul", Position(n), RecipW>>, <<"viewport", n>> >> >>
ScreenWords ==
    << <<"halves", OnScreen(0), OnScreen(1)>>, <<"fmul", Position(2), RecipW>>, RecipW >>

\* What the rasterizer and the binner find in the vertex pipe memory is the
\* position the vertex shader means, divided by W and scaled to the viewport
\* once, in the format of each; every uniform and every word of the vertex
\* is read.
VertexComputed ==
    Done /\ stage # "PS" /\ Within
    => /\ IF stage = "VS" THEN Prefix(vpm, 3) = ScreenWords
          ELSE vpm = [n \in 1 .. 4 |-> Position(n - 1)] \o ScreenWords
       /\ read = Len(References(stage)) /\ queue = <<>>

\* "r1/2 - temporary for source setup. r1 = src1, r2 = src2": an operand set
\* up in r1 reaches the operation, in a dot product as elsewhere.
DotProductComputed ==
    Done /\ stage = "PS" /\ Some(DotProductNeedsR1) /\ ~ Some(TwoConstants) => ComputesPixel

\* The position is found among the outputs of a vertex shader, wherever it is.
PositionIsFound == pc = 0 /\ ~ Alone => PositionFound(pair.vs)
=============================================================================
