----------------------------- MODULE MCVc4Pipeline -----------------------------
\* Single instructions on operands of every kind and with every modifier,
\* straight and crossed; and pairs of shaders with several declarations.
EXTENDS Vc4Pipeline

Straight == [c \in 0 .. 3 |-> c]
Crossed == [c \in 0 .. 3 |-> IF c = 0 THEN 1 ELSE 0]

Op(kind, index, swizzle, modifier) ==
    [kind |-> kind, index |-> index, swizzle |-> swizzle, modifier |-> modifier]
Instr(op, kind, index, mask, src) ==
    [op |-> op, dst |-> [kind |-> kind, index |-> index], mask |-> mask, src |-> src]
Texture(index) == Op("texture", index, Straight, "none")

MCOperands ==
    {Op("temp", 0, Straight, "none"), Op("temp", 0, Crossed, "none"),
     Op("temp", 1, Straight, "absneg"), Op("temp", 1, Crossed, "neg"),
     Op("input", 0, Straight, "none"), Op("input", 0, Crossed, "abs"),
     Op("constant", 0, Straight, "none"), Op("constant", 1, Crossed, "neg"),
     Op("immediate", 0, Crossed, "none")}

MCMasks == {{0}, {0, 1}, {1, 3}}

PixelShader(inputs, depth, body) ==
    [type |-> "PS", inputs |-> inputs, outputs |-> << Components >>, position |-> -1,
     linked |-> <<>>, depth |-> depth, body |-> body]
VertexShader(inputs, outputs, position, linked, body) ==
    [type |-> "VS", inputs |-> inputs, outputs |-> outputs, position |-> position,
     linked |-> linked, depth |-> FALSE, body |-> body]

\* A third operand is set up like a first one: three kinds of it.
Thirds ==
    {Op("temp", 0, Crossed, "none"), Op("input", 0, Crossed, "abs"),
     Op("constant", 1, Crossed, "neg")}
Arithmetic ==
    UNION {{<<op, src>> : src \in [1 .. Arity[op] -> MCOperands]} :
           op \in {"mov", "add", "min", "mul", "dp2", "dp4"}}
    \cup {<<"mad", src>> : src \in {s \in [1 .. 3 -> MCOperands] : s[3] \in Thirds}}
Samples ==
    {<<"sample", <<coordinate, Texture(n)>> >> : n \in 0 .. 1,
         coordinate \in {o \in MCOperands : o.kind \in {"temp", "input"} /\ o.modifier = "none"}}

MCPixelShaders ==
    {PixelShader(<< Components >>, FALSE, << Instr(a[1], kind, 0, mask, a[2]) >>) :
         a \in Arithmetic, kind \in {"temp", "output"}, mask \in MCMasks}
    \cup {PixelShader(<< Components >>, TRUE,
                      << Instr(a[1], kind, 0, Components, a[2]) >>) :
              a \in Samples, kind \in {"temp", "output"}}

-----------------------------------------------------------------------------
(* Pairs *)

Wrapped == [c \in 0 .. 3 |-> c % 2]
In(r) == Op("input", r, Wrapped, "none")
Const(k) == Op("constant", k, Straight, "none")

\* A transformation by four rows of constants, or a plain copy.
ToPosition(r, transformed) ==
    IF transformed
    THEN [c \in 1 .. 4 |-> Instr("dp4", "output", r, {c - 1}, <<In(0), Const(c - 1)>>)]
    ELSE << Instr("mov", "output", r, Components, <<In(0)>>) >>

\* The other outputs, each by another operation.
ToVarying(r, mask) ==
    CASE r = 0 -> << Instr("mov", "output", r, mask, <<In(1)>>) >>
      [] r = 1 -> << Instr("mul", "output", r, mask, <<In(1), Const(4)>>) >>
      [] r = 2 -> << Instr("iadd", "temp", 0, mask, <<In(0), In(1)>>),
                     Instr("max", "output", r, mask,
                           <<Op("temp", 0, Straight, "abs"), In(0)>>) >>
      [] OTHER -> << Instr("mad", "output", r, mask, <<In(1), Const(5), In(0)>>) >>

MCVertexShader(outputs, position, transformed, linked) ==
    VertexShader(<< {0, 1, 2}, {0, 1} >>, outputs, position, linked,
        FlattenSeq([k \in DOMAIN outputs |->
            IF k - 1 = position THEN ToPosition(k - 1, transformed)
            ELSE ToVarying(k - 1, outputs[k])]))

\* The pixel shader reads all components of an output, or some, or none.
Parts(outputs, position) ==
    {part \in [DOMAIN outputs -> {{}, {1}, {0, 1}, {0, 1, 2}, Components}] :
        /\ part[position + 1] = {}
        /\ \E k \in DOMAIN part : part[k] # {}
        /\ \A k \in DOMAIN part : part[k] \subseteq outputs[k]}

\* The color is the first input; alpha is the last one.
MCPixelShader(inputs) ==
    LET Read(k) == Op("input", k - 1, [c \in 0 .. 3 |-> CHOOSE d \in inputs[k] :
                          c \in inputs[k] => d = c], "none")
        used == {k \in DOMAIN inputs : inputs[k] # {}}
        first == CHOOSE k \in used : \A j \in used : k <= j
        last == CHOOSE k \in used : \A j \in used : j <= k
    IN PixelShader(inputs, FALSE,
                   << Instr("mov", "output", 0, {0, 1, 2}, <<Read(first)>>),
                      Instr("mul", "output", 0, {3}, <<Read(last), Const(0)>>) >>)

MCOutputs ==
    UNION {[1 .. n -> {{0, 1}, {0, 1, 2}, Components}] : n \in 2 .. 3}
    \cup { << {0, 1, 2}, {0, 1}, {0, 1, 2}, Components >> }

Placed ==
    {<<outputs, position>> \in MCOutputs \X (0 .. 3) :
        position < Len(outputs) /\ outputs[position + 1] = Components}

MCPairs ==
    UNION {{[vs |-> MCVertexShader(p[1], p[2], transformed, part),
             ps |-> MCPixelShader(part),
             layout |-> << [register |-> 0, words |-> 3], [register |-> 1, words |-> 2] >>] :
                part \in Parts(p[1], p[2])} :
           p \in Placed, transformed \in BOOLEAN}
=============================================================================
