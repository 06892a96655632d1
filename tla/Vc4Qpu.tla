-------------------------------- MODULE Vc4Qpu --------------------------------
(***************************************************************************)
(* The QPU of the VC4, as the shader compiler uses it: two register files  *)
(* with one read port each, accumulators r0 to r5, a stream of uniforms    *)
(* that every read and every texture coordinate advances, the vertex pipe  *)
(* memory, the texture unit, the reciprocal unit and the tile buffer.      *)
(* What the compiler must respect and the QPU does not check gives Hazard. *)
(*                                                                         *)
(* Values are terms: tuples that start with the name of an operation.      *)
(***************************************************************************)
EXTENDS Vc4Emit

VARIABLES
    code,       \* the program
    words,      \* and its uniforms
    pc,         \* the next instruction, 0 before the start
    read,       \* uniforms read
    ra,         \* register file A
    rb,         \* register file B
    acc,        \* accumulators r0 to r5
    wait,       \* instructions until r4 holds a reciprocal
    fresh,      \* registers written by the last instruction
    queue,      \* words still to be read: of the vertex, or varyings
    vpm,        \* words written to the vertex pipe memory
    tmu,        \* coordinates written to the texture unit, with their uniforms
    tlb,        \* what was written to the tile buffer
    locked      \* this QPU holds the scoreboard

qpuVars == <<code, words, pc, read, ra, rb, acc, wait, fresh, queue, vpm, tmu, tlb, locked>>

-----------------------------------------------------------------------------
(* Terms *)

Zero == <<"zero">>
MinusOne == <<"number", -1>>
Hazard == <<"undefined">>
Nothing == <<"nothing">>
Neg(t) == <<"neg", t>>
Abs(t) == <<"abs", t>>

\* Byte n of a word.
ByteOf(word, n) == IF word[1] = "bytes" THEN word[n + 2] ELSE <<"byte", n, word>>

\* The word after a write that is packed into a part of it.
PackInto(word, pack, t) ==
    CASE pack = Pack32 -> t
      [] pack \in {Pack8(n) : n \in 0 .. 3} ->
             [n \in 1 .. 5 |-> CASE n = 1 -> "bytes"
                                 [] n > 1 /\ pack = Pack8(n - 2) -> t
                                 [] OTHER -> ByteOf(word, n - 2)]
      [] pack = Pack16(0) -> <<"halves", t, Hazard>>
      [] pack = Pack16(1) -> <<"halves", IF word[1] = "halves" THEN word[2] ELSE Hazard, t>>

\* The first n elements, or all.
Prefix(s, n) == IF n < Len(s) THEN SubSeq(s, 1, n) ELSE s

\* A texel depends on the coordinates and on the uniforms taken with them, in
\* the order in which they were taken.
Texel(writes) ==
    LET Coordinate(name) ==
            LET at == SelectInSeq(writes, LAMBDA w : w[1] = name)
            IN IF at = 0 THEN Nothing ELSE writes[at][2]
    IN <<"texel", Coordinate("tmu_s"), Coordinate("tmu_t"),
         [k \in DOMAIN writes |-> writes[k][3]]>>

\* What an ALU makes of its arguments.
Result(op, args) ==
    CASE op = "mov" -> args[1]
      [] op = "fmaxabs" -> Abs(args[1])
      [] op = "ftoi" -> <<"ftoi", args[1]>>
      [] op = "fmul" /\ args[2] = MinusOne -> Neg(args[1])
      [] op = "fadd" /\ args[1] = Zero -> args[2]
      [] OTHER -> <<op, args[1], args[2]>>

-----------------------------------------------------------------------------
(* Reads *)

FromFile(reg) == reg.mux \in {"A", "B"}
SourcesOf(q) == Range(q.add.src) \cup Range(q.mul.src)
Takes(q, addr) == \E reg \in SourcesOf(q) : FromFile(reg) /\ reg.addr = addr
Pipes(q) == {p \in {q.add, q.mul} : p.op # "nop"}
Writes(q, unit) == {p \in Pipes(q) : p.dst.mux = unit}

\* Each register file has one read port; a small immediate takes that of file
\* B (what Vc4_a_Inst and Vc4_m_Inst assert, for both pipes together).
PortsSuffice(q) ==
    \A r1, r2 \in SourcesOf(q) :
        /\ r1.mux = r2.mux /\ FromFile(r1) => r1 = r2
        /\ ~ (r1.mux = "small" /\ r2.mux = "B")

\* A uniform read past the end of the stream is some other data.
Word(n) == IF n \in DOMAIN words THEN words[n] ELSE Hazard

FileValue(reg) ==
    IF reg \in fresh THEN Hazard
    ELSE IF reg.mux = "A" THEN ra[reg.addr] ELSE rb[reg.addr]

R4 == IF wait > 0 THEN Hazard ELSE acc[4]

Value(reg) ==
    CASE FromFile(reg) /\ reg.addr = UNIFORM -> Word(read + 1)
      [] FromFile(reg) /\ reg.addr = VPM -> IF queue = <<>> THEN Hazard ELSE Head(queue)
      [] FromFile(reg) /\ reg.addr = VARYING ->
             IF queue = <<>> THEN Hazard ELSE <<"slope", Head(queue)>>
      [] FromFile(reg) /\ reg.addr \notin {UNIFORM, VPM, VARYING} -> FileValue(reg)
      [] reg.mux = "R" -> IF reg.addr = 4 THEN R4 ELSE acc[reg.addr]
      [] reg.mux = "small" -> Zero
      [] reg.mux = "immediate" -> reg.addr
      [] reg.mux = "r4 byte" -> ByteOf(R4, reg.addr)
      [] OTHER -> Hazard

Output(q, p) ==
    IF PortsSuffice(q) THEN Result(p.op, [k \in DOMAIN p.src |-> Value(p.src[k])])
    ELSE Hazard

-----------------------------------------------------------------------------
(* One instruction *)

\* The value this instruction leaves in a register.
After(q, reg, old) ==
    LET writers == {p \in Pipes(q) : p.dst = reg}
    IN IF writers = {} THEN old
       ELSE LET p == CHOOSE x \in writers : TRUE
            IN PackInto(old, p.pack, Output(q, p))

ReadInputs(q) ==
    LET next == IF queue # <<>> /\ (Takes(q, VPM) \/ Takes(q, VARYING))
                THEN Tail(queue) ELSE queue
    IN IF Writes(q, "rd_setup") = {} THEN next
       ELSE Prefix(queue, (CHOOSE p \in Writes(q, "rd_setup") : TRUE).src[1].addr)

WriteVpm(q) ==
    CASE Writes(q, "wr_setup") # {} -> <<>>
      [] Writes(q, "vpm") # {} -> Append(vpm, Output(q, CHOOSE p \in Writes(q, "vpm") : TRUE))
      [] OTHER -> vpm

\* A coordinate takes a uniform with it; s, written last, starts the fetch.
Coordinates(q) == Writes(q, "tmu_s") \cup Writes(q, "tmu_t")

WriteTmu(q) ==
    CASE Coordinates(q) # {} ->
             LET p == CHOOSE x \in Coordinates(q) : TRUE
             IN Append(tmu, <<p.dst.mux, Output(q, p), Word(read + 1)>>)
      [] q.sig = "ldtmu" -> <<>>
      [] OTHER -> tmu

Fetched == IF tmu # <<>> /\ Last(tmu)[1] = "tmu_s" THEN Texel(tmu) ELSE Hazard

WriteAcc(q) ==
    [n \in DOMAIN acc |->
        CASE n = 4 /\ q.sig = "ldtmu" -> Fetched
          [] n = 4 /\ Writes(q, "recip") # {} ->
                 <<"recip", Output(q, CHOOSE p \in Writes(q, "recip") : TRUE)>>
          [] n = 5 /\ Takes(q, VARYING) ->
                 IF queue = <<>> THEN Hazard ELSE <<"offset", Head(queue)>>
          [] OTHER -> After(q, R(n), acc[n])]

\* The tile buffer is this pixel's while the scoreboard is held.
WriteTlb(q) ==
    [u \in DOMAIN tlb |->
        IF Writes(q, u) = {} THEN tlb[u]
        ELSE IF locked THEN Output(q, CHOOSE p \in Writes(q, u) : TRUE) ELSE Hazard]

Execute ==
    /\ pc \in DOMAIN code
    /\ LET q == code[pc]
           taken == IF Takes(q, UNIFORM) \/ Coordinates(q) # {} THEN 1 ELSE 0
       IN /\ ra' = [a \in DOMAIN ra |-> After(q, A(a), ra[a])]
          /\ rb' = [b \in DOMAIN rb |-> After(q, B(b), rb[b])]
          /\ acc' = WriteAcc(q)
          /\ wait' = IF Writes(q, "recip") # {} THEN 2
                     ELSE IF wait > 0 THEN wait - 1 ELSE 0
          /\ fresh' = {p.dst : p \in {x \in Pipes(q) : FromFile(x.dst)}}
          /\ read' = read + taken
          /\ queue' = ReadInputs(q)
          /\ vpm' = WriteVpm(q)
          /\ tmu' = WriteTmu(q)
          /\ tlb' = WriteTlb(q)
          /\ locked' = CASE q.sig = "sbwait" -> TRUE
                         [] q.sig = "sbdone" -> FALSE
                         [] OTHER -> locked
    /\ pc' = pc + 1
    /\ UNCHANGED <<code, words>>

\* A program is over two instructions after the one that ends it.
Done ==
    pc > 3 /\ pc - 3 \in DOMAIN code /\ code[pc - 3].sig = "thrend"
=============================================================================
