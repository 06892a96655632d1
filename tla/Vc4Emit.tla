------------------------------- MODULE Vc4Emit -------------------------------
(***************************************************************************)
(* QPU instructions as the shader compiler builds them                     *)
(* (roscompiler/Vc4Emit.hpp): an operation of the add pipe, one of the mul *)
(* pipe and a signal.                                                      *)
(***************************************************************************)
EXTENDS Integers, SequencesExt

UNIFORM == 32           \* VC4_QPU_RADDR_UNIFORM
VARYING == 35           \* VC4_QPU_RADDR_VERYING
VPM == 48               \* VC4_QPU_RADDR_VPM, VC4_QPU_WADDR_VPM

R(n) == [mux |-> "R", addr |-> n]
A(n) == [mux |-> "A", addr |-> n]
B(n) == [mux |-> "B", addr |-> n]
SmallZero == [mux |-> "small", addr |-> 0]      \* takes the port of file B
Immediate(t) == [mux |-> "immediate", addr |-> t]
R4Byte(n) == [mux |-> "r4 byte", addr |-> n]    \* unpacked from r4

\* A register of a unit, which cannot be read back.
Unit(name) == [mux |-> name, addr |-> 0]

Pack32 == 0
Pack8(n) == 1 + n       \* 8a to 8d, of the mul pipe
Pack16(n) == 5 + n      \* 16a, 16b, of register file A

NoOp == [op |-> "nop", dst |-> Unit("none"), src |-> <<>>, pack |-> Pack32]
Pipe(op, dst, src) == [op |-> op, dst |-> dst, src |-> src, pack |-> Pack32]
Packing(p, pack) == [p EXCEPT !.pack = pack]

Inst(add, mul) == [add |-> add, mul |-> mul, sig |-> "none"]
OnAdd(op, dst, src) == << Inst(Pipe(op, dst, src), NoOp) >>
OnMul(op, dst, src) == << Inst(NoOp, Pipe(op, dst, src)) >>
OnMulPacked(op, dst, src, pack) ==
    << Inst(NoOp, Packing(Pipe(op, dst, src), pack)) >>
NOP == << Inst(NoOp, NoOp) >>
Signal(inst, sig) == << [inst[1] EXCEPT !.sig = sig] >>
=============================================================================
