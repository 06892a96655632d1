----------------------- MODULE CosUmdCommandListProofs -----------------------
(***************************************************************************)
(* For every set of root signatures and every size of the buffers, a       *)
(* command list of cosumd12 overruns no list of a command buffer, takes    *)
(* every address it has patched from an argument that is set, accounts for *)
(* each command buffer it has acquired, keeps what is recorded in order,   *)
(* and has the engine find in each command what was bound to it.           *)
(*                                                                         *)
(* A reservation is made for as many references as PrepareHWRootSignature  *)
(* has counted, and as many are written as WriteHWRootSignature finds.     *)
(* Both are folds over the root signature; what they compute is proved by  *)
(* induction over sets of numbers.  So is the run of the engine over a     *)
(* buffer, which finds each command by the size of the one before.         *)
(***************************************************************************)
EXTENDS CosUmdCommandList, FiniteSetTheorems, TLAPS

-----------------------------------------------------------------------------
(* Numbers. *)

(* A set of numbers has a least one: the search of UseAllocation finds the *)
(* first entry.                                                            *)
LEMMA LeastNumber ==
  ASSUME NEW T, T \subseteq Nat, T # {}
  PROVE  \E x \in T : \A y \in T : x <= y
<1>1. PICK t \in T : TRUE
  OBVIOUS
<1> DEFINE S == 0 .. t
           R == StrictSubsetOrdering(S)
           F == {0 .. k : k \in {k \in T : k <= t}}
<1>2. IsFiniteSet(S)
  BY FS_Interval
<1>3. IsWellFoundedOn(R, FiniteSubsetsOf(S))
  BY FS_StrictSubsetOrderingWellFounded
<1>4. FiniteSubsetsOf(S) = SUBSET S
  BY <1>2, FS_FiniteSubsetsOfFinite
<1>5. F \subseteq SUBSET S
  OBVIOUS
<1>6. F # {}
  BY <1>1
<1>7. PICK m \in F : \A y \in F : ~ (<<y, m>> \in R)
  <2> HIDE DEF F, R, S
  <2> QED
    BY <1>3, <1>4, <1>5, <1>6, WFMin
<1>8. PICK k \in T : k <= t /\ m = 0 .. k
  OBVIOUS
<1>9. ASSUME NEW j \in T
      PROVE  k <= j
  <2> SUFFICES ASSUME j < k
               PROVE  FALSE
    BY <1>8
  <2>1. 0 .. j \in F
    BY <1>8
  <2>2. 0 .. j \subseteq 0 .. k /\ 0 .. j # 0 .. k
    <3>1. k \in 0 .. k /\ k \notin 0 .. j
      OBVIOUS
    <3> QED
      BY <3>1
  <2>3. <<0 .. j, m>> \in R
    BY <2>1, <2>2, <1>5, <1>8 DEF StrictSubsetOrdering
  <2> QED
    BY <2>1, <2>3, <1>7
<1> QED
  BY <1>9, <1>8

(* Induction over the parameters of a root signature, or the references of *)
(* a command.                                                              *)
LEMMA Indices ==
  ASSUME NEW n \in Nat, NEW Q, 0 \in Q, \A k \in 1 .. n : k - 1 \in Q => k \in Q
  PROVE  \A k \in 0 .. n : k \in Q
<1> DEFINE Bad == {k \in 0 .. n : k \notin Q}
<1> SUFFICES ASSUME Bad # {}
             PROVE  FALSE
  OBVIOUS
<1>1. PICK k \in Bad : \A j \in Bad : k <= j
  <2>1. Bad \subseteq Nat
    OBVIOUS
  <2> HIDE DEF Bad
  <2> QED
    BY <2>1, LeastNumber
<1>2. k \in 1 .. n /\ k - 1 \in 0 .. n
  BY <1>1
<1>3. k - 1 \notin Bad
  <2> HIDE DEF Bad
  <2> QED
    BY <1>1, <1>2
<1> QED
  BY <1>1, <1>2, <1>3

(* What PrepareHWRootSignature takes for the greatest register, and a fold *)
(* for the last index, is the greatest.                                    *)
LEMMA MaxIs ==
  ASSUME NEW S \in SUBSET Nat, NEW m \in S, \A k \in S : k <= m
  PROVE  Max(S) = m
<1>1. \E x \in S : \A y \in S : x >= y
  OBVIOUS
<1>2. Max(S) \in S /\ \A k \in S : Max(S) >= k
  BY <1>1 DEF Max
<1>3. Max(S) >= m /\ Max(S) <= m /\ Max(S) \in Nat /\ m \in Nat
  BY <1>2
<1> QED
  BY <1>3

(* A register count that is bounded exists. *)
LEMMA MaxExists ==
  ASSUME NEW n \in Nat, NEW s \in SUBSET (0 .. n), s # {}
  PROVE  Max(s) \in s /\ \A k \in s : k <= Max(s)
<1> DEFINE T == {k \in Nat : \A j \in s : j <= k}
<1>1. n \in T
  OBVIOUS
<1>2. PICK m \in T : \A k \in T : m <= k
  <2>1. T \subseteq Nat /\ T # {}
    BY <1>1
  <2> HIDE DEF T
  <2> QED
    BY <2>1, LeastNumber
<1>3. m \in Nat /\ \A j \in s : j <= m
  OBVIOUS
<1>4. m \in s
  <2> SUFFICES ASSUME m \notin s
               PROVE  FALSE
    OBVIOUS
  <2>1. PICK j \in s : TRUE
    OBVIOUS
  <2>2. j < m /\ m # 0
    BY <1>3, <2>1
  <2>3. \A i \in s : i <= m - 1
    BY <1>3
  <2>4. m - 1 \in T
    BY <2>2, <2>3, <1>3
  <2> QED
    BY <2>4, <1>2
<1>5. s \in SUBSET Nat
  OBVIOUS
<1> QED
  BY <1>3, <1>4, <1>5, MaxIs

-----------------------------------------------------------------------------
(* Folds. *)

(* f is the accumulator after each set of indices, as FoldLeft has it; g   *)
(* is the accumulator after each element, from the first to the last.      *)
Tabulated(B, G, base, N, s, f) ==
  /\ f \in [SUBSET (1 .. N) -> B]
  /\ \A I \in SUBSET (1 .. N) :
       f[I] = IF I = {} THEN base ELSE G[<<f[I \ {Max(I)}], s[Max(I)]>>]
Traced(B, G, base, N, s, g) ==
  /\ g \in [0 .. N -> B]
  /\ g[0] = base
  /\ \A k \in 1 .. N : g[k] = G[<<g[k - 1], s[k]>>]

(* A loop over a list that keeps its accumulator in B can be tabulated for *)
(* every set of indices, as FoldLeft does: PrepareHWRootSignature and      *)
(* WriteHWRootSignature end.                                               *)
LEMMA FoldExists ==
  ASSUME NEW A, NEW B, NEW G \in [B \X A -> B], NEW base \in B,
         NEW N \in Nat, NEW s \in [1 .. N -> A]
  PROVE  \E f : Tabulated(B, G, base, N, s, f)
<1> DEFINE Fold(f, n) == \A I \in SUBSET (1 .. n) :
             f[I] = IF I = {} THEN base ELSE G[<<f[I \ {Max(I)}], s[Max(I)]>>]
           Q == {n \in Nat : \E f \in [SUBSET (1 .. n) -> B] : Fold(f, n)}
<1>1. 0 \in Q
  <2>1. SUBSET (1 .. 0) = {{}}
    OBVIOUS
  <2>2. [I \in SUBSET (1 .. 0) |-> base] \in [SUBSET (1 .. 0) -> B]
    OBVIOUS
  <2>3. Fold([I \in SUBSET (1 .. 0) |-> base], 0)
    BY <2>1
  <2> QED
    BY <2>2, <2>3
<1>2. ASSUME NEW n \in 1 .. N, n - 1 \in Q
      PROVE  n \in Q
  <2>1. PICK f \in [SUBSET (1 .. n - 1) -> B] : Fold(f, n - 1)
    BY <1>2
  <2> DEFINE g == [I \in SUBSET (1 .. n) |->
                     IF n \in I THEN G[<<f[I \ {n}], s[n]>>] ELSE f[I]]
  <2>2. ASSUME NEW I \in SUBSET (1 .. n), n \in I
        PROVE  /\ I \ {n} \in SUBSET (1 .. n - 1)
               /\ g[I] = G[<<f[I \ {n}], s[n]>>] /\ g[I] \in B
    <3>1. I \ {n} \in SUBSET (1 .. n - 1)
      OBVIOUS
    <3>2. f[I \ {n}] \in B /\ s[n] \in A
      BY <3>1, <2>1
    <3>3. G[<<f[I \ {n}], s[n]>>] \in B
      BY <3>2
    <3> QED
      BY <2>2, <3>1, <3>3
  <2>3. ASSUME NEW I \in SUBSET (1 .. n), n \notin I
        PROVE  /\ I \in SUBSET (1 .. n - 1)
               /\ g[I] = f[I] /\ g[I] \in B
    <3>1. I \in SUBSET (1 .. n - 1)
      BY <2>3
    <3> QED
      BY <2>3, <3>1, <2>1
  <2>4. g \in [SUBSET (1 .. n) -> B]
    <3>1. \A I \in SUBSET (1 .. n) : g[I] \in B
      BY <2>2, <2>3
    <3>2. g = [I \in SUBSET (1 .. n) |-> g[I]]
      OBVIOUS
    <3> HIDE DEF g
    <3> QED
      BY <3>1, <3>2
  <2>5. ASSUME NEW I \in SUBSET (1 .. n)
        PROVE  g[I] = IF I = {} THEN base ELSE G[<<g[I \ {Max(I)}], s[Max(I)]>>]
    <3>1. CASE n \in I
      <4>1. Max(I) = n
        BY <3>1, MaxIs
      <4>2. I \ {n} \in SUBSET (1 .. n) /\ n \notin I \ {n}
        OBVIOUS
      <4>3. g[I \ {n}] = f[I \ {n}]
        BY <4>2, <2>3
      <4>4. g[I] = G[<<f[I \ {n}], s[n]>>]
        BY <3>1, <2>2
      <4> HIDE DEF g
      <4> QED
        BY <4>1, <4>3, <4>4, <3>1
    <3>2. CASE n \notin I
      <4>1. I \in SUBSET (1 .. n - 1) /\ g[I] = f[I]
        BY <3>2, <2>3
      <4>2. f[I] = IF I = {} THEN base ELSE G[<<f[I \ {Max(I)}], s[Max(I)]>>]
        BY <4>1, <2>1
      <4>3. I \ {Max(I)} \in SUBSET (1 .. n) /\ n \notin I \ {Max(I)}
        BY <3>2
      <4>4. g[I \ {Max(I)}] = f[I \ {Max(I)}]
        BY <4>3, <2>3
      <4> HIDE DEF g
      <4> QED
        BY <4>1, <4>2, <4>4
    <3> QED
      BY <3>1, <3>2
  <2>6. Fold(g, n)
    <3> HIDE DEF g
    <3> QED
      BY <2>5
  <2> HIDE DEF g, Fold
  <2>7. n \in Nat
    OBVIOUS
  <2> QED
    BY <2>4, <2>6, <2>7
<1>3. \A n \in 0 .. N : n \in Q
  <2> HIDE DEF Q
  <2> QED
    BY <1>1, <1>2, Indices
<1>4. N \in 0 .. N
  OBVIOUS
<1> HIDE DEF Q
<1>5. N \in Q
  BY <1>3, <1>4
<1> QED
  BY <1>5 DEF Q, Tabulated

(* A function that satisfies the equation of the fold goes through the     *)
(* list from the first element to the last.                                *)
LEMMA InitialSegments ==
  ASSUME NEW n \in Nat, n # 0
  PROVE  /\ Max(1 .. n) = n
         /\ (1 .. n) \ {n} = 1 .. n - 1
         /\ 1 .. n # {}
<1>1. 1 .. n \in SUBSET Nat /\ n \in 1 .. n /\ \A k \in 1 .. n : k <= n
  OBVIOUS
<1>2. Max(1 .. n) = n
  BY <1>1, MaxIs
<1> QED
  BY <1>1, <1>2

(* The values that the accumulator goes through exist and are in B. *)
LEMMA TraceExists ==
  ASSUME NEW A, NEW B, NEW G \in [B \X A -> B], NEW base \in B,
         NEW N \in Nat, NEW s \in [1 .. N -> A]
  PROVE  \E g : Traced(B, G, base, N, s, g)
<1>0. PICK f : Tabulated(B, G, base, N, s, f)
  BY FoldExists
<1>1. /\ f \in [SUBSET (1 .. N) -> B]
      /\ \A I \in SUBSET (1 .. N) :
           f[I] = IF I = {} THEN base ELSE G[<<f[I \ {Max(I)}], s[Max(I)]>>]
  BY <1>0 DEF Tabulated
<1> DEFINE g == [k \in 0 .. N |-> f[1 .. k]]
<1>2. g \in [0 .. N -> B]
  <2>1. ASSUME NEW k \in 0 .. N
        PROVE  f[1 .. k] \in B
    <3>1. 1 .. k \in SUBSET (1 .. N)
      OBVIOUS
    <3> QED
      BY <3>1, <1>1
  <2> QED
    BY <2>1
<1>3. g[0] = base
  <2>1. 1 .. 0 = {} /\ 0 \in 0 .. N
    OBVIOUS
  <2> QED
    BY <2>1, <1>1
<1>4. ASSUME NEW k \in 1 .. N
      PROVE  g[k] = G[<<g[k - 1], s[k]>>]
  <2>1. 1 .. k \in SUBSET (1 .. N) /\ k \in 0 .. N /\ k - 1 \in 0 .. N /\ k \in Nat /\ k # 0
    OBVIOUS
  <2>2. f[1 .. k] = G[<<f[(1 .. k) \ {Max(1 .. k)}], s[Max(1 .. k)]>>]
    BY <2>1, <1>1, InitialSegments
  <2>3. f[1 .. k] = G[<<f[1 .. k - 1], s[k]>>]
    BY <2>1, <2>2, InitialSegments
  <2>4. g[k] = f[1 .. k] /\ g[k - 1] = f[1 .. k - 1]
    BY <2>1
  <2> QED
    BY <2>3, <2>4
<1> HIDE DEF g
<1>5. Traced(B, G, base, N, s, g)
  BY <1>2, <1>3, <1>4 DEF Traced
<1> QED
  BY <1>5

(* What the fold of a sum returns: the last of the sums. *)
LEMMA TotalIs ==
  ASSUME NEW N \in Nat, NEW s \in [1 .. N -> Nat], NEW g \in [0 .. N -> Nat],
         g[0] = 0, \A k \in 1 .. N : g[k] = g[k - 1] + s[k]
  PROVE  Total(s) = g[N]
<1> DEFINE Plus == [x \in Nat \X Nat |-> x[1] + x[2]]
           Fold(f) == f = [I \in SUBSET (1 .. N) |->
                             IF I = {} THEN 0 ELSE f[I \ {Max(I)}] + s[Max(I)]]
           c == CHOOSE f : Fold(f)
<1>1. DOMAIN s = 1 .. N
  OBVIOUS
<1>2. Total(s) = c[1 .. N]
  BY <1>1 DEF Total, FoldLeft, MapThenFoldSet
<1>3. \E f : Fold(f)
  <2>1. Plus \in [Nat \X Nat -> Nat] /\ 0 \in Nat
    OBVIOUS
  <2>0. PICK f : Tabulated(Nat, Plus, 0, N, s, f)
    <3> HIDE DEF Plus
    <3> QED
      BY <2>1, FoldExists
  <2>2. /\ f \in [SUBSET (1 .. N) -> Nat]
        /\ \A I \in SUBSET (1 .. N) :
             f[I] = IF I = {} THEN 0 ELSE Plus[<<f[I \ {Max(I)}], s[Max(I)]>>]
    <3> HIDE DEF Plus
    <3> QED
      BY <2>0 DEF Tabulated
  <2>3. ASSUME NEW I \in SUBSET (1 .. N)
        PROVE  f[I] = IF I = {} THEN 0 ELSE f[I \ {Max(I)}] + s[Max(I)]
    <3>1. CASE I = {}
      BY <3>1, <2>2
    <3>2. CASE I # {}
      <4>1. Max(I) \in I
        <5>1. I \in SUBSET (0 .. N)
          OBVIOUS
        <5> QED
          BY <3>2, <5>1, MaxExists
      <4>2. f[I \ {Max(I)}] \in Nat /\ s[Max(I)] \in Nat
        BY <4>1, <2>2
      <4> QED
        BY <3>2, <4>2, <2>2
    <3> QED
      BY <3>1, <3>2
  <2>4. Fold(f)
    <3>1. f = [I \in SUBSET (1 .. N) |-> f[I]]
      BY <2>2
    <3> QED
      BY <2>3, <3>1
  <2> QED
    BY <2>4
<1>4. Fold(c)
  <2> HIDE DEF Fold
  <2> QED
    BY <1>3
<1>5. \A I \in SUBSET (1 .. N) : c[I] = IF I = {} THEN 0 ELSE c[I \ {Max(I)}] + s[Max(I)]
  <2> HIDE DEF c
  <2> QED
    BY <1>4
<1> HIDE DEF c
<1> DEFINE Q == {k \in 0 .. N : c[1 .. k] = g[k]}
<1>6. 0 \in Q
  <2>1. 1 .. 0 = {} /\ 0 \in 0 .. N
    OBVIOUS
  <2> QED
    BY <2>1, <1>5
<1>7. ASSUME NEW k \in 1 .. N, k - 1 \in Q
      PROVE  k \in Q
  <2>1. 1 .. k \in SUBSET (1 .. N) /\ k \in 0 .. N /\ k \in Nat /\ k # 0
    OBVIOUS
  <2>2. c[1 .. k] = c[(1 .. k) \ {Max(1 .. k)}] + s[Max(1 .. k)]
    BY <2>1, <1>5, InitialSegments
  <2>3. c[1 .. k] = c[1 .. k - 1] + s[k]
    BY <2>1, <2>2, InitialSegments
  <2> QED
    BY <2>1, <2>3, <1>7
<1>8. \A k \in 0 .. N : k \in Q
  <2> HIDE DEF Q
  <2> QED
    BY <1>6, <1>7, Indices
<1> QED
  BY <1>2, <1>8

(* The sums of a list of numbers. *)
LEMMA SumsExist ==
  ASSUME NEW N \in Nat, NEW s \in [1 .. N -> Nat]
  PROVE  \E g \in [0 .. N -> Nat] : g[0] = 0 /\ \A k \in 1 .. N : g[k] = g[k - 1] + s[k]
<1> DEFINE Plus == [x \in Nat \X Nat |-> x[1] + x[2]]
<1>1. Plus \in [Nat \X Nat -> Nat] /\ 0 \in Nat
  OBVIOUS
<1>0. PICK g : Traced(Nat, Plus, 0, N, s, g)
  <2> HIDE DEF Plus
  <2> QED
    BY <1>1, TraceExists
<1>2. /\ g \in [0 .. N -> Nat] /\ g[0] = 0
      /\ \A k \in 1 .. N : g[k] = Plus[<<g[k - 1], s[k]>>]
  <2> HIDE DEF Plus
  <2> QED
    BY <1>0 DEF Traced
<1>3. ASSUME NEW k \in 1 .. N
      PROVE  g[k] = g[k - 1] + s[k]
  <2>1. g[k - 1] \in Nat /\ s[k] \in Nat
    BY <1>2
  <2> QED
    BY <2>1, <1>2
<1> QED
  BY <1>2, <1>3

(* The lists that FlattenSeq goes through, from the first to the whole.    *)
FlatTrace(T, seqs, g) ==
  /\ g \in [0 .. Len(seqs) -> Seq(T)] /\ g[0] = << >>
  /\ \A k \in 1 .. Len(seqs) : g[k] = g[k - 1] \o seqs[k]
  /\ FlattenSeq(seqs) = g[Len(seqs)]

(* Putting lists one behind the other, as WriteHWRootSignature does with   *)
(* the references of the parameters, and an execution with the buffers.    *)
LEMMA FlattenTraced ==
  ASSUME NEW T, NEW seqs \in Seq(Seq(T))
  PROVE  \E g : FlatTrace(T, seqs, g)
<1> DEFINE N == Len(seqs)
<1>0. N \in Nat /\ \A i \in 1 .. N : seqs[i] \in Seq(T) /\ Len(seqs[i]) \in Nat
  OBVIOUS
<1>1. CASE N = 0
  <2>1. seqs = << >> /\ FlattenSeq(seqs) = seqs
    BY <1>1 DEF FlattenSeq
  <2> DEFINE g == [k \in 0 .. N |-> << >>]
  <2>2. g \in [0 .. N -> Seq(T)] /\ g[0] = << >> /\ g[N] = << >>
    BY <1>1
  <2>3. \A k \in 1 .. N : g[k] = g[k - 1] \o seqs[k]
    BY <1>1
  <2> HIDE DEF g
  <2>4. FlatTrace(T, seqs, g)
    BY <2>1, <2>2, <2>3 DEF FlatTrace
  <2> QED
    BY <2>4
<1>2. CASE N # 0
  <2> DEFINE Join == [x \in Seq(T) \X Seq(T) |-> x[1] \o x[2]]
             Flatten(f) == f = [i \in 1 .. N |-> IF i = 1 THEN seqs[i] ELSE f[i - 1] \o seqs[i]]
             c == CHOOSE f : Flatten(f)
  <2>1. Join \in [Seq(T) \X Seq(T) -> Seq(T)] /\ <<>> \in Seq(T) /\ seqs \in [1 .. N -> Seq(T)]
    BY <1>0
  <2>2. PICK g : Traced(Seq(T), Join, <<>>, N, seqs, g)
    <3> HIDE DEF Join, N
    <3> QED
      BY <2>1, <1>0, TraceExists
  <2>3. g \in [0 .. N -> Seq(T)] /\ g[0] = <<>> /\ \A k \in 1 .. N : g[k] = Join[<<g[k - 1], seqs[k]>>]
    <3> HIDE DEF Join, N
    <3> QED
      BY <2>2 DEF Traced
  <2>4. ASSUME NEW k \in 1 .. N
        PROVE  /\ g[k] = g[k - 1] \o seqs[k] /\ g[k - 1] \in Seq(T) /\ g[k] \in Seq(T)
               /\ seqs[k] \in Seq(T)
               /\ Len(g[k]) = Len(g[k - 1]) + Len(seqs[k])
    <3>0. k - 1 \in 0 .. N /\ k \in 0 .. N
      BY <1>0
    <3>1. g[k - 1] \in Seq(T) /\ seqs[k] \in Seq(T) /\ g[k] \in Seq(T)
      <4> HIDE DEF N, Join
      <4> QED
        BY <3>0, <2>1, <2>3
    <3>2. g[k] = g[k - 1] \o seqs[k]
      BY <2>3, <3>1
    <3> QED
      BY <3>1, <3>2
  <2>5. \E f : Flatten(f)
    <3> DEFINE f == [i \in 1 .. N |-> g[i]]
    <3>1. ASSUME NEW i \in 1 .. N
          PROVE  f[i] = IF i = 1 THEN seqs[i] ELSE f[i - 1] \o seqs[i]
      <4>1. CASE i = 1
        <5>1. f[i] = g[0] \o seqs[i]
          <6>1. f[i] = g[i] /\ i - 1 = 0
            BY <4>1
          <6>2. g[i] = g[i - 1] \o seqs[i]
            BY <2>4
          <6> QED
            BY <6>1, <6>2
        <5> QED
          BY <5>1, <4>1, <2>3, <2>4
      <4>2. CASE i # 1
        <5>1. i - 1 \in 1 .. N /\ f[i] = g[i] /\ f[i - 1] = g[i - 1]
          BY <4>2
        <5> QED
          BY <5>1, <4>2, <2>4
      <4> QED
        BY <4>1, <4>2
    <3>2. f = [i \in 1 .. N |-> f[i]]
      OBVIOUS
    <3> HIDE DEF f
    <3>3. Flatten(f)
      BY <3>1, <3>2
    <3> QED
      BY <3>3
  <2>6. Flatten(c)
    <3> HIDE DEF Flatten
    <3> QED
      BY <2>5
  <2>7. FlattenSeq(seqs) = c[N]
    BY <1>2 DEF FlattenSeq
  <2>8. \A i \in 1 .. N : c[i] = IF i = 1 THEN seqs[i] ELSE c[i - 1] \o seqs[i]
    <3> HIDE DEF c
    <3> QED
      BY <2>6
  <2> HIDE DEF c
  <2> DEFINE Q == {k \in 0 .. N : k = 0 \/ c[k] = g[k]}
  <2>9. 0 \in Q
    BY <1>0
  <2>10. ASSUME NEW k \in 1 .. N, k - 1 \in Q
         PROVE  k \in Q
    <3>1. CASE k = 1
      <4>1. g[k] = g[0] \o seqs[k]
        <5>1. k - 1 = 0
          BY <3>1
        <5> QED
          BY <5>1, <2>4
      <4>2. g[k] = seqs[k]
        BY <4>1, <2>3, <2>4
      <4> QED
        BY <4>2, <3>1, <2>8
    <3>2. CASE k # 1
      <4>1. c[k - 1] = g[k - 1]
        BY <3>2, <2>10
      <4>2. c[k] = g[k - 1] \o seqs[k]
        BY <4>1, <3>2, <2>8
      <4>3. c[k] = g[k]
        BY <4>2, <2>4
      <4> QED
        BY <4>3
    <3> QED
      BY <3>1, <3>2
  <2>11. \A k \in 0 .. N : k \in Q
    <3> HIDE DEF Q, N
    <3> QED
      BY <1>0, <2>9, <2>10, Indices
  <2>12. c[N] = g[N]
    BY <2>11, <1>0, <1>2
  <2>13. \A k \in 1 .. N : g[k] = g[k - 1] \o seqs[k]
    BY <2>4
  <2>14. FlatTrace(T, seqs, g)
    BY <2>3, <2>7, <2>12, <2>13 DEF FlatTrace
  <2> QED
    BY <2>14
<1> QED
  BY <1>1, <1>2

(* WriteHWRootSignature writes the references of one parameter after the   *)
(* other: as many as they have together.                                   *)
LEMMA Flattened ==
  ASSUME NEW T, NEW seqs \in Seq(Seq(T))
  PROVE  /\ FlattenSeq(seqs) \in Seq(T)
         /\ Len(FlattenSeq(seqs)) = Total([i \in 1 .. Len(seqs) |-> Len(seqs[i])])
<1> DEFINE N == Len(seqs)
           lens == [i \in 1 .. N |-> Len(seqs[i])]
<1>1. N \in Nat /\ \A i \in 1 .. N : seqs[i] \in Seq(T) /\ Len(seqs[i]) \in Nat
  OBVIOUS
<1>2. PICK g : FlatTrace(T, seqs, g)
  BY FlattenTraced
<1>3. /\ g \in [0 .. N -> Seq(T)] /\ g[0] = << >> /\ FlattenSeq(seqs) = g[N]
      /\ \A k \in 1 .. N : g[k] = g[k - 1] \o seqs[k]
  BY <1>2 DEF FlatTrace
<1> DEFINE sums == [k \in 0 .. N |-> Len(g[k])]
<1>4. sums \in [0 .. N -> Nat] /\ sums[0] = 0
  BY <1>1, <1>3
<1>5. ASSUME NEW k \in 1 .. N
      PROVE  sums[k] = sums[k - 1] + lens[k]
  <2>1. k - 1 \in 0 .. N /\ k \in 0 .. N
    BY <1>1
  <2>2. sums[k] = Len(g[k]) /\ sums[k - 1] = Len(g[k - 1]) /\ lens[k] = Len(seqs[k])
    BY <2>1
  <2>3. g[k - 1] \in Seq(T) /\ seqs[k] \in Seq(T) /\ g[k] = g[k - 1] \o seqs[k]
    <3> HIDE DEF N
    <3> QED
      BY <2>1, <1>1, <1>3
  <2>4. Len(g[k]) = Len(g[k - 1]) + Len(seqs[k])
    BY <2>3
  <2> QED
    BY <2>2, <2>4
<1>6. lens \in [1 .. N -> Nat]
  BY <1>1
<1>7. Total(lens) = sums[N]
  <2> HIDE DEF lens, sums, N
  <2> QED
    BY <1>1, <1>4, <1>5, <1>6, TotalIs
<1>8. N \in 0 .. N
  BY <1>1
<1>9. sums[N] = Len(g[N]) /\ g[N] \in Seq(T)
  BY <1>8, <1>3
<1> QED
  BY <1>3, <1>7, <1>9

(* One more list behind the others. *)
LEMMA FlattenAppend ==
  ASSUME NEW T, NEW seqs \in Seq(Seq(T)), NEW s \in Seq(T)
  PROVE  /\ FlattenSeq(Append(seqs, s)) = FlattenSeq(seqs) \o s
         /\ FlattenSeq(seqs) \in Seq(T)
<1> DEFINE N == Len(seqs)
           more == Append(seqs, s)
<1>1. /\ N \in Nat /\ more \in Seq(Seq(T)) /\ Len(more) = N + 1 /\ more[N + 1] = s
      /\ \A k \in 1 .. N : more[k] = seqs[k]
  OBVIOUS
<1>2. PICK g : FlatTrace(T, seqs, g)
  BY FlattenTraced
<1>3. PICK h : FlatTrace(T, more, h)
  <2> HIDE DEF more
  <2> QED
    BY <1>1, FlattenTraced
<1>4. /\ g \in [0 .. N -> Seq(T)] /\ g[0] = << >> /\ FlattenSeq(seqs) = g[N]
      /\ \A k \in 1 .. N : g[k] = g[k - 1] \o seqs[k]
  BY <1>2 DEF FlatTrace
<1>5. /\ h[0] = << >> /\ FlattenSeq(more) = h[N + 1]
      /\ \A k \in 1 .. N + 1 : h[k] = h[k - 1] \o more[k]
  <2> HIDE DEF more, N
  <2> QED
    BY <1>1, <1>3 DEF FlatTrace
<1> DEFINE Q == {k \in 0 .. N : h[k] = g[k]}
<1>6. 0 \in Q
  BY <1>1, <1>4, <1>5
<1>7. ASSUME NEW k \in 1 .. N, k - 1 \in Q
      PROVE  k \in Q
  <2>1. k \in 1 .. N + 1 /\ k \in 0 .. N
    BY <1>1
  <2>2. h[k] = h[k - 1] \o more[k] /\ g[k] = g[k - 1] \o seqs[k] /\ more[k] = seqs[k]
    <3> HIDE DEF more, N
    <3> QED
      BY <2>1, <1>1, <1>4, <1>5
  <2>3. h[k - 1] = g[k - 1]
    BY <1>7
  <2> HIDE DEF more, N
  <2> QED
    BY <2>1, <2>2, <2>3
<1>8. \A k \in 0 .. N : k \in Q
  <2> HIDE DEF Q, N
  <2> QED
    BY <1>1, <1>6, <1>7, Indices
<1>9. N \in 0 .. N /\ N + 1 \in 1 .. N + 1 /\ (N + 1) - 1 = N
  BY <1>1
<1>10. h[N] = g[N] /\ g[N] \in Seq(T)
  <2>1. N \in Q
    <3> HIDE DEF Q, N
    <3> QED
      BY <1>8, <1>9
  <2> HIDE DEF more
  <2> QED
    BY <2>1, <1>4, <1>9
<1>11. h[N + 1] = h[N] \o s
  <2> HIDE DEF more, N
  <2> QED
    BY <1>1, <1>5, <1>9
<1> QED
  BY <1>4, <1>5, <1>10, <1>11

InOrder(s) == \A i, j \in 1 .. Len(s) : i < j => s[i].id < s[j].id

(* Lists in order, each behind the one before, are one list in order.      *)
LEMMA FlattenInOrder ==
  ASSUME NEW T, NEW seqs \in Seq(Seq(T)),
         \A i \in 1 .. Len(seqs) : InOrder(seqs[i]),
         \A i, j \in 1 .. Len(seqs) : i < j =>
           \A a \in 1 .. Len(seqs[i]), b \in 1 .. Len(seqs[j]) : seqs[i][a].id < seqs[j][b].id
  PROVE  /\ FlattenSeq(seqs) \in Seq(T)
         /\ InOrder(FlattenSeq(seqs))
         /\ \A m \in 1 .. Len(FlattenSeq(seqs)) :
              \E i \in 1 .. Len(seqs) : \E a \in 1 .. Len(seqs[i]) :
                FlattenSeq(seqs)[m] = seqs[i][a]
<1> DEFINE N == Len(seqs)
<1>1. N \in Nat /\ \A i \in 1 .. N : seqs[i] \in Seq(T) /\ Len(seqs[i]) \in Nat
  OBVIOUS
<1>2. PICK g : FlatTrace(T, seqs, g)
  BY FlattenTraced
<1>3. /\ g \in [0 .. N -> Seq(T)] /\ g[0] = << >> /\ FlattenSeq(seqs) = g[N]
      /\ \A k \in 1 .. N : g[k] = g[k - 1] \o seqs[k]
  BY <1>2 DEF FlatTrace
<1> DEFINE From(x, k) == \E i \in 1 .. k : \E a \in 1 .. Len(seqs[i]) : x = seqs[i][a]
           Good(s, k) == InOrder(s) /\ \A m \in 1 .. Len(s) : From(s[m], k)
           Q == {k \in 0 .. N : Good(g[k], k)}
<1>4. 0 \in Q
  <2>1. Good(<< >>, 0)
    BY DEF InOrder
  <2> HIDE DEF Good, N
  <2> QED
    BY <2>1, <1>1, <1>3
<1>5. ASSUME NEW k \in 1 .. N, k - 1 \in Q
      PROVE  k \in Q
  <2>1. k - 1 \in 0 .. N /\ k \in 0 .. N /\ k \in Nat
    BY <1>1
  <2>2. PICK s \in Seq(T) : s = g[k - 1]
    <3> HIDE DEF N
    <3> QED
      BY <2>1, <1>3
  <2>3. PICK t \in Seq(T) : t = seqs[k]
    BY <1>1
  <2>4. PICK st \in Seq(T) : st = s \o t
    <3>1. s \o t \in Seq(T)
      OBVIOUS
    <3> QED
      BY <3>1
  <2>5. g[k] = st
    <3> HIDE DEF N
    <3> QED
      BY <2>2, <2>3, <2>4, <1>3
  <2>6. Good(s, k - 1)
    <3> HIDE DEF Good, N
    <3> QED
      BY <2>2, <1>5
  <2>7. /\ Len(s) \in Nat /\ Len(t) \in Nat /\ Len(st) = Len(s) + Len(t)
        /\ \A m \in 1 .. Len(s) : st[m] = s[m]
        /\ \A m \in Len(s) + 1 .. Len(st) : st[m] = t[m - Len(s)] /\ m - Len(s) \in 1 .. Len(t)
    BY <2>4
  <2>8. ASSUME NEW x, From(x, k - 1)
        PROVE  From(x, k) /\ \A b \in 1 .. Len(t) : x.id < t[b].id
    <3>1. PICK i \in 1 .. k - 1 : \E a \in 1 .. Len(seqs[i]) : x = seqs[i][a]
      BY <2>8
    <3>2. i \in 1 .. k /\ i \in 1 .. N /\ i < k
      BY <1>1
    <3> QED
      BY <3>1, <3>2, <2>3
  <2>9. \A b \in 1 .. Len(t) : From(t[b], k)
    <3>1. k \in 1 .. k
      BY <2>1
    <3> QED
      BY <3>1, <2>3
  <2>10. InOrder(t) /\ InOrder(s)
    BY <2>3, <2>6
  <2>11. \A m \in 1 .. Len(s) : From(s[m], k) /\ \A b \in 1 .. Len(t) : s[m].id < t[b].id
    BY <2>6, <2>8
  <2> HIDE DEF From
  <2>12. \A m \in 1 .. Len(st) : From(st[m], k)
    <3> TAKE m \in 1 .. Len(st)
    <3>1. CASE m \in 1 .. Len(s)
      BY <3>1, <2>7, <2>11
    <3>2. CASE m \in Len(s) + 1 .. Len(st)
      BY <3>2, <2>7, <2>9
    <3> QED
      BY <3>1, <3>2, <2>7
  <2>13. ASSUME NEW i \in 1 .. Len(st), NEW j \in 1 .. Len(st), i < j
         PROVE  st[i].id < st[j].id
    <3>1. CASE j \in 1 .. Len(s)
      <4>1. i \in 1 .. Len(s)
        BY <3>1, <2>7, <2>13
      <4> QED
        BY <4>1, <3>1, <2>7, <2>10, <2>13 DEF InOrder
    <3>2. CASE i \in 1 .. Len(s) /\ j \in Len(s) + 1 .. Len(st)
      BY <3>2, <2>7, <2>11
    <3>3. CASE i \in Len(s) + 1 .. Len(st) /\ j \in Len(s) + 1 .. Len(st)
      <4>1. i - Len(s) < j - Len(s)
        BY <3>3, <2>7, <2>13
      <4> QED
        BY <4>1, <3>3, <2>7, <2>10 DEF InOrder
    <3> QED
      BY <3>1, <3>2, <3>3, <2>7, <2>13
  <2>14. Good(st, k)
    BY <2>12, <2>13 DEF InOrder
  <2> HIDE DEF Good, N
  <2> QED
    BY <2>1, <2>5, <2>14
<1>6. \A k \in 0 .. N : k \in Q
  <2> HIDE DEF Q, N
  <2> QED
    BY <1>1, <1>4, <1>5, Indices
<1>7. Good(g[N], N) /\ g[N] \in Seq(T)
  <2>1. N \in 0 .. N
    BY <1>1
  <2>2. N \in Q
    <3> HIDE DEF Q, N
    <3> QED
      BY <2>1, <1>6
  <2> HIDE DEF Good
  <2> QED
    BY <2>1, <2>2, <1>3
<1>8. PICK flat : flat = FlattenSeq(seqs) /\ flat \in Seq(T) /\ Good(flat, N)
  <2> HIDE DEF Good, N
  <2> QED
    BY <1>3, <1>7
<1>9. InOrder(flat) /\ \A m \in 1 .. Len(flat) : From(flat[m], Len(seqs))
  BY <1>8
<1> QED
  BY <1>8, <1>9

-----------------------------------------------------------------------------
(* Root signatures. *)

(* The sizes, one by one. *)
LEMMA Sizes ==
  /\ HeapSize \in Nat /\ HeapSize # 0 /\ RootSignatureSize \in Nat
  /\ CommandBufferSize \in Nat /\ CommandBufferSize >= 18
  /\ AllocationListSize \in Nat /\ AllocationListSize > 2
  /\ PatchLocationListSize \in Nat /\ PatchLocationListSize > 2
  /\ MaxCommandBuffers \in Nat /\ MaxCommandBuffers # 0 /\ MaxCommands \in Nat
BY SizesAssumption DEF GpuCommandSize, COMMAND_BUFFER_FLUSH_THRESHOLD

(* A parameter is of one of three types. *)
LEMMA ParameterIs ==
  ASSUME NEW p \in RootParameters
  PROVE  \/ /\ p.type = "table"
            /\ p.ranges \in Seq(DescriptorRanges)
            /\ Ranges(p) = {p.ranges[j] : j \in 1 .. Len(p.ranges)}
            /\ RootWords(p) = 1
         \/ /\ p.type = "constants"
            /\ p.register \in Nat /\ p.num \in Nat
            /\ Ranges(p) = {} /\ RootWords(p) = p.num
         \/ /\ p.type = "view"
            /\ p.class \in Classes /\ p.register \in Nat
            /\ Ranges(p) = {} /\ RootWords(p) = 2
<1>1. CASE p \in [type : {"table"}, ranges : Seq(DescriptorRanges)]
  BY <1>1 DEF Ranges, RootWords, ToSet
<1>2. CASE p \in [type : {"constants"}, register : Nat, num : Nat]
  BY <1>2 DEF Ranges, RootWords
<1>3. CASE p \in [type : {"view"}, class : Classes, register : Nat]
  BY <1>3 DEF Ranges, RootWords
<1> QED
  BY <1>1, <1>2, <1>3 DEF RootParameters

(* The ranges of a parameter have places, and the words of a root argument *)
(* a number.                                                               *)
LEMMA ParameterNumbers ==
  ASSUME NEW p \in RootParameters
  PROVE  /\ RootWords(p) \in Nat
         /\ \A r \in Ranges(p) : r \in DescriptorRanges
<1>1. ASSUME p.type = "table", p.ranges \in Seq(DescriptorRanges),
             Ranges(p) = {p.ranges[j] : j \in 1 .. Len(p.ranges)}
      PROVE  \A r \in Ranges(p) : r \in DescriptorRanges
  BY <1>1
<1> QED
  BY <1>1, ParameterIs

(* The arguments are laid out one behind the other.  (m_pRootValueOffsets.) *)
LEMMA OffsetsFollow ==
  ASSUME NEW sig \in Seq(RootParameters)
  PROVE  /\ \A i \in 1 .. Len(sig) + 1 : RootValueOffset(sig, i) \in Nat
         /\ \A i \in 1 .. Len(sig) :
              RootValueOffset(sig, i + 1) = RootValueOffset(sig, i) + RootWords(sig[i])
<1> DEFINE N == Len(sig)
           words == [i \in 1 .. N |-> RootWords(sig[i])]
<1>1. N \in Nat /\ words \in [1 .. N -> Nat]
  <2>1. \A i \in 1 .. N : sig[i] \in RootParameters
    OBVIOUS
  <2>2. \A i \in 1 .. N : RootWords(sig[i]) \in Nat
    BY <2>1, ParameterNumbers
  <2> QED
    BY <2>2
<1>2. PICK g \in [0 .. N -> Nat] : g[0] = 0 /\ \A k \in 1 .. N : g[k] = g[k - 1] + words[k]
  <2> HIDE DEF N, words
  <2> QED
    BY <1>1, SumsExist
<1>3. ASSUME NEW i \in 1 .. N + 1
      PROVE  RootValueOffset(sig, i) = g[i - 1] /\ i - 1 \in 0 .. N
  <2> DEFINE n == i - 1
             front == [j \in 1 .. n |-> RootWords(sig[j])]
             sums == [k \in 0 .. n |-> g[k]]
  <2>1. n \in Nat /\ n \in 0 .. N /\ n <= N
    BY <1>1
  <2>2. front \in [1 .. n -> Nat]
    <3>1. \A j \in 1 .. n : j \in 1 .. N /\ words[j] = RootWords(sig[j])
      BY <2>1, <1>1
    <3>2. \A j \in 1 .. n : RootWords(sig[j]) \in Nat
      <4> HIDE DEF words, n
      <4> QED
        BY <3>1, <1>1
    <3> QED
      BY <3>2
  <2>3. sums \in [0 .. n -> Nat] /\ sums[0] = 0
    BY <2>1, <1>2
  <2>4. ASSUME NEW k \in 1 .. n
        PROVE  sums[k] = sums[k - 1] + front[k]
    <3>1. k \in 1 .. N /\ k \in 0 .. n /\ k - 1 \in 0 .. n
      BY <2>1
    <3>2. g[k] = g[k - 1] + words[k]
      BY <3>1, <1>2
    <3>3. words[k] = RootWords(sig[k])
      BY <3>1
    <3>4. sums[k] = g[k] /\ sums[k - 1] = g[k - 1] /\ front[k] = RootWords(sig[k])
      BY <3>1
    <3> HIDE DEF words, front, sums
    <3> QED
      BY <3>2, <3>3, <3>4
  <2>5. Total(front) = sums[n]
    <3> HIDE DEF front, sums, n
    <3> QED
      BY <2>1, <2>2, <2>3, <2>4, TotalIs
  <2>6. sums[n] = g[n]
    BY <2>1
  <2> QED
    BY <2>1, <2>5, <2>6 DEF RootValueOffset
<1>4. ASSUME NEW i \in 1 .. N
      PROVE  RootValueOffset(sig, i + 1) = RootValueOffset(sig, i) + RootWords(sig[i])
  <2>1. i + 1 \in 1 .. N + 1 /\ i \in 1 .. N + 1 /\ (i + 1) - 1 = i
    BY <1>1
  <2>2. RootValueOffset(sig, i + 1) = g[i] /\ RootValueOffset(sig, i) = g[i - 1]
    <3>1. RootValueOffset(sig, i + 1) = g[(i + 1) - 1]
      BY <2>1, <1>3
    <3> QED
      BY <3>1, <2>1, <1>3
  <2>3. words[i] = RootWords(sig[i])
    OBVIOUS
  <2> HIDE DEF words, N
  <2> QED
    BY <2>2, <2>3, <1>2
<1>5. \A i \in 1 .. N + 1 : RootValueOffset(sig, i) \in Nat
  <2> HIDE DEF N
  <2> QED
    BY <1>2, <1>3
<1> QED
  BY <1>4, <1>5

(* No two arguments share a word, and there is room for all of them. *)
LEMMA OffsetsGrow ==
  ASSUME NEW sig \in Seq(RootParameters), NEW i \in 1 .. Len(sig),
         NEW j \in 1 .. Len(sig) + 1, i < j
  PROVE  RootValueOffset(sig, i) + RootWords(sig[i]) <= RootValueOffset(sig, j)
<1> DEFINE N == Len(sig)
           Q == {k \in 0 .. N + 1 :
                   i < k => RootValueOffset(sig, i) + RootWords(sig[i]) <= RootValueOffset(sig, k)}
<1>1. N \in Nat /\ N + 1 \in Nat
  OBVIOUS
<1>2. \A k \in 1 .. N : sig[k] \in RootParameters
  OBVIOUS
<1>3. \A k \in 1 .. N : RootWords(sig[k]) \in Nat
  BY <1>2, ParameterNumbers
<1>4. \A k \in 1 .. N + 1 : RootValueOffset(sig, k) \in Nat
  BY OffsetsFollow
<1>5. \A k \in 1 .. N :
        RootValueOffset(sig, k + 1) = RootValueOffset(sig, k) + RootWords(sig[k])
  BY OffsetsFollow
<1>6. i \in 1 .. N /\ j \in 1 .. N + 1
  OBVIOUS
<1> HIDE DEF N
<1>7. 0 \in Q
  BY <1>1, <1>6
<1>8. ASSUME NEW k \in 1 .. N + 1, k - 1 \in Q
      PROVE  k \in Q
  <2>1. CASE i < k - 1
    <3>1. k - 1 \in 1 .. N /\ k = (k - 1) + 1 /\ k \in 0 .. N + 1
      BY <2>1, <1>1, <1>6
    <3>2. RootValueOffset(sig, k) = RootValueOffset(sig, k - 1) + RootWords(sig[k - 1])
      BY <3>1, <1>5
    <3>3. RootWords(sig[k - 1]) \in Nat /\ RootValueOffset(sig, k - 1) \in Nat
      BY <3>1, <1>1, <1>3, <1>4
    <3>4. RootValueOffset(sig, i) + RootWords(sig[i]) <= RootValueOffset(sig, k - 1)
      BY <2>1, <1>8
    <3>5. RootValueOffset(sig, i) \in Nat /\ RootWords(sig[i]) \in Nat
      BY <1>1, <1>3, <1>4, <1>6
    <3> QED
      BY <3>1, <3>2, <3>3, <3>4, <3>5
  <2>2. CASE i = k - 1
    <3>1. k = i + 1 /\ k \in 0 .. N + 1
      BY <2>2, <1>1, <1>6
    <3>2. RootValueOffset(sig, k) = RootValueOffset(sig, i) + RootWords(sig[i])
      BY <3>1, <1>5, <1>6
    <3>3. RootValueOffset(sig, k) \in Nat
      BY <1>4
    <3> QED
      BY <3>1, <3>2, <3>3
  <2>3. CASE ~ i < k
    BY <2>3, <1>1
  <2> QED
    BY <2>1, <2>2, <2>3, <1>1, <1>6
<1>9. \A k \in 0 .. N + 1 : k \in Q
  <2> HIDE DEF Q
  <2> QED
    BY <1>1, <1>7, <1>8, Indices
<1> QED
  BY <1>9, <1>6, <1>1

-----------------------------------------------------------------------------
(* Registers. *)

(* A list of numbers is bounded, ... *)
LEMMA Bounded ==
  ASSUME NEW N \in Nat, NEW h \in [1 .. N -> Nat]
  PROVE  \E b \in Nat : \A i \in 1 .. N : h[i] <= b
<1> DEFINE Q == {k \in 0 .. N : \E b \in Nat : \A i \in 1 .. k : h[i] <= b}
<1>1. 0 \in Q
  OBVIOUS
<1>2. ASSUME NEW k \in 1 .. N, k - 1 \in Q
      PROVE  k \in Q
  <2>1. PICK b \in Nat : \A i \in 1 .. k - 1 : h[i] <= b
    BY <1>2
  <2>2. \A i \in 1 .. k : i = k \/ i \in 1 .. k - 1
    OBVIOUS
  <2>3. h[k] \in Nat /\ \A i \in 1 .. k : h[i] \in Nat
    OBVIOUS
  <2>4. \A i \in 1 .. k : h[i] <= b + h[k]
    BY <2>1, <2>2, <2>3
  <2>5. b + h[k] \in Nat /\ k \in 0 .. N
    BY <2>3
  <2> QED
    BY <2>4, <2>5
<1>3. \A k \in 0 .. N : k \in Q
  <2> HIDE DEF Q
  <2> QED
    BY <1>1, <1>2, Indices
<1>4. N \in 0 .. N
  OBVIOUS
<1> HIDE DEF Q
<1>5. N \in Q
  BY <1>3, <1>4
<1> QED
  BY <1>5 DEF Q

(* ... and has a greatest element if it is not empty.  A register count is *)
(* a number.  (PrepareHWRootSignature.)                                    *)
LEMMA MaxIsNumber ==
  ASSUME NEW S \in SUBSET Nat, 0 \in S, NEW b \in Nat, \A k \in S : k <= b
  PROVE  Max(S) \in Nat /\ \A k \in S : k <= Max(S)
<1>1. S \in SUBSET (0 .. b) /\ S # {}
  OBVIOUS
<1>2. Max(S) \in S /\ \A k \in S : k <= Max(S)
  BY <1>1, MaxExists
<1> QED
  BY <1>2

(* How far the registers of a parameter go: behind the last that has an    *)
(* address.  (PrepareHWRootSignature.)                                     *)
LEMMA RegistersEnd ==
  ASSUME NEW p \in RootParameters, NEW class \in Classes
  PROVE  /\ EndOfRegisters(p, class) \in Nat
         /\ \A r \in Ranges(p) : r.class = class => r.base + r.num <= EndOfRegisters(p, class)
         /\ p.type = "view" => (p.class = class => p.register + 1 <= EndOfRegisters(p, class))
<1> DEFINE OfRanges == {r.base + r.num : r \in {r \in Ranges(p) : r.class = class}}
           OfConstants == IF p.type = "constants" /\ class = "cbv"
                            THEN {p.register + 4 * ((p.num + 3) \div 4)} ELSE {}
           OfView == IF p.type = "view" THEN (IF p.class = class THEN {p.register + 1} ELSE {}) ELSE {}
           S == {0} \cup OfRanges \cup OfConstants \cup OfView
<1>1. ASSUME p.type = "table"
      PROVE  Max(S) \in Nat /\ \A k \in S : k <= Max(S)
  <2>1. /\ p.ranges \in Seq(DescriptorRanges)
        /\ Ranges(p) = {p.ranges[j] : j \in 1 .. Len(p.ranges)}
    BY <1>1, ParameterIs
  <2> DEFINE h == [j \in 1 .. Len(p.ranges) |-> p.ranges[j].base + p.ranges[j].num]
  <2>2. Len(p.ranges) \in Nat /\ \A j \in 1 .. Len(p.ranges) : p.ranges[j] \in DescriptorRanges
    BY <2>1
  <2>3. \A j \in 1 .. Len(p.ranges) : p.ranges[j].base + p.ranges[j].num \in Nat
    BY <2>2 DEF DescriptorRanges
  <2>4. h \in [1 .. Len(p.ranges) -> Nat]
    BY <2>3
  <2>5. PICK b \in Nat : \A j \in 1 .. Len(p.ranges) : h[j] <= b
    <3> HIDE DEF h
    <3> QED
      BY <2>2, <2>4, Bounded
  <2>6. \A k \in OfRanges : k \in Nat /\ k <= b
    <3> SUFFICES ASSUME NEW r \in Ranges(p), r.class = class
                 PROVE  r.base + r.num \in Nat /\ r.base + r.num <= b
      OBVIOUS
    <3>1. PICK j \in 1 .. Len(p.ranges) : r = p.ranges[j]
      BY <2>1
    <3>2. h[j] = r.base + r.num
      BY <3>1
    <3> QED
      BY <3>1, <3>2, <2>3, <2>5
  <2>7. OfConstants = {} /\ OfView = {}
    BY <1>1
  <2> HIDE DEF OfRanges, OfConstants, OfView
  <2>8. S \in SUBSET Nat /\ 0 \in S /\ \A k \in S : k <= b
    BY <2>6, <2>7
  <2>9. Max(S) \in Nat /\ \A k \in S : k <= Max(S)
    <3> HIDE DEF S
    <3> QED
      BY <2>8, MaxIsNumber
  <2> QED
    BY <2>9
<1>2. ASSUME p.type = "constants"
      PROVE  Max(S) \in Nat /\ \A k \in S : k <= Max(S)
  <2>1. p.register \in Nat /\ p.num \in Nat /\ Ranges(p) = {}
    BY <1>2, ParameterIs
  <2> DEFINE b == p.register + 4 * ((p.num + 3) \div 4)
  <2>2. b \in Nat
    <3>1. (p.num + 3) \div 4 \in Nat
      BY <2>1
    <3> QED
      BY <2>1, <3>1
  <2>3. OfRanges = {} /\ OfView = {} /\ OfConstants \subseteq {b}
    BY <1>2, <2>1
  <2> HIDE DEF OfRanges, OfConstants, OfView, b
  <2>4. S \in SUBSET Nat /\ 0 \in S /\ \A k \in S : k <= b
    BY <2>2, <2>3
  <2>5. Max(S) \in Nat /\ \A k \in S : k <= Max(S)
    <3> HIDE DEF S
    <3> QED
      BY <2>2, <2>4, MaxIsNumber
  <2> QED
    BY <2>5
<1>3. ASSUME p.type = "view"
      PROVE  Max(S) \in Nat /\ \A k \in S : k <= Max(S)
  <2>1. p.register \in Nat /\ Ranges(p) = {}
    BY <1>3, ParameterIs
  <2> DEFINE b == p.register + 1
  <2>2. b \in Nat
    BY <2>1
  <2>3. OfRanges = {} /\ OfConstants = {} /\ OfView \subseteq {b}
    BY <1>3, <2>1
  <2> HIDE DEF OfRanges, OfConstants, OfView, b
  <2>4. S \in SUBSET Nat /\ 0 \in S /\ \A k \in S : k <= b
    BY <2>2, <2>3
  <2>5. Max(S) \in Nat /\ \A k \in S : k <= Max(S)
    <3> HIDE DEF S
    <3> QED
      BY <2>2, <2>4, MaxIsNumber
  <2> QED
    BY <2>5
<1>4. Max(S) \in Nat /\ \A k \in S : k <= Max(S)
  <2> HIDE DEF S
  <2> QED
    BY <1>1, <1>2, <1>3, ParameterIs
<1>5. EndOfRegisters(p, class) = Max(S)
  BY DEF EndOfRegisters
<1>6. \A r \in Ranges(p) : r.class = class => r.base + r.num \in S
  OBVIOUS
<1>7. p.type = "view" => (p.class = class => p.register + 1 \in S)
  OBVIOUS
<1> HIDE DEF S
<1> QED
  BY <1>4, <1>5, <1>6, <1>7

(* The sizes of the register tables.  (GetHwRootSignatureSize.) *)
LEMMA RegisterCounts ==
  ASSUME NEW sig \in Signatures, NEW class \in Classes
  PROVE  /\ NumRegisters(sig, class) \in Nat
         /\ \A i \in Parameters(sig) : EndOfRegisters(sig[i], class) <= NumRegisters(sig, class)
<1> DEFINE N == Len(sig)
           h == [i \in 1 .. N |-> EndOfRegisters(sig[i], class)]
           S == {0} \cup {EndOfRegisters(sig[i], class) : i \in Parameters(sig)}
<1>1. sig \in Seq(RootParameters)
  BY SizesAssumption
<1>2. N \in Nat /\ Parameters(sig) = 1 .. N /\ \A i \in 1 .. N : sig[i] \in RootParameters
  BY <1>1 DEF Parameters
<1>3. \A i \in 1 .. N : EndOfRegisters(sig[i], class) \in Nat
  BY <1>2, RegistersEnd
<1>4. h \in [1 .. N -> Nat]
  BY <1>3
<1>5. PICK b \in Nat : \A i \in 1 .. N : h[i] <= b
  <2> HIDE DEF h, N
  <2> QED
    BY <1>2, <1>4, Bounded
<1>6. S \in SUBSET Nat /\ 0 \in S /\ \A k \in S : k <= b
  BY <1>2, <1>3, <1>5
<1>7. Max(S) \in Nat /\ \A k \in S : k <= Max(S)
  <2> HIDE DEF S
  <2> QED
    BY <1>6, MaxIsNumber
<1>8. NumRegisters(sig, class) = Max(S)
  BY DEF NumRegisters, m_hwRootSignature
<1>9. \A i \in Parameters(sig) : EndOfRegisters(sig[i], class) \in S
  OBVIOUS
<1> HIDE DEF S
<1> QED
  BY <1>7, <1>8, <1>9

(* Where a register is, behind the command.  (WriteHWRootSignature.) *)
LEMMA RegisterPlaces ==
  ASSUME NEW sig \in Signatures
  PROVE  /\ HwRootSignatureSize(sig) \in Nat
         /\ \A class \in Classes, register \in Nat : RegisterOffset(sig, class, register) \in Nat
<1>1. NumRegisters(sig, "cbv") \in Nat /\ NumRegisters(sig, "srv") \in Nat
      /\ NumRegisters(sig, "uav") \in Nat
  BY RegisterCounts DEF Classes
<1>2. \A class \in Classes : RegisterSize(class) \in {2, 4}
  BY DEF RegisterSize
<1>3. RegisterSize("cbv") = 4 /\ RegisterSize("srv") = 2 /\ RegisterSize("uav") = 2
  BY DEF RegisterSize
<1>4. \A class \in Classes : HwViewTableOffset(sig, class) \in Nat
  BY <1>1, <1>3 DEF HwViewTableOffset, RootSignatureSetSize
<1>5. HwRootSignatureSize(sig) \in Nat
  BY <1>1, <1>3, <1>4 DEF HwRootSignatureSize, Classes
<1>6. ASSUME NEW class \in Classes, NEW register \in Nat
      PROVE  RegisterOffset(sig, class, register) \in Nat
  <2>1. CASE RegisterSize(class) = 2
    BY <2>1, <1>4 DEF RegisterOffset
  <2>2. CASE RegisterSize(class) = 4
    BY <2>2, <1>4 DEF RegisterOffset
  <2> QED
    BY <2>1, <2>2, <1>2
<1> QED
  BY <1>5, <1>6

-----------------------------------------------------------------------------
(* The inductive invariant. *)

References == [offset : Nat, alloc : Allocations]
PatchLocations == [at : Nat, index : Nat]
Buffers ==
  [sw : BOOLEAN, pos : Nat, allocs : Seq(Allocations), patches : Seq(PatchLocations),
   cmds : Seq([id : Nat, at : Nat])]

(* What a command buffer holds at any time. *)
BufferFits(b) ==
  /\ b \in Buffers
  /\ IsInjective(b.allocs)
  /\ b.pos + COMMAND_BUFFER_FLUSH_THRESHOLD <= CommandBufferSize
  /\ Len(b.allocs) + LIST_FLUSH_THRESHOLD <= AllocationListSize
  /\ Len(b.patches) + LIST_FLUSH_THRESHOLD <= PatchLocationListSize

BuffersInv ==
  /\ BufferFits(m_pCurCommandBuffer)
  /\ m_filledCommandBuffers \in Seq(Buffers)
  /\ \A i \in 1 .. Len(m_filledCommandBuffers) : BufferFits(m_filledCommandBuffers[i])
  /\ Len(m_filledCommandBuffers) <= MaxCommandBuffers
  /\ live = HeldBuffers

(* A list that records has a buffer, and room to put it aside. *)
RecordingInv ==
  list = "recording" =>
    /\ m_pCurCommandBuffer.pos >= GpuCommandSize
    /\ Len(m_filledCommandBuffers) <= MaxCommandBuffers - 1

(* The words of the root arguments are those of the arguments that were    *)
(* set for the current root signature.                                     *)
ArgumentFits(sig, i, value, words) ==
  /\ value \in Arguments(sig[i])
  /\ \A w \in 1 .. RootWords(sig[i]) :
       words[RootValueOffset(sig, i) + w - 1] = WordsOf(sig[i], value)[w]

ArgumentsInv ==
  /\ DOMAIN args \subseteq Parameters(m_pRootSignature)
  /\ \A i \in DOMAIN args : ArgumentFits(m_pRootSignature, i, args[i], m_rootValues)

TypesInv ==
  /\ list \in {"created", "recording", "closed", "removed", "crashed"}
  /\ m_pRootSignature \in Signatures
  /\ m_pDescriptors \in [0 .. HeapSize - 1 -> Allocations]
  /\ DOMAIN m_rootValues = RootValueWords
  /\ \E S : recorded \in Seq(S)
  /\ Len(recorded) <= MaxCommands

ListInv == TypesInv /\ ArgumentsInv /\ BuffersInv /\ RecordingInv
-----------------------------------------------------------------------------
(* Root arguments. *)

(* The current root signature. *)
LEMMA CurrentSignature ==
  ASSUME TypesInv
  PROVE  /\ m_pRootSignature \in Seq(RootParameters)
         /\ Parameters(m_pRootSignature) = 1 .. Len(m_pRootSignature)
         /\ Len(m_pRootSignature) \in Nat
         /\ \A i \in Parameters(m_pRootSignature) : m_pRootSignature[i] \in RootParameters
<1>1. m_pRootSignature \in Seq(RootParameters)
  BY SizesAssumption DEF TypesInv
<1> QED
  BY <1>1 DEF Parameters

(* As many words are written as are reserved for a parameter.              *)
(* (SetRootDescriptorTable, SetRoot32BitConstants, SetRootView.)           *)
LEMMA WordsAreReserved ==
  ASSUME NEW p \in RootParameters, NEW value
  PROVE  Len(WordsOf(p, value)) = RootWords(p)
<1>1. CASE p.type = "table"
  <2>1. WordsOf(p, value) = <<<<"offset", value>>>>
    BY <1>1 DEF WordsOf
  <2> QED
    BY <2>1, <1>1, ParameterIs
<1>2. CASE p.type = "constants"
  <2>1. WordsOf(p, value) = [w \in 1 .. p.num |-> <<"constant">>]
    BY <1>2 DEF WordsOf
  <2>2. p.num \in Nat /\ RootWords(p) = p.num
    BY <1>2, ParameterIs
  <2> QED
    BY <2>1, <2>2
<1>3. CASE p.type = "view"
  <2>1. WordsOf(p, value) = <<<<"offset", 0>>, <<"handle", value>>>>
    BY <1>3 DEF WordsOf
  <2> QED
    BY <2>1, <1>3, ParameterIs
<1> QED
  BY <1>1, <1>2, <1>3, ParameterIs

(* The words of a parameter are inside m_rootValues, and no word of        *)
(* another parameter.                                                      *)
LEMMA WordsAreApart ==
  ASSUME NEW sig \in Signatures, NEW i \in Parameters(sig), NEW w \in 1 .. RootWords(sig[i])
  PROVE  /\ RootValueOffset(sig, i) + w - 1 \in RootValueWords
         /\ RootValueOffset(sig, i) \in Nat /\ RootWords(sig[i]) \in Nat
         /\ \A j \in Parameters(sig) : j # i =>
              RootValueOffset(sig, i) + w - 1 \notin
                RootValueOffset(sig, j) .. RootValueOffset(sig, j) + RootWords(sig[j]) - 1
<1> DEFINE N == Len(sig)
<1>1. sig \in Seq(RootParameters)
  BY SizesAssumption
<1>2. N \in Nat /\ Parameters(sig) = 1 .. N /\ \A j \in 1 .. N : sig[j] \in RootParameters
  BY <1>1 DEF Parameters
<1>3. \A j \in 1 .. N : RootWords(sig[j]) \in Nat
  BY <1>2, ParameterNumbers
<1>4. \A j \in 1 .. N + 1 : RootValueOffset(sig, j) \in Nat
  BY <1>1, OffsetsFollow
<1>5. i \in 1 .. N /\ N + 1 \in 1 .. N + 1
  BY <1>2
<1>6. RootValueOffset(sig, i) + RootWords(sig[i]) <= RootValueOffset(sig, N + 1)
  BY <1>1, <1>2, <1>5, OffsetsGrow
<1>7. RootValueOffset(sig, N + 1) <= RootSignatureSize
  BY SizesAssumption
<1>8. i \in 1 .. N + 1 /\ RootValueOffset(sig, i) \in Nat /\ RootWords(sig[i]) \in Nat
      /\ RootValueOffset(sig, N + 1) \in Nat
  BY <1>2, <1>3, <1>4, <1>5
<1>9. RootValueOffset(sig, i) + w - 1 \in RootValueWords
  BY <1>6, <1>7, <1>8, Sizes DEF RootValueWords
<1>10. ASSUME NEW j \in Parameters(sig), j # i
       PROVE  RootValueOffset(sig, i) + w - 1 \notin
                RootValueOffset(sig, j) .. RootValueOffset(sig, j) + RootWords(sig[j]) - 1
  <2>1. j \in 1 .. N /\ j \in 1 .. N + 1
    BY <1>2
  <2>2. RootValueOffset(sig, j) \in Nat /\ RootWords(sig[j]) \in Nat
    BY <2>1, <1>3, <1>4
  <2>3. CASE i < j
    <3>1. RootValueOffset(sig, i) + RootWords(sig[i]) <= RootValueOffset(sig, j)
      BY <2>3, <2>1, <1>1, <1>5, OffsetsGrow
    <3>2. \A k, l, m, n \in Nat : \A v \in 1 .. m : k + m <= l => k + v - 1 \notin l .. l + n - 1
      OBVIOUS
    <3> QED
      BY <3>1, <3>2, <2>2, <1>8
  <2>4. CASE j < i
    <3>1. RootValueOffset(sig, j) + RootWords(sig[j]) <= RootValueOffset(sig, i)
      BY <2>4, <2>1, <1>1, <1>8, OffsetsGrow
    <3>2. \A k, l, m, n \in Nat : \A v \in 1 .. m : l + n <= k => k + v - 1 \notin l .. l + n - 1
      OBVIOUS
    <3> QED
      BY <3>1, <3>2, <2>2, <1>8
  <2> QED
    BY <2>3, <2>4, <2>1, <1>5, <1>10
<1> QED
  BY <1>8, <1>9, <1>10

(* Setting an argument leaves the words of the others.                     *)
LEMMA ArgumentSet ==
  ASSUME TypesInv, ArgumentsInv, NEW i \in Parameters(m_pRootSignature),
         NEW value \in Arguments(m_pRootSignature[i]), SetRootArgument(i, value)
  PROVE  ArgumentsInv' /\ DOMAIN m_rootValues' = RootValueWords
<1>1. PICK sig \in Signatures : sig = m_pRootSignature
  BY DEF TypesInv
<1>2. m_pRootSignature' = sig /\ i \in Parameters(sig) /\ value \in Arguments(sig[i])
      /\ sig[i] \in RootParameters
  BY <1>1, CurrentSignature DEF SetRootArgument
<1> DEFINE start == RootValueOffset(sig, i)
           words == WordsOf(sig[i], value)
<1>3. m_rootValues' = [w \in RootValueWords |->
        IF w \in start .. start + Len(words) - 1 THEN words[w - start + 1] ELSE m_rootValues[w]]
  BY <1>1 DEF SetRootArgument, WriteRootValues
<1>4. Len(words) = RootWords(sig[i])
  BY <1>2, WordsAreReserved
<1>5. args' = [j \in DOMAIN args \cup {i} |-> IF j = i THEN value ELSE args[j]]
  BY DEF SetRootArgument
<1>6. DOMAIN args' = {i} \cup DOMAIN args /\ args'[i] = value
      /\ \A j \in DOMAIN args \ {i} : args'[j] = args[j]
  BY <1>5
<1>7. DOMAIN args' \subseteq Parameters(sig)
  BY <1>1, <1>2, <1>6 DEF ArgumentsInv
<1>8. ASSUME NEW j \in DOMAIN args'
      PROVE  ArgumentFits(sig, j, args'[j], m_rootValues')
  <2>1. CASE j = i
    <3>1. ASSUME NEW w \in 1 .. RootWords(sig[i])
          PROVE  m_rootValues'[start + w - 1] = words[w]
      <4>1. start + w - 1 \in RootValueWords /\ start \in Nat /\ RootWords(sig[i]) \in Nat
        BY <1>2, WordsAreApart
      <4>2. start + w - 1 \in start .. start + Len(words) - 1 /\ (start + w - 1) - start + 1 = w
        <5> HIDE DEF start, words
        <5> QED
          BY <4>1, <1>4
      <4>3. m_rootValues'[start + w - 1] = words[(start + w - 1) - start + 1]
        <5> HIDE DEF start, words
        <5> QED
          BY <4>1, <4>2, <1>3
      <4> QED
        BY <4>2, <4>3
    <3>2. args'[j] = value
      BY <2>1, <1>6
    <3> QED
      BY <3>1, <3>2, <2>1, <1>2 DEF ArgumentFits
  <2>2. CASE j # i
    <3>1. j \in DOMAIN args /\ args'[j] = args[j] /\ j \in Parameters(sig)
      BY <2>2, <1>6, <1>7
    <3>2. ArgumentFits(sig, j, args[j], m_rootValues)
      BY <3>1, <1>1 DEF ArgumentsInv
    <3>3. ASSUME NEW w \in 1 .. RootWords(sig[j])
          PROVE  m_rootValues'[RootValueOffset(sig, j) + w - 1]
                   = m_rootValues[RootValueOffset(sig, j) + w - 1]
      <4>1. RootValueOffset(sig, j) + w - 1 \in RootValueWords
        BY <3>1, WordsAreApart
      <4>2. RootValueOffset(sig, j) + w - 1 \notin start .. start + RootWords(sig[i]) - 1
        BY <3>1, <2>2, <1>2, WordsAreApart
      <4> HIDE DEF start, words
      <4> QED
        BY <4>1, <4>2, <1>3, <1>4
    <3> QED
      BY <3>1, <3>2, <3>3 DEF ArgumentFits
  <2> QED
    BY <2>1, <2>2
<1>9. ArgumentsInv'
  BY <1>2, <1>7, <1>8 DEF ArgumentsInv
<1> QED
  BY <1>3, <1>9

-----------------------------------------------------------------------------
(* References. *)

(* What WriteHWRootSignature reads for a parameter that is set is what the *)
(* application has set: the words are where they were written.             *)
LEMMA ArgumentRead ==
  ASSUME TypesInv, ArgumentsInv, NEW i \in DOMAIN args,
         NEW sig \in Signatures, sig = m_pRootSignature
  PROVE  /\ i \in Parameters(sig) /\ sig[i] \in RootParameters
         /\ sig[i].type = "table" =>
              /\ TableOffset(sig, i) = args[i] /\ args[i] \in 0 .. HeapSize - 1
              /\ \A r \in Ranges(sig[i]) : args[i] + r.offset + r.num <= HeapSize
         /\ sig[i].type = "view" => ViewHandle(sig, i) = args[i] /\ args[i] \in Allocations
<1>1. i \in Parameters(sig) /\ ArgumentFits(sig, i, args[i], m_rootValues)
  BY DEF ArgumentsInv
<1>2. PICK p \in RootParameters : p = sig[i]
  BY <1>1, CurrentSignature
<1>3. args[i] \in Arguments(p)
      /\ \A w \in 1 .. RootWords(p) :
           m_rootValues[RootValueOffset(sig, i) + w - 1] = WordsOf(p, args[i])[w]
  BY <1>1, <1>2 DEF ArgumentFits
<1>4. \A w \in 1 .. RootWords(p) : RootValueOffset(sig, i) \in Nat
  BY <1>1, <1>2, WordsAreApart
<1>5. ASSUME p.type = "table"
      PROVE  /\ TableOffset(sig, i) = args[i] /\ args[i] \in 0 .. HeapSize - 1
             /\ \A r \in Ranges(p) : args[i] + r.offset + r.num <= HeapSize
  <2>1. WordsOf(p, args[i])[1] = <<"offset", args[i]>>
    BY <1>5 DEF WordsOf
  <2>2. 1 \in 1 .. RootWords(p)
    BY <1>5, ParameterIs
  <2>3. RootValueOffset(sig, i) \in Nat
        /\ m_rootValues[RootValueOffset(sig, i) + 1 - 1] = WordsOf(p, args[i])[1]
    BY <2>2, <1>3, <1>4
  <2>4. RootValueOffset(sig, i) + 1 - 1 = RootValueOffset(sig, i)
    BY <2>3
  <2>5. m_rootValues[RootValueOffset(sig, i)] = <<"offset", args[i]>>
    BY <2>1, <2>3, <2>4
  <2>6. TableOffset(sig, i) = args[i]
    BY <2>5 DEF TableOffset
  <2> QED
    BY <2>6, <1>3, <1>5 DEF Arguments
<1>6. ASSUME p.type = "view"
      PROVE  ViewHandle(sig, i) = args[i] /\ args[i] \in Allocations
  <2>1. WordsOf(p, args[i])[2] = <<"handle", args[i]>>
    BY <1>6 DEF WordsOf
  <2>2. 2 \in 1 .. RootWords(p)
    BY <1>6, ParameterIs
  <2>3. RootValueOffset(sig, i) \in Nat
        /\ m_rootValues[RootValueOffset(sig, i) + 2 - 1] = WordsOf(p, args[i])[2]
    BY <2>2, <1>3, <1>4
  <2>4. RootValueOffset(sig, i) + 2 - 1 = RootValueOffset(sig, i) + 1
    BY <2>3
  <2>5. m_rootValues[RootValueOffset(sig, i) + 1] = <<"handle", args[i]>>
    BY <2>1, <2>3, <2>4
  <2> QED
    BY <2>5, <1>3, <1>6 DEF ViewHandle, Arguments
<1> QED
  BY <1>1, <1>2, <1>5, <1>6

(* The references of a descriptor range that is bound: to what its         *)
(* descriptors refer to.                                                   *)
LEMMA RangeFound ==
  ASSUME TypesInv, ArgumentsInv, NEW i \in DOMAIN args,
         NEW sig \in Signatures, sig = m_pRootSignature, sig[i].type = "table",
         NEW r \in Ranges(sig[i])
  PROVE  /\ r \in DescriptorRanges /\ r.num \in Nat
         /\ RangeReferences(sig, i, r) \in Seq(References)
         /\ Len(RangeReferences(sig, i, r)) = r.num
         /\ \A k \in 1 .. r.num :
              /\ RangeReferences(sig, i, r)[k].offset = RegisterOffset(sig, r.class, r.base + k - 1)
              /\ RangeReferences(sig, i, r)[k].alloc = m_pDescriptors[args[i] + r.offset + k - 1]
              /\ m_pDescriptors[args[i] + r.offset + k - 1] \in Allocations
<1>1. /\ TableOffset(sig, i) = args[i] /\ args[i] \in 0 .. HeapSize - 1
      /\ args[i] + r.offset + r.num <= HeapSize
  BY ArgumentRead
<1>2. r \in DescriptorRanges
  BY ArgumentRead, ParameterNumbers
<1>3. r.class \in Classes /\ r.base \in Nat /\ r.num \in Nat /\ r.offset \in Nat
  BY <1>2 DEF DescriptorRanges
<1>4. ASSUME NEW k \in 1 .. r.num
      PROVE  /\ [offset |-> RegisterOffset(sig, r.class, r.base + k - 1),
                 alloc |-> m_pDescriptors[args[i] + r.offset + k - 1]] \in References
             /\ m_pDescriptors[args[i] + r.offset + k - 1] \in Allocations
  <2>1. r.base + k - 1 \in Nat
    BY <1>3
  <2>2. RegisterOffset(sig, r.class, r.base + k - 1) \in Nat
    BY <2>1, <1>3, RegisterPlaces
  <2>3. args[i] + r.offset + k - 1 \in 0 .. HeapSize - 1
    BY <1>1, <1>3, Sizes
  <2>4. m_pDescriptors[args[i] + r.offset + k - 1] \in Allocations
    BY <2>3 DEF TypesInv
  <2> QED
    BY <2>2, <2>4 DEF References
<1>5. RangeReferences(sig, i, r) =
        [k \in 1 .. r.num |-> [offset |-> RegisterOffset(sig, r.class, r.base + k - 1),
                               alloc |-> m_pDescriptors[args[i] + r.offset + k - 1]]]
  BY <1>1 DEF RangeReferences
<1>6. RangeReferences(sig, i, r) \in [1 .. r.num -> References]
  BY <1>4, <1>5
<1>7. RangeReferences(sig, i, r) \in Seq(References) /\ Len(RangeReferences(sig, i, r)) = r.num
  BY <1>3, <1>6
<1>8. ASSUME NEW k \in 1 .. r.num
      PROVE  /\ RangeReferences(sig, i, r)[k].offset = RegisterOffset(sig, r.class, r.base + k - 1)
             /\ RangeReferences(sig, i, r)[k].alloc = m_pDescriptors[args[i] + r.offset + k - 1]
  <2>1. RangeReferences(sig, i, r)[k] = [offset |-> RegisterOffset(sig, r.class, r.base + k - 1),
                                         alloc |-> m_pDescriptors[args[i] + r.offset + k - 1]]
    BY <1>5
  <2> QED
    BY <2>1
<1> QED
  BY <1>2, <1>3, <1>4, <1>7, <1>8

(* What WriteHWRootSignature finds for one parameter that is set: as many  *)
(* references as PrepareHWRootSignature has counted, to allocations.       *)
LEMMA ParameterFound ==
  ASSUME TypesInv, ArgumentsInv, NEW i \in DOMAIN args
  PROVE  /\ ParameterReferences(m_pRootSignature, i) \in Seq(References)
         /\ Len(ParameterReferences(m_pRootSignature, i)) = RegistersToPatch(m_pRootSignature[i])
         /\ RegistersToPatch(m_pRootSignature[i]) \in Nat
<1>1. PICK sig \in Signatures : sig = m_pRootSignature
  BY DEF TypesInv
<1>2. PICK p \in RootParameters : p = sig[i]
  BY <1>1, ArgumentRead
<1>3. CASE p.type = "table"
  <2>1. /\ p.ranges \in Seq(DescriptorRanges) /\ RootWords(p) = 1
        /\ Ranges(p) = {p.ranges[j] : j \in 1 .. Len(p.ranges)}
        /\ Len(p.ranges) \in Nat /\ DOMAIN p.ranges = 1 .. Len(p.ranges)
        /\ \A j \in 1 .. Len(p.ranges) : p.ranges[j] \in DescriptorRanges
    BY <1>3, ParameterIs
  <2>2. \A r \in Ranges(p) :
          /\ RangeReferences(sig, i, r) \in Seq(References)
          /\ Len(RangeReferences(sig, i, r)) = r.num
          /\ r.num \in Nat
    BY <1>1, <1>2, <1>3, RangeFound
  <2> DEFINE seqs == [j \in DOMAIN p.ranges |-> RangeReferences(sig, i, p.ranges[j])]
  <2>3. \A j \in 1 .. Len(p.ranges) : p.ranges[j] \in Ranges(p)
    BY <2>1
  <2>4. seqs \in [1 .. Len(p.ranges) -> Seq(References)]
    BY <2>1, <2>2, <2>3
  <2>5. seqs \in Seq(Seq(References)) /\ Len(seqs) = Len(p.ranges)
    <3> HIDE DEF seqs
    <3> QED
      BY <2>1, <2>4
  <2>6. /\ FlattenSeq(seqs) \in Seq(References)
        /\ Len(FlattenSeq(seqs)) = Total([j \in 1 .. Len(seqs) |-> Len(seqs[j])])
    <3> HIDE DEF seqs
    <3> QED
      BY <2>5, Flattened
  <2>7. [j \in 1 .. Len(seqs) |-> Len(seqs[j])] = [j \in DOMAIN p.ranges |-> p.ranges[j].num]
    <3>1. \A j \in 1 .. Len(p.ranges) : Len(seqs[j]) = p.ranges[j].num
      BY <2>1, <2>2, <2>3
    <3> HIDE DEF seqs
    <3> QED
      BY <3>1, <2>1, <2>5
  <2>8. ParameterReferences(sig, i) = FlattenSeq(seqs)
         /\ RegistersToPatch(p) = Total([j \in DOMAIN p.ranges |-> p.ranges[j].num])
    BY <1>3, <1>2 DEF ParameterReferences, RegistersToPatch
  <2> HIDE DEF seqs
  <2>9. Len(FlattenSeq(seqs)) \in Nat
    BY <2>6
  <2> QED
    BY <1>1, <1>2, <2>6, <2>7, <2>8, <2>9
<1>4. CASE p.type = "constants"
  <2>1. ParameterReferences(sig, i) = <<>> /\ RegistersToPatch(p) = 0
    BY <1>4, <1>2 DEF ParameterReferences, RegistersToPatch
  <2> QED
    BY <2>1, <1>1, <1>2
<1>5. CASE p.type = "view"
  <2>1. p.class \in Classes /\ p.register \in Nat /\ RootWords(p) = 2
    BY <1>5, ParameterIs
  <2>2. ViewHandle(sig, i) = args[i] /\ args[i] \in Allocations
    BY <1>1, <1>2, <1>5, ArgumentRead
  <2>3. RegisterOffset(sig, p.class, p.register) \in Nat
    BY <2>1, RegisterPlaces
  <2>4. ParameterReferences(sig, i) =
          <<[offset |-> RegisterOffset(sig, p.class, p.register), alloc |-> args[i]]>>
        /\ RegistersToPatch(p) = 1
    BY <2>2, <1>5, <1>2 DEF ParameterReferences, RegistersToPatch
  <2>5. PICK ref \in References :
          ref = [offset |-> RegisterOffset(sig, p.class, p.register), alloc |-> args[i]]
    BY <2>2, <2>3 DEF References
  <2>6. ParameterReferences(sig, i) = <<ref>>
    BY <2>4, <2>5
  <2>7. <<ref>> \in Seq(References) /\ Len(<<ref>>) = 1
    OBVIOUS
  <2>8. /\ ParameterReferences(sig, i) \in Seq(References)
        /\ Len(ParameterReferences(sig, i)) = 1
        /\ RegistersToPatch(p) = 1
    BY <2>4, <2>6, <2>7
  <2> QED
    BY <2>8, <1>1, <1>2
<1> QED
  BY <1>3, <1>4, <1>5, ParameterIs

(* A dispatch whose arguments are all set refers to as many allocations as *)
(* its reservation was made for.  (WriteHWRootSignature, Dispatch.)        *)
LEMMA DispatchFound ==
  ASSUME TypesInv, ArgumentsInv, DOMAIN args = Parameters(m_pRootSignature)
  PROVE  /\ HwReferences(m_pRootSignature) \in Seq(References)
         /\ Len(HwReferences(m_pRootSignature)) = NumRegistersToPatch(m_pRootSignature)
<1>1. PICK sig \in Signatures : sig = m_pRootSignature
  BY DEF TypesInv
<1>2. Parameters(sig) = 1 .. Len(sig) /\ Len(sig) \in Nat /\ DOMAIN args = Parameters(sig)
  BY <1>1, CurrentSignature
<1> DEFINE seqs == [i \in Parameters(sig) |-> ParameterReferences(sig, i)]
<1>3. \A i \in Parameters(sig) :
        /\ ParameterReferences(sig, i) \in Seq(References)
        /\ Len(ParameterReferences(sig, i)) = RegistersToPatch(sig[i])
  BY <1>1, <1>2, ParameterFound
<1>4. seqs \in [1 .. Len(sig) -> Seq(References)]
  BY <1>2, <1>3
<1>5. seqs \in Seq(Seq(References)) /\ Len(seqs) = Len(sig)
  <2> HIDE DEF seqs
  <2> QED
    BY <1>2, <1>4
<1>6. /\ FlattenSeq(seqs) \in Seq(References)
      /\ Len(FlattenSeq(seqs)) = Total([i \in 1 .. Len(seqs) |-> Len(seqs[i])])
  <2> HIDE DEF seqs
  <2> QED
    BY <1>5, Flattened
<1>7. [i \in 1 .. Len(seqs) |-> Len(seqs[i])] = [i \in Parameters(sig) |-> RegistersToPatch(sig[i])]
  <2>1. \A i \in 1 .. Len(sig) : Len(seqs[i]) = RegistersToPatch(sig[i])
    BY <1>2, <1>3
  <2> HIDE DEF seqs
  <2> QED
    BY <2>1, <1>2, <1>5
<1> QED
  BY <1>1, <1>6, <1>7 DEF HwReferences, NumRegistersToPatch

-----------------------------------------------------------------------------
(* Command buffers. *)

(* Recording one reference: an entry of the patch location list, and one   *)
(* of the allocation list unless the allocation is there.  (UseAllocation, *)
(* SetPatchLocation.)                                                      *)
LEMMA Referred ==
  ASSUME NEW b \in Buffers, NEW ref \in References
  PROVE  /\ Refer(b, ref) \in Buffers
         /\ Refer(b, ref).pos = b.pos /\ Refer(b, ref).sw = b.sw /\ Refer(b, ref).cmds = b.cmds
         /\ Len(Refer(b, ref).patches) = Len(b.patches) + 1
         /\ Len(Refer(b, ref).allocs) <= Len(b.allocs) + 1
         /\ IsInjective(b.allocs) => IsInjective(Refer(b, ref).allocs)
<1> DEFINE used == UseAllocation(b, ref.alloc)
           found == {i \in 1 .. Len(used.allocs) : used.allocs[i] = ref.alloc}
           index == SelectInSeq(used.allocs, LAMBDA a : a = ref.alloc)
           entry == [at |-> b.pos + ref.offset, index |-> index]
<1>1. /\ b.allocs \in Seq(Allocations) /\ Len(b.allocs) \in Nat /\ b.pos \in Nat
      /\ b.patches \in Seq(PatchLocations) /\ ref.alloc \in Allocations /\ ref.offset \in Nat
  BY DEF Buffers, References
<1>2. /\ used \in Buffers /\ used.pos = b.pos /\ used.patches = b.patches
      /\ used.sw = b.sw /\ used.cmds = b.cmds
      /\ used.allocs \in Seq(Allocations) /\ Len(used.allocs) \in Nat
      /\ Len(used.allocs) <= Len(b.allocs) + 1
      /\ IsInjective(b.allocs) => IsInjective(used.allocs)
  <2>1. CASE Contains(b.allocs, ref.alloc)
    <3>1. used = b
      BY <2>1 DEF UseAllocation
    <3> QED
      BY <3>1, <1>1
  <2>2. CASE ~Contains(b.allocs, ref.alloc)
    <3> DEFINE more == Append(b.allocs, ref.alloc)
    <3>1. used = [b EXCEPT !.allocs = more]
      BY <2>2 DEF UseAllocation
    <3>2. more \in Seq(Allocations) /\ Len(more) = Len(b.allocs) + 1
      BY <1>1
    <3>3. /\ used \in Buffers /\ used.pos = b.pos /\ used.patches = b.patches /\ used.allocs = more
          /\ used.sw = b.sw /\ used.cmds = b.cmds
      <4> HIDE DEF more, used
      <4> QED
        BY <3>1, <3>2 DEF Buffers
    <3>4. ASSUME IsInjective(b.allocs)
          PROVE  IsInjective(more)
      <4>1. \A i \in 1 .. Len(b.allocs) : b.allocs[i] # ref.alloc
        BY <2>2 DEF Contains
      <4>2. \A i, j \in 1 .. Len(b.allocs) : b.allocs[i] = b.allocs[j] => i = j
        BY <3>4, <1>1 DEF IsInjective
      <4>3. /\ DOMAIN more = 1 .. Len(b.allocs) + 1
            /\ more[Len(b.allocs) + 1] = ref.alloc
            /\ \A i \in 1 .. Len(b.allocs) : more[i] = b.allocs[i]
        BY <1>1
      <4> HIDE DEF more
      <4>4. ASSUME NEW i \in 1 .. Len(b.allocs) + 1, NEW j \in 1 .. Len(b.allocs) + 1,
                   more[i] = more[j]
            PROVE  i = j
        <5>1. /\ i \in 1 .. Len(b.allocs) \/ i = Len(b.allocs) + 1
              /\ j \in 1 .. Len(b.allocs) \/ j = Len(b.allocs) + 1
          BY <1>1
        <5>2. CASE i \in 1 .. Len(b.allocs) /\ j \in 1 .. Len(b.allocs)
          BY <5>2, <4>2, <4>3, <4>4
        <5>3. CASE i \in 1 .. Len(b.allocs) /\ j = Len(b.allocs) + 1
          BY <5>3, <4>1, <4>3, <4>4
        <5>4. CASE i = Len(b.allocs) + 1 /\ j \in 1 .. Len(b.allocs)
          BY <5>4, <4>1, <4>3, <4>4
        <5> QED
          BY <5>1, <5>2, <5>3, <5>4
      <4> QED
        BY <4>3, <4>4 DEF IsInjective
    <3> HIDE DEF more, used
    <3> QED
      BY <3>2, <3>3, <3>4, <1>1
  <2> QED
    BY <2>1, <2>2
<1>3. index \in Nat
  <2> HIDE DEF used
  <2>1. index = IF found # {} THEN Min(found) ELSE 0
    BY DEF SelectInSeq
  <2>2. CASE found = {}
    BY <2>1, <2>2
  <2>3. CASE found # {}
    <3>1. found \subseteq Nat
      OBVIOUS
    <3> HIDE DEF found
    <3>2. \E x \in found : \A y \in found : x <= y
      BY <3>1, <2>3, LeastNumber
    <3>3. Min(found) \in found
      BY <3>2 DEF Min
    <3> QED
      BY <2>1, <2>3, <3>1, <3>3
  <2> QED
    BY <2>2, <2>3
<1>4. entry \in PatchLocations
  <2> HIDE DEF index
  <2> QED
    BY <1>1, <1>3 DEF PatchLocations
<1>5. Refer(b, ref) = [used EXCEPT !.patches = Append(@, entry)]
  BY DEF Refer
<1> HIDE DEF used, entry, index
<1>6. Append(used.patches, entry) \in Seq(PatchLocations)
      /\ Len(Append(used.patches, entry)) = Len(b.patches) + 1
  BY <1>1, <1>2, <1>4
<1> QED
  BY <1>2, <1>5, <1>6 DEF Buffers

(* Recording the references of a command one after the other.              *)
LEMMA ReferredInTurn ==
  ASSUME NEW b \in Buffers, IsInjective(b.allocs), NEW refs \in Seq(References)
  PROVE  /\ FoldLeft(Refer, b, refs) \in Buffers
         /\ FoldLeft(Refer, b, refs).pos = b.pos
         /\ FoldLeft(Refer, b, refs).sw = b.sw /\ FoldLeft(Refer, b, refs).cmds = b.cmds
         /\ Len(FoldLeft(Refer, b, refs).patches) = Len(b.patches) + Len(refs)
         /\ Len(FoldLeft(Refer, b, refs).allocs) <= Len(b.allocs) + Len(refs)
         /\ IsInjective(FoldLeft(Refer, b, refs).allocs)
<1> DEFINE N == Len(refs)
           Step == [x \in Buffers \X References |-> Refer(x[1], x[2])]
           Fold(f) == f = [I \in SUBSET (1 .. N) |->
                             IF I = {} THEN b ELSE Refer(f[I \ {Max(I)}], refs[Max(I)])]
           c == CHOOSE f : Fold(f)
<1>1. N \in Nat /\ DOMAIN refs = 1 .. N /\ refs \in [1 .. N -> References]
      /\ \A k \in 1 .. N : refs[k] \in References
  OBVIOUS
<1>2. FoldLeft(Refer, b, refs) = c[1 .. N]
  BY <1>1 DEF FoldLeft, MapThenFoldSet
<1>3. Step \in [Buffers \X References -> Buffers]
  BY Referred
<1>4. \E f : Fold(f)
  <2>1. PICK f : Tabulated(Buffers, Step, b, N, refs, f)
    <3> HIDE DEF Step, N
    <3> QED
      BY <1>1, <1>3, FoldExists
  <2>2. /\ f \in [SUBSET (1 .. N) -> Buffers]
        /\ \A I \in SUBSET (1 .. N) :
             f[I] = IF I = {} THEN b ELSE Step[<<f[I \ {Max(I)}], refs[Max(I)]>>]
    <3> HIDE DEF Step, N
    <3> QED
      BY <2>1 DEF Tabulated
  <2>3. ASSUME NEW I \in SUBSET (1 .. N)
        PROVE  f[I] = IF I = {} THEN b ELSE Refer(f[I \ {Max(I)}], refs[Max(I)])
    <3>1. CASE I = {}
      BY <3>1, <2>2
    <3>2. CASE I # {}
      <4>1. Max(I) \in I
        <5>1. I \in SUBSET (0 .. N)
          OBVIOUS
        <5> QED
          BY <3>2, <5>1, <1>1, MaxExists
      <4>2. f[I \ {Max(I)}] \in Buffers /\ refs[Max(I)] \in References
        BY <4>1, <2>2, <1>1
      <4> QED
        BY <3>2, <4>2, <2>2
    <3> QED
      BY <3>1, <3>2
  <2>4. Fold(f)
    <3>1. f = [I \in SUBSET (1 .. N) |-> f[I]]
      BY <2>2
    <3> QED
      BY <2>3, <3>1
  <2> QED
    BY <2>4
<1>5. Fold(c)
  <2> HIDE DEF Fold
  <2> QED
    BY <1>4
<1>6. \A I \in SUBSET (1 .. N) :
        c[I] = IF I = {} THEN b ELSE Refer(c[I \ {Max(I)}], refs[Max(I)])
  <2> HIDE DEF c
  <2> QED
    BY <1>5
<1> HIDE DEF c
<1> DEFINE Good(e, k) ==
             /\ e \in Buffers /\ e.pos = b.pos /\ e.sw = b.sw /\ e.cmds = b.cmds
             /\ Len(e.patches) = Len(b.patches) + k
             /\ Len(e.allocs) <= Len(b.allocs) + k
             /\ IsInjective(e.allocs)
           Q == {k \in 0 .. N : Good(c[1 .. k], k)}
<1>7. 0 \in Q
  <2>1. 1 .. 0 = {} /\ 0 \in 0 .. N
    BY <1>1
  <2>2. c[1 .. 0] = b
    BY <2>1, <1>6
  <2>3. Len(b.patches) \in Nat /\ Len(b.allocs) \in Nat
    BY DEF Buffers
  <2> QED
    BY <2>1, <2>2, <2>3
<1>8. ASSUME NEW k \in 1 .. N, k - 1 \in Q
      PROVE  k \in Q
  <2>1. 1 .. k \in SUBSET (1 .. N) /\ k \in 0 .. N /\ k \in Nat /\ k # 0
    BY <1>1
  <2>2. c[1 .. k] = Refer(c[(1 .. k) \ {Max(1 .. k)}], refs[Max(1 .. k)])
    BY <2>1, <1>6, InitialSegments
  <2>3. PICK e : e = c[1 .. k - 1]
    OBVIOUS
  <2>4. c[1 .. k] = Refer(e, refs[k])
    BY <2>1, <2>2, <2>3, InitialSegments
  <2>5. Good(e, k - 1)
    BY <1>8, <2>3
  <2>6. e \in Buffers /\ refs[k] \in References
    BY <2>5, <1>1
  <2>7. /\ Refer(e, refs[k]) \in Buffers /\ Refer(e, refs[k]).pos = b.pos
        /\ Refer(e, refs[k]).sw = b.sw /\ Refer(e, refs[k]).cmds = b.cmds
        /\ Len(Refer(e, refs[k]).patches) = Len(e.patches) + 1
        /\ Len(Refer(e, refs[k]).allocs) <= Len(e.allocs) + 1
        /\ IsInjective(Refer(e, refs[k]).allocs)
    BY <2>5, <2>6, Referred
  <2>8. /\ Len(e.patches) \in Nat /\ Len(e.allocs) \in Nat /\ Len(b.patches) \in Nat
        /\ Len(b.allocs) \in Nat /\ Len(Refer(e, refs[k]).allocs) \in Nat
    <3>1. \A x \in Buffers : Len(x.patches) \in Nat /\ Len(x.allocs) \in Nat
      BY DEF Buffers
    <3> QED
      BY <3>1, <2>6, <2>7
  <2>9. Good(Refer(e, refs[k]), k)
    BY <2>1, <2>5, <2>7, <2>8, SMTT(30)
  <2> HIDE DEF Good
  <2> QED
    BY <2>1, <2>4, <2>9
<1>9. \A k \in 0 .. N : k \in Q
  <2> HIDE DEF Q, N
  <2> QED
    BY <1>1, <1>7, <1>8, Indices
<1>10. Good(c[1 .. N], N)
  <2>1. N \in Q
    <3> HIDE DEF Q, N
    <3> QED
      BY <1>1, <1>9
  <2> HIDE DEF Good
  <2> QED
    BY <2>1
<1> QED
  BY <1>2, <1>10


(* Changing the kind of an empty buffer.  (ReserveCommandBufferSpace.)     *)
LEMMA RetypedFits ==
  ASSUME NEW b, BufferFits(b), NEW sw \in BOOLEAN
  PROVE  /\ BufferFits(Retyped(b, sw)) /\ Retyped(b, sw) \in Buffers
         /\ Retyped(b, sw).pos = b.pos /\ Retyped(b, sw).allocs = b.allocs
         /\ Retyped(b, sw).patches = b.patches /\ Retyped(b, sw).cmds = b.cmds
<1>1. b \in Buffers
  BY DEF BufferFits
<1>2. /\ Retyped(b, sw) \in Buffers /\ Retyped(b, sw).pos = b.pos
      /\ Retyped(b, sw).allocs = b.allocs /\ Retyped(b, sw).patches = b.patches
      /\ Retyped(b, sw).cmds = b.cmds
  BY <1>1 DEF Retyped, Buffers
<1> QED
  BY <1>2 DEF BufferFits

(* Writing a command for which the reservation was made leaves the buffer  *)
(* within its limits.  (ReserveCommandBufferSpace, CommitCommandBufferSpace.) *)
LEMMA WrittenFits ==
  ASSUME NEW b, BufferFits(b), NEW sw \in BOOLEAN, NEW size \in Nat, NEW num \in Nat,
         NEW refs \in Seq(References), Len(refs) <= num, NEW id \in Nat,
         Fits(b, sw, size, num)
  PROVE  /\ BufferFits(Written(b, sw, size, refs, id))
         /\ Written(b, sw, size, refs, id).pos >= b.pos
         /\ Written(b, sw, size, refs, id).pos = b.pos + size
         /\ Written(b, sw, size, refs, id).sw = sw
         /\ Written(b, sw, size, refs, id).cmds = Append(b.cmds, [id |-> id, at |-> b.pos])
<1> DEFINE more == Append(b.cmds, [id |-> id, at |-> b.pos])
           start == [Retyped(b, sw) EXCEPT !.cmds = Append(@, [id |-> id, at |-> b.pos])]
           end == FoldLeft(Refer, start, refs)
<1>1. /\ b \in Buffers /\ b.pos \in Nat /\ Len(b.allocs) \in Nat /\ Len(b.patches) \in Nat
      /\ b.allocs \in Seq(Allocations) /\ b.patches \in Seq(PatchLocations)
      /\ b.cmds \in Seq([id : Nat, at : Nat]) /\ IsInjective(b.allocs) /\ Len(refs) \in Nat
  BY DEF BufferFits, Buffers
<1>2. /\ b.pos + size + 2 <= CommandBufferSize
      /\ Len(b.allocs) + num + 1 <= AllocationListSize
      /\ Len(b.patches) + num + 1 <= PatchLocationListSize
  BY DEF Fits, COMMAND_BUFFER_FLUSH_THRESHOLD, LIST_FLUSH_THRESHOLD
<1>3. /\ Retyped(b, sw) \in Buffers /\ Retyped(b, sw).pos = b.pos
      /\ Retyped(b, sw).allocs = b.allocs /\ Retyped(b, sw).patches = b.patches
      /\ Retyped(b, sw).cmds = b.cmds
  BY RetypedFits
<1>4. more \in Seq([id : Nat, at : Nat])
  <2>1. [id |-> id, at |-> b.pos] \in [id : Nat, at : Nat]
    BY <1>1
  <2> QED
    BY <2>1, <1>1
<1>5. PICK r \in Buffers : r = Retyped(b, sw)
  BY <1>3
<1>6. start = [r EXCEPT !.cmds = more]
  BY <1>3, <1>5
<1>7. /\ start \in Buffers /\ start.pos = b.pos /\ start.allocs = b.allocs
      /\ start.patches = b.patches /\ start.sw = r.sw /\ start.cmds = more
  <2> HIDE DEF start, more
  <2> QED
    BY <1>3, <1>4, <1>5, <1>6 DEF Buffers
<1>8. /\ end \in Buffers /\ end.pos = b.pos /\ IsInjective(end.allocs)
      /\ end.sw = r.sw /\ end.cmds = more
      /\ Len(end.patches) = Len(b.patches) + Len(refs)
      /\ Len(end.allocs) <= Len(b.allocs) + Len(refs)
  <2> HIDE DEF start, more
  <2>1. start \in Buffers /\ IsInjective(start.allocs)
    BY <1>1, <1>7
  <2>2. /\ end \in Buffers /\ end.pos = start.pos /\ IsInjective(end.allocs)
        /\ end.sw = start.sw /\ end.cmds = start.cmds
        /\ Len(end.patches) = Len(start.patches) + Len(refs)
        /\ Len(end.allocs) <= Len(start.allocs) + Len(refs)
    BY <2>1, ReferredInTurn
  <2> HIDE DEF end
  <2> QED
    BY <2>2, <1>7
<1>9. Written(b, sw, size, refs, id) = [end EXCEPT !.pos = @ + size]
  BY DEF Written
<1>10. /\ Len(end.allocs) \in Nat /\ Len(end.patches) \in Nat
       /\ Len(end.allocs) + 1 <= AllocationListSize
       /\ Len(end.patches) + 1 <= PatchLocationListSize
  <2> HIDE DEF end
  <2>1. Len(end.allocs) \in Nat /\ Len(end.patches) \in Nat
    BY <1>8 DEF Buffers
  <2>2. \A m, n, k, l, s \in Nat :
          n <= l /\ m <= s + n /\ s + l + 1 <= k => m + 1 <= k
    OBVIOUS
  <2>3. PICK l \in Nat, a \in Nat, p \in Nat :
          l = Len(refs) /\ a = Len(b.allocs) /\ p = Len(b.patches)
    BY <1>1
  <2>4. l <= num /\ a + num + 1 <= AllocationListSize /\ p + num + 1 <= PatchLocationListSize
    BY <2>3, <1>2
  <2>5. Len(end.allocs) <= a + l /\ Len(end.patches) = p + l
    BY <2>3, <1>8
  <2>6. Len(end.allocs) + 1 <= AllocationListSize
    BY <2>1, <2>2, <2>4, <2>5, Sizes
  <2>7. Len(end.patches) + 1 <= PatchLocationListSize
    BY <2>4, <2>5, Sizes
  <2> QED
    BY <2>1, <2>6, <2>7
<1> HIDE DEF end
<1>11. PICK w : w = [end EXCEPT !.pos = @ + size]
  OBVIOUS
<1>12. PICK e \in Buffers : e = end
  BY <1>8
<1>13. PICK pos \in Nat : pos = b.pos + size
  <2>1. b.pos + size \in Nat
    BY <1>1
  <2> QED
    BY <2>1
<1>14. w = [e EXCEPT !.pos = pos]
  BY <1>8, <1>11, <1>12, <1>13
<1>15. /\ w \in Buffers /\ w.pos = pos /\ w.allocs = e.allocs
       /\ w.patches = e.patches /\ w.sw = e.sw /\ w.cmds = e.cmds
  BY <1>14 DEF Buffers
<1>16. BufferFits(w) /\ w.pos >= b.pos
  <2>1. pos + 2 <= CommandBufferSize /\ pos >= b.pos
    BY <1>1, <1>2, <1>13
  <2> QED
    BY <2>1, <1>8, <1>10, <1>12, <1>15
       DEF BufferFits, COMMAND_BUFFER_FLUSH_THRESHOLD, LIST_FLUSH_THRESHOLD
<1>17. w.pos = b.pos + size /\ w.sw = sw /\ w.cmds = more
  <2>1. r.sw = sw
    BY <1>5 DEF Fits
  <2> HIDE DEF more
  <2> QED
    BY <2>1, <1>8, <1>12, <1>13, <1>15
<1> QED
  BY <1>9, <1>11, <1>16, <1>17

(* A new command buffer, and an empty one of which only the kind changes.  *)
LEMMA NewFits ==
  ASSUME NEW sw \in BOOLEAN
  PROVE  /\ BufferFits(NewCommandBuffer) /\ NewCommandBuffer.pos = GpuCommandSize
         /\ BufferFits(Retyped(NewCommandBuffer, sw))
         /\ Retyped(NewCommandBuffer, sw).pos = GpuCommandSize
         /\ BufferFits(Null)
         /\ NewCommandBuffer.cmds = << >> /\ Null.cmds = << >>
         /\ Retyped(NewCommandBuffer, sw).cmds = << >>
<1> DEFINE Blank(p) == [sw |-> TRUE, pos |-> p, allocs |-> << >>, patches |-> << >>, cmds |-> << >>]
<1>1. ASSUME NEW p \in {0, GpuCommandSize}
      PROVE  BufferFits(Blank(p)) /\ Blank(p).pos = p /\ Blank(p).cmds = << >>
  <2>1. p \in Nat /\ p + COMMAND_BUFFER_FLUSH_THRESHOLD <= CommandBufferSize
    BY Sizes DEF GpuCommandSize, COMMAND_BUFFER_FLUSH_THRESHOLD
  <2>2. /\ << >> \in Seq(Allocations) /\ << >> \in Seq(PatchLocations)
        /\ << >> \in Seq([id : Nat, at : Nat]) /\ Len(<< >>) = 0
    OBVIOUS
  <2>3. IsInjective(<< >>)
    BY DEF IsInjective
  <2>4. Blank(p) \in Buffers
    BY <2>1, <2>2 DEF Buffers
  <2>5. /\ 0 + LIST_FLUSH_THRESHOLD <= AllocationListSize
        /\ 0 + LIST_FLUSH_THRESHOLD <= PatchLocationListSize
    BY Sizes DEF LIST_FLUSH_THRESHOLD
  <2> QED
    BY <2>1, <2>2, <2>3, <2>4, <2>5 DEF BufferFits
<1>2. NewCommandBuffer = Blank(GpuCommandSize) /\ Null = Blank(0)
  BY DEF NewCommandBuffer, Null
<1>3. /\ BufferFits(NewCommandBuffer) /\ NewCommandBuffer.pos = GpuCommandSize /\ BufferFits(Null)
      /\ NewCommandBuffer.cmds = << >> /\ Null.cmds = << >>
  <2> HIDE DEF Blank
  <2> QED
    BY <1>1, <1>2
<1> QED
  BY <1>3, RetypedFits

(* A buffer that holds anything is not the missing one.                    *)
LEMMA NotNull ==
  ASSUME NEW b, b.pos >= GpuCommandSize
  PROVE  b # Null
BY DEF Null, GpuCommandSize

-----------------------------------------------------------------------------
(* What is recorded, in order. *)

(* Where the dispatch proper begins in a command: behind its registers. *)
Split(r) == IF r.kind = "dispatch" THEN HwRootSignatureSize(r.sig) ELSE 0

CommandFits(r) ==
  /\ r.sw \in BOOLEAN /\ r.size \in Nat
  /\ r.kind \in IF r.sw THEN {"copy"} ELSE {"dispatch", "meta"}
  /\ Split(r) \in Nat /\ Split(r) < r.size

(* Where the commands of a buffer lie, and which they are. *)
LaidOut(b, rec) ==
  /\ \A c \in 1 .. Len(b.cmds) :
       /\ b.cmds[c].id \in 1 .. Len(rec)
       /\ rec[b.cmds[c].id].sw = b.sw
       /\ b.cmds[c].at >= GpuCommandSize
       /\ b.cmds[c].at + rec[b.cmds[c].id].size <= b.pos
  /\ \A c, d \in 1 .. Len(b.cmds) : c < d =>
       /\ b.cmds[c].id < b.cmds[d].id
       /\ b.cmds[c].at + rec[b.cmds[c].id].size <= b.cmds[d].at

Precedes(a, b) ==
  \A c \in 1 .. Len(a.cmds), d \in 1 .. Len(b.cmds) : a.cmds[c].id < b.cmds[d].id

Ids(b) == [c \in 1 .. Len(b.cmds) |-> b.cmds[c].id]
AllIds(s) == FlattenSeq([i \in 1 .. Len(s) |-> Ids(s[i])])

Counts(numbers, n) == numbers = [k \in 1 .. n |-> k]

(* The buffers s, and b behind them, hold the commands rec in order.       *)
Holds(s, b, rec) ==
  /\ \A n \in 1 .. Len(rec) : CommandFits(rec[n])
  /\ LaidOut(b, rec) /\ \A i \in 1 .. Len(s) : LaidOut(s[i], rec)
  /\ \A i, j \in 1 .. Len(s) : i < j => Precedes(s[i], s[j])
  /\ \A i \in 1 .. Len(s) : Precedes(s[i], b)
  /\ Counts(AllIds(s) \o Ids(b), Len(rec))

OrderInv ==
  /\ Holds(m_filledCommandBuffers, m_pCurCommandBuffer, recorded)
  /\ InOrder(submitted) /\ \E S : submitted \in Seq(S)

(* Appending to the second of two lists that are put together. *)
LEMMA ConcatAppend ==
  ASSUME NEW T, NEW s \in Seq(T), NEW t \in Seq(T), NEW x \in T,
         NEW tx \in Seq(T), NEW st \in Seq(T), tx = Append(t, x), st = s \o t
  PROVE  s \o tx = Append(st, x)
<1>3. s \o tx \in Seq(T) /\ Append(st, x) \in Seq(T)
  OBVIOUS
<1>4. PICK l \in Seq(T), r \in Seq(T) : l = s \o tx /\ r = Append(st, x)
  BY <1>3
<1>5. /\ Len(s) \in Nat /\ Len(t) \in Nat /\ Len(tx) = Len(t) + 1 /\ Len(st) = Len(s) + Len(t)
      /\ Len(l) = Len(s) + Len(tx) /\ Len(r) = Len(st) + 1
  BY <1>4
<1>6. ASSUME NEW i \in 1 .. Len(l)
      PROVE  l[i] = r[i]
  <2>1. CASE i \in 1 .. Len(s)
    <3>1. l[i] = s[i]
      BY <2>1, <1>4, <1>5
    <3>2. st[i] = s[i] /\ i \in 1 .. Len(st)
      BY <2>1, <1>5
    <3>3. r[i] = st[i]
      BY <3>2, <1>4
    <3> QED
      BY <3>1, <3>2, <3>3
  <2>2. CASE i \in Len(s) + 1 .. Len(s) + Len(t)
    <3>1. l[i] = tx[i - Len(s)] /\ i - Len(s) \in 1 .. Len(t)
      BY <2>2, <1>4, <1>5
    <3>2. tx[i - Len(s)] = t[i - Len(s)]
      BY <3>1
    <3>3. st[i] = t[i - Len(s)] /\ i \in 1 .. Len(st)
      BY <2>2, <1>5
    <3>4. r[i] = st[i]
      BY <3>3, <1>4
    <3> QED
      BY <3>1, <3>2, <3>3, <3>4
  <2>3. CASE i = Len(s) + Len(t) + 1
    <3>1. l[i] = tx[i - Len(s)] /\ i - Len(s) = Len(t) + 1
      BY <2>3, <1>4, <1>5
    <3>2. tx[Len(t) + 1] = x
      OBVIOUS
    <3>3. r[i] = x
      BY <2>3, <1>4, <1>5
    <3> QED
      BY <3>1, <3>2, <3>3
  <2>4. \/ i \in 1 .. Len(s) \/ i \in Len(s) + 1 .. Len(s) + Len(t)
        \/ i = Len(s) + Len(t) + 1
    <3>1. PICK p \in Nat, q \in Nat : p = Len(s) /\ q = Len(t)
      BY <1>5
    <3>2. i \in 1 .. p + q + 1
      BY <3>1, <1>5
    <3>3. i \in 1 .. p \/ i \in p + 1 .. p + q \/ i = p + q + 1
      BY <3>2
    <3> QED
      BY <3>1, <3>3
  <2> QED
    BY <2>1, <2>2, <2>3, <2>4
<1>7. Len(l) = Len(r) /\ l = [i \in 1 .. Len(l) |-> l[i]] /\ r = [i \in 1 .. Len(r) |-> r[i]]
  BY <1>5
<1>8. l = r
  BY <1>6, <1>7
<1> QED
  BY <1>4, <1>8

(* A list of numbers with one more, entry by entry.                        *)
LEMMA AppendTable ==
  ASSUME NEW s \in Seq(Nat), NEW x \in Nat
  PROVE  Append(s, x) = [c \in 1 .. Len(s) + 1 |-> IF c = Len(s) + 1 THEN x ELSE s[c]]
<1>1. PICK r \in Seq(Nat) : r = Append(s, x)
  <2>1. Append(s, x) \in Seq(Nat)
    OBVIOUS
  <2> QED
    BY <2>1
<1>2. r = [c \in 1 .. Len(r) |-> r[c]]
  OBVIOUS
<1>3. /\ Len(s) \in Nat /\ Len(r) = Len(s) + 1 /\ r[Len(s) + 1] = x
      /\ \A c \in 1 .. Len(s) + 1 : c # Len(s) + 1 => r[c] = s[c]
  BY <1>1
<1> QED
  BY <1>1, <1>2, <1>3

(* The next command has the next number. *)
LEMMA NextNumber ==
  ASSUME NEW a \in Seq(Nat), NEW i \in Seq(Nat), NEW L \in Nat, Counts(a \o i, L),
         NEW ix, ix = Append(i, L + 1)
  PROVE  Counts(a \o ix, L + 1)
<1>1. a \o i \in Seq(Nat) /\ L + 1 \in Nat /\ ix \in Seq(Nat)
  OBVIOUS
<1>2. PICK all \in Seq(Nat), m \in Nat : all = a \o i /\ m = L + 1
  BY <1>1
<1>3. a \o ix = Append(all, m)
  <2>1. PICK y \in Seq(Nat) : y = ix /\ y = Append(i, m)
    <3>1. ix = Append(i, m)
      BY <1>2
    <3> QED
      BY <1>1, <3>1
  <2>2. a \o y = Append(all, m)
    <3>1. /\ a \in Seq(Nat) /\ i \in Seq(Nat) /\ m \in Nat /\ y \in Seq(Nat) /\ all \in Seq(Nat)
          /\ y = Append(i, m) /\ all = a \o i
      BY <1>2, <2>1
    <3> QED
      BY <3>1, ConcatAppend, SMTT(30)
  <2> QED
    BY <2>1, <2>2
<1>4. all = [k \in 1 .. L |-> k]
  BY <1>2 DEF Counts
<1>5. Len(all) = L
  <2>1. Len([k \in 1 .. L |-> k]) = L
    OBVIOUS
  <2> QED
    BY <2>1, <1>4, Zenon
<1>6. Append(all, m) \in Seq(Nat)
  OBVIOUS
<1>7. PICK r \in Seq(Nat) : r = Append(all, m)
  BY <1>6
<1>8. Len(r) = L + 1 /\ r[L + 1] = L + 1 /\ \A k \in 1 .. L : r[k] = k
  BY <1>2, <1>4, <1>5, <1>7
<1>9. r = [k \in 1 .. Len(r) |-> r[k]]
  OBVIOUS
<1>10. \A k \in 1 .. L + 1 : r[k] = k
  BY <1>8
<1>11. Counts(r, L + 1)
  BY <1>8, <1>9, <1>10 DEF Counts
<1> QED
  BY <1>3, <1>7, <1>11

(* What a command buffer keeps of a command.                               *)
LEMMA CommandsAre ==
  ASSUME NEW b \in Buffers
  PROVE  /\ Len(b.cmds) \in Nat /\ DOMAIN b.cmds = 1 .. Len(b.cmds)
         /\ \A c \in 1 .. Len(b.cmds) : b.cmds[c].id \in Nat /\ b.cmds[c].at \in Nat
         /\ ToSet(b.cmds) = {b.cmds[c] : c \in 1 .. Len(b.cmds)}
<1>1. PICK C : C = [id : Nat, at : Nat]
  OBVIOUS
<1>2. b.cmds \in Seq(C)
  BY <1>1 DEF Buffers
<1>3. PICK cmds \in Seq(C) : cmds = b.cmds
  BY <1>2
<1>4. Len(cmds) \in Nat /\ DOMAIN cmds = 1 .. Len(cmds) /\ \A c \in 1 .. Len(cmds) : cmds[c] \in C
  OBVIOUS
<1>5. \A x \in C : x.id \in Nat /\ x.at \in Nat
  BY <1>1
<1>6. ToSet(cmds) = {cmds[c] : c \in 1 .. Len(cmds)}
  BY <1>4 DEF ToSet
<1> QED
  BY <1>3, <1>4, <1>5, <1>6

(* The commands of one more buffer come behind those of the others.        *)
LEMMA AllIdsAppend ==
  ASSUME NEW s \in Seq(Buffers), NEW x \in Buffers
  PROVE  /\ AllIds(Append(s, x)) = AllIds(s) \o Ids(x)
         /\ AllIds(s) \in Seq(Nat) /\ Ids(x) \in Seq(Nat)
<1> DEFINE seqs == [i \in 1 .. Len(s) |-> Ids(s[i])]
           more == [i \in 1 .. Len(Append(s, x)) |-> Ids(Append(s, x)[i])]
<1>1. ASSUME NEW b \in Buffers
      PROVE  Ids(b) \in Seq(Nat)
  <2>1. Len(b.cmds) \in Nat /\ \A c \in 1 .. Len(b.cmds) : b.cmds[c].id \in Nat
    BY CommandsAre
  <2> QED
    BY <2>1 DEF Ids
<1>2. seqs \in Seq(Seq(Nat)) /\ Len(seqs) = Len(s) /\ Len(s) \in Nat
  <2>1. \A i \in 1 .. Len(s) : Ids(s[i]) \in Seq(Nat)
    BY <1>1
  <2> QED
    BY <2>1
<1>3. PICK t \in Seq(Nat) : t = Ids(x)
  BY <1>1
<1>4. more = Append(seqs, t)
  <2>0. PICK q : q = Append(s, x)
    OBVIOUS
  <2>1. /\ Len(q) = Len(s) + 1 /\ q[Len(s) + 1] = x
        /\ \A i \in 1 .. Len(s) : q[i] = s[i]
    BY <2>0, <1>2
  <2>2. more = [i \in 1 .. Len(s) + 1 |-> Ids(q[i])]
    BY <2>0, <2>1
  <2>3. ASSUME NEW i \in 1 .. Len(s) + 1
        PROVE  \/ i = Len(s) + 1 /\ Ids(q[i]) = t
               \/ i \in 1 .. Len(s) /\ Ids(q[i]) = seqs[i]
    <3>1. CASE i = Len(s) + 1
      <4>1. q[i] = x
        BY <3>1, <2>1
      <4>2. Ids(q[i]) = t
        BY <4>1, <1>3, Zenon
      <4> QED
        BY <3>1, <4>2
    <3>2. CASE i # Len(s) + 1
      <4>1. i \in 1 .. Len(s)
        BY <3>2, <1>2
      <4> QED
        BY <4>1, <3>2, <2>1
    <3> QED
      BY <3>1, <3>2
  <2> HIDE DEF seqs, more
  <2>4. Append(seqs, t) \in Seq(Seq(Nat))
    BY <1>2
  <2>5. PICK r \in Seq(Seq(Nat)) : r = Append(seqs, t)
    BY <2>4
  <2>6. /\ Len(r) = Len(s) + 1 /\ r[Len(s) + 1] = t
        /\ \A i \in 1 .. Len(s) : r[i] = seqs[i]
    BY <2>5, <1>2
  <2>7. r = [i \in 1 .. Len(r) |-> r[i]]
    OBVIOUS
  <2>8. \A i \in 1 .. Len(s) + 1 : r[i] = Ids(q[i])
    BY <2>3, <2>6
  <2> QED
    BY <2>2, <2>5, <2>6, <2>7, <2>8
<1>5. FlattenSeq(Append(seqs, t)) = FlattenSeq(seqs) \o t /\ FlattenSeq(seqs) \in Seq(Nat)
  <2> HIDE DEF seqs
  <2> QED
    BY <1>2, FlattenAppend
<1>6. AllIds(s) = FlattenSeq(seqs) /\ AllIds(Append(s, x)) = FlattenSeq(more)
  BY DEF AllIds
<1> HIDE DEF seqs, more
<1> QED
  BY <1>3, <1>4, <1>5, <1>6

(* An empty command buffer holds no command.  (IsCommandBufferEmpty.)      *)
LEMMA EmptyHasNone ==
  ASSUME NEW b \in Buffers, NEW rec, LaidOut(b, rec),
         \A n \in 1 .. Len(rec) : CommandFits(rec[n]), b.pos <= GpuCommandSize
  PROVE  b.cmds = << >>
<1>1. /\ b.cmds \in Seq([id : Nat, at : Nat]) /\ b.pos \in Nat /\ Len(b.cmds) \in Nat
      /\ \A c \in 1 .. Len(b.cmds) : b.cmds[c].at \in Nat
  BY CommandsAre DEF Buffers
<1>2. CASE Len(b.cmds) = 0
  BY <1>1, <1>2
<1>3. CASE Len(b.cmds) # 0
  <2>1. 1 \in 1 .. Len(b.cmds)
    BY <1>1, <1>3
  <2>2. PICK n \in 1 .. Len(rec) : n = b.cmds[1].id
    BY <2>1 DEF LaidOut
  <2>3. rec[n].size \in Nat /\ rec[n].size > 0
    BY DEF CommandFits
  <2>4. PICK at \in Nat, size \in Nat : at = b.cmds[1].at /\ size = rec[n].size /\ size > 0
    BY <1>1, <2>1, <2>3
  <2>5. at >= 8 /\ at + size <= b.pos /\ b.pos <= 8
    <3>1. /\ b.cmds[1].at >= GpuCommandSize
          /\ b.cmds[1].at + rec[b.cmds[1].id].size <= b.pos
      BY <2>1 DEF LaidOut
    <3> QED
      BY <3>1, <2>2, <2>4 DEF GpuCommandSize
  <2>6. b.pos \in Nat
    BY <1>1
  <2> QED
    BY <2>4, <2>5, <2>6, SMTT(30)
<1> QED
  BY <1>2, <1>3

(* A buffer is put aside as it is, but for the kind of an empty one, and   *)
(* nothing is in the next one yet.  (PrepareNewCommandBuffer, Close.)      *)
LEMMA PutAsideHolds ==
  ASSUME NEW s \in Seq(Buffers), NEW b \in Buffers, NEW x \in Buffers, NEW n \in Buffers,
         NEW rec, Holds(s, b, rec), x.cmds = b.cmds, x.pos = b.pos,
         x.sw = b.sw \/ b.cmds = << >>, n.cmds = << >>
  PROVE  Holds(Append(s, x), n, rec)
<1>1. PICK t \in Seq(Buffers) : t = Append(s, x)
  <2>1. Append(s, x) \in Seq(Buffers)
    OBVIOUS
  <2> QED
    BY <2>1
<1>2. /\ Len(s) \in Nat /\ Len(t) = Len(s) + 1 /\ t[Len(s) + 1] = x
      /\ \A i \in 1 .. Len(s) : t[i] = s[i]
      /\ \A i \in 1 .. Len(t) : i \in 1 .. Len(s) \/ i = Len(s) + 1
  BY <1>1
<1>3. LaidOut(x, rec)
  BY DEF Holds, LaidOut
<1>4. LaidOut(n, rec)
  BY DEF LaidOut
<1>5. \A i \in 1 .. Len(t) : LaidOut(t[i], rec)
  BY <1>2, <1>3 DEF Holds
<1>6. \A i \in 1 .. Len(s) : Precedes(s[i], x)
  BY DEF Holds, Precedes
<1>7. ASSUME NEW i \in 1 .. Len(t), NEW j \in 1 .. Len(t), i < j
      PROVE  Precedes(t[i], t[j])
  <2>1. i \in 1 .. Len(s)
    BY <1>2, <1>7
  <2>2. CASE j \in 1 .. Len(s)
    BY <2>1, <2>2, <1>2, <1>7 DEF Holds
  <2>3. CASE j = Len(s) + 1
    BY <2>1, <2>3, <1>2, <1>6
  <2> QED
    BY <2>2, <2>3, <1>2
<1>8. \A i \in 1 .. Len(t) : Precedes(t[i], n)
  BY DEF Precedes
<1>9. Counts(AllIds(t) \o Ids(n), Len(rec))
  <2>1. AllIds(t) = AllIds(s) \o Ids(x) /\ AllIds(s) \in Seq(Nat) /\ Ids(x) \in Seq(Nat)
    BY <1>1, AllIdsAppend
  <2>2. Ids(x) = Ids(b)
    BY DEF Ids
  <2>3. Ids(n) = << >>
    BY DEF Ids
  <2>4. AllIds(t) \in Seq(Nat)
    BY <2>1
  <2>5. AllIds(t) \o << >> = AllIds(t)
    BY <2>4
  <2> QED
    BY <2>1, <2>2, <2>3, <2>5 DEF Holds
<1>10. \A k \in 1 .. Len(rec) : CommandFits(rec[k])
  BY DEF Holds
<1>11. Holds(t, n, rec)
  BY <1>4, <1>5, <1>7, <1>8, <1>9, <1>10 DEF Holds
<1> QED
  BY <1>1, <1>11

(* A command is written behind those of its buffer, and is the last one    *)
(* recorded.  (ReserveCommandBufferSpace, CommitCommandBufferSpace.)       *)
LEMMA WrittenHolds ==
  ASSUME NEW s \in Seq(Buffers), NEW b \in Buffers, NEW w \in Buffers, NEW S, NEW rec \in Seq(S),
         Holds(s, b, rec), NEW command, CommandFits(command),
         w.cmds = Append(b.cmds, [id |-> Len(rec) + 1, at |-> b.pos]),
         w.pos = b.pos + command.size, w.sw = command.sw,
         b.sw = command.sw \/ b.cmds = << >>, b.pos >= GpuCommandSize
  PROVE  Holds(s, w, Append(rec, command))
<1> DEFINE N == Len(b.cmds)
           L == Len(rec)
<1>1. /\ b.cmds \in Seq([id : Nat, at : Nat]) /\ b.pos \in Nat /\ N \in Nat /\ L \in Nat
      /\ command.size \in Nat /\ L + 1 \in Nat
      /\ \A c \in 1 .. N : b.cmds[c].id \in Nat /\ b.cmds[c].at \in Nat
  <2>1. b.cmds \in Seq([id : Nat, at : Nat]) /\ b.pos \in Nat
    BY DEF Buffers
  <2>2. N \in Nat /\ \A c \in 1 .. N : b.cmds[c].id \in Nat /\ b.cmds[c].at \in Nat
    BY CommandsAre
  <2>3. L \in Nat /\ command.size \in Nat
    BY DEF CommandFits
  <2> QED
    BY <2>1, <2>2, <2>3
<1>2. PICK more : more = Append(rec, command)
  OBVIOUS
<1>3. Len(more) = L + 1 /\ more[L + 1] = command /\ \A n \in 1 .. L : more[n] = rec[n]
  <2>1. rec \in Seq(S \cup {command})
    OBVIOUS
  <2> QED
    BY <2>1, <1>2
<1>4. \A n \in 1 .. Len(more) : CommandFits(more[n])
  <2>1. \A n \in 1 .. L + 1 : n \in 1 .. L \/ n = L + 1
    BY <1>1
  <2> QED
    BY <2>1, <1>3 DEF Holds
<1>5. PICK new : new = [id |-> L + 1, at |-> b.pos]
  OBVIOUS
<1>6. new.id = L + 1 /\ new.at = b.pos /\ new \in [id : Nat, at : Nat]
  BY <1>1, <1>5
<1>7. /\ Len(w.cmds) = N + 1 /\ w.cmds[N + 1] = new
      /\ \A c \in 1 .. N : w.cmds[c] = b.cmds[c]
      /\ \A c \in 1 .. N + 1 : c \in 1 .. N \/ c = N + 1
  <2>1. w.cmds = Append(b.cmds, new)
    BY <1>5
  <2> QED
    BY <2>1, <1>1, <1>6, SMTT(30)
<1>8. ASSUME NEW x \in Buffers, LaidOut(x, rec)
      PROVE  LaidOut(x, more) /\ \A c \in 1 .. Len(x.cmds) : x.cmds[c].id < L + 1
  <2>1. \A c \in 1 .. Len(x.cmds) :
          /\ x.cmds[c].id \in 1 .. L /\ more[x.cmds[c].id] = rec[x.cmds[c].id]
          /\ x.cmds[c].id \in 1 .. Len(more)
          /\ x.cmds[c].id < L + 1
    <3> TAKE c \in 1 .. Len(x.cmds)
    <3>1. PICK id \in 1 .. L : id = x.cmds[c].id
      BY <1>8 DEF LaidOut
    <3>2. more[id] = rec[id] /\ id \in 1 .. Len(more) /\ id < L + 1
      BY <1>1, <1>3
    <3> QED
      BY <3>1, <3>2
  <2> QED
    BY <2>1, <1>8 DEF LaidOut
<1>9. LaidOut(b, more) /\ \A c \in 1 .. N : b.cmds[c].id < L + 1
  BY <1>8 DEF Holds
<1>10. LaidOut(w, more)
  <2>1. ASSUME NEW c \in 1 .. N
        PROVE  /\ w.cmds[c].id \in 1 .. Len(more)
               /\ more[w.cmds[c].id].sw = w.sw
               /\ more[w.cmds[c].id].size \in Nat
               /\ w.cmds[c].at >= GpuCommandSize
               /\ w.cmds[c].at + more[w.cmds[c].id].size <= b.pos
               /\ w.cmds[c].at + more[w.cmds[c].id].size <= w.pos
               /\ w.cmds[c].id < L + 1
    <3>1. b.sw = w.sw
      BY <1>1
    <3>2. w.cmds[c] = b.cmds[c]
      BY <1>7
    <3>3. /\ b.cmds[c].id \in 1 .. Len(more) /\ more[b.cmds[c].id].sw = b.sw
          /\ b.cmds[c].at >= GpuCommandSize
          /\ b.cmds[c].at + more[b.cmds[c].id].size <= b.pos
          /\ b.cmds[c].id < L + 1
      BY <1>9 DEF LaidOut
    <3>4. more[b.cmds[c].id].size \in Nat
      BY <3>3, <1>4 DEF CommandFits
    <3>5. b.cmds[c].at + more[b.cmds[c].id].size <= w.pos
      <4>1. PICK x \in Nat, y \in Nat, p \in Nat, z \in Nat :
              x = b.cmds[c].at /\ y = more[b.cmds[c].id].size /\ p = b.pos /\ z = command.size
        BY <3>4, <1>1
      <4>2. x + y <= p /\ w.pos = p + z
        BY <4>1, <3>3
      <4>3. x + y <= p + z
        BY <4>2
      <4> QED
        BY <4>1, <4>2, <4>3
    <3> QED
      BY <3>1, <3>2, <3>3, <3>4, <3>5
  <2>2. /\ w.cmds[N + 1].id \in 1 .. Len(more)
        /\ more[w.cmds[N + 1].id].sw = w.sw
        /\ w.cmds[N + 1].at >= GpuCommandSize
        /\ w.cmds[N + 1].at + more[w.cmds[N + 1].id].size <= w.pos
    <3>1. w.cmds[N + 1].id = L + 1 /\ w.cmds[N + 1].at = b.pos
      BY <1>6, <1>7
    <3>2. L + 1 \in 1 .. Len(more) /\ more[L + 1] = command
      BY <1>1, <1>3
    <3>3. more[L + 1].sw = w.sw /\ b.pos + more[L + 1].size <= w.pos
      BY <3>2, <1>1
    <3> HIDE DEF L, N
    <3> QED
      BY <3>1, <3>2, <3>3
  <2>3. ASSUME NEW c \in 1 .. N + 1, NEW d \in 1 .. N + 1, c < d
        PROVE  /\ w.cmds[c].id < w.cmds[d].id
               /\ w.cmds[c].at + more[w.cmds[c].id].size <= w.cmds[d].at
    <3>1. c \in 1 .. N
      BY <1>1, <1>7, <2>3
    <3>2. CASE d \in 1 .. N
      BY <3>1, <3>2, <2>3, <1>7, <1>9 DEF LaidOut
    <3>3. CASE d = N + 1
      BY <3>1, <3>3, <2>1, <1>6, <1>7
    <3> QED
      BY <3>2, <3>3, <1>7
  <2> HIDE DEF N, L
  <2> QED
    BY <2>1, <2>2, <2>3, <1>7 DEF LaidOut
<1>11. ASSUME NEW i \in 1 .. Len(s)
       PROVE  LaidOut(s[i], more) /\ Precedes(s[i], w)
  <2>1. s[i] \in Buffers /\ LaidOut(s[i], rec) /\ Precedes(s[i], b)
    BY DEF Holds
  <2>2. LaidOut(s[i], more) /\ \A c \in 1 .. Len(s[i].cmds) : s[i].cmds[c].id < L + 1
    BY <2>1, <1>8
  <2>3. ASSUME NEW c \in 1 .. Len(s[i].cmds), NEW d \in 1 .. N + 1
        PROVE  s[i].cmds[c].id < w.cmds[d].id
    <3>1. CASE d \in 1 .. N
      BY <3>1, <2>1, <1>7 DEF Precedes
    <3>2. CASE d = N + 1
      BY <3>2, <2>2, <1>6, <1>7
    <3> QED
      BY <3>1, <3>2, <1>7
  <2> HIDE DEF N
  <2> QED
    BY <2>2, <2>3, <1>7 DEF Precedes
<1>12. Counts(AllIds(s) \o Ids(w), Len(more))
  <2>0. L \in Nat /\ L + 1 \in Nat
    BY <1>1
  <2>1. AllIds(s) \in Seq(Nat) /\ Ids(b) \in Seq(Nat)
    BY AllIdsAppend
  <2>2. PICK a \in Seq(Nat), i \in Seq(Nat) : a = AllIds(s) /\ i = Ids(b)
    BY <2>1
  <2>3. Ids(w) = Append(i, L + 1)
    <3>1. Ids(w) = [c \in 1 .. N + 1 |-> w.cmds[c].id]
      BY <1>7 DEF Ids
    <3>2. Len(i) = N /\ \A c \in 1 .. N : i[c] = b.cmds[c].id
      <4>1. i = [c \in 1 .. N |-> b.cmds[c].id]
        BY <2>2 DEF Ids
      <4>2. N \in Nat
        BY <1>1
      <4> HIDE DEF N
      <4> QED
        BY <4>1, <4>2
    <3>3. Append(i, L + 1) = [c \in 1 .. N + 1 |-> IF c = N + 1 THEN L + 1 ELSE i[c]]
      <4>1. Append(i, L + 1) =
              [c \in 1 .. Len(i) + 1 |-> IF c = Len(i) + 1 THEN L + 1 ELSE i[c]]
        <5>1. Len(i) \in Nat /\ L + 1 \in Nat
          BY <1>1
        <5>2. PICK next \in Nat : next = L + 1
          BY <5>1
        <5>3. Append(i, next) =
                [c \in 1 .. Len(i) + 1 |-> IF c = Len(i) + 1 THEN next ELSE i[c]]
          BY AppendTable
        <5> QED
          BY <5>2, <5>3
      <4> QED
        BY <4>1, <3>2
    <3>4. \A c \in 1 .. N + 1 : w.cmds[c].id = IF c = N + 1 THEN L + 1 ELSE i[c]
      BY <3>2, <1>6, <1>7
    <3> QED
      BY <3>1, <3>3, <3>4
  <2>4. PICK next : next = Append(i, L + 1)
    OBVIOUS
  <2>5. Counts(a \o i, L)
    BY <2>2 DEF Holds
  <2>6. Counts(a \o next, L + 1)
    <3> HIDE DEF L
    <3> QED
      BY <2>0, <2>4, <2>5, NextNumber
  <2> QED
    BY <2>2, <2>3, <2>4, <2>6, <1>3
<1>13. \A i, j \in 1 .. Len(s) : i < j => Precedes(s[i], s[j])
  BY DEF Holds
<1>14. Holds(s, w, more)
  BY <1>4, <1>10, <1>11, <1>12, <1>13 DEF Holds
<1> QED
  BY <1>2, <1>14

(* Putting a buffer aside.  (PrepareNewCommandBuffer, Close.)              *)
LEMMA PutAside ==
  ASSUME NEW s \in Seq(Buffers), \A i \in 1 .. Len(s) : BufferFits(s[i]),
         NEW b, BufferFits(b), Len(s) <= MaxCommandBuffers - 1
  PROVE  /\ Append(s, b) \in Seq(Buffers)
         /\ \A i \in 1 .. Len(Append(s, b)) : BufferFits(Append(s, b)[i])
         /\ Len(Append(s, b)) = Len(s) + 1 /\ Len(s) + 1 <= MaxCommandBuffers
<1>1. b \in Buffers /\ Len(s) \in Nat
  BY DEF BufferFits
<1> DEFINE t == Append(s, b)
<1>2. /\ t \in Seq(Buffers) /\ Len(t) = Len(s) + 1
      /\ t[Len(s) + 1] = b /\ \A i \in 1 .. Len(s) : t[i] = s[i]
  BY <1>1
<1> HIDE DEF t
<1>3. \A i \in 1 .. Len(t) : i = Len(s) + 1 \/ i \in 1 .. Len(s)
  BY <1>1, <1>2
<1>4. \A i \in 1 .. Len(t) : BufferFits(t[i])
  BY <1>2, <1>3
<1>5. Len(s) + 1 <= MaxCommandBuffers
  BY <1>1, Sizes
<1> QED
  BY <1>2, <1>4, <1>5 DEF t

(* What the rest of the invariant becomes with the buffers of the list.    *)
LEMMA BuffersHeld ==
  ASSUME NEW b, BufferFits(b), NEW s \in Seq(Buffers),
         \A i \in 1 .. Len(s) : BufferFits(s[i]), Len(s) <= MaxCommandBuffers,
         m_pCurCommandBuffer' = b, m_filledCommandBuffers' = s,
         live' = Len(s) + (IF b = Null THEN 0 ELSE 1)
  PROVE  BuffersInv'
BY DEF BuffersInv, HeldBuffers

(* Recording a command, in each of the ways it may end: in the current     *)
(* buffer, in a new one, dropped because it fits into none, without memory *)
(* for a new one, or with the list removed because it has too many.        *)
LEMMA RecordStep ==
  ASSUME TypesInv, BuffersInv, RecordingInv, Recording,
         NEW command, NEW sw \in BOOLEAN, NEW size \in Nat, NEW num \in Nat,
         NEW refs \in Seq(References), Len(refs) <= num,
         Holds(m_filledCommandBuffers, m_pCurCommandBuffer, recorded),
         CommandFits(command), command.sw = sw, command.size = size,
         Record(command, sw, size, num, refs)
  PROVE  /\ BuffersInv' /\ RecordingInv'
         /\ Holds(m_filledCommandBuffers, m_pCurCommandBuffer, recorded)'
         /\ list' \in {"created", "recording", "closed", "removed", "crashed"}
         /\ (\E S : recorded \in Seq(S))' /\ (Len(recorded) <= MaxCommands)'
<1>1. PICK b : b = m_pCurCommandBuffer
  OBVIOUS
<1>2. PICK s \in Seq(Buffers) : s = m_filledCommandBuffers
  BY DEF BuffersInv
<1>3. PICK id \in Nat : id = Len(recorded) + 1
  <2>1. Len(recorded) \in Nat
    BY DEF TypesInv
  <2> QED
    BY <2>1
<1>4. /\ list = "recording" /\ BufferFits(b) /\ b.pos >= GpuCommandSize /\ b # Null
      /\ \A i \in 1 .. Len(s) : BufferFits(s[i])
      /\ Len(s) <= MaxCommandBuffers - 1 /\ Len(s) <= MaxCommandBuffers
      /\ live = Len(s) + 1 /\ Len(s) \in Nat /\ b.pos \in Nat
  <2>1. list = "recording"
    BY DEF Recording
  <2>2. BufferFits(b) /\ b.pos >= GpuCommandSize /\ Len(s) <= MaxCommandBuffers - 1
    BY <2>1, <1>1, <1>2 DEF BuffersInv, RecordingInv
  <2>3. b # Null
    BY <2>2, NotNull
  <2>4. b.pos \in Nat
    BY <2>2 DEF BufferFits, Buffers
  <2>5. live = Len(s) + 1
    BY <2>3, <1>1, <1>2 DEF BuffersInv, HeldBuffers
  <2> QED
    BY <2>1, <2>2, <2>3, <2>4, <2>5, <1>1, <1>2 DEF BuffersInv
<1>5. /\ Append(s, Retyped(b, sw)) \in Seq(Buffers)
      /\ \A i \in 1 .. Len(Append(s, Retyped(b, sw))) : BufferFits(Append(s, Retyped(b, sw))[i])
      /\ Len(Append(s, Retyped(b, sw))) = Len(s) + 1 /\ Len(s) + 1 <= MaxCommandBuffers
  <2>1. BufferFits(Retyped(b, sw))
    BY <1>4, RetypedFits
  <2> QED
    BY <2>1, <1>4, PutAside
<1>6. PICK t \in Seq(Buffers) : t = Append(s, Retyped(b, sw))
  BY <1>5
<1>7. /\ \A i \in 1 .. Len(t) : BufferFits(t[i])
      /\ Len(t) = Len(s) + 1 /\ Len(t) <= MaxCommandBuffers
  BY <1>5, <1>6
<1>8. (\E S : recorded \in Seq(S))' /\ (Len(recorded) <= MaxCommands)'
  <2>1. recorded' = recorded \/ recorded' = Append(recorded, command)
    BY DEF Record
  <2>2. CASE recorded' = recorded
    BY <2>2 DEF TypesInv
  <2>3. CASE recorded' = Append(recorded, command)
    <3>1. PICK S : recorded \in Seq(S)
      BY DEF TypesInv
    <3>2. recorded \in Seq(S \cup {command}) /\ Len(recorded) \in Nat /\ Len(recorded) < MaxCommands
      BY <3>1 DEF Recording
    <3>3. Append(recorded, command) \in Seq(S \cup {command})
          /\ Len(Append(recorded, command)) = Len(recorded) + 1
      BY <3>2
    <3>4. Len(recorded) + 1 <= MaxCommands
      BY <3>2, Sizes
    <3> QED
      BY <2>3, <3>3, <3>4
  <2> QED
    BY <2>1, <2>2, <2>3
<1>9. PICK S : recorded \in Seq(S)
  BY DEF TypesInv
<1>10. PICK rec \in Seq(S) : rec = recorded /\ id = Len(rec) + 1
  BY <1>3, <1>9
<1>11. Holds(s, b, rec) /\ b \in Buffers
  BY <1>1, <1>2, <1>4, <1>10 DEF BufferFits
<1>12. Retyped(b, sw).sw = b.sw \/ b.cmds = << >>
  <2>1. CASE IsCommandBufferEmpty(b)
    <3>1. LaidOut(b, rec) /\ \A n \in 1 .. Len(rec) : CommandFits(rec[n])
      BY <1>11 DEF Holds
    <3>2. b.pos <= GpuCommandSize
      BY <2>1 DEF IsCommandBufferEmpty
    <3> QED
      BY <3>1, <3>2, <1>11, EmptyHasNone
  <2>2. CASE ~IsCommandBufferEmpty(b)
    BY <2>2 DEF Retyped
  <2> QED
    BY <2>1, <2>2
<1>13. ASSUME NEW n \in Buffers, n.cmds = << >>
       PROVE  Holds(t, n, rec)
  <2>1. PICK x \in Buffers : x = Retyped(b, sw) /\ x.cmds = b.cmds /\ x.pos = b.pos
    BY <1>4, RetypedFits
  <2>2. x.sw = b.sw \/ b.cmds = << >>
    BY <2>1, <1>12
  <2>3. Holds(Append(s, x), n, rec)
    BY <2>1, <2>2, <1>11, <1>13, PutAsideHolds
  <2> QED
    BY <2>1, <2>3, <1>6
<1>14. CASE /\ Fits(b, sw, size, num)
           /\ m_pCurCommandBuffer' = Written(b, sw, size, refs, id)
           /\ UNCHANGED <<list, m_filledCommandBuffers, live>>
           /\ recorded' = Append(rec, command)
  <2>0. Fits(b, sw, size, num) /\ BufferFits(b)
    BY <1>14, <1>4
  <2>1. PICK w : w = Written(b, sw, size, refs, id)
    OBVIOUS
  <2>2. /\ BufferFits(w) /\ w.pos >= b.pos
        /\ w.pos = b.pos + size /\ w.sw = sw
        /\ w.cmds = Append(b.cmds, [id |-> id, at |-> b.pos])
    <3>1. /\ BufferFits(Written(b, sw, size, refs, id))
          /\ Written(b, sw, size, refs, id).pos >= b.pos
          /\ Written(b, sw, size, refs, id).pos = b.pos + size
          /\ Written(b, sw, size, refs, id).sw = sw
          /\ Written(b, sw, size, refs, id).cmds = Append(b.cmds, [id |-> id, at |-> b.pos])
      BY <2>0, WrittenFits, SMTT(30)
    <3> QED
      BY <2>1, <3>1
  <2>3. w.pos >= GpuCommandSize /\ w # Null
    <3>1. w.pos \in Nat
      BY <2>2 DEF BufferFits, Buffers
    <3>2. w.pos >= GpuCommandSize
      BY <3>1, <2>2, <1>4 DEF GpuCommandSize
    <3> QED
      BY <3>2, NotNull
  <2>4. BuffersInv'
    BY <2>1, <2>2, <2>3, <1>2, <1>4, <1>14, BuffersHeld
  <2>5. RecordingInv'
    BY <2>1, <2>3, <1>2, <1>4, <1>14 DEF RecordingInv
  <2>6. Holds(s, w, Append(rec, command))
    <3>1. w \in Buffers /\ w.pos = b.pos + command.size /\ w.sw = command.sw
          /\ w.cmds = Append(b.cmds, [id |-> Len(rec) + 1, at |-> b.pos])
      BY <2>2, <1>10 DEF BufferFits
    <3>2. b.sw = command.sw \/ b.cmds = << >>
      <4>1. Retyped(b, sw).sw = sw
        BY <1>14 DEF Fits
      <4> QED
        BY <4>1, <1>12
    <3> QED
      BY <3>1, <3>2, <1>4, <1>11, WrittenHolds
  <2>7. Holds(m_filledCommandBuffers, m_pCurCommandBuffer, recorded)'
    BY <2>1, <2>6, <1>2, <1>14
  <2> QED
    BY <2>4, <2>5, <2>7, <1>4, <1>8, <1>14
<1>15. CASE /\ list' = "removed"
            /\ UNCHANGED <<m_pCurCommandBuffer, m_filledCommandBuffers, live, recorded>>
  <2>1. BuffersInv'
    BY <1>15 DEF BuffersInv, HeldBuffers
  <2>2. Holds(m_filledCommandBuffers, m_pCurCommandBuffer, recorded)'
    BY <1>1, <1>2, <1>15
  <2> QED
    BY <2>1, <2>2, <1>8, <1>15 DEF RecordingInv
<1>16. ASSUME m_filledCommandBuffers' = t, Len(s) # MaxCommandBuffers - 1,
              NEW w, BufferFits(w), w.pos >= GpuCommandSize, m_pCurCommandBuffer' = w,
              live' = live + 1, UNCHANGED list
       PROVE  BuffersInv' /\ RecordingInv' /\ list' = "recording"
  <2>1. w # Null
    BY <1>16, NotNull
  <2>2. live' = Len(t) + 1
    BY <1>4, <1>7, <1>16
  <2>3. BuffersInv'
    BY <2>1, <2>2, <1>7, <1>16, BuffersHeld
  <2>4. Len(t) <= MaxCommandBuffers - 1
    BY <1>4, <1>7, <1>16, Sizes
  <2> QED
    BY <2>3, <2>4, <1>4, <1>16 DEF RecordingInv
<1>17. CASE /\ m_filledCommandBuffers' = t /\ Len(s) # MaxCommandBuffers - 1
            /\ FitsEmpty(sw, size, num)
            /\ m_pCurCommandBuffer' = Written(NewCommandBuffer, sw, size, refs, id)
            /\ live' = live + 1 /\ UNCHANGED list
            /\ recorded' = Append(rec, command)
  <2>1. PICK w : w = Written(NewCommandBuffer, sw, size, refs, id)
    OBVIOUS
  <2>2. PICK n : n = NewCommandBuffer
    OBVIOUS
  <2>3. /\ BufferFits(n) /\ n.pos = GpuCommandSize /\ n.cmds = << >>
        /\ Fits(n, sw, size, num)
    BY <2>2, <1>17, NewFits DEF FitsEmpty
  <2>4. /\ BufferFits(w) /\ w.pos >= GpuCommandSize
        /\ w.pos = n.pos + size /\ w.sw = sw
        /\ w.cmds = Append(n.cmds, [id |-> id, at |-> n.pos])
    <3>1. /\ BufferFits(Written(n, sw, size, refs, id))
          /\ Written(n, sw, size, refs, id).pos >= n.pos
          /\ Written(n, sw, size, refs, id).pos = n.pos + size
          /\ Written(n, sw, size, refs, id).sw = sw
          /\ Written(n, sw, size, refs, id).cmds = Append(n.cmds, [id |-> id, at |-> n.pos])
      BY <2>3, WrittenFits, SMTT(30)
    <3> QED
      BY <2>1, <2>2, <2>3, <3>1
  <2>5. Holds(t, w, Append(rec, command))
    <3>1. w \in Buffers /\ w.pos = n.pos + command.size /\ w.sw = command.sw
          /\ w.cmds = Append(n.cmds, [id |-> Len(rec) + 1, at |-> n.pos])
      BY <2>4, <1>10 DEF BufferFits
    <3>2. n \in Buffers /\ n.pos >= GpuCommandSize
      BY <2>3 DEF BufferFits, GpuCommandSize
    <3>3. Holds(t, n, rec)
      BY <3>2, <2>3, <1>13
    <3> QED
      BY <3>1, <3>2, <3>3, <2>3, WrittenHolds
  <2>6. Holds(m_filledCommandBuffers, m_pCurCommandBuffer, recorded)'
    BY <2>1, <2>5, <1>17
  <2> QED
    BY <2>1, <2>4, <2>6, <1>8, <1>16, <1>17
<1>18. CASE /\ m_filledCommandBuffers' = t /\ Len(s) # MaxCommandBuffers - 1
            /\ m_pCurCommandBuffer' = Retyped(NewCommandBuffer, sw)
            /\ live' = live + 1 /\ UNCHANGED <<list, recorded>>
  <2>1. PICK w : w = Retyped(NewCommandBuffer, sw)
    OBVIOUS
  <2>2. BufferFits(w) /\ w.pos >= GpuCommandSize /\ w.cmds = << >>
    BY <2>1, NewFits DEF GpuCommandSize
  <2>3. Holds(t, w, rec)
    BY <2>2, <1>13 DEF BufferFits
  <2>4. Holds(m_filledCommandBuffers, m_pCurCommandBuffer, recorded)'
    BY <2>1, <2>3, <1>18, <1>10
  <2> QED
    BY <2>1, <2>2, <2>4, <1>8, <1>16, <1>18
<1>19. CASE /\ m_filledCommandBuffers' = t /\ m_pCurCommandBuffer' = Null
            /\ list' = "crashed" /\ UNCHANGED <<live, recorded>>
  <2>1. PICK n : n = Null
    OBVIOUS
  <2>2. BufferFits(n) /\ n.cmds = << >>
    BY <2>1, NewFits
  <2>3. live' = Len(t) + 0
    BY <1>4, <1>7, <1>19
  <2>4. BuffersInv'
    BY <2>1, <2>2, <2>3, <1>7, <1>19, BuffersHeld
  <2>5. Holds(t, n, rec)
    BY <2>2, <1>13 DEF BufferFits
  <2>6. Holds(m_filledCommandBuffers, m_pCurCommandBuffer, recorded)'
    BY <2>1, <2>5, <1>19, <1>10
  <2> QED
    BY <2>4, <2>6, <1>8, <1>19 DEF RecordingInv
<1> QED
  <2>1. \/ /\ Fits(b, sw, size, num)
           /\ m_pCurCommandBuffer' = Written(b, sw, size, refs, id)
           /\ UNCHANGED <<list, m_filledCommandBuffers, live>>
           /\ recorded' = Append(rec, command)
        \/ /\ list' = "removed"
           /\ UNCHANGED <<m_pCurCommandBuffer, m_filledCommandBuffers, live, recorded>>
        \/ /\ m_filledCommandBuffers' = t /\ Len(s) # MaxCommandBuffers - 1
           /\ FitsEmpty(sw, size, num)
           /\ m_pCurCommandBuffer' = Written(NewCommandBuffer, sw, size, refs, id)
           /\ live' = live + 1 /\ UNCHANGED list
           /\ recorded' = Append(rec, command)
        \/ /\ m_filledCommandBuffers' = t /\ Len(s) # MaxCommandBuffers - 1
           /\ m_pCurCommandBuffer' = Retyped(NewCommandBuffer, sw)
           /\ live' = live + 1 /\ UNCHANGED <<list, recorded>>
        \/ /\ m_filledCommandBuffers' = t /\ m_pCurCommandBuffer' = Null
           /\ list' = "crashed" /\ UNCHANGED <<live, recorded>>
    BY <1>1, <1>2, <1>3, <1>6, <1>10 DEF Record
  <2> QED
    BY <2>1, <1>14, <1>15, <1>17, <1>18, <1>19

-----------------------------------------------------------------------------
(* What the engine executes of a buffer. *)

(* Where a command is executed: a dispatch, behind its root signature. *)
Place(b, c) == b.cmds[c].at + Split(recorded[b.cmds[c].id])

CommandsFit == \A n \in 1 .. Len(recorded) : CommandFits(recorded[n])

(* The engine has executed commands of b, in order. *)
RunsInOrder(b, s) ==
  /\ \E T : s \in Seq(T)
  /\ InOrder(s)
  /\ \A m \in 1 .. Len(s) : \E c \in 1 .. Len(b.cmds) : s[m].id = b.cmds[c].id

(* ... and those only that it has passed. *)
EngineInOrder(b, e) ==
  /\ \E S, U, D : e \in [pos : Nat, sig : S, tables : U, done : Seq(D)]
  /\ RunsInOrder(b, e.done)
  /\ \A m \in 1 .. Len(e.done) : \A c \in 1 .. Len(b.cmds) :
       e.done[m].id = b.cmds[c].id => Place(b, c) < e.pos

(* A command has a size, and the commands of a buffer lie in the order in  *)
(* which they were recorded.                                               *)
LEMMA PlacesGrow ==
  ASSUME NEW b \in Buffers, LaidOut(b, recorded), CommandsFit
  PROVE  /\ \A c \in 1 .. Len(b.cmds) :
              /\ Place(b, c) \in Nat /\ b.cmds[c].at \in Nat /\ b.cmds[c].id \in Nat
              /\ CommandFits(recorded[b.cmds[c].id])
              /\ recorded[b.cmds[c].id].sw = b.sw
         /\ \A c, d \in 1 .. Len(b.cmds) : c < d =>
              Place(b, c) < Place(b, d) /\ b.cmds[c].id < b.cmds[d].id
         /\ \A c, d \in 1 .. Len(b.cmds) : Place(b, c) = Place(b, d) => c = d
         /\ \A c, d \in 1 .. Len(b.cmds) : b.cmds[c].id = b.cmds[d].id => c = d
<1>1. b.cmds \in Seq([id : Nat, at : Nat]) /\ Len(b.cmds) \in Nat
  BY DEF Buffers
<1>2. ASSUME NEW c \in 1 .. Len(b.cmds)
      PROVE  /\ Place(b, c) \in Nat /\ b.cmds[c].at \in Nat /\ b.cmds[c].id \in Nat
             /\ CommandFits(recorded[b.cmds[c].id])
             /\ recorded[b.cmds[c].id].sw = b.sw
             /\ recorded[b.cmds[c].id].size \in Nat
             /\ Place(b, c) < b.cmds[c].at + recorded[b.cmds[c].id].size
             /\ b.cmds[c].at <= Place(b, c)
  <2>1. b.cmds[c].at \in Nat /\ b.cmds[c].id \in Nat
    BY CommandsAre
  <2>2. PICK r : r = recorded[b.cmds[c].id]
    OBVIOUS
  <2>3. CommandFits(r) /\ r.sw = b.sw
    BY <2>2 DEF LaidOut, CommandsFit
  <2>4. Split(r) \in Nat /\ r.size \in Nat /\ Split(r) < r.size
    BY <2>3 DEF CommandFits
  <2>5. Place(b, c) = b.cmds[c].at + Split(r)
    BY <2>2 DEF Place
  <2> QED
    BY <2>1, <2>2, <2>3, <2>4, <2>5
<1>3. ASSUME NEW c \in 1 .. Len(b.cmds), NEW d \in 1 .. Len(b.cmds), c < d
      PROVE  Place(b, c) < Place(b, d) /\ b.cmds[c].id < b.cmds[d].id
  <2>1. /\ b.cmds[c].id < b.cmds[d].id
        /\ b.cmds[c].at + recorded[b.cmds[c].id].size <= b.cmds[d].at
    BY <1>3 DEF LaidOut
  <2>2. /\ b.cmds[c].at \in Nat /\ recorded[b.cmds[c].id].size \in Nat /\ Place(b, c) \in Nat
        /\ Place(b, c) < b.cmds[c].at + recorded[b.cmds[c].id].size
    BY <1>2
  <2>3. b.cmds[d].at \in Nat /\ Place(b, d) \in Nat /\ b.cmds[d].at <= Place(b, d)
    BY <1>2
  <2>4. \A k, l, m, n, o \in Nat : k < l + m /\ l + m <= n /\ n <= o => k < o
    OBVIOUS
  <2> QED
    BY <2>1, <2>2, <2>3, <2>4
<1>4. ASSUME NEW c \in 1 .. Len(b.cmds), NEW d \in 1 .. Len(b.cmds),
             Place(b, c) = Place(b, d) \/ b.cmds[c].id = b.cmds[d].id
      PROVE  c = d
  <2>1. c < d \/ d < c \/ c = d
    BY <1>1
  <2>2. CASE c < d
    BY <2>2, <1>2, <1>3, <1>4
  <2>3. CASE d < c
    BY <2>3, <1>2, <1>3, <1>4
  <2> QED
    BY <2>1, <2>2, <2>3
<1> QED
  BY <1>2, <1>3, <1>4

(* What the engine finds at a place is a command of the buffer, or the     *)
(* root signature of one.                                                  *)
IsFoundAt(b, pos, command, c) ==
  \/ /\ pos = Place(b, c)
     /\ command.kind = recorded[b.cmds[c].id].kind /\ command.id = b.cmds[c].id
     /\ command.size = recorded[b.cmds[c].id].size - Split(recorded[b.cmds[c].id])
  \/ /\ Split(recorded[b.cmds[c].id]) # 0
     /\ command.kind = "root signature"
     /\ command.size = Split(recorded[b.cmds[c].id])

LEMMA CommandIs ==
  ASSUME NEW b \in Buffers, NEW pos, NEW command \in CommandsAt(b, pos)
  PROVE  \E c \in 1 .. Len(b.cmds) : IsFoundAt(b, pos, command, c)
<1>1. PICK cmd \in ToSet(b.cmds) :
        command \in (IF pos = cmd.at + Split(recorded[cmd.id])
                       THEN {[kind |-> recorded[cmd.id].kind, id |-> cmd.id,
                              size |-> recorded[cmd.id].size - Split(recorded[cmd.id])]} ELSE {})
                    \cup (IF Split(recorded[cmd.id]) # 0 /\ pos = cmd.at
                            THEN {[kind |-> "root signature", sig |-> recorded[cmd.id].sig,
                                   size |-> Split(recorded[cmd.id])]} ELSE {})
  BY DEF CommandsAt, Split
<1>2. PICK c \in 1 .. Len(b.cmds) : cmd = b.cmds[c]
  <2>1. cmd \in {b.cmds[k] : k \in 1 .. Len(b.cmds)}
    BY CommandsAre
  <2> QED
    BY <2>1
<1>3. PICK split : split = Split(recorded[cmd.id])
  OBVIOUS
<1>4. \/ /\ pos = cmd.at + split
         /\ command = [kind |-> recorded[cmd.id].kind, id |-> cmd.id,
                       size |-> recorded[cmd.id].size - split]
      \/ /\ split # 0
         /\ command = [kind |-> "root signature", sig |-> recorded[cmd.id].sig, size |-> split]
  BY <1>1, <1>3
<1>5. CASE /\ pos = cmd.at + split
           /\ command = [kind |-> recorded[cmd.id].kind, id |-> cmd.id,
                         size |-> recorded[cmd.id].size - split]
  <2>1. /\ command.kind = recorded[cmd.id].kind /\ command.id = cmd.id
        /\ command.size = recorded[cmd.id].size - split
    BY <1>5
  <2> QED
    BY <2>1, <1>2, <1>3, <1>5 DEF Place, IsFoundAt
<1>6. CASE /\ split # 0
           /\ command = [kind |-> "root signature", sig |-> recorded[cmd.id].sig, size |-> split]
  <2>1. command.kind = "root signature" /\ command.size = split
    BY <1>6
  <2> QED
    BY <2>1, <1>2, <1>3, <1>6 DEF IsFoundAt
<1> QED
  BY <1>4, <1>5, <1>6

(* One command more, behind those that were executed. *)
LEMMA OneMoreInOrder ==
  ASSUME NEW b \in Buffers, LaidOut(b, recorded), CommandsFit,
         NEW e, EngineInOrder(b, e), NEW c \in 1 .. Len(b.cmds), e.pos = Place(b, c),
         NEW x, x.id = b.cmds[c].id,
         NEW S, NEW U, NEW D, NEW r \in [pos : Nat, sig : S, tables : U, done : Seq(D)],
         r.pos > e.pos, r.done = Append(e.done, x)
  PROVE  EngineInOrder(b, r)
<1>1. e.pos \in Nat /\ RunsInOrder(b, e.done)
  BY DEF EngineInOrder
<1>2. PICK T : e.done \in Seq(T)
  BY <1>1 DEF RunsInOrder
<1> DEFINE V == T \cup {x}
<1>3. PICK s \in Seq(V) : s = e.done
  <2>1. e.done \in Seq(V)
    BY <1>2
  <2> QED
    BY <2>1
<1>4. PICK t \in Seq(V) : t = Append(s, x)
  <2>1. Append(s, x) \in Seq(V)
    OBVIOUS
  <2> QED
    BY <2>1
<1>5. /\ Len(s) \in Nat /\ Len(t) = Len(s) + 1 /\ t[Len(s) + 1] = x
      /\ \A m \in 1 .. Len(s) : t[m] = s[m]
      /\ \A m \in 1 .. Len(t) : m \in 1 .. Len(s) \/ m = Len(s) + 1
  BY <1>4
<1>6. /\ \A k \in 1 .. Len(b.cmds) : Place(b, k) \in Nat /\ b.cmds[k].id \in Nat
      /\ \A k, l \in 1 .. Len(b.cmds) : k < l =>
           Place(b, k) < Place(b, l) /\ b.cmds[k].id < b.cmds[l].id
      /\ \A k, l \in 1 .. Len(b.cmds) : b.cmds[k].id = b.cmds[l].id => k = l
  BY PlacesGrow
<1>7. ASSUME NEW m \in 1 .. Len(s)
      PROVE  /\ s[m].id < x.id
             /\ \E k \in 1 .. Len(b.cmds) : s[m].id = b.cmds[k].id
             /\ \A k \in 1 .. Len(b.cmds) : s[m].id = b.cmds[k].id => Place(b, k) < r.pos
  <2>1. PICK k \in 1 .. Len(b.cmds) : s[m].id = b.cmds[k].id
    BY <1>1, <1>3 DEF RunsInOrder
  <2>2. Place(b, k) < e.pos
    BY <2>1, <1>3 DEF EngineInOrder
  <2>3. k < c
    <3>1. k \in Nat /\ c \in Nat
      OBVIOUS
    <3>2. k # c /\ ~(c < k)
      BY <2>2, <1>6
    <3> QED
      BY <3>1, <3>2
  <2>4. \A l \in 1 .. Len(b.cmds) : s[m].id = b.cmds[l].id => l = k
    BY <2>1, <1>6
  <2>5. Place(b, k) < r.pos
    BY <2>2, <1>1, <1>6
  <2> QED
    BY <2>1, <2>3, <2>4, <2>5, <1>6
<1>8. InOrder(t)
  <2> SUFFICES ASSUME NEW i \in 1 .. Len(t), NEW j \in 1 .. Len(t), i < j
               PROVE  t[i].id < t[j].id
    BY DEF InOrder
  <2>1. i \in 1 .. Len(s)
    BY <1>5
  <2>2. CASE j \in 1 .. Len(s)
    <3>1. InOrder(s)
      BY <1>1, <1>3 DEF RunsInOrder
    <3> QED
      BY <3>1, <2>1, <2>2, <1>5 DEF InOrder
  <2>3. CASE j = Len(s) + 1
    BY <2>1, <2>3, <1>5, <1>7
  <2> QED
    BY <2>2, <2>3, <1>5
<1>9. RunsInOrder(b, t)
  <2>1. \A m \in 1 .. Len(t) : \E k \in 1 .. Len(b.cmds) : t[m].id = b.cmds[k].id
    BY <1>5, <1>7
  <2>2. \E W : t \in Seq(W)
    BY <1>4
  <2> QED
    BY <2>1, <2>2, <1>8 DEF RunsInOrder
<1>10. \A m \in 1 .. Len(t) : \A k \in 1 .. Len(b.cmds) :
         t[m].id = b.cmds[k].id => Place(b, k) < r.pos
  <2>1. \A k \in 1 .. Len(b.cmds) : x.id = b.cmds[k].id => Place(b, k) < r.pos
    <3> TAKE k \in 1 .. Len(b.cmds)
    <3> HAVE x.id = b.cmds[k].id
    <3>1. k = c
      BY <1>6
    <3> QED
      BY <3>1
  <2> QED
    BY <2>1, <1>5, <1>7
<1>11. r.done = t
  BY <1>3, <1>4
<1> QED
  BY <1>9, <1>10, <1>11 DEF EngineInOrder

(* ProcessHWRenderBuffer, one command on: it passes the command, which is  *)
(* executed unless it is a root signature.                                 *)
LEMMA InterpretInOrder ==
  ASSUME NEW b \in Buffers, LaidOut(b, recorded), CommandsFit, ~b.sw,
         NEW memory, NEW e, EngineInOrder(b, e)
  PROVE  EngineInOrder(b, Interpret(b, memory, e))
<1> DEFINE commands == CommandsAt(b, e.pos)
           command == CHOOSE c \in commands : TRUE
           after == [e EXCEPT !.pos = @ + command.size]
<1>1. CASE e.pos >= b.pos \/ commands = {}
  <2>1. Interpret(b, memory, e) = e
    BY <1>1 DEF Interpret
  <2> QED
    BY <2>1
<1>2. CASE ~(e.pos >= b.pos \/ commands = {})
  <2>1. command \in commands
    BY <1>2
  <2>2. PICK cmd : cmd = command /\ cmd \in commands
    BY <2>1
  <2>3. PICK c \in 1 .. Len(b.cmds) :
           \/ /\ e.pos = Place(b, c)
              /\ cmd.kind = recorded[b.cmds[c].id].kind /\ cmd.id = b.cmds[c].id
              /\ cmd.size = recorded[b.cmds[c].id].size - Split(recorded[b.cmds[c].id])
           \/ /\ Split(recorded[b.cmds[c].id]) # 0
              /\ cmd.kind = "root signature"
              /\ cmd.size = Split(recorded[b.cmds[c].id])
    <3>1. \E c \in 1 .. Len(b.cmds) : IsFoundAt(b, e.pos, cmd, c)
      BY <2>2, CommandIs
    <3> QED
      BY <3>1 DEF IsFoundAt
  <2>4. PICK rec : rec = recorded[b.cmds[c].id] /\ CommandFits(rec) /\ rec.sw = b.sw
    BY PlacesGrow
  <2>5. /\ Split(rec) \in Nat /\ rec.size \in Nat /\ Split(rec) < rec.size
        /\ rec.kind \in {"dispatch", "meta"}
    BY <2>4 DEF CommandFits
  <2>6. cmd.size \in Nat /\ cmd.size > 0
    <3>1. \/ cmd.size = Split(rec) /\ Split(rec) # 0
          \/ cmd.size = rec.size - Split(rec)
      BY <2>3, <2>4
    <3> QED
      BY <3>1, <2>5
  <2>7. PICK S, U, D : e \in [pos : Nat, sig : S, tables : U, done : Seq(D)]
    BY DEF EngineInOrder
  <2> DEFINE Engines == [pos : Nat, sig : S, tables : U, done : Seq(D)]
  <2>8. PICK a : a = [e EXCEPT !.pos = @ + cmd.size]
    OBVIOUS
  <2>9. /\ a \in Engines /\ a.pos = e.pos + cmd.size
        /\ a.pos \in Nat /\ a.pos > e.pos /\ a.done = e.done
        /\ a.done \in Seq(D) /\ e.pos \in Nat
    BY <2>6, <2>7, <2>8
  <2>10. after = a
    BY <2>2, <2>8
  <2>11. Interpret(b, memory, e) =
           CASE cmd.kind = "root signature" ->
                   [a EXCEPT !.sig = cmd.sig,
                             !.tables = Tables(cmd.sig, e.pos, @)]
             [] cmd.kind = "dispatch" ->
                   [a EXCEPT !.done = Append(@,
                      [id |-> cmd.id, found |-> RegistersFound(e.sig, e.tables, memory)])]
             [] cmd.kind = "meta" ->
                   [a EXCEPT !.done = Append(@,
                      [id |-> cmd.id,
                       found |-> AddressesFound(e.pos, MetaCommandSize .. cmd.size - 1, memory)])]
    BY <1>2, <2>2, <2>8 DEF Interpret
  <2> HIDE DEF commands, command, after
  <2>12. CASE cmd.kind = "root signature"
    <3>1. PICK sig, tables : Interpret(b, memory, e) = [a EXCEPT !.sig = sig, !.tables = tables]
      BY <2>11, <2>12
    <3>2. PICK r : r = [a EXCEPT !.sig = sig, !.tables = tables]
      OBVIOUS
    <3>3. /\ r \in [pos : Nat, sig : S \cup {sig}, tables : U \cup {tables}, done : Seq(D)]
          /\ r.pos = a.pos /\ r.done = a.done
      BY <3>2, <2>9
    <3>4. r.pos \in Nat /\ r.pos > e.pos /\ r.done = e.done
      BY <3>3, <2>9
    <3>5. \A m \in 1 .. Len(e.done) : \A k \in 1 .. Len(b.cmds) :
            e.done[m].id = b.cmds[k].id => Place(b, k) < r.pos
      <4> TAKE m \in 1 .. Len(e.done)
      <4> TAKE k \in 1 .. Len(b.cmds)
      <4> HAVE e.done[m].id = b.cmds[k].id
      <4>1. Place(b, k) < e.pos
        BY DEF EngineInOrder
      <4>2. Place(b, k) \in Nat
        BY PlacesGrow
      <4> QED
        BY <4>1, <4>2, <3>4, <2>9
    <3>6. EngineInOrder(b, r)
      BY <3>3, <3>4, <3>5 DEF EngineInOrder
    <3> QED
      BY <3>1, <3>2, <3>6
  <2>13. CASE cmd.kind \in {"dispatch", "meta"}
    <3>1. PICK found :
            Interpret(b, memory, e) = [a EXCEPT !.done = Append(@, [id |-> cmd.id, found |-> found])]
      <4>1. CASE cmd.kind = "dispatch"
        BY <4>1, <2>11
      <4>2. CASE cmd.kind = "meta"
        BY <4>2, <2>11
      <4> QED
        BY <4>1, <4>2, <2>13
    <3>2. PICK x : x = [id |-> cmd.id, found |-> found]
      OBVIOUS
    <3>3. x.id = cmd.id
      BY <3>2
    <3>4. PICK r : r = [a EXCEPT !.done = Append(@, x)]
      OBVIOUS
    <3>5. /\ r \in [pos : Nat, sig : S, tables : U, done : Seq(D \cup {x})] /\ r.pos = a.pos
          /\ r.done = Append(e.done, x)
      <4>1. Append(a.done, x) \in Seq(D \cup {x})
        BY <2>9
      <4> QED
        BY <4>1, <3>4, <2>9
    <3>6. e.pos = Place(b, c) /\ cmd.id = b.cmds[c].id
      BY <2>3, <2>13
    <3>7. r.pos \in Nat /\ r.pos > e.pos /\ x.id = b.cmds[c].id
      BY <3>3, <3>5, <3>6, <2>9
    <3>8. EngineInOrder(b, r)
      BY <3>5, <3>6, <3>7, OneMoreInOrder
    <3> QED
      BY <3>1, <3>2, <3>4, <3>8
  <2>14. cmd.kind \in {"root signature", "dispatch", "meta"}
    BY <2>3, <2>4, <2>5
  <2> QED
    BY <2>12, <2>13, <2>14
<1> QED
  BY <1>1, <1>2

EngineTable(b, memory, base, N, f) ==
  f = [I \in SUBSET (1 .. N) |->
         IF I = {} THEN base ELSE Interpret(b, memory, f[I \ {Max(I)}])]

(* ProcessHWRenderBuffer ends: its loop can be tabulated as FoldLeft does. *)
LEMMA EngineFold ==
  ASSUME NEW b, NEW memory, NEW base, NEW N \in Nat
  PROVE  \E f : EngineTable(b, memory, base, N, f)
<1> DEFINE Fold(f, n) == f = [I \in SUBSET (1 .. n) |->
                                IF I = {} THEN base ELSE Interpret(b, memory, f[I \ {Max(I)}])]
           Q == {n \in Nat : \E f : Fold(f, n)}
<1>1. 0 \in Q
  <2> DEFINE f == [I \in SUBSET (1 .. 0) |-> base]
  <2>1. SUBSET (1 .. 0) = {{}}
    OBVIOUS
  <2>2. Fold(f, 0)
    BY <2>1
  <2> HIDE DEF f, Fold
  <2> QED
    BY <2>2
<1>2. ASSUME NEW n \in 1 .. N, n - 1 \in Q
      PROVE  n \in Q
  <2>1. PICK f : Fold(f, n - 1)
    BY <1>2
  <2>2. \A I \in SUBSET (1 .. n - 1) :
          f[I] = IF I = {} THEN base ELSE Interpret(b, memory, f[I \ {Max(I)}])
    BY <2>1
  <2> DEFINE g == [I \in SUBSET (1 .. n) |->
                     IF n \in I THEN Interpret(b, memory, f[I \ {n}]) ELSE f[I]]
  <2>3. ASSUME NEW I \in SUBSET (1 .. n)
        PROVE  g[I] = IF I = {} THEN base ELSE Interpret(b, memory, g[I \ {Max(I)}])
    <3>1. CASE n \in I
      <4>1. Max(I) = n
        <5>1. I \in SUBSET Nat /\ \A k \in I : k <= n
          OBVIOUS
        <5> QED
          BY <3>1, <5>1, MaxIs
      <4>2. I \ {n} \in SUBSET (1 .. n) /\ n \notin I \ {n}
        OBVIOUS
      <4>3. g[I \ {n}] = f[I \ {n}]
        BY <4>2
      <4>4. g[I] = Interpret(b, memory, f[I \ {n}])
        BY <3>1
      <4> HIDE DEF g
      <4> QED
        BY <4>1, <4>3, <4>4, <3>1
    <3>2. CASE n \notin I
      <4>1. I \in SUBSET (1 .. n - 1)
        BY <3>2
      <4>2. g[I] = f[I]
        BY <3>2
      <4>3. f[I] = IF I = {} THEN base ELSE Interpret(b, memory, f[I \ {Max(I)}])
        BY <4>1, <2>2
      <4>4. I \ {Max(I)} \in SUBSET (1 .. n) /\ n \notin I \ {Max(I)}
        BY <3>2
      <4>5. g[I \ {Max(I)}] = f[I \ {Max(I)}]
        BY <4>4
      <4> HIDE DEF g
      <4> QED
        BY <4>2, <4>3, <4>5
    <3> QED
      BY <3>1, <3>2
  <2>4. g = [I \in SUBSET (1 .. n) |-> g[I]]
    OBVIOUS
  <2> HIDE DEF g
  <2>5. Fold(g, n)
    BY <2>3, <2>4
  <2> HIDE DEF Fold
  <2> QED
    BY <2>5
<1>3. \A n \in 0 .. N : n \in Q
  <2> HIDE DEF Q
  <2> QED
    BY <1>1, <1>2, Indices
<1>4. N \in Q
  <2> HIDE DEF Q
  <2> QED
    BY <1>3
<1> QED
  BY <1>4 DEF EngineTable

(* A buffer of dispatches and meta commands is executed in order.          *)
(* (CosKmdSoftAdapter::ProcessHWRenderBuffer.)                             *)
LEMMA HwInOrder ==
  ASSUME NEW b \in Buffers, LaidOut(b, recorded), CommandsFit, ~b.sw, NEW memory
  PROVE  RunsInOrder(b, ProcessHWRenderBuffer(b, memory))
<1> DEFINE N == 2 * Len(b.cmds)
           base == [pos |-> GpuCommandSize, sig |-> << >>, tables |-> [c \in Classes |-> 0],
                    done |-> << >>]
           Fold(f) == f = [I \in SUBSET (1 .. N) |->
                             IF I = {} THEN base ELSE Interpret(b, memory, f[I \ {Max(I)}])]
           c == CHOOSE f : Fold(f)
           turns == [n \in 1 .. N |-> n]
<1>1. N \in Nat
  BY DEF Buffers
<1>2. DOMAIN turns = 1 .. N
  OBVIOUS
<1>3. FoldLeft(LAMBDA engine, n : Interpret(b, memory, engine), base, turns) = c[1 .. N]
  <2> HIDE DEF N, base, turns
  <2> QED
    BY <1>2 DEF FoldLeft, MapThenFoldSet
<1>4. \E f : Fold(f)
  <2>1. \E f : EngineTable(b, memory, base, N, f)
    <3> HIDE DEF N, base, Fold
    <3> QED
      BY <1>1, EngineFold
  <2> QED
    BY <2>1 DEF EngineTable
<1>5. Fold(c)
  <2> HIDE DEF Fold
  <2> QED
    BY <1>4
<1>6. \A I \in SUBSET (1 .. N) :
        c[I] = IF I = {} THEN base ELSE Interpret(b, memory, c[I \ {Max(I)}])
  <2> HIDE DEF c, base, N
  <2> QED
    BY <1>5
<1>7. EngineInOrder(b, base)
  <2>1. /\ base \in [pos : Nat, sig : {<< >>}, tables : {[k \in Classes |-> 0]}, done : Seq({})]
        /\ base.done = << >>
    BY DEF GpuCommandSize
  <2>2. RunsInOrder(b, << >>)
    <3>1. << >> \in Seq({}) /\ Len(<< >>) = 0
      OBVIOUS
    <3> QED
      BY <3>1 DEF RunsInOrder, InOrder
  <2> HIDE DEF base
  <2>3. \E S, U, D : base \in [pos : Nat, sig : S, tables : U, done : Seq(D)]
    BY <2>1
  <2>4. Len(base.done) = 0
    BY <2>1
  <2> QED
    BY <2>1, <2>2, <2>3, <2>4 DEF EngineInOrder
<1> HIDE DEF c, base, turns
<1> DEFINE Q == {k \in 0 .. N : EngineInOrder(b, c[1 .. k])}
<1>8. 0 \in Q
  <2>1. 1 .. 0 = {} /\ 0 \in 0 .. N
    BY <1>1
  <2>2. c[1 .. 0] = base
    <3> HIDE DEF N
    <3> QED
      BY <2>1, <1>6
  <2> QED
    BY <2>1, <2>2, <1>7
<1>9. ASSUME NEW k \in 1 .. N, k - 1 \in Q
      PROVE  k \in Q
  <2>1. 1 .. k \in SUBSET (1 .. N) /\ k \in 0 .. N /\ k \in Nat /\ k # 0
    BY <1>1
  <2>2. c[1 .. k] = Interpret(b, memory, c[(1 .. k) \ {Max(1 .. k)}])
    <3> HIDE DEF N
    <3> QED
      BY <2>1, <1>6, InitialSegments
  <2>3. PICK e : e = c[1 .. k - 1] /\ EngineInOrder(b, e)
    BY <1>9
  <2>4. c[1 .. k] = Interpret(b, memory, e)
    BY <2>1, <2>2, <2>3, InitialSegments
  <2>5. EngineInOrder(b, Interpret(b, memory, e))
    BY <2>3, InterpretInOrder
  <2> HIDE DEF N
  <2> QED
    BY <2>1, <2>4, <2>5
<1>10. \A k \in 0 .. N : k \in Q
  <2> HIDE DEF Q, N
  <2> QED
    BY <1>1, <1>8, <1>9, Indices
<1>11. EngineInOrder(b, c[1 .. N])
  <2>1. N \in Q
    <3> HIDE DEF Q, N
    <3> QED
      BY <1>1, <1>10
  <2> HIDE DEF N
  <2> QED
    BY <2>1
<1>12. ProcessHWRenderBuffer(b, memory) = c[1 .. N].done
  BY <1>3 DEF ProcessHWRenderBuffer, base, turns
<1> QED
  BY <1>11, <1>12 DEF EngineInOrder

(* What SetToSeq makes of a set of at most one element: a list of that.    *)
LEMMA SeqOfOne ==
  ASSUME NEW X, \A x, y \in X : x = y
  PROVE  SetToSeq(X) \in Seq(X) /\ Len(SetToSeq(X)) <= 1
<1>1. CASE X = {}
  <2>1. Cardinality(X) = 0
    BY <1>1, FS_EmptySet
  <2>2. << >> \in [1 .. 0 -> X] /\ IsInjective(<< >>)
    BY DEF IsInjective
  <2>3. SetToSeq(X) \in [1 .. 0 -> X]
    BY <2>1, <2>2 DEF SetToSeq
  <2> QED
    BY <2>3
<1>2. CASE X # {}
  <2>1. PICK x : X = {x}
    BY <1>2
  <2>2. Cardinality(X) = 1
    BY <2>1, FS_Singleton
  <2> DEFINE f == [i \in 1 .. 1 |-> x]
  <2>3. f \in [1 .. 1 -> X] /\ IsInjective(f)
    BY <2>1 DEF IsInjective
  <2>4. SetToSeq(X) = CHOOSE g \in [1 .. 1 -> X] : IsInjective(g)
    BY <2>2 DEF SetToSeq
  <2>5. (CHOOSE g \in [1 .. 1 -> X] : IsInjective(g)) \in [1 .. 1 -> X]
    <3> HIDE DEF f
    <3> QED
      BY <2>3, Zenon
  <2>6. PICK h \in [1 .. 1 -> X] : h = SetToSeq(X)
    BY <2>4, <2>5
  <2>7. h \in Seq(X) /\ Len(h) = 1
    <3>1. PICK n \in Nat : n = 1
      OBVIOUS
    <3>2. h \in [1 .. n -> X]
      BY <3>1
    <3>3. h \in Seq(X) /\ Len(h) = n
      BY <3>2
    <3> QED
      BY <3>1, <3>3
  <2> QED
    BY <2>6, <2>7
<1> QED
  BY <1>1, <1>2

(* A buffer of copies is executed in order.                                *)
(* (CosKmdSoftAdapter::ProcessRenderBuffer.)                               *)
LEMMA SwInOrder ==
  ASSUME NEW b \in Buffers, LaidOut(b, recorded), CommandsFit, b.sw,
         ~IsCommandBufferEmpty(b), NEW memory
  PROVE  RunsInOrder(b, ProcessRenderBuffer(b, memory))
<1> DEFINE N == b.pos \div GpuCommandSize - 1
           X(n) == {[id |-> command.id,
                     found |-> AddressesFound(n * GpuCommandSize, {2, 4}, memory)] :
                      command \in CommandsAt(b, n * GpuCommandSize)}
           seqs == [n \in 1 .. N |-> SetToSeq(X(n))]
           T == UNION {X(n) : n \in 1 .. N}
<1>1. N \in Nat
  <2>1. b.pos \in Nat /\ b.pos > 8
    BY DEF Buffers, IsCommandBufferEmpty, GpuCommandSize
  <2> QED
    BY <2>1 DEF GpuCommandSize
<1>2. ASSUME NEW n \in 1 .. N, NEW x \in X(n)
      PROVE  \E c \in 1 .. Len(b.cmds) :
               /\ n * GpuCommandSize = Place(b, c) /\ x.id = b.cmds[c].id
               /\ x = [id |-> b.cmds[c].id,
                       found |-> AddressesFound(n * GpuCommandSize, {2, 4}, memory)]
  <2>1. PICK command \in CommandsAt(b, n * GpuCommandSize) :
          x = [id |-> command.id,
               found |-> AddressesFound(n * GpuCommandSize, {2, 4}, memory)]
    BY <1>2
  <2>2. PICK c \in 1 .. Len(b.cmds) :
           \/ /\ n * GpuCommandSize = Place(b, c)
              /\ command.kind = recorded[b.cmds[c].id].kind /\ command.id = b.cmds[c].id
              /\ command.size = recorded[b.cmds[c].id].size - Split(recorded[b.cmds[c].id])
           \/ /\ Split(recorded[b.cmds[c].id]) # 0
              /\ command.kind = "root signature"
              /\ command.size = Split(recorded[b.cmds[c].id])
    <3>1. \E c \in 1 .. Len(b.cmds) : IsFoundAt(b, n * GpuCommandSize, command, c)
      BY <2>1, CommandIs
    <3> QED
      BY <3>1 DEF IsFoundAt
  <2>3. PICK rec : rec = recorded[b.cmds[c].id] /\ CommandFits(rec) /\ rec.sw = b.sw
    BY PlacesGrow
  <2>4. rec.kind = "copy"
    BY <2>3 DEF CommandFits
  <2>5. Split(rec) = 0
    BY <2>4 DEF Split
  <2>6. n * GpuCommandSize = Place(b, c) /\ command.id = b.cmds[c].id
    BY <2>2, <2>3, <2>5
  <2> QED
    BY <2>1, <2>6
<1>3. ASSUME NEW n \in 1 .. N
      PROVE  SetToSeq(X(n)) \in Seq(X(n)) /\ Len(SetToSeq(X(n))) \in Nat /\ Len(SetToSeq(X(n))) <= 1
  <2>1. ASSUME NEW x \in X(n), NEW y \in X(n)
        PROVE  x = y
    <3> HIDE DEF X
    <3>1. PICK c \in 1 .. Len(b.cmds) :
            /\ n * GpuCommandSize = Place(b, c)
            /\ x = [id |-> b.cmds[c].id,
                    found |-> AddressesFound(n * GpuCommandSize, {2, 4}, memory)]
      BY <1>2
    <3>2. PICK d \in 1 .. Len(b.cmds) :
            /\ n * GpuCommandSize = Place(b, d)
            /\ y = [id |-> b.cmds[d].id,
                    found |-> AddressesFound(n * GpuCommandSize, {2, 4}, memory)]
      BY <1>2
    <3>3. c = d
      BY <3>1, <3>2, PlacesGrow
    <3> QED
      BY <3>1, <3>2, <3>3
  <2> HIDE DEF X
  <2>2. SetToSeq(X(n)) \in Seq(X(n)) /\ Len(SetToSeq(X(n))) <= 1
    BY <2>1, SeqOfOne
  <2> QED
    BY <2>2
<1> HIDE DEF X, N
<1>4. ASSUME NEW n \in 1 .. N, NEW a \in 1 .. Len(seqs[n])
      PROVE  /\ a = 1 /\ Len(seqs[n]) = 1
             /\ \E c \in 1 .. Len(b.cmds) :
                  n * GpuCommandSize = Place(b, c) /\ seqs[n][a].id = b.cmds[c].id
  <2>1. seqs[n] \in Seq(X(n)) /\ Len(seqs[n]) \in Nat /\ Len(seqs[n]) <= 1
    BY <1>3
  <2>2. seqs[n][a] \in X(n)
    BY <2>1
  <2> HIDE DEF seqs
  <2>3. PICK x \in X(n) : x = seqs[n][a]
    BY <2>2
  <2>4. \E c \in 1 .. Len(b.cmds) : n * GpuCommandSize = Place(b, c) /\ x.id = b.cmds[c].id
    BY <1>2
  <2>5. PICK len \in Nat : len = Len(seqs[n])
    BY <2>1
  <2>6. a \in 1 .. len /\ len <= 1
    BY <2>1, <2>5
  <2>7. a = 1 /\ len = 1
    BY <2>6
  <2> QED
    BY <2>3, <2>4, <2>5, <2>7
<1>5. seqs \in Seq(Seq(T)) /\ Len(seqs) = N
  <2>1. ASSUME NEW n \in 1 .. N
        PROVE  SetToSeq(X(n)) \in Seq(T)
    <3>1. SetToSeq(X(n)) \in Seq(X(n)) /\ X(n) \subseteq T
      BY <1>3
    <3> HIDE DEF T
    <3> QED
      BY <3>1
  <2> HIDE DEF T
  <2> QED
    BY <2>1, <1>1
<1>6. \A n \in 1 .. Len(seqs) : InOrder(seqs[n])
  <2> SUFFICES ASSUME NEW n \in 1 .. N, NEW i \in 1 .. Len(seqs[n]), NEW j \in 1 .. Len(seqs[n]), i < j
               PROVE  FALSE
    BY <1>5 DEF InOrder
  <2>1. i = 1 /\ j = 1
    <3> HIDE DEF seqs
    <3> QED
      BY <1>4
  <2> QED
    BY <2>1
<1>7. ASSUME NEW m \in 1 .. Len(seqs), NEW n \in 1 .. Len(seqs), m < n,
             NEW i \in 1 .. Len(seqs[m]), NEW j \in 1 .. Len(seqs[n])
      PROVE  seqs[m][i].id < seqs[n][j].id
  <2> HIDE DEF seqs
  <2>1. m \in 1 .. N /\ n \in 1 .. N /\ m \in Nat /\ n \in Nat
    BY <1>1, <1>5
  <2>2. PICK c \in 1 .. Len(b.cmds) : m * GpuCommandSize = Place(b, c) /\ seqs[m][i].id = b.cmds[c].id
    BY <2>1, <1>4
  <2>3. PICK d \in 1 .. Len(b.cmds) : n * GpuCommandSize = Place(b, d) /\ seqs[n][j].id = b.cmds[d].id
    BY <2>1, <1>4
  <2>4. Place(b, c) < Place(b, d)
    BY <2>1, <2>2, <2>3, <1>7 DEF GpuCommandSize
  <2>5. c < d
    <3>1. c \in Nat /\ d \in Nat /\ Place(b, c) \in Nat /\ Place(b, d) \in Nat
      BY PlacesGrow
    <3>2. c # d /\ ~(d < c)
      BY <2>4, <3>1, PlacesGrow, SMTT(30)
    <3> QED
      BY <3>1, <3>2
  <2> QED
    BY <2>2, <2>3, <2>5, PlacesGrow
<1> DEFINE all == FlattenSeq(seqs)
<1>8. /\ all \in Seq(T) /\ InOrder(all)
      /\ \A m \in 1 .. Len(all) : \E n \in 1 .. Len(seqs) : \E a \in 1 .. Len(seqs[n]) :
           all[m] = seqs[n][a]
  <2> HIDE DEF seqs, T
  <2> QED
    BY <1>5, <1>6, <1>7, FlattenInOrder
<1>9. \A m \in 1 .. Len(all) : \E c \in 1 .. Len(b.cmds) : all[m].id = b.cmds[c].id
  <2> TAKE m \in 1 .. Len(all)
  <2> HIDE DEF all, seqs
  <2>1. PICK n \in 1 .. N : \E a \in 1 .. Len(seqs[n]) : all[m] = seqs[n][a]
    BY <1>5, <1>8
  <2>2. PICK a \in 1 .. Len(seqs[n]) : all[m] = seqs[n][a]
    BY <2>1
  <2> QED
    BY <2>2, <1>4
<1>10. ProcessRenderBuffer(b, memory) = all
  BY DEF ProcessRenderBuffer, N, X
<1> HIDE DEF all, seqs, T
<1> QED
  BY <1>8, <1>9, <1>10 DEF RunsInOrder

(* Of one buffer, whatever becomes of it, nothing runs out of order.       *)
(* (DdiRender.)                                                            *)
LEMMA RenderedInOrder ==
  ASSUME NEW b \in Buffers, LaidOut(b, recorded), CommandsFit,
         ~IsCommandBufferEmpty(b), NEW fault
  PROVE  RunsInOrder(b, DdiRender(b, fault))
<1>1. RunsInOrder(b, << >>)
  <2>1. << >> \in Seq({}) /\ Len(<< >>) = 0
    OBVIOUS
  <2> QED
    BY <2>1 DEF RunsInOrder, InOrder
<1>2. RunsInOrder(b, Processed(b))
  <2>1. b.sw \in BOOLEAN
    BY DEF Buffers
  <2>2. CASE b.sw
    BY <2>2, SwInOrder DEF Processed
  <2>3. CASE ~b.sw
    BY <2>3, HwInOrder DEF Processed
  <2> QED
    BY <2>1, <2>2, <2>3
<1> QED
  BY <1>1, <1>2 DEF DdiRender

(* An execution submits the buffers one by one, and its commands run in    *)
(* the order in which they were recorded.  (ExecuteCommandLists.)          *)
LEMMA ExecutedInOrder ==
  ASSUME BuffersInv, OrderInv, NEW refused \in SUBSET DOMAIN m_filledCommandBuffers,
         Execute(refused)
  PROVE  InOrder(submitted') /\ \E S : submitted' \in Seq(S)
<1>1. PICK s \in Seq(Buffers) : s = m_filledCommandBuffers
  BY DEF BuffersInv
<1>2. /\ CommandsFit /\ \A i \in 1 .. Len(s) : LaidOut(s[i], recorded)
      /\ \A i, j \in 1 .. Len(s) : i < j => Precedes(s[i], s[j])
      /\ Len(s) \in Nat /\ DOMAIN s = 1 .. Len(s)
  BY <1>1 DEF OrderInv, Holds, CommandsFit
<1> DEFINE seqs == [i \in DOMAIN s |->
                      IF IsCommandBufferEmpty(s[i]) THEN << >> ELSE DdiRender(s[i], i \in refused)]
           T == UNION {ToSet(seqs[i]) : i \in 1 .. Len(s)}
<1>3. submitted' = FlattenSeq(seqs)
  BY <1>1 DEF Execute
<1>4. ASSUME NEW i \in 1 .. Len(s)
      PROVE  RunsInOrder(s[i], seqs[i])
  <2>1. PICK b \in Buffers : b = s[i] /\ LaidOut(b, recorded)
    BY <1>2
  <2>2. CASE IsCommandBufferEmpty(b)
    <3>1. << >> \in Seq({}) /\ Len(<< >>) = 0
      OBVIOUS
    <3>2. RunsInOrder(b, << >>)
      BY <3>1 DEF RunsInOrder, InOrder
    <3> QED
      BY <3>2, <2>1, <2>2, <1>2
  <2>3. CASE ~IsCommandBufferEmpty(b)
    <3>1. PICK fault : fault = (i \in refused)
      OBVIOUS
    <3>2. RunsInOrder(b, DdiRender(b, fault))
      BY <2>1, <2>3, <1>2, RenderedInOrder
    <3> QED
      BY <3>1, <3>2, <2>1, <2>3, <1>2
  <2> QED
    BY <2>2, <2>3
<1>5. seqs = [i \in 1 .. Len(s) |-> seqs[i]]
  BY <1>2
<1> HIDE DEF seqs
<1>6. seqs \in Seq(Seq(T)) /\ Len(seqs) = Len(s)
  <2>1. ASSUME NEW i \in 1 .. Len(s)
        PROVE  seqs[i] \in Seq(T)
    <3>1. PICK U : seqs[i] \in Seq(U)
      BY <1>4 DEF RunsInOrder
    <3>2. PICK t \in Seq(U) : t = seqs[i]
      BY <3>1
    <3>3. \A m \in 1 .. Len(t) : t[m] \in T
      BY <3>2 DEF ToSet
    <3>4. t \in Seq(T)
      <4> HIDE DEF T
      <4> QED
        BY <3>3
    <3> QED
      BY <3>2, <3>4
  <2> HIDE DEF T
  <2>2. [i \in 1 .. Len(s) |-> seqs[i]] \in Seq(Seq(T))
    BY <2>1, <1>2
  <2>3. Len([i \in 1 .. Len(s) |-> seqs[i]]) = Len(s)
    BY <1>2
  <2> QED
    BY <2>2, <2>3, <1>5
<1>7. \A i \in 1 .. Len(seqs) : InOrder(seqs[i])
  BY <1>4, <1>6 DEF RunsInOrder
<1>8. ASSUME NEW i \in 1 .. Len(seqs), NEW j \in 1 .. Len(seqs), i < j,
             NEW a \in 1 .. Len(seqs[i]), NEW b \in 1 .. Len(seqs[j])
      PROVE  seqs[i][a].id < seqs[j][b].id
  <2>1. i \in 1 .. Len(s) /\ j \in 1 .. Len(s)
    BY <1>6
  <2>2. PICK c \in 1 .. Len(s[i].cmds) : seqs[i][a].id = s[i].cmds[c].id
    BY <2>1, <1>4 DEF RunsInOrder
  <2>3. PICK d \in 1 .. Len(s[j].cmds) : seqs[j][b].id = s[j].cmds[d].id
    BY <2>1, <1>4 DEF RunsInOrder
  <2>4. Precedes(s[i], s[j])
    BY <2>1, <1>2, <1>8
  <2> QED
    BY <2>2, <2>3, <2>4 DEF Precedes
<1>9. InOrder(FlattenSeq(seqs)) /\ FlattenSeq(seqs) \in Seq(T)
  <2> HIDE DEF T
  <2> QED
    BY <1>6, <1>7, <1>8, FlattenInOrder
<1> QED
  BY <1>3, <1>9

-----------------------------------------------------------------------------
(* The invariant.                                                          *)

(* No argument is set of a root signature that has just been chosen.       *)
LEMMA NoArguments ==
  ASSUME args' = << >>
  PROVE  ArgumentsInv'
BY DEF ArgumentsInv

(* Recording leaves the arguments, the root signature and the heap alone.  *)
LEMMA RecordKeeps ==
  ASSUME ListInv, OrderInv, Recording,
         NEW command, NEW sw \in BOOLEAN, NEW size \in Nat, NEW num \in Nat,
         NEW refs \in Seq(References), Len(refs) <= num,
         CommandFits(command), command.sw = sw, command.size = size,
         Record(command, sw, size, num, refs), UNCHANGED rootVars, UNCHANGED submitted
  PROVE  ListInv' /\ OrderInv'
<1>1. TypesInv /\ BuffersInv /\ RecordingInv /\ ArgumentsInv
  BY DEF ListInv
<1>2. /\ BuffersInv' /\ RecordingInv'
      /\ Holds(m_filledCommandBuffers, m_pCurCommandBuffer, recorded)'
      /\ list' \in {"created", "recording", "closed", "removed", "crashed"}
      /\ (\E S : recorded \in Seq(S))' /\ (Len(recorded) <= MaxCommands)'
  <2>1. Holds(m_filledCommandBuffers, m_pCurCommandBuffer, recorded)
    BY DEF OrderInv
  <2> QED
    BY <1>1, <2>1, RecordStep
<1>3. /\ m_pRootSignature' = m_pRootSignature /\ m_rootValues' = m_rootValues
      /\ m_pDescriptors' = m_pDescriptors /\ args' = args
  BY DEF rootVars
<1>4. TypesInv'
  BY <1>1, <1>2, <1>3 DEF TypesInv
<1>5. ArgumentsInv'
  BY <1>1, <1>3 DEF ArgumentsInv
<1>6. OrderInv'
  BY <1>2 DEF OrderInv, InOrder
<1> QED
  BY <1>2, <1>4, <1>5, <1>6 DEF ListInv

(* A copy names two allocations.  (ResourceCopy.)                          *)
LEMMA CopyKeeps ==
  ASSUME ListInv, OrderInv, NEW dst \in Allocations, NEW src \in Allocations,
         ResourceCopy(dst, src)
  PROVE  ListInv' /\ OrderInv'
<1> DEFINE two == <<[offset |-> 2, alloc |-> dst], [offset |-> 4, alloc |-> src]>>
<1>1. PICK refs : refs = two
  OBVIOUS
<1>2. refs \in Seq(References) /\ Len(refs) <= 2
  <2>1. [offset |-> 2, alloc |-> dst] \in References /\ [offset |-> 4, alloc |-> src] \in References
    BY DEF References
  <2>2. two \in Seq(References) /\ Len(two) = 2
    BY <2>1
  <2> HIDE DEF two
  <2> QED
    BY <1>1, <2>2
<1>3. PICK command : command =
        [kind |-> "copy", sw |-> TRUE, size |-> GpuCommandSize, expected |-> Resolve(refs)]
  OBVIOUS
<1>4. /\ Recording /\ Record(command, TRUE, GpuCommandSize, 2, refs)
      /\ UNCHANGED rootVars /\ UNCHANGED submitted
  BY <1>1, <1>3 DEF ResourceCopy, rootVars
<1>5. GpuCommandSize \in Nat /\ 2 \in Nat /\ TRUE \in BOOLEAN
  BY DEF GpuCommandSize
<1>6. CommandFits(command) /\ command.sw = TRUE /\ command.size = GpuCommandSize
  BY <1>3 DEF CommandFits, Split, GpuCommandSize
<1> QED
  BY <1>2, <1>4, <1>5, <1>6, RecordKeeps

(* A dispatch names what its arguments refer to.  (Dispatch.)              *)
LEMMA DispatchKeeps ==
  ASSUME ListInv, OrderInv, NEW shader \in ShaderSizes, Dispatch(shader)
  PROVE  ListInv' /\ OrderInv'
<1>1. TypesInv /\ ArgumentsInv /\ m_pRootSignature \in Signatures
      /\ DOMAIN args = Parameters(m_pRootSignature)
  BY DEF ListInv, TypesInv, Dispatch
<1>2. PICK refs \in Seq(References) : refs = HwReferences(m_pRootSignature)
  BY <1>1, DispatchFound
<1>3. PICK sig \in Signatures : sig = m_pRootSignature
  BY <1>1
<1>4. Len(refs) = NumRegistersToPatch(sig)
  BY <1>1, <1>2, <1>3, DispatchFound
<1>5. PICK num \in Nat : num = NumRegistersToPatch(sig) /\ Len(refs) <= num
  BY <1>4
<1>6. PICK size \in Nat : size = HwRootSignatureSize(sig) + DispatchSize + shader
  <2>1. shader \in Nat /\ HwRootSignatureSize(sig) \in Nat
    BY SizesAssumption, RegisterPlaces
  <2>2. HwRootSignatureSize(sig) + DispatchSize + shader \in Nat
    BY <2>1 DEF DispatchSize
  <2> QED
    BY <2>2
<1>7. PICK command : command =
        [kind |-> "dispatch", sw |-> FALSE, size |-> size, sig |-> sig, expected |-> Bound(sig)]
  OBVIOUS
<1>8. /\ Recording /\ Record(command, FALSE, size, num, refs)
      /\ UNCHANGED rootVars /\ UNCHANGED submitted
  BY <1>2, <1>3, <1>5, <1>6, <1>7 DEF Dispatch, rootVars
<1>9. FALSE \in BOOLEAN
  OBVIOUS
<1>10. CommandFits(command) /\ command.sw = FALSE /\ command.size = size
  <2>1. HwRootSignatureSize(sig) \in Nat /\ shader \in Nat
    BY SizesAssumption, RegisterPlaces
  <2>2. HwRootSignatureSize(sig) < size
    BY <2>1, <1>6 DEF DispatchSize
  <2>3. /\ command.kind = "dispatch" /\ command.sw = FALSE /\ command.size = size
        /\ command.sig = sig
    BY <1>7
  <2> QED
    BY <2>1, <2>2, <2>3 DEF CommandFits, Split
<1> QED
  BY <1>5, <1>8, <1>9, <1>10, RecordKeeps

(* A meta command names its tensors, absent ones excepted, and reserves    *)
(* for both.  (ExecuteMlMetaCommand.)                                      *)
LEMMA MetaCommandKeeps ==
  ASSUME ListInv, OrderInv, NEW descriptors \in TensorBindings, ExecuteMlMetaCommand(descriptors)
  PROVE  ListInv' /\ OrderInv'
<1> DEFINE Tensor(t) == IF descriptors[t] = -1 THEN << >>
                        ELSE <<[offset |-> MetaCommandSize + 2 * (t - 1),
                                alloc |-> m_pDescriptors[descriptors[t]]]>>
<1>1. Cardinality(Tensors) = 2 /\ Cardinality(Tensors) \in Nat
  <2>1. Cardinality({1}) = 1 /\ IsFiniteSet({1})
    BY FS_Singleton
  <2>2. 2 \notin {1}
    OBVIOUS
  <2>3. Cardinality({1} \cup {2}) = Cardinality({1}) + 1
    BY <2>1, <2>2, FS_AddElement
  <2>4. Tensors = {1} \cup {2}
    BY DEF Tensors
  <2> QED
    BY <2>1, <2>3, <2>4
<1>2. ASSUME NEW t \in Tensors
      PROVE  Tensor(t) \in Seq(References) /\ Len(Tensor(t)) <= 1
  <2>1. descriptors[t] \in -1 .. HeapSize - 1 /\ t \in 1 .. 2
    BY SizesAssumption DEF Tensors
  <2>2. CASE descriptors[t] = -1
    <3>1. Tensor(t) = << >>
      BY <2>2
    <3> QED
      BY <3>1
  <2>3. CASE descriptors[t] # -1
    <3>1. m_pDescriptors \in [0 .. HeapSize - 1 -> Allocations]
      BY DEF ListInv, TypesInv
    <3>2. descriptors[t] \in 0 .. HeapSize - 1
      BY <2>1, <2>3, Sizes
    <3>3. MetaCommandSize + 2 * (t - 1) \in Nat
      BY <2>1 DEF MetaCommandSize
    <3>4. PICK ref \in References :
            ref = [offset |-> MetaCommandSize + 2 * (t - 1), alloc |-> m_pDescriptors[descriptors[t]]]
      BY <3>1, <3>2, <3>3 DEF References
    <3>5. Tensor(t) = <<ref>>
      BY <2>3, <3>4
    <3> QED
      BY <3>5
  <2> QED
    BY <2>2, <2>3
<1>3. PICK first \in Seq(References) : first = Tensor(1) /\ Len(first) <= 1
  <2>1. 1 \in Tensors
    BY DEF Tensors
  <2> HIDE DEF Tensor
  <2> QED
    BY <2>1, <1>2
<1>4. PICK second \in Seq(References) : second = Tensor(2) /\ Len(second) <= 1
  <2>1. 2 \in Tensors
    BY DEF Tensors
  <2> HIDE DEF Tensor
  <2> QED
    BY <2>1, <1>2
<1>5. PICK refs : refs = first \o second
  OBVIOUS
<1>6. refs \in Seq(References) /\ Len(refs) <= 2
  BY <1>3, <1>4, <1>5
<1>7. PICK size \in Nat : size = MetaCommandSize + 2 * Cardinality(Tensors)
  BY <1>1 DEF MetaCommandSize
<1>8. PICK command : command =
        [kind |-> "meta", sw |-> FALSE, size |-> size, expected |-> Resolve(refs)]
  OBVIOUS
<1>9. /\ Recording /\ Record(command, FALSE, size, Cardinality(Tensors), refs)
      /\ UNCHANGED rootVars /\ UNCHANGED submitted
  BY <1>3, <1>4, <1>5, <1>7, <1>8 DEF ExecuteMlMetaCommand, rootVars
<1>10. PICK num \in Nat : num = Cardinality(Tensors) /\ num = 2
  BY <1>1
<1>11. FALSE \in BOOLEAN
  OBVIOUS
<1>12. Record(command, FALSE, size, num, refs)
  BY <1>9, <1>10
<1>13. Len(refs) <= num
  BY <1>6, <1>10
<1>14. CommandFits(command) /\ command.sw = FALSE /\ command.size = size
  <2>1. size > 0
    BY <1>1, <1>7 DEF MetaCommandSize
  <2>2. command.kind = "meta" /\ command.sw = FALSE /\ command.size = size
    BY <1>8
  <2> QED
    BY <2>1, <2>2 DEF CommandFits, Split
<1> QED
  BY <1>6, <1>9, <1>11, <1>12, <1>13, <1>14, RecordKeeps

(* A list that holds no command.  (Reset.)                                 *)
LEMMA NothingHolds ==
  ASSUME NEW n \in Buffers, n.cmds = << >>
  PROVE  Holds(<< >>, n, << >>)
<1>1. LaidOut(n, << >>)
  BY DEF LaidOut
<1>2. AllIds(<< >>) = << >>
  <2>1. PICK none \in Seq(Buffers) : none = << >>
    <3>1. << >> \in Seq(Buffers)
      OBVIOUS
    <3> QED
      BY <3>1
  <2>2. PICK q : q = [i \in 1 .. Len(none) |-> Ids(none[i])]
    OBVIOUS
  <2>3. Len(none) = 0
    BY <2>1
  <2>4. q = << >>
    BY <2>2, <2>3
  <2>5. FlattenSeq(q) = q
    BY <2>4 DEF FlattenSeq
  <2>6. AllIds(none) = FlattenSeq(q)
    BY <2>2 DEF AllIds
  <2> QED
    BY <2>1, <2>4, <2>5, <2>6
<1>3. Ids(n) = << >>
  BY DEF Ids
<1>4. Counts(<< >> \o << >>, Len(<< >>))
  BY DEF Counts
<1> QED
  BY <1>1, <1>2, <1>3, <1>4 DEF Holds

(* Setting up, one argument or the whole root signature.                   *)
LEMMA SetupKeeps ==
  ASSUME ListInv, OrderInv,
         \/ \E sig \in Signatures : SetRootSignature(sig)
         \/ \E i \in Parameters(m_pRootSignature) :
              \E value \in Arguments(m_pRootSignature[i]) : SetRootArgument(i, value)
         \/ \E d \in 0 .. HeapSize - 1, a \in Allocations : CreateView(d, a)
  PROVE  ListInv' /\ OrderInv'
<1>1. TypesInv /\ ArgumentsInv /\ BuffersInv /\ RecordingInv
  BY DEF ListInv
<1>2. UNCHANGED listVars /\ UNCHANGED submitted
  BY DEF SetRootSignature, SetRootArgument, CreateView
<1>3. BuffersInv' /\ RecordingInv'
  BY <1>1, <1>2 DEF listVars, BuffersInv, RecordingInv, HeldBuffers
<1>4. list' = list /\ recorded' = recorded
  BY <1>2 DEF listVars
<1>5. OrderInv'
  <2>1. /\ m_filledCommandBuffers' = m_filledCommandBuffers
        /\ m_pCurCommandBuffer' = m_pCurCommandBuffer
        /\ recorded' = recorded /\ submitted' = submitted
    BY <1>2 DEF listVars
  <2> QED
    BY <2>1 DEF OrderInv, Holds, InOrder
<1>6. CASE \E sig \in Signatures : SetRootSignature(sig)
  <2>1. PICK sig \in Signatures : SetRootSignature(sig)
    BY <1>6
  <2>2. m_pRootSignature' = sig /\ args' = << >>
        /\ m_rootValues' = m_rootValues /\ m_pDescriptors' = m_pDescriptors
    BY <2>1 DEF SetRootSignature
  <2>3. TypesInv'
    BY <2>2, <1>1, <1>4 DEF TypesInv
  <2> QED
    BY <2>2, <2>3, <1>3, <1>5, NoArguments DEF ListInv
<1>7. CASE \E i \in Parameters(m_pRootSignature) :
             \E value \in Arguments(m_pRootSignature[i]) : SetRootArgument(i, value)
  <2>1. PICK i \in Parameters(m_pRootSignature) :
          \E v \in Arguments(m_pRootSignature[i]) : SetRootArgument(i, v)
    BY <1>7
  <2> PICK value \in Arguments(m_pRootSignature[i]) : SetRootArgument(i, value)
    BY <2>1
  <2>2. ArgumentsInv' /\ DOMAIN m_rootValues' = RootValueWords
    BY <1>1, ArgumentSet
  <2>3. m_pRootSignature' = m_pRootSignature /\ m_pDescriptors' = m_pDescriptors
    BY DEF SetRootArgument
  <2>4. TypesInv'
    BY <2>2, <2>3, <1>1, <1>4 DEF TypesInv
  <2> QED
    BY <2>2, <2>4, <1>3, <1>5 DEF ListInv
<1>8. CASE \E d \in 0 .. HeapSize - 1, a \in Allocations : CreateView(d, a)
  <2>1. PICK d \in 0 .. HeapSize - 1, a \in Allocations : CreateView(d, a)
    BY <1>8
  <2>2. /\ m_pDescriptors' = [m_pDescriptors EXCEPT ![d] = a]
        /\ m_pRootSignature' = m_pRootSignature /\ m_rootValues' = m_rootValues /\ args' = args
    BY <2>1 DEF CreateView
  <2>3. m_pDescriptors' \in [0 .. HeapSize - 1 -> Allocations]
    BY <2>2, <1>1 DEF TypesInv
  <2>4. TypesInv'
    BY <2>2, <2>3, <1>1, <1>4 DEF TypesInv
  <2>5. ArgumentsInv'
    BY <2>2, <1>1 DEF ArgumentsInv
  <2> QED
    BY <2>4, <2>5, <1>3, <1>5 DEF ListInv
<1> QED
  BY <1>6, <1>7, <1>8

(* Closing a list puts the current buffer aside once, and Reset gives each *)
(* buffer back; an execution keeps them all.                               *)
LEMMA LifeKeeps ==
  ASSUME ListInv, OrderInv,
         \/ Close \/ Reset
         \/ \E refused \in SUBSET DOMAIN m_filledCommandBuffers : Execute(refused)
         \/ UNCHANGED vars
  PROVE  ListInv' /\ OrderInv'
<1>1. TypesInv /\ ArgumentsInv /\ BuffersInv /\ RecordingInv
  BY DEF ListInv
<1>2. CASE Close
  <2>1. PICK b : b = m_pCurCommandBuffer
    OBVIOUS
  <2>2. PICK s \in Seq(Buffers) : s = m_filledCommandBuffers
    BY <1>1 DEF BuffersInv
  <2>3. list = "recording" /\ list' = "closed" /\ live' = live /\ recorded' = recorded
        /\ UNCHANGED rootVars /\ submitted' = submitted
    BY <1>2 DEF Close
  <2>4. /\ BufferFits(b) /\ b.pos >= GpuCommandSize /\ Len(s) <= MaxCommandBuffers - 1
        /\ \A i \in 1 .. Len(s) : BufferFits(s[i])
    BY <2>1, <2>2, <2>3, <1>1 DEF BuffersInv, RecordingInv
  <2>5. b # Null
    BY <2>4, NotNull
  <2>6. live = Len(s) + 1 /\ Len(s) \in Nat
    BY <2>1, <2>2, <2>5, <1>1 DEF BuffersInv, HeldBuffers
  <2>7. BuffersInv'
    <3>1. CASE IsCommandBufferEmpty(m_pCurCommandBuffer)
      <4>1. UNCHANGED <<m_filledCommandBuffers, m_pCurCommandBuffer>>
        BY <3>1, <1>2 DEF Close
      <4> QED
        BY <4>1, <2>3, <1>1 DEF BuffersInv, HeldBuffers
    <3>2. CASE ~IsCommandBufferEmpty(m_pCurCommandBuffer)
      <4>1. m_filledCommandBuffers' = Append(s, b) /\ m_pCurCommandBuffer' = Null
        BY <3>2, <1>2, <2>1, <2>2 DEF Close
      <4>2. /\ Append(s, b) \in Seq(Buffers)
            /\ \A i \in 1 .. Len(Append(s, b)) : BufferFits(Append(s, b)[i])
            /\ Len(Append(s, b)) = Len(s) + 1 /\ Len(s) + 1 <= MaxCommandBuffers
        BY <2>4, PutAside
      <4>3. PICK t \in Seq(Buffers) : t = Append(s, b)
        BY <4>2
      <4>4. PICK n : n = Null
        OBVIOUS
      <4>5. BufferFits(n)
        BY <4>4, NewFits
      <4>6. live' = Len(t) + 0
        BY <4>2, <4>3, <2>3, <2>6
      <4> QED
        BY <4>1, <4>2, <4>3, <4>4, <4>5, <4>6, BuffersHeld
    <3> QED
      BY <3>1, <3>2
  <2>8. TypesInv' /\ ArgumentsInv'
    BY <2>3, <1>1 DEF TypesInv, ArgumentsInv, rootVars
  <2>9. Holds(m_filledCommandBuffers, m_pCurCommandBuffer, recorded)'
    <3>1. Holds(s, b, recorded) /\ b \in Buffers
      BY <2>1, <2>2, <2>4 DEF OrderInv, BufferFits
    <3>2. CASE IsCommandBufferEmpty(m_pCurCommandBuffer)
      <4>1. m_filledCommandBuffers' = s /\ m_pCurCommandBuffer' = b
        BY <3>2, <1>2, <2>1, <2>2 DEF Close
      <4> QED
        BY <4>1, <3>1, <2>3
    <3>3. CASE ~IsCommandBufferEmpty(m_pCurCommandBuffer)
      <4>1. m_filledCommandBuffers' = Append(s, b) /\ m_pCurCommandBuffer' = Null
        BY <3>3, <1>2, <2>1, <2>2 DEF Close
      <4>2. PICK n : n = Null
        OBVIOUS
      <4>3. n \in Buffers /\ n.cmds = << >>
        BY <4>2, NewFits DEF BufferFits
      <4>4. PICK rec : rec = recorded
        OBVIOUS
      <4>5. Holds(Append(s, b), n, rec)
        BY <3>1, <4>3, <4>4, PutAsideHolds
      <4>6. PICK t : t = Append(s, b)
        OBVIOUS
      <4>7. Holds(t, n, rec) /\ m_filledCommandBuffers' = t
        BY <4>1, <4>5, <4>6
      <4> QED
        BY <4>1, <4>2, <4>4, <4>7, <2>3
    <3> QED
      BY <3>2, <3>3
  <2>10. OrderInv'
    BY <2>3, <2>9 DEF OrderInv, InOrder
  <2> QED
    BY <2>3, <2>7, <2>8, <2>10 DEF ListInv, RecordingInv
<1>3. CASE Reset
  <2>1. PICK t \in Seq(Buffers) : t = << >>
    <3>1. << >> \in Seq(Buffers)
      OBVIOUS
    <3> QED
      BY <3>1
  <2>2. /\ m_filledCommandBuffers' = t /\ Len(t) = 0 /\ recorded' = << >> /\ args' = << >>
        /\ submitted' = << >>
        /\ m_pRootSignature' = m_pRootSignature /\ m_rootValues' = m_rootValues
        /\ m_pDescriptors' = m_pDescriptors
    BY <1>3, <2>1 DEF Reset
  <2>3. live = HeldBuffers /\ HeldBuffers \in Nat
    BY <1>1 DEF BuffersInv, HeldBuffers
  <2>4. live - HeldBuffers + 1 = 1 /\ live - HeldBuffers = 0
    BY <2>3
  <2>5. ASSUME NEW b, BufferFits(b), m_pCurCommandBuffer' = b,
               live' = (IF b = Null THEN 0 ELSE 1)
        PROVE  BuffersInv'
    <3>1. live' = Len(t) + (IF b = Null THEN 0 ELSE 1)
      BY <2>2, <2>5
    <3>2. Len(t) <= MaxCommandBuffers /\ \A i \in 1 .. Len(t) : BufferFits(t[i])
      BY <2>2, Sizes
    <3> QED
      BY <3>1, <3>2, <2>2, <2>5, BuffersHeld
  <2>6. ASSUME m_pCurCommandBuffer' = NewCommandBuffer, live' = live - HeldBuffers + 1,
               list' = "recording"
        PROVE  BuffersInv' /\ RecordingInv'
    <3>1. PICK b : b = NewCommandBuffer
      OBVIOUS
    <3>2. BufferFits(b) /\ b.pos = GpuCommandSize
      BY <3>1, NewFits
    <3>3. b.pos >= GpuCommandSize /\ b # Null
      BY <3>2, NotNull DEF GpuCommandSize
    <3>4. BuffersInv'
      BY <3>1, <3>2, <3>3, <2>4, <2>5, <2>6
    <3>5. RecordingInv'
      <4>1. 0 <= MaxCommandBuffers - 1
        BY Sizes
      <4> QED
        BY <4>1, <3>1, <3>3, <2>2, <2>6 DEF RecordingInv
    <3> QED
      BY <3>4, <3>5
  <2>7. ASSUME m_pCurCommandBuffer' = Null, live' = live - HeldBuffers, list' = "removed"
        PROVE  BuffersInv' /\ RecordingInv'
    <3>1. PICK b : b = Null
      OBVIOUS
    <3>2. BufferFits(b)
      BY <3>1, NewFits
    <3>3. BuffersInv'
      BY <3>1, <3>2, <2>4, <2>5, <2>7
    <3> QED
      BY <3>3, <2>7 DEF RecordingInv
  <2>8. BuffersInv' /\ RecordingInv' /\ list' \in {"recording", "removed"}
    BY <2>6, <2>7, <1>3 DEF Reset
  <2>9. TypesInv'
    <3>1. << >> \in Seq({}) /\ Len(<< >>) <= MaxCommands
      BY Sizes
    <3> QED
      BY <3>1, <2>2, <2>8, <1>1 DEF TypesInv
  <2>10. OrderInv'
    <3>1. m_pCurCommandBuffer' = NewCommandBuffer \/ m_pCurCommandBuffer' = Null
      BY <1>3 DEF Reset
    <3>2. PICK n \in Buffers : n = m_pCurCommandBuffer' /\ n.cmds = << >>
      BY <3>1, NewFits DEF BufferFits
    <3>3. Holds(<< >>, n, << >>)
      BY <3>2, NothingHolds
    <3>4. PICK none : none = << >>
      OBVIOUS
    <3>5. Holds(none, n, none) /\ m_filledCommandBuffers' = none /\ recorded' = none
      BY <3>3, <3>4, <2>1, <2>2
    <3>6. Holds(m_filledCommandBuffers, m_pCurCommandBuffer, recorded)'
      BY <3>2, <3>5
    <3>7. InOrder(submitted') /\ submitted' \in Seq({})
      BY <2>2 DEF InOrder
    <3> QED
      BY <3>6, <3>7 DEF OrderInv
  <2> QED
    BY <2>2, <2>8, <2>9, <2>10, NoArguments DEF ListInv
<1>4. CASE (\E refused \in SUBSET DOMAIN m_filledCommandBuffers : Execute(refused)) \/ UNCHANGED vars
  <2>1. UNCHANGED <<listVars, rootVars>>
    BY <1>4 DEF Execute, vars
  <2>2. ListInv'
    BY <2>1, <1>1 DEF ListInv, TypesInv, ArgumentsInv, BuffersInv, RecordingInv,
                      HeldBuffers, listVars, rootVars
  <2>3. InOrder(submitted') /\ \E S : submitted' \in Seq(S)
    <3>1. ASSUME NEW refused \in SUBSET DOMAIN m_filledCommandBuffers, Execute(refused)
          PROVE  InOrder(submitted') /\ \E S : submitted' \in Seq(S)
      BY <1>1, <3>1, ExecutedInOrder
    <3>2. ASSUME submitted' = submitted
          PROVE  InOrder(submitted') /\ \E S : submitted' \in Seq(S)
      BY <3>2 DEF OrderInv, InOrder
    <3> QED
      BY <1>4, <3>1, <3>2 DEF vars
  <2>4. OrderInv'
    <3>1. /\ m_filledCommandBuffers' = m_filledCommandBuffers
          /\ m_pCurCommandBuffer' = m_pCurCommandBuffer
          /\ recorded' = recorded
      BY <2>1 DEF listVars
    <3> QED
      BY <2>3, <3>1 DEF OrderInv, Holds
  <2> QED
    BY <2>2, <2>4
<1> QED
  BY <1>2, <1>3, <1>4

(* The invariant and the order of what a list holds, from its creation on. *)
LEMMA ListSteps ==
  /\ Init => ListInv /\ OrderInv
  /\ (ListInv /\ OrderInv) /\ [Next]_vars => (ListInv /\ OrderInv)'
<1>1. Init => ListInv /\ OrderInv
  <2> SUFFICES ASSUME Init
               PROVE  ListInv /\ OrderInv
    OBVIOUS
  <2>1. TypesInv
    <3>1. << >> \in Seq({}) /\ Len(<< >>) <= MaxCommands
      BY Sizes
    <3> QED
      BY <3>1 DEF Init, TypesInv
  <2>2. ArgumentsInv
    BY DEF Init, ArgumentsInv
  <2>3. BuffersInv
    <3>1. /\ m_pCurCommandBuffer = Null /\ m_filledCommandBuffers = << >> /\ live = 0
      BY DEF Init
    <3>2. BufferFits(m_pCurCommandBuffer)
      BY <3>1, NewFits
    <3>3. HeldBuffers = 0
      BY <3>1 DEF HeldBuffers
    <3> QED
      BY <3>1, <3>2, <3>3, Sizes DEF BuffersInv
  <2>4. RecordingInv
    BY DEF Init, RecordingInv
  <2>5. OrderInv
    <3>1. /\ m_pCurCommandBuffer = Null /\ m_filledCommandBuffers = << >>
          /\ recorded = << >> /\ submitted = << >>
      BY DEF Init
    <3>2. PICK n : n = Null
      OBVIOUS
    <3>3. n \in Buffers /\ n.cmds = << >>
      BY <3>2, NewFits DEF BufferFits
    <3>4. Holds(<< >>, n, << >>)
      BY <3>3, NothingHolds
    <3>5. InOrder(submitted) /\ submitted \in Seq({})
      BY <3>1 DEF InOrder
    <3> QED
      BY <3>1, <3>2, <3>4, <3>5 DEF OrderInv
  <2> QED
    BY <2>1, <2>2, <2>3, <2>4, <2>5 DEF ListInv
<1>2. (ListInv /\ OrderInv) /\ [Next]_vars => (ListInv /\ OrderInv)'
  <2> SUFFICES ASSUME ListInv, OrderInv, [Next]_vars
               PROVE  ListInv' /\ OrderInv'
    OBVIOUS
  <2>1. CASE \E dst, src \in Allocations : dst # src /\ ResourceCopy(dst, src)
    BY <2>1, CopyKeeps
  <2>2. CASE \E shader \in ShaderSizes : Dispatch(shader)
    BY <2>2, DispatchKeeps
  <2>3. CASE \E descriptors \in TensorBindings : ExecuteMlMetaCommand(descriptors)
    BY <2>3, MetaCommandKeeps
  <2>4. CASE \/ \E sig \in Signatures : SetRootSignature(sig)
             \/ \E i \in Parameters(m_pRootSignature) :
                  \E value \in Arguments(m_pRootSignature[i]) : SetRootArgument(i, value)
             \/ \E d \in 0 .. HeapSize - 1, a \in Allocations : CreateView(d, a)
    BY <2>4, SetupKeeps
  <2>5. CASE \/ Close \/ Reset
             \/ \E refused \in SUBSET DOMAIN m_filledCommandBuffers : Execute(refused)
             \/ UNCHANGED vars
    BY <2>5, LifeKeeps
  <2> QED
    BY <2>1, <2>2, <2>3, <2>4, <2>5 DEF Next
<1> QED
  BY <1>1, <1>2

(* The invariant holds from the creation of a list on.                     *)
THEOREM ListInvariant == Spec => []ListInv
BY ListSteps, PTL DEF Spec

(* The buffers of a list, the current one last.                            *)
LEMMA BuffersOfList ==
  ASSUME ListInv, NEW i \in DOMAIN CommandBuffers
  PROVE  BufferFits(CommandBuffers[i])
<1>1. BuffersInv
  BY DEF ListInv
<1>2. PICK s \in Seq(Buffers) : s = m_filledCommandBuffers
  BY <1>1 DEF BuffersInv
<1>3. PICK b : b = m_pCurCommandBuffer
  OBVIOUS
<1>4. BufferFits(b) /\ b \in Buffers /\ \A k \in 1 .. Len(s) : BufferFits(s[k])
  BY <1>1, <1>2, <1>3 DEF BuffersInv, BufferFits
<1>5. CASE m_pCurCommandBuffer = Null
  <2>1. CommandBuffers = s
    BY <1>5, <1>2 DEF CommandBuffers
  <2> QED
    BY <2>1, <1>4
<1>6. CASE m_pCurCommandBuffer # Null
  <2>1. CommandBuffers = Append(s, b)
    BY <1>6, <1>2, <1>3 DEF CommandBuffers
  <2>2. i \in 1 .. Len(s) + 1
    BY <2>1, <1>4
  <2>3. CASE i \in 1 .. Len(s)
    <3>1. Append(s, b)[i] = s[i]
      BY <2>3, <1>4
    <3> QED
      BY <3>1, <2>1, <2>3, <1>4
  <2>4. CASE i = Len(s) + 1
    <3>1. Append(s, b)[i] = b
      BY <2>4, <1>4
    <3> QED
      BY <3>1, <2>1, <1>4
  <2> QED
    BY <2>2, <2>3, <2>4
<1> QED
  BY <1>5, <1>6

(* The variables of a command list keep their types: the current arguments *)
(* are parameters of the current root signature, and the allocation list   *)
(* of a command buffer names allocations, each once.                       *)
THEOREM ListTypes == Spec => []TypeOK
<1>1. ListInv => TypeOK
  <2> SUFFICES ASSUME ListInv
               PROVE  TypeOK
    OBVIOUS
  <2>1. TypesInv /\ ArgumentsInv
    BY DEF ListInv
  <2>2. Len(recorded) \in 0 .. MaxCommands
    <3>1. Len(recorded) \in Nat /\ Len(recorded) <= MaxCommands
      BY <2>1 DEF TypesInv
    <3> QED
      BY <3>1, Sizes
  <2>3. ASSUME NEW i \in DOMAIN CommandBuffers
        PROVE  /\ CommandBuffers[i].pos \in Nat
               /\ ToSet(CommandBuffers[i].allocs) \subseteq Allocations
               /\ IsInjective(CommandBuffers[i].allocs)
    <3>1. BufferFits(CommandBuffers[i])
      BY BuffersOfList
    <3>2. PICK b \in Buffers : b = CommandBuffers[i] /\ IsInjective(b.allocs)
      BY <3>1 DEF BufferFits
    <3>3. b.pos \in Nat /\ b.allocs \in Seq(Allocations)
      BY DEF Buffers
    <3>4. ToSet(b.allocs) \subseteq Allocations
      BY <3>3 DEF ToSet
    <3> QED
      BY <3>2, <3>3, <3>4
  <2> QED
    BY <2>1, <2>2, <2>3 DEF TypeOK, TypesInv, ArgumentsInv
<1> QED
  BY <1>1, ListInvariant, PTL

(* No command overruns the space, the allocation list or the patch         *)
(* location list of its command buffer, or takes of their thresholds, and  *)
(* the list not the array of its filled buffers: what is reserved before a command is recorded is enough *)
(* for what recording it writes, whatever its root signature.              *)
(* (CosUmd12CommandBuffer::ReserveCommandBufferSpace.)                     *)
THEOREM ReservationIsEnough == Spec => []ListsWithinBuffer
<1>1. ListInv => ListsWithinBuffer
  <2> SUFFICES ASSUME ListInv
               PROVE  ListsWithinBuffer
    OBVIOUS
  <2>1. \A i \in DOMAIN CommandBuffers : BufferFits(CommandBuffers[i])
    BY BuffersOfList
  <2>2. Len(m_filledCommandBuffers) <= MaxCommandBuffers
    BY DEF ListInv, BuffersInv
  <2> QED
    BY <2>1, <2>2 DEF ListsWithinBuffer, BufferFits
<1> QED
  BY <1>1, ListInvariant, PTL

(* Every command buffer that a list has acquired is its current one or one *)
(* of the filled ones, and none is both: Reset releases each once.         *)
(* (CosUmd12CommandList::Close, Reset.)                                    *)
THEOREM BuffersAreReleasedOnce == Spec => []BuffersAccountedFor
<1>1. ListInv => BuffersAccountedFor
  BY DEF ListInv, BuffersInv, BuffersAccountedFor
<1> QED
  BY <1>1, ListInvariant, PTL

(* Every command that a list has recorded and not dropped is in one of its *)
(* buffers, once, and the buffers hold them in the order of the calls, the *)
(* copies apart from what the hardware executes; what has been executed is *)
(* in that order too, whichever buffers the kernel refused.                *)
(* (CosUmd12CommandList::ReserveCommandBufferSpace, Close,                 *)
(* CosUmd12CommandQueue::ExecuteCommandLists.)                             *)
THEOREM RecordingKeepsOrder == Spec => []RecordedInOrder
<1>1. ListInv /\ OrderInv => RecordedInOrder
  <2> SUFFICES ASSUME ListInv, OrderInv
               PROVE  RecordedInOrder
    OBVIOUS
  <2>1. PICK s \in Seq(Buffers) : s = m_filledCommandBuffers
    BY DEF ListInv, BuffersInv
  <2>2. PICK b \in Buffers : b = m_pCurCommandBuffer
    BY DEF ListInv, BuffersInv, BufferFits
  <2>3. PICK S : recorded \in Seq(S)
    BY DEF ListInv, TypesInv
  <2> PICK rec \in Seq(S) : rec = recorded
    BY <2>3
  <2>4. /\ LaidOut(b, rec) /\ \A i \in 1 .. Len(s) : LaidOut(s[i], rec)
        /\ Counts(AllIds(s) \o Ids(b), Len(rec))
    BY <2>1, <2>2 DEF OrderInv, Holds
  <2>5. PICK u \in Seq(Buffers) :
          /\ u = CommandBuffers
          /\ \A i \in 1 .. Len(u) : LaidOut(u[i], rec)
          /\ Counts(AllIds(u), Len(rec))
    <3>1. CASE m_pCurCommandBuffer = Null
      <4>1. Ids(b) = << >>
        <5>1. b.cmds = << >>
          BY <3>1, <2>2, NewFits
        <5> QED
          BY <5>1 DEF Ids
      <4>2. AllIds(s) \in Seq(Nat)
        BY <2>2, AllIdsAppend
      <4>3. AllIds(s) \o Ids(b) = AllIds(s)
        BY <4>1, <4>2
      <4>4. Counts(AllIds(s), Len(rec))
        BY <4>3, <2>4
      <4>5. s = CommandBuffers
        BY <3>1, <2>1 DEF CommandBuffers
      <4> QED
        BY <4>4, <4>5, <2>4
    <3>2. CASE m_pCurCommandBuffer # Null
      <4>1. PICK t \in Seq(Buffers) : t = Append(s, b)
        <5>1. Append(s, b) \in Seq(Buffers)
          OBVIOUS
        <5> QED
          BY <5>1
      <4>2. t = CommandBuffers
        BY <3>2, <4>1, <2>1, <2>2 DEF CommandBuffers
      <4>3. AllIds(t) = AllIds(s) \o Ids(b)
        BY <4>1, AllIdsAppend
      <4>4. \A i \in 1 .. Len(t) : (i \in 1 .. Len(s) /\ t[i] = s[i]) \/ t[i] = b
        BY <4>1
      <4>5. \A i \in 1 .. Len(t) : LaidOut(t[i], rec)
        BY <4>4, <2>4
      <4> QED
        BY <4>2, <4>3, <4>5, <2>4
    <3> QED
      BY <3>1, <3>2
  <2>6. FlattenSeq([i \in DOMAIN CommandBuffers |->
                      [c \in DOMAIN CommandBuffers[i].cmds |-> CommandBuffers[i].cmds[c].id]])
        = [n \in DOMAIN recorded |-> n]
    <3>1. DOMAIN u = 1 .. Len(u) /\ DOMAIN rec = 1 .. Len(rec)
      OBVIOUS
    <3>2. \A i \in 1 .. Len(u) :
            [c \in DOMAIN u[i].cmds |-> u[i].cmds[c].id] = Ids(u[i])
      <4> TAKE i \in 1 .. Len(u)
      <4>1. PICK x \in Buffers : x = u[i]
        OBVIOUS
      <4>2. DOMAIN x.cmds = 1 .. Len(x.cmds)
        BY CommandsAre
      <4>3. [c \in DOMAIN x.cmds |-> x.cmds[c].id] = Ids(x)
        BY <4>2 DEF Ids
      <4> QED
        BY <4>1, <4>3
    <3>3. [i \in DOMAIN u |-> [c \in DOMAIN u[i].cmds |-> u[i].cmds[c].id]]
          = [i \in 1 .. Len(u) |-> Ids(u[i])]
      BY <3>1, <3>2
    <3>4. FlattenSeq([i \in DOMAIN u |-> [c \in DOMAIN u[i].cmds |-> u[i].cmds[c].id]])
          = AllIds(u)
      BY <3>3, Zenon DEF AllIds
    <3>5. AllIds(u) = [n \in DOMAIN rec |-> n]
      BY <2>5, <3>1 DEF Counts
    <3> QED
      BY <3>4, <3>5, <2>3, <2>5, Zenon
  <2>7. \A i \in DOMAIN CommandBuffers : \A c \in DOMAIN CommandBuffers[i].cmds :
          recorded[CommandBuffers[i].cmds[c].id].sw = CommandBuffers[i].sw
    <3>1. ASSUME NEW i \in DOMAIN u, NEW c \in DOMAIN u[i].cmds
          PROVE  rec[u[i].cmds[c].id].sw = u[i].sw
      <4>1. PICK x \in Buffers : x = u[i] /\ LaidOut(x, rec)
        BY <2>5
      <4>2. c \in 1 .. Len(x.cmds)
        BY <4>1, CommandsAre
      <4> QED
        BY <4>1, <4>2 DEF LaidOut
    <3> QED
      BY <3>1, <2>3, <2>5
  <2>8. \A i, j \in DOMAIN submitted : i < j => submitted[i].id < submitted[j].id
    <3>1. PICK U : submitted \in Seq(U)
      BY DEF OrderInv
    <3>2. DOMAIN submitted = 1 .. Len(submitted)
      BY <3>1
    <3> QED
      BY <3>2 DEF OrderInv, InOrder
  <2> QED
    BY <2>6, <2>7, <2>8 DEF RecordedInOrder
<1> QED
  BY <1>1, ListSteps, PTL DEF Spec

-----------------------------------------------------------------------------
(* What the patch locations of a buffer name. *)

(* Where in a command the address e is expected. *)
Field(r, e) == IF r.kind = "dispatch" THEN RegisterOffset(r.sig, e.class, e.register) ELSE e.at

Addresses(offsets) == [at : offsets, alloc : Allocations]
Registers(sig) ==
  {e \in [class : Classes, register : Nat, alloc : Allocations] :
     e.register < NumRegisters(sig, e.class)}

(* A command expects addresses in the places that the engine looks at, and *)
(* one address in each.                                                    *)
Described(r) ==
  /\ r.kind = "copy" => r.size = GpuCommandSize /\ r.expected \subseteq Addresses({2, 4})
  /\ r.kind = "meta" => r.expected \subseteq Addresses(MetaCommandSize .. r.size - 1)
  /\ r.kind = "dispatch" => r.sig \in Signatures /\ r.expected \subseteq Registers(r.sig)
  /\ \A e \in r.expected : Field(r, e) \in Nat /\ Field(r, e) < r.size
  /\ \A e, f \in r.expected : Field(r, e) = Field(r, f) => e = f

(* The patch location k has the address of alloc written at an offset. *)
Names(b, k, at, alloc) ==
  /\ b.patches[k].at = at
  /\ b.patches[k].index \in 1 .. Len(b.allocs)
  /\ b.allocs[b.patches[k].index] = alloc

(* Every patch location is for an address that a command expects, and      *)
(* every address has one.                                                  *)
Patched(b, rec) ==
  /\ \A k \in 1 .. Len(b.patches) : \E c \in 1 .. Len(b.cmds) :
       \E e \in rec[b.cmds[c].id].expected :
         Names(b, k, b.cmds[c].at + Field(rec[b.cmds[c].id], e), e.alloc)
  /\ \A c \in 1 .. Len(b.cmds) : \A e \in rec[b.cmds[c].id].expected :
       \E k \in 1 .. Len(b.patches) :
         Names(b, k, b.cmds[c].at + Field(rec[b.cmds[c].id], e), e.alloc)

(* The commands of a buffer leave no gap: the engine finds each by the     *)
(* size of the one before.                                                 *)
Behind(b, rec, c) ==
  IF c = 0 THEN GpuCommandSize ELSE b.cmds[c].at + rec[b.cmds[c].id].size
Packed(b, rec) ==
  /\ \A c \in 1 .. Len(b.cmds) : b.cmds[c].at = Behind(b, rec, c - 1)
  /\ IF b.cmds = << >> THEN b.pos <= GpuCommandSize ELSE b.pos = Behind(b, rec, Len(b.cmds))

Addressed(b, rec) == Packed(b, rec) /\ Patched(b, rec)

(* The buffers s, and b behind them, hold the commands rec.                *)
AddressesHeld(s, b, rec) ==
  /\ \A n \in 1 .. Len(rec) : Described(rec[n])
  /\ Addressed(b, rec)
  /\ \A i \in 1 .. Len(s) : Addressed(s[i], rec)

AddressInv == AddressesHeld(m_filledCommandBuffers, m_pCurCommandBuffer, recorded)

-----------------------------------------------------------------------------
(* What recording a command adds to the lists of its buffer. *)

(* After k of its references, a command has a patch location for each of   *)
(* them, and no entry of the lists has changed.                            *)
Referring(b, e, refs, k) ==
  /\ Len(b.allocs) <= Len(e.allocs)
  /\ \A i \in 1 .. Len(b.allocs) : e.allocs[i] = b.allocs[i]
  /\ Len(e.patches) = Len(b.patches) + k
  /\ \A i \in 1 .. Len(b.patches) : e.patches[i] = b.patches[i]
  /\ \A j \in 1 .. k : Names(e, Len(b.patches) + j, b.pos + refs[j].offset, refs[j].alloc)

(* Recording one reference: the new patch location has the index of its    *)
(* allocation, which UseAllocation found or appended.  (SetPatchLocation.) *)
LEMMA ReferredNames ==
  ASSUME NEW b \in Buffers, NEW ref \in References
  PROVE  /\ Len(b.allocs) <= Len(Refer(b, ref).allocs)
         /\ \A i \in 1 .. Len(b.allocs) : Refer(b, ref).allocs[i] = b.allocs[i]
         /\ \A i \in 1 .. Len(b.patches) : Refer(b, ref).patches[i] = b.patches[i]
         /\ Names(Refer(b, ref), Len(b.patches) + 1, b.pos + ref.offset, ref.alloc)
<1>1. /\ b.allocs \in Seq(Allocations) /\ Len(b.allocs) \in Nat /\ b.pos \in Nat
      /\ b.patches \in Seq(PatchLocations) /\ ref.alloc \in Allocations /\ ref.offset \in Nat
  BY DEF Buffers, References
<1>2. PICK used : used = UseAllocation(b, ref.alloc)
  OBVIOUS
<1>3. /\ used \in Buffers /\ used.patches = b.patches /\ used.pos = b.pos
      /\ Len(used.allocs) \in Nat /\ Len(b.allocs) <= Len(used.allocs)
      /\ \A i \in 1 .. Len(b.allocs) : used.allocs[i] = b.allocs[i]
      /\ \E i \in 1 .. Len(used.allocs) : used.allocs[i] = ref.alloc
  <2>1. CASE Contains(b.allocs, ref.alloc)
    <3>1. used = b
      BY <2>1, <1>2 DEF UseAllocation
    <3>2. \E i \in 1 .. Len(b.allocs) : b.allocs[i] = ref.alloc
      BY <2>1 DEF Contains
    <3> QED
      BY <3>1, <3>2, <1>1
  <2>2. CASE ~Contains(b.allocs, ref.alloc)
    <3>1. PICK more \in Seq(Allocations) : more = Append(b.allocs, ref.alloc)
      <4>1. Append(b.allocs, ref.alloc) \in Seq(Allocations)
        BY <1>1
      <4> QED
        BY <4>1
    <3>2. /\ Len(more) = Len(b.allocs) + 1 /\ more[Len(b.allocs) + 1] = ref.alloc
          /\ \A i \in 1 .. Len(b.allocs) : more[i] = b.allocs[i]
      BY <3>1, <1>1
    <3>3. used = [b EXCEPT !.allocs = more]
      BY <2>2, <3>1, <1>2 DEF UseAllocation
    <3>4. used \in Buffers /\ used.patches = b.patches /\ used.pos = b.pos /\ used.allocs = more
      BY <3>3 DEF Buffers
    <3>5. Len(b.allocs) + 1 \in 1 .. Len(more)
      BY <3>2, <1>1
    <3> QED
      BY <3>2, <3>4, <3>5, <1>1
  <2> QED
    BY <2>1, <2>2
<1> DEFINE found == {i \in 1 .. Len(used.allocs) : used.allocs[i] = ref.alloc}
<1>4. PICK index \in found : index = SelectInSeq(used.allocs, LAMBDA a : a = ref.alloc)
  <2>1. found # {} /\ found \subseteq Nat
    BY <1>3
  <2>2. SelectInSeq(used.allocs, LAMBDA a : a = ref.alloc) = IF found # {} THEN Min(found) ELSE 0
    BY DEF SelectInSeq
  <2>3. Min(found) \in found
    <3> HIDE DEF found
    <3>1. \E x \in found : \A y \in found : x <= y
      BY <2>1, LeastNumber
    <3> QED
      BY <3>1 DEF Min
  <2> HIDE DEF found
  <2> QED
    BY <2>1, <2>2, <2>3
<1>5. index \in 1 .. Len(used.allocs) /\ used.allocs[index] = ref.alloc /\ index \in Nat
  <2>1. index \in 1 .. Len(used.allocs) /\ used.allocs[index] = ref.alloc
    OBVIOUS
  <2> HIDE DEF found
  <2> QED
    BY <2>1, <1>3
<1> HIDE DEF found
<1>6. PICK entry \in PatchLocations : entry = [at |-> b.pos + ref.offset, index |-> index]
  <2>1. b.pos + ref.offset \in Nat /\ index \in Nat
    BY <1>1, <1>5
  <2>2. [at |-> b.pos + ref.offset, index |-> index] \in PatchLocations
    BY <2>1 DEF PatchLocations
  <2> QED
    BY <2>2
<1>7. entry.at = b.pos + ref.offset /\ entry.index = index
  BY <1>6
<1>8. PICK new \in Seq(PatchLocations) : new = Append(b.patches, entry)
  <2>1. Append(b.patches, entry) \in Seq(PatchLocations)
    BY <1>1
  <2> QED
    BY <2>1
<1>9. /\ new[Len(b.patches) + 1] = entry
      /\ \A i \in 1 .. Len(b.patches) : new[i] = b.patches[i]
  BY <1>1, <1>8
<1>10. Refer(b, ref) = [used EXCEPT !.patches = new]
  BY <1>2, <1>3, <1>4, <1>6, <1>8 DEF Refer
<1>11. PICK e : e = Refer(b, ref) /\ e.patches = new /\ e.allocs = used.allocs
  BY <1>3, <1>10 DEF Buffers
<1>12. Names(e, Len(b.patches) + 1, b.pos + ref.offset, ref.alloc)
  BY <1>5, <1>7, <1>9, <1>11 DEF Names
<1> QED
  BY <1>3, <1>9, <1>11, <1>12

(* The buffers that recording the references goes through. *)
LEMMA ReferTrace ==
  ASSUME NEW b \in Buffers, NEW refs \in Seq(References)
  PROVE  \E h \in [0 .. Len(refs) -> Buffers] :
           /\ h[0] = b /\ FoldLeft(Refer, b, refs) = h[Len(refs)]
           /\ \A k \in 1 .. Len(refs) : h[k] = Refer(h[k - 1], refs[k])
<1> DEFINE N == Len(refs)
           Step == [x \in Buffers \X References |-> Refer(x[1], x[2])]
           Fold(f) == f = [I \in SUBSET (1 .. N) |->
                             IF I = {} THEN b ELSE Refer(f[I \ {Max(I)}], refs[Max(I)])]
           c == CHOOSE f : Fold(f)
<1>1. N \in Nat /\ DOMAIN refs = 1 .. N /\ refs \in [1 .. N -> References]
      /\ \A k \in 1 .. N : refs[k] \in References
  OBVIOUS
<1>2. FoldLeft(Refer, b, refs) = c[1 .. N]
  BY <1>1 DEF FoldLeft, MapThenFoldSet
<1>3. Step \in [Buffers \X References -> Buffers]
  BY Referred
<1>4. PICK f : Tabulated(Buffers, Step, b, N, refs, f)
  <2> HIDE DEF Step, N
  <2> QED
    BY <1>1, <1>3, FoldExists
<1>5. /\ f \in [SUBSET (1 .. N) -> Buffers]
      /\ \A I \in SUBSET (1 .. N) :
           f[I] = IF I = {} THEN b ELSE Step[<<f[I \ {Max(I)}], refs[Max(I)]>>]
  <2> HIDE DEF Step, N
  <2> QED
    BY <1>4 DEF Tabulated
<1>6. ASSUME NEW I \in SUBSET (1 .. N)
      PROVE  f[I] = IF I = {} THEN b ELSE Refer(f[I \ {Max(I)}], refs[Max(I)])
  <2>1. CASE I = {}
    BY <2>1, <1>5
  <2>2. CASE I # {}
    <3>1. Max(I) \in I
      <4>1. I \in SUBSET (0 .. N)
        OBVIOUS
      <4> QED
        BY <2>2, <4>1, <1>1, MaxExists
    <3>2. f[I \ {Max(I)}] \in Buffers /\ refs[Max(I)] \in References
      BY <3>1, <1>5, <1>1
    <3> QED
      BY <2>2, <3>2, <1>5
  <2> QED
    BY <2>1, <2>2
<1>7. Fold(f)
  <2>1. f = [I \in SUBSET (1 .. N) |-> f[I]]
    BY <1>5
  <2> QED
    BY <1>6, <2>1
<1>8. Fold(c)
  <2> HIDE DEF Fold
  <2> QED
    BY <1>7
<1>9. \A I \in SUBSET (1 .. N) :
        c[I] = IF I = {} THEN b ELSE Refer(c[I \ {Max(I)}], refs[Max(I)])
  <2> HIDE DEF c
  <2> QED
    BY <1>8
<1> HIDE DEF c
<1> DEFINE h == [k \in 0 .. N |-> c[1 .. k]]
<1>10. c[1 .. 0] = b
  <2>1. 1 .. 0 = {} /\ 1 .. 0 \in SUBSET (1 .. N)
    OBVIOUS
  <2> QED
    BY <2>1, <1>9
<1>11. ASSUME NEW k \in 1 .. N
       PROVE  h[k] = Refer(h[k - 1], refs[k]) /\ k \in 0 .. N /\ k - 1 \in 0 .. N
  <2>1. 1 .. k \in SUBSET (1 .. N) /\ k \in 0 .. N /\ k - 1 \in 0 .. N /\ k \in Nat /\ k # 0
    BY <1>1
  <2>2. c[1 .. k] = Refer(c[(1 .. k) \ {Max(1 .. k)}], refs[Max(1 .. k)])
    BY <2>1, <1>9, InitialSegments
  <2>3. c[1 .. k] = Refer(c[1 .. k - 1], refs[k])
    BY <2>1, <2>2, InitialSegments
  <2> QED
    BY <2>1, <2>3
<1> DEFINE Q == {k \in 0 .. N : h[k] \in Buffers}
<1>12. 0 \in Q
  BY <1>1, <1>10
<1>13. ASSUME NEW k \in 1 .. N, k - 1 \in Q
       PROVE  k \in Q
  <2>1. h[k - 1] \in Buffers /\ refs[k] \in References
    BY <1>13, <1>1
  <2> HIDE DEF h
  <2>2. Refer(h[k - 1], refs[k]) \in Buffers
    BY <2>1, Referred
  <2> QED
    BY <2>2, <1>11
<1>14. \A k \in 0 .. N : k \in Q
  <2> HIDE DEF Q, N
  <2> QED
    BY <1>1, <1>12, <1>13, Indices
<1>15. h[0] = b /\ h[N] = c[1 .. N] /\ N \in 0 .. N
  BY <1>1, <1>10
<1>16. h \in [0 .. N -> Buffers]
  <2>1. \A k \in 0 .. N : c[1 .. k] \in Buffers
    BY <1>14
  <2> QED
    BY <2>1
<1> HIDE DEF h
<1> QED
  BY <1>2, <1>11, <1>15, <1>16

(* One reference more.                                                     *)
LEMMA ReferringOn ==
  ASSUME NEW b \in Buffers, NEW e \in Buffers, e.pos = b.pos,
         NEW refs \in Seq(References), NEW k \in 1 .. Len(refs), Referring(b, e, refs, k - 1)
  PROVE  Referring(b, Refer(e, refs[k]), refs, k) /\ Refer(e, refs[k]) \in Buffers
         /\ Refer(e, refs[k]).pos = b.pos
<1>1. PICK ref \in References : ref = refs[k]
  OBVIOUS
<1>2. PICK new \in Buffers : new = Refer(e, ref)
  BY Referred
<1>3. new.pos = b.pos /\ Len(new.patches) = Len(e.patches) + 1
  BY <1>2, Referred
<1>4. /\ Len(e.allocs) <= Len(new.allocs)
      /\ \A i \in 1 .. Len(e.allocs) : new.allocs[i] = e.allocs[i]
      /\ \A i \in 1 .. Len(e.patches) : new.patches[i] = e.patches[i]
      /\ Names(new, Len(e.patches) + 1, e.pos + ref.offset, ref.alloc)
  BY <1>2, ReferredNames
<1>5. /\ Len(b.allocs) \in Nat /\ Len(e.allocs) \in Nat /\ Len(new.allocs) \in Nat
      /\ Len(b.patches) \in Nat /\ Len(e.patches) \in Nat
  BY DEF Buffers
<1>6. /\ Len(b.allocs) <= Len(e.allocs)
      /\ \A i \in 1 .. Len(b.allocs) : e.allocs[i] = b.allocs[i]
      /\ Len(e.patches) = Len(b.patches) + (k - 1)
      /\ \A i \in 1 .. Len(b.patches) : e.patches[i] = b.patches[i]
      /\ \A j \in 1 .. k - 1 : Names(e, Len(b.patches) + j, b.pos + refs[j].offset, refs[j].alloc)
  BY DEF Referring
<1>7. /\ Len(b.allocs) <= Len(new.allocs)
      /\ \A i \in 1 .. Len(b.allocs) : new.allocs[i] = b.allocs[i]
  BY <1>4, <1>5, <1>6
<1>8. /\ Len(new.patches) = Len(b.patches) + k
      /\ \A i \in 1 .. Len(b.patches) : new.patches[i] = b.patches[i]
  BY <1>3, <1>4, <1>5, <1>6
<1>9. ASSUME NEW j \in 1 .. k
      PROVE  Names(new, Len(b.patches) + j, b.pos + refs[j].offset, refs[j].alloc)
  <2>1. CASE j = k
    <3>1. Len(e.patches) + 1 = Len(b.patches) + j
      BY <2>1, <1>5, <1>6
    <3> QED
      BY <3>1, <2>1, <1>1, <1>4
  <2>2. CASE j # k
    <3>1. j \in 1 .. k - 1
      BY <2>2
    <3>2. Names(e, Len(b.patches) + j, b.pos + refs[j].offset, refs[j].alloc)
      BY <3>1, <1>6
    <3>3. PICK p \in 1 .. Len(e.patches) : p = Len(b.patches) + j
      <4>1. PICK l \in Nat : l = Len(b.patches)
        BY <1>5
      <4>2. l + j \in 1 .. l + (k - 1)
        BY <3>1
      <4> QED
        BY <4>1, <4>2, <1>6
    <3>4. new.patches[p] = e.patches[p]
      BY <1>4
    <3>5. PICK i \in 1 .. Len(e.allocs) : i = e.patches[p].index
      BY <3>2, <3>3 DEF Names
    <3>6. new.allocs[i] = e.allocs[i] /\ i \in 1 .. Len(new.allocs)
      BY <1>4, <1>5
    <3> QED
      BY <3>2, <3>3, <3>4, <3>5, <3>6 DEF Names
  <2> QED
    BY <2>1, <2>2
<1>10. Referring(b, new, refs, k)
  BY <1>7, <1>8, <1>9 DEF Referring
<1> QED
  BY <1>1, <1>2, <1>3, <1>10

(* The references of a command, one after the other, name what they refer  *)
(* to, and what the lists held before is left alone.                       *)
LEMMA ReferredInTurnNames ==
  ASSUME NEW b \in Buffers, NEW refs \in Seq(References)
  PROVE  Referring(b, FoldLeft(Refer, b, refs), refs, Len(refs))
<1> DEFINE N == Len(refs)
<1>1. N \in Nat
  OBVIOUS
<1>2. PICK h \in [0 .. N -> Buffers] :
        /\ h[0] = b /\ FoldLeft(Refer, b, refs) = h[N]
        /\ \A k \in 1 .. N : h[k] = Refer(h[k - 1], refs[k])
  BY ReferTrace
<1> DEFINE Q == {k \in 0 .. N : h[k].pos = b.pos /\ Referring(b, h[k], refs, k)}
<1>3. 0 \in Q
  <2>1. Len(b.allocs) \in Nat /\ Len(b.patches) \in Nat
    BY DEF Buffers
  <2>2. Referring(b, b, refs, 0)
    BY <2>1 DEF Referring
  <2> HIDE DEF N
  <2> QED
    BY <2>2, <1>1, <1>2
<1>4. ASSUME NEW k \in 1 .. N, k - 1 \in Q
      PROVE  k \in Q
  <2>1. k \in 0 .. N /\ k - 1 \in 0 .. N
    BY <1>1
  <2>2. PICK e \in Buffers : e = h[k - 1]
    <3> HIDE DEF N
    <3> QED
      BY <2>1
  <2>3. e.pos = b.pos /\ Referring(b, e, refs, k - 1)
    BY <2>2, <1>4
  <2>4. Referring(b, Refer(e, refs[k]), refs, k) /\ Refer(e, refs[k]).pos = b.pos
    BY <2>3, ReferringOn
  <2>5. h[k] = Refer(e, refs[k])
    BY <2>2, <1>2
  <2> QED
    BY <2>1, <2>4, <2>5
<1>5. \A k \in 0 .. N : k \in Q
  <2> HIDE DEF Q, N
  <2> QED
    BY <1>1, <1>3, <1>4, Indices
<1>6. N \in Q
  <2> HIDE DEF Q, N
  <2> QED
    BY <1>1, <1>5
<1> QED
  BY <1>2, <1>6

(* What recording a command leaves in the lists of its buffer.             *)
LEMMA WrittenNames ==
  ASSUME NEW b, BufferFits(b), NEW sw \in BOOLEAN, NEW size \in Nat,
         NEW refs \in Seq(References), NEW id \in Nat
  PROVE  Referring(b, Written(b, sw, size, refs, id), refs, Len(refs))
<1>1. /\ Retyped(b, sw) \in Buffers /\ Retyped(b, sw).pos = b.pos
      /\ Retyped(b, sw).allocs = b.allocs /\ Retyped(b, sw).patches = b.patches
      /\ Retyped(b, sw).cmds = b.cmds /\ b \in Buffers
  BY RetypedFits DEF BufferFits
<1>2. PICK cmd \in [id : Nat, at : Nat] : cmd = [id |-> id, at |-> b.pos]
  <2>1. b.pos \in Nat
    BY <1>1 DEF Buffers
  <2> QED
    BY <2>1
<1>3. PICK more \in Seq([id : Nat, at : Nat]) : more = Append(b.cmds, cmd)
  <2>1. b.cmds \in Seq([id : Nat, at : Nat])
    BY <1>1 DEF Buffers
  <2>2. Append(b.cmds, cmd) \in Seq([id : Nat, at : Nat])
    BY <2>1
  <2> QED
    BY <2>2
<1>4. PICK r \in Buffers : r = Retyped(b, sw)
  BY <1>1
<1>5. PICK start : start = [r EXCEPT !.cmds = more]
  OBVIOUS
<1>6. /\ start \in Buffers /\ start.pos = b.pos /\ start.allocs = b.allocs
      /\ start.patches = b.patches
  BY <1>1, <1>4, <1>5 DEF Buffers
<1>7. PICK end : end = FoldLeft(Refer, start, refs)
  OBVIOUS
<1>8. Referring(start, end, refs, Len(refs))
  BY <1>6, <1>7, ReferredInTurnNames
<1>9. IsInjective(start.allocs)
  BY <1>6 DEF BufferFits
<1>10. end \in Buffers
  BY <1>6, <1>7, <1>9, ReferredInTurn
<1>11. PICK pos : pos = end.pos + size
  OBVIOUS
<1>12. PICK w : w = [end EXCEPT !.pos = pos]
  OBVIOUS
<1>13. w.allocs = end.allocs /\ w.patches = end.patches
  BY <1>10, <1>12 DEF Buffers
<1>14. Referring(b, w, refs, Len(refs))
  BY <1>6, <1>8, <1>13 DEF Referring, Names
<1>15. start = [Retyped(b, sw) EXCEPT !.cmds = Append(@, [id |-> id, at |-> b.pos])]
  BY <1>1, <1>2, <1>3, <1>4, <1>5
<1>16. w = [end EXCEPT !.pos = @ + size]
  BY <1>11, <1>12
<1>17. Written(b, sw, size, refs, id) = w
  BY <1>7, <1>15, <1>16 DEF Written
<1> QED
  BY <1>14, <1>17

(* The references of a command are those that it expects.                  *)
RefersTo(r, ref, e) == ref.offset = Field(r, e) /\ ref.alloc = e.alloc
RefsMatch(r, refs) ==
  /\ \A j \in 1 .. Len(refs) : \E e \in r.expected : RefersTo(r, refs[j], e)
  /\ \A e \in r.expected : \E j \in 1 .. Len(refs) : RefersTo(r, refs[j], e)

(* A command behind those of a buffer.  (CommitCommandBufferSpace.)        *)
LEMMA OneMoreCommand ==
  ASSUME NEW b \in Buffers, NEW w \in Buffers, NEW L \in Nat,
         w.cmds = Append(b.cmds, [id |-> L + 1, at |-> b.pos])
  PROVE  /\ Len(b.cmds) \in Nat /\ Len(w.cmds) = Len(b.cmds) + 1
         /\ w.cmds[Len(b.cmds) + 1].id = L + 1 /\ w.cmds[Len(b.cmds) + 1].at = b.pos
         /\ \A c \in 1 .. Len(b.cmds) : w.cmds[c] = b.cmds[c]
         /\ \A c \in 1 .. Len(w.cmds) : c \in 1 .. Len(b.cmds) \/ c = Len(b.cmds) + 1
<1>1. PICK C : C = [id : Nat, at : Nat]
  OBVIOUS
<1>2. PICK cmds \in Seq(C) : cmds = b.cmds
  BY <1>1 DEF Buffers
<1>3. b.pos \in Nat /\ L + 1 \in Nat
  BY DEF Buffers
<1>4. PICK new \in C : new = [id |-> L + 1, at |-> b.pos]
  BY <1>1, <1>3
<1>5. new.id = L + 1 /\ new.at = b.pos
  BY <1>4
<1>6. PICK more : more = Append(cmds, new)
  OBVIOUS
<1>7. /\ Len(cmds) \in Nat /\ Len(more) = Len(cmds) + 1 /\ more[Len(cmds) + 1] = new
      /\ \A c \in 1 .. Len(cmds) : more[c] = cmds[c]
      /\ \A c \in 1 .. Len(cmds) + 1 : c \in 1 .. Len(cmds) \/ c = Len(cmds) + 1
  BY <1>6
<1>8. w.cmds = more
  BY <1>2, <1>4, <1>6
<1> QED
  BY <1>2, <1>5, <1>7, <1>8

(* The commands recorded so far keep their numbers. *)
LEMMA OneMoreRecorded ==
  ASSUME NEW S, NEW rec \in Seq(S), NEW command, NEW more, more = Append(rec, command)
  PROVE  /\ Len(rec) \in Nat /\ Len(more) = Len(rec) + 1 /\ more[Len(rec) + 1] = command
         /\ \A n \in 1 .. Len(rec) : more[n] = rec[n]
<1>1. rec \in Seq(S \cup {command})
  OBVIOUS
<1> QED
  BY <1>1

(* What a buffer holds is not affected by what is recorded later.          *)
LEMMA AddressedFurther ==
  ASSUME NEW b \in Buffers, NEW S, NEW rec \in Seq(S), LaidOut(b, rec), Addressed(b, rec),
         NEW command, NEW more, more = Append(rec, command)
  PROVE  Addressed(b, more)
<1>1. \A n \in 1 .. Len(rec) : more[n] = rec[n]
  BY OneMoreRecorded
<1>2. \A c \in 1 .. Len(b.cmds) : more[b.cmds[c].id] = rec[b.cmds[c].id]
  BY <1>1 DEF LaidOut
<1>3. Len(b.cmds) \in Nat /\ (Len(b.cmds) = 0 <=> b.cmds = << >>)
  BY DEF Buffers
<1>4. \A c \in 0 .. Len(b.cmds) : Behind(b, more, c) = Behind(b, rec, c)
  <2>1. \A c \in 0 .. Len(b.cmds) : c = 0 \/ c \in 1 .. Len(b.cmds)
    BY <1>3
  <2> QED
    BY <2>1, <1>2 DEF Behind
<1>5. Packed(b, more)
  <2>1. \A c \in 1 .. Len(b.cmds) : c - 1 \in 0 .. Len(b.cmds)
    BY <1>3
  <2>2. Len(b.cmds) \in 0 .. Len(b.cmds)
    BY <1>3
  <2> QED
    BY <1>4, <2>1, <2>2 DEF Packed, Addressed
<1>6. Patched(b, more)
  BY <1>2 DEF Patched, Addressed
<1> QED
  BY <1>5, <1>6 DEF Addressed

(* A command is written behind the one before, and its patch locations     *)
(* name what it expects.                                                   *)
LEMMA WrittenAddressed ==
  ASSUME NEW b \in Buffers, NEW w \in Buffers, NEW S, NEW rec \in Seq(S), LaidOut(b, rec),
         Addressed(b, rec), NEW command, NEW refs \in Seq(References),
         RefsMatch(command, refs), Referring(b, w, refs, Len(refs)),
         w.cmds = Append(b.cmds, [id |-> Len(rec) + 1, at |-> b.pos]),
         w.pos = b.pos + command.size, b.pos >= GpuCommandSize
  PROVE  Addressed(w, Append(rec, command))
<1>1. PICK more : more = Append(rec, command)
  OBVIOUS
<1>2. PICK N \in Nat, L \in Nat, P \in Nat, R \in Nat :
        N = Len(b.cmds) /\ L = Len(rec) /\ P = Len(b.patches) /\ R = Len(refs)
  BY CommandsAre DEF Buffers
<1>3. more[L + 1] = command /\ \A n \in 1 .. L : more[n] = rec[n]
  BY <1>1, <1>2, OneMoreRecorded
<1>4. /\ Len(w.cmds) = N + 1 /\ w.cmds[N + 1].id = L + 1 /\ w.cmds[N + 1].at = b.pos
      /\ \A c \in 1 .. N : w.cmds[c] = b.cmds[c]
      /\ \A c \in 1 .. N + 1 : c \in 1 .. N \/ c = N + 1
  BY <1>2, OneMoreCommand
<1>5. \A c \in 1 .. N : b.cmds[c].id \in 1 .. L /\ more[b.cmds[c].id] = rec[b.cmds[c].id]
  BY <1>2, <1>3 DEF LaidOut
<1>6. N + 1 # 0 /\ w.cmds # << >> /\ (N = 0 <=> b.cmds = << >>)
  <2>1. Len(<< >>) = 0
    OBVIOUS
  <2>2. Len(b.cmds) = 0 => b.cmds = << >>
    BY DEF Buffers
  <2>3. N + 1 # 0
    OBVIOUS
  <2>4. w.cmds = << >> => Len(w.cmds) = 0
    BY <2>1, Zenon
  <2>5. b.cmds = << >> => Len(b.cmds) = 0
    BY <2>1, Zenon
  <2> QED
    BY <1>2, <1>4, <2>2, <2>3, <2>4, <2>5, Zenon
<1>7. \A c \in 0 .. N : Behind(w, more, c) = Behind(b, rec, c)
  BY <1>2, <1>4, <1>5 DEF Behind
<1>8. b.pos = Behind(b, rec, N)
  <2>1. b.pos \in Nat
    BY DEF Buffers
  <2>2. IF b.cmds = << >> THEN b.pos <= GpuCommandSize ELSE b.pos = Behind(b, rec, N)
    BY <1>2 DEF Packed, Addressed
  <2>3. CASE N = 0
    BY <2>1, <2>2, <2>3, <1>6 DEF Behind, GpuCommandSize
  <2>4. CASE N # 0
    BY <2>2, <2>4, <1>6
  <2> QED
    BY <2>3, <2>4
<1>9. Packed(w, more)
  <2>1. ASSUME NEW c \in 1 .. N + 1
        PROVE  w.cmds[c].at = Behind(w, more, c - 1)
    <3>1. CASE c \in 1 .. N
      <4>1. b.cmds[c].at = Behind(b, rec, c - 1)
        BY <3>1, <1>2 DEF Packed, Addressed
      <4>2. c - 1 \in 0 .. N
        BY <3>1
      <4> QED
        BY <4>1, <4>2, <3>1, <1>4, <1>7
    <3>2. CASE c = N + 1
      <4>1. c - 1 = N /\ N \in 0 .. N
        BY <3>2
      <4> QED
        BY <4>1, <3>2, <1>4, <1>7, <1>8
    <3> QED
      BY <3>1, <3>2, <1>4
  <2>2. w.pos = Behind(w, more, N + 1)
    BY <1>3, <1>4, <1>6 DEF Behind
  <2> QED
    BY <2>1, <2>2, <1>4, <1>6 DEF Packed
<1>10. /\ Len(w.patches) = P + R
       /\ \A k \in 1 .. P : w.patches[k] = b.patches[k]
       /\ \A j \in 1 .. R : Names(w, P + j, b.pos + refs[j].offset, refs[j].alloc)
  BY <1>2 DEF Referring
<1>11. ASSUME NEW k \in 1 .. P, NEW at, NEW alloc, Names(b, k, at, alloc)
       PROVE  Names(w, k, at, alloc)
  <2>1. /\ Len(b.allocs) <= Len(w.allocs)
        /\ \A i \in 1 .. Len(b.allocs) : w.allocs[i] = b.allocs[i]
    BY DEF Referring
  <2>2. Len(b.allocs) \in Nat /\ Len(w.allocs) \in Nat
    <3>1. \A x \in Buffers : x.allocs \in Seq(Allocations)
      BY DEF Buffers
    <3>2. \A t \in Seq(Allocations) : Len(t) \in Nat
      OBVIOUS
    <3> QED
      BY <3>1, <3>2
  <2>3. PICK i \in 1 .. Len(b.allocs) : i = b.patches[k].index
    BY <1>11 DEF Names
  <2>4. i \in 1 .. Len(w.allocs) /\ w.allocs[i] = b.allocs[i]
    BY <2>1, <2>2
  <2> QED
    BY <2>3, <2>4, <1>10, <1>11 DEF Names
<1>12. ASSUME NEW k \in 1 .. P + R
       PROVE  \E c \in 1 .. N + 1 : \E e \in more[w.cmds[c].id].expected :
                Names(w, k, w.cmds[c].at + Field(more[w.cmds[c].id], e), e.alloc)
  <2>1. CASE k \in 1 .. P
    <3>1. PICK c \in 1 .. N : \E e \in rec[b.cmds[c].id].expected :
            Names(b, k, b.cmds[c].at + Field(rec[b.cmds[c].id], e), e.alloc)
      BY <2>1, <1>2 DEF Addressed, Patched
    <3>2. PICK e \in rec[b.cmds[c].id].expected :
            Names(b, k, b.cmds[c].at + Field(rec[b.cmds[c].id], e), e.alloc)
      BY <3>1
    <3>3. Names(w, k, b.cmds[c].at + Field(rec[b.cmds[c].id], e), e.alloc)
      BY <2>1, <3>2, <1>11
    <3>4. w.cmds[c] = b.cmds[c] /\ more[w.cmds[c].id] = rec[b.cmds[c].id] /\ c \in 1 .. N + 1
      BY <1>4, <1>5
    <3> QED
      BY <3>3, <3>4
  <2>2. CASE k \notin 1 .. P
    <3>1. PICK j \in 1 .. R : k = P + j
      <4>1. k - P \in 1 .. R /\ k = P + (k - P)
        BY <2>2
      <4> QED
        BY <4>1
    <3>2. PICK e \in command.expected : RefersTo(command, refs[j], e)
      BY <1>2 DEF RefsMatch
    <3>3. Names(w, k, b.pos + Field(command, e), e.alloc)
      BY <3>1, <3>2, <1>10 DEF RefersTo
    <3>4. N + 1 \in 1 .. N + 1
      OBVIOUS
    <3> QED
      BY <3>3, <3>4, <1>3, <1>4
  <2> QED
    BY <2>1, <2>2
<1>13. ASSUME NEW c \in 1 .. N + 1, NEW e \in more[w.cmds[c].id].expected
       PROVE  \E k \in 1 .. P + R :
                Names(w, k, w.cmds[c].at + Field(more[w.cmds[c].id], e), e.alloc)
  <2>1. CASE c \in 1 .. N
    <3>1. w.cmds[c] = b.cmds[c] /\ more[w.cmds[c].id] = rec[b.cmds[c].id]
      BY <2>1, <1>4, <1>5
    <3>2. PICK k \in 1 .. P : Names(b, k, b.cmds[c].at + Field(rec[b.cmds[c].id], e), e.alloc)
      BY <2>1, <3>1, <1>2 DEF Addressed, Patched
    <3>3. Names(w, k, b.cmds[c].at + Field(rec[b.cmds[c].id], e), e.alloc) /\ k \in 1 .. P + R
      BY <3>2, <1>11
    <3> QED
      BY <3>1, <3>3
  <2>2. CASE c = N + 1
    <3>1. more[w.cmds[c].id] = command /\ w.cmds[c].at = b.pos
      BY <2>2, <1>3, <1>4
    <3>2. PICK j \in 1 .. R : RefersTo(command, refs[j], e)
      BY <3>1, <1>2 DEF RefsMatch
    <3>3. Names(w, P + j, b.pos + Field(command, e), e.alloc)
      BY <3>2, <1>10 DEF RefersTo
    <3>4. P + j \in 1 .. P + R
      OBVIOUS
    <3> QED
      BY <3>1, <3>3, <3>4
  <2> QED
    BY <2>1, <2>2, <1>4
<1>14. Patched(w, more)
  BY <1>4, <1>10, <1>12, <1>13 DEF Patched
<1> QED
  BY <1>1, <1>9, <1>14 DEF Addressed

-----------------------------------------------------------------------------
(* What a command expects. *)

(* Lists one behind the other have the elements of each.                   *)
HasElements(flat, seqs) ==
  /\ \A m \in 1 .. Len(flat) :
       \E i \in 1 .. Len(seqs) : \E a \in 1 .. Len(seqs[i]) : flat[m] = seqs[i][a]
  /\ \A i \in 1 .. Len(seqs) : \A a \in 1 .. Len(seqs[i]) :
       \E m \in 1 .. Len(flat) : flat[m] = seqs[i][a]

LEMMA FlattenElements ==
  ASSUME NEW T, NEW seqs \in Seq(Seq(T))
  PROVE  FlattenSeq(seqs) \in Seq(T) /\ HasElements(FlattenSeq(seqs), seqs)
<1> DEFINE N == Len(seqs)
           From(x, k) == \E i \in 1 .. k : \E a \in 1 .. Len(seqs[i]) : x = seqs[i][a]
           In(s, i) == \A a \in 1 .. Len(seqs[i]) : \E m \in 1 .. Len(s) : s[m] = seqs[i][a]
           Good(s, k) == (\A m \in 1 .. Len(s) : From(s[m], k)) /\ \A i \in 1 .. k : In(s, i)
<1>1. N \in Nat /\ \A i \in 1 .. N : seqs[i] \in Seq(T) /\ Len(seqs[i]) \in Nat
  OBVIOUS
<1>2. PICK g : FlatTrace(T, seqs, g)
  BY FlattenTraced
<1>3. /\ g \in [0 .. N -> Seq(T)] /\ g[0] = << >> /\ FlattenSeq(seqs) = g[N]
      /\ \A k \in 1 .. N : g[k] = g[k - 1] \o seqs[k]
  BY <1>2 DEF FlatTrace
<1> DEFINE Q == {k \in 0 .. N : Good(g[k], k)}
<1>4. 0 \in Q
  <2>1. Good(<< >>, 0)
    OBVIOUS
  <2> HIDE DEF Good, N
  <2> QED
    BY <2>1, <1>1, <1>3
<1>5. ASSUME NEW k \in 1 .. N, k - 1 \in Q
      PROVE  k \in Q
  <2>1. k - 1 \in 0 .. N /\ k \in 0 .. N /\ k \in Nat
    BY <1>1
  <2>2. PICK s \in Seq(T) : s = g[k - 1]
    <3> HIDE DEF N
    <3> QED
      BY <2>1, <1>3
  <2>3. PICK t \in Seq(T) : t = seqs[k]
    BY <1>1
  <2>4. PICK st \in Seq(T) : st = s \o t
    <3>1. s \o t \in Seq(T)
      OBVIOUS
    <3> QED
      BY <3>1
  <2>5. g[k] = st
    <3> HIDE DEF N
    <3> QED
      BY <2>2, <2>3, <2>4, <1>3
  <2>6. Good(s, k - 1)
    <3> HIDE DEF Good, N
    <3> QED
      BY <2>2, <1>5
  <2>7. /\ Len(s) \in Nat /\ Len(t) \in Nat /\ Len(st) = Len(s) + Len(t)
        /\ \A m \in 1 .. Len(s) : st[m] = s[m] /\ m \in 1 .. Len(st)
        /\ \A m \in Len(s) + 1 .. Len(st) : st[m] = t[m - Len(s)] /\ m - Len(s) \in 1 .. Len(t)
        /\ \A a \in 1 .. Len(t) : Len(s) + a \in 1 .. Len(st) /\ st[Len(s) + a] = t[a]
    BY <2>4
  <2>8. \A x : From(x, k - 1) => From(x, k)
    <3>1. \A i \in 1 .. k - 1 : i \in 1 .. k
      OBVIOUS
    <3> QED
      BY <3>1
  <2>9. \A b \in 1 .. Len(t) : From(t[b], k)
    <3>1. k \in 1 .. k
      BY <2>1
    <3> QED
      BY <3>1, <2>3
  <2>10. \A m \in 1 .. Len(st) : From(st[m], k)
    <3>1. \A m \in 1 .. Len(s) : From(s[m], k - 1)
      BY <2>6
    <3> HIDE DEF From
    <3> TAKE m \in 1 .. Len(st)
    <3>2. CASE m \in 1 .. Len(s)
      BY <3>1, <3>2, <2>7, <2>8
    <3>3. CASE m \in Len(s) + 1 .. Len(st)
      BY <3>3, <2>7, <2>9
    <3> QED
      BY <3>2, <3>3, <2>7
  <2>11. ASSUME NEW i \in 1 .. k
         PROVE  In(st, i)
    <3>1. CASE i = k
      BY <3>1, <2>3, <2>7
    <3>2. CASE i # k
      <4>1. In(s, i)
        <5>1. i \in 1 .. k - 1
          BY <3>2
        <5> HIDE DEF In
        <5> QED
          BY <5>1, <2>6
      <4> QED
        BY <4>1, <2>7
    <3> QED
      BY <3>1, <3>2
  <2>12. Good(st, k)
    <3> HIDE DEF From, In
    <3> QED
      BY <2>10, <2>11
  <2> HIDE DEF Good, N
  <2> QED
    BY <2>1, <2>5, <2>12
<1>6. \A k \in 0 .. N : k \in Q
  <2> HIDE DEF Q, N
  <2> QED
    BY <1>1, <1>4, <1>5, Indices
<1>7. Good(g[N], N) /\ g[N] \in Seq(T)
  <2>1. N \in 0 .. N
    BY <1>1
  <2>2. N \in Q
    <3> HIDE DEF Q, N
    <3> QED
      BY <2>1, <1>6
  <2> HIDE DEF Good
  <2> QED
    BY <2>1, <2>2, <1>3
<1>8. PICK flat : flat = FlattenSeq(seqs) /\ flat \in Seq(T) /\ Good(flat, N)
  <2> HIDE DEF Good, N
  <2> QED
    BY <1>3, <1>7
<1>9. /\ \A m \in 1 .. Len(flat) : From(flat[m], Len(seqs))
      /\ \A i \in 1 .. Len(seqs) : In(flat, i)
  BY <1>8
<1>10. HasElements(flat, seqs)
  BY <1>9 DEF HasElements
<1> QED
  BY <1>8, <1>10

(* A copy or a meta command expects what it refers to.                     *)
LEMMA ResolvedMatch ==
  ASSUME NEW r, r.kind # "dispatch", NEW refs \in Seq(References), r.expected = Resolve(refs)
  PROVE  RefsMatch(r, refs)
<1>1. DOMAIN refs = 1 .. Len(refs)
  OBVIOUS
<1>2. r.expected = {[at |-> refs[j].offset, alloc |-> refs[j].alloc] : j \in 1 .. Len(refs)}
  BY <1>1 DEF Resolve
<1>3. ASSUME NEW j \in 1 .. Len(refs), NEW e, e = [at |-> refs[j].offset, alloc |-> refs[j].alloc]
      PROVE  RefersTo(r, refs[j], e)
  BY <1>3 DEF RefersTo, Field
<1>4. ASSUME NEW j \in 1 .. Len(refs)
      PROVE  \E e \in r.expected : RefersTo(r, refs[j], e)
  BY <1>2, <1>3
<1>5. ASSUME NEW e \in r.expected
      PROVE  \E j \in 1 .. Len(refs) : RefersTo(r, refs[j], e)
  <2>1. PICK j \in 1 .. Len(refs) : e = [at |-> refs[j].offset, alloc |-> refs[j].alloc]
    BY <1>2
  <2> QED
    BY <2>1, <1>3
<1> QED
  BY <1>4, <1>5 DEF RefsMatch

(* What the application means by the argument of one parameter. *)
BoundTo(sig, i, e) ==
  IF sig[i].type = "view"
    THEN e = [class |-> sig[i].class, register |-> sig[i].register, alloc |-> args[i]]
    ELSE \E r \in Ranges(sig[i]) : \E k \in 0 .. r.num - 1 :
           e = [class |-> r.class, register |-> r.base + k,
                alloc |-> m_pDescriptors[args[i] + r.offset + k]]

LEMMA BoundIs ==
  ASSUME NEW sig, NEW e
  PROVE  e \in Bound(sig) <=> \E i \in Parameters(sig) : BoundTo(sig, i, e)
<1>1. e \in Bound(sig) <=> \E i \in Parameters(sig) : e \in ParameterBound(sig, i)
  BY DEF Bound
<1>2. ASSUME NEW i
      PROVE  e \in ParameterBound(sig, i) <=> BoundTo(sig, i, e)
  <2>1. \A r : e \in RangeBound(i, r) <=> \E k \in 0 .. r.num - 1 :
           e = [class |-> r.class, register |-> r.base + k,
                alloc |-> m_pDescriptors[args[i] + r.offset + k]]
    BY DEF RangeBound
  <2>2. CASE sig[i].type = "view"
    BY <2>2 DEF ParameterBound, BoundTo
  <2>3. CASE sig[i].type # "view"
    <3>1. e \in ParameterBound(sig, i) <=> \E r \in Ranges(sig[i]) : e \in RangeBound(i, r)
      BY <2>3 DEF ParameterBound
    <3> QED
      BY <2>1, <2>3, <3>1 DEF BoundTo
  <2> QED
    BY <2>2, <2>3
<1> QED
  BY <1>1, <1>2

Reaches(sig, ref, e) ==
  ref.offset = RegisterOffset(sig, e.class, e.register) /\ ref.alloc = e.alloc

(* WriteHWRootSignature writes, for each parameter, what the application   *)
(* means by its argument.                                                  *)
LEMMA ParameterMatches ==
  ASSUME TypesInv, ArgumentsInv, NEW i \in DOMAIN args,
         NEW sig \in Signatures, sig = m_pRootSignature,
         NEW refs, refs = ParameterReferences(sig, i)
  PROVE  /\ \A j \in 1 .. Len(refs) : \E e : BoundTo(sig, i, e) /\ Reaches(sig, refs[j], e)
         /\ \A e : BoundTo(sig, i, e) => \E j \in 1 .. Len(refs) : Reaches(sig, refs[j], e)
<1>1. PICK p \in RootParameters : p = sig[i]
  BY ArgumentRead
<1>2. CASE p.type = "table"
  <2>1. /\ p.ranges \in Seq(DescriptorRanges) /\ Len(p.ranges) \in Nat
        /\ DOMAIN p.ranges = 1 .. Len(p.ranges)
        /\ Ranges(p) = {p.ranges[j] : j \in 1 .. Len(p.ranges)}
    BY <1>2, ParameterIs
  <2>2. ASSUME NEW r \in Ranges(p)
        PROVE  /\ r.num \in Nat /\ r.base \in Nat /\ r.offset \in Nat
               /\ RangeReferences(sig, i, r) \in Seq(References)
               /\ Len(RangeReferences(sig, i, r)) = r.num
               /\ \A k \in 1 .. r.num :
                    /\ RangeReferences(sig, i, r)[k].offset
                         = RegisterOffset(sig, r.class, r.base + k - 1)
                    /\ RangeReferences(sig, i, r)[k].alloc
                         = m_pDescriptors[args[i] + r.offset + k - 1]
    <3>1. r \in DescriptorRanges
      BY ParameterNumbers
    <3>2. r.base \in Nat /\ r.offset \in Nat
      BY <3>1 DEF DescriptorRanges
    <3>3. sig[i].type = "table" /\ r \in Ranges(sig[i])
      BY <1>1, <1>2
    <3> QED
      BY <3>2, <3>3, RangeFound
  <2>3. args[i] \in Nat
    BY <1>1, <1>2, ArgumentRead, Sizes
  <2>4. PICK seqs : seqs = [j \in DOMAIN p.ranges |-> RangeReferences(sig, i, p.ranges[j])]
    OBVIOUS
  <2>5. /\ seqs \in Seq(Seq(References)) /\ Len(seqs) = Len(p.ranges)
        /\ \A j \in 1 .. Len(p.ranges) : seqs[j] = RangeReferences(sig, i, p.ranges[j])
    <3>1. \A j \in 1 .. Len(p.ranges) : RangeReferences(sig, i, p.ranges[j]) \in Seq(References)
      BY <2>1, <2>2
    <3>2. seqs \in [1 .. Len(p.ranges) -> Seq(References)]
      BY <3>1, <2>1, <2>4
    <3> QED
      BY <3>2, <2>1, <2>4
  <2>6. refs = FlattenSeq(seqs)
    BY <1>1, <1>2, <2>4 DEF ParameterReferences
  <2>7. /\ \A m \in 1 .. Len(refs) : \E j \in 1 .. Len(seqs) : \E a \in 1 .. Len(seqs[j]) :
             refs[m] = seqs[j][a]
        /\ \A j \in 1 .. Len(seqs) : \A a \in 1 .. Len(seqs[j]) :
             \E m \in 1 .. Len(refs) : refs[m] = seqs[j][a]
    <3>1. HasElements(FlattenSeq(seqs), seqs)
      BY <2>5, FlattenElements
    <3>2. HasElements(refs, seqs)
      BY <3>1, <2>6
    <3> QED
      BY <3>2 DEF HasElements
  <2>8. ASSUME NEW m \in 1 .. Len(refs)
        PROVE  \E e : BoundTo(sig, i, e) /\ Reaches(sig, refs[m], e)
    <3>1. PICK j \in 1 .. Len(seqs) : \E a \in 1 .. Len(seqs[j]) : refs[m] = seqs[j][a]
      BY <2>7
    <3>2. PICK r \in Ranges(p) : seqs[j] = RangeReferences(sig, i, r)
      BY <2>1, <2>5
    <3>3. PICK a \in 1 .. r.num : refs[m] = RangeReferences(sig, i, r)[a]
      BY <3>1, <3>2, <2>2
    <3>4. PICK k \in 0 .. r.num - 1 : k = a - 1
      BY <2>2
    <3>5. r.base + a - 1 = r.base + k /\ args[i] + r.offset + a - 1 = args[i] + r.offset + k
      BY <3>4, <2>2, <2>3
    <3>6. refs[m].offset = RegisterOffset(sig, r.class, r.base + k)
          /\ refs[m].alloc = m_pDescriptors[args[i] + r.offset + k]
      BY <3>3, <3>5, <2>2
    <3>7. PICK e : e = [class |-> r.class, register |-> r.base + k,
                        alloc |-> m_pDescriptors[args[i] + r.offset + k]]
      OBVIOUS
    <3>8. BoundTo(sig, i, e)
      BY <3>7, <1>1, <1>2 DEF BoundTo
    <3>9. Reaches(sig, refs[m], e)
      BY <3>6, <3>7 DEF Reaches
    <3> QED
      BY <3>8, <3>9
  <2>9. ASSUME NEW e, BoundTo(sig, i, e)
        PROVE  \E m \in 1 .. Len(refs) : Reaches(sig, refs[m], e)
    <3>1. PICK r \in Ranges(p) : \E k \in 0 .. r.num - 1 :
            e = [class |-> r.class, register |-> r.base + k,
                 alloc |-> m_pDescriptors[args[i] + r.offset + k]]
      BY <2>9, <1>1, <1>2 DEF BoundTo
    <3>2. PICK k \in 0 .. r.num - 1 :
            e = [class |-> r.class, register |-> r.base + k,
                 alloc |-> m_pDescriptors[args[i] + r.offset + k]]
      BY <3>1
    <3>3. PICK a \in 1 .. r.num : a = k + 1
      BY <2>2
    <3>4. r.base + a - 1 = r.base + k /\ args[i] + r.offset + a - 1 = args[i] + r.offset + k
      BY <3>3, <2>2, <2>3
    <3>5. PICK j \in 1 .. Len(seqs) : seqs[j] = RangeReferences(sig, i, r)
      BY <2>1, <2>5
    <3>6. PICK m \in 1 .. Len(refs) : refs[m] = RangeReferences(sig, i, r)[a]
      <4>1. Len(seqs[j]) = r.num
        BY <3>5, <2>2
      <4>2. a \in 1 .. Len(seqs[j]) /\ seqs[j][a] = RangeReferences(sig, i, r)[a]
        BY <4>1, <3>5
      <4> QED
        BY <4>2, <2>7
    <3>7. refs[m].offset = RegisterOffset(sig, r.class, r.base + k)
          /\ refs[m].alloc = m_pDescriptors[args[i] + r.offset + k]
      BY <3>4, <3>6, <2>2
    <3> QED
      BY <3>2, <3>7 DEF Reaches
  <2> QED
    BY <2>8, <2>9
<1>3. CASE p.type = "constants"
  <2>1. refs = << >> /\ Ranges(p) = {}
    BY <1>1, <1>3, ParameterIs DEF ParameterReferences
  <2>2. \A e : ~ BoundTo(sig, i, e)
    BY <2>1, <1>1, <1>3 DEF BoundTo
  <2> QED
    BY <2>1, <2>2
<1>4. CASE p.type = "view"
  <2>1. Ranges(p) = {}
    BY <1>4, ParameterIs
  <2>2. ViewHandle(sig, i) = args[i] /\ args[i] \in Allocations
    BY <1>1, <1>4, ArgumentRead
  <2>3. PICK ref : ref = [offset |-> RegisterOffset(sig, p.class, p.register), alloc |-> args[i]]
    OBVIOUS
  <2>4. refs = <<ref>>
    BY <2>2, <2>3, <1>1, <1>4 DEF ParameterReferences
  <2>5. Len(refs) = 1 /\ refs[1] = ref
    BY <2>4
  <2>6. PICK e : e = [class |-> p.class, register |-> p.register, alloc |-> args[i]]
    OBVIOUS
  <2>7. Reaches(sig, ref, e)
    BY <2>3, <2>6 DEF Reaches
  <2>8. \A f : BoundTo(sig, i, f) <=> f = e
    BY <2>1, <2>6, <1>1, <1>4 DEF BoundTo
  <2>9. \A j \in 1 .. Len(refs) : j = 1
    BY <2>5
  <2> QED
    BY <2>5, <2>7, <2>8, <2>9
<1> QED
  BY <1>2, <1>3, <1>4, ParameterIs

(* A register that exists is in the tables, behind the command, and every  *)
(* register is in a place of its own.  (HwViewTableOffset.)                *)
LEMMA RegistersApart ==
  ASSUME NEW sig \in Signatures,
         NEW c \in Classes, NEW r \in Nat, r < NumRegisters(sig, c),
         NEW d \in Classes, NEW s \in Nat, s < NumRegisters(sig, d)
  PROVE  /\ RegisterOffset(sig, c, r) \in Nat
         /\ RootSignatureSetSize <= RegisterOffset(sig, c, r)
         /\ RegisterOffset(sig, c, r) < HwRootSignatureSize(sig)
         /\ RegisterOffset(sig, c, r) = RegisterOffset(sig, d, s) => c = d /\ r = s
<1>1. PICK n1 \in Nat, n2 \in Nat, n3 \in Nat :
        /\ n1 = NumRegisters(sig, "cbv") /\ n2 = NumRegisters(sig, "srv")
        /\ n3 = NumRegisters(sig, "uav")
  BY RegisterCounts DEF Classes
<1>2. /\ HwViewTableOffset(sig, "cbv") = 5
      /\ HwViewTableOffset(sig, "srv") = 5 + 4 * n1
      /\ HwViewTableOffset(sig, "uav") = 5 + 4 * n1 + 2 * n2
      /\ HwRootSignatureSize(sig) = 5 + 4 * n1 + 2 * n2 + 2 * n3
  BY <1>1 DEF HwViewTableOffset, HwRootSignatureSize, RegisterSize, RootSignatureSetSize
<1>3. ASSUME NEW class \in Classes, NEW register \in Nat, register < NumRegisters(sig, class)
      PROVE  \/ /\ class = "cbv" /\ register < n1
                /\ RegisterOffset(sig, class, register) = 5 + 4 * register
             \/ /\ class = "srv" /\ register < n2
                /\ RegisterOffset(sig, class, register) = 5 + 4 * n1 + 2 * register
             \/ /\ class = "uav" /\ register < n3
                /\ RegisterOffset(sig, class, register) = 5 + 4 * n1 + 2 * n2 + 2 * register
  <2>1. CASE class = "cbv"
    BY <2>1, <1>1, <1>2, <1>3 DEF RegisterOffset, RegisterSize
  <2>2. CASE class = "srv"
    BY <2>2, <1>1, <1>2, <1>3 DEF RegisterOffset, RegisterSize
  <2>3. CASE class = "uav"
    BY <2>3, <1>1, <1>2, <1>3 DEF RegisterOffset, RegisterSize
  <2> QED
    BY <2>1, <2>2, <2>3 DEF Classes
<1>4. PICK x : x = RegisterOffset(sig, c, r)
  OBVIOUS
<1>5. PICK y : y = RegisterOffset(sig, d, s)
  OBVIOUS
<1>6. \/ c = "cbv" /\ r < n1 /\ x = 5 + 4 * r
      \/ c = "srv" /\ r < n2 /\ x = 5 + 4 * n1 + 2 * r
      \/ c = "uav" /\ r < n3 /\ x = 5 + 4 * n1 + 2 * n2 + 2 * r
  BY <1>3, <1>4
<1>7. \/ d = "cbv" /\ s < n1 /\ y = 5 + 4 * s
      \/ d = "srv" /\ s < n2 /\ y = 5 + 4 * n1 + 2 * s
      \/ d = "uav" /\ s < n3 /\ y = 5 + 4 * n1 + 2 * n2 + 2 * s
  BY <1>3, <1>5
<1>8. x \in Nat /\ 5 <= x /\ x < 5 + 4 * n1 + 2 * n2 + 2 * n3
  BY <1>6
<1>9. x = y => c = d /\ r = s
  BY <1>6, <1>7
<1> QED
  BY <1>2, <1>4, <1>5, <1>8, <1>9 DEF RootSignatureSetSize

(* What an argument binds: registers of its parameter, to allocations.     *)
LEMMA BoundRegister ==
  ASSUME TypesInv, ArgumentsInv, NEW i \in DOMAIN args,
         NEW sig \in Signatures, sig = m_pRootSignature, NEW e, BoundTo(sig, i, e)
  PROVE  /\ e \in Registers(sig)
         /\ <<e.class, e.register>> \in RegistersOf(sig[i])
<1>1. PICK p \in RootParameters : p = sig[i] /\ i \in Parameters(sig)
  BY ArgumentRead
<1>2. ASSUME NEW class \in Classes
      PROVE  /\ EndOfRegisters(p, class) \in Nat /\ NumRegisters(sig, class) \in Nat
             /\ EndOfRegisters(p, class) <= NumRegisters(sig, class)
             /\ \A r \in Ranges(p) : r.class = class => r.base + r.num <= EndOfRegisters(p, class)
             /\ p.type = "view" => (p.class = class => p.register + 1 <= EndOfRegisters(p, class))
  BY <1>1, RegistersEnd, RegisterCounts
<1>3. CASE p.type = "view"
  <2>1. p.class \in Classes /\ p.register \in Nat /\ args[i] \in Allocations
    BY <1>1, <1>3, ParameterIs, ArgumentRead
  <2>2. p.register < NumRegisters(sig, p.class)
    BY <2>1, <1>2, <1>3
  <2>3. e = [class |-> p.class, register |-> p.register, alloc |-> args[i]]
    BY <1>1, <1>3 DEF BoundTo
  <2>4. e \in Registers(sig)
    BY <2>1, <2>2, <2>3 DEF Registers
  <2>5. <<e.class, e.register>> = <<p.class, p.register>>
    BY <2>3
  <2>6. <<p.class, p.register>> \in RegistersOf(p)
    BY <1>3 DEF RegistersOf
  <2> QED
    BY <2>4, <2>5, <2>6, <1>1
<1>4. CASE p.type # "view"
  <2>1. PICK r \in Ranges(p) : \E k \in 0 .. r.num - 1 :
          e = [class |-> r.class, register |-> r.base + k,
               alloc |-> m_pDescriptors[args[i] + r.offset + k]]
    BY <1>1, <1>4 DEF BoundTo
  <2>2. PICK k \in 0 .. r.num - 1 :
          e = [class |-> r.class, register |-> r.base + k,
               alloc |-> m_pDescriptors[args[i] + r.offset + k]]
    BY <2>1
  <2>3. p.type = "table"
    BY <1>4, ParameterIs DEF Ranges
  <2>4. r \in DescriptorRanges
    BY ParameterNumbers
  <2>5. r.class \in Classes /\ r.base \in Nat /\ r.num \in Nat /\ r.offset \in Nat
    BY <2>4 DEF DescriptorRanges
  <2>6. m_pDescriptors[args[i] + r.offset + k] \in Allocations
    <3>1. k + 1 \in 1 .. r.num
      BY <2>5
    <3>2. m_pDescriptors[args[i] + r.offset + (k + 1) - 1] \in Allocations
      BY <3>1, <1>1, <2>3, RangeFound
    <3>3. args[i] \in Nat
      BY <1>1, <2>3, ArgumentRead, Sizes
    <3>4. args[i] + r.offset + (k + 1) - 1 = args[i] + r.offset + k
      BY <3>3, <2>5
    <3> QED
      BY <3>2, <3>4
  <2>7. r.base + k \in Nat /\ r.base + k < NumRegisters(sig, r.class)
    <3>1. r.base + r.num <= EndOfRegisters(p, r.class)
          /\ EndOfRegisters(p, r.class) <= NumRegisters(sig, r.class)
          /\ EndOfRegisters(p, r.class) \in Nat /\ NumRegisters(sig, r.class) \in Nat
      BY <2>5, <1>2
    <3> QED
      BY <3>1, <2>5
  <2>8. e \in Registers(sig)
    BY <2>2, <2>5, <2>6, <2>7 DEF Registers
  <2>9. <<e.class, e.register>> \in RangeRegisters(r)
    BY <2>2 DEF RangeRegisters
  <2>10. <<e.class, e.register>> \in RegistersOf(sig[i])
    BY <2>9, <1>1, <1>4 DEF RegistersOf
  <2> QED
    BY <2>8, <2>10
<1> QED
  BY <1>3, <1>4

(* An argument binds each register to one allocation. *)
LEMMA BoundOnce ==
  ASSUME TypesInv, ArgumentsInv, NEW i \in DOMAIN args, NEW j \in DOMAIN args,
         NEW sig \in Signatures, sig = m_pRootSignature,
         NEW e, BoundTo(sig, i, e), NEW f, BoundTo(sig, j, f),
         e.class = f.class, e.register = f.register
  PROVE  e = f
<1>1. i \in Parameters(sig) /\ j \in Parameters(sig) /\ sig[i] \in RootParameters
  BY ArgumentRead
<1>2. i = j
  <2>1. PICK x : x = <<e.class, e.register>>
    OBVIOUS
  <2>2. x \in RegistersOf(sig[i])
    BY <2>1, BoundRegister
  <2>3. x = <<f.class, f.register>>
    BY <2>1
  <2>4. x \in RegistersOf(sig[j])
    BY <2>3, BoundRegister
  <2>5. i # j => RegistersOf(sig[i]) \cap RegistersOf(sig[j]) = {}
    BY <1>1, RegistersAssumption
  <2> QED
    BY <2>2, <2>4, <2>5
<1>3. CASE sig[i].type = "view"
  BY <1>2, <1>3 DEF BoundTo
<1>4. CASE sig[i].type # "view"
  <2>1. PICK r \in Ranges(sig[i]) : \E k \in 0 .. r.num - 1 :
          e = [class |-> r.class, register |-> r.base + k,
               alloc |-> m_pDescriptors[args[i] + r.offset + k]]
    BY <1>4 DEF BoundTo
  <2>2. PICK k \in 0 .. r.num - 1 :
          e = [class |-> r.class, register |-> r.base + k,
               alloc |-> m_pDescriptors[args[i] + r.offset + k]]
    BY <2>1
  <2>3. PICK s \in Ranges(sig[i]) : \E l \in 0 .. s.num - 1 :
          f = [class |-> s.class, register |-> s.base + l,
               alloc |-> m_pDescriptors[args[i] + s.offset + l]]
    BY <1>2, <1>4 DEF BoundTo
  <2>4. PICK l \in 0 .. s.num - 1 :
          f = [class |-> s.class, register |-> s.base + l,
               alloc |-> m_pDescriptors[args[i] + s.offset + l]]
    BY <2>3
  <2>5. /\ <<e.class, e.register>> \in RangeRegisters(r)
        /\ <<f.class, f.register>> \in RangeRegisters(s)
    BY <2>2, <2>4 DEF RangeRegisters
  <2>6. r = s
    BY <2>5, <1>1, RegistersAssumption
  <2>7. r.base \in Nat /\ r.num \in Nat
    <3>1. r \in DescriptorRanges
      BY <1>1, ParameterNumbers
    <3> QED
      BY <3>1 DEF DescriptorRanges
  <2>8. r.base + k = r.base + l
    BY <2>2, <2>4, <2>6
  <2>9. k = l
    BY <2>6, <2>7, <2>8
  <2> QED
    BY <2>2, <2>4, <2>6, <2>9
<1> QED
  BY <1>3, <1>4

(* A dispatch refers to what its arguments bind. *)
LEMMA DispatchMatches ==
  ASSUME TypesInv, ArgumentsInv, DOMAIN args = Parameters(m_pRootSignature),
         NEW r, r.kind = "dispatch", r.sig = m_pRootSignature,
         r.expected = Bound(m_pRootSignature)
  PROVE  RefsMatch(r, HwReferences(m_pRootSignature))
<1>1. PICK sig \in Signatures : sig = m_pRootSignature
  BY DEF TypesInv
<1>2. Parameters(sig) = 1 .. Len(sig) /\ Len(sig) \in Nat /\ DOMAIN args = Parameters(sig)
  BY <1>1, CurrentSignature
<1>3. PICK seqs : seqs = [i \in Parameters(sig) |-> ParameterReferences(sig, i)]
  OBVIOUS
<1>4. /\ seqs \in Seq(Seq(References)) /\ Len(seqs) = Len(sig)
      /\ \A i \in Parameters(sig) : seqs[i] = ParameterReferences(sig, i)
  <2>1. \A i \in Parameters(sig) : ParameterReferences(sig, i) \in Seq(References)
    BY <1>1, <1>2, ParameterFound
  <2>2. seqs \in [1 .. Len(sig) -> Seq(References)]
    BY <2>1, <1>2, <1>3
  <2> QED
    BY <2>2, <1>2, <1>3
<1>5. PICK refs : refs = HwReferences(sig)
  OBVIOUS
<1>6. HasElements(refs, seqs)
  <2>1. HasElements(FlattenSeq(seqs), seqs)
    BY <1>4, FlattenElements
  <2>2. refs = FlattenSeq(seqs)
    BY <1>3, <1>5 DEF HwReferences
  <2> QED
    BY <2>1, <2>2
<1>7. \A ref, e : Reaches(sig, ref, e) <=> RefersTo(r, ref, e)
  BY <1>1 DEF Reaches, RefersTo, Field
<1>8. \A e : e \in r.expected <=> \E i \in Parameters(sig) : BoundTo(sig, i, e)
  BY <1>1, BoundIs
<1>9. ASSUME NEW m \in 1 .. Len(refs)
      PROVE  \E e \in r.expected : RefersTo(r, refs[m], e)
  <2>1. PICK i \in 1 .. Len(seqs) : \E a \in 1 .. Len(seqs[i]) : refs[m] = seqs[i][a]
    BY <1>6 DEF HasElements
  <2>2. PICK a \in 1 .. Len(seqs[i]) : refs[m] = seqs[i][a]
    BY <2>1
  <2>3. i \in Parameters(sig) /\ i \in DOMAIN args /\ seqs[i] = ParameterReferences(sig, i)
    BY <1>2, <1>4
  <2>4. PICK e : BoundTo(sig, i, e) /\ Reaches(sig, refs[m], e)
    <3>1. \A j \in 1 .. Len(seqs[i]) : \E e : BoundTo(sig, i, e) /\ Reaches(sig, seqs[i][j], e)
      BY <2>3, <1>1, ParameterMatches
    <3> QED
      BY <3>1, <2>2
  <2> QED
    BY <2>3, <2>4, <1>7, <1>8
<1>10. ASSUME NEW e \in r.expected
       PROVE  \E m \in 1 .. Len(refs) : RefersTo(r, refs[m], e)
  <2>1. PICK i \in Parameters(sig) : BoundTo(sig, i, e)
    BY <1>8
  <2>2. i \in 1 .. Len(seqs) /\ i \in DOMAIN args /\ seqs[i] = ParameterReferences(sig, i)
    BY <1>2, <1>4
  <2>3. PICK a \in 1 .. Len(seqs[i]) : Reaches(sig, seqs[i][a], e)
    BY <2>1, <2>2, <1>1, ParameterMatches
  <2>4. PICK m \in 1 .. Len(refs) : refs[m] = seqs[i][a]
    BY <2>2, <1>6 DEF HasElements
  <2> QED
    BY <2>3, <2>4, <1>7
<1>11. RefsMatch(r, refs)
  BY <1>9, <1>10 DEF RefsMatch
<1> QED
  BY <1>1, <1>5, <1>11

(* ... each in a place of its own. *)
LEMMA DispatchDescribed ==
  ASSUME TypesInv, ArgumentsInv, DOMAIN args = Parameters(m_pRootSignature),
         NEW shader \in Nat,
         NEW r, r.kind = "dispatch", r.sig = m_pRootSignature,
         r.expected = Bound(m_pRootSignature),
         r.size = HwRootSignatureSize(m_pRootSignature) + DispatchSize + shader
  PROVE  Described(r)
<1>1. PICK sig \in Signatures : sig = m_pRootSignature /\ sig = r.sig
  BY DEF TypesInv
<1>2. ASSUME NEW e \in r.expected
      PROVE  \E i \in DOMAIN args : BoundTo(sig, i, e)
  BY <1>1, BoundIs
<1>3. ASSUME NEW e \in r.expected
      PROVE  /\ e \in Registers(sig) /\ e.class \in Classes /\ e.register \in Nat
             /\ e.register < NumRegisters(sig, e.class)
             /\ Field(r, e) = RegisterOffset(sig, e.class, e.register)
  <2>1. e \in Registers(sig)
    BY <1>1, <1>2, BoundRegister
  <2>2. e \in [class : Classes, register : Nat, alloc : Allocations]
        /\ e.register < NumRegisters(sig, e.class)
    BY <2>1 DEF Registers
  <2>3. Field(r, e) = RegisterOffset(sig, e.class, e.register)
    BY <1>1 DEF Field
  <2> QED
    BY <2>1, <2>2, <2>3
<1>4. HwRootSignatureSize(sig) \in Nat /\ r.size \in Nat /\ HwRootSignatureSize(sig) < r.size
  <2>1. HwRootSignatureSize(sig) \in Nat
    BY RegisterPlaces
  <2> QED
    BY <2>1, <1>1 DEF DispatchSize
<1>5. ASSUME NEW e \in r.expected
      PROVE  Field(r, e) \in Nat /\ Field(r, e) < r.size
  <2>1. Field(r, e) \in Nat /\ Field(r, e) < HwRootSignatureSize(sig)
    BY <1>3, RegistersApart
  <2> QED
    BY <2>1, <1>4
<1>6. ASSUME NEW e \in r.expected, NEW f \in r.expected, Field(r, e) = Field(r, f)
      PROVE  e = f
  <2>1. e.class = f.class /\ e.register = f.register
    BY <1>3, <1>6, RegistersApart
  <2> QED
    BY <2>1, <1>1, <1>2, BoundOnce
<1>7. r.expected \subseteq Registers(r.sig) /\ r.sig \in Signatures
  BY <1>1, <1>3
<1> QED
  BY <1>5, <1>6, <1>7 DEF Described

-----------------------------------------------------------------------------
(* The invariant of the patch locations. *)

(* A buffer without commands, of either kind. *)
LEMMA BlankAddressed ==
  ASSUME NEW rec, NEW sw \in BOOLEAN
  PROVE  /\ Addressed(NewCommandBuffer, rec) /\ Addressed(Null, rec)
         /\ Addressed(Retyped(NewCommandBuffer, sw), rec)
<1>1. ASSUME NEW b, b.cmds = << >>, b.patches = << >>, b.pos <= GpuCommandSize
      PROVE  Addressed(b, rec)
  <2>1. Len(b.cmds) = 0 /\ Len(b.patches) = 0
    BY <1>1
  <2>2. Packed(b, rec)
    BY <1>1, <2>1 DEF Packed
  <2>3. Patched(b, rec)
    BY <2>1 DEF Patched
  <2> QED
    BY <2>2, <2>3 DEF Addressed
<1>2. PICK n : n = NewCommandBuffer
  OBVIOUS
<1>3. n.cmds = << >> /\ n.patches = << >> /\ n.pos = GpuCommandSize /\ n.pos <= GpuCommandSize
  BY <1>2 DEF NewCommandBuffer, GpuCommandSize
<1>4. PICK r : r = Retyped(n, sw)
  OBVIOUS
<1>5. r.cmds = n.cmds /\ r.patches = n.patches /\ r.pos = n.pos
  BY <1>2, <1>4, NewFits, RetypedFits
<1>6. PICK z : z = Null
  OBVIOUS
<1>7. z.cmds = << >> /\ z.patches = << >> /\ z.pos <= GpuCommandSize
  BY <1>6 DEF Null, GpuCommandSize
<1>8. Addressed(n, rec)
  BY <1>1, <1>3
<1>9. Addressed(r, rec)
  BY <1>1, <1>3, <1>5
<1>10. Addressed(z, rec)
  BY <1>1, <1>7
<1> QED
  BY <1>2, <1>4, <1>6, <1>8, <1>9, <1>10

(* The kind of a buffer says nothing about its addresses. *)
LEMMA RetypedAddressed ==
  ASSUME NEW b, BufferFits(b), NEW sw \in BOOLEAN, NEW rec, Addressed(b, rec)
  PROVE  Addressed(Retyped(b, sw), rec)
<1>1. PICK r : r = Retyped(b, sw)
  OBVIOUS
<1>2. r.pos = b.pos /\ r.allocs = b.allocs /\ r.patches = b.patches /\ r.cmds = b.cmds
  BY <1>1, RetypedFits
<1>3. Packed(r, rec)
  BY <1>2 DEF Addressed, Packed, Behind
<1>4. Patched(r, rec)
  BY <1>2 DEF Addressed, Patched, Names
<1> QED
  BY <1>1, <1>3, <1>4 DEF Addressed

(* A buffer put aside behind others. *)
LEMMA PutAsideAddressed ==
  ASSUME NEW s \in Seq(Buffers), NEW b \in Buffers, NEW n, NEW rec,
         AddressesHeld(s, b, rec), Addressed(n, rec)
  PROVE  AddressesHeld(Append(s, b), n, rec)
<1>1. PICK t : t = Append(s, b)
  OBVIOUS
<1>2. \A i \in 1 .. Len(t) : (i \in 1 .. Len(s) /\ t[i] = s[i]) \/ t[i] = b
  BY <1>1
<1>3. \A i \in 1 .. Len(t) : Addressed(t[i], rec)
  BY <1>2 DEF AddressesHeld
<1> QED
  BY <1>1, <1>3 DEF AddressesHeld

(* A command written behind those of b, the last buffer. *)
LEMMA WrittenIsAddressed ==
  ASSUME NEW S, NEW rec \in Seq(S), NEW s \in Seq(Buffers), NEW b, BufferFits(b),
         b.pos >= GpuCommandSize, Holds(s, b, rec), AddressesHeld(s, b, rec),
         NEW command, Described(command), NEW sw \in BOOLEAN, NEW num \in Nat,
         NEW size \in Nat, size = command.size, NEW refs \in Seq(References), Len(refs) <= num,
         RefsMatch(command, refs), Fits(b, sw, size, num),
         NEW id \in Nat, id = Len(rec) + 1
  PROVE  AddressesHeld(s, Written(b, sw, size, refs, id), Append(rec, command))
<1>1. PICK w : w = Written(b, sw, size, refs, id)
  OBVIOUS
<1>2. PICK more : more = Append(rec, command)
  OBVIOUS
<1>3. /\ BufferFits(Written(b, sw, size, refs, id))
      /\ Written(b, sw, size, refs, id).pos = b.pos + size
      /\ Written(b, sw, size, refs, id).cmds = Append(b.cmds, [id |-> id, at |-> b.pos])
  BY WrittenFits, SMTT(30)
<1>4. Referring(b, Written(b, sw, size, refs, id), refs, Len(refs))
  BY WrittenNames
<1>5. /\ w \in Buffers /\ b \in Buffers /\ w.pos = b.pos + command.size
      /\ w.cmds = Append(b.cmds, [id |-> Len(rec) + 1, at |-> b.pos])
      /\ Referring(b, w, refs, Len(refs))
  BY <1>1, <1>3, <1>4 DEF BufferFits
<1>6. /\ LaidOut(b, rec) /\ \A i \in 1 .. Len(s) : LaidOut(s[i], rec)
      /\ Addressed(b, rec) /\ \A i \in 1 .. Len(s) : Addressed(s[i], rec)
      /\ \A n \in 1 .. Len(rec) : Described(rec[n])
  BY DEF Holds, AddressesHeld
<1>7. Addressed(w, more)
  BY <1>2, <1>5, <1>6, WrittenAddressed
<1>8. ASSUME NEW i \in 1 .. Len(s)
      PROVE  Addressed(s[i], more)
  <2>1. PICK x \in Buffers : x = s[i] /\ LaidOut(x, rec) /\ Addressed(x, rec)
    BY <1>6
  <2>2. Addressed(x, more)
    BY <2>1, <1>2, AddressedFurther
  <2> QED
    BY <2>1, <2>2
<1>9. \A n \in 1 .. Len(more) : Described(more[n])
  <2>1. /\ Len(rec) \in Nat /\ Len(more) = Len(rec) + 1 /\ more[Len(rec) + 1] = command
        /\ \A n \in 1 .. Len(rec) : more[n] = rec[n]
    BY <1>2, OneMoreRecorded
  <2>2. \A n \in 1 .. Len(more) : n \in 1 .. Len(rec) \/ n = Len(rec) + 1
    BY <2>1
  <2> QED
    BY <2>1, <2>2, <1>6
<1> QED
  BY <1>1, <1>2, <1>7, <1>8, <1>9 DEF AddressesHeld

(* However recording a command ends, every buffer of the list names what   *)
(* its commands expect.  (CosUmd12CommandList::ReserveCommandBufferSpace.) *)
LEMMA RecordAddresses ==
  ASSUME ListInv, OrderInv, AddressInv, Recording,
         NEW command, NEW sw \in BOOLEAN, NEW size \in Nat, NEW num \in Nat,
         NEW refs \in Seq(References), Len(refs) <= num, command.size = size,
         Described(command), RefsMatch(command, refs),
         Record(command, sw, size, num, refs)
  PROVE  AddressInv'
<1>1. TypesInv /\ BuffersInv /\ RecordingInv
  BY DEF ListInv
<1>2. PICK b : b = m_pCurCommandBuffer
  OBVIOUS
<1>3. PICK s \in Seq(Buffers) : s = m_filledCommandBuffers
  BY <1>1 DEF BuffersInv
<1>4. PICK S : recorded \in Seq(S)
  BY <1>1 DEF TypesInv
<1>5. PICK rec \in Seq(S) : rec = recorded
  BY <1>4
<1>6. PICK id \in Nat : id = Len(rec) + 1
  <2>1. Len(rec) + 1 \in Nat
    OBVIOUS
  <2> QED
    BY <2>1
<1>7. /\ BufferFits(b) /\ b.pos >= GpuCommandSize /\ b \in Buffers
      /\ \A i \in 1 .. Len(s) : BufferFits(s[i])
  BY <1>1, <1>2, <1>3 DEF Recording, BuffersInv, RecordingInv, BufferFits
<1>8. Holds(s, b, rec) /\ AddressesHeld(s, b, rec)
  BY <1>2, <1>3, <1>5 DEF OrderInv, AddressInv
<1>9. PICK r \in Buffers : r = Retyped(b, sw) /\ r.cmds = b.cmds /\ r.pos = b.pos
  BY <1>7, RetypedFits
<1>10. PICK t \in Seq(Buffers) : t = Append(s, r)
  <2>1. Append(s, r) \in Seq(Buffers)
    OBVIOUS
  <2> QED
    BY <2>1
<1>11. AddressesHeld(s, r, rec)
  <2>1. Addressed(r, rec)
    BY <1>7, <1>8, <1>9, RetypedAddressed DEF AddressesHeld
  <2> QED
    BY <2>1, <1>8 DEF AddressesHeld
<1>12. ASSUME NEW n, Addressed(n, rec)
       PROVE  AddressesHeld(t, n, rec)
  BY <1>10, <1>11, <1>12, PutAsideAddressed
<1>13. r.sw = b.sw \/ b.cmds = << >>
  <2>1. CASE IsCommandBufferEmpty(b)
    <3>1. LaidOut(b, rec) /\ \A n \in 1 .. Len(rec) : CommandFits(rec[n])
      BY <1>8 DEF Holds
    <3>2. b.pos <= GpuCommandSize
      BY <2>1 DEF IsCommandBufferEmpty
    <3> QED
      BY <3>1, <3>2, <1>7, EmptyHasNone
  <2>2. CASE ~IsCommandBufferEmpty(b)
    BY <2>2, <1>9 DEF Retyped
  <2> QED
    BY <2>1, <2>2
<1>15. CASE /\ Fits(b, sw, size, num)
            /\ m_pCurCommandBuffer' = Written(b, sw, size, refs, id)
            /\ m_filledCommandBuffers' = s
            /\ recorded' = Append(rec, command)
  <2>1. AddressesHeld(s, Written(b, sw, size, refs, id), Append(rec, command))
    BY <1>6, <1>7, <1>8, <1>15, WrittenIsAddressed
  <2>2. PICK w, more : w = Written(b, sw, size, refs, id) /\ more = Append(rec, command)
    OBVIOUS
  <2>3. AddressesHeld(s, w, more) /\ m_pCurCommandBuffer' = w /\ recorded' = more
    BY <2>1, <2>2, <1>15
  <2> QED
    BY <2>3, <1>15 DEF AddressInv
<1>16. CASE m_pCurCommandBuffer' = b /\ m_filledCommandBuffers' = s /\ recorded' = rec
  BY <1>8, <1>16 DEF AddressInv
<1>17. CASE /\ m_filledCommandBuffers' = t
            /\ FitsEmpty(sw, size, num)
            /\ m_pCurCommandBuffer' = Written(NewCommandBuffer, sw, size, refs, id)
            /\ recorded' = Append(rec, command)
  <2>1. PICK n : n = NewCommandBuffer
    OBVIOUS
  <2>2. /\ BufferFits(n) /\ n.pos = GpuCommandSize /\ n.pos >= GpuCommandSize /\ n.cmds = << >>
        /\ n \in Buffers /\ Fits(n, sw, size, num) /\ Addressed(n, rec)
    <3>1. BufferFits(n) /\ n.pos = GpuCommandSize /\ n.cmds = << >> /\ Addressed(n, rec)
      BY <2>1, NewFits, BlankAddressed
    <3>2. n.pos >= GpuCommandSize /\ n \in Buffers
      BY <3>1 DEF GpuCommandSize, BufferFits
    <3>3. Fits(n, sw, size, num)
      BY <2>1, <1>17 DEF FitsEmpty
    <3> QED
      BY <3>1, <3>2, <3>3
  <2>3. Holds(t, n, rec)
    <3>1. Holds(Append(s, r), n, rec)
      BY <2>2, <1>7, <1>8, <1>9, <1>13, PutAsideHolds
    <3> QED
      BY <3>1, <1>10
  <2>4. AddressesHeld(t, n, rec)
    BY <2>2, <1>12
  <2>5. AddressesHeld(t, Written(n, sw, size, refs, id), Append(rec, command))
    BY <2>2, <2>3, <2>4, <1>6, WrittenIsAddressed
  <2>6. PICK w, more : w = Written(n, sw, size, refs, id) /\ more = Append(rec, command)
    OBVIOUS
  <2>7. AddressesHeld(t, w, more) /\ m_pCurCommandBuffer' = w /\ recorded' = more
    BY <2>1, <2>5, <2>6, <1>17
  <2> QED
    BY <2>7, <1>17 DEF AddressInv
<1>18. CASE /\ m_filledCommandBuffers' = t /\ recorded' = rec
            /\ m_pCurCommandBuffer' = Retyped(NewCommandBuffer, sw) \/ m_pCurCommandBuffer' = Null
  <2>1. PICK n : n = m_pCurCommandBuffer'
    OBVIOUS
  <2>2. Addressed(n, rec)
    BY <2>1, <1>18, BlankAddressed
  <2>3. AddressesHeld(t, n, rec)
    BY <2>2, <1>12
  <2> QED
    BY <2>1, <2>3, <1>18 DEF AddressInv
<1> QED
  <2>1. \/ /\ Fits(b, sw, size, num)
           /\ m_pCurCommandBuffer' = Written(b, sw, size, refs, id)
           /\ m_filledCommandBuffers' = s
           /\ recorded' = Append(rec, command)
        \/ m_pCurCommandBuffer' = b /\ m_filledCommandBuffers' = s /\ recorded' = rec
        \/ /\ m_filledCommandBuffers' = t
           /\ FitsEmpty(sw, size, num)
           /\ m_pCurCommandBuffer' = Written(NewCommandBuffer, sw, size, refs, id)
           /\ recorded' = Append(rec, command)
        \/ /\ m_filledCommandBuffers' = t /\ recorded' = rec
           /\ m_pCurCommandBuffer' = Retyped(NewCommandBuffer, sw) \/ m_pCurCommandBuffer' = Null
    BY <1>2, <1>3, <1>5, <1>6, <1>9, <1>10 DEF Record
  <2> QED
    BY <2>1, <1>15, <1>16, <1>17, <1>18

(* A copy expects two addresses.  (ResourceCopy.)                          *)
LEMMA CopyAddresses ==
  ASSUME ListInv, OrderInv, AddressInv, NEW dst \in Allocations, NEW src \in Allocations,
         ResourceCopy(dst, src)
  PROVE  AddressInv'
<1>1. PICK one, two : one = [offset |-> 2, alloc |-> dst] /\ two = [offset |-> 4, alloc |-> src]
  OBVIOUS
<1>2. one \in References /\ two \in References /\ one.offset = 2 /\ two.offset = 4
      /\ one.alloc = dst /\ two.alloc = src
  BY <1>1 DEF References
<1>3. PICK refs \in Seq(References) : refs = <<one, two>>
  <2>1. <<one, two>> \in Seq(References)
    BY <1>2
  <2> QED
    BY <2>1
<1>4. Len(refs) = 2 /\ refs[1] = one /\ refs[2] = two /\ DOMAIN refs = {1, 2}
  BY <1>3
<1>5. PICK e, f : e = [at |-> 2, alloc |-> dst] /\ f = [at |-> 4, alloc |-> src]
  OBVIOUS
<1>6. Resolve(refs) = {e, f}
  <2>1. \A x : x \in Resolve(refs) <=>
          \E i \in DOMAIN refs : x = [at |-> refs[i].offset, alloc |-> refs[i].alloc]
    BY DEF Resolve
  <2> QED
    BY <2>1, <1>2, <1>4, <1>5
<1>7. PICK command : command =
        [kind |-> "copy", sw |-> TRUE, size |-> GpuCommandSize, expected |-> Resolve(refs)]
  OBVIOUS
<1>8. command.kind = "copy" /\ command.size = 8 /\ command.expected = Resolve(refs)
  BY <1>7 DEF GpuCommandSize
<1>9. Described(command)
  <2>1. e.at = 2 /\ f.at = 4 /\ e \in Addresses({2, 4}) /\ f \in Addresses({2, 4})
    BY <1>5 DEF Addresses
  <2>2. \A x \in command.expected : Field(command, x) = x.at /\ (x = e \/ x = f)
    BY <1>6, <1>8 DEF Field
  <2>3. command.expected \subseteq Addresses({2, 4})
    BY <2>1, <1>6, <1>8
  <2>4. \A x \in command.expected : Field(command, x) \in Nat /\ Field(command, x) < command.size
    BY <2>1, <2>2, <1>8
  <2>5. \A x, y \in command.expected : Field(command, x) = Field(command, y) => x = y
    BY <2>1, <2>2
  <2> QED
    BY <2>3, <2>4, <2>5, <1>8 DEF Described, GpuCommandSize
<1>10. RefsMatch(command, refs)
  BY <1>8, ResolvedMatch
<1>11. Recording /\ Record(command, TRUE, GpuCommandSize, 2, refs)
  BY <1>1, <1>3, <1>7 DEF ResourceCopy
<1>12. GpuCommandSize \in Nat /\ 2 \in Nat /\ TRUE \in BOOLEAN /\ Len(refs) <= 2
  BY <1>4 DEF GpuCommandSize
<1>13. command.size = GpuCommandSize
  BY <1>7
<1> QED
  BY <1>9, <1>10, <1>11, <1>12, <1>13, RecordAddresses

(* A dispatch expects what its arguments bind.  (Dispatch.)                *)
LEMMA DispatchAddresses ==
  ASSUME ListInv, OrderInv, AddressInv, NEW shader \in ShaderSizes, Dispatch(shader)
  PROVE  AddressInv'
<1>1. TypesInv /\ ArgumentsInv /\ m_pRootSignature \in Signatures
      /\ DOMAIN args = Parameters(m_pRootSignature)
  BY DEF ListInv, TypesInv, Dispatch
<1>2. PICK refs \in Seq(References) : refs = HwReferences(m_pRootSignature)
  BY <1>1, DispatchFound
<1>3. PICK sig \in Signatures : sig = m_pRootSignature
  BY <1>1
<1>4. Len(refs) = NumRegistersToPatch(sig)
  BY <1>1, <1>2, <1>3, DispatchFound
<1>5. PICK num \in Nat : num = NumRegistersToPatch(sig) /\ Len(refs) <= num
  BY <1>4
<1>6. shader \in Nat /\ HwRootSignatureSize(sig) \in Nat
  BY SizesAssumption, RegisterPlaces
<1>7. PICK size \in Nat : size = HwRootSignatureSize(sig) + DispatchSize + shader
  <2>1. HwRootSignatureSize(sig) + DispatchSize + shader \in Nat
    BY <1>6 DEF DispatchSize
  <2> QED
    BY <2>1
<1>8. PICK command : command =
        [kind |-> "dispatch", sw |-> FALSE, size |-> size, sig |-> sig, expected |-> Bound(sig)]
  OBVIOUS
<1>9. /\ command.kind = "dispatch" /\ command.sig = sig /\ command.expected = Bound(sig)
      /\ command.size = size
  BY <1>8
<1>10. Recording /\ Record(command, FALSE, size, num, refs)
  BY <1>2, <1>3, <1>5, <1>7, <1>8 DEF Dispatch
<1>11. Described(command)
  BY <1>1, <1>3, <1>6, <1>7, <1>9, DispatchDescribed
<1>12. RefsMatch(command, refs)
  BY <1>1, <1>2, <1>3, <1>9, DispatchMatches
<1>13. FALSE \in BOOLEAN
  OBVIOUS
<1> QED
  BY <1>5, <1>9, <1>10, <1>11, <1>12, <1>13, RecordAddresses

(* A meta command expects an address for each tensor that it has.          *)
(* (ExecuteMlMetaCommand.)                                                 *)
LEMMA MetaCommandAddresses ==
  ASSUME ListInv, OrderInv, AddressInv, NEW descriptors \in TensorBindings,
         ExecuteMlMetaCommand(descriptors)
  PROVE  AddressInv'
<1> DEFINE Tensor(t) == IF descriptors[t] = -1 THEN << >>
                        ELSE <<[offset |-> MetaCommandSize + 2 * (t - 1),
                                alloc |-> m_pDescriptors[descriptors[t]]]>>
           Refers(refs, t) ==
             /\ Len(refs) <= 1
             /\ \A j \in 1 .. Len(refs) :
                  /\ refs[j].offset = MetaCommandSize + 2 * (t - 1)
                  /\ refs[j].alloc = m_pDescriptors[descriptors[t]]
                  /\ refs[j].alloc \in Allocations
<1>1. Cardinality(Tensors) = 2
  <2>1. Cardinality({1}) = 1 /\ IsFiniteSet({1})
    BY FS_Singleton
  <2>2. 2 \notin {1}
    OBVIOUS
  <2>3. Cardinality({1} \cup {2}) = Cardinality({1}) + 1
    BY <2>1, <2>2, FS_AddElement
  <2>4. Tensors = {1} \cup {2}
    BY DEF Tensors
  <2> QED
    BY <2>1, <2>3, <2>4
<1>2. ASSUME NEW t \in 1 .. 2
      PROVE  \E refs \in Seq(References) : refs = Tensor(t) /\ Refers(refs, t)
  <2>1. descriptors[t] \in -1 .. HeapSize - 1
    BY SizesAssumption DEF Tensors
  <2>2. CASE descriptors[t] = -1
    <3>1. Tensor(t) = << >>
      BY <2>2
    <3>2. PICK refs \in Seq(References) : refs = << >>
      <4>1. << >> \in Seq(References)
        OBVIOUS
      <4> QED
        BY <4>1
    <3>3. Refers(refs, t)
      <4>1. Len(refs) = 0
        BY <3>2
      <4> QED
        BY <4>1
    <3> HIDE DEF Tensor, Refers
    <3> QED
      BY <3>1, <3>2, <3>3
  <2>3. CASE descriptors[t] # -1
    <3>1. m_pDescriptors \in [0 .. HeapSize - 1 -> Allocations]
      BY DEF ListInv, TypesInv
    <3>2. descriptors[t] \in 0 .. HeapSize - 1
      BY <2>1, <2>3, Sizes
    <3>3. MetaCommandSize + 2 * (t - 1) \in Nat
      BY DEF MetaCommandSize
    <3>4. PICK ref : ref = [offset |-> MetaCommandSize + 2 * (t - 1),
                            alloc |-> m_pDescriptors[descriptors[t]]]
      OBVIOUS
    <3>5. /\ ref \in References /\ ref.offset = MetaCommandSize + 2 * (t - 1)
          /\ ref.alloc = m_pDescriptors[descriptors[t]] /\ ref.alloc \in Allocations
      BY <3>1, <3>2, <3>3, <3>4 DEF References
    <3>6. PICK refs \in Seq(References) : refs = <<ref>>
      <4>1. <<ref>> \in Seq(References)
        BY <3>5
      <4> QED
        BY <4>1
    <3>7. Len(refs) = 1 /\ refs[1] = ref
      BY <3>6
    <3>8. refs = Tensor(t)
      BY <2>3, <3>4, <3>6
    <3>9. \A j \in 1 .. Len(refs) : refs[j] = ref
      BY <3>7
    <3>10. Refers(refs, t)
      BY <3>5, <3>7, <3>9
    <3> HIDE DEF Tensor, Refers
    <3> QED
      BY <3>8, <3>10
  <2> QED
    BY <2>2, <2>3
<1>3. PICK first \in Seq(References) :
        first = Tensor(1) /\ Refers(first, 1)
  <2>1. 1 \in 1 .. 2
    OBVIOUS
  <2> HIDE DEF Tensor, Refers
  <2> QED
    BY <2>1, <1>2
<1>4. PICK second \in Seq(References) :
        second = Tensor(2) /\ Refers(second, 2)
  <2>1. 2 \in 1 .. 2
    OBVIOUS
  <2> HIDE DEF Tensor, Refers
  <2> QED
    BY <2>1, <1>2
<1> HIDE DEF Tensor
<1>5. PICK refs \in Seq(References) : refs = first \o second
  <2>1. first \o second \in Seq(References)
    OBVIOUS
  <2> QED
    BY <2>1
<1>6. Len(refs) <= 2 /\ DOMAIN refs = 1 .. Len(refs)
  BY <1>3, <1>4, <1>5
<1>7. \A j \in 1 .. Len(refs) :
        \/ j \in 1 .. Len(first) /\ refs[j] = first[j]
        \/ j - Len(first) \in 1 .. Len(second) /\ refs[j] = second[j - Len(first)]
  BY <1>5
<1>8. PICK command : command =
        [kind |-> "meta", sw |-> FALSE, size |-> MetaCommandSize + 2 * Cardinality(Tensors),
         expected |-> Resolve(refs)]
  OBVIOUS
<1>9. command.kind = "meta" /\ command.size = 10 /\ command.expected = Resolve(refs)
  BY <1>1, <1>8 DEF MetaCommandSize
<1>10. PICK a1, a2 : a1 = m_pDescriptors[descriptors[1]] /\ a2 = m_pDescriptors[descriptors[2]]
  OBVIOUS
<1>11. ASSUME NEW e \in command.expected
       PROVE  /\ \/ e.at = 6 /\ e = [at |-> 6, alloc |-> a1]
                 \/ e.at = 8 /\ e = [at |-> 8, alloc |-> a2]
              /\ e \in Addresses(6 .. 9)
  <2>1. PICK j \in 1 .. Len(refs) : e = [at |-> refs[j].offset, alloc |-> refs[j].alloc]
    BY <1>6, <1>9 DEF Resolve
  <2>2. CASE j \in 1 .. Len(first) /\ refs[j] = first[j]
    <3>1. refs[j].offset = 6 /\ refs[j].alloc = a1 /\ a1 \in Allocations
      BY <2>2, <1>3, <1>10 DEF MetaCommandSize
    <3>2. e = [at |-> 6, alloc |-> a1] /\ 6 \in 6 .. 9
      BY <2>1, <3>1
    <3>3. e \in Addresses(6 .. 9)
      BY <3>1, <3>2 DEF Addresses
    <3>4. e.at = 6
      BY <3>2
    <3> QED
      BY <3>2, <3>3, <3>4
  <2>3. CASE j - Len(first) \in 1 .. Len(second) /\ refs[j] = second[j - Len(first)]
    <3>1. refs[j].offset = 8 /\ refs[j].alloc = a2 /\ a2 \in Allocations
      BY <2>3, <1>4, <1>10 DEF MetaCommandSize
    <3>2. e = [at |-> 8, alloc |-> a2] /\ 8 \in 6 .. 9
      BY <2>1, <3>1
    <3>3. e \in Addresses(6 .. 9)
      BY <3>1, <3>2 DEF Addresses
    <3>4. e.at = 8
      BY <3>2
    <3> QED
      BY <3>2, <3>3, <3>4
  <2> QED
    BY <2>2, <2>3, <1>7
<1>12. Described(command)
  <2>1. \A e \in command.expected : Field(command, e) = e.at
    BY <1>9 DEF Field
  <2>2. MetaCommandSize .. command.size - 1 = 6 .. 9
    BY <1>9 DEF MetaCommandSize
  <2>3. command.expected \subseteq Addresses(MetaCommandSize .. command.size - 1)
    BY <1>11, <2>2
  <2>4. \A e \in command.expected : Field(command, e) \in Nat /\ Field(command, e) < command.size
    BY <1>9, <1>11, <2>1
  <2>5. \A e, f \in command.expected : Field(command, e) = Field(command, f) => e = f
    <3>1. PICK x, y : x = [at |-> 6, alloc |-> a1] /\ y = [at |-> 8, alloc |-> a2]
      OBVIOUS
    <3>2. \A e \in command.expected : (e.at = 6 /\ e = x) \/ (e.at = 8 /\ e = y)
      BY <3>1, <1>11
    <3> QED
      BY <3>2, <2>1
  <2> QED
    BY <2>3, <2>4, <2>5, <1>9 DEF Described
<1>13. RefsMatch(command, refs)
  BY <1>9, ResolvedMatch
<1>14. PICK size \in Nat : size = MetaCommandSize + 2 * Cardinality(Tensors)
  BY <1>1 DEF MetaCommandSize
<1>15. PICK num \in Nat : num = Cardinality(Tensors) /\ num = 2
  BY <1>1
<1>16. Recording /\ Record(command, FALSE, size, num, refs)
  BY <1>3, <1>4, <1>5, <1>8, <1>14, <1>15 DEF ExecuteMlMetaCommand, Tensor
<1>17. FALSE \in BOOLEAN
  OBVIOUS
<1>18. command.size = size /\ Len(refs) <= num
  BY <1>6, <1>8, <1>14, <1>15
<1> QED
  BY <1>12, <1>13, <1>16, <1>17, <1>18, RecordAddresses

(* Closing a list, resetting it and executing it change no command.        *)
LEMMA LifeKeepsAddresses ==
  ASSUME ListInv, OrderInv, AddressInv, Close \/ Reset
  PROVE  AddressInv'
<1>1. PICK b : b = m_pCurCommandBuffer
  OBVIOUS
<1>2. PICK s \in Seq(Buffers) : s = m_filledCommandBuffers
  BY DEF ListInv, BuffersInv
<1>3. b \in Buffers
  BY <1>1 DEF ListInv, BuffersInv, BufferFits
<1>4. PICK rec : rec = recorded /\ AddressesHeld(s, b, rec)
  BY <1>1, <1>2 DEF AddressInv
<1>5. CASE Close
  <2>1. recorded' = rec
    BY <1>4, <1>5 DEF Close
  <2>2. CASE IsCommandBufferEmpty(m_pCurCommandBuffer)
    <3>1. m_filledCommandBuffers' = s /\ m_pCurCommandBuffer' = b
      BY <2>2, <1>1, <1>2, <1>5 DEF Close
    <3> QED
      BY <3>1, <2>1, <1>4 DEF AddressInv
  <2>3. CASE ~IsCommandBufferEmpty(m_pCurCommandBuffer)
    <3>1. m_filledCommandBuffers' = Append(s, b) /\ m_pCurCommandBuffer' = Null
      BY <2>3, <1>1, <1>2, <1>5 DEF Close
    <3>2. PICK n : n = Null
      OBVIOUS
    <3>3. Addressed(n, rec)
      BY <3>2, BlankAddressed
    <3>4. PICK t : t = Append(s, b)
      OBVIOUS
    <3>5. AddressesHeld(t, n, rec)
      BY <3>3, <3>4, <1>3, <1>4, PutAsideAddressed
    <3> QED
      BY <3>1, <3>2, <3>4, <3>5, <2>1 DEF AddressInv
  <2> QED
    BY <2>2, <2>3
<1>6. CASE Reset
  <2>1. m_filledCommandBuffers' = << >> /\ recorded' = << >>
        /\ (m_pCurCommandBuffer' = NewCommandBuffer \/ m_pCurCommandBuffer' = Null)
    BY <1>6 DEF Reset
  <2>2. PICK n, none : n = m_pCurCommandBuffer' /\ none = << >>
    OBVIOUS
  <2>3. Addressed(n, none)
    BY <2>1, <2>2, BlankAddressed
  <2>4. Len(none) = 0
    BY <2>2
  <2>5. AddressesHeld(none, n, none)
    BY <2>3, <2>4 DEF AddressesHeld
  <2> QED
    BY <2>1, <2>2, <2>5 DEF AddressInv
<1> QED
  BY <1>5, <1>6

(* Every patch location of every buffer is for an address that a command   *)
(* expects, at its place, and every expected address has one.              *)
LEMMA AddressSteps ==
  /\ Init => AddressInv
  /\ (ListInv /\ OrderInv /\ AddressInv) /\ [Next]_vars => AddressInv'
<1>1. Init => AddressInv
  <2> SUFFICES ASSUME Init
               PROVE  AddressInv
    OBVIOUS
  <2>1. m_filledCommandBuffers = << >> /\ recorded = << >> /\ m_pCurCommandBuffer = Null
    BY DEF Init
  <2>2. PICK n, none : n = m_pCurCommandBuffer /\ none = << >>
    OBVIOUS
  <2>3. Addressed(n, none)
    BY <2>1, <2>2, BlankAddressed
  <2>4. Len(none) = 0
    BY <2>2
  <2>5. AddressesHeld(none, n, none)
    BY <2>3, <2>4 DEF AddressesHeld
  <2> QED
    BY <2>1, <2>2, <2>5 DEF AddressInv
<1>2. (ListInv /\ OrderInv /\ AddressInv) /\ [Next]_vars => AddressInv'
  <2> SUFFICES ASSUME ListInv, OrderInv, AddressInv, [Next]_vars
               PROVE  AddressInv'
    OBVIOUS
  <2>1. CASE \E dst, src \in Allocations : dst # src /\ ResourceCopy(dst, src)
    BY <2>1, CopyAddresses
  <2>2. CASE \E shader \in ShaderSizes : Dispatch(shader)
    BY <2>2, DispatchAddresses
  <2>3. CASE \E descriptors \in TensorBindings : ExecuteMlMetaCommand(descriptors)
    BY <2>3, MetaCommandAddresses
  <2>4. CASE Close \/ Reset
    BY <2>4, LifeKeepsAddresses
  <2>5. CASE UNCHANGED listVars
    <3>1. /\ m_filledCommandBuffers' = m_filledCommandBuffers
          /\ m_pCurCommandBuffer' = m_pCurCommandBuffer /\ recorded' = recorded
      BY <2>5 DEF listVars
    <3> QED
      BY <3>1 DEF AddressInv
  <2>6. CASE \/ \E sig \in Signatures : SetRootSignature(sig)
             \/ \E i \in Parameters(m_pRootSignature) :
                  \E value \in Arguments(m_pRootSignature[i]) : SetRootArgument(i, value)
             \/ \E d \in 0 .. HeapSize - 1, a \in Allocations : CreateView(d, a)
             \/ \E refused \in SUBSET DOMAIN m_filledCommandBuffers : Execute(refused)
             \/ UNCHANGED vars
    <3>1. UNCHANGED listVars
      BY <2>6 DEF SetRootSignature, SetRootArgument, CreateView, Execute, vars
    <3> QED
      BY <3>1, <2>5
  <2> QED
    BY <2>1, <2>2, <2>3, <2>4, <2>6 DEF Next
<1> QED
  BY <1>1, <1>2

-----------------------------------------------------------------------------
(* What the kernel driver writes into a buffer. *)

Memories == UNION {[D -> Allocations] : D \in SUBSET Nat}
GoodLocations(b) == {p \in PatchLocations : p.index \in 1 .. Len(b.allocs)}

(* An address is written, where the patch location says. *)
LEMMA AddressWritten ==
  ASSUME NEW b \in Buffers, NEW memory \in Memories, NEW p \in GoodLocations(b)
  PROVE  /\ WriteAddress(b, memory, p) \in Memories
         /\ DOMAIN WriteAddress(b, memory, p) = DOMAIN memory \cup {p.at}
         /\ \A at \in DOMAIN memory :
              at # p.at => WriteAddress(b, memory, p)[at] = memory[at]
         /\ WriteAddress(b, memory, p)[p.at] = b.allocs[p.index]
<1>1. PICK D \in SUBSET Nat : memory \in [D -> Allocations]
  BY DEF Memories
<1>2. p.at \in Nat /\ b.allocs[p.index] \in Allocations
  BY DEF GoodLocations, PatchLocations, Buffers
<1>3. PICK alloc \in Allocations : alloc = b.allocs[p.index]
  BY <1>2
<1>4. PICK new : new = [at \in D \cup {p.at} |-> IF at = p.at THEN alloc ELSE memory[at]]
  OBVIOUS
<1>5. WriteAddress(b, memory, p) = new
  BY <1>1, <1>3, <1>4 DEF WriteAddress
<1>6. new \in [D \cup {p.at} -> Allocations] /\ D \cup {p.at} \in SUBSET Nat
  BY <1>1, <1>2, <1>3, <1>4
<1>7. new \in Memories
  BY <1>6 DEF Memories
<1>8. /\ DOMAIN new = DOMAIN memory \cup {p.at} /\ new[p.at] = alloc
      /\ \A at \in DOMAIN memory : at # p.at => new[at] = memory[at]
  BY <1>1, <1>4
<1> QED
  BY <1>3, <1>5, <1>7, <1>8

(* The patch locations of a buffer, one after the other.                   *)
LEMMA PatchTrace ==
  ASSUME NEW b \in Buffers, \A k \in 1 .. Len(b.patches) : b.patches[k].index \in 1 .. Len(b.allocs)
  PROVE  \E h \in [0 .. Len(b.patches) -> Memories] :
           /\ h[0] = << >> /\ PatchDmaBuffer(b) = h[Len(b.patches)]
           /\ \A k \in 1 .. Len(b.patches) : h[k] = WriteAddress(b, h[k - 1], b.patches[k])
<1> DEFINE N == Len(b.patches)
           A == GoodLocations(b)
           Step == [x \in Memories \X A |-> WriteAddress(b, x[1], x[2])]
           Fold(f) == f = [I \in SUBSET (1 .. N) |->
                             IF I = {} THEN << >>
                                       ELSE WriteAddress(b, f[I \ {Max(I)}], b.patches[Max(I)])]
           c == CHOOSE f : Fold(f)
<1>1. N \in Nat /\ DOMAIN b.patches = 1 .. N /\ b.patches \in [1 .. N -> A]
      /\ \A k \in 1 .. N : b.patches[k] \in A
  <2>1. b.patches \in Seq(PatchLocations)
    BY DEF Buffers
  <2>2. N \in Nat /\ b.patches \in [1 .. N -> PatchLocations]
    BY <2>1
  <2>3. \A k \in 1 .. N : b.patches[k] \in A
    BY <2>2 DEF GoodLocations
  <2> QED
    BY <2>2, <2>3
<1>2. PatchDmaBuffer(b) = c[1 .. N]
  BY <1>1 DEF PatchDmaBuffer, FoldLeft, MapThenFoldSet
<1>3. Step \in [Memories \X A -> Memories]
  BY AddressWritten
<1>4. << >> \in Memories
  <2>1. << >> \in [1 .. 0 -> Allocations] /\ 1 .. 0 \in SUBSET Nat
    OBVIOUS
  <2> QED
    BY <2>1 DEF Memories
<1>5. PICK f : Tabulated(Memories, Step, << >>, N, b.patches, f)
  <2> HIDE DEF Step, N, A
  <2> QED
    BY <1>1, <1>3, <1>4, FoldExists
<1>6. /\ f \in [SUBSET (1 .. N) -> Memories]
      /\ \A I \in SUBSET (1 .. N) :
           f[I] = IF I = {} THEN << >> ELSE Step[<<f[I \ {Max(I)}], b.patches[Max(I)]>>]
  <2> HIDE DEF Step, N, A
  <2> QED
    BY <1>5 DEF Tabulated
<1>7. ASSUME NEW I \in SUBSET (1 .. N)
      PROVE  f[I] = IF I = {} THEN << >> ELSE WriteAddress(b, f[I \ {Max(I)}], b.patches[Max(I)])
  <2>1. CASE I = {}
    BY <2>1, <1>6
  <2>2. CASE I # {}
    <3>1. Max(I) \in I
      <4>1. I \in SUBSET (0 .. N)
        OBVIOUS
      <4> QED
        BY <2>2, <4>1, <1>1, MaxExists
    <3>2. f[I \ {Max(I)}] \in Memories /\ b.patches[Max(I)] \in A
      BY <3>1, <1>1, <1>6
    <3> QED
      BY <2>2, <3>2, <1>6
  <2> QED
    BY <2>1, <2>2
<1>8. Fold(f)
  <2>1. f = [I \in SUBSET (1 .. N) |-> f[I]]
    BY <1>6
  <2> QED
    BY <1>7, <2>1
<1>9. Fold(c)
  <2> HIDE DEF Fold
  <2> QED
    BY <1>8
<1>10. \A I \in SUBSET (1 .. N) :
         c[I] = IF I = {} THEN << >> ELSE WriteAddress(b, c[I \ {Max(I)}], b.patches[Max(I)])
  <2> HIDE DEF c
  <2> QED
    BY <1>9
<1> HIDE DEF c
<1> DEFINE h == [k \in 0 .. N |-> c[1 .. k]]
<1>11. c[1 .. 0] = << >>
  <2>1. 1 .. 0 = {} /\ 1 .. 0 \in SUBSET (1 .. N)
    OBVIOUS
  <2> QED
    BY <2>1, <1>10
<1>12. ASSUME NEW k \in 1 .. N
       PROVE  h[k] = WriteAddress(b, h[k - 1], b.patches[k]) /\ k \in 0 .. N /\ k - 1 \in 0 .. N
  <2>1. 1 .. k \in SUBSET (1 .. N) /\ k \in 0 .. N /\ k - 1 \in 0 .. N /\ k \in Nat /\ k # 0
    BY <1>1
  <2>2. c[1 .. k] = WriteAddress(b, c[(1 .. k) \ {Max(1 .. k)}], b.patches[Max(1 .. k)])
    BY <2>1, <1>10, InitialSegments
  <2>3. c[1 .. k] = WriteAddress(b, c[1 .. k - 1], b.patches[k])
    BY <2>1, <2>2, InitialSegments
  <2> QED
    BY <2>1, <2>3
<1> DEFINE Q == {k \in 0 .. N : h[k] \in Memories}
<1>13. 0 \in Q
  BY <1>1, <1>4, <1>11
<1>14. ASSUME NEW k \in 1 .. N, k - 1 \in Q
       PROVE  k \in Q
  <2>1. h[k - 1] \in Memories /\ b.patches[k] \in A
    BY <1>14, <1>1
  <2> HIDE DEF h
  <2>2. WriteAddress(b, h[k - 1], b.patches[k]) \in Memories
    BY <2>1, AddressWritten
  <2> QED
    BY <2>2, <1>12
<1>15. \A k \in 0 .. N : k \in Q
  <2> HIDE DEF Q, N
  <2> QED
    BY <1>1, <1>13, <1>14, Indices
<1>16. h[0] = << >> /\ h[N] = c[1 .. N] /\ N \in 0 .. N
  BY <1>1, <1>11
<1>17. h \in [0 .. N -> Memories]
  <2>1. \A k \in 0 .. N : c[1 .. k] \in Memories
    BY <1>15
  <2> QED
    BY <2>1
<1> HIDE DEF h
<1> QED
  BY <1>2, <1>12, <1>16, <1>17

(* A command of the buffer expects the address of alloc at an offset.      *)
Expected(b, rec, at, alloc) ==
  \E c \in 1 .. Len(b.cmds) : \E e \in rec[b.cmds[c].id].expected :
    at = b.cmds[c].at + Field(rec[b.cmds[c].id], e) /\ alloc = e.alloc

(* The commands of a buffer expect addresses in places apart.              *)
LEMMA PlacesApart ==
  ASSUME NEW b \in Buffers, NEW rec, LaidOut(b, rec),
         \A n \in 1 .. Len(rec) : Described(rec[n]) /\ CommandFits(rec[n]),
         NEW c \in 1 .. Len(b.cmds), NEW e \in rec[b.cmds[c].id].expected,
         NEW d \in 1 .. Len(b.cmds), NEW f \in rec[b.cmds[d].id].expected,
         b.cmds[c].at + Field(rec[b.cmds[c].id], e) = b.cmds[d].at + Field(rec[b.cmds[d].id], f)
  PROVE  c = d /\ e = f
<1>1. ASSUME NEW i \in 1 .. Len(b.cmds), NEW x \in rec[b.cmds[i].id].expected
      PROVE  /\ b.cmds[i].at \in Nat /\ Field(rec[b.cmds[i].id], x) \in Nat
             /\ rec[b.cmds[i].id].size \in Nat
             /\ Field(rec[b.cmds[i].id], x) < rec[b.cmds[i].id].size
  <2>1. b.cmds[i].id \in 1 .. Len(rec)
    BY DEF LaidOut
  <2>2. PICK r : r = rec[b.cmds[i].id] /\ Described(r) /\ CommandFits(r)
    BY <2>1
  <2>3. Field(r, x) \in Nat /\ Field(r, x) < r.size /\ r.size \in Nat
    BY <2>2 DEF Described, CommandFits
  <2>4. b.cmds[i].at \in Nat
    BY CommandsAre
  <2> QED
    BY <2>2, <2>3, <2>4
<1>2. ASSUME NEW i \in 1 .. Len(b.cmds), NEW j \in 1 .. Len(b.cmds), i < j,
             NEW x \in rec[b.cmds[i].id].expected, NEW y \in rec[b.cmds[j].id].expected
      PROVE  b.cmds[i].at + Field(rec[b.cmds[i].id], x) # b.cmds[j].at + Field(rec[b.cmds[j].id], y)
  <2>1. b.cmds[i].at + rec[b.cmds[i].id].size <= b.cmds[j].at
    BY <1>2 DEF LaidOut
  <2>2. /\ b.cmds[i].at \in Nat /\ Field(rec[b.cmds[i].id], x) \in Nat
        /\ rec[b.cmds[i].id].size \in Nat
        /\ Field(rec[b.cmds[i].id], x) < rec[b.cmds[i].id].size
    BY <1>1
  <2>3. b.cmds[j].at \in Nat /\ Field(rec[b.cmds[j].id], y) \in Nat
    BY <1>1
  <2>4. \A k, l, m, n, o \in Nat : l < m /\ k + m <= n => k + l # n + o
    OBVIOUS
  <2> QED
    BY <2>1, <2>2, <2>3, <2>4
<1>3. c < d \/ d < c \/ c = d
  <2>1. Len(b.cmds) \in Nat
    BY DEF Buffers
  <2> QED
    BY <2>1
<1>4. c = d
  <2>1. ~ (c < d)
    BY <1>2
  <2>2. ~ (d < c)
    BY <1>2
  <2> QED
    BY <2>1, <2>2, <1>3
<1>5. Field(rec[b.cmds[c].id], e) = Field(rec[b.cmds[c].id], f)
  <2>1. b.cmds[c].at \in Nat /\ Field(rec[b.cmds[c].id], e) \in Nat
    BY <1>1
  <2>2. Field(rec[b.cmds[c].id], f) \in Nat
    BY <1>1, <1>4
  <2>3. b.cmds[c].at + Field(rec[b.cmds[c].id], e) = b.cmds[c].at + Field(rec[b.cmds[c].id], f)
    BY <1>4
  <2>4. \A k, l, m \in Nat : k + l = k + m => l = m
    OBVIOUS
  <2> QED
    BY <2>1, <2>2, <2>3, <2>4
<1>6. b.cmds[c].id \in 1 .. Len(rec)
  BY DEF LaidOut
<1>7. PICK r : r = rec[b.cmds[c].id] /\ Described(r)
  BY <1>6
<1>8. e = f
  BY <1>4, <1>5, <1>7 DEF Described
<1> QED
  BY <1>4, <1>8

(* The kernel driver writes the addresses that the commands expect, and no *)
(* other.  (CosKmAdapter::PatchDmaBuffer.)                                 *)
LEMMA MemoryIs ==
  ASSUME NEW b \in Buffers, NEW rec, LaidOut(b, rec), Addressed(b, rec),
         \A n \in 1 .. Len(rec) : Described(rec[n]) /\ CommandFits(rec[n])
  PROVE  /\ \A at, alloc : Expected(b, rec, at, alloc) =>
              at \in DOMAIN PatchDmaBuffer(b) /\ PatchDmaBuffer(b)[at] = alloc
         /\ \A at \in DOMAIN PatchDmaBuffer(b) : Expected(b, rec, at, PatchDmaBuffer(b)[at])
<1> DEFINE N == Len(b.patches)
<1>1. N \in Nat /\ b.patches \in Seq(PatchLocations) /\ \A k \in 1 .. N : b.patches[k] \in PatchLocations
  BY DEF Buffers
<1>2. ASSUME NEW k \in 1 .. N
      PROVE  /\ b.patches[k] \in GoodLocations(b)
             /\ Expected(b, rec, b.patches[k].at, b.allocs[b.patches[k].index])
  <2>1. PICK d \in 1 .. Len(b.cmds) : \E e \in rec[b.cmds[d].id].expected :
          Names(b, k, b.cmds[d].at + Field(rec[b.cmds[d].id], e), e.alloc)
    BY DEF Addressed, Patched
  <2>2. PICK e \in rec[b.cmds[d].id].expected :
          Names(b, k, b.cmds[d].at + Field(rec[b.cmds[d].id], e), e.alloc)
    BY <2>1
  <2>3. /\ b.patches[k].at = b.cmds[d].at + Field(rec[b.cmds[d].id], e)
        /\ b.patches[k].index \in 1 .. Len(b.allocs)
        /\ b.allocs[b.patches[k].index] = e.alloc
    BY <2>2 DEF Names
  <2> QED
    BY <2>3, <1>1 DEF Expected, GoodLocations
<1>3. PICK h \in [0 .. N -> Memories] :
        /\ h[0] = << >> /\ PatchDmaBuffer(b) = h[N]
        /\ \A k \in 1 .. N : h[k] = WriteAddress(b, h[k - 1], b.patches[k])
  <2>1. \A k \in 1 .. N : b.patches[k].index \in 1 .. Len(b.allocs)
    BY <1>2 DEF GoodLocations
  <2> QED
    BY <2>1, PatchTrace
<1> DEFINE Filled(m, k) ==
             /\ \A at \in DOMAIN m : Expected(b, rec, at, m[at])
             /\ \A j \in 1 .. k : b.patches[j].at \in DOMAIN m
           Q == {k \in 0 .. N : Filled(h[k], k)}
<1>4. 0 \in Q
  <2>1. DOMAIN << >> = {}
    OBVIOUS
  <2>2. Filled(<< >>, 0)
    BY <2>1
  <2> HIDE DEF Filled, N
  <2> QED
    BY <2>2, <1>1, <1>3
<1>5. ASSUME NEW k \in 1 .. N, k - 1 \in Q
      PROVE  k \in Q
  <2>1. k - 1 \in 0 .. N /\ k \in 0 .. N
    BY <1>1
  <2>2. PICK m \in Memories : m = h[k - 1]
    <3> HIDE DEF N
    <3> QED
      BY <2>1, <1>3
  <2>3. Filled(m, k - 1)
    <3> HIDE DEF Filled
    <3> QED
      BY <2>2, <1>5
  <2>4. PICK p \in GoodLocations(b) : p = b.patches[k] /\ Expected(b, rec, p.at, b.allocs[p.index])
    BY <1>2
  <2>5. PICK new : new = WriteAddress(b, m, p)
    OBVIOUS
  <2>6. /\ DOMAIN new = DOMAIN m \cup {p.at}
        /\ \A at \in DOMAIN m : at # p.at => new[at] = m[at]
        /\ new[p.at] = b.allocs[p.index]
    <3>1. /\ DOMAIN WriteAddress(b, m, p) = DOMAIN m \cup {p.at}
          /\ \A at \in DOMAIN m : at # p.at => WriteAddress(b, m, p)[at] = m[at]
          /\ WriteAddress(b, m, p)[p.at] = b.allocs[p.index]
      BY AddressWritten
    <3> QED
      BY <2>5, <3>1
  <2>7. \A at \in DOMAIN new : Expected(b, rec, at, new[at])
    BY <2>3, <2>4, <2>6
  <2>8. ASSUME NEW j \in 1 .. k
        PROVE  b.patches[j].at \in DOMAIN new
    <3>1. j = k \/ j \in 1 .. k - 1
      OBVIOUS
    <3> QED
      BY <3>1, <2>3, <2>4, <2>6
  <2>9. Filled(new, k)
    BY <2>7, <2>8
  <2>10. h[k] = new
    BY <2>2, <2>4, <2>5, <1>3
  <2> HIDE DEF Filled
  <2> QED
    BY <2>1, <2>9, <2>10
<1>6. \A k \in 0 .. N : k \in Q
  <2> HIDE DEF Q, N
  <2> QED
    BY <1>1, <1>4, <1>5, Indices
<1>7. Filled(PatchDmaBuffer(b), N)
  <2>1. N \in Q
    <3> HIDE DEF Q, N
    <3> QED
      BY <1>1, <1>6
  <2> HIDE DEF Filled, N
  <2> QED
    BY <2>1, <1>3
<1>8. PICK memory : memory = PatchDmaBuffer(b)
  OBVIOUS
<1>9. /\ \A at \in DOMAIN memory : Expected(b, rec, at, memory[at])
      /\ \A j \in 1 .. N : b.patches[j].at \in DOMAIN memory
  BY <1>7, <1>8
<1>10. ASSUME NEW at, NEW alloc, Expected(b, rec, at, alloc)
       PROVE  at \in DOMAIN memory /\ memory[at] = alloc
  <2>1. PICK c \in 1 .. Len(b.cmds) : \E e \in rec[b.cmds[c].id].expected :
          at = b.cmds[c].at + Field(rec[b.cmds[c].id], e) /\ alloc = e.alloc
    BY <1>10 DEF Expected
  <2>2. PICK e \in rec[b.cmds[c].id].expected :
          at = b.cmds[c].at + Field(rec[b.cmds[c].id], e) /\ alloc = e.alloc
    BY <2>1
  <2>3. PICK k \in 1 .. N : Names(b, k, b.cmds[c].at + Field(rec[b.cmds[c].id], e), e.alloc)
    BY DEF Addressed, Patched
  <2>4. at \in DOMAIN memory
    BY <2>2, <2>3, <1>9 DEF Names
  <2>5. PICK d \in 1 .. Len(b.cmds) : \E f \in rec[b.cmds[d].id].expected :
          at = b.cmds[d].at + Field(rec[b.cmds[d].id], f) /\ memory[at] = f.alloc
    BY <2>4, <1>9 DEF Expected
  <2>6. PICK f \in rec[b.cmds[d].id].expected :
          at = b.cmds[d].at + Field(rec[b.cmds[d].id], f) /\ memory[at] = f.alloc
    BY <2>5
  <2>7. b.cmds[c].at + Field(rec[b.cmds[c].id], e) = b.cmds[d].at + Field(rec[b.cmds[d].id], f)
    BY <2>2, <2>6
  <2>8. e = f
    <3>1. c = d /\ e = f
      BY <2>7, PlacesApart, ZenonT(60)
    <3> QED
      BY <3>1
  <2> QED
    BY <2>2, <2>4, <2>6, <2>8
<1> QED
  BY <1>8, <1>9, <1>10

-----------------------------------------------------------------------------
(* What the engine finds. *)

(* A buffer of the list, as its invariants have it.                        *)
WellFilled(b) ==
  /\ b \in Buffers /\ LaidOut(b, recorded) /\ Addressed(b, recorded)
  /\ CommandsFit /\ \A n \in 1 .. Len(recorded) : Described(recorded[n])

CommandOf(b, c) == recorded[b.cmds[c].id]
IsExpected(r, o, alloc) == \E e \in r.expected : o = Field(r, e) /\ alloc = e.alloc

LEMMA CommandsOf ==
  ASSUME NEW b, WellFilled(b), NEW c \in 1 .. Len(b.cmds)
  PROVE  /\ Described(CommandOf(b, c)) /\ CommandFits(CommandOf(b, c))
         /\ CommandOf(b, c).sw = b.sw /\ CommandOf(b, c).size \in Nat
         /\ b.cmds[c].at \in Nat /\ b.cmds[c].id \in Nat
         /\ b.cmds[c].at >= GpuCommandSize
         /\ b.cmds[c].at + CommandOf(b, c).size <= b.pos
         /\ b.pos \in Nat /\ c \in Nat
<1>1. b \in Buffers /\ LaidOut(b, recorded) /\ CommandsFit
  BY DEF WellFilled
<1>2. b.cmds[c].id \in 1 .. Len(recorded)
  BY <1>1 DEF LaidOut
<1>3. Described(CommandOf(b, c)) /\ CommandFits(CommandOf(b, c))
  BY <1>2 DEF WellFilled, CommandsFit, CommandOf
<1>4. CommandOf(b, c).size \in Nat
  BY <1>3 DEF CommandFits
<1>5. b.cmds[c].at \in Nat /\ b.cmds[c].id \in Nat
  BY <1>1, CommandsAre
<1>6. /\ CommandOf(b, c).sw = b.sw /\ b.cmds[c].at >= GpuCommandSize
      /\ b.cmds[c].at + CommandOf(b, c).size <= b.pos
  BY <1>1 DEF LaidOut, CommandOf
<1>7. b.pos \in Nat
  BY <1>1 DEF Buffers
<1> QED
  BY <1>3, <1>4, <1>5, <1>6, <1>7

(* An address in a command is one that this command expects.               *)
LEMMA InCommand ==
  ASSUME NEW b, WellFilled(b), NEW c \in 1 .. Len(b.cmds),
         NEW o \in Nat, o < CommandOf(b, c).size, NEW alloc,
         NEW at, at = b.cmds[c].at + o, Expected(b, recorded, at, alloc)
  PROVE  IsExpected(CommandOf(b, c), o, alloc)
<1>1. PICK d \in 1 .. Len(b.cmds) : \E e \in CommandOf(b, d).expected :
        b.cmds[c].at + o = b.cmds[d].at + Field(CommandOf(b, d), e) /\ alloc = e.alloc
  BY DEF Expected, CommandOf
<1>2. PICK e \in CommandOf(b, d).expected :
        b.cmds[c].at + o = b.cmds[d].at + Field(CommandOf(b, d), e) /\ alloc = e.alloc
  BY <1>1
<1>3. /\ b.cmds[c].at \in Nat /\ CommandOf(b, c).size \in Nat /\ c \in Nat
      /\ b.cmds[d].at \in Nat /\ CommandOf(b, d).size \in Nat /\ d \in Nat
  BY CommandsOf
<1>4. Field(CommandOf(b, d), e) \in Nat /\ Field(CommandOf(b, d), e) < CommandOf(b, d).size
  <2>1. Described(CommandOf(b, d))
    BY CommandsOf
  <2> QED
    BY <2>1 DEF Described
<1>5. ~ (c < d)
  <2> SUFFICES ASSUME c < d
               PROVE  FALSE
    OBVIOUS
  <2>1. b.cmds[c].at + CommandOf(b, c).size <= b.cmds[d].at
    BY DEF WellFilled, LaidOut, CommandOf
  <2>2. \A k, l, m, n, s \in Nat : l < s /\ k + s <= m => k + l # m + n
    OBVIOUS
  <2> QED
    BY <2>1, <2>2, <1>2, <1>3, <1>4
<1>6. ~ (d < c)
  <2> SUFFICES ASSUME d < c
               PROVE  FALSE
    OBVIOUS
  <2>1. b.cmds[d].at + CommandOf(b, d).size <= b.cmds[c].at
    BY DEF WellFilled, LaidOut, CommandOf
  <2>2. \A k, l, m, n, s \in Nat : n < s /\ m + s <= k => k + l # m + n
    OBVIOUS
  <2> QED
    BY <2>1, <2>2, <1>2, <1>3, <1>4
<1>7. c = d
  BY <1>3, <1>5, <1>6
<1>8. o = Field(CommandOf(b, d), e)
  <2>1. \A k, l, m \in Nat : k + l = k + m => l = m
    OBVIOUS
  <2> QED
    BY <2>1, <1>2, <1>3, <1>4, <1>7
<1> QED
  BY <1>2, <1>7, <1>8 DEF IsExpected

(* At any offset in a command is the address that the command expects      *)
(* there.                                                                  *)
LEMMA FoundAt ==
  ASSUME NEW b, WellFilled(b), NEW memory, memory = PatchDmaBuffer(b),
         NEW c \in 1 .. Len(b.cmds), NEW o \in Nat, o < CommandOf(b, c).size
  PROVE  /\ b.cmds[c].at + o \in DOMAIN memory =>
              \E e \in CommandOf(b, c).expected :
                o = Field(CommandOf(b, c), e) /\ memory[b.cmds[c].at + o] = e.alloc
         /\ \A e \in CommandOf(b, c).expected : o = Field(CommandOf(b, c), e) =>
              b.cmds[c].at + o \in DOMAIN memory /\ memory[b.cmds[c].at + o] = e.alloc
<1>1. /\ \A at, alloc : Expected(b, recorded, at, alloc) =>
           at \in DOMAIN PatchDmaBuffer(b) /\ PatchDmaBuffer(b)[at] = alloc
      /\ \A at \in DOMAIN PatchDmaBuffer(b) : Expected(b, recorded, at, PatchDmaBuffer(b)[at])
  <2>1. /\ b \in Buffers /\ LaidOut(b, recorded) /\ Addressed(b, recorded)
        /\ \A n \in 1 .. Len(recorded) : Described(recorded[n]) /\ CommandFits(recorded[n])
    BY DEF WellFilled, CommandsFit
  <2> QED
    BY <2>1, MemoryIs, ZenonT(60)
<1>2. PICK at : at = b.cmds[c].at + o
  OBVIOUS
<1>3. ASSUME at \in DOMAIN memory
      PROVE  \E e \in CommandOf(b, c).expected :
               o = Field(CommandOf(b, c), e) /\ memory[at] = e.alloc
  <2>1. PICK alloc : alloc = memory[at]
    OBVIOUS
  <2>2. Expected(b, recorded, at, alloc)
    BY <2>1, <1>1, <1>3
  <2>3. IsExpected(CommandOf(b, c), o, alloc)
    BY <2>2, <1>2, InCommand
  <2> QED
    BY <2>1, <2>3 DEF IsExpected
<1>4. ASSUME NEW e \in CommandOf(b, c).expected, o = Field(CommandOf(b, c), e)
      PROVE  at \in DOMAIN memory /\ memory[at] = e.alloc
  <2>1. Expected(b, recorded, at, e.alloc)
    BY <1>2, <1>4 DEF Expected, CommandOf
  <2> QED
    BY <2>1, <1>1
<1> QED
  BY <1>2, <1>3, <1>4

(* The addresses that the engine finds in a copy or a meta command.        *)
LEMMA AddressesAreFound ==
  ASSUME NEW b, WellFilled(b), NEW memory, memory = PatchDmaBuffer(b),
         NEW c \in 1 .. Len(b.cmds), CommandOf(b, c).kind # "dispatch",
         NEW offsets \in SUBSET Nat, \A o \in offsets : o < CommandOf(b, c).size,
         CommandOf(b, c).expected \subseteq Addresses(offsets)
  PROVE  AddressesFound(b.cmds[c].at, offsets, memory) = CommandOf(b, c).expected
<1>1. PICK r : r = CommandOf(b, c)
  OBVIOUS
<1>2. PICK start : start = b.cmds[c].at
  OBVIOUS
<1>3. ASSUME NEW o \in offsets
      PROVE  /\ start + o \in DOMAIN memory =>
                  \E e \in r.expected : o = Field(r, e) /\ memory[start + o] = e.alloc
             /\ \A e \in r.expected : o = Field(r, e) =>
                  start + o \in DOMAIN memory /\ memory[start + o] = e.alloc
  <2>1. o \in Nat /\ o < CommandOf(b, c).size
    OBVIOUS
  <2> QED
    BY <2>1, <1>1, <1>2, FoundAt
<1>4. \A e \in r.expected : Field(r, e) = e.at
  BY <1>1 DEF Field
<1>5. ASSUME NEW e \in r.expected
      PROVE  e \in AddressesFound(start, offsets, memory)
  <2>1. PICK o \in offsets, alloc \in Allocations : e = [at |-> o, alloc |-> alloc]
    BY <1>1 DEF Addresses
  <2>2. o = Field(r, e) /\ e.alloc = alloc
    BY <2>1, <1>4
  <2>3. start + o \in DOMAIN memory /\ memory[start + o] = alloc
    BY <2>2, <1>3
  <2> QED
    BY <2>1, <2>3 DEF AddressesFound
<1>6. ASSUME NEW x \in AddressesFound(start, offsets, memory)
      PROVE  x \in r.expected
  <2>1. PICK o \in offsets : start + o \in DOMAIN memory /\ x = [at |-> o, alloc |-> memory[start + o]]
    BY <1>6 DEF AddressesFound
  <2>2. PICK e \in r.expected : o = Field(r, e) /\ memory[start + o] = e.alloc
    BY <2>1, <1>3
  <2>3. PICK p \in offsets, alloc \in Allocations : e = [at |-> p, alloc |-> alloc]
    BY <1>1 DEF Addresses
  <2>4. p = o /\ alloc = memory[start + o]
    BY <2>2, <2>3, <1>4
  <2> QED
    BY <2>1, <2>3, <2>4
<1> QED
  BY <1>1, <1>2, <1>5, <1>6

(* The registers that the engine finds with the tables of a dispatch.      *)
LEMMA RegistersAreFound ==
  ASSUME NEW b, WellFilled(b), NEW memory, memory = PatchDmaBuffer(b),
         NEW c \in 1 .. Len(b.cmds), CommandOf(b, c).kind = "dispatch",
         NEW tables, \A class \in Classes : NumRegisters(CommandOf(b, c).sig, class) # 0 =>
           tables[class] = b.cmds[c].at + HwViewTableOffset(CommandOf(b, c).sig, class)
  PROVE  RegistersFound(CommandOf(b, c).sig, tables, memory) = CommandOf(b, c).expected
<1>1. PICK r : r = CommandOf(b, c) /\ Described(r) /\ CommandFits(r)
  BY CommandsOf
<1>2. PICK start \in Nat : start = b.cmds[c].at
  BY CommandsOf
<1>3. PICK sig \in Signatures : sig = r.sig /\ r.expected \subseteq Registers(sig)
  BY <1>1 DEF Described
<1>4. \A e \in r.expected : Field(r, e) = RegisterOffset(sig, e.class, e.register)
  BY <1>1, <1>3 DEF Field
<1>5. ASSUME NEW class \in Classes, NEW register \in Nat, register < NumRegisters(sig, class)
      PROVE  /\ tables[class] + register * RegisterSize(class)
                = start + RegisterOffset(sig, class, register)
             /\ RegisterOffset(sig, class, register) \in Nat
             /\ RegisterOffset(sig, class, register) < CommandOf(b, c).size
  <2>1. NumRegisters(sig, class) \in Nat
    BY RegisterCounts
  <2>2. NumRegisters(sig, class) # 0
    BY <2>1, <1>5
  <2>3. tables[class] = start + HwViewTableOffset(sig, class)
    BY <2>2, <1>1, <1>2, <1>3
  <2>4. RegisterOffset(sig, class, register) = HwViewTableOffset(sig, class) + register * RegisterSize(class)
    BY DEF RegisterOffset
  <2>5. /\ RegisterOffset(sig, class, register) \in Nat
        /\ RegisterOffset(sig, class, register) < HwRootSignatureSize(sig)
    BY <1>5, RegistersApart
  <2>6. HwViewTableOffset(sig, class) \in Nat
    <3>1. \A k \in Classes : NumRegisters(sig, k) \in Nat
      BY RegisterCounts
    <3>2. NumRegisters(sig, "cbv") \in Nat /\ NumRegisters(sig, "srv") \in Nat
      BY <3>1 DEF Classes
    <3>3. RegisterSize("cbv") = 4 /\ RegisterSize("srv") = 2
      BY DEF RegisterSize
    <3> QED
      BY <3>2, <3>3 DEF HwViewTableOffset, RootSignatureSetSize
  <2>7. PICK size \in Nat : size = register * RegisterSize(class)
    <3>1. RegisterSize(class) = 2 \/ RegisterSize(class) = 4
      BY DEF RegisterSize
    <3> QED
      BY <3>1
  <2>8. Split(r) = HwRootSignatureSize(sig) /\ Split(r) < r.size /\ Split(r) \in Nat /\ r.size \in Nat
    BY <1>1, <1>3 DEF Split, CommandFits
  <2>9. RegisterOffset(sig, class, register) < r.size
    BY <2>5, <2>8
  <2>10. \A k, l, m \in Nat : (k + l) + m = k + (l + m)
    OBVIOUS
  <2> QED
    BY <2>3, <2>4, <2>5, <2>6, <2>7, <2>9, <2>10, <1>1
<1>6. ASSUME NEW class \in Classes, NEW register \in Nat, register < NumRegisters(sig, class),
             NEW place, place = tables[class] + register * RegisterSize(class)
      PROVE  /\ place \in DOMAIN memory =>
                  \E e \in r.expected :
                    RegisterOffset(sig, class, register) = Field(r, e) /\ memory[place] = e.alloc
             /\ \A e \in r.expected : RegisterOffset(sig, class, register) = Field(r, e) =>
                  place \in DOMAIN memory /\ memory[place] = e.alloc
  <2>1. PICK o \in Nat : o = RegisterOffset(sig, class, register) /\ o < CommandOf(b, c).size
    BY <1>5, <1>6
  <2>2. place = b.cmds[c].at + o
    BY <2>1, <1>2, <1>5, <1>6
  <2>3. /\ b.cmds[c].at + o \in DOMAIN memory =>
              \E e \in CommandOf(b, c).expected :
                o = Field(CommandOf(b, c), e) /\ memory[b.cmds[c].at + o] = e.alloc
        /\ \A e \in CommandOf(b, c).expected : o = Field(CommandOf(b, c), e) =>
              b.cmds[c].at + o \in DOMAIN memory /\ memory[b.cmds[c].at + o] = e.alloc
    BY <2>1, FoundAt
  <2> QED
    BY <2>1, <2>2, <2>3, <1>1
<1>7. \A class \in Classes : NumRegisters(sig, class) \in Nat
  BY RegisterCounts
<1> DEFINE found == RegistersFound(sig, tables, memory)
<1>8. \A x : x \in found <=>
        \E class \in Classes : \E register \in 0 .. NumRegisters(sig, class) - 1 :
          /\ tables[class] + register * RegisterSize(class) \in DOMAIN memory
          /\ x = [class |-> class, register |-> register,
                  alloc |-> memory[tables[class] + register * RegisterSize(class)]]
  BY DEF RegistersFound
<1>0. RegistersFound(sig, tables, memory) = found
  OBVIOUS
<1> HIDE DEF found
<1>9. ASSUME NEW e \in r.expected
      PROVE  e \in found
  <2>1. e \in Registers(sig)
    BY <1>3
  <2>2. PICK class \in Classes, register \in Nat, alloc \in Allocations :
          /\ e = [class |-> class, register |-> register, alloc |-> alloc]
          /\ register < NumRegisters(sig, class)
    <3>1. e \in [class : Classes, register : Nat, alloc : Allocations]
      BY <2>1 DEF Registers
    <3>2. PICK class \in Classes, register \in Nat, alloc \in Allocations :
            e = [class |-> class, register |-> register, alloc |-> alloc]
      BY <3>1
    <3>3. e.class = class /\ e.register = register
      BY <3>2
    <3>4. e.register < NumRegisters(sig, e.class)
      BY <2>1 DEF Registers
    <3> QED
      BY <3>2, <3>3, <3>4
  <2>3. e.class = class /\ e.register = register /\ e.alloc = alloc
    BY <2>2
  <2>4. PICK place : place = tables[class] + register * RegisterSize(class)
    OBVIOUS
  <2>5. RegisterOffset(sig, class, register) = Field(r, e)
    BY <2>3, <1>4
  <2>6. place \in DOMAIN memory /\ memory[place] = e.alloc
    BY <2>2, <2>4, <2>5, <1>6
  <2>7. register \in 0 .. NumRegisters(sig, class) - 1
    BY <2>2, <1>7
  <2> QED
    BY <2>2, <2>3, <2>4, <2>6, <2>7, <1>8
<1>10. ASSUME NEW x \in found
       PROVE  x \in r.expected
  <2>1. PICK class \in Classes : \E register \in 0 .. NumRegisters(sig, class) - 1 :
          /\ tables[class] + register * RegisterSize(class) \in DOMAIN memory
          /\ x = [class |-> class, register |-> register,
                  alloc |-> memory[tables[class] + register * RegisterSize(class)]]
    BY <1>8
  <2>2. PICK register \in 0 .. NumRegisters(sig, class) - 1 :
          /\ tables[class] + register * RegisterSize(class) \in DOMAIN memory
          /\ x = [class |-> class, register |-> register,
                  alloc |-> memory[tables[class] + register * RegisterSize(class)]]
    BY <2>1
  <2>3. register \in Nat /\ register < NumRegisters(sig, class)
    BY <1>7
  <2>4. PICK place : place = tables[class] + register * RegisterSize(class)
    OBVIOUS
  <2>5. PICK e \in r.expected :
          RegisterOffset(sig, class, register) = Field(r, e) /\ memory[place] = e.alloc
    BY <2>2, <2>3, <2>4, <1>6
  <2>6. e \in [class : Classes, register : Nat, alloc : Allocations]
        /\ e.register < NumRegisters(sig, e.class)
    BY <1>3 DEF Registers
  <2>7. PICK k \in Classes, n \in Nat, alloc \in Allocations :
          e = [class |-> k, register |-> n, alloc |-> alloc]
    BY <2>6
  <2>8. e.class = k /\ e.register = n /\ e.alloc = alloc
    BY <2>7
  <2>9. RegisterOffset(sig, class, register) = RegisterOffset(sig, k, n) /\ n < NumRegisters(sig, k)
    BY <2>5, <2>6, <2>8, <1>4
  <2>10. class = k /\ register = n
    BY <2>3, <2>9, RegistersApart
  <2> QED
    BY <2>2, <2>4, <2>5, <2>7, <2>8, <2>10
<1>11. found = r.expected
  BY <1>9, <1>10
<1> QED
  BY <1>0, <1>1, <1>3, <1>11

(* The commands of a buffer lie apart.                                     *)
LEMMA CommandsApart ==
  ASSUME NEW b, WellFilled(b), NEW c \in 1 .. Len(b.cmds), NEW d \in 1 .. Len(b.cmds), NEW x \in Nat,
         b.cmds[c].at <= x, x < b.cmds[c].at + CommandOf(b, c).size,
         b.cmds[d].at <= x, x < b.cmds[d].at + CommandOf(b, d).size
  PROVE  c = d
<1>1. /\ b.cmds[c].at \in Nat /\ CommandOf(b, c).size \in Nat /\ c \in Nat
      /\ b.cmds[d].at \in Nat /\ CommandOf(b, d).size \in Nat /\ d \in Nat
  BY CommandsOf
<1>2. c < d => b.cmds[c].at + CommandOf(b, c).size <= b.cmds[d].at
  BY DEF WellFilled, LaidOut, CommandOf
<1>3. d < c => b.cmds[d].at + CommandOf(b, d).size <= b.cmds[c].at
  BY DEF WellFilled, LaidOut, CommandOf
<1>4. \A k, l, m, n \in Nat : k < l + m /\ n <= k => ~ (l + m <= n)
  OBVIOUS
<1>5. ~ (c < d)
  BY <1>1, <1>2, <1>4
<1>6. ~ (d < c)
  BY <1>1, <1>3, <1>4
<1> QED
  BY <1>1, <1>5, <1>6

(* A root signature is not without size. *)
LEMMA RegistersTakeSpace ==
  ASSUME NEW sig \in Signatures
  PROVE  HwRootSignatureSize(sig) \in Nat /\ HwRootSignatureSize(sig) # 0
<1>1. PICK n1 \in Nat, n2 \in Nat, n3 \in Nat :
        /\ n1 = NumRegisters(sig, "cbv") /\ n2 = NumRegisters(sig, "srv")
        /\ n3 = NumRegisters(sig, "uav")
  BY RegisterCounts DEF Classes
<1>2. HwRootSignatureSize(sig) = 5 + 4 * n1 + 2 * n2 + 2 * n3
  BY <1>1 DEF HwViewTableOffset, HwRootSignatureSize, RegisterSize, RootSignatureSetSize
<1> QED
  BY <1>2

(* The two commands that the engine may see in one of the buffer.          *)
Proper(b, c) ==
  [kind |-> CommandOf(b, c).kind, id |-> b.cmds[c].id,
   size |-> CommandOf(b, c).size - Split(CommandOf(b, c))]
Setup(b, c) ==
  [kind |-> "root signature", sig |-> CommandOf(b, c).sig, size |-> Split(CommandOf(b, c))]

LEMMA CommandsSeen ==
  ASSUME NEW b \in Buffers, NEW pos, NEW x
  PROVE  x \in CommandsAt(b, pos) <=>
           \E c \in 1 .. Len(b.cmds) :
             \/ pos = Place(b, c) /\ x = Proper(b, c)
             \/ Split(CommandOf(b, c)) # 0 /\ pos = b.cmds[c].at /\ x = Setup(b, c)
<1> DEFINE P(cmd) == [kind |-> recorded[cmd.id].kind, id |-> cmd.id,
                      size |-> recorded[cmd.id].size - Split(recorded[cmd.id])]
           R(cmd) == [kind |-> "root signature", sig |-> recorded[cmd.id].sig,
                      size |-> Split(recorded[cmd.id])]
           X(cmd) == (IF pos = cmd.at + Split(recorded[cmd.id]) THEN {P(cmd)} ELSE {})
                     \cup (IF Split(recorded[cmd.id]) # 0 /\ pos = cmd.at THEN {R(cmd)} ELSE {})
<1>1. CommandsAt(b, pos) = UNION {X(cmd) : cmd \in ToSet(b.cmds)}
  BY DEF CommandsAt, Split
<1>2. ASSUME NEW cmd
      PROVE  x \in X(cmd) <=> \/ pos = cmd.at + Split(recorded[cmd.id]) /\ x = P(cmd)
                              \/ Split(recorded[cmd.id]) # 0 /\ pos = cmd.at /\ x = R(cmd)
  <2> HIDE DEF P, R
  <2> QED
    OBVIOUS
<1>3. x \in CommandsAt(b, pos) <=> \E cmd \in ToSet(b.cmds) : x \in X(cmd)
  <2> HIDE DEF X
  <2> QED
    BY <1>1
<1> HIDE DEF X
<1>4. ToSet(b.cmds) = {b.cmds[c] : c \in 1 .. Len(b.cmds)}
  BY CommandsAre
<1>5. (\E cmd \in ToSet(b.cmds) : x \in X(cmd)) <=> \E c \in 1 .. Len(b.cmds) : x \in X(b.cmds[c])
  BY <1>4
<1>6. ASSUME NEW c \in 1 .. Len(b.cmds)
      PROVE  P(b.cmds[c]) = Proper(b, c) /\ R(b.cmds[c]) = Setup(b, c)
             /\ b.cmds[c].at + Split(recorded[b.cmds[c].id]) = Place(b, c)
             /\ recorded[b.cmds[c].id] = CommandOf(b, c)
  BY DEF Proper, Setup, Place, CommandOf
<1> HIDE DEF P, R
<1>7. \A c \in 1 .. Len(b.cmds) :
        x \in X(b.cmds[c]) <=> \/ pos = Place(b, c) /\ x = Proper(b, c)
                               \/ Split(CommandOf(b, c)) # 0 /\ pos = b.cmds[c].at /\ x = Setup(b, c)
  BY <1>2, <1>6
<1> QED
  BY <1>3, <1>5, <1>7

(* Where a command begins, and where it is executed, the engine sees it    *)
(* and nothing else.                                                       *)
LEMMA SeenOnce ==
  ASSUME NEW b, WellFilled(b), NEW c \in 1 .. Len(b.cmds)
  PROVE  /\ Place(b, c) \in Nat
         /\ Place(b, c) + (CommandOf(b, c).size - Split(CommandOf(b, c)))
              = b.cmds[c].at + CommandOf(b, c).size
         /\ Place(b, c) < b.pos /\ b.cmds[c].at < b.pos
         /\ CommandsAt(b, Place(b, c)) = {Proper(b, c)}
         /\ Split(CommandOf(b, c)) # 0 => CommandsAt(b, b.cmds[c].at) = {Setup(b, c)}
<1>1. ASSUME NEW d \in 1 .. Len(b.cmds)
      PROVE  \E at, size, split \in Nat :
               /\ at = b.cmds[d].at /\ size = CommandOf(b, d).size /\ split = Split(CommandOf(b, d))
               /\ split < size /\ at + size <= b.pos /\ Place(b, d) = at + split
  <2>1. /\ CommandFits(CommandOf(b, d)) /\ b.cmds[d].at \in Nat
        /\ b.cmds[d].at + CommandOf(b, d).size <= b.pos
    BY CommandsOf
  <2>2. Place(b, d) = b.cmds[d].at + Split(CommandOf(b, d))
    BY DEF Place, CommandOf
  <2> QED
    BY <2>1, <2>2 DEF CommandFits
<1>2. PICK at, size, split \in Nat :
        /\ at = b.cmds[c].at /\ size = CommandOf(b, c).size /\ split = Split(CommandOf(b, c))
        /\ split < size /\ at + size <= b.pos /\ Place(b, c) = at + split
  BY <1>1
<1>3. b.pos \in Nat
  BY CommandsOf
<1>4. /\ Place(b, c) \in Nat /\ Place(b, c) + (size - split) = at + size
      /\ Place(b, c) < b.pos /\ at < b.pos
  <2>1. /\ at \in Nat /\ split \in Nat /\ size \in Nat /\ split < size
        /\ at + size <= b.pos
    BY <1>2
  <2>2. \A k, l, m, p \in Nat :
          l < m /\ k + m <= p =>
            /\ k + l \in Nat /\ (k + l) + (m - l) = k + m
            /\ k + l < p /\ k < p
    OBVIOUS
  <2>3. /\ at + split \in Nat /\ (at + split) + (size - split) = at + size
        /\ at + split < b.pos /\ at < b.pos
    BY <1>3, <2>1, <2>2
  <2> QED
    BY <1>2, <2>3
<1>5. ASSUME NEW d \in 1 .. Len(b.cmds), NEW pos, pos = at \/ pos = at + split,
             \/ pos = Place(b, d)
             \/ Split(CommandOf(b, d)) # 0 /\ pos = b.cmds[d].at
      PROVE  d = c
  <2>1. PICK at2, size2, split2 \in Nat :
          /\ at2 = b.cmds[d].at /\ size2 = CommandOf(b, d).size /\ split2 = Split(CommandOf(b, d))
          /\ split2 < size2 /\ at2 + size2 <= b.pos /\ Place(b, d) = at2 + split2
    BY <1>1
  <2>2. pos \in Nat /\ at <= pos /\ pos < at + size
    <3>1. CASE pos = at
      <4>1. at \in Nat /\ split \in Nat /\ size \in Nat /\ split < size
        BY <1>2
      <4>2. at <= at /\ at < at + size
        BY <4>1
      <4> QED
        BY <3>1, <4>1, <4>2
    <3>2. CASE pos = at + split
      <4>1. at \in Nat /\ split \in Nat /\ size \in Nat /\ split < size
        BY <1>2
      <4>2. at + split \in Nat /\ at <= at + split /\ at + split < at + size
        BY <4>1
      <4> QED
        BY <3>2, <4>2
    <3> QED
      BY <3>1, <3>2, <1>5
  <2>3. at2 <= pos /\ pos < at2 + size2
    <3>1. CASE pos = at2
      <4>1. at2 \in Nat /\ split2 \in Nat /\ size2 \in Nat /\ split2 < size2
        BY <2>1
      <4>2. at2 <= at2 /\ at2 < at2 + size2
        BY <4>1
      <4> QED
        BY <3>1, <4>1, <4>2
    <3>2. CASE pos = at2 + split2
      <4>1. at2 \in Nat /\ split2 \in Nat /\ size2 \in Nat /\ split2 < size2
        BY <2>1
      <4>2. at2 <= at2 + split2 /\ at2 + split2 < at2 + size2
        BY <4>1
      <4> QED
        BY <3>2, <4>2
    <3> QED
      BY <3>1, <3>2, <2>1, <1>5
  <2> QED
    BY <2>1, <2>2, <2>3, <1>2, CommandsApart
<1>6. \A pos, x : x \in CommandsAt(b, pos) <=>
           \E d \in 1 .. Len(b.cmds) :
             \/ pos = Place(b, d) /\ x = Proper(b, d)
             \/ Split(CommandOf(b, d)) # 0 /\ pos = b.cmds[d].at /\ x = Setup(b, d)
  BY CommandsSeen DEF WellFilled
<1>7. CommandsAt(b, Place(b, c)) = {Proper(b, c)}
  <2>1. Proper(b, c) \in CommandsAt(b, Place(b, c))
    BY <1>6
  <2>2. ASSUME NEW x \in CommandsAt(b, Place(b, c))
        PROVE  x = Proper(b, c)
    <3>1. PICK d \in 1 .. Len(b.cmds) :
             \/ Place(b, c) = Place(b, d) /\ x = Proper(b, d)
             \/ Split(CommandOf(b, d)) # 0 /\ Place(b, c) = b.cmds[d].at /\ x = Setup(b, d)
      BY <1>6
    <3>2. d = c
      BY <3>1, <1>2, <1>5
    <3>3. ~ (Split(CommandOf(b, d)) # 0 /\ Place(b, c) = b.cmds[d].at)
      BY <3>2, <1>2
    <3> QED
      BY <3>1, <3>2, <3>3
  <2> QED
    BY <2>1, <2>2
<1>8. ASSUME split # 0
      PROVE  CommandsAt(b, at) = {Setup(b, c)}
  <2>1. Setup(b, c) \in CommandsAt(b, at)
    BY <1>2, <1>6, <1>8
  <2>2. ASSUME NEW x \in CommandsAt(b, at)
        PROVE  x = Setup(b, c)
    <3>1. PICK d \in 1 .. Len(b.cmds) :
             \/ at = Place(b, d) /\ x = Proper(b, d)
             \/ Split(CommandOf(b, d)) # 0 /\ at = b.cmds[d].at /\ x = Setup(b, d)
      BY <1>6
    <3>2. d = c
      BY <3>1, <1>5
    <3>3. at # Place(b, d)
      BY <3>2, <1>2, <1>8
    <3> QED
      BY <3>1, <3>2, <3>3
  <2> QED
    BY <2>1, <2>2
<1> QED
  BY <1>2, <1>4, <1>7, <1>8

-----------------------------------------------------------------------------
(* What the engine does with it. *)

(* What is expected of the execution of a command.                         *)
Result(b, c) == [id |-> b.cmds[c].id, found |-> CommandOf(b, c).expected]
Results(b) == {Result(b, c) : c \in 1 .. Len(b.cmds)}
Engines(b) ==
  [pos : Nat, sig : Signatures \cup {<< >>}, tables : [Classes -> Nat], done : Seq(Results(b))]

(* The first n commands have been executed.                                *)
Ran(b, done, n) == Len(done) = n /\ \A m \in 1 .. n : done[m] = Result(b, m)

(* The engine has read the root signature of a dispatch.                   *)
Ready(b, e, c) ==
  CommandOf(b, c).kind = "dispatch" =>
    /\ e.sig = CommandOf(b, c).sig
    /\ \A class \in Classes : NumRegisters(CommandOf(b, c).sig, class) # 0 =>
         e.tables[class] = b.cmds[c].at + HwViewTableOffset(CommandOf(b, c).sig, class)

(* The tables are behind the root signature.  (ProcessHWRenderBuffer finds *)
(* them where WriteHWRootSignature put them.)                              *)
LEMMA TablesAre ==
  ASSUME NEW sig \in Signatures, NEW pos \in Nat, NEW old \in [Classes -> Nat]
  PROVE  /\ Tables(sig, pos, old) \in [Classes -> Nat]
         /\ \A class \in Classes : NumRegisters(sig, class) # 0 =>
              Tables(sig, pos, old)[class] = pos + HwViewTableOffset(sig, class)
<1>1. PICK n1 \in Nat, n2 \in Nat :
        n1 = NumRegisters(sig, "cbv") /\ n2 = NumRegisters(sig, "srv")
  BY RegisterCounts DEF Classes
<1>2. /\ HwViewTableOffset(sig, "cbv") = 5
      /\ HwViewTableOffset(sig, "srv") = 5 + 4 * n1
      /\ HwViewTableOffset(sig, "uav") = 5 + 4 * n1 + 2 * n2
  BY <1>1 DEF HwViewTableOffset, RegisterSize, RootSignatureSetSize
<1>3. PICK place : place = [cbv |-> pos + 5, srv |-> (pos + 5) + 4 * n1,
                            uav |-> ((pos + 5) + 4 * n1) + 2 * n2]
  OBVIOUS
<1>4. Tables(sig, pos, old) =
        [c \in Classes |-> IF NumRegisters(sig, c) # 0 THEN place[c] ELSE old[c]]
  BY <1>1, <1>3 DEF Tables, RegisterSize, RootSignatureSetSize
<1>5. /\ place["cbv"] = pos + 5 /\ place["srv"] = (pos + 5) + 4 * n1
      /\ place["uav"] = ((pos + 5) + 4 * n1) + 2 * n2
  BY <1>3
<1>6. \A class \in Classes : place[class] \in Nat /\ place[class] = pos + HwViewTableOffset(sig, class)
  BY <1>2, <1>5 DEF Classes
<1>7. PICK t : t = Tables(sig, pos, old)
  OBVIOUS
<1>8. t \in [Classes -> Nat]
  BY <1>4, <1>6, <1>7
<1>9. \A class \in Classes : NumRegisters(sig, class) # 0 => t[class] = place[class]
  BY <1>4, <1>7
<1> QED
  BY <1>6, <1>7, <1>8, <1>9

(* The engine reads a root signature.                                      *)
LEMMA ReadsSetup ==
  ASSUME NEW b, WellFilled(b), NEW memory, NEW c \in 1 .. Len(b.cmds),
         Split(CommandOf(b, c)) # 0, NEW e \in Engines(b), e.pos = b.cmds[c].at
  PROVE  \E r \in Engines(b) :
           /\ Interpret(b, memory, e) = r
           /\ r.pos = Place(b, c) /\ r.done = e.done /\ Ready(b, r, c)
<1>1. CommandsAt(b, e.pos) = {Setup(b, c)} /\ e.pos < b.pos /\ Place(b, c) \in Nat
  BY SeenOnce
<1>2. PICK cmd : cmd = Setup(b, c)
  OBVIOUS
<1>3. cmd.kind = "root signature" /\ cmd.sig = CommandOf(b, c).sig /\ cmd.size = Split(CommandOf(b, c))
  BY <1>2 DEF Setup
<1>4. CommandOf(b, c).kind = "dispatch"
  BY DEF Split
<1>5. PICK sig \in Signatures : sig = CommandOf(b, c).sig
  <2>1. Described(CommandOf(b, c))
    BY CommandsOf
  <2> QED
    BY <2>1, <1>4 DEF Described
<1>6. (CHOOSE x \in CommandsAt(b, e.pos) : TRUE) = cmd
  BY <1>1, <1>2
<1>7. e.pos \in Nat /\ ~ (e.pos >= b.pos)
  <2>1. e.pos \in Nat /\ b.pos \in Nat
    BY CommandsOf DEF Engines
  <2> QED
    BY <2>1, <1>1
<1>8. PICK tables \in [Classes -> Nat] :
        /\ tables = Tables(sig, e.pos, e.tables)
        /\ \A class \in Classes : NumRegisters(sig, class) # 0 =>
             tables[class] = e.pos + HwViewTableOffset(sig, class)
  <2>1. e.tables \in [Classes -> Nat]
    BY DEF Engines
  <2> QED
    BY <2>1, <1>7, TablesAre
<1>9. e.pos + cmd.size = Place(b, c)
  BY <1>3 DEF Place, CommandOf
<1>10. PICK p \in Nat : p = Place(b, c)
  BY <1>1
<1>11. PICK a \in Engines(b) : a = [e EXCEPT !.pos = p]
  <2>1. [e EXCEPT !.pos = p] \in Engines(b)
    BY DEF Engines
  <2> QED
    BY <2>1
<1>12. a.pos = p /\ a.tables = e.tables /\ a.done = e.done
  BY <1>11 DEF Engines
<1>13. PICK r \in Engines(b) : r = [a EXCEPT !.sig = sig, !.tables = tables]
  <2>1. [a EXCEPT !.sig = sig, !.tables = tables] \in Engines(b)
    BY DEF Engines
  <2> QED
    BY <2>1
<1>14. r.pos = p /\ r.tables = tables /\ r.done = e.done /\ r.sig = sig
  BY <1>12, <1>13 DEF Engines
<1>15. Interpret(b, memory, e) = r
  <2> DEFINE commands == CommandsAt(b, e.pos)
             command == CHOOSE x \in commands : TRUE
             after == [e EXCEPT !.pos = @ + command.size]
  <2>1. ~ (e.pos >= b.pos \/ commands = {})
    BY <1>1, <1>7
  <2>2. command = cmd
    BY <1>6
  <2>3. after = a
    BY <1>9, <1>10, <1>11, <2>2
  <2>4. Interpret(b, memory, e) =
          [after EXCEPT !.sig = command.sig, !.tables = Tables(command.sig, e.pos, @)]
    <3>1. command.kind = "root signature"
      BY <1>3, <2>2
    <3> QED
      BY <2>1, <3>1 DEF Interpret
  <2> HIDE DEF commands, command, after
  <2>5. Interpret(b, memory, e) = [a EXCEPT !.sig = sig, !.tables = Tables(sig, e.pos, @)]
    BY <1>3, <1>5, <2>2, <2>3, <2>4
  <2>6. [a EXCEPT !.sig = sig, !.tables = Tables(sig, e.pos, @)]
        = [a EXCEPT !.sig = sig, !.tables = Tables(sig, e.pos, a.tables)]
    BY DEF Engines
  <2> QED
    BY <2>5, <2>6, <1>8, <1>12, <1>13
<1>16. Ready(b, r, c)
  BY <1>5, <1>8, <1>14 DEF Ready
<1> QED
  BY <1>10, <1>14, <1>15, <1>16

(* The engine executes a command, for which it is ready.                   *)
LEMMA Executes ==
  ASSUME NEW b, WellFilled(b), ~b.sw, NEW memory, memory = PatchDmaBuffer(b),
         NEW c \in 1 .. Len(b.cmds), NEW e \in Engines(b), e.pos = Place(b, c), Ready(b, e, c),
         Ran(b, e.done, c - 1)
  PROVE  \E r \in Engines(b) :
           /\ Interpret(b, memory, e) = r
           /\ r.pos = Behind(b, recorded, c) /\ Ran(b, r.done, c)
<1>1. /\ CommandsAt(b, e.pos) = {Proper(b, c)} /\ e.pos < b.pos
      /\ Place(b, c) + (CommandOf(b, c).size - Split(CommandOf(b, c)))
           = b.cmds[c].at + CommandOf(b, c).size
  BY SeenOnce
<1>2. PICK cmd : cmd = Proper(b, c)
  OBVIOUS
<1>3. /\ cmd.kind = CommandOf(b, c).kind /\ cmd.id = b.cmds[c].id
      /\ cmd.size = CommandOf(b, c).size - Split(CommandOf(b, c))
  BY <1>2 DEF Proper
<1>4. cmd.kind \in {"dispatch", "meta"}
  <2>1. CommandFits(CommandOf(b, c)) /\ CommandOf(b, c).sw = b.sw
    BY CommandsOf
  <2> QED
    BY <2>1, <1>3 DEF CommandFits
<1>5. (CHOOSE x \in CommandsAt(b, e.pos) : TRUE) = cmd
  BY <1>1, <1>2
<1>6. e.pos \in Nat /\ ~ (e.pos >= b.pos)
  <2>1. e.pos \in Nat /\ b.pos \in Nat
    BY CommandsOf DEF Engines
  <2> QED
    BY <2>1, <1>1
<1>7. PICK p \in Nat : p = Behind(b, recorded, c) /\ p = e.pos + cmd.size
  <2>1. b.cmds[c].at \in Nat /\ CommandOf(b, c).size \in Nat /\ c # 0
    BY CommandsOf
  <2>2. Behind(b, recorded, c) = b.cmds[c].at + CommandOf(b, c).size
    BY <2>1 DEF Behind, CommandOf
  <2> QED
    BY <2>1, <2>2, <1>1, <1>3
<1>8. PICK a \in Engines(b) : a = [e EXCEPT !.pos = p]
  <2>1. [e EXCEPT !.pos = p] \in Engines(b)
    BY DEF Engines
  <2> QED
    BY <2>1
<1>9. a.pos = p /\ a.done = e.done
  BY <1>8 DEF Engines
<1>10. PICK x \in Results(b) : x = Result(b, c)
  BY DEF Results
<1> DEFINE found == IF cmd.kind = "dispatch"
                      THEN RegistersFound(e.sig, e.tables, memory)
                      ELSE AddressesFound(e.pos, MetaCommandSize .. cmd.size - 1, memory)
<1>11. Interpret(b, memory, e) = [a EXCEPT !.done = Append(@, [id |-> cmd.id, found |-> found])]
  <2> DEFINE commands == CommandsAt(b, e.pos)
             command == CHOOSE y \in commands : TRUE
             after == [e EXCEPT !.pos = @ + command.size]
  <2>1. ~ (e.pos >= b.pos \/ commands = {})
    BY <1>1, <1>6
  <2>2. command = cmd
    BY <1>5
  <2>3. after = a
    BY <1>7, <1>8, <2>2
  <2>4. Interpret(b, memory, e) =
          CASE command.kind = "root signature" ->
                 [after EXCEPT !.sig = command.sig, !.tables = Tables(command.sig, e.pos, @)]
            [] command.kind = "dispatch" ->
                 [after EXCEPT !.done = Append(@,
                    [id |-> command.id, found |-> RegistersFound(e.sig, e.tables, memory)])]
            [] command.kind = "meta" ->
                 [after EXCEPT !.done = Append(@,
                    [id |-> command.id,
                     found |-> AddressesFound(e.pos, MetaCommandSize .. command.size - 1, memory)])]
    BY <2>1 DEF Interpret
  <2> HIDE DEF commands, command, after
  <2>5. CASE cmd.kind = "dispatch"
    BY <2>2, <2>3, <2>4, <2>5
  <2>6. CASE cmd.kind = "meta"
    BY <2>2, <2>3, <2>4, <2>6
  <2> QED
    BY <2>5, <2>6, <1>4
<1>12. found = CommandOf(b, c).expected
  <2>1. CASE cmd.kind = "dispatch"
    <3>1. /\ e.sig = CommandOf(b, c).sig
          /\ \A class \in Classes : NumRegisters(CommandOf(b, c).sig, class) # 0 =>
               e.tables[class] = b.cmds[c].at + HwViewTableOffset(CommandOf(b, c).sig, class)
      BY <2>1, <1>3 DEF Ready
    <3>2. PICK tables : tables = e.tables
      OBVIOUS
    <3>3. RegistersFound(CommandOf(b, c).sig, tables, memory) = CommandOf(b, c).expected
      BY <2>1, <3>1, <3>2, <1>3, RegistersAreFound
    <3> QED
      BY <2>1, <3>1, <3>2, <3>3
  <2>2. CASE cmd.kind = "meta"
    <3>1. Split(CommandOf(b, c)) = 0
      BY <2>2, <1>3 DEF Split
    <3>2. cmd.size = CommandOf(b, c).size /\ CommandOf(b, c).size \in Nat /\ e.pos = b.cmds[c].at
      <4>1. CommandOf(b, c).size \in Nat /\ b.cmds[c].at \in Nat
        BY CommandsOf
      <4>2. e.pos = b.cmds[c].at + Split(CommandOf(b, c))
        BY DEF Place, CommandOf
      <4> QED
        BY <4>1, <4>2, <3>1, <1>3
    <3>3. CommandOf(b, c).expected \subseteq Addresses(MetaCommandSize .. CommandOf(b, c).size - 1)
      <4>1. Described(CommandOf(b, c))
        BY CommandsOf
      <4> QED
        BY <4>1, <2>2, <1>3 DEF Described
    <3>4. PICK offsets \in SUBSET Nat :
            /\ offsets = MetaCommandSize .. CommandOf(b, c).size - 1
            /\ \A o \in offsets : o < CommandOf(b, c).size
      BY <3>2 DEF MetaCommandSize
    <3>5. AddressesFound(b.cmds[c].at, offsets, memory) = CommandOf(b, c).expected
      BY <2>2, <3>3, <3>4, <1>3, AddressesAreFound
    <3> QED
      BY <2>2, <3>2, <3>4, <3>5
  <2> QED
    BY <2>1, <2>2, <1>4
<1> HIDE DEF found
<1>13. [id |-> cmd.id, found |-> found] = x
  BY <1>3, <1>10, <1>12 DEF Result
<1>14. PICK done \in Seq(Results(b)) : done = Append(e.done, x)
  <2>1. e.done \in Seq(Results(b))
    BY DEF Engines
  <2>2. Append(e.done, x) \in Seq(Results(b))
    BY <2>1
  <2> QED
    BY <2>2
<1>15. PICK r \in Engines(b) : r = [a EXCEPT !.done = done]
  <2>1. [a EXCEPT !.done = done] \in Engines(b)
    BY DEF Engines
  <2> QED
    BY <2>1
<1>16. r.pos = p /\ r.done = done
  BY <1>9, <1>15 DEF Engines
<1>17. Interpret(b, memory, e) = r
  <2>1. Interpret(b, memory, e) = [a EXCEPT !.done = Append(@, x)]
    BY <1>11, <1>13
  <2>2. [a EXCEPT !.done = Append(@, x)] = [a EXCEPT !.done = Append(a.done, x)]
    BY DEF Engines
  <2> QED
    BY <2>1, <2>2, <1>9, <1>14, <1>15
<1>18. Ran(b, done, c)
  <2>1. PICK s \in Seq(Results(b)) : s = e.done
    BY DEF Engines
  <2>2. Len(s) = c - 1 /\ \A m \in 1 .. c - 1 : s[m] = Result(b, m)
    BY <2>1 DEF Ran
  <2>3. Len(done) = c /\ done[c] = x /\ \A m \in 1 .. c - 1 : done[m] = s[m]
    BY <2>1, <2>2, <1>14
  <2>4. \A m \in 1 .. c : m = c \/ m \in 1 .. c - 1
    OBVIOUS
  <2> QED
    BY <2>2, <2>3, <2>4, <1>10 DEF Ran
<1> QED
  BY <1>7, <1>16, <1>17, <1>18

(* After n steps the engine is at the beginning of a command, or behind    *)
(* the root signature of one, and has executed those before.               *)
Reached(b, e, n) ==
  /\ e \in Engines(b)
  /\ \E c \in 0 .. Len(b.cmds) :
       /\ Ran(b, e.done, c)
       /\ \/ e.pos = Behind(b, recorded, c) /\ (2 * c >= n \/ c = Len(b.cmds))
          \/ /\ c < Len(b.cmds) /\ e.pos = Place(b, c + 1) /\ Ready(b, e, c + 1)
             /\ 2 * c + 1 >= n

(* Where the engine is at a command.                                       *)
LEMMA NextCommand ==
  ASSUME NEW b, WellFilled(b)
  PROVE  /\ Len(b.cmds) \in Nat /\ b.pos \in Nat
         /\ \A c \in 0 .. Len(b.cmds) :
              c < Len(b.cmds) => /\ c + 1 \in 1 .. Len(b.cmds)
                                 /\ b.cmds[c + 1].at = Behind(b, recorded, c)
         /\ Behind(b, recorded, Len(b.cmds)) \in Nat
         /\ Behind(b, recorded, Len(b.cmds)) >= b.pos
<1>1. PICK N \in Nat : N = Len(b.cmds)
  BY DEF WellFilled, Buffers
<1>2. b \in Buffers /\ Packed(b, recorded) /\ b.pos \in Nat
  BY DEF WellFilled, Addressed, Buffers
<1>3. ASSUME NEW c \in 0 .. N, c < N
      PROVE  c + 1 \in 1 .. N /\ b.cmds[c + 1].at = Behind(b, recorded, c)
  <2>1. c + 1 \in 1 .. N /\ (c + 1) - 1 = c
    BY <1>3
  <2>2. \A d \in 1 .. N : b.cmds[d].at = Behind(b, recorded, d - 1)
    BY <1>1, <1>2 DEF Packed
  <2>3. b.cmds[c + 1].at = Behind(b, recorded, (c + 1) - 1)
    BY <2>1, <2>2
  <2> QED
    BY <2>1, <2>3
<1>4. Behind(b, recorded, N) \in Nat /\ Behind(b, recorded, N) >= b.pos
  <2>1. CASE N = 0
    <3>1. b.cmds = << >>
      <4>1. b.cmds \in Seq([id : Nat, at : Nat])
        BY <1>2 DEF Buffers
      <4> QED
        BY <4>1, <2>1, <1>1
    <3>2. b.pos <= GpuCommandSize
      BY <3>1, <1>2 DEF Packed
    <3> QED
      BY <3>2, <2>1, <1>2 DEF Behind, GpuCommandSize
  <2>2. CASE N # 0
    <3>1. b.cmds # << >>
      BY <2>2, <1>1
    <3>2. b.pos = Behind(b, recorded, N)
      BY <3>1, <1>1, <1>2 DEF Packed
    <3> QED
      BY <3>2, <1>2
  <2> QED
    BY <2>1, <2>2
<1> QED
  BY <1>1, <1>2, <1>3, <1>4

(* One step of the engine. *)
LEMMA EngineGoesOn ==
  ASSUME NEW b, WellFilled(b), ~b.sw, NEW memory, memory = PatchDmaBuffer(b),
         NEW e, NEW n \in Nat, Reached(b, e, n)
  PROVE  Reached(b, Interpret(b, memory, e), n + 1)
<1>1. PICK N \in Nat : N = Len(b.cmds)
  BY NextCommand
<1>2. e \in Engines(b) /\ e.pos \in Nat
  BY DEF Reached, Engines
<1>3. PICK c \in 0 .. N :
        /\ Ran(b, e.done, c)
        /\ \/ e.pos = Behind(b, recorded, c) /\ (2 * c >= n \/ c = N)
           \/ c < N /\ e.pos = Place(b, c + 1) /\ Ready(b, e, c + 1) /\ 2 * c + 1 >= n
  BY <1>1 DEF Reached
<1>4. CASE c = N /\ e.pos = Behind(b, recorded, c)
  <2>1. e.pos >= b.pos
    BY <1>1, <1>4, NextCommand
  <2>2. Interpret(b, memory, e) = e
    BY <2>1 DEF Interpret
  <2>3. Reached(b, e, n + 1)
    BY <1>1, <1>2, <1>3, <1>4 DEF Reached
  <2> QED
    BY <2>2, <2>3
<1>5. ASSUME c < N, e.pos = Place(b, c + 1), Ready(b, e, c + 1), 2 * (c + 1) >= n + 1
      PROVE  Reached(b, Interpret(b, memory, e), n + 1)
  <2>1. PICK d \in 1 .. Len(b.cmds) : d = c + 1 /\ d - 1 = c /\ d \in 0 .. N
    BY <1>1, <1>5
  <2>2. e.pos = Place(b, d) /\ Ready(b, e, d) /\ Ran(b, e.done, d - 1)
    BY <2>1, <1>3, <1>5
  <2>3. PICK r \in Engines(b) :
          Interpret(b, memory, e) = r /\ r.pos = Behind(b, recorded, d) /\ Ran(b, r.done, d)
    BY <2>2, <1>2, Executes
  <2>4. 2 * d >= n + 1
    BY <2>1, <1>5
  <2>5. Reached(b, r, n + 1)
    BY <2>1, <2>3, <2>4, <1>1 DEF Reached
  <2> QED
    BY <2>3, <2>5
<1>6. CASE c < N /\ e.pos = Behind(b, recorded, c) /\ 2 * c >= n
  <2>1. PICK d \in 1 .. Len(b.cmds) : d = c + 1
    BY <1>1, <1>6
  <2>2. e.pos = b.cmds[d].at
    BY <2>1, <1>1, <1>6, NextCommand
  <2>3. CASE Split(CommandOf(b, d)) = 0
    <3>1. e.pos = Place(b, d)
      <4>1. b.cmds[d].at \in Nat
        BY CommandsOf
      <4> QED
        BY <4>1, <2>2, <2>3 DEF Place, CommandOf
    <3>2. CommandOf(b, d).kind # "dispatch"
      <4> SUFFICES ASSUME CommandOf(b, d).kind = "dispatch"
                   PROVE  FALSE
        OBVIOUS
      <4>1. CommandOf(b, d).sig \in Signatures
        <5>1. Described(CommandOf(b, d))
          BY CommandsOf
        <5> QED
          BY <5>1 DEF Described
      <4> QED
        BY <4>1, <2>3, RegistersTakeSpace DEF Split
    <3>3. Ready(b, e, d)
      BY <3>2 DEF Ready
    <3>4. 2 * (c + 1) >= n + 1
      BY <1>6
    <3> QED
      BY <3>1, <3>3, <3>4, <2>1, <1>5, <1>6
  <2>4. CASE Split(CommandOf(b, d)) # 0
    <3>1. PICK r \in Engines(b) :
            /\ Interpret(b, memory, e) = r
            /\ r.pos = Place(b, d) /\ r.done = e.done /\ Ready(b, r, d)
      BY <2>2, <2>4, <1>2, ReadsSetup
    <3>2. 2 * c + 1 >= n + 1
      BY <1>6
    <3>3. Reached(b, r, n + 1)
      BY <3>1, <3>2, <2>1, <1>1, <1>3, <1>6 DEF Reached
    <3> QED
      BY <3>1, <3>3
  <2> QED
    BY <2>3, <2>4
<1>7. CASE c < N /\ e.pos = Place(b, c + 1) /\ Ready(b, e, c + 1) /\ 2 * c + 1 >= n
  <2>1. 2 * (c + 1) >= n + 1
    BY <1>7
  <2> QED
    BY <2>1, <1>5, <1>7
<1>8. c < N \/ c = N
  OBVIOUS
<1> QED
  BY <1>3, <1>4, <1>6, <1>7, <1>8

(* A buffer of dispatches and meta commands is executed as expected.       *)
(* (CosKmdSoftAdapter::ProcessHWRenderBuffer.)                             *)
LEMMA HwIsExecuted ==
  ASSUME NEW b, WellFilled(b), ~b.sw, NEW memory, memory = PatchDmaBuffer(b)
  PROVE  /\ ProcessHWRenderBuffer(b, memory) \in Seq(Results(b))
         /\ Ran(b, ProcessHWRenderBuffer(b, memory), Len(b.cmds))
<1> DEFINE N == 2 * Len(b.cmds)
           base == [pos |-> GpuCommandSize, sig |-> << >>, tables |-> [c \in Classes |-> 0],
                    done |-> << >>]
           Fold(f) == f = [I \in SUBSET (1 .. N) |->
                             IF I = {} THEN base ELSE Interpret(b, memory, f[I \ {Max(I)}])]
           c == CHOOSE f : Fold(f)
           turns == [n \in 1 .. N |-> n]
<1>1. N \in Nat
  BY NextCommand
<1>2. DOMAIN turns = 1 .. N
  OBVIOUS
<1>3. FoldLeft(LAMBDA engine, n : Interpret(b, memory, engine), base, turns) = c[1 .. N]
  <2> HIDE DEF N, base, turns
  <2> QED
    BY <1>2 DEF FoldLeft, MapThenFoldSet
<1>4. \E f : Fold(f)
  <2>1. \E f : EngineTable(b, memory, base, N, f)
    <3> HIDE DEF N, base, Fold
    <3> QED
      BY <1>1, EngineFold
  <2> QED
    BY <2>1 DEF EngineTable
<1>5. Fold(c)
  <2> HIDE DEF Fold
  <2> QED
    BY <1>4
<1>6. \A I \in SUBSET (1 .. N) :
        c[I] = IF I = {} THEN base ELSE Interpret(b, memory, c[I \ {Max(I)}])
  <2> HIDE DEF c, base, N
  <2> QED
    BY <1>5
<1>7. Reached(b, base, 0)
  <2>1. base \in Engines(b) /\ base.done = << >> /\ base.pos = GpuCommandSize
    BY DEF GpuCommandSize, Engines
  <2> HIDE DEF base
  <2>2. Ran(b, base.done, 0)
    <3>1. Len(<< >>) = 0
      OBVIOUS
    <3> QED
      BY <3>1, <2>1 DEF Ran
  <2>3. 0 \in 0 .. Len(b.cmds)
    BY NextCommand
  <2>4. base.pos = Behind(b, recorded, 0) /\ 2 * 0 >= 0
    BY <2>1 DEF Behind
  <2> QED
    BY <2>1, <2>2, <2>3, <2>4 DEF Reached
<1> HIDE DEF c, base, turns
<1> DEFINE Q == {k \in 0 .. N : Reached(b, c[1 .. k], k)}
<1>8. 0 \in Q
  <2>1. 1 .. 0 = {} /\ 0 \in 0 .. N
    BY <1>1
  <2>2. c[1 .. 0] = base
    <3> HIDE DEF N
    <3> QED
      BY <2>1, <1>6
  <2> QED
    BY <2>1, <2>2, <1>7
<1>9. ASSUME NEW k \in 1 .. N, k - 1 \in Q
      PROVE  k \in Q
  <2>1. 1 .. k \in SUBSET (1 .. N) /\ k \in 0 .. N /\ k \in Nat /\ k # 0
    BY <1>1
  <2>2. c[1 .. k] = Interpret(b, memory, c[(1 .. k) \ {Max(1 .. k)}])
    <3> HIDE DEF N
    <3> QED
      BY <2>1, <1>6, InitialSegments
  <2>3. PICK n \in Nat : n = k - 1
    BY <2>1
  <2>4. PICK e : e = c[1 .. k - 1] /\ Reached(b, e, n)
    BY <2>3, <1>9
  <2>5. c[1 .. k] = Interpret(b, memory, e)
    BY <2>1, <2>2, <2>4, InitialSegments
  <2>6. Reached(b, Interpret(b, memory, e), n + 1)
    BY <2>4, EngineGoesOn
  <2>7. n + 1 = k
    BY <2>1, <2>3
  <2> HIDE DEF N
  <2> QED
    BY <2>1, <2>5, <2>6, <2>7
<1>10. \A k \in 0 .. N : k \in Q
  <2> HIDE DEF Q, N
  <2> QED
    BY <1>1, <1>8, <1>9, Indices
<1>11. PICK e : e = c[1 .. N] /\ Reached(b, e, N)
  <2>1. N \in Q
    <3> HIDE DEF Q, N
    <3> QED
      BY <1>1, <1>10
  <2> HIDE DEF N
  <2> QED
    BY <2>1
<1>12. PICK d \in 0 .. Len(b.cmds) : Ran(b, e.done, d) /\ d = Len(b.cmds)
  <2>1. Len(b.cmds) \in Nat
    BY NextCommand
  <2>2. PICK d \in 0 .. Len(b.cmds) :
       /\ Ran(b, e.done, d)
       /\ (2 * d >= N \/ d = Len(b.cmds)) \/ (d < Len(b.cmds) /\ 2 * d + 1 >= N)
    BY <1>11 DEF Reached
  <2>3. d = Len(b.cmds)
    BY <2>1, <2>2
  <2> QED
    BY <2>2, <2>3
<1>13. e.done \in Seq(Results(b))
  BY <1>11 DEF Reached, Engines
<1>14. ProcessHWRenderBuffer(b, memory) = e.done
  BY <1>3, <1>11 DEF ProcessHWRenderBuffer, base, turns
<1> QED
  BY <1>12, <1>13, <1>14

(* The list of one element. *)
LEMMA SeqOfThat ==
  ASSUME NEW x
  PROVE  SetToSeq({x}) = <<x>>
<1>1. Cardinality({x}) = 1
  BY FS_Singleton
<1> DEFINE f == [i \in 1 .. 1 |-> x]
<1>2. f \in [1 .. 1 -> {x}] /\ IsInjective(f)
  BY DEF IsInjective
<1>3. SetToSeq({x}) = CHOOSE g \in [1 .. 1 -> {x}] : IsInjective(g)
  BY <1>1 DEF SetToSeq
<1>4. (CHOOSE g \in [1 .. 1 -> {x}] : IsInjective(g)) \in [1 .. 1 -> {x}]
  <2> HIDE DEF f
  <2> QED
    BY <1>2, Zenon
<1>5. PICK h \in [1 .. 1 -> {x}] : h = SetToSeq({x})
  BY <1>3, <1>4
<1>6. h = <<x>>
  OBVIOUS
<1> QED
  BY <1>5, <1>6

(* Lists of one element each, one behind the other.                        *)
LEMMA FlattenOnes ==
  ASSUME NEW T, NEW N \in Nat, NEW f \in Seq(T), Len(f) = N
  PROVE  FlattenSeq([n \in 1 .. N |-> <<f[n]>>]) = f
<1> DEFINE ones == [n \in 1 .. N |-> <<f[n]>>]
<1>1. ones \in Seq(Seq(T)) /\ Len(ones) = N
  <2>1. \A n \in 1 .. N : <<f[n]>> \in Seq(T)
    OBVIOUS
  <2> QED
    BY <2>1
<1>2. PICK g : FlatTrace(T, ones, g)
  <2> HIDE DEF ones
  <2> QED
    BY <1>1, FlattenTraced
<1>3. /\ g \in [0 .. N -> Seq(T)] /\ g[0] = << >> /\ FlattenSeq(ones) = g[N]
      /\ \A k \in 1 .. N : g[k] = g[k - 1] \o ones[k]
  <2> HIDE DEF ones
  <2> QED
    BY <1>1, <1>2 DEF FlatTrace
<1> DEFINE Same(s, k) == Len(s) = k /\ \A m \in 1 .. k : s[m] = f[m]
           Q == {k \in 0 .. N : Same(g[k], k)}
<1>4. 0 \in Q
  <2>1. Same(<< >>, 0)
    OBVIOUS
  <2> HIDE DEF Same
  <2> QED
    BY <2>1, <1>3
<1>5. ASSUME NEW k \in 1 .. N, k - 1 \in Q
      PROVE  k \in Q
  <2>1. k - 1 \in 0 .. N /\ k \in 0 .. N /\ k \in Nat
    OBVIOUS
  <2>2. PICK s \in Seq(T) : s = g[k - 1]
    BY <2>1, <1>3
  <2>3. Same(s, k - 1)
    <3> HIDE DEF Same
    <3> QED
      BY <2>2, <1>5
  <2>4. PICK x \in T : x = f[k]
    OBVIOUS
  <2>5. PICK t \in Seq(T) : t = Append(s, x)
    <3>1. Append(s, x) \in Seq(T)
      OBVIOUS
    <3> QED
      BY <3>1
  <2>6. s \o <<x>> = t
    BY <2>5
  <2>7. g[k] = t
    BY <2>2, <2>4, <2>6, <1>3
  <2>8. Len(t) = k /\ t[k] = f[k] /\ \A m \in 1 .. k - 1 : t[m] = f[m]
    BY <2>1, <2>3, <2>4, <2>5
  <2>9. Same(t, k)
    <3>1. \A m \in 1 .. k : m = k \/ m \in 1 .. k - 1
      OBVIOUS
    <3> QED
      BY <2>8, <3>1
  <2> HIDE DEF Same
  <2> QED
    BY <2>1, <2>7, <2>9
<1>6. \A k \in 0 .. N : k \in Q
  <2> HIDE DEF Q
  <2> QED
    BY <1>4, <1>5, Indices
<1>7. PICK s \in Seq(T) : s = g[N] /\ Same(s, N)
  <2>1. N \in Q /\ g[N] \in Seq(T)
    <3> HIDE DEF Q
    <3> QED
      BY <1>3, <1>6
  <2> HIDE DEF Same
  <2> QED
    BY <2>1
<1>8. s = f
  BY <1>7
<1> QED
  BY <1>3, <1>7, <1>8

(* Copies have one size and leave no gap. *)
LEMMA CopiesLie ==
  ASSUME NEW b, WellFilled(b), b.sw
  PROVE  /\ Len(b.cmds) \in Nat /\ b.pos \in Nat
         /\ \A c \in 1 .. Len(b.cmds) :
              /\ CommandOf(b, c).kind = "copy" /\ CommandOf(b, c).size = GpuCommandSize
              /\ Split(CommandOf(b, c)) = 0
              /\ b.cmds[c].at = c * GpuCommandSize
         /\ Len(b.cmds) # 0 => b.pos = (Len(b.cmds) + 1) * GpuCommandSize
         /\ Len(b.cmds) = 0 => b.pos <= GpuCommandSize
<1>1. PICK N \in Nat : N = Len(b.cmds)
  BY NextCommand
<1>2. ASSUME NEW c \in 1 .. N
      PROVE  /\ CommandOf(b, c).kind = "copy" /\ CommandOf(b, c).size = 8
             /\ Split(CommandOf(b, c)) = 0
  <2>1. /\ CommandFits(CommandOf(b, c)) /\ CommandOf(b, c).sw = b.sw
        /\ Described(CommandOf(b, c))
    BY <1>1, CommandsOf
  <2>2. CommandOf(b, c).kind = "copy"
    BY <2>1 DEF CommandFits
  <2> QED
    BY <2>1, <2>2 DEF Described, Split, GpuCommandSize
<1>3. Packed(b, recorded) /\ b \in Buffers /\ b.pos \in Nat
  BY DEF WellFilled, Addressed, Buffers
<1>4. \A c \in 1 .. N : b.cmds[c].at = Behind(b, recorded, c - 1)
  BY <1>1, <1>3 DEF Packed
<1>5. \A c \in 1 .. N : Behind(b, recorded, c) = b.cmds[c].at + 8
  <2> TAKE c \in 1 .. N
  <2>1. c # 0
    OBVIOUS
  <2>2. recorded[b.cmds[c].id].size = 8
    BY <1>2 DEF CommandOf
  <2> QED
    BY <2>1, <2>2 DEF Behind
<1>6. Behind(b, recorded, 0) = 8
  BY DEF Behind, GpuCommandSize
<1> DEFINE Q == {k \in 0 .. N : Behind(b, recorded, k) = (k + 1) * 8}
<1>7. 0 \in Q
  BY <1>6
<1>8. ASSUME NEW k \in 1 .. N, k - 1 \in Q
      PROVE  k \in Q
  <2>1. Behind(b, recorded, k - 1) = k * 8
    <3>1. Behind(b, recorded, k - 1) = ((k - 1) + 1) * 8
      BY <1>8
    <3>2. (k - 1) + 1 = k
      OBVIOUS
    <3> QED
      BY <3>1, <3>2
  <2>2. Behind(b, recorded, k) = k * 8 + 8
    BY <2>1, <1>4, <1>5
  <2> QED
    BY <2>2
<1>9. \A k \in 0 .. N : k \in Q
  <2> HIDE DEF Q
  <2> QED
    BY <1>7, <1>8, Indices
<1>10. \A c \in 1 .. N : b.cmds[c].at = c * 8
  <2> TAKE c \in 1 .. N
  <2>1. c - 1 \in 0 .. N /\ (c - 1) + 1 = c
    OBVIOUS
  <2>2. Behind(b, recorded, c - 1) = ((c - 1) + 1) * 8
    BY <2>1, <1>9
  <2> QED
    BY <2>1, <2>2, <1>4
<1>11. N # 0 => b.pos = (N + 1) * 8
  <2> SUFFICES ASSUME N # 0
               PROVE  b.pos = (N + 1) * 8
    OBVIOUS
  <2>1. b.cmds # << >>
    BY <1>1
  <2>2. b.pos = Behind(b, recorded, N)
    BY <2>1, <1>1, <1>3 DEF Packed
  <2> QED
    BY <2>2, <1>9
<1>12. N = 0 => b.pos <= 8
  <2> SUFFICES ASSUME N = 0
               PROVE  b.pos <= 8
    OBVIOUS
  <2>1. b.cmds = << >>
    <3>1. b.cmds \in Seq([id : Nat, at : Nat])
      BY <1>3 DEF Buffers
    <3> QED
      BY <3>1, <1>1
  <2> QED
    BY <2>1, <1>3 DEF Packed, GpuCommandSize
<1> QED
  BY <1>1, <1>2, <1>3, <1>10, <1>11, <1>12 DEF GpuCommandSize

(* A buffer of copies is executed as expected.                             *)
(* (CosKmdSoftAdapter::ProcessRenderBuffer.)                               *)
LEMMA SwIsExecuted ==
  ASSUME NEW b, WellFilled(b), b.sw, NEW memory, memory = PatchDmaBuffer(b)
  PROVE  /\ ProcessRenderBuffer(b, memory) \in Seq(Results(b))
         /\ Ran(b, ProcessRenderBuffer(b, memory), Len(b.cmds))
<1>1. PICK N \in Nat : N = Len(b.cmds)
  BY NextCommand
<1> DEFINE X(n) == {[id |-> command.id,
                     found |-> AddressesFound(n * GpuCommandSize, {2, 4}, memory)] :
                      command \in CommandsAt(b, n * GpuCommandSize)}
<1>2. ASSUME NEW n \in 1 .. N
      PROVE  SetToSeq(X(n)) = <<Result(b, n)>>
  <2>1. /\ CommandOf(b, n).kind = "copy" /\ CommandOf(b, n).size = GpuCommandSize
        /\ Split(CommandOf(b, n)) = 0
        /\ b.cmds[n].at = n * GpuCommandSize
    BY <1>1, CopiesLie
  <2>2. CommandsAt(b, Place(b, n)) = {Proper(b, n)}
    BY <1>1, SeenOnce
  <2>3. Place(b, n) = n * GpuCommandSize
    BY <2>1 DEF Place, CommandOf, GpuCommandSize
  <2>4. Proper(b, n).id = b.cmds[n].id
    BY DEF Proper
  <2>5. X(n) = {[id |-> b.cmds[n].id,
                 found |-> AddressesFound(n * GpuCommandSize, {2, 4}, memory)]}
    BY <2>2, <2>3, <2>4
  <2>6. AddressesFound(b.cmds[n].at, {2, 4}, memory) = CommandOf(b, n).expected
    <3>1. CommandOf(b, n).expected \subseteq Addresses({2, 4})
      <4>1. Described(CommandOf(b, n))
        BY <1>1, CommandsOf
      <4> QED
        BY <4>1, <2>1 DEF Described
    <3>2. PICK offsets \in SUBSET Nat : offsets = {2, 4} /\ \A o \in offsets : o < CommandOf(b, n).size
      <4>1. {2, 4} \in SUBSET Nat /\ \A o \in {2, 4} : o < 8
        OBVIOUS
      <4>2. CommandOf(b, n).size = 8
        BY <2>1 DEF GpuCommandSize
      <4> QED
        BY <4>1, <4>2
    <3>3. AddressesFound(b.cmds[n].at, offsets, memory) = CommandOf(b, n).expected
      BY <3>1, <3>2, <2>1, <1>1, AddressesAreFound
    <3> QED
      BY <3>2, <3>3
  <2>7. X(n) = {Result(b, n)}
    <3> HIDE DEF X
    <3> QED
      BY <2>1, <2>5, <2>6 DEF Result
  <2> HIDE DEF X
  <2> QED
    BY <2>7, SeqOfThat
<1> HIDE DEF X
<1>3. 1 .. b.pos \div GpuCommandSize - 1 = 1 .. N
  <2>1. /\ b.pos \in Nat
        /\ N # 0 => b.pos = (N + 1) * 8
        /\ N = 0 => b.pos <= 8
    BY <1>1, CopiesLie DEF GpuCommandSize
  <2>2. CASE N # 0
    <3>1. b.pos \div 8 = N + 1
      BY <2>1, <2>2
    <3> QED
      BY <3>1 DEF GpuCommandSize
  <2>3. CASE N = 0
    <3>1. b.pos \div 8 - 1 < 1
      BY <2>1, <2>3
    <3>2. 1 .. b.pos \div 8 - 1 = {}
      BY <3>1, <2>1
    <3> QED
      BY <3>2, <2>3 DEF GpuCommandSize
  <2> QED
    BY <2>2, <2>3
<1>4. PICK f \in Seq(Results(b)) : f = [n \in 1 .. N |-> Result(b, n)] /\ Len(f) = N
  <2>1. \A n \in 1 .. N : Result(b, n) \in Results(b)
    BY <1>1 DEF Results
  <2>2. [n \in 1 .. N |-> Result(b, n)] \in Seq(Results(b)) /\ Len([n \in 1 .. N |-> Result(b, n)]) = N
    BY <2>1
  <2> QED
    BY <2>2
<1>5. ProcessRenderBuffer(b, memory) = FlattenSeq([n \in 1 .. N |-> <<f[n]>>])
  <2>1. ProcessRenderBuffer(b, memory)
        = FlattenSeq([n \in 1 .. b.pos \div GpuCommandSize - 1 |-> SetToSeq(X(n))])
    BY DEF ProcessRenderBuffer, X
  <2>2. [n \in 1 .. b.pos \div GpuCommandSize - 1 |-> SetToSeq(X(n))] = [n \in 1 .. N |-> <<f[n]>>]
    BY <1>2, <1>3, <1>4
  <2> QED
    BY <2>1, <2>2
<1>6. ProcessRenderBuffer(b, memory) = f
  BY <1>4, <1>5, FlattenOnes
<1>7. Ran(b, f, N)
  BY <1>4 DEF Ran
<1> QED
  BY <1>1, <1>6, <1>7

-----------------------------------------------------------------------------
(* How many addresses there are. *)

(* The places in a command that an address is expected in.                 *)
Expectations(b, c) ==
  {b.cmds[c].at + Field(CommandOf(b, c), e) : e \in CommandOf(b, c).expected}
ExpectationsUpTo(b, k) == UNION {Expectations(b, c) : c \in 1 .. k}

LEMMA OnePlaceEach ==
  ASSUME NEW b, WellFilled(b), NEW c \in 1 .. Len(b.cmds)
  PROVE  /\ IsFiniteSet(Expectations(b, c))
         /\ Cardinality(Expectations(b, c)) \in Nat
         /\ Cardinality(CommandOf(b, c).expected) = Cardinality(Expectations(b, c))
<1> DEFINE E == CommandOf(b, c).expected
           T == Expectations(b, c)
           f == [e \in E |-> b.cmds[c].at + Field(CommandOf(b, c), e)]
<1>1. PICK at, size \in Nat : at = b.cmds[c].at /\ size = CommandOf(b, c).size
  BY CommandsOf
<1>2. /\ \A e \in E : Field(CommandOf(b, c), e) \in Nat /\ Field(CommandOf(b, c), e) < size
      /\ \A d, e \in E : Field(CommandOf(b, c), d) = Field(CommandOf(b, c), e) => d = e
  <2>1. Described(CommandOf(b, c))
    BY CommandsOf
  <2> QED
    BY <2>1, <1>1 DEF Described
<1>3. IsFiniteSet(T)
  <2>1. \A e \in E : at + Field(CommandOf(b, c), e) \in Nat
                     /\ at + Field(CommandOf(b, c), e) <= at + size
    BY <1>1, <1>2
  <2>2. PICK n \in Nat : n = at + size
    BY <1>1
  <2>3. PICK X \in SUBSET Nat : X = T /\ \A x \in X : x <= n
    <3>1. ASSUME NEW x \in T
          PROVE  x \in Nat /\ x <= n
      <4>1. PICK e \in E : x = b.cmds[c].at + Field(CommandOf(b, c), e)
        BY DEF Expectations
      <4> HIDE DEF E
      <4> QED
        BY <4>1, <2>1, <2>2, <1>1
    <3> HIDE DEF T
    <3> QED
      BY <3>1
  <2>4. IsFiniteSet(X)
    BY <2>3, FS_BoundedSetOfNaturals
  <2> QED
    BY <2>3, <2>4
<1>4. f \in [E -> T]
  BY DEF Expectations
<1>5. \A d, e \in E : f[d] = f[e] => d = e
  <2>1. \A k, l, m \in Nat : k + l = k + m => l = m
    OBVIOUS
  <2> QED
    BY <2>1, <1>1, <1>2
<1>6. \A t \in T : \E e \in E : f[e] = t
  BY DEF Expectations
<1> HIDE DEF E, T, f
<1>7. f \in Injection(E, T) /\ f \in Surjection(E, T)
  BY <1>4, <1>5, <1>6 DEF Injection, Surjection, IsInjective
<1>8. Cardinality(E) = Cardinality(T)
  BY <1>3, <1>7, FS_Injection
<1>9. Cardinality(T) \in Nat
  BY <1>3, FS_CardinalityType
<1> QED
  BY <1>3, <1>8, <1>9 DEF E, T

(* The kernel driver writes as many addresses as the commands expect.      *)
LEMMA AddressesCounted ==
  ASSUME NEW b, WellFilled(b)
  PROVE  Cardinality(DOMAIN PatchDmaBuffer(b))
           = Total([c \in 1 .. Len(b.cmds) |-> Cardinality(CommandOf(b, c).expected)])
<1>1. PICK N \in Nat : N = Len(b.cmds)
  BY NextCommand
<1>2. /\ b \in Buffers /\ LaidOut(b, recorded) /\ Addressed(b, recorded)
      /\ \A n \in 1 .. Len(recorded) : Described(recorded[n]) /\ CommandFits(recorded[n])
  BY DEF WellFilled, CommandsFit
<1>3. DOMAIN PatchDmaBuffer(b) = ExpectationsUpTo(b, N)
  <2>1. /\ \A at, alloc : Expected(b, recorded, at, alloc) =>
             at \in DOMAIN PatchDmaBuffer(b) /\ PatchDmaBuffer(b)[at] = alloc
        /\ \A at \in DOMAIN PatchDmaBuffer(b) : Expected(b, recorded, at, PatchDmaBuffer(b)[at])
    BY <1>2, MemoryIs, ZenonT(60)
  <2>2. ASSUME NEW at \in DOMAIN PatchDmaBuffer(b)
        PROVE  at \in ExpectationsUpTo(b, N)
    <3>1. Expected(b, recorded, at, PatchDmaBuffer(b)[at])
      BY <2>1
    <3>2. PICK c \in 1 .. N : \E e \in CommandOf(b, c).expected :
            at = b.cmds[c].at + Field(CommandOf(b, c), e)
      BY <3>1, <1>1 DEF Expected, CommandOf
    <3>3. at \in Expectations(b, c)
      BY <3>2 DEF Expectations
    <3> QED
      BY <3>3 DEF ExpectationsUpTo
  <2>3. ASSUME NEW at \in ExpectationsUpTo(b, N)
        PROVE  at \in DOMAIN PatchDmaBuffer(b)
    <3>1. PICK c \in 1 .. N : at \in Expectations(b, c)
      BY DEF ExpectationsUpTo
    <3>2. PICK e \in CommandOf(b, c).expected : at = b.cmds[c].at + Field(CommandOf(b, c), e)
      BY <3>1 DEF Expectations
    <3>3. Expected(b, recorded, at, e.alloc)
      BY <3>2, <1>1 DEF Expected, CommandOf
    <3> QED
      BY <3>3, <2>1
  <2> QED
    BY <2>2, <2>3
<1>4. ASSUME NEW c \in 1 .. N, NEW d \in 1 .. N, c # d
      PROVE  Expectations(b, c) \cap Expectations(b, d) = {}
  <2> SUFFICES ASSUME NEW at \in Expectations(b, c), at \in Expectations(b, d)
               PROVE  FALSE
    OBVIOUS
  <2>1. PICK e \in recorded[b.cmds[c].id].expected :
          at = b.cmds[c].at + Field(recorded[b.cmds[c].id], e)
    BY DEF Expectations, CommandOf
  <2>2. PICK f \in recorded[b.cmds[d].id].expected :
          at = b.cmds[d].at + Field(recorded[b.cmds[d].id], f)
    BY DEF Expectations, CommandOf
  <2>3. b.cmds[c].at + Field(recorded[b.cmds[c].id], e) = b.cmds[d].at + Field(recorded[b.cmds[d].id], f)
    BY <2>1, <2>2
  <2>4. c = d /\ e = f
    BY <2>3, <1>1, <1>2, PlacesApart, ZenonT(60)
  <2> QED
    BY <2>4, <1>4
<1>5. ASSUME NEW c \in 1 .. N
      PROVE  /\ IsFiniteSet(Expectations(b, c))
             /\ Cardinality(Expectations(b, c)) \in Nat
             /\ Cardinality(CommandOf(b, c).expected) = Cardinality(Expectations(b, c))
  BY <1>1, OnePlaceEach
<1>6. PICK s \in [1 .. N -> Nat] : s = [c \in 1 .. N |-> Cardinality(CommandOf(b, c).expected)]
  BY <1>5
<1>7. PICK g \in [0 .. N -> Nat] : g[0] = 0 /\ \A k \in 1 .. N : g[k] = g[k - 1] + s[k]
  BY SumsExist
<1> DEFINE Counted(k) == /\ IsFiniteSet(ExpectationsUpTo(b, k))
                         /\ Cardinality(ExpectationsUpTo(b, k)) = g[k]
           Q == {k \in 0 .. N : Counted(k)}
<1>8. 0 \in Q
  <2>1. ExpectationsUpTo(b, 0) = {}
    BY DEF ExpectationsUpTo
  <2>2. IsFiniteSet({}) /\ Cardinality({}) = 0
    BY FS_EmptySet
  <2>3. 0 \in 0 .. N
    OBVIOUS
  <2>4. Counted(0)
    BY <2>1, <2>2, <1>7
  <2> HIDE DEF Counted
  <2> QED
    BY <2>3, <2>4
<1>9. ASSUME NEW k \in 1 .. N, k - 1 \in Q
      PROVE  k \in Q
  <2>1. PICK X : X = ExpectationsUpTo(b, k - 1)
    OBVIOUS
  <2>2. PICK Y : Y = Expectations(b, k)
    OBVIOUS
  <2>3. IsFiniteSet(X) /\ Cardinality(X) = g[k - 1] /\ g[k - 1] \in Nat
    BY <2>1, <1>7, <1>9
  <2>4. IsFiniteSet(Y) /\ Cardinality(Y) \in Nat /\ Cardinality(Y) = s[k]
    BY <2>2, <1>5, <1>6
  <2>5. ExpectationsUpTo(b, k) = X \cup Y
    <3>1. \A c : c \in 1 .. k <=> c \in 1 .. k - 1 \/ c = k
      OBVIOUS
    <3>2. \A x : x \in ExpectationsUpTo(b, k) <=> \E c \in 1 .. k : x \in Expectations(b, c)
      BY DEF ExpectationsUpTo
    <3>3. \A x : x \in X <=> \E c \in 1 .. k - 1 : x \in Expectations(b, c)
      BY <2>1 DEF ExpectationsUpTo
    <3>4. \A x : x \in ExpectationsUpTo(b, k) <=> x \in X \/ x \in Y
      BY <3>1, <3>2, <3>3, <2>2
    <3> QED
      BY <3>4
  <2>6. X \cap Y = {}
    <3> SUFFICES ASSUME NEW x \in X, x \in Y
                 PROVE  FALSE
      OBVIOUS
    <3>1. PICK c \in 1 .. k - 1 : x \in Expectations(b, c)
      BY <2>1 DEF ExpectationsUpTo
    <3>2. c \in 1 .. N /\ c # k
      OBVIOUS
    <3> QED
      BY <3>1, <3>2, <1>4, <2>2
  <2>7. Cardinality(X \cap Y) = 0
    BY <2>6, FS_EmptySet
  <2>8. /\ IsFiniteSet(X \cup Y)
        /\ Cardinality(X \cup Y) = Cardinality(X) + Cardinality(Y) - Cardinality(X \cap Y)
    BY <2>3, <2>4, FS_Union
  <2>9. Cardinality(X \cup Y) = g[k]
    BY <2>3, <2>4, <2>7, <2>8, <1>7
  <2>10. Counted(k)
    BY <2>5, <2>8, <2>9
  <2> HIDE DEF Counted
  <2> QED
    BY <2>10
<1>10. \A k \in 0 .. N : k \in Q
  <2> HIDE DEF Q
  <2> QED
    BY <1>8, <1>9, Indices
<1>11. Cardinality(ExpectationsUpTo(b, N)) = g[N]
  BY <1>10
<1>12. Total(s) = g[N]
  BY <1>7, TotalIs
<1> QED
  BY <1>1, <1>3, <1>6, <1>11, <1>12

-----------------------------------------------------------------------------
(* Patch locations, all in all. *)

(* What is left of the property, for one buffer.                           *)
Sound(b) ==
  /\ ValidateDmaBuffer(b)
  /\ Processed(b) = [c \in DOMAIN b.cmds |->
                       [id |-> b.cmds[c].id, found |-> recorded[b.cmds[c].id].expected]]
  /\ Cardinality(DOMAIN PatchDmaBuffer(b)) =
       Total([c \in DOMAIN Processed(b) |-> Cardinality(Processed(b)[c].found)])

LEMMA BufferIsSound ==
  ASSUME NEW b, WellFilled(b)
  PROVE  Sound(b)
<1>1. b \in Buffers /\ b.sw \in BOOLEAN /\ Patched(b, recorded) /\ DOMAIN b.cmds = 1 .. Len(b.cmds)
  BY CommandsAre DEF WellFilled, Addressed, Buffers
<1>2. ValidateDmaBuffer(b)
  <2>1. \A k \in 1 .. Len(b.patches) : b.patches[k].index \in 1 .. Len(b.allocs)
    BY <1>1 DEF Patched, Names
  <2>2. Len(b.allocs) \in Nat
    BY <1>1 DEF Buffers
  <2>3. \A k \in 1 .. Len(b.patches) : b.patches[k].index <= Len(b.allocs)
    BY <2>1, <2>2
  <2>4. \A p \in ToSet(b.patches) : \E k \in 1 .. Len(b.patches) : p = b.patches[k]
    <3>1. b.patches \in Seq(PatchLocations)
      BY <1>1 DEF Buffers
    <3> QED
      BY <3>1 DEF ToSet
  <2> QED
    BY <2>3, <2>4 DEF ValidateDmaBuffer
<1>3. PICK N \in Nat : N = Len(b.cmds)
  BY NextCommand
<1>4. PICK done \in Seq(Results(b)) : done = Processed(b) /\ Ran(b, done, N)
  <2>1. PICK memory : memory = PatchDmaBuffer(b)
    OBVIOUS
  <2>2. CASE b.sw
    BY <2>1, <2>2, <1>3, SwIsExecuted DEF Processed
  <2>3. CASE ~ b.sw
    BY <2>1, <2>3, <1>3, HwIsExecuted DEF Processed
  <2> QED
    BY <2>2, <2>3, <1>1
<1>5. Len(done) = N /\ DOMAIN done = 1 .. N /\ \A c \in 1 .. N : done[c] = Result(b, c)
  BY <1>4 DEF Ran
<1>6. done = [c \in 1 .. N |-> [id |-> b.cmds[c].id, found |-> recorded[b.cmds[c].id].expected]]
  BY <1>5 DEF Result, CommandOf
<1>7. [c \in DOMAIN done |-> Cardinality(done[c].found)]
      = [c \in 1 .. N |-> Cardinality(CommandOf(b, c).expected)]
  <2>1. \A c \in 1 .. N : done[c].found = CommandOf(b, c).expected
    BY <1>5 DEF Result
  <2> QED
    BY <2>1, <1>5
<1>8. Cardinality(DOMAIN PatchDmaBuffer(b))
        = Total([c \in DOMAIN done |-> Cardinality(done[c].found)])
  BY <1>3, <1>7, AddressesCounted
<1> QED
  BY <1>1, <1>2, <1>3, <1>4, <1>6, <1>8 DEF Sound

(* A command buffer that a list holds is as its invariants have it.        *)
LEMMA BuffersWellFilled ==
  ASSUME ListInv, OrderInv, AddressInv, NEW i \in DOMAIN CommandBuffers
  PROVE  WellFilled(CommandBuffers[i])
<1>1. PICK s \in Seq(Buffers) : s = m_filledCommandBuffers
  BY DEF ListInv, BuffersInv
<1>2. PICK b \in Buffers : b = m_pCurCommandBuffer
  BY DEF ListInv, BuffersInv, BufferFits
<1>3. /\ CommandsFit /\ \A n \in 1 .. Len(recorded) : Described(recorded[n])
      /\ LaidOut(b, recorded) /\ Addressed(b, recorded)
      /\ \A k \in 1 .. Len(s) : LaidOut(s[k], recorded) /\ Addressed(s[k], recorded)
  BY <1>1, <1>2 DEF OrderInv, Holds, AddressInv, AddressesHeld, CommandsFit
<1>4. WellFilled(b) /\ \A k \in 1 .. Len(s) : WellFilled(s[k])
  BY <1>3 DEF WellFilled
<1>5. CASE m_pCurCommandBuffer = Null
  <2>1. CommandBuffers = s
    BY <1>5, <1>1 DEF CommandBuffers
  <2> QED
    BY <2>1, <1>4
<1>6. CASE m_pCurCommandBuffer # Null
  <2>1. CommandBuffers = Append(s, b)
    BY <1>6, <1>1, <1>2 DEF CommandBuffers
  <2>2. i \in 1 .. Len(s) + 1
    BY <2>1
  <2>3. CASE i \in 1 .. Len(s)
    <3>1. Append(s, b)[i] = s[i]
      BY <2>3
    <3> QED
      BY <3>1, <2>1, <2>3, <1>4
  <2>4. CASE i = Len(s) + 1
    <3>1. Append(s, b)[i] = b
      BY <2>4
    <3> QED
      BY <3>1, <2>1, <1>4
  <2> QED
    BY <2>2, <2>3, <2>4
<1> QED
  BY <1>5, <1>6

(* Wherever a command ends up, the engine executes it and finds in each of *)
(* its registers and address fields the allocation that the application    *)
(* bound to it when the command was recorded, and the kernel driver writes *)
(* an address nowhere else: for every root signature whose registers are   *)
(* named once, every binding, every mix of commands and every size of the  *)
(* buffers.  (WriteHWRootSignature, SetPatchLocation,                      *)
(* CosKmAdapter::PatchDmaBuffer, CosKmdSoftAdapter::ProcessRenderBuffer    *)
(* and ProcessHWRenderBuffer.)                                             *)
THEOREM PatchesAreRight == Spec => []PatchesNameTheirAllocation
<1>1. ListInv /\ OrderInv /\ AddressInv => PatchesNameTheirAllocation
  <2> SUFFICES ASSUME ListInv, OrderInv, AddressInv
               PROVE  PatchesNameTheirAllocation
    OBVIOUS
  <2>1. \A i \in DOMAIN CommandBuffers : Sound(CommandBuffers[i])
    BY BuffersWellFilled, BufferIsSound
  <2> QED
    BY <2>1 DEF PatchesNameTheirAllocation, Sound
<1> QED
  BY <1>1, ListSteps, AddressSteps, PTL DEF Spec
=============================================================================
