------------------------- MODULE RosKmdDmaBufProofs -------------------------
(***************************************************************************)
(* Whatever VidMm evicts, moves and maps between Render and execution, the *)
(* buffers of RosKmdDmaBuf are executed on their own data, for any number  *)
(* of allocations, places and buffers, any commands and any capacities.    *)
(*                                                                         *)
(* The invariant plays the queue ahead: it names the memory that each      *)
(* submission will find when its turn comes, and VidMm's places are those  *)
(* at the end.  ProcessPagingBuffer folds over a sequence of operations;   *)
(* what a fold computes is proved by induction over sets of numbers, which *)
(* the least element of a set of numbers provides.                         *)
(***************************************************************************)
EXTENDS RosKmdDmaBuf, FiniteSetTheorems, TLAPS

-----------------------------------------------------------------------------
(* Numbers. *)

(* A set of numbers has a least one: the loops of the driver end at a      *)
(* first index.                                                            *)
LEMMA LeastNumber ==
  ASSUME NEW T, T \subseteq Nat, T # {}
  PROVE  \E x \in T : \A y \in T : x <= y
<1>1. PICK t \in T : TRUE
  OBVIOUS
<1> DEFINE S == 0 .. t
           R == StrictSubsetOrdering(S)
           F == {0 .. k : k \in {k \in T : k <= t}}
<1>2. IsFiniteSet(S)
  BY FS_Interval
<1>3. IsWellFoundedOn(R, FiniteSubsetsOf(S))
  BY FS_StrictSubsetOrderingWellFounded
<1>4. FiniteSubsetsOf(S) = SUBSET S
  BY <1>2, FS_FiniteSubsetsOfFinite
<1>5. F \subseteq SUBSET S
  OBVIOUS
<1>6. F # {}
  BY <1>1
<1>7. PICK m \in F : \A y \in F : ~ (<<y, m>> \in R)
  <2> HIDE DEF F, R, S
  <2> QED
    BY <1>3, <1>4, <1>5, <1>6, WFMin
<1>8. PICK k \in T : k <= t /\ m = 0 .. k
  OBVIOUS
<1>9. ASSUME NEW j \in T
      PROVE  k <= j
  <2> SUFFICES ASSUME j < k
               PROVE  FALSE
    BY <1>8
  <2>1. 0 .. j \in F
    BY <1>8
  <2>2. 0 .. j \subseteq 0 .. k /\ 0 .. j # 0 .. k
    <3>1. k \in 0 .. k /\ k \notin 0 .. j
      OBVIOUS
    <3> QED
      BY <3>1
  <2>3. <<0 .. j, m>> \in R
    BY <2>1, <2>2, <1>5, <1>8 DEF StrictSubsetOrdering
  <2> QED
    BY <2>1, <2>3, <1>7
<1> QED
  BY <1>9, <1>8

(* Induction over the indices of a list, for a set of indices. *)
LEMMA Indices ==
  ASSUME NEW n \in Nat, NEW Q, 0 \in Q, \A k \in 1 .. n : k - 1 \in Q => k \in Q
  PROVE  \A k \in 0 .. n : k \in Q
<1> DEFINE Bad == {k \in 0 .. n : k \notin Q}
<1> SUFFICES ASSUME Bad # {}
             PROVE  FALSE
  OBVIOUS
<1>1. PICK k \in Bad : \A j \in Bad : k <= j
  <2>1. Bad \subseteq Nat
    OBVIOUS
  <2> HIDE DEF Bad
  <2> QED
    BY <2>1, LeastNumber
<1>2. k \in 1 .. n /\ k - 1 \in 0 .. n
  BY <1>1
<1>3. k - 1 \notin Bad
  <2> HIDE DEF Bad
  <2> QED
    BY <1>1, <1>2
<1> QED
  BY <1>1, <1>2, <1>3

(* What the folds of ValidateDmaBuffer and ProcessPagingBuffer take for    *)
(* the greatest of some indices is the greatest.                           *)
LEMMA MaxIs ==
  ASSUME NEW S \in SUBSET Nat, NEW m \in S, \A k \in S : k <= m
  PROVE  Max(S) = m
<1>1. \E x \in S : \A y \in S : x >= y
  OBVIOUS
<1>2. Max(S) \in S /\ \A k \in S : Max(S) >= k
  BY <1>1 DEF Max
<1>3. Max(S) >= m /\ Max(S) <= m /\ Max(S) \in Nat /\ m \in Nat
  BY <1>2
<1> QED
  BY <1>3

(* A set of indices has a greatest one. *)
LEMMA MaxExists ==
  ASSUME NEW n \in Nat, NEW s \in SUBSET (0 .. n), s # {}
  PROVE  Max(s) \in s
<1> DEFINE T == {k \in Nat : \A j \in s : j <= k}
<1>1. n \in T
  OBVIOUS
<1>2. PICK m \in T : \A k \in T : m <= k
  <2>1. T \subseteq Nat /\ T # {}
    BY <1>1
  <2> HIDE DEF T
  <2> QED
    BY <2>1, LeastNumber
<1>3. m \in Nat /\ \A j \in s : j <= m
  OBVIOUS
<1>4. m \in s
  <2> SUFFICES ASSUME m \notin s
               PROVE  FALSE
    OBVIOUS
  <2>1. PICK j \in s : TRUE
    OBVIOUS
  <2>2. j < m /\ m # 0
    BY <1>3, <2>1
  <2>3. \A i \in s : i <= m - 1
    BY <1>3
  <2>4. m - 1 \in T
    BY <2>2, <2>3, <1>3
  <2> QED
    BY <2>4, <1>2
<1>5. s \in SUBSET Nat
  OBVIOUS
<1> QED
  BY <1>3, <1>4, <1>5, MaxIs

-----------------------------------------------------------------------------
(* The fold of ProcessPagingBuffer. *)

(* f is the function that FoldLeft chooses, for indices up to n. *)
Folded(base, s, n, f) ==
  f = [I \in SUBSET (1 .. n) |->
         IF I = {} THEN base ELSE Perform(f[I \ {Max(I)}], s[Max(I)])]

(* It exists: the loop of ProcessPagingBuffer over the operations ends. *)
LEMMA FoldExists ==
  ASSUME NEW base, NEW s, NEW N \in Nat
  PROVE  \E f : Folded(base, s, N, f)
<1> DEFINE Q == {n \in Nat : \E f : Folded(base, s, n, f)}
<1>1. 0 \in Q
  <2>1. Folded(base, s, 0, [I \in SUBSET (1 .. 0) |-> base])
    <3>1. SUBSET (1 .. 0) = {{}}
      OBVIOUS
    <3> QED
      BY <3>1 DEF Folded
  <2> QED
    BY <2>1
<1>2. ASSUME NEW n \in 1 .. N, n - 1 \in Q
      PROVE  n \in Q
  <2>1. PICK f : Folded(base, s, n - 1, f)
    BY <1>2
  <2> DEFINE g == [I \in SUBSET (1 .. n) |->
                     IF n \in I THEN Perform(f[I \ {n}], s[n]) ELSE f[I]]
             h == [I \in SUBSET (1 .. n) |->
                     IF I = {} THEN base ELSE Perform(g[I \ {Max(I)}], s[Max(I)])]
  <2>2. ASSUME NEW I \in SUBSET (1 .. n)
        PROVE  g[I] = IF I = {} THEN base ELSE Perform(g[I \ {Max(I)}], s[Max(I)])
    <3>1. CASE n \in I
      <4>1. Max(I) = n
        BY <3>1, MaxIs
      <4>2. I \ {n} \in SUBSET (1 .. n) /\ n \notin I \ {n}
        OBVIOUS
      <4>3. g[I \ {n}] = f[I \ {n}]
        BY <4>2
      <4>4. g[I] = Perform(f[I \ {n}], s[n])
        BY <3>1
      <4> QED
        BY <4>1, <4>3, <4>4, <3>1
    <3>2. CASE n \notin I
      <4>1. I \in SUBSET (1 .. n - 1)
        BY <3>2
      <4>2. g[I] = f[I]
        BY <3>2
      <4>3. f[I] = IF I = {} THEN base ELSE Perform(f[I \ {Max(I)}], s[Max(I)])
        BY <4>1, <2>1 DEF Folded
      <4>4. I \ {Max(I)} \in SUBSET (1 .. n) /\ n \notin I \ {Max(I)}
        BY <3>2
      <4>5. g[I \ {Max(I)}] = f[I \ {Max(I)}]
        BY <4>4
      <4> QED
        BY <4>2, <4>3, <4>5
    <3> QED
      BY <3>1, <3>2
  <2>3. DOMAIN g = SUBSET (1 .. n) /\ g = [I \in SUBSET (1 .. n) |-> g[I]]
    OBVIOUS
  <2>4. g = h
    <3> HIDE DEF g
    <3>1. \A I \in SUBSET (1 .. n) : g[I] = h[I]
      BY <2>2
    <3> QED
      BY <2>3, <3>1
  <2>5. Folded(base, s, n, g)
    BY <2>4 DEF Folded
  <2> QED
    BY <2>5
<1>3. \A n \in 0 .. N : n \in Q
  <2> HIDE DEF Q
  <2> QED
    BY <1>1, <1>2, Indices
<1> QED
  BY <1>3

(* A trace of memory states: what ProcessPagingBuffer goes through.  An    *)
(* operation is legal when it brings an allocation to a place without      *)
(* data, or fetches one from the place that has its data.                  *)
Operations == [op : {"in", "out"}, alloc : Allocations, place : Places]
MemoryStates == [memory : [Places -> Allocations \cup {None}], backing : SUBSET Allocations]
Legal(m, op) ==
  IF op.op = "in" THEN m.memory[op.place] = None ELSE m.memory[op.place] = op.alloc

Trace(g, s) == \A k \in 1 .. Len(s) : Legal(g[k - 1], s[k]) /\ g[k] = Perform(g[k - 1], s[k])
Plays(m, s, e) == \E g : Trace(g, s) /\ g[0] = m /\ g[Len(s)] = e

(* The fold goes through the operations from the first to the last: it     *)
(* ends where the trace ends.                                              *)
LEMMA PlaysIsFold ==
  ASSUME NEW m, NEW s \in Seq(Operations), NEW e, Plays(m, s, e)
  PROVE  FoldLeft(Perform, m, s) = e
<1> DEFINE n == Len(s)
           Chosen == CHOOSE f : Folded(m, s, n, f)
<1>1. n \in Nat /\ DOMAIN s = 1 .. n
  OBVIOUS
<1>2. FoldLeft(Perform, m, s) =
       (CHOOSE f : f = [I \in SUBSET DOMAIN s |->
                          IF I = {} THEN m ELSE Perform(f[I \ {Max(I)}], s[Max(I)])])[DOMAIN s]
  BY DEF FoldLeft, MapThenFoldSet
<1>3. FoldLeft(Perform, m, s) = Chosen[1 .. n]
  BY <1>1, <1>2 DEF Folded
<1>4. Folded(m, s, n, Chosen)
  BY <1>1, FoldExists
<1>5. PICK g : Trace(g, s) /\ g[0] = m /\ g[n] = e
  BY DEF Plays
<1> DEFINE Q == {k \in 0 .. n : Chosen[1 .. k] = g[k]}
<1> HIDE DEF Chosen
<1>6. 0 \in Q
  <2>1. 1 .. 0 = {} /\ {} \in SUBSET (1 .. n)
    OBVIOUS
  <2> QED
    BY <1>1, <1>4, <1>5, <2>1 DEF Folded
<1>7. ASSUME NEW k \in 1 .. n, k - 1 \in Q
      PROVE  k \in Q
  <2>1. Max(1 .. k) = k
    BY MaxIs
  <2>2. (1 .. k) \ {k} = 1 .. k - 1 /\ 1 .. k # {} /\ 1 .. k \in SUBSET (1 .. n)
    <3>1. k \in 1 .. k /\ k <= n /\ 1 .. k \subseteq 1 .. n
      BY <1>1
    <3>2. ASSUME NEW j
          PROVE  j \in (1 .. k) \ {k} <=> j \in 1 .. k - 1
      OBVIOUS
    <3> QED
      BY <3>1, <3>2
  <2>3. Chosen[1 .. k] = Perform(Chosen[1 .. k - 1], s[k])
    BY <1>4, <2>1, <2>2 DEF Folded
  <2>4. Chosen[1 .. k - 1] = g[k - 1]
    BY <1>7
  <2>5. g[k] = Perform(g[k - 1], s[k])
    BY <1>5 DEF Trace
  <2> QED
    BY <2>3, <2>4, <2>5
<1>8. \A k \in 0 .. n : k \in Q
  <2> HIDE DEF Q
  <2> QED
    BY <1>1, <1>6, <1>7, Indices
<1>9. n \in 0 .. n
  BY <1>1
<1> QED
  BY <1>3, <1>5, <1>8, <1>9

(* A paging buffer without operations does nothing. *)
LEMMA PlaysNothing ==
  ASSUME NEW m
  PROVE  Plays(m, << >>, m)
<1>1. Trace([k \in {0} |-> m], << >>)
  BY DEF Trace
<1> QED
  BY <1>1 DEF Plays

(* BuildPagingBuffer adds an operation that is legal at the end. *)
LEMMA PlaysAppend ==
  ASSUME NEW m, NEW s \in Seq(Operations), NEW e, Plays(m, s, e),
         NEW op \in Operations, Legal(e, op)
  PROVE  Plays(m, Append(s, op), Perform(e, op))
<1> DEFINE n == Len(s)
           t == Append(s, op)
<1>1. PICK g : Trace(g, s) /\ g[0] = m /\ g[n] = e
  BY DEF Plays
<1> DEFINE h == [k \in 0 .. n + 1 |-> IF k = n + 1 THEN Perform(e, op) ELSE g[k]]
<1>2. n \in Nat /\ Len(t) = n + 1 /\ t[n + 1] = op /\ \A k \in 1 .. n : t[k] = s[k]
  OBVIOUS
<1>3. h[0] = m /\ h[n] = e /\ h[n + 1] = Perform(e, op) /\ \A k \in 0 .. n : h[k] = g[k]
  BY <1>1, <1>2
<1>4. ASSUME NEW k \in 1 .. n + 1
      PROVE  Legal(h[k - 1], t[k]) /\ h[k] = Perform(h[k - 1], t[k])
  <2>1. CASE k = n + 1
    <3>1. k - 1 = n
      BY <2>1, <1>2
    <3> QED
      BY <2>1, <3>1, <1>2, <1>3
  <2>2. CASE k # n + 1
    <3>1. k \in 1 .. n /\ k - 1 \in 0 .. n /\ k \in 0 .. n
      BY <2>2, <1>2
    <3>2. h[k] = g[k] /\ h[k - 1] = g[k - 1] /\ t[k] = s[k]
      BY <3>1, <1>2, <1>3
    <3>3. Legal(g[k - 1], s[k]) /\ g[k] = Perform(g[k - 1], s[k])
      BY <3>1, <1>1 DEF Trace
    <3> QED
      BY <3>2, <3>3
  <2> QED
    BY <2>1, <2>2
<1>5. Trace(h, t)
  BY <1>2, <1>4 DEF Trace
<1> HIDE DEF h, t
<1> QED
  BY <1>2, <1>3, <1>5 DEF Plays, t

(* A state of memory in which no data is lost. *)
Sound(m) ==
  /\ m \in MemoryStates
  /\ \A a \in Allocations : a \in m.backing \/ \E p \in Places : m.memory[p] = a

(* No legal operation of ProcessPagingBuffer loses data. *)
LEMMA PerformSound ==
  ASSUME NEW m, Sound(m), NEW op \in Operations, Legal(m, op)
  PROVE  Sound(Perform(m, op))
<1> DEFINE e == Perform(m, op)
<1>0. op.place \in Places /\ op.alloc \in Allocations /\ op.op \in {"in", "out"}
  BY DEF Operations
<1>1. m.memory \in [Places -> Allocations \cup {None}] /\ m.backing \in SUBSET Allocations
  BY DEF Sound, MemoryStates
<1>2. CASE op.op = "in"
  <2>1. e = [memory |-> [m.memory EXCEPT ![op.place] = op.alloc],
             backing |-> m.backing \ {op.alloc}]
    BY <1>2 DEF Perform
  <2>2. e.memory = [m.memory EXCEPT ![op.place] = op.alloc] /\ e.backing = m.backing \ {op.alloc}
    BY <2>1
  <2>3. e \in MemoryStates
    BY <2>1, <1>0, <1>1 DEF MemoryStates
  <2>4. ASSUME NEW a \in Allocations
        PROVE  a \in e.backing \/ \E p \in Places : e.memory[p] = a
    <3>1. m.memory[op.place] # a
      BY <1>2, ConstantsAssumption DEF Legal
    <3>2. CASE a = op.alloc
      BY <3>2, <2>2, <1>0, <1>1
    <3>3. CASE a # op.alloc /\ a \in m.backing
      BY <3>3, <2>2
    <3>4. CASE \E p \in Places : m.memory[p] = a
      BY <3>1, <3>4, <2>2, <1>0, <1>1
    <3> QED
      BY <3>2, <3>3, <3>4 DEF Sound
  <2>5. Sound(e)
    <3> HIDE DEF e
    <3> QED
      BY <2>3, <2>4 DEF Sound
  <2> QED
    BY <2>5
<1>3. CASE op.op = "out"
  <2>1. m.memory[op.place] = op.alloc
    BY <1>3 DEF Legal
  <2>2. e = [memory |-> [m.memory EXCEPT ![op.place] = None],
             backing |-> m.backing \cup {op.alloc}]
    BY <1>3, <2>1 DEF Perform
  <2>3. e.memory = [m.memory EXCEPT ![op.place] = None] /\ e.backing = m.backing \cup {op.alloc}
    BY <2>2
  <2>4. e \in MemoryStates
    BY <2>2, <1>0, <1>1 DEF MemoryStates
  <2>5. ASSUME NEW a \in Allocations
        PROVE  a \in e.backing \/ \E p \in Places : e.memory[p] = a
    <3>1. CASE a = op.alloc \/ a \in m.backing
      BY <3>1, <2>3
    <3>2. CASE a # op.alloc /\ \E p \in Places : m.memory[p] = a
      BY <3>2, <2>1, <2>3, <1>0, <1>1
    <3> QED
      BY <3>1, <3>2 DEF Sound
  <2>6. Sound(e)
    <3> HIDE DEF e
    <3> QED
      BY <2>4, <2>5 DEF Sound
  <2> QED
    BY <2>6
<1> QED
  BY <1>0, <1>2, <1>3

-----------------------------------------------------------------------------
(* The inductive invariant. *)

(* The submissions in the order of their execution. *)
Held == IF running = None THEN m_dmaBufQueue ELSE <<running>> \o m_dmaBufQueue

Infos ==
  [m_bPaging : BOOLEAN, m_bSwCommandBuffer : BOOLEAN, m_HasVC4ClearColors : BOOLEAN,
   refs : SUBSET UniqueSlots, selfRefs : SUBSET Nat, m_pRenderTarget : Allocations \cup {None},
   m_RenderTargetPhysicalAddress : Places \cup {None},
   m_DmaBufferPhysicalAddress : ApertureOffsets \cup {None}]

Uses == [state : {"free", "rendered", "building", "submitted"}, cmd : Commands \cup {None}]

TypesInv ==
  /\ m_DmaBufInfo \in [Buffers -> Infos]
  /\ DOMAIN content = Buffers
  /\ m_aperturePageTable \in [ApertureOffsets -> RenderBuffers \cup {None}]
  /\ m_dmaBufQueue \in Seq(Submissions)
  /\ running \in Submissions \cup {None}
  /\ place \in [Allocations -> Places \cup {None}]
  /\ dma \in [Buffers -> Uses]
  /\ DOMAIN known = RenderBuffers

(* The worker and the queue hold each submitted buffer once. *)
QueueInv ==
  /\ \A i, j \in 1 .. Len(Held) : Held[i].buf = Held[j].buf => i = j
  /\ \A i \in 1 .. Len(Held) : dma[Held[i].buf].state = "submitted"
  /\ \A d \in Buffers : dma[d].state = "submitted" => \E i \in 1 .. Len(Held) : Held[i].buf = d

(* The private data says what the command buffer says. *)
InfoFits(info, cmd) ==
  /\ info.m_bSwCommandBuffer = cmd.sw
  /\ info.m_HasVC4ClearColors = cmd.clears
  /\ info.refs = IF cmd.sw THEN {} ELSE UniqueSlots
  /\ info.selfRefs = {i \in DOMAIN cmd.patches : ~cmd.sw /\ cmd.patches[i].slot = "self"}
  /\ ~cmd.sw => /\ \E i \in DOMAIN cmd.patches : cmd.patches[i].slot = "rt"
                /\ \A i \in DOMAIN cmd.patches :
                     cmd.patches[i].slot = "rt" => cmd.patches[i].alloc = info.m_pRenderTarget

(* The addresses in it are the places it is known to have been patched     *)
(* with, of the allocations that had one.                                  *)
AsKnown(cmd, info, fields, places) ==
  \A i \in DOMAIN cmd.patches :
    LET p == cmd.patches[i] IN
    places[p.alloc] # None =>
      /\ cmd.sw \/ p.slot = "default" => fields[i] = places[p.alloc]
      /\ ~cmd.sw /\ p.slot = "rt" => info.m_RenderTargetPhysicalAddress = places[p.alloc]

(* In this memory the addresses lead to the data of the allocations. *)
ReadsOwn(cmd, info, fields, mem) ==
  \A i \in DOMAIN cmd.patches :
    LET p == cmd.patches[i] IN
    /\ cmd.sw \/ p.slot = "default" => fields[i] \in Places /\ mem[fields[i]] = p.alloc
    /\ ~cmd.sw /\ p.slot = "rt" =>
         /\ info.m_RenderTargetPhysicalAddress \in Places
         /\ mem[info.m_RenderTargetPhysicalAddress] = p.alloc

RefersToItself(d, cmd, fields) ==
  \A i \in DOMAIN cmd.patches : ~cmd.sw /\ cmd.patches[i].slot = "self" => fields[i] = d

RenderFits(use, info, fields, places) ==
  /\ use.state \in {"free", "rendered", "submitted"}
  /\ ~info.m_bPaging
  /\ Cardinality(info.selfRefs) <= MaxSelfRef
  /\ use.state # "free" =>
       /\ use.cmd \in Commands
       /\ DOMAIN fields = DOMAIN use.cmd.patches
       /\ InfoFits(info, use.cmd)
  /\ use.state = "rendered" => AsKnown(use.cmd, info, fields, places)

PagingFits(use, info, fields) ==
  /\ use.state \in {"free", "building", "submitted"}
  /\ Cardinality(info.selfRefs) <= MaxSelfRef
  /\ fields \in Seq(Operations)
  /\ use.state = "free" <=> fields = << >>
  /\ use.state # "free" => info.m_bPaging

BufferInv ==
  /\ \A d \in RenderBuffers : RenderFits(dma[d], m_DmaBufInfo[d], content[d], known[d])
  /\ \A d \in PagingBuffers : PagingFits(dma[d], m_DmaBufInfo[d], content[d])
  /\ \A d, e \in PagingBuffers : dma[d].state = "building" /\ dma[e].state = "building" => d = e

(* A prepared buffer keeps its page of the aperture. *)
PageInv ==
  \A i \in 1 .. Len(Held), d \in RenderBuffers :
    Held[i].buf = d /\ ~Held[i].failed =>
      Aperture(d) # {} /\ RefersToItself(d, dma[d].cmd, content[d])

(* The memory before and after a submission is executed. *)
Executes(s, cmd, info, fields, m, e) ==
  IF s.buf \in PagingBuffers
    THEN Plays(m, fields, e)
    ELSE e = m /\ (~s.failed => ReadsOwn(cmd, info, fields, m.memory))

Now == [memory |-> memory, backing |-> backing]

ExecutesInTurn(T) ==
  \A i \in 1 .. Len(Held) :
    LET d == Held[i].buf IN
    Executes(Held[i], dma[d].cmd, m_DmaBufInfo[d], content[d], T[i - 1], T[i])

(* The operations of the paging buffer that is being built lead from m to  *)
(* e.                                                                      *)
BuildsTo(m, e) ==
  /\ \A d \in PagingBuffers : dma[d].state = "building" => Plays(m, content[d], e)
  /\ (\A d \in PagingBuffers : dma[d].state # "building") => e = m

(* Allocations are where VidMm has them. *)
PlacedAt(mem) == \A a \in Allocations, p \in Places : place[a] = p <=> mem[p] = a

(* T is the memory between the submissions, e is the memory at the end,    *)
(* when all that VidMm has asked for has been done.                        *)
Ahead(T, e) ==
  /\ T[0] = Now
  /\ \A i \in 0 .. Len(Held) : Sound(T[i])
  /\ ExecutesInTurn(T)
  /\ BuildsTo(T[Len(Held)], e)
  /\ Sound(e)
  /\ PlacedAt(e.memory)

TimeInv == \E T, e : Ahead(T, e)

DmaBufInv == TypesInv /\ QueueInv /\ BufferInv /\ PageInv /\ TimeInv

-----------------------------------------------------------------------------
(* What follows from it. *)

(* The worker's submission is the first of those held. *)
LEMMA RunningIsFirst ==
  ASSUME TypesInv, running # None
  PROVE  Len(Held) \in Nat \ {0} /\ Held[1] = running /\ running \in Submissions
BY DEF Held, TypesInv

(* The submissions are in the sequence's range. *)
LEMMA HeldType ==
  ASSUME TypesInv
  PROVE  /\ Held \in Seq(Submissions) /\ Len(Held) \in Nat /\ DOMAIN Held = 1 .. Len(Held)
         /\ \A i \in 1 .. Len(Held) : Held[i].buf \in Buffers
<1>1. Held \in Seq(Submissions)
  BY DEF Held, TypesInv
<1>2. ASSUME NEW i \in 1 .. Len(Held)
      PROVE  Held[i].buf \in Buffers
  <2>1. Held[i] \in Submissions
    BY <1>1
  <2> QED
    BY <2>1 DEF Submissions
<1> QED
  BY <1>1, <1>2

(* The worker and the queue hold what dxgkrnl has submitted, and the       *)
(* private data and the memory are what their names say.                   *)
LEMMA InvTypeOK ==
  ASSUME DmaBufInv
  PROVE  TypeOK
<1> USE DEF DmaBufInv
<1>1. ASSUME NEW d \in Buffers
      PROVE  /\ dma[d].state \in {"free", "rendered", "building", "submitted"}
             /\ m_DmaBufInfo[d].m_RenderTargetPhysicalAddress \in Places \cup {None}
             /\ m_DmaBufInfo[d].m_DmaBufferPhysicalAddress \in ApertureOffsets \cup {None}
  BY DEF TypesInv, Infos, Uses
<1>2. memory \in [Places -> Allocations \cup {None}] /\ backing \subseteq Allocations
  <2>1. PICK T, e : Ahead(T, e)
    BY DEF TimeInv
  <2>2. Sound(T[0]) /\ T[0] = Now
    BY <2>1, HeldType DEF Ahead
  <2> QED
    BY <2>2 DEF Sound, MemoryStates, Now
<1>3. DOMAIN Held = 1 .. Len(Held) /\ \A i \in 1 .. Len(Held) : Held[i].buf \in Buffers
  BY HeldType
<1>4. \A i, j \in DOMAIN Held : Held[i].buf = Held[j].buf => i = j
  BY <1>3 DEF QueueInv
<1>5. {Held[i].buf : i \in DOMAIN Held} = {d \in Buffers : dma[d].state = "submitted"}
  BY <1>3 DEF QueueInv
<1> QED
  BY <1>1, <1>2, <1>4, <1>5 DEF TypeOK, TypesInv, Held

(* Of each allocation there is a copy now. *)
LEMMA InvNoDataLost ==
  ASSUME DmaBufInv
  PROVE  NoDataLost
<1>1. PICK T, e : Ahead(T, e)
  BY DEF DmaBufInv, TimeInv
<1>2. Sound(T[0]) /\ T[0] = Now
  BY <1>1, HeldType DEF Ahead, DmaBufInv
<1> QED
  BY <1>2 DEF Sound, Now, NoDataLost

(* The private data of the buffer in execution is its command buffer's. *)
LEMMA InvPrivateDataIsOwn ==
  ASSUME DmaBufInv
  PROVE  PrivateDataIsOwn
<1> SUFFICES ASSUME running # None
             PROVE  PrivateDataIsOwn
  BY DEF PrivateDataIsOwn
<1> DEFINE d == running.buf
<1>1. Len(Held) \in Nat \ {0} /\ Held[1] = running /\ running \in Submissions
  BY RunningIsFirst DEF DmaBufInv
<1>2. d \in Buffers /\ dma[d].state = "submitted"
  BY <1>1 DEF DmaBufInv, QueueInv, Submissions
<1>3. CASE d \in PagingBuffers
  <2>1. m_DmaBufInfo[d].m_bPaging
    BY <1>2, <1>3 DEF DmaBufInv, BufferInv, PagingFits
  <2>2. d \notin RenderBuffers
    BY <1>3, ConstantsAssumption
  <2> QED
    BY <1>3, <2>1, <2>2 DEF PrivateDataIsOwn
<1>4. CASE d \in RenderBuffers
  <2>1. RenderFits(dma[d], m_DmaBufInfo[d], content[d], known[d])
    BY <1>4 DEF DmaBufInv, BufferInv
  <2>2. ~m_DmaBufInfo[d].m_bPaging /\ InfoFits(m_DmaBufInfo[d], dma[d].cmd)
    BY <1>2, <2>1 DEF RenderFits
  <2>3. d \notin PagingBuffers
    BY <1>4, ConstantsAssumption
  <2> QED
    BY <2>2, <2>3, <1>4 DEF PrivateDataIsOwn, InfoFits
<1> QED
  BY <1>2, <1>3, <1>4 DEF Buffers

(* The buffer in execution finds the memory that was foreseen for it. *)
LEMMA InvExecutesOnOwnData ==
  ASSUME DmaBufInv
  PROVE  ExecutesOnOwnData
<1> SUFFICES ASSUME Executing
             PROVE  ExecutesOnOwnData
  BY DEF ExecutesOnOwnData
<1> DEFINE d == running.buf
           cmd == dma[d].cmd
<1>1. Len(Held) \in Nat \ {0} /\ Held[1] = running /\ running \in Submissions
  BY RunningIsFirst DEF DmaBufInv, Executing
<1>2. PICK T, e : Ahead(T, e)
  BY DEF DmaBufInv, TimeInv
<1>3. d \in RenderBuffers /\ ~running.failed /\ d \notin PagingBuffers
  BY ConstantsAssumption DEF Executing
<1>4. Executes(running, cmd, m_DmaBufInfo[d], content[d], T[0], T[1])
  BY <1>1, <1>2 DEF Ahead, ExecutesInTurn
<1>5. T[0].memory = memory
  BY <1>2 DEF Ahead, Now
<1>6. ReadsOwn(cmd, m_DmaBufInfo[d], content[d], memory)
  BY <1>3, <1>4, <1>5 DEF Executes
<1>7. dma[d].state = "submitted"
  BY <1>1 DEF DmaBufInv, QueueInv
<1>8. RenderFits(dma[d], m_DmaBufInfo[d], content[d], known[d])
  BY <1>3 DEF DmaBufInv, BufferInv
<1>9. ~cmd.sw => \E i \in DOMAIN cmd.patches : cmd.patches[i].slot = "rt"
  BY <1>7, <1>8 DEF RenderFits, InfoFits
<1>10. ~cmd.sw => m_DmaBufInfo[d].m_RenderTargetPhysicalAddress \in Places
  BY <1>6, <1>9 DEF ReadsOwn
<1> QED
  BY <1>6, <1>10 DEF ReadsOwn, ExecutesOnOwnData

(* It is on the page that its references to itself lead to. *)
LEMMA InvSelfReferencesAreOwn ==
  ASSUME DmaBufInv
  PROVE  SelfReferencesAreOwn
<1>1. ASSUME NEW d \in Buffers
      PROVE  Cardinality(m_DmaBufInfo[d].selfRefs) <= MaxSelfRef
  BY DEF Buffers, DmaBufInv, BufferInv, RenderFits, PagingFits
<1>2. ASSUME Executing
      PROVE  LET d == running.buf  cmd == dma[d].cmd IN
             \A i \in DOMAIN cmd.patches :
               ~cmd.sw /\ cmd.patches[i].slot = "self" => content[d][i] = d /\ Aperture(d) # {}
  <2>1. Len(Held) \in Nat \ {0} /\ Held[1] = running
    BY RunningIsFirst, <1>2 DEF DmaBufInv, Executing
  <2>2. Aperture(running.buf) # {}
        /\ RefersToItself(running.buf, dma[running.buf].cmd, content[running.buf])
    BY <1>2, <2>1 DEF DmaBufInv, PageInv, Executing
  <2> QED
    BY <2>2 DEF RefersToItself
<1> QED
  BY <1>1, <1>2 DEF SelfReferencesAreOwn

-----------------------------------------------------------------------------
(* What ValidateDmaBuffer records. *)

(* The references that ValidateDmaBuffer gets past are acceptable: it      *)
(* stops where the private data has no room.                               *)
LEMMA AcceptedIsAcceptable ==
  ASSUME NEW cmd \in CommandBuffers
  PROVE  Accepted(cmd) \in 0 .. Len(cmd.patches) /\ Acceptable(cmd, Accepted(cmd))
<1> DEFINE n == Len(cmd.patches)
           S == {k \in 0 .. n : Acceptable(cmd, k)}
<1>1. n \in Nat /\ 0 \in 0 .. n
  BY DEF CommandBuffers
<1>2. Acceptable(cmd, 0)
  <2>1. \A s : InSlot(cmd, 0, s) = {}
    BY DEF InSlot
  <2>2. \A s : Cardinality(InSlot(cmd, 0, s)) = 0
    BY <2>1, FS_EmptySet
  <2> QED
    BY <2>2, ConstantsAssumption DEF Acceptable
<1>3. CASE cmd.sw
  BY <1>1, <1>2, <1>3 DEF Accepted
<1>4. CASE ~cmd.sw
  <2>1. S \in SUBSET (0 .. n) /\ S # {}
    BY <1>1, <1>2
  <2>2. Max(S) \in S
    <3> HIDE DEF S, n
    <3> QED
      BY <1>1, <2>1, MaxExists
  <2>3. Accepted(cmd) = Max(S)
    BY <1>4 DEF Accepted
  <2> QED
    BY <2>2, <2>3
<1> QED
  BY <1>3, <1>4

(* There is at most one reference of each unique slot, so that the         *)
(* reference that is recorded is the one there is.                         *)
LEMMA OneOfSlot ==
  ASSUME NEW cmd \in CommandBuffers, NEW n \in Nat, Acceptable(cmd, n),
         NEW s \in UniqueSlots, NEW i \in InSlot(cmd, n, s)
  PROVE  InSlot(cmd, n, s) = {i} /\ Min(InSlot(cmd, n, s)) = i
<1> DEFINE S == InSlot(cmd, n, s)
<1>1. IsFiniteSet(S)
  <2>1. IsFiniteSet(1 .. n)
    BY FS_Interval
  <2>2. S \in SUBSET (1 .. n)
    BY DEF InSlot
  <2> QED
    BY <2>1, <2>2, FS_Subset
<1>2. Cardinality(S) \in Nat /\ Cardinality(S) <= 1
  BY <1>1, FS_CardinalityType DEF Acceptable
<1>3. Cardinality(S) # 0
  BY <1>1, FS_EmptySet
<1>4. Cardinality(S) = 1
  BY <1>2, <1>3
<1>5. S = {i}
  <2>1. PICK x : S = {x}
    BY <1>1, <1>4, FS_Singleton
  <2> QED
    BY <2>1
<1>6. i \in Nat
  BY DEF InSlot
<1>7. Min({i}) = i
  BY <1>6 DEF Min
<1> QED
  BY <1>5, <1>7

(* Whatever the command buffer, the private data has room for the self     *)
(* references that are recorded in it.                                     *)
LEMMA RenderInfoType ==
  ASSUME NEW info \in Infos, NEW cmd \in CommandBuffers
  PROVE  /\ RenderInfo(info, cmd) \in Infos
         /\ ~RenderInfo(info, cmd).m_bPaging
         /\ Cardinality(RenderInfo(info, cmd).selfRefs) <= MaxSelfRef
<1> DEFINE n == Accepted(cmd)
           rt == IF InSlot(cmd, n, "rt") = {} THEN None
                 ELSE cmd.patches[Min(InSlot(cmd, n, "rt"))].alloc
<1>1. n \in Nat /\ n <= Len(cmd.patches) /\ Acceptable(cmd, n) /\ Len(cmd.patches) \in Nat
      /\ cmd.patches \in Seq(PatchLocations)
  <2>1. cmd.patches \in Seq(PatchLocations)
    BY DEF CommandBuffers
  <2>2. n \in 0 .. Len(cmd.patches) /\ Acceptable(cmd, n)
    BY AcceptedIsAcceptable
  <2>3. Len(cmd.patches) \in Nat
    BY <2>1
  <2>4. n \in Nat /\ n <= Len(cmd.patches)
    BY <2>2, <2>3
  <2> QED
    BY <2>1, <2>2, <2>3, <2>4, ZenonT(30)
<1>2. RenderInfo(info, cmd) =
       [m_bPaging |-> FALSE, m_bSwCommandBuffer |-> cmd.sw,
        m_HasVC4ClearColors |-> cmd.clears /\ ValidateDmaBuffer(cmd),
        refs |-> {s \in UniqueSlots : InSlot(cmd, n, s) # {}},
        selfRefs |-> InSlot(cmd, n, "self"), m_pRenderTarget |-> rt,
        m_RenderTargetPhysicalAddress |-> info.m_RenderTargetPhysicalAddress,
        m_DmaBufferPhysicalAddress |-> None]
  BY DEF RenderInfo
<1>3. rt \in Allocations \cup {None}
  <2> SUFFICES ASSUME NEW i \in InSlot(cmd, n, "rt")
               PROVE  rt \in Allocations
    OBVIOUS
  <2>1. Min(InSlot(cmd, n, "rt")) = i
    BY <1>1, OneOfSlot DEF UniqueSlots
  <2>2. i \in 1 .. Len(cmd.patches)
    BY <1>1 DEF InSlot
  <2>3. cmd.patches[i] \in PatchLocations
    BY <1>1, <2>2
  <2> QED
    BY <2>1, <2>3 DEF PatchLocations
<1>4. InSlot(cmd, n, "self") \in SUBSET Nat
  BY DEF InSlot
<1>5. info.m_RenderTargetPhysicalAddress \in Places \cup {None}
  BY DEF Infos
<1>6. cmd.sw \in BOOLEAN /\ (cmd.clears /\ ValidateDmaBuffer(cmd)) \in BOOLEAN
  BY DEF CommandBuffers
<1>7. RenderInfo(info, cmd) \in Infos
  <2> HIDE DEF n, rt
  <2> QED
    BY <1>2, <1>3, <1>4, <1>5, <1>6 DEF Infos
<1>8. RenderInfo(info, cmd).m_bPaging = FALSE
      /\ RenderInfo(info, cmd).selfRefs = InSlot(cmd, n, "self")
  BY <1>2
<1> QED
  BY <1>1, <1>7, <1>8 DEF Acceptable

(* Of a command buffer that is valid everything is recorded. *)
LEMMA RenderInfoFits ==
  ASSUME NEW info \in Infos, NEW cmd \in CommandBuffers, ValidateDmaBuffer(cmd)
  PROVE  InfoFits(RenderInfo(info, cmd), cmd)
<1> DEFINE n == Accepted(cmd)
           new == RenderInfo(info, cmd)
<1>1. n \in Nat /\ Acceptable(cmd, n) /\ Len(cmd.patches) \in Nat
      /\ DOMAIN cmd.patches = 1 .. Len(cmd.patches)
  BY AcceptedIsAcceptable DEF CommandBuffers
<1>2. /\ new.m_bSwCommandBuffer = cmd.sw
      /\ new.m_HasVC4ClearColors = (cmd.clears /\ ValidateDmaBuffer(cmd))
      /\ new.refs = {s \in UniqueSlots : InSlot(cmd, n, s) # {}}
      /\ new.selfRefs = InSlot(cmd, n, "self")
      /\ new.m_pRenderTarget = IF InSlot(cmd, n, "rt") = {} THEN None
                               ELSE cmd.patches[Min(InSlot(cmd, n, "rt"))].alloc
  BY DEF RenderInfo
<1>3. new.m_HasVC4ClearColors = cmd.clears
  BY <1>2 DEF CommandBuffers
<1>4. CASE cmd.sw
  <2>1. n = 0
    BY <1>4 DEF Accepted
  <2>2. \A s : InSlot(cmd, n, s) = {}
    BY <2>1 DEF InSlot
  <2> QED
    BY <1>2, <1>3, <1>4, <2>2 DEF InfoFits
<1>5. CASE ~cmd.sw
  <2>1. n = Len(cmd.patches) /\ \A s \in UniqueSlots : InSlot(cmd, n, s) # {}
    BY <1>5 DEF ValidateDmaBuffer
  <2>2. InSlot(cmd, n, "self") =
          {i \in DOMAIN cmd.patches : ~cmd.sw /\ cmd.patches[i].slot = "self"}
    BY <1>1, <1>5, <2>1 DEF InSlot
  <2>3. "rt" \in UniqueSlots
    BY DEF UniqueSlots
  <2>4. \E i \in DOMAIN cmd.patches : cmd.patches[i].slot = "rt"
    BY <1>1, <2>1, <2>3 DEF InSlot
  <2>5. ASSUME NEW i \in DOMAIN cmd.patches, cmd.patches[i].slot = "rt"
        PROVE  cmd.patches[i].alloc = new.m_pRenderTarget
    <3>1. i \in InSlot(cmd, n, "rt")
      BY <1>1, <2>1, <2>5 DEF InSlot
    <3>2. Min(InSlot(cmd, n, "rt")) = i
      BY <1>1, <2>3, <3>1, OneOfSlot
    <3> QED
      BY <1>2, <3>1, <3>2
  <2>6. new.refs = UniqueSlots
    BY <1>2, <2>1
  <2>7. InfoFits(new, cmd)
    <3> HIDE DEF new, n
    <3> QED
      BY <1>2, <1>3, <1>5, <2>2, <2>4, <2>5, <2>6 DEF InfoFits
  <2> QED
    BY <2>7
<1> QED
  BY <1>4, <1>5

-----------------------------------------------------------------------------
(* What the driver and dxgkrnl do to one buffer. *)

(* Nothing but the buffer d is touched. *)
OthersKept(d) ==
  /\ \A b \in Buffers \ {d} :
       dma'[b] = dma[b] /\ m_DmaBufInfo'[b] = m_DmaBufInfo[b] /\ content'[b] = content[b]
  /\ \A b \in RenderBuffers \ {d} : known'[b] = known[b] /\ Aperture(b)' = Aperture(b)

(* What is done to a buffer that is not submitted disturbs no submission:  *)
(* Render, Patch and the mapping of the aperture.                          *)
LEMMA PreparationKeepsInv ==
  ASSUME DmaBufInv, TypesInv', NEW d \in RenderBuffers, OthersKept(d),
         dma[d].state # "submitted", dma'[d].state # "submitted",
         RenderFits(dma'[d], m_DmaBufInfo'[d], content'[d], known'[d]),
         UNCHANGED <<m_dmaBufQueue, running, memory, backing, place>>
  PROVE  DmaBufInv'
<1>1. Held' = Held /\ Len(Held) \in Nat /\ \A i \in 1 .. Len(Held) : Held[i].buf \in Buffers
  BY HeldType DEF DmaBufInv, Held
<1>2. \A i \in 1 .. Len(Held) : Held[i].buf \in Buffers \ {d}
  BY <1>1 DEF DmaBufInv, QueueInv
<1>3. d \in Buffers /\ d \notin PagingBuffers /\ PagingBuffers \subseteq Buffers \ {d}
      /\ RenderBuffers \subseteq Buffers
  BY ConstantsAssumption DEF Buffers
<1>4. QueueInv'
  <2>1. \A i \in 1 .. Len(Held) : dma'[Held[i].buf] = dma[Held[i].buf]
    BY <1>2 DEF OthersKept
  <2>2. \A b \in Buffers :
          dma'[b].state = "submitted" => \E i \in 1 .. Len(Held) : Held[i].buf = b
    BY DEF OthersKept, DmaBufInv, QueueInv
  <2> QED
    BY <1>1, <2>1, <2>2 DEF DmaBufInv, QueueInv
<1>5. BufferInv'
  <2>1. ASSUME NEW b \in RenderBuffers
        PROVE  RenderFits(dma'[b], m_DmaBufInfo'[b], content'[b], known'[b])
    <3>1. CASE b = d
      BY <3>1
    <3>2. CASE b # d
      <4>1. RenderFits(dma[b], m_DmaBufInfo[b], content[b], known[b])
        BY DEF DmaBufInv, BufferInv
      <4>2. dma'[b] = dma[b] /\ m_DmaBufInfo'[b] = m_DmaBufInfo[b] /\ content'[b] = content[b]
            /\ known'[b] = known[b]
        BY <1>3, <3>2 DEF OthersKept
      <4> QED
        BY <4>1, <4>2
    <3> QED
      BY <3>1, <3>2
  <2>2. \A b \in PagingBuffers :
          dma'[b] = dma[b] /\ m_DmaBufInfo'[b] = m_DmaBufInfo[b] /\ content'[b] = content[b]
    BY <1>3 DEF OthersKept
  <2>3. \A b \in PagingBuffers : PagingFits(dma'[b], m_DmaBufInfo'[b], content'[b])
    BY <2>2 DEF DmaBufInv, BufferInv
  <2> QED
    BY <2>1, <2>2, <2>3 DEF DmaBufInv, BufferInv
<1>6. PageInv'
  <2>1. ASSUME NEW i \in 1 .. Len(Held), NEW b \in RenderBuffers, Held[i].buf = b, ~Held[i].failed
        PROVE  Aperture(b)' # {} /\ RefersToItself(b, dma'[b].cmd, content'[b])
    <3>1. b \in RenderBuffers \ {d} /\ b \in Buffers \ {d}
      BY <1>2, <2>1
    <3>2. Aperture(b) # {} /\ RefersToItself(b, dma[b].cmd, content[b])
      BY <2>1 DEF DmaBufInv, PageInv
    <3> QED
      BY <3>1, <3>2 DEF OthersKept
  <2> QED
    BY <1>1, <2>1 DEF PageInv
<1>7. TimeInv'
  <2>1. PICK T, e : Ahead(T, e)
    BY DEF DmaBufInv, TimeInv
  <2>2. \A i \in 1 .. Len(Held) :
          /\ dma'[Held[i].buf] = dma[Held[i].buf]
          /\ m_DmaBufInfo'[Held[i].buf] = m_DmaBufInfo[Held[i].buf]
          /\ content'[Held[i].buf] = content[Held[i].buf]
    BY <1>2 DEF OthersKept
  <2>3. \A b \in PagingBuffers : dma'[b] = dma[b] /\ content'[b] = content[b]
    BY <1>3 DEF OthersKept
  <2>4. Now' = Now /\ place' = place
    BY DEF Now
  <2>5. Ahead(T, e)'
    <3>1. /\ T[0] = Now' /\ (\A i \in 0 .. Len(Held)' : Sound(T[i])) /\ Sound(e)
          /\ PlacedAt(e.memory)'
      BY <1>1, <2>1, <2>4 DEF Ahead, PlacedAt
    <3>2. ExecutesInTurn(T)'
      BY <1>1, <2>1, <2>2 DEF Ahead, ExecutesInTurn
    <3>3. BuildsTo(T[Len(Held)], e)'
      BY <1>1, <2>1, <2>3 DEF Ahead, BuildsTo
    <3> QED
      BY <3>1, <3>2, <3>3 DEF Ahead
  <2> QED
    BY <2>5 DEF TimeInv
<1> QED
  BY <1>4, <1>5, <1>6, <1>7 DEF DmaBufInv

(* PatchDmaBuffer writes one field of the private data, ... *)
LEMMA PatchedInfo ==
  ASSUME TypesInv, NEW info \in Infos, NEW cmd,
         NEW new,
         new = [info EXCEPT !.m_RenderTargetPhysicalAddress = RenderTargetPatched(cmd, info)]
  PROVE  /\ new \in Infos
         /\ new.m_bPaging = info.m_bPaging /\ new.selfRefs = info.selfRefs
         /\ InfoFits(info, cmd) => InfoFits(new, cmd)
<1>1. RenderTargetPatched(cmd, info) \in Places \cup {None}
  BY DEF RenderTargetPatched, TypesInv, Infos
<1>2. new \in Infos
  BY <1>1 DEF Infos
<1>3. /\ new.m_bPaging = info.m_bPaging /\ new.selfRefs = info.selfRefs
      /\ new.m_bSwCommandBuffer = info.m_bSwCommandBuffer
      /\ new.m_HasVC4ClearColors = info.m_HasVC4ClearColors
      /\ new.refs = info.refs /\ new.m_pRenderTarget = info.m_pRenderTarget
  BY DEF Infos
<1> QED
  BY <1>2, <1>3 DEF InfoFits

(* ... and the addresses it writes are the places of now. *)
LEMMA PatchedAsKnown ==
  ASSUME TypesInv, NEW info \in Infos, NEW cmd \in CommandBuffers, InfoFits(info, cmd),
         NEW fields,
         NEW new,
         new = [info EXCEPT !.m_RenderTargetPhysicalAddress = RenderTargetPatched(cmd, info)]
  PROVE  AsKnown(cmd, new, [i \in DOMAIN cmd.patches |-> PatchedField(cmd, i, fields[i])],
                 Known(cmd))
<1> DEFINE patched == [i \in DOMAIN cmd.patches |-> PatchedField(cmd, i, fields[i])]
<1> SUFFICES ASSUME NEW i \in DOMAIN cmd.patches, Known(cmd)[cmd.patches[i].alloc] # None
             PROVE  /\ cmd.sw \/ cmd.patches[i].slot = "default" =>
                         patched[i] = Known(cmd)[cmd.patches[i].alloc]
                    /\ ~cmd.sw /\ cmd.patches[i].slot = "rt" =>
                         new.m_RenderTargetPhysicalAddress = Known(cmd)[cmd.patches[i].alloc]
  BY DEF AsKnown
<1> DEFINE a == cmd.patches[i].alloc
<1>1. a \in Referenced(cmd) /\ a \in Allocations
  <2>1. cmd.patches \in Seq(PatchLocations)
    BY DEF CommandBuffers
  <2>2. cmd.patches[i] \in PatchLocations
    BY <2>1
  <2> QED
    BY <2>2 DEF Referenced, PatchLocations
<1>2. Known(cmd)[a] = place[a] /\ place[a] # None
  BY <1>1 DEF Known
<1>3. ASSUME cmd.sw \/ cmd.patches[i].slot = "default"
      PROVE  patched[i] = place[a]
  BY <1>2, <1>3 DEF PatchedField
<1>4. ASSUME ~cmd.sw, cmd.patches[i].slot = "rt"
      PROVE  new.m_RenderTargetPhysicalAddress = place[a]
  <2>1. info.m_pRenderTarget = a /\ a # None
    BY <1>1, <1>4, ConstantsAssumption DEF InfoFits
  <2>2. RenderTargetPatched(cmd, info) = place[a]
    BY <2>1, <1>2 DEF RenderTargetPatched
  <2>3. new.m_RenderTargetPhysicalAddress = RenderTargetPatched(cmd, info)
    BY DEF Infos
  <2> QED
    BY <2>2, <2>3
<1> QED
  BY <1>2, <1>3, <1>4

(* DdiRender of a valid command buffer. *)
LEMMA RenderKeepsInv ==
  ASSUME DmaBufInv, NEW d \in RenderBuffers, NEW cmd \in Commands, Render(d, cmd)
  PROVE  DmaBufInv'
<1> DEFINE info == RenderInfo(m_DmaBufInfo[d], cmd)
           new == [info EXCEPT !.m_RenderTargetPhysicalAddress = RenderTargetPatched(cmd, info)]
           fields == [i \in DOMAIN cmd.patches |->
                        PatchedField(cmd, i, [j \in DOMAIN cmd.patches |-> None][i])]
           use == [state |-> "rendered", cmd |-> cmd]
<1>1. d \in Buffers /\ cmd \in CommandBuffers /\ TypesInv /\ m_DmaBufInfo[d] \in Infos
  BY ConstantsAssumption DEF Buffers, DmaBufInv, TypesInv
<1>2. info \in Infos /\ ~info.m_bPaging /\ Cardinality(info.selfRefs) <= MaxSelfRef
  BY <1>1, RenderInfoType
<1>3. InfoFits(info, cmd)
  BY <1>1, RenderInfoFits DEF Render
<1>4. new \in Infos /\ new.m_bPaging = info.m_bPaging /\ new.selfRefs = info.selfRefs
      /\ InfoFits(new, cmd)
  <2> HIDE DEF info
  <2> QED
    BY <1>1, <1>2, <1>3, PatchedInfo
<1>5. AsKnown(cmd, new, fields, Known(cmd))
  <2> HIDE DEF info
  <2> QED
    BY <1>1, <1>2, <1>3, PatchedAsKnown
<1>6. /\ m_DmaBufInfo' = [m_DmaBufInfo EXCEPT ![d] = new]
      /\ content' = [content EXCEPT ![d] = fields]
      /\ dma' = [dma EXCEPT ![d] = use]
      /\ known' = [known EXCEPT ![d] = Known(cmd)]
      /\ UNCHANGED <<m_aperturePageTable, m_dmaBufQueue, running, place, memory, backing>>
      /\ dma[d].state = "free"
  BY DEF Render, PatchDmaBuffer, memoryVars
<1> HIDE DEF info, new, fields
<1>7. TypesInv'
  BY <1>1, <1>4, <1>6 DEF TypesInv, Uses
<1>8. m_DmaBufInfo'[d] = new /\ content'[d] = fields /\ dma'[d] = use /\ known'[d] = Known(cmd)
  BY <1>1, <1>6 DEF TypesInv
<1>9. RenderFits(use, new, fields, Known(cmd))
  BY <1>2, <1>4, <1>5 DEF RenderFits, fields
<1>10. OthersKept(d)
  BY <1>1, <1>6 DEF OthersKept, TypesInv, Aperture
<1> QED
  BY <1>6, <1>7, <1>8, <1>9, <1>10, PreparationKeepsInv

(* DdiRender of one that is not valid leaves a buffer that is not used. *)
LEMMA RenderRejectedKeepsInv ==
  ASSUME DmaBufInv, NEW d \in RenderBuffers, NEW cmd \in Commands, RenderRejected(d, cmd)
  PROVE  DmaBufInv'
<1> DEFINE info == RenderInfo(m_DmaBufInfo[d], cmd)
<1>1. d \in Buffers /\ cmd \in CommandBuffers /\ TypesInv /\ m_DmaBufInfo[d] \in Infos
  BY ConstantsAssumption DEF Buffers, DmaBufInv, TypesInv
<1>2. info \in Infos /\ ~info.m_bPaging /\ Cardinality(info.selfRefs) <= MaxSelfRef
  BY <1>1, RenderInfoType
<1>3. /\ UNCHANGED <<content, m_aperturePageTable, m_dmaBufQueue, running, memory, backing,
                      place, dma, known>>
      /\ dma[d].state = "free"
      /\ m_DmaBufInfo' = [m_DmaBufInfo EXCEPT ![d] = info] \/ m_DmaBufInfo' = m_DmaBufInfo
  BY DEF RenderRejected, memoryVars, dxgkrnlVars
<1> HIDE DEF info
<1>4. TypesInv'
  BY <1>1, <1>2, <1>3 DEF TypesInv
<1>5. m_DmaBufInfo'[d] = info \/ m_DmaBufInfo'[d] = m_DmaBufInfo[d]
  BY <1>1, <1>3 DEF TypesInv
<1>6. RenderFits(dma[d], m_DmaBufInfo[d], content[d], known[d])
  BY DEF DmaBufInv, BufferInv
<1>7. RenderFits(dma'[d], m_DmaBufInfo'[d], content'[d], known'[d])
  BY <1>2, <1>3, <1>5, <1>6 DEF RenderFits
<1>8. OthersKept(d)
  BY <1>1, <1>3 DEF OthersKept, TypesInv, Aperture
<1> QED
  BY <1>3, <1>4, <1>7, <1>8, PreparationKeepsInv

(* Patch, when the memory manager has moved an allocation. *)
LEMMA PatchKeepsInv ==
  ASSUME DmaBufInv, NEW d \in RenderBuffers, Patch(d)
  PROVE  DmaBufInv'
<1> DEFINE cmd == dma[d].cmd
<1>1. d \in Buffers /\ TypesInv /\ m_DmaBufInfo[d] \in Infos /\ dma[d].state = "rendered"
  BY DEF Buffers, DmaBufInv, TypesInv, Patch
<1>2. RenderFits(dma[d], m_DmaBufInfo[d], content[d], known[d])
  BY DEF DmaBufInv, BufferInv
<1>3. cmd \in Commands /\ cmd \in CommandBuffers /\ InfoFits(m_DmaBufInfo[d], cmd)
      /\ ~m_DmaBufInfo[d].m_bPaging /\ Cardinality(m_DmaBufInfo[d].selfRefs) <= MaxSelfRef
  BY <1>1, <1>2, ConstantsAssumption DEF RenderFits
<1>4. PICK o \in Aperture(d) :
        PatchDmaBuffer(d, cmd, [m_DmaBufInfo[d] EXCEPT !.m_DmaBufferPhysicalAddress = o],
                       content[d])
  BY DEF Patch
<1> DEFINE info == [m_DmaBufInfo[d] EXCEPT !.m_DmaBufferPhysicalAddress = o]
           new == [info EXCEPT !.m_RenderTargetPhysicalAddress = RenderTargetPatched(cmd, info)]
           fields == [i \in DOMAIN cmd.patches |-> PatchedField(cmd, i, content[d][i])]
<1>5. info \in Infos /\ info.m_bPaging = m_DmaBufInfo[d].m_bPaging
      /\ info.selfRefs = m_DmaBufInfo[d].selfRefs /\ InfoFits(info, cmd)
  <2>1. o \in ApertureOffsets
    BY DEF Aperture
  <2>2. info \in Infos
    BY <1>1, <2>1 DEF Infos
  <2>3. /\ info.m_bPaging = m_DmaBufInfo[d].m_bPaging
        /\ info.selfRefs = m_DmaBufInfo[d].selfRefs
        /\ info.m_bSwCommandBuffer = m_DmaBufInfo[d].m_bSwCommandBuffer
        /\ info.m_HasVC4ClearColors = m_DmaBufInfo[d].m_HasVC4ClearColors
        /\ info.refs = m_DmaBufInfo[d].refs
        /\ info.m_pRenderTarget = m_DmaBufInfo[d].m_pRenderTarget
    BY <1>1 DEF Infos
  <2>4. InfoFits(info, cmd)
    <3> HIDE DEF info
    <3> QED
      BY <1>3, <2>3 DEF InfoFits
  <2> QED
    BY <2>2, <2>3, <2>4
<1>6. new \in Infos /\ new.m_bPaging = info.m_bPaging /\ new.selfRefs = info.selfRefs
      /\ InfoFits(new, cmd)
  <2> HIDE DEF info, cmd
  <2> QED
    BY <1>1, <1>5, PatchedInfo
<1>7. AsKnown(cmd, new, fields, Known(cmd))
  <2> HIDE DEF info
  <2> QED
    BY <1>1, <1>3, <1>5, PatchedAsKnown
<1>8. /\ m_DmaBufInfo' = [m_DmaBufInfo EXCEPT ![d] = new]
      /\ content' = [content EXCEPT ![d] = fields]
      /\ known' = [known EXCEPT ![d] = Known(cmd)]
      /\ UNCHANGED <<m_aperturePageTable, m_dmaBufQueue, running, place, memory, backing, dma>>
  BY <1>4 DEF Patch, PatchDmaBuffer, memoryVars
<1> HIDE DEF info, new, fields
<1>9. TypesInv'
  BY <1>1, <1>6, <1>8 DEF TypesInv
<1>10. m_DmaBufInfo'[d] = new /\ content'[d] = fields /\ dma'[d] = dma[d] /\ known'[d] = Known(cmd)
  BY <1>1, <1>8 DEF TypesInv
<1>11. RenderFits(dma[d], new, fields, Known(cmd))
  BY <1>1, <1>3, <1>5, <1>6, <1>7 DEF RenderFits, fields
<1>12. OthersKept(d)
  BY <1>1, <1>8 DEF OthersKept, TypesInv, Aperture
<1> QED
  BY <1>1, <1>8, <1>9, <1>10, <1>11, <1>12, PreparationKeepsInv

(* A page of the aperture is mapped for one buffer, ... *)
LEMMA MapKeepsInv ==
  ASSUME DmaBufInv, NEW d \in RenderBuffers, NEW o \in ApertureOffsets, MapApertureSegment(d, o)
  PROVE  DmaBufInv'
<1>1. /\ UNCHANGED <<m_DmaBufInfo, content, m_dmaBufQueue, running, memory, backing, place,
                      dma, known>>
      /\ m_aperturePageTable' = [m_aperturePageTable EXCEPT ![o] = d]
      /\ m_aperturePageTable[o] = None
      /\ dma[d].state = "rendered"
  BY DEF MapApertureSegment, memoryVars, dxgkrnlVars
<1>2. TypesInv'
  BY <1>1 DEF DmaBufInv, TypesInv
<1>3. RenderFits(dma'[d], m_DmaBufInfo'[d], content'[d], known'[d])
  BY <1>1 DEF DmaBufInv, BufferInv
<1>4. ASSUME NEW b \in RenderBuffers \ {d}
      PROVE  Aperture(b)' = Aperture(b)
  <2>1. b # None
    BY ConstantsAssumption DEF Buffers
  <2> QED
    BY <1>1, <2>1 DEF Aperture, DmaBufInv, TypesInv
<1>5. OthersKept(d)
  BY <1>1, <1>4 DEF OthersKept
<1> QED
  BY <1>1, <1>2, <1>3, <1>5, PreparationKeepsInv

(* ... and unmapped for one that is not submitted. *)
LEMMA UnmapKeepsInv ==
  ASSUME DmaBufInv, NEW d \in RenderBuffers, UnmapApertureSegment(d)
  PROVE  DmaBufInv'
<1>1. PICK o \in Aperture(d) : m_aperturePageTable' = [m_aperturePageTable EXCEPT ![o] = None]
  BY DEF UnmapApertureSegment
<1>2. /\ UNCHANGED <<m_DmaBufInfo, content, m_dmaBufQueue, running, memory, backing, place,
                      dma, known>>
      /\ m_aperturePageTable[o] = d
      /\ dma[d].state # "submitted"
  BY DEF UnmapApertureSegment, memoryVars, dxgkrnlVars, Aperture
<1>3. TypesInv'
  BY <1>1, <1>2 DEF DmaBufInv, TypesInv
<1>4. RenderFits(dma'[d], m_DmaBufInfo'[d], content'[d], known'[d])
  BY <1>2 DEF DmaBufInv, BufferInv
<1>5. ASSUME NEW b \in RenderBuffers \ {d}
      PROVE  Aperture(b)' = Aperture(b)
  <2>1. b # None
    BY ConstantsAssumption DEF Buffers
  <2> QED
    BY <1>1, <1>2, <2>1 DEF Aperture, DmaBufInv, TypesInv
<1>6. OthersKept(d)
  BY <1>2, <1>5 DEF OthersKept
<1> QED
  BY <1>2, <1>3, <1>4, <1>6, PreparationKeepsInv

(* QueueDmaBuffer: the submission is the last of those held. *)
LEMMA HeldAppend ==
  ASSUME TypesInv, NEW s \in Submissions, QueueDmaBuffer(s), running' = running
  PROVE  /\ Len(Held)' = Len(Held) + 1 /\ Held'[Len(Held) + 1] = s
         /\ \A i \in 1 .. Len(Held) : Held'[i] = Held[i]
<1>1. m_dmaBufQueue' = Append(m_dmaBufQueue, s) /\ m_dmaBufQueue \in Seq(Submissions)
  BY DEF QueueDmaBuffer, TypesInv
<1>2. CASE running = None
  <2>1. Held = m_dmaBufQueue /\ Held' = Append(m_dmaBufQueue, s)
    BY <1>1, <1>2 DEF Held
  <2> QED
    BY <1>1, <2>1
<1>3. CASE running # None
  <2>1. Held = <<running>> \o m_dmaBufQueue /\ Held' = <<running>> \o Append(m_dmaBufQueue, s)
    BY <1>1, <1>3 DEF Held
  <2>2. running \in Submissions
    BY <1>3 DEF TypesInv
  <2>3. Len(Held) = 1 + Len(m_dmaBufQueue) /\ Len(Held') = 2 + Len(m_dmaBufQueue)
        /\ Len(m_dmaBufQueue) \in Nat
    BY <1>1, <2>1, <2>2
  <2>4. Held'[Len(Held) + 1] = s
    BY <1>1, <2>1, <2>2, <2>3
  <2>5. ASSUME NEW i \in 1 .. Len(Held)
        PROVE  Held'[i] = Held[i]
    BY <1>1, <2>1, <2>2, <2>3
  <2> QED
    BY <2>3, <2>4, <2>5
<1> QED
  BY <1>2, <1>3

(* A buffer that is submitted finds, when its turn comes, the memory that  *)
(* there is at the end of what was submitted before it.                    *)
LEMMA SubmissionKeepsInv ==
  ASSUME DmaBufInv, TypesInv', NEW d \in Buffers, OthersKept(d),
         NEW s \in Submissions, s.buf = d, QueueDmaBuffer(s),
         UNCHANGED <<m_aperturePageTable, running, memory, backing, place>>,
         dma[d].state # "submitted", dma'[d].state = "submitted",
         d \in RenderBuffers => RenderFits(dma'[d], m_DmaBufInfo'[d], content'[d], known'[d]),
         d \in PagingBuffers => PagingFits(dma'[d], m_DmaBufInfo'[d], content'[d]),
         d \in RenderBuffers /\ ~s.failed =>
           Aperture(d) # {} /\ RefersToItself(d, dma'[d].cmd, content'[d]),
         NEW T, NEW e, Ahead(T, e), NEW m, Sound(m),
         Executes(s, dma'[d].cmd, m_DmaBufInfo'[d], content'[d], T[Len(Held)], m),
         BuildsTo(m, e)'
  PROVE  DmaBufInv'
<1> DEFINE n == Len(Held)
<1>1. n \in Nat /\ \A i \in 1 .. n : Held[i].buf \in Buffers
  BY HeldType DEF DmaBufInv
<1>2. \A i \in 1 .. n : Held[i].buf \in Buffers \ {d}
  BY <1>1 DEF DmaBufInv, QueueInv
<1>3. Len(Held)' = n + 1 /\ Held'[n + 1] = s /\ \A i \in 1 .. n : Held'[i] = Held[i]
  BY HeldAppend DEF DmaBufInv
<1>4. \A i \in 1 .. n + 1 : i = n + 1 \/ i \in 1 .. n
  BY <1>1
<1>5. n + 1 \in 1 .. n + 1 /\ \A i \in 1 .. n : i \in 1 .. n + 1
  BY <1>1
<1>6. RenderBuffers \subseteq Buffers /\ PagingBuffers \subseteq Buffers
  BY DEF Buffers
<1> HIDE DEF n
<1>7. QueueInv'
  <2>1. \A i, j \in 1 .. n + 1 : Held'[i].buf = Held'[j].buf => i = j
    <3>1. \A i, j \in 1 .. n : Held[i].buf = Held[j].buf => i = j
      BY DEF DmaBufInv, QueueInv, n
    <3> QED
      BY <1>2, <1>3, <1>4, <3>1
  <2>2. \A i \in 1 .. n + 1 : dma'[Held'[i].buf].state = "submitted"
    <3>1. \A i \in 1 .. n : dma[Held[i].buf].state = "submitted"
      BY DEF DmaBufInv, QueueInv, n
    <3>2. \A i \in 1 .. n : dma'[Held[i].buf] = dma[Held[i].buf]
      BY <1>2 DEF OthersKept
    <3> QED
      BY <1>3, <1>4, <3>1, <3>2
  <2>3. ASSUME NEW b \in Buffers, dma'[b].state = "submitted"
        PROVE  \E i \in 1 .. n + 1 : Held'[i].buf = b
    <3>1. CASE b = d
      BY <1>3, <1>5, <3>1
    <3>2. CASE b # d
      <4>1. dma[b].state = "submitted"
        BY <2>3, <3>2 DEF OthersKept
      <4>2. \E i \in 1 .. n : Held[i].buf = b
        BY <4>1 DEF DmaBufInv, QueueInv, n
      <4> QED
        BY <1>3, <1>5, <4>2
    <3> QED
      BY <3>1, <3>2
  <2> QED
    BY <1>3, <2>1, <2>2, <2>3 DEF QueueInv
<1>8. BufferInv'
  <2>1. ASSUME NEW b \in RenderBuffers
        PROVE  RenderFits(dma'[b], m_DmaBufInfo'[b], content'[b], known'[b])
    <3>1. CASE b = d
      BY <3>1
    <3>2. CASE b # d
      <4>1. RenderFits(dma[b], m_DmaBufInfo[b], content[b], known[b])
        BY DEF DmaBufInv, BufferInv
      <4>2. dma'[b] = dma[b] /\ m_DmaBufInfo'[b] = m_DmaBufInfo[b] /\ content'[b] = content[b]
            /\ known'[b] = known[b]
        BY <1>6, <3>2 DEF OthersKept
      <4> QED
        BY <4>1, <4>2
    <3> QED
      BY <3>1, <3>2
  <2>2. ASSUME NEW b \in PagingBuffers
        PROVE  PagingFits(dma'[b], m_DmaBufInfo'[b], content'[b])
    <3>1. CASE b = d
      BY <3>1
    <3>2. CASE b # d
      <4>1. PagingFits(dma[b], m_DmaBufInfo[b], content[b])
        BY DEF DmaBufInv, BufferInv
      <4>2. dma'[b] = dma[b] /\ m_DmaBufInfo'[b] = m_DmaBufInfo[b] /\ content'[b] = content[b]
        BY <1>6, <3>2 DEF OthersKept
      <4> QED
        BY <4>1, <4>2
    <3> QED
      BY <3>1, <3>2
  <2>3. \A b, c \in PagingBuffers :
          dma'[b].state = "building" /\ dma'[c].state = "building" => b = c
    BY <1>6 DEF OthersKept, DmaBufInv, BufferInv
  <2> QED
    BY <2>1, <2>2, <2>3 DEF BufferInv
<1>9. PageInv'
  <2>1. ASSUME NEW b
        PROVE  Aperture(b)' = Aperture(b)
    BY DEF Aperture
  <2>2. ASSUME NEW i \in 1 .. n + 1, NEW b \in RenderBuffers, Held'[i].buf = b, ~Held'[i].failed
        PROVE  Aperture(b) # {} /\ RefersToItself(b, dma'[b].cmd, content'[b])
    <3>1. CASE i = n + 1
      BY <1>3, <2>2, <3>1
    <3>2. CASE i # n + 1
      <4>1. i \in 1 .. n /\ Held'[i] = Held[i]
        BY <1>3, <1>4, <3>2
      <4>2. Aperture(b) # {} /\ RefersToItself(b, dma[b].cmd, content[b])
        BY <2>2, <4>1 DEF DmaBufInv, PageInv, n
      <4>3. dma'[b] = dma[b] /\ content'[b] = content[b]
        BY <1>2, <2>2, <4>1 DEF OthersKept
      <4> QED
        BY <4>2, <4>3
    <3> QED
      BY <3>1, <3>2
  <2> QED
    BY <1>3, <2>1, <2>2 DEF PageInv
<1>10. TimeInv'
  <2>0. PICK U : U = [i \in 0 .. n + 1 |-> IF i = n + 1 THEN m ELSE T[i]]
    OBVIOUS
  <2>1. U[0] = T[0] /\ U[n] = T[n] /\ U[n + 1] = m /\ \A i \in 0 .. n : U[i] = T[i]
    BY <1>1, <2>0 DEF n
  <2>2. \A i \in 1 .. n : U[i] = T[i] /\ U[i - 1] = T[i - 1]
    <3>1. \A i \in 1 .. n : i \in 0 .. n /\ i - 1 \in 0 .. n
      BY <1>1 DEF n
    <3> QED
      BY <2>1, <3>1
  <2>3. T[0] = Now /\ Now' = Now
    BY DEF Ahead, Now
  <2>4. ASSUME NEW i \in 0 .. n + 1
        PROVE  Sound(U[i])
    <3>1. i = n + 1 \/ i \in 0 .. n
      BY <1>1 DEF n
    <3>2. \A k \in 0 .. n : Sound(T[k])
      BY DEF Ahead, n
    <3> QED
      BY <2>1, <3>1, <3>2
  <2>5. ASSUME NEW i \in 1 .. n + 1
        PROVE  Executes(Held'[i], dma'[Held'[i].buf].cmd, m_DmaBufInfo'[Held'[i].buf],
                        content'[Held'[i].buf], U[i - 1], U[i])
    <3>1. CASE i = n + 1
      <4>1. i - 1 = n
        BY <1>1, <3>1 DEF n
      <4>2. U[i - 1] = T[Len(Held)] /\ U[i] = m /\ Held'[i] = s
        BY <1>3, <2>1, <3>1, <4>1 DEF n
      <4> QED
        BY <4>2
    <3>2. CASE i # n + 1
      <4>1. i \in 1 .. n /\ Held'[i] = Held[i]
        BY <1>3, <1>4, <3>2
      <4>2. Executes(Held[i], dma[Held[i].buf].cmd, m_DmaBufInfo[Held[i].buf],
                     content[Held[i].buf], T[i - 1], T[i])
        BY <4>1 DEF Ahead, ExecutesInTurn, n
      <4>3. dma'[Held[i].buf] = dma[Held[i].buf] /\ content'[Held[i].buf] = content[Held[i].buf]
            /\ m_DmaBufInfo'[Held[i].buf] = m_DmaBufInfo[Held[i].buf]
        BY <1>2, <4>1 DEF OthersKept
      <4> QED
        BY <2>2, <4>1, <4>2, <4>3
    <3> QED
      BY <3>1, <3>2
  <2>6. Sound(e) /\ PlacedAt(e.memory)'
    BY DEF Ahead, PlacedAt
  <2>7. Ahead(U, e)'
    <3>1. U[0] = Now' /\ U[Len(Held)'] = m
      BY <1>3, <2>1, <2>3
    <3>2. BuildsTo(U[Len(Held)], e)'
      BY <3>1 DEF BuildsTo
    <3>3. \A i \in 0 .. Len(Held)' : Sound(U[i])
      BY <1>3, <2>4
    <3>4. ExecutesInTurn(U)'
      BY <1>3, <2>5 DEF ExecutesInTurn
    <3> QED
      BY <2>6, <3>1, <3>2, <3>3, <3>4 DEF Ahead
  <2> QED
    BY <2>7 DEF TimeInv
<1> QED
  BY <1>7, <1>8, <1>9, <1>10 DEF DmaBufInv

(* The address of the DMA buffer is written to the private data. *)
LEMMA AddressedInfo ==
  ASSUME NEW info \in Infos, NEW address \in ApertureOffsets \cup {None}, NEW cmd,
         NEW new, new = [info EXCEPT !.m_DmaBufferPhysicalAddress = address]
  PROVE  /\ new \in Infos
         /\ new.m_bPaging = info.m_bPaging /\ new.selfRefs = info.selfRefs
         /\ new.m_RenderTargetPhysicalAddress = info.m_RenderTargetPhysicalAddress
         /\ InfoFits(info, cmd) => InfoFits(new, cmd)
<1>1. new \in Infos
  BY DEF Infos
<1>2. /\ new.m_bPaging = info.m_bPaging /\ new.selfRefs = info.selfRefs
      /\ new.m_bSwCommandBuffer = info.m_bSwCommandBuffer
      /\ new.m_HasVC4ClearColors = info.m_HasVC4ClearColors
      /\ new.refs = info.refs /\ new.m_pRenderTarget = info.m_pRenderTarget
      /\ new.m_RenderTargetPhysicalAddress = info.m_RenderTargetPhysicalAddress
  BY DEF Infos
<1> QED
  BY <1>1, <1>2 DEF InfoFits

(* Addresses that are the places of now lead to the data that is there     *)
(* when all that VidMm has asked for is done.                              *)
LEMMA PlacedReadsOwn ==
  ASSUME TypesInv, NEW cmd \in CommandBuffers, NEW info, NEW fields, NEW e,
         AsKnown(cmd, info, fields, Known(cmd)),
         \A a \in Referenced(cmd) : place[a] # None,
         PlacedAt(e.memory)
  PROVE  ReadsOwn(cmd, info, fields, e.memory)
<1> SUFFICES ASSUME NEW i \in DOMAIN cmd.patches
             PROVE  LET p == cmd.patches[i] IN
                    /\ cmd.sw \/ p.slot = "default" =>
                         fields[i] \in Places /\ e.memory[fields[i]] = p.alloc
                    /\ ~cmd.sw /\ p.slot = "rt" =>
                         /\ info.m_RenderTargetPhysicalAddress \in Places
                         /\ e.memory[info.m_RenderTargetPhysicalAddress] = p.alloc
  BY DEF ReadsOwn
<1> DEFINE a == cmd.patches[i].alloc
<1>1. a \in Referenced(cmd) /\ a \in Allocations
  <2>1. cmd.patches \in Seq(PatchLocations)
    BY DEF CommandBuffers
  <2>2. cmd.patches[i] \in PatchLocations
    BY <2>1
  <2> QED
    BY <2>2 DEF Referenced, PatchLocations
<1>2. place[a] # None /\ place[a] \in Places /\ Known(cmd)[a] = place[a]
  BY <1>1 DEF Known, TypesInv
<1>3. e.memory[place[a]] = a
  BY <1>1, <1>2 DEF PlacedAt
<1>4. cmd.sw \/ cmd.patches[i].slot = "default" => fields[i] = place[a]
  BY <1>2 DEF AsKnown
<1>5. ~cmd.sw /\ cmd.patches[i].slot = "rt" => info.m_RenderTargetPhysicalAddress = place[a]
  BY <1>2 DEF AsKnown
<1> QED
  BY <1>2, <1>3, <1>4, <1>5

(* SubmitCommand of a buffer that is prepared. *)
LEMMA SubmitRenderKeepsInv ==
  ASSUME DmaBufInv, NEW d \in RenderBuffers, SubmitRender(d)
  PROVE  DmaBufInv'
<1> DEFINE cmd == dma[d].cmd
           s == [buf |-> d, failed |-> FALSE]
           n == Len(Held)
<1>1. d \in Buffers /\ TypesInv /\ m_DmaBufInfo[d] \in Infos /\ dma[d].state = "rendered"
      /\ d \notin PagingBuffers
  BY ConstantsAssumption DEF Buffers, DmaBufInv, TypesInv, SubmitRender
<1>2. RenderFits(dma[d], m_DmaBufInfo[d], content[d], known[d])
  BY DEF DmaBufInv, BufferInv
<1>3. /\ cmd \in Commands /\ cmd \in CommandBuffers /\ InfoFits(m_DmaBufInfo[d], cmd)
      /\ DOMAIN content[d] = DOMAIN cmd.patches
      /\ ~m_DmaBufInfo[d].m_bPaging /\ Cardinality(m_DmaBufInfo[d].selfRefs) <= MaxSelfRef
      /\ AsKnown(cmd, m_DmaBufInfo[d], content[d], known[d])
  BY <1>1, <1>2, ConstantsAssumption DEF RenderFits
<1>4. PICK o \in Aperture(d) :
        /\ m_DmaBufInfo' = [m_DmaBufInfo EXCEPT ![d].m_DmaBufferPhysicalAddress = o]
        /\ content' = [content EXCEPT ![d] = PatchSelfReferences(d, o)]
  BY DEF SubmitRender
<1> DEFINE new == [m_DmaBufInfo[d] EXCEPT !.m_DmaBufferPhysicalAddress = o]
           fields == PatchSelfReferences(d, o)
           use == [dma[d] EXCEPT !.state = "submitted"]
<1>5. o \in ApertureOffsets /\ GetAperturePhysicalAddress(o) = d
  BY DEF Aperture, GetAperturePhysicalAddress
<1>6. /\ new \in Infos /\ InfoFits(new, cmd)
      /\ new.m_bPaging = m_DmaBufInfo[d].m_bPaging /\ new.selfRefs = m_DmaBufInfo[d].selfRefs
      /\ new.m_RenderTargetPhysicalAddress = m_DmaBufInfo[d].m_RenderTargetPhysicalAddress
  BY <1>1, <1>3, <1>5, AddressedInfo
<1>7. /\ DOMAIN fields = DOMAIN cmd.patches
      /\ RefersToItself(d, cmd, fields)
      /\ \A i \in DOMAIN cmd.patches :
           cmd.sw \/ cmd.patches[i].slot = "default" => fields[i] = content[d][i]
  <2>1. /\ DOMAIN fields = DOMAIN content[d]
        /\ \A i \in DOMAIN content[d] :
             fields[i] = IF i \in m_DmaBufInfo[d].selfRefs THEN d ELSE content[d][i]
    BY <1>5 DEF PatchSelfReferences
  <2>2. m_DmaBufInfo[d].selfRefs =
          {i \in DOMAIN cmd.patches : ~cmd.sw /\ cmd.patches[i].slot = "self"}
    BY <1>3 DEF InfoFits
  <2>3. DOMAIN content[d] = DOMAIN cmd.patches
    BY <1>3
  <2> HIDE DEF fields, cmd
  <2>4. RefersToItself(d, cmd, fields)
    BY <2>1, <2>2, <2>3 DEF RefersToItself
  <2>5. \A i \in DOMAIN cmd.patches :
          cmd.sw \/ cmd.patches[i].slot = "default" => fields[i] = content[d][i]
    BY <2>1, <2>2, <2>3
  <2> QED
    BY <2>1, <2>3, <2>4, <2>5
<1>8. /\ m_DmaBufInfo' = [m_DmaBufInfo EXCEPT ![d] = new]
      /\ content' = [content EXCEPT ![d] = fields]
      /\ dma' = [dma EXCEPT ![d] = use]
      /\ m_dmaBufQueue' = Append(m_dmaBufQueue, s)
      /\ UNCHANGED <<m_aperturePageTable, running, place, memory, backing, known>>
      /\ known[d] = Known(cmd)
      /\ \A a \in Referenced(cmd) : place[a] # None
      /\ PagingPending = {}
  <2>1. m_DmaBufInfo' = [m_DmaBufInfo EXCEPT ![d] = new]
    BY <1>4
  <2>2. content' = [content EXCEPT ![d] = fields]
    BY <1>4
  <2>3. dma' = [dma EXCEPT ![d] = use]
    BY DEF SubmitRender
  <2> HIDE DEF new, fields, use
  <2> QED
    BY <2>1, <2>2, <2>3 DEF SubmitRender, QueueDmaBuffer, memoryVars
<1>9. use.state = "submitted" /\ use.cmd = cmd
      /\ use \in Uses
  <2>1. dma[d] \in Uses
    BY <1>1 DEF TypesInv
  <2> QED
    BY <2>1 DEF Uses
<1>10. s \in Submissions /\ s.buf = d /\ ~s.failed
  BY <1>1 DEF Submissions
<1> HIDE DEF new, fields, use, s, cmd
<1>11. TypesInv'
  <2>1. m_dmaBufQueue' \in Seq(Submissions)
    BY <1>1, <1>8, <1>10 DEF TypesInv
  <2> QED
    BY <1>1, <1>6, <1>8, <1>9, <2>1 DEF TypesInv
<1>12. m_DmaBufInfo'[d] = new /\ content'[d] = fields /\ dma'[d] = use
  BY <1>1, <1>8 DEF TypesInv
<1>13. RenderFits(use, new, fields, known'[d])
  BY <1>3, <1>6, <1>7, <1>9 DEF RenderFits
<1>14. OthersKept(d)
  BY <1>1, <1>8 DEF OthersKept, TypesInv, Aperture
<1>15. PICK T, e : Ahead(T, e)
  BY DEF DmaBufInv, TimeInv
<1>16. e = T[n] /\ Sound(e) /\ PlacedAt(e.memory) /\ BuildsTo(e, e)'
  <2>1. \A b \in PagingBuffers : dma[b].state # "building"
    <3>1. \A b \in PagingBuffers : PagingFits(dma[b], m_DmaBufInfo[b], content[b])
      BY DEF DmaBufInv, BufferInv
    <3> QED
      BY <1>8, <3>1 DEF PagingPending, PagingFits
  <2>2. \A b \in PagingBuffers : dma'[b].state # "building"
    BY <1>1, <2>1, <1>14 DEF OthersKept, Buffers
  <2> QED
    BY <1>15, <2>1, <2>2 DEF Ahead, BuildsTo
<1>17. ReadsOwn(cmd, m_DmaBufInfo[d], content[d], e.memory)
  BY <1>1, <1>3, <1>8, <1>16, PlacedReadsOwn
<1>18. ReadsOwn(cmd, new, fields, e.memory)
  BY <1>6, <1>7, <1>17 DEF ReadsOwn
<1>19. Executes(s, cmd, new, fields, e, e)
  BY <1>1, <1>10, <1>18 DEF Executes
<1>20. QueueDmaBuffer(s)
  BY <1>8 DEF QueueDmaBuffer
<1> HIDE DEF n
<1>21. d \notin PagingBuffers /\ Aperture(d) # {} /\ dma[d].state # "submitted"
  BY <1>1, <1>4
<1>22. Executes(s, dma'[d].cmd, m_DmaBufInfo'[d], content'[d], T[Len(Held)], e)
  BY <1>9, <1>12, <1>16, <1>19 DEF n
<1> QED
  BY <1>1, <1>7, <1>8, <1>9, <1>10, <1>11, <1>12, <1>13, <1>14, <1>15, <1>16, <1>20, <1>21,
     <1>22, SubmissionKeepsInv

(* SubmitCommand of a buffer that could not be prepared. *)
LEMMA SubmitFailedKeepsInv ==
  ASSUME DmaBufInv, NEW d \in RenderBuffers, SubmitFailed(d)
  PROVE  DmaBufInv'
<1> DEFINE s == [buf |-> d, failed |-> TRUE]
           new == [m_DmaBufInfo[d] EXCEPT !.m_DmaBufferPhysicalAddress = None]
           fields == PatchSelfReferences(d, None)
           use == [dma[d] EXCEPT !.state = "submitted"]
<1>1. d \in Buffers /\ TypesInv /\ m_DmaBufInfo[d] \in Infos /\ dma[d].state = "rendered"
      /\ d \notin PagingBuffers
  BY ConstantsAssumption DEF Buffers, DmaBufInv, TypesInv, SubmitFailed
<1>2. RenderFits(dma[d], m_DmaBufInfo[d], content[d], known[d])
  BY DEF DmaBufInv, BufferInv
<1>3. /\ dma[d].cmd \in Commands /\ InfoFits(m_DmaBufInfo[d], dma[d].cmd)
      /\ DOMAIN content[d] = DOMAIN dma[d].cmd.patches
      /\ ~m_DmaBufInfo[d].m_bPaging /\ Cardinality(m_DmaBufInfo[d].selfRefs) <= MaxSelfRef
  BY <1>1, <1>2 DEF RenderFits
<1>4. /\ new \in Infos /\ InfoFits(new, dma[d].cmd)
      /\ new.m_bPaging = m_DmaBufInfo[d].m_bPaging /\ new.selfRefs = m_DmaBufInfo[d].selfRefs
  BY <1>1, <1>3, AddressedInfo
<1>5. DOMAIN fields = DOMAIN dma[d].cmd.patches
  BY <1>3 DEF PatchSelfReferences
<1>6. /\ m_DmaBufInfo' = [m_DmaBufInfo EXCEPT ![d] = new]
      /\ content' = [content EXCEPT ![d] = fields]
      /\ dma' = [dma EXCEPT ![d] = use]
      /\ m_dmaBufQueue' = Append(m_dmaBufQueue, s)
      /\ UNCHANGED <<m_aperturePageTable, running, place, memory, backing, known>>
  <2>1. m_DmaBufInfo' = [m_DmaBufInfo EXCEPT ![d] = new]
    BY DEF SubmitFailed
  <2>2. content' = [content EXCEPT ![d] = fields]
    BY DEF SubmitFailed
  <2>3. dma' = [dma EXCEPT ![d] = use]
    BY DEF SubmitFailed
  <2> HIDE DEF new, fields, use
  <2> QED
    BY <2>1, <2>2, <2>3 DEF SubmitFailed, QueueDmaBuffer, memoryVars
<1>7. use.state = "submitted" /\ use.cmd = dma[d].cmd
      /\ use \in Uses
  <2>1. dma[d] \in Uses
    BY <1>1 DEF TypesInv
  <2> QED
    BY <2>1 DEF Uses
<1>8. s \in Submissions /\ s.buf = d /\ s.failed
  BY <1>1 DEF Submissions
<1> HIDE DEF new, fields, use, s
<1>9. TypesInv'
  <2>1. m_dmaBufQueue' \in Seq(Submissions)
    BY <1>1, <1>6, <1>8 DEF TypesInv
  <2> QED
    BY <1>1, <1>4, <1>6, <1>7, <2>1 DEF TypesInv
<1>10. m_DmaBufInfo'[d] = new /\ content'[d] = fields /\ dma'[d] = use
  BY <1>1, <1>6 DEF TypesInv
<1>11. RenderFits(use, new, fields, known'[d])
  BY <1>3, <1>4, <1>5, <1>7 DEF RenderFits
<1>12. OthersKept(d)
  BY <1>1, <1>6 DEF OthersKept, TypesInv, Aperture
<1>13. PICK T, e : Ahead(T, e)
  BY DEF DmaBufInv, TimeInv
<1>14. PICK m : m = T[Len(Held)]
  OBVIOUS
<1>15. Sound(m)
  <2>1. Len(Held) \in 0 .. Len(Held)
    BY <1>1, HeldType
  <2> QED
    BY <1>13, <1>14, <2>1 DEF Ahead
<1>16. BuildsTo(m, e)'
  <2>1. \A b \in PagingBuffers : dma'[b] = dma[b] /\ content'[b] = content[b]
    BY <1>1, <1>12 DEF OthersKept, Buffers
  <2>2. BuildsTo(m, e)
    BY <1>13, <1>14 DEF Ahead
  <2> QED
    BY <2>1, <2>2 DEF BuildsTo
<1>17. Executes(s, dma'[d].cmd, m_DmaBufInfo'[d], content'[d], T[Len(Held)], m)
  BY <1>1, <1>8, <1>14 DEF Executes
<1>18. QueueDmaBuffer(s)
  BY <1>6 DEF QueueDmaBuffer
<1>19. dma[d].state # "submitted" /\ dma'[d].state = "submitted" /\ d \notin PagingBuffers
  BY <1>1, <1>7, <1>10
<1>20. RenderFits(dma'[d], m_DmaBufInfo'[d], content'[d], known'[d])
  BY <1>10, <1>11
<1> QED
  BY <1>1, <1>6, <1>8, <1>9, <1>12, <1>13, <1>15, <1>16, <1>17, <1>18, <1>19, <1>20,
     SubmissionKeepsInv

(* SubmitCommand of the paging buffer that was built. *)
LEMMA SubmitPagingKeepsInv ==
  ASSUME DmaBufInv, NEW d \in PagingBuffers, SubmitPaging(d)
  PROVE  DmaBufInv'
<1> DEFINE s == [buf |-> d, failed |-> FALSE]
           use == [dma[d] EXCEPT !.state = "submitted"]
<1>1. d \in Buffers /\ TypesInv /\ dma[d].state = "building" /\ d \notin RenderBuffers
  BY ConstantsAssumption DEF Buffers, DmaBufInv, SubmitPaging, PagingPending
<1>2. PagingFits(dma[d], m_DmaBufInfo[d], content[d])
  BY DEF DmaBufInv, BufferInv
<1>3. /\ dma' = [dma EXCEPT ![d] = use]
      /\ m_dmaBufQueue' = Append(m_dmaBufQueue, s)
      /\ UNCHANGED <<m_DmaBufInfo, content, m_aperturePageTable, running, place, memory, backing,
                     known>>
  <2>1. dma' = [dma EXCEPT ![d] = use]
    BY DEF SubmitPaging
  <2> HIDE DEF use
  <2> QED
    BY <2>1 DEF SubmitPaging, QueueDmaBuffer, memoryVars
<1>4. use.state = "submitted" /\ use.cmd = dma[d].cmd
      /\ use \in Uses
  <2>1. dma[d] \in Uses
    BY <1>1 DEF TypesInv
  <2> QED
    BY <2>1 DEF Uses
<1>5. s \in Submissions /\ s.buf = d
  BY <1>1 DEF Submissions
<1> HIDE DEF use, s
<1>6. TypesInv'
  <2>1. m_dmaBufQueue' \in Seq(Submissions)
    BY <1>1, <1>3, <1>5 DEF TypesInv
  <2> QED
    BY <1>1, <1>3, <1>4, <2>1 DEF TypesInv
<1>7. dma'[d] = use
  BY <1>1, <1>3 DEF TypesInv
<1>8. PagingFits(dma'[d], m_DmaBufInfo'[d], content'[d])
  BY <1>1, <1>2, <1>3, <1>4, <1>7 DEF PagingFits
<1>9. OthersKept(d)
  BY <1>1, <1>3 DEF OthersKept, TypesInv, Aperture
<1>10. PICK T, e : Ahead(T, e)
  BY DEF DmaBufInv, TimeInv
<1>11. Plays(T[Len(Held)], content[d], e) /\ Sound(e)
  BY <1>1, <1>10 DEF Ahead, BuildsTo
<1>12. BuildsTo(e, e)'
  <2>1. \A b \in PagingBuffers : dma'[b].state # "building"
    <3>1. \A b \in PagingBuffers \ {d} : dma[b].state # "building" /\ b \in Buffers \ {d}
      BY <1>1 DEF DmaBufInv, BufferInv, Buffers
    <3> QED
      BY <1>4, <1>7, <1>9, <3>1 DEF OthersKept
  <2> QED
    BY <2>1 DEF BuildsTo
<1>13. Executes(s, dma'[d].cmd, m_DmaBufInfo'[d], content'[d], T[Len(Held)], e)
  BY <1>3, <1>5, <1>11 DEF Executes
<1>14. QueueDmaBuffer(s)
  BY <1>3 DEF QueueDmaBuffer
<1>15. dma[d].state # "submitted" /\ dma'[d].state = "submitted"
  BY <1>1, <1>4, <1>7
<1> QED
  BY <1>1, <1>3, <1>5, <1>6, <1>8, <1>9, <1>10, <1>11, <1>12, <1>13, <1>14, <1>15,
     SubmissionKeepsInv

(* BuildPagingBuffer adds an operation, and VidMm counts on its effect.    *)
LEMMA BuildKeepsInv ==
  ASSUME DmaBufInv, NEW d \in PagingBuffers, NEW op \in Operations, BuildPagingBuffer(d, op),
         place' \in [Allocations -> Places \cup {None}],
         \A e : Sound(e) /\ PlacedAt(e.memory) =>
                  Legal(e, op) /\ PlacedAt(Perform(e, op).memory)',
         UNCHANGED <<m_aperturePageTable, m_dmaBufQueue, running, memory, backing, known>>
  PROVE  DmaBufInv'
<1> DEFINE info == [FreshInfo EXCEPT !.m_bPaging = TRUE]
           use == [dma[d] EXCEPT !.state = "building"]
<1>1. d \in Buffers /\ TypesInv /\ d \notin RenderBuffers
  BY ConstantsAssumption DEF Buffers, DmaBufInv
<1>2. PagingFits(dma[d], m_DmaBufInfo[d], content[d])
  BY DEF DmaBufInv, BufferInv
<1>3. /\ dma[d].state \in {"free", "building"}
      /\ \A b \in PagingBuffers : dma[b].state = "building" => b = d
      /\ content' = [content EXCEPT ![d] = Append(content[d], op)]
      /\ dma' = [dma EXCEPT ![d] = use]
      /\ m_DmaBufInfo' = IF content[d] = << >> THEN [m_DmaBufInfo EXCEPT ![d] = info]
                         ELSE m_DmaBufInfo
  BY DEF BuildPagingBuffer, RoomForOperation
<1>4. use.state = "building"
      /\ use \in Uses
  <2>1. dma[d] \in Uses
    BY <1>1 DEF TypesInv
  <2> QED
    BY <2>1 DEF Uses
<1>5. info \in Infos /\ info.m_bPaging /\ Cardinality(info.selfRefs) <= MaxSelfRef
  <2>1. FreshInfo \in Infos /\ FreshInfo.selfRefs = {}
    BY DEF FreshInfo, Infos
  <2>2. Cardinality({}) = 0
    BY FS_EmptySet
  <2>3. info \in Infos /\ info.m_bPaging /\ info.selfRefs = FreshInfo.selfRefs
    BY <2>1 DEF Infos
  <2> HIDE DEF info
  <2> QED
    BY <2>1, <2>2, <2>3, ConstantsAssumption
<1> HIDE DEF info, use
<1>6. content[d] \in Seq(Operations) /\ Append(content[d], op) \in Seq(Operations)
      /\ Append(content[d], op) # << >>
  BY <1>2 DEF PagingFits
<1>7. TypesInv'
  BY <1>1, <1>3, <1>4, <1>5 DEF TypesInv
<1>8. dma'[d] = use /\ content'[d] = Append(content[d], op)
      /\ m_DmaBufInfo'[d] = IF content[d] = << >> THEN info ELSE m_DmaBufInfo[d]
  BY <1>1, <1>3 DEF TypesInv
<1>9. PagingFits(dma'[d], m_DmaBufInfo'[d], content'[d])
  BY <1>2, <1>4, <1>5, <1>6, <1>8 DEF PagingFits
<1>10. OthersKept(d)
  BY <1>1, <1>3 DEF OthersKept, TypesInv, Aperture
<1>11. Held' = Held /\ Len(Held) \in Nat /\ \A i \in 1 .. Len(Held) : Held[i].buf \in Buffers \ {d}
  <2>1. Held' = Held
    BY DEF Held
  <2>2. Len(Held) \in Nat /\ \A i \in 1 .. Len(Held) : Held[i].buf \in Buffers
    BY <1>1, HeldType
  <2>3. \A i \in 1 .. Len(Held) : Held[i].buf # d
    BY <1>3 DEF DmaBufInv, QueueInv
  <2> QED
    BY <2>1, <2>2, <2>3
<1>12. RenderBuffers \subseteq Buffers \ {d} /\ PagingBuffers \subseteq Buffers
  BY <1>1 DEF Buffers
<1>13. QueueInv'
  <2>1. \A i \in 1 .. Len(Held) : dma'[Held[i].buf] = dma[Held[i].buf]
    BY <1>11, <1>10 DEF OthersKept
  <2>2. \A b \in Buffers :
          dma'[b].state = "submitted" => \E i \in 1 .. Len(Held) : Held[i].buf = b
    BY <1>4, <1>8, <1>10 DEF OthersKept, DmaBufInv, QueueInv
  <2> QED
    BY <1>11, <2>1, <2>2 DEF DmaBufInv, QueueInv
<1>14. BufferInv'
  <2>1. ASSUME NEW b \in RenderBuffers
        PROVE  RenderFits(dma'[b], m_DmaBufInfo'[b], content'[b], known'[b])
    <3>1. RenderFits(dma[b], m_DmaBufInfo[b], content[b], known[b])
      BY DEF DmaBufInv, BufferInv
    <3>2. dma'[b] = dma[b] /\ m_DmaBufInfo'[b] = m_DmaBufInfo[b] /\ content'[b] = content[b]
          /\ known'[b] = known[b]
      BY <1>10, <1>12 DEF OthersKept
    <3> QED
      BY <3>1, <3>2
  <2>2. ASSUME NEW b \in PagingBuffers
        PROVE  PagingFits(dma'[b], m_DmaBufInfo'[b], content'[b])
    <3>1. CASE b = d
      BY <1>9, <3>1
    <3>2. CASE b # d
      <4>1. PagingFits(dma[b], m_DmaBufInfo[b], content[b])
        BY DEF DmaBufInv, BufferInv
      <4>2. dma'[b] = dma[b] /\ m_DmaBufInfo'[b] = m_DmaBufInfo[b] /\ content'[b] = content[b]
        BY <1>10, <1>12, <3>2 DEF OthersKept
      <4> QED
        BY <4>1, <4>2
    <3> QED
      BY <3>1, <3>2
  <2>3. \A b \in PagingBuffers : dma'[b].state = "building" => b = d
    BY <1>3, <1>10, <1>12 DEF OthersKept
  <2> QED
    BY <2>1, <2>2, <2>3 DEF BufferInv
<1>15. PageInv'
  <2>1. ASSUME NEW i \in 1 .. Len(Held), NEW b \in RenderBuffers, Held[i].buf = b, ~Held[i].failed
        PROVE  Aperture(b)' # {} /\ RefersToItself(b, dma'[b].cmd, content'[b])
    <3>1. b \in RenderBuffers \ {d} /\ b \in Buffers \ {d}
      BY <1>12
    <3>2. Aperture(b) # {} /\ RefersToItself(b, dma[b].cmd, content[b])
      BY <2>1 DEF DmaBufInv, PageInv
    <3> QED
      BY <1>10, <3>1, <3>2 DEF OthersKept
  <2> QED
    BY <1>11, <2>1 DEF PageInv
<1>16. TimeInv'
  <2>1. PICK T, e : Ahead(T, e)
    BY DEF DmaBufInv, TimeInv
  <2>2. PICK m : m = T[Len(Held)]
    OBVIOUS
  <2>3. PICK new : new = Perform(e, op)
    OBVIOUS
  <2>4. Sound(e) /\ PlacedAt(e.memory) /\ BuildsTo(m, e)
    BY <2>1, <2>2 DEF Ahead
  <2>5. Legal(e, op) /\ PlacedAt(Perform(e, op).memory)'
    BY <2>4
  <2>6. Sound(new)
    BY <2>3, <2>4, <2>5, PerformSound
  <2>7. Plays(m, content[d], e)
    <3>1. CASE dma[d].state = "building"
      BY <2>4, <3>1 DEF BuildsTo
    <3>2. CASE dma[d].state = "free"
      <4>1. content[d] = << >>
        BY <1>2, <3>2 DEF PagingFits
      <4>2. \A b \in PagingBuffers : dma[b].state # "building"
        BY <1>3, <3>2
      <4>3. e = m
        BY <2>4, <4>2 DEF BuildsTo
      <4> QED
        BY <4>1, <4>3, PlaysNothing
    <3> QED
      BY <1>3, <3>1, <3>2
  <2>8. Plays(m, content'[d], new)
    BY <1>6, <1>8, <2>3, <2>5, <2>7, PlaysAppend
  <2>9. BuildsTo(m, new)'
    <3>1. \A b \in PagingBuffers : dma'[b].state = "building" => b = d
      BY <1>3, <1>10, <1>12 DEF OthersKept
    <3>2. dma'[d].state = "building"
      BY <1>4, <1>8
    <3> QED
      BY <2>8, <3>1, <3>2 DEF BuildsTo
  <2>10. PlacedAt(new.memory)'
    BY <2>3, <2>5 DEF PlacedAt
  <2>11. ExecutesInTurn(T)'
    <3>1. \A i \in 1 .. Len(Held) :
            /\ dma'[Held[i].buf] = dma[Held[i].buf]
            /\ m_DmaBufInfo'[Held[i].buf] = m_DmaBufInfo[Held[i].buf]
            /\ content'[Held[i].buf] = content[Held[i].buf]
      BY <1>10, <1>11 DEF OthersKept
    <3> QED
      BY <1>11, <2>1, <3>1 DEF Ahead, ExecutesInTurn
  <2>12. Now' = Now
    BY DEF Now
  <2>13. BuildsTo(T[Len(Held)], new)'
    BY <1>11, <2>2, <2>9 DEF BuildsTo
  <2>14. T[0] = Now' /\ \A i \in 0 .. Len(Held)' : Sound(T[i])
    BY <1>11, <2>1, <2>12 DEF Ahead
  <2>15. Ahead(T, new)'
    BY <2>6, <2>10, <2>11, <2>13, <2>14 DEF Ahead
  <2> QED
    BY <2>15 DEF TimeInv
<1> QED
  BY <1>7, <1>13, <1>14, <1>15, <1>16 DEF DmaBufInv

(* VidMm pages in to a place where, by then, there is no data. *)
LEMMA PageInKeepsInv ==
  ASSUME DmaBufInv, NEW d \in PagingBuffers, NEW a \in Allocations, NEW p \in Places,
         PageIn(d, a, p)
  PROVE  DmaBufInv'
<1> DEFINE op == [op |-> "in", alloc |-> a, place |-> p]
<1>1. op \in Operations /\ op.op = "in" /\ op.alloc = a /\ op.place = p
  BY DEF Operations
<1>2. /\ place \in [Allocations -> Places \cup {None}]
      /\ place[a] = None /\ \A b \in Allocations : place[b] # p
      /\ place' = [place EXCEPT ![a] = p]
      /\ BuildPagingBuffer(d, op)
      /\ UNCHANGED <<m_aperturePageTable, m_dmaBufQueue, running, memory, backing, known>>
  BY DEF PageIn, DmaBufInv, TypesInv, memoryVars
<1> HIDE DEF op
<1>3. place' \in [Allocations -> Places \cup {None}]
  BY <1>2
<1>4. ASSUME NEW e, Sound(e), PlacedAt(e.memory)
      PROVE  Legal(e, op) /\ PlacedAt(Perform(e, op).memory)'
  <2>1. e.memory \in [Places -> Allocations \cup {None}]
    BY <1>4 DEF Sound, MemoryStates
  <2>2. e.memory[p] = None
    BY <1>2, <1>4, <2>1 DEF PlacedAt
  <2>3. Perform(e, op).memory = [e.memory EXCEPT ![p] = a]
    BY <1>1 DEF Perform
  <2>4. ASSUME NEW b \in Allocations, NEW q \in Places
        PROVE  place'[b] = q <=> [e.memory EXCEPT ![p] = a][q] = b
    <3>1. place[b] = q <=> e.memory[q] = b
      BY <1>4 DEF PlacedAt
    <3>2. place[b] # p /\ e.memory[q] # a
      <4>1. p # None /\ q # None
        BY ConstantsAssumption
      <4>2. place[a] # q
        BY <1>2, <4>1
      <4> QED
        BY <1>2, <1>4, <4>2 DEF PlacedAt
    <3> QED
      BY <1>2, <2>1, <3>1, <3>2
  <2> QED
    BY <1>1, <2>2, <2>3, <2>4 DEF Legal, PlacedAt
<1> QED
  BY <1>1, <1>2, <1>3, <1>4, BuildKeepsInv

(* It evicts from the place where, by then, the data is. *)
LEMMA EvictKeepsInv ==
  ASSUME DmaBufInv, NEW d \in PagingBuffers, NEW a \in Allocations, Evict(d, a)
  PROVE  DmaBufInv'
<1>0. PICK p \in Places : p = place[a]
  BY DEF Evict, DmaBufInv, TypesInv
<1> DEFINE op == [op |-> "out", alloc |-> a, place |-> p]
<1>1. /\ place \in [Allocations -> Places \cup {None}]
      /\ place[a] = p
      /\ place' = [place EXCEPT ![a] = None]
      /\ BuildPagingBuffer(d, op)
      /\ UNCHANGED <<m_aperturePageTable, m_dmaBufQueue, running, memory, backing, known>>
  BY <1>0 DEF Evict, DmaBufInv, TypesInv, memoryVars
<1>2. op \in Operations /\ op.op = "out" /\ op.alloc = a /\ op.place = p
  BY DEF Operations
<1> HIDE DEF op
<1>3. place' \in [Allocations -> Places \cup {None}]
  BY <1>1
<1>4. ASSUME NEW e, Sound(e), PlacedAt(e.memory)
      PROVE  Legal(e, op) /\ PlacedAt(Perform(e, op).memory)'
  <2>1. e.memory \in [Places -> Allocations \cup {None}]
    BY <1>4 DEF Sound, MemoryStates
  <2>2. e.memory[p] = a
    BY <1>1, <1>4 DEF PlacedAt
  <2>3. Perform(e, op).memory = [e.memory EXCEPT ![p] = None]
    BY <1>2 DEF Perform
  <2>4. ASSUME NEW b \in Allocations, NEW q \in Places
        PROVE  place'[b] = q <=> [e.memory EXCEPT ![p] = None][q] = b
    <3>1. place[b] = q <=> e.memory[q] = b
      BY <1>4 DEF PlacedAt
    <3>2. b # None /\ q # None
      BY ConstantsAssumption
    <3>3. CASE b = a
      <4>1. e.memory[q] = a => q = p
        BY <1>1, <3>1, <3>3
      <4>2. place'[b] # q
        BY <1>1, <3>2, <3>3
      <4>3. [e.memory EXCEPT ![p] = None][q] # b
        BY <2>1, <3>2, <3>3, <4>1
      <4> QED
        BY <4>2, <4>3
    <3>4. CASE b # a
      BY <1>1, <2>1, <2>2, <3>1, <3>2, <3>4
    <3> QED
      BY <3>3, <3>4
  <2>5. Legal(e, op)
    BY <1>2, <2>2 DEF Legal
  <2>6. PlacedAt(Perform(e, op).memory)'
    BY <2>3, <2>4 DEF PlacedAt
  <2> QED
    BY <2>5, <2>6
<1> QED
  BY <1>1, <1>2, <1>3, <1>4, BuildKeepsInv

-----------------------------------------------------------------------------
(* Execution. *)

(* DoWork takes the first of the queue: the submissions held are the same. *)
LEMMA DequeueKeepsInv ==
  ASSUME DmaBufInv, DequeueDmaBuffer
  PROVE  DmaBufInv'
<1>1. /\ UNCHANGED <<m_DmaBufInfo, content, m_aperturePageTable, memory, backing, place, dma,
                     known>>
      /\ m_dmaBufQueue \in Seq(Submissions) /\ m_dmaBufQueue # << >> /\ running = None
      /\ running' = Head(m_dmaBufQueue) /\ m_dmaBufQueue' = Tail(m_dmaBufQueue)
  BY DEF DequeueDmaBuffer, DmaBufInv, TypesInv, memoryVars, dxgkrnlVars
<1>2. running' \in Submissions /\ m_dmaBufQueue' \in Seq(Submissions)
  BY <1>1
<1>3. running' # None
  BY <1>2, ConstantsAssumption
<1>4. Held' = Held
  <2>1. Held = m_dmaBufQueue
    BY <1>1 DEF Held
  <2>2. Held' = <<Head(m_dmaBufQueue)>> \o Tail(m_dmaBufQueue)
    BY <1>1, <1>3 DEF Held
  <2>3. <<Head(m_dmaBufQueue)>> \o Tail(m_dmaBufQueue) = m_dmaBufQueue
    BY <1>1
  <2> QED
    BY <2>1, <2>2, <2>3
<1>5. TypesInv'
  BY <1>1, <1>2 DEF DmaBufInv, TypesInv
<1>6. QueueInv'
  BY <1>1, <1>4 DEF DmaBufInv, QueueInv
<1>7. BufferInv'
  BY <1>1 DEF DmaBufInv, BufferInv
<1>8. PageInv'
  <2>1. ASSUME NEW b
        PROVE  Aperture(b)' = Aperture(b)
    BY <1>1 DEF Aperture
  <2> QED
    BY <1>1, <1>4, <2>1 DEF DmaBufInv, PageInv
<1>9. TimeInv'
  <2>1. PICK T, e : Ahead(T, e)
    BY DEF DmaBufInv, TimeInv
  <2>2. ExecutesInTurn(T)'
    BY <1>1, <1>4, <2>1 DEF Ahead, ExecutesInTurn
  <2>3. BuildsTo(T[Len(Held)], e)' /\ PlacedAt(e.memory)'
    BY <1>1, <1>4, <2>1 DEF Ahead, BuildsTo, PlacedAt
  <2>4. T[0] = Now' /\ Sound(e) /\ \A i \in 0 .. Len(Held)' : Sound(T[i])
    BY <1>1, <1>4, <2>1 DEF Ahead, Now
  <2>5. Ahead(T, e)'
    BY <2>2, <2>3, <2>4 DEF Ahead
  <2> QED
    BY <2>5 DEF TimeInv
<1> QED
  BY <1>5, <1>6, <1>7, <1>8, <1>9 DEF DmaBufInv

(* The worker has executed its submission: the memory is what was foreseen *)
(* for this time, and the buffer is dxgkrnl's again.                       *)
LEMMA CompletionKeepsInv ==
  ASSUME DmaBufInv, running # None, NotifyDmaBufCompletion(running.buf), running' = None,
         UNCHANGED <<m_DmaBufInfo, m_aperturePageTable, m_dmaBufQueue, place>>,
         NEW T, NEW e, Ahead(T, e), Now' = T[1]
  PROVE  DmaBufInv'
<1>1. PICK d : d = running.buf
  OBVIOUS
<1>2. PICK n \in Nat : n = Len(m_dmaBufQueue)
  BY DEF DmaBufInv, TypesInv
<1>3. /\ Len(Held) = n + 1 /\ Held[1] = running /\ running \in Submissions
      /\ Held' = m_dmaBufQueue /\ Len(Held)' = n
      /\ \A i \in 1 .. n : i + 1 \in 1 .. n + 1 /\ Held'[i] = Held[i + 1]
  BY <1>2 DEF DmaBufInv, TypesInv, Held
<1>4. d \in Buffers
  BY <1>1, <1>3 DEF Submissions
<1> DEFINE use == [state |-> "free", cmd |-> None]
<1>5. /\ dma' = [dma EXCEPT ![d] = use]
      /\ content' = [content EXCEPT ![d] = << >>]
      /\ known' = IF d \in RenderBuffers THEN [known EXCEPT ![d] = << >>] ELSE known
  BY <1>1 DEF NotifyDmaBufCompletion
<1>6. TypesInv'
  BY <1>4, <1>5 DEF DmaBufInv, TypesInv, Uses
<1>7. /\ dma'[d].state = "free" /\ content'[d] = << >>
      /\ \A b \in Buffers \ {d} : dma'[b] = dma[b] /\ content'[b] = content[b]
      /\ \A b \in RenderBuffers \ {d} : known'[b] = known[b]
  BY <1>4, <1>5 DEF DmaBufInv, TypesInv
<1>8. \A i \in 1 .. n : Held[i + 1].buf \in Buffers \ {d}
  <2>1. \A i \in 1 .. n + 1 : Held[i].buf \in Buffers
    BY <1>3, HeldType DEF DmaBufInv
  <2>2. ASSUME NEW i \in 1 .. n
        PROVE  Held[i + 1].buf # d
    <3>1. i + 1 \in 1 .. n + 1 /\ 1 \in 1 .. n + 1 /\ i + 1 # 1
      BY <1>2
    <3>2. \A j, k \in 1 .. n + 1 : Held[j].buf = Held[k].buf => j = k
      BY <1>3 DEF DmaBufInv, QueueInv
    <3> QED
      BY <1>1, <1>3, <3>1, <3>2
  <2> QED
    BY <1>3, <2>1, <2>2
<1>9. RenderBuffers \subseteq Buffers /\ PagingBuffers \subseteq Buffers
  BY DEF Buffers
<1> HIDE DEF use
<1>10. QueueInv'
  <2>1. ASSUME NEW i \in 1 .. n, NEW j \in 1 .. n, Held'[i].buf = Held'[j].buf
        PROVE  i = j
    <3>1. \A k, l \in 1 .. n + 1 : Held[k].buf = Held[l].buf => k = l
      BY <1>3 DEF DmaBufInv, QueueInv
    <3>2. i + 1 = j + 1
      BY <1>3, <2>1, <3>1
    <3> QED
      BY <3>2
  <2>2. \A i \in 1 .. n : dma'[Held'[i].buf].state = "submitted"
    <3>1. \A i \in 1 .. n : Held'[i].buf \in Buffers \ {d} /\ dma[Held'[i].buf].state = "submitted"
      BY <1>3, <1>8 DEF DmaBufInv, QueueInv
    <3> QED
      BY <1>7, <3>1
  <2>3. ASSUME NEW b \in Buffers, dma'[b].state = "submitted"
        PROVE  \E i \in 1 .. n : Held'[i].buf = b
    <3>1. b # d /\ dma[b].state = "submitted"
      BY <1>7, <2>3
    <3>2. PICK k \in 1 .. n + 1 : Held[k].buf = b
      BY <1>3, <3>1 DEF DmaBufInv, QueueInv
    <3>3. k # 1
      BY <1>1, <1>3, <3>1, <3>2
    <3>4. k - 1 \in 1 .. n /\ (k - 1) + 1 = k
      BY <3>3
    <3> QED
      BY <1>3, <3>2, <3>4
  <2> QED
    BY <1>3, <2>1, <2>2, <2>3 DEF QueueInv
<1>11. BufferInv'
  <2>1. ASSUME NEW b \in RenderBuffers
        PROVE  RenderFits(dma'[b], m_DmaBufInfo[b], content'[b], known'[b])
    <3>1. RenderFits(dma[b], m_DmaBufInfo[b], content[b], known[b])
      BY DEF DmaBufInv, BufferInv
    <3>2. CASE b = d
      BY <1>7, <3>1, <3>2 DEF RenderFits
    <3>3. CASE b # d
      BY <1>7, <1>9, <3>1, <3>3
    <3> QED
      BY <3>2, <3>3
  <2>2. ASSUME NEW b \in PagingBuffers
        PROVE  PagingFits(dma'[b], m_DmaBufInfo[b], content'[b])
    <3>1. PagingFits(dma[b], m_DmaBufInfo[b], content[b])
      BY DEF DmaBufInv, BufferInv
    <3>2. CASE b = d
      <4>1. dma'[b].state = "free" /\ content'[b] = << >>
        BY <1>7, <3>2
      <4>2. << >> \in Seq(Operations)
        OBVIOUS
      <4>3. Cardinality(m_DmaBufInfo[b].selfRefs) <= MaxSelfRef
        BY <3>1 DEF PagingFits
      <4> QED
        BY <4>1, <4>2, <4>3 DEF PagingFits
    <3>3. CASE b # d
      BY <1>7, <1>9, <3>1, <3>3
    <3> QED
      BY <3>2, <3>3
  <2>3. \A b, c \in PagingBuffers :
          dma'[b].state = "building" /\ dma'[c].state = "building" => b = c
    BY <1>7, <1>9 DEF DmaBufInv, BufferInv
  <2> QED
    BY <2>1, <2>2, <2>3 DEF BufferInv
<1>12. PageInv'
  <2>1. ASSUME NEW i \in 1 .. n, NEW b \in RenderBuffers, Held'[i].buf = b, ~Held'[i].failed
        PROVE  Aperture(b)' # {} /\ RefersToItself(b, dma'[b].cmd, content'[b])
    <3>1. Aperture(b)' = Aperture(b)
      BY DEF Aperture
    <3>2. Aperture(b) # {} /\ RefersToItself(b, dma[b].cmd, content[b])
      BY <1>3, <2>1 DEF DmaBufInv, PageInv
    <3>3. dma'[b] = dma[b] /\ content'[b] = content[b]
      BY <1>3, <1>7, <1>8, <2>1
    <3> QED
      BY <3>1, <3>2, <3>3
  <2> QED
    BY <1>3, <2>1 DEF PageInv
<1>13. TimeInv'
  <2>1. PICK U : U = [i \in 0 .. n |-> T[i + 1]]
    OBVIOUS
  <2>2. U[0] = T[1] /\ U[n] = T[n + 1] /\ \A i \in 0 .. n : U[i] = T[i + 1]
    BY <2>1
  <2>3. \A i \in 0 .. n : i + 1 \in 0 .. n + 1
    OBVIOUS
  <2>4. \A i \in 0 .. n : Sound(U[i])
    BY <1>3, <2>2, <2>3 DEF Ahead
  <2>5. ASSUME NEW i \in 1 .. n
        PROVE  Executes(Held'[i], dma'[Held'[i].buf].cmd, m_DmaBufInfo[Held'[i].buf],
                        content'[Held'[i].buf], U[i - 1], U[i])
    <3>1. U[i] = T[i + 1] /\ U[i - 1] = T[(i + 1) - 1] /\ i + 1 \in 1 .. n + 1
          /\ Held'[i] = Held[i + 1]
      BY <1>3, <2>2
    <3>2. Executes(Held[i + 1], dma[Held[i + 1].buf].cmd, m_DmaBufInfo[Held[i + 1].buf],
                   content[Held[i + 1].buf], T[(i + 1) - 1], T[i + 1])
      BY <1>3, <3>1 DEF Ahead, ExecutesInTurn
    <3>3. dma'[Held[i + 1].buf] = dma[Held[i + 1].buf]
          /\ content'[Held[i + 1].buf] = content[Held[i + 1].buf]
      BY <1>7, <1>8
    <3> QED
      BY <3>1, <3>2, <3>3
  <2>6. ExecutesInTurn(U)'
    BY <1>3, <2>5 DEF ExecutesInTurn
  <2>7. BuildsTo(U[Len(Held)], e)'
    <3>1. BuildsTo(T[n + 1], e)
      BY <1>3 DEF Ahead
    <3>2. dma[d].state = "submitted"
      BY <1>1, <1>3 DEF DmaBufInv, QueueInv
    <3>3. \A b \in PagingBuffers :
            /\ dma'[b].state = "building" <=> dma[b].state = "building"
            /\ dma[b].state = "building" => content'[b] = content[b]
      BY <1>7, <1>9, <3>2
    <3> QED
      BY <1>3, <2>2, <3>1, <3>3 DEF BuildsTo
  <2>8. Sound(e) /\ PlacedAt(e.memory)'
    BY DEF Ahead, PlacedAt
  <2>9. Ahead(U, e)'
    BY <1>3, <2>2, <2>4, <2>6, <2>7, <2>8 DEF Ahead
  <2> QED
    BY <2>9 DEF TimeInv
<1> QED
  BY <1>6, <1>10, <1>11, <1>12, <1>13 DEF DmaBufInv

(* ProcessPagingBuffer leaves the memory that was foreseen. *)
LEMMA ProcessPagingKeepsInv ==
  ASSUME DmaBufInv, ProcessPagingBuffer
  PROVE  DmaBufInv'
<1>1. PICK d : d = running.buf
  OBVIOUS
<1>2. /\ running # None /\ m_DmaBufInfo[d].m_bPaging
      /\ NotifyDmaBufCompletion(running.buf) /\ running' = None
      /\ UNCHANGED <<m_DmaBufInfo, m_aperturePageTable, m_dmaBufQueue, place>>
  BY <1>1 DEF ProcessPagingBuffer
<1>3. Len(Held) \in Nat \ {0} /\ Held[1] = running /\ running \in Submissions
  BY <1>2, RunningIsFirst DEF DmaBufInv
<1>4. d \in PagingBuffers
  <2>1. d \in Buffers
    BY <1>1, <1>3 DEF Submissions
  <2>2. \A b \in RenderBuffers : ~m_DmaBufInfo[b].m_bPaging
    BY DEF DmaBufInv, BufferInv, RenderFits
  <2> QED
    BY <1>2, <2>1, <2>2 DEF Buffers
<1>5. PICK T, e : Ahead(T, e)
  BY DEF DmaBufInv, TimeInv
<1>6. T[0] = Now /\ Sound(T[1])
  BY <1>3, <1>5 DEF Ahead
<1>7. Plays(T[0], content[d], T[1])
  <2>1. Executes(Held[1], dma[Held[1].buf].cmd, m_DmaBufInfo[Held[1].buf],
                 content[Held[1].buf], T[0], T[1])
    BY <1>3, <1>5 DEF Ahead, ExecutesInTurn
  <2> QED
    BY <1>1, <1>3, <1>4, <2>1 DEF Executes
<1>8. content[d] \in Seq(Operations)
  BY <1>4 DEF DmaBufInv, BufferInv, PagingFits
<1>9. FoldLeft(Perform, T[0], content[d]) = T[1]
  BY <1>7, <1>8, PlaysIsFold
<1>10. memory' = T[1].memory /\ backing' = T[1].backing
  <2>1. LET m == FoldLeft(Perform, [memory |-> memory, backing |-> backing], content[d]) IN
        memory' = m.memory /\ backing' = m.backing
    BY <1>1 DEF ProcessPagingBuffer
  <2> QED
    BY <1>6, <1>9, <2>1 DEF Now
<1>11. Now' = T[1]
  <2>1. T[1] = [memory |-> T[1].memory, backing |-> T[1].backing]
    BY <1>6 DEF Sound, MemoryStates
  <2> QED
    BY <1>10, <2>1 DEF Now
<1> QED
  BY <1>2, <1>5, <1>11, CompletionKeepsInv

(* ProcessRenderBuffer leaves the data of the allocations theirs. *)
LEMMA ProcessRenderKeepsInv ==
  ASSUME DmaBufInv, ProcessRenderBuffer
  PROVE  DmaBufInv'
<1>1. PICK d : d = running.buf
  OBVIOUS
<1>2. /\ running # None /\ ~m_DmaBufInfo[d].m_bPaging
      /\ NotifyDmaBufCompletion(running.buf) /\ running' = None
      /\ UNCHANGED <<m_DmaBufInfo, m_aperturePageTable, m_dmaBufQueue, place, memory, backing>>
  BY <1>1 DEF ProcessRenderBuffer, memoryVars
<1>3. Len(Held) \in Nat \ {0} /\ Held[1] = running
  BY <1>2, RunningIsFirst DEF DmaBufInv
<1>4. d \notin PagingBuffers
  <2>1. dma[d].state = "submitted"
    BY <1>1, <1>3 DEF DmaBufInv, QueueInv
  <2> QED
    BY <1>2, <2>1 DEF DmaBufInv, BufferInv, PagingFits
<1>5. PICK T, e : Ahead(T, e)
  BY DEF DmaBufInv, TimeInv
<1>6. T[1] = T[0]
  <2>1. Executes(Held[1], dma[Held[1].buf].cmd, m_DmaBufInfo[Held[1].buf],
                 content[Held[1].buf], T[0], T[1])
    BY <1>3, <1>5 DEF Ahead, ExecutesInTurn
  <2> QED
    BY <1>1, <1>3, <1>4, <2>1 DEF Executes
<1>7. Now' = T[1]
  BY <1>2, <1>5, <1>6 DEF Ahead, Now
<1> QED
  BY <1>2, <1>5, <1>7, CompletionKeepsInv

-----------------------------------------------------------------------------
(* The theorems. *)

(* In the beginning nothing is submitted and all data is in system memory. *)
LEMMA InitEstablishesInv == Init => DmaBufInv
<1> SUFFICES ASSUME Init
             PROVE  DmaBufInv
  OBVIOUS
<1>1. Held = << >> /\ Len(Held) = 0
  BY DEF Init, Held
<1>2. FreshInfo \in Infos /\ ~FreshInfo.m_bPaging /\ Cardinality(FreshInfo.selfRefs) <= MaxSelfRef
  <2>1. FreshInfo \in Infos /\ ~FreshInfo.m_bPaging /\ FreshInfo.selfRefs = {}
    BY DEF FreshInfo, Infos
  <2> QED
    BY <2>1, FS_EmptySet, ConstantsAssumption
<1>3. TypesInv
  BY <1>2 DEF Init, TypesInv, Uses
<1>4. QueueInv
  BY <1>1 DEF Init, QueueInv
<1>5. BufferInv
  <2>1. RenderBuffers \subseteq Buffers /\ PagingBuffers \subseteq Buffers
    BY DEF Buffers
  <2>2. \A d \in Buffers :
          dma[d].state = "free" /\ content[d] = << >> /\ m_DmaBufInfo[d] = FreshInfo
    BY DEF Init
  <2>3. << >> \in Seq(Operations)
    OBVIOUS
  <2>4. \A d \in RenderBuffers : RenderFits(dma[d], m_DmaBufInfo[d], content[d], known[d])
    BY <1>2, <2>1, <2>2 DEF RenderFits
  <2>5. \A d \in PagingBuffers : PagingFits(dma[d], m_DmaBufInfo[d], content[d])
    BY <1>2, <2>1, <2>2, <2>3 DEF PagingFits
  <2>6. \A d \in PagingBuffers : dma[d].state # "building"
    BY <2>1, <2>2
  <2> QED
    BY <2>4, <2>5, <2>6 DEF BufferInv
<1>6. PageInv
  BY <1>1 DEF PageInv
<1>7. TimeInv
  <2>1. Now = [memory |-> [p \in Places |-> None], backing |-> Allocations]
    BY DEF Init, Now
  <2>2. Sound(Now)
    BY <2>1 DEF Sound, MemoryStates
  <2>3. PICK T : T = [i \in {0} |-> Now]
    OBVIOUS
  <2>4. T[0] = Now /\ \A i \in 0 .. Len(Held) : Sound(T[i])
    BY <1>1, <2>2, <2>3
  <2>5. ExecutesInTurn(T)
    BY <1>1 DEF ExecutesInTurn
  <2>6. BuildsTo(T[Len(Held)], Now)
    BY <1>1, <2>4 DEF BuildsTo, Init, Buffers
  <2>7. PlacedAt(Now.memory)
    <3>1. ASSUME NEW a \in Allocations, NEW p \in Places
          PROVE  place[a] # p /\ Now.memory[p] # a
      BY <2>1, ConstantsAssumption DEF Init
    <3> QED
      BY <3>1 DEF PlacedAt
  <2>8. Ahead(T, Now)
    BY <2>2, <2>4, <2>5, <2>6, <2>7 DEF Ahead
  <2> QED
    BY <2>8 DEF TimeInv
<1> QED
  BY <1>3, <1>4, <1>5, <1>6, <1>7 DEF DmaBufInv

(* No step of the driver, of dxgkrnl or of the worker breaks it. *)
LEMMA NextKeepsInv == DmaBufInv /\ [Next]_vars => DmaBufInv'
<1> SUFFICES ASSUME DmaBufInv, [Next]_vars
             PROVE  DmaBufInv'
  OBVIOUS
<1>1. CASE \E d \in RenderBuffers, cmd \in Commands : Render(d, cmd)
  BY <1>1, RenderKeepsInv
<1>2. CASE \E d \in RenderBuffers, cmd \in Commands : RenderRejected(d, cmd)
  BY <1>2, RenderRejectedKeepsInv
<1>3. CASE \E d \in RenderBuffers : Patch(d)
  BY <1>3, PatchKeepsInv
<1>4. CASE \E d \in RenderBuffers : SubmitRender(d)
  BY <1>4, SubmitRenderKeepsInv
<1>5. CASE \E d \in RenderBuffers : SubmitFailed(d)
  BY <1>5, SubmitFailedKeepsInv
<1>6. CASE \E d \in RenderBuffers : UnmapApertureSegment(d)
  BY <1>6, UnmapKeepsInv
<1>7. CASE \E d \in RenderBuffers, o \in ApertureOffsets : MapApertureSegment(d, o)
  BY <1>7, MapKeepsInv
<1>8. CASE \E d \in PagingBuffers : SubmitPaging(d)
  BY <1>8, SubmitPagingKeepsInv
<1>9. CASE \E d \in PagingBuffers, a \in Allocations : Evict(d, a)
  BY <1>9, EvictKeepsInv
<1>10. CASE \E d \in PagingBuffers, a \in Allocations : \E p \in Places : PageIn(d, a, p)
  BY <1>10, PageInKeepsInv
<1>11. CASE DequeueDmaBuffer
  BY <1>11, DequeueKeepsInv
<1>12. CASE ProcessPagingBuffer
  BY <1>12, ProcessPagingKeepsInv
<1>13. CASE ProcessRenderBuffer
  BY <1>13, ProcessRenderKeepsInv
<1>14. CASE UNCHANGED vars
  <2>1. UNCHANGED <<m_DmaBufInfo, content, m_aperturePageTable, m_dmaBufQueue, running, memory,
                    backing, place, dma, known>>
    BY <1>14 DEF vars, driverVars, memoryVars, dxgkrnlVars
  <2>2. TypesInv' /\ Held' = Held
    BY <2>1 DEF DmaBufInv, TypesInv, Held
  <2>3. QueueInv' /\ BufferInv'
    BY <2>1, <2>2 DEF DmaBufInv, QueueInv, BufferInv
  <2>4. PageInv'
    <3>1. ASSUME NEW b
          PROVE  Aperture(b)' = Aperture(b)
      BY <2>1 DEF Aperture
    <3> QED
      BY <2>1, <2>2, <3>1 DEF DmaBufInv, PageInv
  <2>5. TimeInv'
    <3>1. PICK T, e : Ahead(T, e)
      BY DEF DmaBufInv, TimeInv
    <3>2. Ahead(T, e)'
      BY <2>1, <2>2, <3>1 DEF Ahead, Now, ExecutesInTurn, BuildsTo, PlacedAt
    <3> QED
      BY <3>2 DEF TimeInv
  <2> QED
    BY <2>2, <2>3, <2>4, <2>5 DEF DmaBufInv
<1> QED
  BY <1>1, <1>2, <1>3, <1>4, <1>5, <1>6, <1>7, <1>8, <1>9, <1>10, <1>11, <1>12, <1>13, <1>14
     DEF Next

(* The invariant holds throughout. *)
THEOREM DmaBufInvHolds == Spec => []DmaBufInv
  BY InitEstablishesInv, NextKeepsInv, PTL DEF Spec

(* The driver's structures have their types, and the worker and the queue  *)
(* hold what SubmitCommand was given, each buffer once.                    *)
THEOREM QueueHoldsSubmitted == Spec => []TypeOK
  BY DmaBufInvHolds, InvTypeOK, PTL

(* Every address in a buffer that is executed leads to the data of the     *)
(* allocation it was rendered with, whatever VidMm does in between.        *)
THEOREM BuffersReadTheirData == Spec => []ExecutesOnOwnData
  BY DmaBufInvHolds, InvExecutesOnOwnData, PTL

(* A buffer refers to itself where it is, and its private data has room.   *)
THEOREM SelfReferencesHold == Spec => []SelfReferencesAreOwn
  BY DmaBufInvHolds, InvSelfReferencesAreOwn, PTL

(* The private data that Render fills is never another command buffer's.   *)
THEOREM PrivateDataIsNotStale == Spec => []PrivateDataIsOwn
  BY DmaBufInvHolds, InvPrivateDataIsOwn, PTL

(* No sequence of paging buffers loses the data of an allocation. *)
THEOREM PagingKeepsData == Spec => []NoDataLost
  BY DmaBufInvHolds, InvNoDataLost, PTL
=============================================================================
