--------------------------- MODULE RefCHeapProofs ---------------------------
(***************************************************************************)
(* Proofs about RefCHeap: counting, the inductive invariant, steps that    *)
(* touch only what the innermost activation may touch, one lemma for each  *)
(* operation, the theorems, and what is reachable in a heap that satisfies *)
(* the invariant.                                                          *)
(***************************************************************************)
EXTENDS RefCHeap, TLAPS, FiniteSetTheorems, WellFoundedInduction


\* The slots of the three kinds are slots, and there are no others.
LEMMA SlotKinds ==
  /\ \A x \in Var : V(x) \in Slot
  /\ \A a \in Addr, i \in Field : F(a, i) \in Slot
  /\ \A k \in Frame : K(k) \in Slot
  /\ \A s \in Slot : \/ \E x \in Var : s = V(x)
                     \/ \E a \in Addr, i \in Field : s = F(a, i)
                     \/ \E k \in Frame : s = K(k)
BY DEF Slot, V, F, K

\* Slots of different kinds, or of different things, are different.
LEMMA SlotDistinct ==
  /\ \A x, y : V(x) = V(y) => x = y
  /\ \A a, b, i, j : F(a, i) = F(b, j) => a = b /\ i = j
  /\ \A j, k : K(j) = K(k) => j = k
  /\ \A x, a, i : V(x) # F(a, i)
  /\ \A x, k : V(x) # K(k)
  /\ \A a, i, k : F(a, i) # K(k)
BY DEF V, F, K

\* The components of slots.
LEMMA SlotParts ==
  /\ \A x : V(x)[2] = x
  /\ \A a, i : F(a, i)[3] = i
BY DEF V, F

\* There are finitely many slots.
LEMMA SlotFinite == IsFiniteSet(Slot)
<1> DEFINE A == {"var"} \X Var \X {0}
           B == {"fld"} \X Addr \X Field
           C == {"frm"} \X Frame \X {0}
<1>0. /\ IsFiniteSet({"var"}) /\ IsFiniteSet({"fld"}) /\ IsFiniteSet({"frm"})
      /\ IsFiniteSet({0}) /\ IsFiniteSet(Field) /\ IsFiniteSet(Frame)
      /\ IsFiniteSet(Var) /\ IsFiniteSet(Addr)
  <2>1. IsFiniteSet(Field) /\ IsFiniteSet(Frame)
    BY FS_Interval, HeapAssumption DEF Field, Frame
  <2> QED
    BY <2>1, FS_Singleton, HeapAssumption
<1>1. ASSUME NEW P, NEW Q, NEW R, IsFiniteSet(P), IsFiniteSet(Q), IsFiniteSet(R)
      PROVE IsFiniteSet(P \X Q \X R)
  <2>1. IsFiniteSet((P \X Q) \X R)
    BY <1>1, FS_Product
  <2> DEFINE f == [p \in (P \X Q) \X R |-> <<p[1][1], p[1][2], p[2]>>]
  <2>2. f \in Surjection((P \X Q) \X R, P \X Q \X R)
    <3>1. f \in [(P \X Q) \X R -> P \X Q \X R]
      OBVIOUS
    <3>2. ASSUME NEW t \in P \X Q \X R
          PROVE \E p \in (P \X Q) \X R : f[p] = t
      <4>1. <<<<t[1], t[2]>>, t[3]>> \in (P \X Q) \X R
        OBVIOUS
      <4>2. f[<<<<t[1], t[2]>>, t[3]>>] = t
        OBVIOUS
      <4> QED
        BY <4>1, <4>2
    <3> HIDE DEF f
    <3> QED
      BY <3>1, <3>2 DEF Surjection
  <2> QED
    BY <2>1, <2>2, FS_Surjection
<1>2. IsFiniteSet(A) /\ IsFiniteSet(B) /\ IsFiniteSet(C)
  BY <1>0, <1>1
<1> HIDE DEF A, B, C
<1>3. IsFiniteSet((A \cup B) \cup C)
  BY <1>2, FS_Union
<1>4. Slot = (A \cup B) \cup C
  BY DEF A, B, C, Slot
<1> QED
  BY <1>3, <1>4

-----------------------------------------------------------------------------
(***************************************************************************)
(* The counters c are the number of references in r, except those that     *)
(* have reached the maximum.                                               *)
(***************************************************************************)
Counted(r, c) ==
    \A a \in Addr : c[a] # RefMax => Cardinality(RefsTo(r, a)) = c[a]

Exact(r, c) == /\ r \in [Slot -> Ref]
               /\ c \in [Addr -> 0..RefMax]
               /\ Counted(r, c)

\* m says, for slots that are empty in r, which slots they are filled from.
Fills(r, m) == /\ DOMAIN m \subseteq Slot
               /\ \A s \in DOMAIN m : m[s] \in Slot /\ r[s] = Null

\* The references to an object can be counted.
LEMMA RefsFinite ==
  ASSUME NEW r, NEW a
  PROVE  IsFiniteSet(RefsTo(r, a)) /\ Cardinality(RefsTo(r, a)) \in Nat
<1>1. RefsTo(r, a) \in SUBSET Slot
  BY DEF RefsTo
<1> QED
  BY <1>1, SlotFinite, FS_Subset, FS_CardinalityType

\* What a slot refers to is allocated.
LEMMA Alive ==
  ASSUME NEW r, NEW c, Exact(r, c), NEW s \in Slot, r[s] # Null
  PROVE  r[s] \in Addr /\ c[r[s]] \in 1..RefMax
<1>1. r[s] \in Addr /\ c[r[s]] \in 0..RefMax
  BY HeapAssumption DEF Exact, Ref
<1>2. s \in RefsTo(r, r[s])
  BY DEF RefsTo
<1>3. Cardinality(RefsTo(r, r[s])) # 0
  BY <1>2, RefsFinite, FS_EmptySet
<1>4. c[r[s]] # 0
  BY <1>1, <1>3, HeapAssumption DEF Exact, Counted
<1> QED
  BY <1>1, <1>4, HeapAssumption

\* A counter of one means a single reference.
LEMMA Sole ==
  ASSUME NEW r, NEW c, Exact(r, c), NEW s \in Slot, NEW t \in Slot,
         r[s] \in Addr, r[t] = r[s], c[r[s]] = 1
  PROVE  s = t
<1>1. Cardinality(RefsTo(r, r[s])) = 1
  BY HeapAssumption DEF Exact, Counted
<1>2. PICK u : RefsTo(r, r[s]) = {u}
  BY <1>1, RefsFinite, FS_Singleton
<1>3. s \in RefsTo(r, r[s]) /\ t \in RefsTo(r, r[s])
  BY DEF RefsTo
<1> QED
  BY <1>2, <1>3

\* Moving and copying references yields references.
LEMMA MoveType ==
  ASSUME NEW r \in [Slot -> Ref], NEW m, Fills(r, m)
  PROVE  Move(r, m) \in [Slot -> Ref] /\ Copy(r, m) \in [Slot -> Ref]
BY DEF Move, Copy, Fills, Ref

\* A reference that moves is still one reference.
LEMMA ExactMove ==
  ASSUME NEW r, NEW c, Exact(r, c), NEW m, Fills(r, m), Injective(m)
  PROVE  Exact(Move(r, m), c)
<1> DEFINE q == Move(r, m)
<1>1. q \in [Slot -> Ref]
  BY MoveType DEF Exact
<1>2. ASSUME NEW a \in Addr
      PROVE  Cardinality(RefsTo(q, a)) = Cardinality(RefsTo(r, a))
  <2> DEFINE f == [s \in RefsTo(q, a) |-> IF s \in DOMAIN m THEN m[s] ELSE s]
  <2>0. a # Null
    BY HeapAssumption
  <2>1. \A s \in RefsTo(q, a) : f[s] \in RefsTo(r, a)
    BY <2>0 DEF RefsTo, Move, Fills
  <2>2. \A s, t \in RefsTo(q, a) : f[s] = f[t] => s = t
    BY <2>0 DEF RefsTo, Move, Injective
  <2>3. \A u \in RefsTo(r, a) : \E s \in RefsTo(q, a) : f[s] = u
    <3> SUFFICES ASSUME NEW u \in RefsTo(r, a)
                 PROVE  \E s \in RefsTo(q, a) : f[s] = u
      OBVIOUS
    <3>1. CASE \E t \in DOMAIN m : m[t] = u
      <4>1. PICK t \in DOMAIN m : m[t] = u
        BY <3>1
      <4>2. t \in RefsTo(q, a)
        BY <4>1 DEF RefsTo, Move, Fills
      <4> QED
        BY <4>1, <4>2
    <3>2. CASE ~ \E t \in DOMAIN m : m[t] = u
      <4>1. u \notin DOMAIN m
        BY <2>0 DEF RefsTo, Fills
      <4>2. u \in RefsTo(q, a)
        BY <3>2, <4>1 DEF RefsTo, Move
      <4> QED
        BY <4>1, <4>2
    <3> QED
      BY <3>1, <3>2
  <2>4. f \in Bijection(RefsTo(q, a), RefsTo(r, a))
    <3>1. f \in [RefsTo(q, a) -> RefsTo(r, a)]
      BY <2>1
    <3> HIDE DEF f
    <3> QED
      BY <3>1, <2>2, <2>3 DEF Bijection, Injection, Surjection, IsInjective
  <2> HIDE DEF f
  <2> QED
    BY <2>4, RefsFinite, FS_Bijection DEF ExistsBijection
<1> HIDE DEF q
<1>3. Exact(q, c)
  BY <1>1, <1>2 DEF Exact, Counted
<1> QED
  BY <1>3 DEF q

\* What idris2_newReference does to the counter of one object.
LEMMA NewRefsAt ==
  ASSUME NEW r, NEW c, Exact(r, c), NEW m, Fills(r, m), NEW a \in Addr
  PROVE  /\ NewRefs(c, r, m)[a] \in c[a]..RefMax
         /\ (\A t \in DOMAIN m : r[m[t]] # a) => NewRefs(c, r, m)[a] = c[a]
         /\ NewRefs(c, r, m) \in [Addr -> 0..RefMax]
<1>0. ASSUME NEW b \in Addr
      PROVE  /\ IsFiniteSet({t \in DOMAIN m : r[m[t]] = b})
             /\ Cardinality({t \in DOMAIN m : r[m[t]] = b}) \in Nat
  <2>1. {t \in DOMAIN m : r[m[t]] = b} \in SUBSET Slot
    BY DEF Fills
  <2> QED
    BY <2>1, SlotFinite, FS_Subset, FS_CardinalityType
<1>1. ASSUME NEW b \in Addr
      PROVE  NewRefs(c, r, m)[b] \in c[b]..RefMax /\ c[b] \in 0..RefMax
  <2>1. c[b] \in 0..RefMax
    BY DEF Exact
  <2> DEFINE n == Cardinality({t \in DOMAIN m : r[m[t]] = b})
  <2>2. n \in Nat
    BY <1>0
  <2>3. NewRefs(c, r, m)[b] = Bump(c[b], n)
    BY DEF NewRefs
  <2> HIDE DEF n
  <2> QED
    BY <2>1, <2>2, <2>3, HeapAssumption DEF Bump
<1>2. ASSUME \A t \in DOMAIN m : r[m[t]] # a
      PROVE  NewRefs(c, r, m)[a] = c[a]
  <2>1. {t \in DOMAIN m : r[m[t]] = a} = {}
    BY <1>2
  <2>2. Cardinality({t \in DOMAIN m : r[m[t]] = a}) = 0
    BY <2>1, FS_EmptySet
  <2>3. NewRefs(c, r, m)[a] = Bump(c[a], 0)
    BY <2>2 DEF NewRefs
  <2>4. c[a] \in 0..RefMax
    BY DEF Exact
  <2> QED
    BY <2>3, <2>4, HeapAssumption DEF Bump
<1>3. NewRefs(c, r, m) \in [Addr -> 0..RefMax]
  <2>1. NewRefs(c, r, m) = [b \in Addr |-> NewRefs(c, r, m)[b]]
    BY DEF NewRefs
  <2>2. \A b \in Addr : NewRefs(c, r, m)[b] \in 0..RefMax
    BY <1>1, HeapAssumption
  <2> QED
    BY <2>1, <2>2
<1> QED
  BY <1>1, <1>2, <1>3

\* A reference that is duplicated with idris2_newReference is counted.
LEMMA ExactCopy ==
  ASSUME NEW r, NEW c, Exact(r, c), NEW m, Fills(r, m)
  PROVE  Exact(Copy(r, m), NewRefs(c, r, m))
<1> DEFINE q == Copy(r, m)
           d == NewRefs(c, r, m)
<1>1. q \in [Slot -> Ref]
  BY MoveType DEF Exact
<1>2. d \in [Addr -> 0..RefMax]
  <2>1. CASE Addr = {}
    BY <2>1 DEF NewRefs
  <2>2. CASE Addr # {}
    BY <2>2, NewRefsAt
  <2> QED
    BY <2>1, <2>2
<1>3. ASSUME NEW a \in Addr, d[a] # RefMax
      PROVE  Cardinality(RefsTo(q, a)) = d[a]
  <2> DEFINE N == {t \in DOMAIN m : r[m[t]] = a}
  <2>0. a # Null
    BY HeapAssumption
  <2>1. N \in SUBSET Slot
    BY DEF Fills
  <2>2. IsFiniteSet(N) /\ Cardinality(N) \in Nat
    BY <2>1, SlotFinite, FS_Subset, FS_CardinalityType
  <2>3. RefsTo(q, a) = RefsTo(r, a) \cup N
    BY <2>0 DEF RefsTo, Copy, Fills
  <2>4. RefsTo(r, a) \cap N = {}
    BY <2>0 DEF RefsTo, Fills
  <2>5. d[a] = Bump(c[a], Cardinality(N))
    BY DEF NewRefs
  <2> HIDE DEF N, d, q
  <2>6. Cardinality(RefsTo(q, a)) = Cardinality(RefsTo(r, a)) + Cardinality(N)
    <3>1. IsFiniteSet(RefsTo(r, a)) /\ Cardinality(RefsTo(r, a)) \in Nat
      BY RefsFinite
    <3>2. Cardinality(RefsTo(r, a) \cap N) = 0
      BY <2>4, FS_EmptySet
    <3>3. Cardinality(RefsTo(r, a) \cup N) = Cardinality(RefsTo(r, a))
            + Cardinality(N) - Cardinality(RefsTo(r, a) \cap N)
      BY <2>2, <3>1, FS_Union
    <3> QED
      BY <2>2, <2>3, <3>1, <3>2, <3>3
  <2>7. c[a] \in 0..RefMax
    BY DEF Exact
  <2>8. d[a] = c[a] + Cardinality(N) /\ c[a] # RefMax
    BY <1>3, <2>2, <2>5, <2>7, HeapAssumption DEF Bump
  <2> QED
    BY <2>6, <2>8 DEF Exact, Counted
<1> HIDE DEF q, d
<1>4. Exact(q, d)
  BY <1>1, <1>2, <1>3 DEF Exact, Counted
<1> QED
  BY <1>4 DEF q, d

\* malloc, and the first reference to the new object.
LEMMA ExactAlloc ==
  ASSUME NEW r, NEW c, Exact(r, c), NEW s \in Slot, r[s] = Null,
         NEW a \in Addr, c[a] = 0
  PROVE  Exact([r EXCEPT ![s] = a], [c EXCEPT ![a] = 1])
<1> DEFINE q == [r EXCEPT ![s] = a]
           d == [c EXCEPT ![a] = 1]
<1>1. q \in [Slot -> Ref] /\ d \in [Addr -> 0..RefMax]
  BY HeapAssumption DEF Exact, Ref
<1>2. Cardinality(RefsTo(q, a)) = 1
  <2>1. RefsTo(r, a) = {}
    <3>1. Cardinality(RefsTo(r, a)) = 0
      BY HeapAssumption DEF Exact, Counted
    <3> QED
      BY <3>1, RefsFinite, FS_EmptySet
  <2>2. RefsTo(q, a) = {s}
    BY <2>1 DEF RefsTo, Exact
  <2> QED
    BY <2>2, FS_Singleton
<1>3. ASSUME NEW b \in Addr, b # a
      PROVE  RefsTo(q, b) = RefsTo(r, b) /\ d[b] = c[b]
  BY <1>3, HeapAssumption DEF RefsTo, Exact
<1>4. d[a] = 1
  BY DEF Exact
<1> HIDE DEF q, d
<1>5. Exact(q, d)
  BY <1>1, <1>2, <1>3, <1>4 DEF Exact, Counted
<1> QED
  BY <1>5 DEF q, d

\* A counted reference that is given up.
LEMMA ExactRelease ==
  ASSUME NEW r, NEW c, Exact(r, c), NEW s \in Slot, r[s] # Null,
         c[r[s]] # RefMax
  PROVE  Exact([r EXCEPT ![s] = Null], [c EXCEPT ![r[s]] = @ - 1])
<1> DEFINE a == r[s]
           q == [r EXCEPT ![s] = Null]
           d == [c EXCEPT ![a] = @ - 1]
<1>0. a \in Addr /\ c[a] \in 1..RefMax
  BY Alive
<1>1. q \in [Slot -> Ref] /\ d \in [Addr -> 0..RefMax]
  BY <1>0, HeapAssumption DEF Exact, Ref
<1>2. Cardinality(RefsTo(q, a)) = d[a]
  <2>1. RefsTo(q, a) = RefsTo(r, a) \ {s}
    BY <1>0, HeapAssumption DEF RefsTo, Exact
  <2>2. s \in RefsTo(r, a)
    BY DEF RefsTo
  <2>3. Cardinality(RefsTo(q, a)) = Cardinality(RefsTo(r, a)) - 1
    BY <2>1, <2>2, RefsFinite, FS_RemoveElement
  <2>4. d[a] = c[a] - 1
    BY <1>0 DEF Exact
  <2> QED
    BY <1>0, <2>3, <2>4 DEF Exact, Counted
<1>3. ASSUME NEW b \in Addr, b # a
      PROVE  RefsTo(q, b) = RefsTo(r, b) /\ d[b] = c[b]
  BY <1>3, <1>0, HeapAssumption DEF RefsTo, Exact
<1> HIDE DEF q, d
<1>4. Exact(q, d)
  BY <1>1, <1>2, <1>3 DEF Exact, Counted
<1> QED
  BY <1>4 DEF q, d

\* idris2_removeReference of NULL and of an immortal object.
LEMMA ExactImmortal ==
  ASSUME NEW r, NEW c, Exact(r, c), NEW s \in Slot,
         r[s] = Null \/ c[r[s]] = RefMax
  PROVE  Exact([r EXCEPT ![s] = Null], c)
<1> DEFINE q == [r EXCEPT ![s] = Null]
<1>1. q \in [Slot -> Ref]
  BY HeapAssumption DEF Exact, Ref
<1>2. ASSUME NEW b \in Addr, c[b] # RefMax
      PROVE  RefsTo(q, b) = RefsTo(r, b)
  BY <1>2, HeapAssumption DEF RefsTo, Exact
<1> HIDE DEF q
<1>3. Exact(q, c)
  BY <1>1, <1>2 DEF Exact, Counted
<1> QED
  BY <1>3 DEF q

\* The reference in slot s passes to the empty slot t.
LEMMA ExactShift ==
  ASSUME NEW r, NEW c, Exact(r, c), NEW s \in Slot, NEW t \in Slot,
         s # t, r[t] = Null
  PROVE  Exact([r EXCEPT ![s] = Null, ![t] = r[s]], c)
<1> DEFINE m == [u \in {t} |-> s]
<1>1. Fills(r, m) /\ Injective(m)
  BY DEF Fills, Injective
<1>2. Move(r, m) = [r EXCEPT ![s] = Null, ![t] = r[s]]
  <2>1. ASSUME NEW u \in Slot
        PROVE  Move(r, m)[u] = IF u = t THEN r[s] ELSE IF u = s THEN Null ELSE r[u]
    BY DEF Move
  <2>2. /\ [r EXCEPT ![s] = Null, ![t] = r[s]]
             = [u \in Slot |-> IF u = t THEN r[s] ELSE IF u = s THEN Null ELSE r[u]]
    BY DEF Exact
  <2>3. Move(r, m) = [u \in Slot |-> Move(r, m)[u]]
    BY DEF Move
  <2> HIDE DEF m
  <2> QED
    BY <2>1, <2>2, <2>3
<1> HIDE DEF m
<1>3. Exact(Move(r, m), c)
  BY <1>1, ExactMove
<1> QED
  BY <1>2, <1>3

-----------------------------------------------------------------------------
(* The inductive invariant. *)

\* Only allocated objects have references in their fields, within their size.
Shape == \A a \in Addr, i \in Field :
           ref[F(a, i)] # Null => rc[a] # 0 /\ i <= obj[a].size

\* A cell that waits for reuse is empty and belongs to one local.
Reuse == \A a \in Addr : obj[a].tag = "reuse" =>
           /\ rc[a] = 1
           /\ \A i \in Field : ref[F(a, i)] = Null
           /\ \E x \in Var : ref[V(x)] = a

\* A finaliser is a closure that lacks the pointer and the world.
Finaliser(c) == obj[c].tag = "closure" /\ Missing(c) = 2
Finalisers == \A a \in Addr :
    obj[a].tag = "gcpointer" /\ ref[F(a, 3)] # Null => Finaliser(ref[F(a, 3)])

\* An IORef has one field.
IORefs == \A a \in Addr : obj[a].tag = "ioref" => obj[a].size = 1

\* Nothing is owed above the innermost activation.
Tops == \A k \in Frame : k > depth => ref[K(k)] = Null

\* Activation k has the only reference to the object it will free ...
Owing(k) == frame[k].op \in {"remove", "trampoline"}
              => ref[K(k)] # Null /\ rc[ref[K(k)]] = 1

\* ... whose fields are empty if it is a closure that has been dispatched.
HandedOver(k) == frame[k].op = "trampoline"
                   => \A i \in Field : ref[F(ref[K(k)], i)] = Null

\* A prim__arraySet that has not stored yet: its slot is empty, its caller
\* keeps the array and the value alive.
Kept(x, k) == ref[V(x)] # Null /\ lvl[x] < k
Setting(k) == frame[k].op = "arraySet" =>
    /\ ref[K(k)] = Null
    /\ frame[k].arr \in Addr /\ frame[k].own \in Var
    /\ ref[V(frame[k].own)] = frame[k].arr /\ Kept(frame[k].own, k)
    /\ obj[frame[k].arr].tag = "array"
    /\ frame[k].idx <= obj[frame[k].arr].size
    /\ ref[F(frame[k].arr, frame[k].idx)] = Null
    /\ frame[k].val # Null => /\ Kept(frame[k].val, k)
                              /\ obj[ref[V(frame[k].val)]].tag # "reuse"

FrameOK(k) == Owing(k) /\ HandedOver(k) /\ Setting(k)
Frames == \A k \in 1..depth : FrameOK(k)

\* No two of them set the same slot.
Same(j, k) == /\ frame[j].op = "arraySet" /\ frame[k].op = "arraySet"
              /\ frame[j].arr = frame[k].arr /\ frame[j].idx = frame[k].idx
Distinct == \A j, k \in 1..depth : Same(j, k) => j = k

IInv == /\ TypeOK /\ Counted(ref, rc)
        /\ Shape /\ Reuse /\ Finalisers /\ IORefs /\ Tops /\ Frames /\ Distinct

\* The program shares no closure so often that its counter gets near the maximum.
Unsaturated == ClosureCap \in 1..(RefMax - 2)

-----------------------------------------------------------------------------
(***************************************************************************)
(* What every step has in common: it uses only references that the         *)
(* innermost activation may use, leaves the activations 1..d alone, and    *)
(* writes only to new objects, IORefs, cells taken for reuse and slots of  *)
(* arrays that no prim__arraySet is setting.                               *)
(***************************************************************************)
Avail(s, d) ==
    \/ \E x \in Var : /\ s = V(x) /\ Mine(x)
                      /\ obj[ref[V(x)]].tag = "reuse" => obj'[ref[V(x)]].tag # "reuse"
    \/ \E a \in Addr, i \in Field : s = F(a, i)
    \/ \E k \in Frame : k > d /\ s = K(k)

Held(a, d) == \E s \in Slot : ref[s] = a /\ Avail(s, d)

\* A value that the caller of prim__arraySet lends to it.
Lent(a) == obj[a].tag # "reuse" /\ \E x \in Var : ref[V(x)] = a

Empty(a) == \A i \in Field : ref[F(a, i)] = Null

Freed(a, d) ==
    /\ obj'[a] = FreeCell /\ Empty(a)'
    /\ \E s \in Slot : ref[s] = a /\ Avail(s, d) /\ ref'[s] # a

Recycled(a, d) ==
    /\ Held(a, d)
    /\ {obj[a].tag, obj'[a].tag} \subseteq {"constructor", "reuse"}
    /\ obj'[a].size = obj[a].size
    /\ obj'[a].tag = "reuse" => /\ rc'[a] = 1 /\ Empty(a)'
                                /\ \E x \in Var : ref'[V(x)] = a

LocalFrames(d) == \A k \in 1..d : frame'[k] = frame[k] /\ ref'[K(k)] = ref[K(k)]
LocalVars(d) == \A x \in Var :
    /\ ref'[V(x)] # ref[V(x)] => ref[V(x)] = Null \/ Avail(V(x), d)
    /\ ref[V(x)] # Null /\ lvl[x] # depth => lvl'[x] = lvl[x]
LocalCounts(d) == \A a \in Addr :
    /\ rc'[a] # rc[a] => rc[a] = 0 \/ Held(a, d) \/ Lent(a)
    /\ rc'[a] = 0 => rc[a] = 0 \/ Empty(a)'
LocalObjects(d) == \A a \in Addr :
    obj'[a] # obj[a] => \/ rc[a] = 0 /\ rc'[a] # 0
                        \/ rc[a] = 1 /\ (Freed(a, d) \/ Recycled(a, d))
LocalFields == \A a \in Addr, i \in Field :
    ref'[F(a, i)] # Null /\ ref'[F(a, i)] # ref[F(a, i)] =>
      /\ rc'[a] # 0 /\ i <= obj'[a].size
      /\ \/ rc[a] = 0
         \/ /\ \E x \in Var : ref[V(x)] = a
            /\ \/ /\ obj[a].tag \in {"ioref", "reuse"}
                  /\ obj'[a].tag \in {"ioref", "constructor"}
               \/ obj[a].tag = "array" /\ ~Busy(a, i)'
NewObjects == \A a \in Addr : rc[a] = 0 /\ rc'[a] # 0 =>
    /\ obj'[a].tag # "reuse"
    /\ obj'[a].tag = "ioref" => obj'[a].size = 1
    /\ obj'[a].tag = "gcpointer" => (ref[F(a, 3)] # Null => Finaliser(ref[F(a, 3)]))'

Local(d) == /\ LocalFrames(d) /\ LocalVars(d) /\ LocalCounts(d)
            /\ LocalObjects(d) /\ LocalFields /\ NewObjects

-----------------------------------------------------------------------------
\* The counters are exact whenever the invariant holds.
LEMMA InvExact == ASSUME IInv PROVE Exact(ref, rc)
BY DEF IInv, TypeOK, Exact

\* What it means that a local may be used.
LEMMA AvailVar ==
  ASSUME NEW x \in Var, NEW d, Avail(V(x), d)
  PROVE  Mine(x) /\ (obj[ref[V(x)]].tag = "reuse" => obj'[ref[V(x)]].tag # "reuse")
BY SlotDistinct DEF Avail

\* The activations that may be used are those above d.
LEMMA AvailFrame ==
  ASSUME NEW k \in Frame, NEW d, Avail(K(k), d)
  PROVE  k > d
BY SlotDistinct DEF Avail

\* The fields of the objects keep within their shape.
LEMMA StepShape ==
  ASSUME IInv, NEW d \in 0..depth, Local(d)
  PROVE  Shape'
<1> SUFFICES ASSUME NEW a \in Addr, NEW i \in Field, ref'[F(a, i)] # Null
             PROVE  rc'[a] # 0 /\ i <= obj'[a].size
  BY DEF Shape
<1>1. CASE ref'[F(a, i)] # ref[F(a, i)]
  BY <1>1 DEF Local, LocalFields
<1>2. CASE ref'[F(a, i)] = ref[F(a, i)]
  <2>1. rc[a] # 0 /\ i <= obj[a].size
    BY <1>2 DEF IInv, Shape
  <2>2. rc'[a] # 0
    BY <2>1 DEF Local, LocalCounts, Empty
  <2>3. i <= obj'[a].size
    BY <2>1 DEF Local, LocalObjects, Freed, Empty, Recycled
  <2> QED
    BY <2>2, <2>3
<1> QED
  BY <1>1, <1>2

\* Nothing but its owner can use a cell that waits for reuse.
LEMMA StepReuse ==
  ASSUME IInv, NEW d \in 0..depth, Local(d)
  PROVE  Reuse'
<1> SUFFICES ASSUME NEW a \in Addr, obj'[a].tag = "reuse"
             PROVE  /\ rc'[a] = 1
                    /\ \A i \in Field : ref'[F(a, i)] = Null
                    /\ \E x \in Var : ref'[V(x)] = a
  BY DEF Reuse
<1>1. CASE obj'[a] # obj[a]
  BY <1>1 DEF Local, LocalObjects, Freed, FreeCell, Recycled, Empty, NewObjects
<1>2. CASE obj'[a] = obj[a]
  <2>1. PICK x \in Var : rc[a] = 1 /\ ref[V(x)] = a
    BY <1>2 DEF IInv, Reuse
  <2>2. ~Avail(V(x), d)
    BY <1>2, <2>1, AvailVar
  <2>3. ~Held(a, d)
    BY <2>1, <2>2, InvExact, Sole, SlotKinds DEF Held
  <2>4. ref'[V(x)] = a
    BY <2>1, <2>2, HeapAssumption DEF Local, LocalVars
  <2>5. rc'[a] = 1
    BY <1>2, <2>1, <2>3 DEF Local, LocalCounts, Lent
  <2>6. ASSUME NEW i \in Field PROVE ref'[F(a, i)] = Null
    BY <1>2, <2>1 DEF IInv, Reuse, Local, LocalFields
  <2> QED
    BY <2>4, <2>5, <2>6
<1> QED
  BY <1>1, <1>2

\* A finaliser stays a closure as long as its pointer refers to it.
LEMMA StepFinalisers ==
  ASSUME IInv, NEW d \in 0..depth, Local(d), Shape'
  PROVE  Finalisers'
<1> SUFFICES ASSUME NEW a \in Addr, obj'[a].tag = "gcpointer", ref'[F(a, 3)] # Null
             PROVE  Finaliser(ref[F(a, 3)])'
  BY DEF Finalisers
<1>0. 3 \in Field /\ rc'[a] # 0
  BY HeapAssumption DEF Shape, Field
<1>1. CASE rc[a] = 0
  BY <1>0, <1>1 DEF Local, NewObjects
<1>2. CASE rc[a] # 0
  <2>1. obj'[a] = obj[a]
    BY <1>2 DEF Local, LocalObjects, Freed, FreeCell, Recycled
  <2>2. ref'[F(a, 3)] = ref[F(a, 3)]
    BY <1>0, <1>2, <2>1 DEF Local, LocalFields
  <2> DEFINE c == ref[F(a, 3)]
  <2>3. Finaliser(c)
    BY <2>1, <2>2 DEF IInv, Finalisers
  <2>4. c \in Addr /\ rc[c] # 0 /\ F(a, 3) \in Slot
    BY <1>0, <2>2, InvExact, Alive, SlotKinds
  <2>5. obj'[c] = obj[c]
    <3>1. SUFFICES ASSUME rc[c] = 1, Freed(c, d) PROVE FALSE
      BY <2>3, <2>4 DEF Local, LocalObjects, Recycled, Finaliser
    <3>2. PICK s \in Slot : ref[s] = c /\ ref'[s] # c
      BY <3>1 DEF Freed
    <3>3. s = F(a, 3)
      BY <2>4, <3>1, <3>2, InvExact, Sole
    <3> QED
      BY <2>2, <3>2, <3>3
  <2> QED
    BY <2>2, <2>3, <2>5 DEF Finaliser, Missing
<1> QED
  BY <1>1, <1>2

\* The activations below the innermost one find their objects as they left them.
LEMMA StepFrame ==
  ASSUME IInv, NEW d \in 0..depth, Local(d), d <= depth', depth' \in Int, NEW k \in 1..d
  PROVE  FrameOK(k)'
<1>0. /\ k \in Frame /\ k \in 1..depth /\ K(k) \in Slot /\ FrameOK(k)
      /\ depth \in Int /\ d \in Int /\ k <= depth /\ k \in 1..depth'
  <2>1. depth \in 0..MaxDepth /\ MaxDepth \in Nat
    BY HeapAssumption DEF IInv, TypeOK
  <2>2. d \in Int /\ k \in 1..depth /\ k \in 1..MaxDepth /\ k \in 1..depth'
    BY <2>1
  <2> QED
    BY <2>1, <2>2, SlotKinds DEF IInv, Frame, Frames
<1>1. frame'[k] = frame[k] /\ ref'[K(k)] = ref[K(k)]
  BY DEF Local, LocalFrames
<1>2. ASSUME frame[k].op \in {"remove", "trampoline"}
      PROVE  /\ ref[K(k)] \in Addr /\ rc[ref[K(k)]] = 1
             /\ rc'[ref[K(k)]] = 1
             /\ \A s \in Slot : ref[s] = ref[K(k)] => s = K(k)
  <2>1. ref[K(k)] \in Addr /\ rc[ref[K(k)]] = 1
    BY <1>0, <1>2, InvExact, Alive DEF FrameOK, Owing
  <2>2. \A s \in Slot : ref[s] = ref[K(k)] => s = K(k)
    BY <1>0, <2>1, InvExact, Sole
  <2>3. ~Held(ref[K(k)], d)
    BY <1>0, <2>2, AvailFrame DEF Held
  <2>4. ~Lent(ref[K(k)])
    BY <2>2, SlotKinds, SlotDistinct DEF Lent
  <2> QED
    BY <2>1, <2>2, <2>3, <2>4 DEF Local, LocalCounts
<1>3. Owing(k)'
  BY <1>0, <1>1, <1>2 DEF FrameOK, Owing
<1>4. HandedOver(k)'
  <2> SUFFICES ASSUME frame[k].op = "trampoline", NEW i \in Field
               PROVE  ref'[F(ref[K(k)], i)] = Null
    BY <1>1 DEF HandedOver
  <2>1. ref[F(ref[K(k)], i)] = Null
    BY <1>0 DEF FrameOK, HandedOver
  <2>2. ~ \E x \in Var : ref[V(x)] = ref[K(k)]
    BY <1>2, SlotKinds, SlotDistinct
  <2> QED
    BY <1>2, <2>1, <2>2 DEF Local, LocalFields
<1>5. Setting(k)'
  <2> SUFFICES ASSUME frame[k].op = "arraySet" PROVE Setting(k)'
    BY <1>1 DEF Setting
  <2> DEFINE a == frame[k].arr
  <2>0. Setting(k) /\ frame[k].idx \in Field /\ frame[k].val \in Var \cup {Null}
    BY <1>0 DEF FrameOK, IInv, TypeOK, Activation
  <2>1. ASSUME NEW x \in Var, Kept(x, k)
        PROVE  /\ ref'[V(x)] = ref[V(x)] /\ lvl'[x] = lvl[x]
               /\ obj'[ref[V(x)]] = obj[ref[V(x)]]
               /\ ref[V(x)] \in Addr /\ rc[ref[V(x)]] # 0
    <3>1. lvl[x] # depth /\ ref[V(x)] # Null
      <4>1. lvl[x] \in Int
        BY DEF IInv, TypeOK
      <4> QED
        BY <1>0, <2>1, <4>1 DEF Kept
    <3>2. ~Avail(V(x), d)
      BY <3>1, AvailVar DEF Mine
    <3>3. V(x) \in Slot /\ ref[V(x)] \in Addr /\ rc[ref[V(x)]] # 0
      BY <3>1, InvExact, Alive, SlotKinds
    <3>4. rc[ref[V(x)]] = 1 => ~Held(ref[V(x)], d)
      BY <3>2, <3>3, InvExact, Sole DEF Held
    <3>5. obj'[ref[V(x)]] = obj[ref[V(x)]]
      BY <3>3, <3>4 DEF Local, LocalObjects, Freed, Recycled, Held
    <3> QED
      BY <3>1, <3>2, <3>3, <3>5 DEF Local, LocalVars
  <2>2. ref'[F(a, frame[k].idx)] = Null
    <3>1. PICK b \in Addr, i \in Field : b = frame[k].arr /\ i = frame[k].idx
      BY <2>0 DEF Setting
    <3>2. Busy(b, i)'
      BY <1>0, <1>1, <3>1 DEF Busy
    <3>3. /\ obj[b].tag = "array" /\ ref[F(b, i)] = Null
          /\ ref[V(frame[k].own)] = b /\ rc[b] # 0
      BY <2>0, <2>1, <3>1 DEF Setting
    <3>4. ref'[F(b, i)] = Null
      BY <3>2, <3>3 DEF Local, LocalFields
    <3> QED
      BY <3>1, <3>4
  <2>3. /\ ref'[V(frame[k].own)] = a /\ lvl'[frame[k].own] = lvl[frame[k].own]
        /\ obj'[a] = obj[a]
    BY <2>0, <2>1 DEF Setting
  <2>4. frame[k].val # Null =>
          /\ ref'[V(frame[k].val)] = ref[V(frame[k].val)]
          /\ lvl'[frame[k].val] = lvl[frame[k].val]
          /\ obj'[ref[V(frame[k].val)]] = obj[ref[V(frame[k].val)]]
    BY <2>0, <2>1 DEF Setting
  <2> QED
    BY <1>1, <2>0, <2>2, <2>3, <2>4 DEF Setting, Kept
<1> QED
  BY <1>3, <1>4, <1>5 DEF FrameOK

\* No IORef changes its size.
LEMMA StepIORefs ==
  ASSUME IInv, NEW d \in 0..depth, Local(d)
  PROVE  IORefs'
<1> SUFFICES ASSUME NEW a \in Addr, obj'[a].tag = "ioref" PROVE obj'[a].size = 1
  BY DEF IORefs
<1>1. CASE obj'[a] # obj[a]
  BY <1>1 DEF Local, LocalObjects, NewObjects, Freed, FreeCell, Recycled
<1>2. CASE obj'[a] = obj[a]
  BY <1>2 DEF IInv, IORefs
<1> QED
  BY <1>1, <1>2

Typed == /\ obj \in [Addr -> Object]
         /\ depth \in 0..MaxDepth
         /\ frame \in [Frame -> Activation]
         /\ lvl \in [Var -> 0..MaxDepth]
         /\ stale \in BOOLEAN

\* A local step that sets up the activations above d keeps the invariant.
LEMMA StepInv ==
  ASSUME IInv, NEW d \in 0..depth, Local(d), Exact(ref', rc'), Typed', d <= depth',
         Tops', \A k \in (d + 1)..depth' : FrameOK(k)',
         \A k \in (d + 1)..depth', j \in 1..depth' : Same(j, k)' => j = k
  PROVE  IInv'
<1>0. depth \in Int /\ depth' \in Int /\ d \in Int
  BY HeapAssumption DEF Typed, IInv, TypeOK
<1>1. TypeOK'
  BY DEF Typed, TypeOK, Exact
<1>2. Counted(ref', rc')
  BY DEF Exact
<1>3. Shape' /\ Reuse' /\ Finalisers' /\ IORefs'
  BY StepShape, StepReuse, StepFinalisers, StepIORefs
<1>4. Frames'
  <2> SUFFICES ASSUME NEW k \in 1..depth' PROVE FrameOK(k)'
    BY DEF Frames
  <2>1. CASE k \in 1..d
    BY <1>0, <2>1, StepFrame
  <2>2. CASE k \notin 1..d
    <3>1. k \in (d + 1)..depth'
      BY <1>0, <2>2
    <3> QED
      BY <3>1
  <2> QED
    BY <2>1, <2>2
<1>5. Distinct'
  <2> SUFFICES ASSUME NEW j \in 1..depth', NEW k \in 1..depth', Same(j, k)'
               PROVE  j = k
    BY DEF Distinct
  <2>1. CASE k \notin 1..d
    <3>1. k \in (d + 1)..depth'
      BY <1>0, <2>1
    <3> QED
      BY <3>1
  <2>2. CASE j \notin 1..d
    <3>1. j \in (d + 1)..depth'
      BY <1>0, <2>2
    <3>2. Same(k, j)'
      BY DEF Same
    <3> QED
      BY <3>1, <3>2
  <2>3. CASE j \in 1..d /\ k \in 1..d
    <3>1. frame'[j] = frame[j] /\ frame'[k] = frame[k]
      BY <2>3 DEF Local, LocalFrames
    <3>2. Same(j, k)
      BY <3>1 DEF Same
    <3>3. j \in 1..depth /\ k \in 1..depth
      BY <1>0, <2>3
    <3> QED
      BY <3>2, <3>3 DEF IInv, Distinct
  <2> QED
    BY <2>1, <2>2, <2>3
<1> QED
  BY <1>1, <1>2, <1>3, <1>4, <1>5 DEF IInv

\* A step that leaves the stack alone.
LEMMA FlatStep ==
  ASSUME IInv, Local(depth), Exact(ref', rc'), obj' \in [Addr -> Object],
         UNCHANGED <<depth, frame>>, lvl' \in [Var -> 0..MaxDepth], stale' \in BOOLEAN,
         \A k \in Frame : ref'[K(k)] = ref[K(k)]
  PROVE  IInv'
<1>0. depth \in 0..MaxDepth /\ depth \in 0..depth /\ depth' = depth
  BY HeapAssumption DEF IInv, TypeOK
<1>1. Typed'
  BY <1>0 DEF Typed, IInv, TypeOK
<1>2. Tops'
  BY DEF Tops, IInv
<1>3. (depth + 1)..depth' = {}
  BY <1>0, HeapAssumption
<1> QED
  BY <1>0, <1>1, <1>2, <1>3, StepInv

\* What the proofs need to know about the stack.
LEMMA Stack ==
  ASSUME IInv
  PROVE  /\ depth \in 0..MaxDepth /\ MaxDepth \in Nat /\ depth \in 0..depth
         /\ frame \in [Frame -> Activation] /\ 1..depth \subseteq Frame
         /\ depth < MaxDepth => /\ depth + 1 \in Frame /\ K(depth + 1) \in Slot
                                /\ ref[K(depth + 1)] = Null
         /\ depth > 0 => /\ depth \in Frame /\ K(depth) \in Slot
                         /\ FrameOK(depth) /\ depth - 1 \in 0..depth
<1>1. depth \in 0..MaxDepth /\ MaxDepth \in Nat /\ frame \in [Frame -> Activation]
  BY HeapAssumption DEF IInv, TypeOK
<1>2. /\ 1..depth \subseteq Frame
      /\ depth < MaxDepth => depth + 1 \in Frame /\ depth + 1 > depth
      /\ depth > 0 => depth \in Frame /\ depth \in 1..depth /\ depth - 1 \in 0..depth
  BY <1>1 DEF Frame
<1> QED
  BY <1>1, <1>2, SlotKinds DEF IInv, Tops, Frames

\* The activations that owe one object.
LEMMA InOpFacts ==
  ASSUME NEW o \in {"remove", "trampoline"}
  PROVE  InOp(o) \in Activation /\ InOp(o).op = o
BY HeapAssumption DEF InOp, Idle, Activation, Ref, Field

\* A step that starts an activation which owes one object.
LEMMA PushStep ==
  ASSUME IInv, Local(depth), Exact(ref', rc'), obj' \in [Addr -> Object],
         lvl' \in [Var -> 0..MaxDepth], stale' \in BOOLEAN,
         NEW o \in {"remove", "trampoline"}, depth < MaxDepth, depth' = depth + 1,
         frame' = [frame EXCEPT ![depth + 1] = InOp(o)],
         \A k \in Frame : k # depth + 1 => ref'[K(k)] = ref[K(k)],
         ref'[K(depth + 1)] # Null, rc'[ref'[K(depth + 1)]] = 1,
         o = "trampoline" => \A i \in Field : ref'[F(ref'[K(depth + 1)], i)] = Null
  PROVE  IInv'
<1>0. /\ depth \in 0..MaxDepth /\ MaxDepth \in Nat /\ depth \in 0..depth
      /\ frame \in [Frame -> Activation] /\ depth + 1 \in Frame
  BY Stack
<1>1. Typed'
  <2>1. depth' \in 0..MaxDepth /\ frame' \in [Frame -> Activation]
    BY <1>0, InOpFacts
  <2> QED
    BY <2>1 DEF Typed
<1>2. Tops'
  <2> SUFFICES ASSUME NEW k \in Frame, k > depth + 1 PROVE ref'[K(k)] = Null
    BY DEF Tops
  <2> QED
    BY <1>0 DEF IInv, Tops, Frame
<1>3. frame'[depth + 1].op = o
  BY <1>0, InOpFacts
<1>4. ASSUME NEW k \in (depth + 1)..depth' PROVE k = depth + 1
  BY <1>0
<1>5. ASSUME NEW k \in (depth + 1)..depth' PROVE FrameOK(k)'
  BY <1>3, <1>4 DEF FrameOK, Owing, HandedOver, Setting
<1>6. ASSUME NEW k \in (depth + 1)..depth', NEW j PROVE ~Same(j, k)'
  BY <1>3, <1>4 DEF Same
<1> QED
  BY <1>0, <1>1, <1>2, <1>5, <1>6, StepInv

\* A step that ends the innermost activation.
LEMMA PopStep ==
  ASSUME IInv, depth > 0, Local(depth - 1), Exact(ref', rc'),
         obj' \in [Addr -> Object], lvl' \in [Var -> 0..MaxDepth], stale' \in BOOLEAN,
         depth' = depth - 1, frame' = [frame EXCEPT ![depth] = Idle],
         \A k \in Frame : k # depth => ref'[K(k)] = ref[K(k)],
         ref'[K(depth)] = Null
  PROVE  IInv'
<1>0. /\ depth \in 0..MaxDepth /\ MaxDepth \in Nat /\ depth - 1 \in 0..depth
      /\ frame \in [Frame -> Activation] /\ depth \in Frame
  BY Stack
<1>1. Typed'
  <2>1. depth' \in 0..MaxDepth
    BY <1>0
  <2>2. Idle \in Activation
    BY HeapAssumption DEF Idle, Activation, Ref, Field
  <2> QED
    BY <1>0, <2>1, <2>2 DEF Typed
<1>2. Tops'
  <2> SUFFICES ASSUME NEW k \in Frame, k > depth - 1 PROVE ref'[K(k)] = Null
    BY DEF Tops
  <2> QED
    BY <1>0 DEF IInv, Tops, Frame
<1>3. (depth - 1 + 1)..depth' = {}
  BY <1>0
<1>4. depth - 1 <= depth'
  BY <1>0
<1> QED
  BY <1>0, <1>1, <1>2, <1>3, <1>4, StepInv

\* Owners returns levels of the stack.
LEMMA OwnersType ==
  ASSUME IInv, NEW r, NEW X, NEW e \in 0..MaxDepth
  PROVE  Owners(r, X, e) \in [Var -> 0..MaxDepth]
<1>1. lvl \in [Var -> 0..MaxDepth] /\ 0 \in 0..MaxDepth
  BY HeapAssumption DEF IInv, TypeOK
<1> QED
  BY <1>1 DEF Owners

\* Locals of other activations keep their owner.
LEMMA OwnersKeep ==
  ASSUME NEW d, NEW X, NEW e, lvl' = Owners(ref', X, e),
         \A x \in X : ref[V(x)] = Null \/ lvl[x] = depth,
         \A x \in Var : ref'[V(x)] # ref[V(x)] => ref[V(x)] = Null \/ Avail(V(x), d)
  PROVE  LocalVars(d)
<1> SUFFICES ASSUME NEW x \in Var, ref[V(x)] # Null, lvl[x] # depth
             PROVE  lvl'[x] = lvl[x]
  BY DEF LocalVars
<1>1. ~Avail(V(x), d)
  BY AvailVar DEF Mine
<1> QED
  BY <1>1 DEF Owners

\* Usable locals, fields and new activations may be used.
LEMMA Availables ==
  ASSUME NEW d
  PROVE  /\ \A x \in Var : Usable(x) => Avail(V(x), d)
         /\ \A a \in Addr, i \in Field : Avail(F(a, i), d)
         /\ \A k \in Frame : k > d => Avail(K(k), d)
BY DEF Avail, Usable

\* The empty heap satisfies the invariant.
LEMMA InitInv == Init => IInv
<1> SUFFICES ASSUME Init PROVE IInv
  OBVIOUS
<1>1. TypeOK
  <2>1. Idle \in Activation
    BY HeapAssumption DEF Idle, Activation, Ref, Field
  <2>2. FreeCell \in Object
    BY HeapAssumption DEF FreeCell, Object, Tag
  <2>3. stale \in BOOLEAN
    BY Zenon DEF Init
  <2>4. /\ 0 \in 0..RefMax /\ 0 \in 0..MaxDepth /\ Null \in Ref
    BY HeapAssumption DEF Ref
  <2> QED
    BY <2>1, <2>2, <2>3, <2>4 DEF Init, TypeOK
<1>2. Counted(ref, rc)
  <2> SUFFICES ASSUME NEW a \in Addr PROVE Cardinality(RefsTo(ref, a)) = rc[a]
    BY DEF Counted
  <2>1. RefsTo(ref, a) = {}
    BY HeapAssumption DEF Init, RefsTo
  <2> QED
    BY <2>1, FS_EmptySet DEF Init
<1>3. Shape /\ Reuse /\ Finalisers /\ IORefs /\ Tops
  <2>1. \A s \in Slot : ref[s] = Null
    BY DEF Init
  <2>2. 3 \in Field
    BY HeapAssumption DEF Field
  <2> QED
    BY <2>1, <2>2, SlotKinds DEF Init, Shape, Reuse, Finalisers, IORefs, Tops, FreeCell
<1>4. Frames /\ Distinct
  BY DEF Init, Frames, Distinct
<1> QED
  BY <1>1, <1>2, <1>3, <1>4 DEF IInv

-----------------------------------------------------------------------------
(* References duplicated into locals. *)

\* What is new after idris2_newReference of the sources of m.
LEMMA CopyCounts ==
  ASSUME IInv, NEW d, NEW m, Fills(ref, m),
         \A t \in DOMAIN m : ref[m[t]] = Null \/ Avail(m[t], d)
  PROVE  \A a \in Addr :
           /\ NewRefs(rc, ref, m)[a] \in rc[a]..RefMax /\ rc[a] \in 0..RefMax
           /\ rc[a] = 0 => NewRefs(rc, ref, m)[a] = 0
           /\ NewRefs(rc, ref, m)[a] # rc[a] => Held(a, d)
<1> SUFFICES ASSUME NEW a \in Addr
             PROVE  /\ NewRefs(rc, ref, m)[a] \in rc[a]..RefMax /\ rc[a] \in 0..RefMax
                    /\ rc[a] = 0 => NewRefs(rc, ref, m)[a] = 0
                    /\ NewRefs(rc, ref, m)[a] # rc[a] => Held(a, d)
  OBVIOUS
<1>1. NewRefs(rc, ref, m)[a] \in rc[a]..RefMax /\ rc[a] \in 0..RefMax
  BY InvExact, NewRefsAt DEF Exact
<1>2. ASSUME NewRefs(rc, ref, m)[a] # rc[a]
      PROVE  rc[a] # 0 /\ Held(a, d)
  <2>1. PICK t \in DOMAIN m : ref[m[t]] = a
    BY <1>2, InvExact, NewRefsAt
  <2>2. m[t] \in Slot /\ a # Null
    BY HeapAssumption DEF Fills
  <2>3. rc[a] # 0
    BY <2>1, <2>2, InvExact, Alive
  <2> QED
    BY <2>1, <2>2, <2>3 DEF Held
<1> QED
  BY <1>1, <1>2

\* References duplicated into empty locals.
LEMMA CopyToVars ==
  ASSUME IInv, NEW m, Fills(ref, m),
         \A t \in DOMAIN m : \E x \in Var : t = V(x),
         \A t \in DOMAIN m : ref[m[t]] = Null \/ Avail(m[t], depth),
         ref' = Copy(ref, m), rc' = NewRefs(rc, ref, m), UNCHANGED <<obj, depth, frame>>,
         NEW X, \A x \in X : ref[V(x)] = Null, lvl' = Owners(ref', X, depth),
         stale' \in BOOLEAN
  PROVE  IInv'
<1>1. Exact(ref', rc')
  BY InvExact, ExactCopy
<1>2. \A u \in Slot : u \notin DOMAIN m => ref'[u] = ref[u]
  BY DEF Copy
<1>3. /\ \A k \in Frame : ref'[K(k)] = ref[K(k)]
      /\ \A a \in Addr, i \in Field : ref'[F(a, i)] = ref[F(a, i)]
  BY <1>2, SlotKinds, SlotDistinct
<1>4. \A x \in Var : ref'[V(x)] # ref[V(x)] => ref[V(x)] = Null
  BY <1>2, SlotKinds DEF Fills
<1>5. LocalVars(depth)
  BY <1>4, OwnersKeep
<1>6. LocalFrames(depth)
  <2>1. 1..depth \subseteq Frame
    BY HeapAssumption DEF IInv, TypeOK, Frame
  <2> QED
    BY <1>3, <2>1 DEF LocalFrames
<1>7. LocalCounts(depth) /\ NewObjects
  BY CopyCounts, HeapAssumption DEF LocalCounts, NewObjects
<1>8. LocalObjects(depth) /\ LocalFields
  BY <1>3 DEF LocalObjects, LocalFields
<1>9. lvl' \in [Var -> 0..MaxDepth] /\ obj' \in [Addr -> Object]
  BY OwnersType DEF IInv, TypeOK
<1> QED
  BY <1>1, <1>3, <1>5, <1>6, <1>7, <1>8, <1>9, FlatStep DEF Local

\* newReference keeps the invariant.
LEMMA NewReferenceInv ==
  ASSUME IInv, NEW x \in Var, NEW y \in Var, newReference(x, y)
  PROVE  IInv'
<1> DEFINE m == [s \in {V(y)} |-> V(x)]
<1>1. Fills(ref, m)
  BY SlotKinds DEF newReference, Fills
<1>2. \A t \in DOMAIN m : \E z \in Var : t = V(z)
  OBVIOUS
<1>3. \A t \in DOMAIN m : Avail(m[t], depth)
  BY Availables DEF newReference
<1>4. /\ ref' = Copy(ref, m) /\ rc' = NewRefs(rc, ref, m) /\ UNCHANGED <<obj, depth, frame>>
      /\ \A z \in {y} : ref[V(z)] = Null
      /\ lvl' = Owners(ref', {y}, depth)
  BY DEF newReference
<1>5. stale' \in BOOLEAN
  BY Zenon DEF newReference, IInv, TypeOK
<1> HIDE DEF m
<1> QED
  BY <1>1, <1>2, <1>3, <1>4, <1>5, CopyToVars

\* So does a read of an IORef or an array.
LEMMA ReadInv ==
  ASSUME IInv, NEW x \in Var, NEW a \in Addr, NEW i \in Field, Read(x, a, i),
         stale' \in BOOLEAN
  PROVE  IInv'
<1> DEFINE m == [s \in {V(x)} |-> F(a, i)]
<1>1. Fills(ref, m)
  BY SlotKinds DEF Read, Fills
<1>2. \A t \in DOMAIN m : \E z \in Var : t = V(z)
  OBVIOUS
<1>3. \A t \in DOMAIN m : Avail(m[t], depth)
  BY Availables
<1>4. /\ ref' = Copy(ref, m) /\ rc' = NewRefs(rc, ref, m) /\ UNCHANGED <<obj, depth, frame>>
      /\ \A z \in {x} : ref[V(z)] = Null
      /\ lvl' = Owners(ref', {x}, depth)
  BY DEF Read
<1> HIDE DEF m
<1> QED
  BY <1>1, <1>2, <1>3, <1>4, CopyToVars

\* The fields bound to locals.
LEMMA Bound ==
  ASSUME NEW r, NEW a \in Addr, NEW I \in SUBSET Field, NEW ps \in Params(r, I)
  PROVE  /\ Fills(r, ToVars(a, ps)) /\ Injective(ToVars(a, ps))
         /\ DOMAIN ps \subseteq Var /\ \A x \in DOMAIN ps : r[V(x)] = Null
         /\ \A t : t \in DOMAIN ToVars(a, ps) <=> \E x \in DOMAIN ps : t = V(x)
         /\ \A x \in DOMAIN ps : ToVars(a, ps)[V(x)] = F(a, ps[x]) /\ ps[x] \in I
         /\ \A i \in I : \E x \in DOMAIN ps : ps[x] = i
<1>1. PICK X \in SUBSET {x \in Var : r[V(x)] = Null} : ps \in [X -> I]
  BY DEF Params
<1>2. Injective(ps) /\ \A i \in I : \E x \in DOMAIN ps : ps[x] = i
  BY DEF Params
<1>3. DOMAIN ps \subseteq Var /\ \A x \in DOMAIN ps : r[V(x)] = Null /\ ps[x] \in I
  BY <1>1
<1>4. \A t : t \in DOMAIN ToVars(a, ps) <=> \E x \in DOMAIN ps : t = V(x)
  BY DEF ToVars
<1>5. \A x \in DOMAIN ps : ToVars(a, ps)[V(x)] = F(a, ps[x])
  BY SlotParts DEF ToVars
<1>6. Fills(r, ToVars(a, ps))
  BY <1>3, <1>4, <1>5, SlotKinds DEF Fills
<1>7. Injective(ToVars(a, ps))
  BY <1>2, <1>4, <1>5, SlotDistinct DEF Injective
<1> QED
  BY <1>2, <1>3, <1>4, <1>5, <1>6, <1>7

\* caseBorrow keeps the invariant.
LEMMA CaseBorrowInv ==
  ASSUME IInv, NEW x \in Var, caseBorrow(x)
  PROVE  IInv'
<1> DEFINE a == ref[V(x)]
<1>0. a \in Addr
  BY InvExact, Alive, SlotKinds DEF caseBorrow, Is, Mine
<1>a. PICK I \in SUBSET Full(ref, a) : \E ps \in Params(ref, I) :
        /\ ref' = Copy(ref, ToVars(a, ps))
        /\ rc' = NewRefs(rc, ref, ToVars(a, ps))
        /\ lvl' = Owners(ref', DOMAIN ps, depth)
  BY DEF caseBorrow
<1>1. PICK ps \in Params(ref, I) :
        /\ ref' = Copy(ref, ToVars(a, ps))
        /\ rc' = NewRefs(rc, ref, ToVars(a, ps))
        /\ lvl' = Owners(ref', DOMAIN ps, depth)
  BY <1>a
<1>2. I \in SUBSET Field
  BY DEF Full
<1> DEFINE m == ToVars(a, ps)
<1>3. /\ Fills(ref, m) /\ DOMAIN ps \subseteq Var
      /\ \A t : t \in DOMAIN m <=> \E y \in DOMAIN ps : t = V(y)
      /\ \A y \in DOMAIN ps : ref[V(y)] = Null /\ m[V(y)] = F(a, ps[y]) /\ ps[y] \in I
  BY <1>0, <1>2, Bound
<1> HIDE DEF m
<1>4. ASSUME NEW t \in DOMAIN m
      PROVE  (\E z \in Var : t = V(z)) /\ Avail(m[t], depth)
  <2>1. PICK y \in DOMAIN ps : t = V(y)
    BY <1>3
  <2>2. y \in Var /\ m[t] = F(a, ps[y]) /\ ps[y] \in Field
    BY <1>2, <1>3, <2>1
  <2> QED
    BY <1>0, <2>1, <2>2, Availables
<1>5. stale' \in BOOLEAN
  BY Zenon DEF caseBorrow, IInv, TypeOK
<1>6. UNCHANGED <<obj, depth, frame>>
  BY DEF caseBorrow
<1>7. ref' = Copy(ref, m) /\ rc' = NewRefs(rc, ref, m)
  BY <1>1 DEF m
<1> QED
  BY <1>1, <1>3, <1>4, <1>5, <1>6, <1>7, CopyToVars

-----------------------------------------------------------------------------
(* idris2_removeReference. *)

\* What one call does, for any heap it is called on.
Removed(r, c, f, s, d) ==
    /\ \A u \in Slot : u # s /\ u # K(d + 1) => ref'[u] = r[u]
    /\ s # K(d + 1) => ref'[s] = Null
    /\ \A a \in Addr : /\ rc'[a] # c[a] => a = r[s]
                       /\ rc'[a] = 0 => c[a] = 0
    /\ \/ /\ depth' = d /\ frame' = f
          /\ d < MaxDepth => ref'[K(d + 1)] = Null
       \/ /\ d < MaxDepth /\ depth' = d + 1
          /\ frame' = [f EXCEPT ![d + 1] = InOp("remove")]
          /\ ref'[K(d + 1)] = r[s] /\ r[s] \in Addr /\ rc'[r[s]] = 1 /\ c[r[s]] = 1

\* Remove keeps the counters exact and does what Removed says.
LEMMA RemoveFacts ==
  ASSUME NEW r, NEW c, NEW f, NEW s \in Slot, NEW d \in 0..MaxDepth, Exact(r, c),
         Remove(r, c, f, s, d),
         d < MaxDepth => r[K(d + 1)] = Null \/ s = K(d + 1)
  PROVE  Exact(ref', rc') /\ Removed(r, c, f, s, d)
<1>0. /\ r \in [Slot -> Ref] /\ c \in [Addr -> 0..RefMax]
      /\ d < MaxDepth => K(d + 1) \in Slot
  <2>1. d < MaxDepth => d + 1 \in Frame
    BY HeapAssumption DEF Frame
  <2> QED
    BY <2>1, SlotKinds DEF Exact
<1>1. CASE r[s] # Null /\ c[r[s]] = 1
  <2>1. r[s] \in Addr
    BY <1>1, Alive
  <2>2. Destroy(r, c, f, s, d)
    BY <1>1 DEF Remove
  <2>3. /\ d < MaxDepth /\ depth' = d + 1 /\ rc' = c
        /\ ref' = [r EXCEPT ![s] = Null, ![K(d + 1)] = r[s]]
        /\ frame' = [f EXCEPT ![d + 1] = InOp("remove")]
    BY <2>2 DEF Destroy
  <2>4. Exact(ref', rc')
    <3>1. CASE s = K(d + 1)
      <4>1. ref' = r
        BY <1>0, <2>3, <3>1
      <4> QED
        BY <2>3, <4>1
    <3>2. CASE s # K(d + 1)
      BY <1>0, <2>3, <3>2, ExactShift
    <3> QED
      BY <3>1, <3>2
  <2>5. /\ \A u \in Slot : u # s /\ u # K(d + 1) => ref'[u] = r[u]
        /\ s # K(d + 1) => ref'[s] = Null
        /\ ref'[K(d + 1)] = r[s]
    BY <1>0, <2>3
  <2> QED
    BY <1>1, <2>1, <2>3, <2>4, <2>5 DEF Removed
<1>2. CASE ~(r[s] # Null /\ c[r[s]] = 1)
  <2>1. Decrement(r, c, f, s, d)
    BY <1>2 DEF Remove
  <2>2. /\ ref' = [r EXCEPT ![s] = Null] /\ depth' = d /\ frame' = f
        /\ rc' = IF r[s] = Null \/ c[r[s]] = RefMax THEN c ELSE [c EXCEPT ![r[s]] = @ - 1]
    BY <2>1 DEF Decrement
  <2>3. /\ \A u \in Slot : u # s => ref'[u] = r[u]
        /\ ref'[s] = Null
    BY <1>0, <2>2
  <2>4. d < MaxDepth => ref'[K(d + 1)] = Null
    BY <1>0, <2>3
  <2>5. CASE r[s] = Null \/ c[r[s]] = RefMax
    <3>1. rc' = c
      BY <2>2, <2>5
    <3>2. Exact(ref', rc')
      BY <2>2, <2>5, <3>1, ExactImmortal
    <3> QED
      BY <2>2, <2>3, <2>4, <3>1, <3>2 DEF Removed
  <2>6. CASE ~(r[s] = Null \/ c[r[s]] = RefMax)
    <3>0. r[s] \in Addr /\ c[r[s]] \in 1..RefMax
      BY <2>6, Alive
    <3>1. rc' = [c EXCEPT ![r[s]] = @ - 1]
      BY <2>2, <2>6
    <3>2. Exact(ref', rc')
      <4>1. Exact([r EXCEPT ![s] = Null], [c EXCEPT ![r[s]] = @ - 1])
        BY <2>6, ExactRelease
      <4> QED
        BY <2>2, <3>1, <4>1
    <3>3. \A a \in Addr : /\ rc'[a] # c[a] => a = r[s]
                          /\ rc'[a] = 0 => c[a] = 0
      <4>1. c[r[s]] - 1 # 0
        BY <1>2, <2>6, <3>0, HeapAssumption
      <4>2. \A a \in Addr : rc'[a] = IF a = r[s] THEN c[r[s]] - 1 ELSE c[a]
        BY <1>0, <3>0, <3>1
      <4> QED
        BY <4>1, <4>2
    <3> QED
      BY <2>2, <2>3, <2>4, <3>2, <3>3 DEF Removed
  <2> QED
    BY <2>5, <2>6
<1> QED
  BY <1>1, <1>2

\* The call is made by the program or by the cascade.
LEMMA RemoveInv ==
  ASSUME IInv, NEW s \in Slot, Avail(s, depth), \A k \in Frame : s # K(k),
         Remove(ref, rc, frame, s, depth), UNCHANGED <<obj, stale>>,
         lvl' = lvl \/ lvl' = Owners(ref', {}, depth)
  PROVE  IInv'
<1>0. /\ depth \in 0..MaxDepth /\ MaxDepth \in Nat /\ depth \in 0..depth
      /\ frame \in [Frame -> Activation] /\ 1..depth \subseteq Frame
      /\ depth < MaxDepth => depth + 1 \in Frame /\ K(depth + 1) \in Slot
  BY Stack
<1>1. depth < MaxDepth => ref[K(depth + 1)] = Null
  BY Stack
<1>2. Exact(ref', rc') /\ Removed(ref, rc, frame, s, depth)
  BY <1>0, <1>1, InvExact, RemoveFacts
<1>3. \A u \in Slot : u # s /\ u # K(depth + 1) => ref'[u] = ref[u]
  BY <1>2 DEF Removed
<1>4. \A k \in Frame : k # depth + 1 => ref'[K(k)] = ref[K(k)]
  BY <1>3, SlotKinds, SlotDistinct
<1>5. LocalFrames(depth)
  <2> SUFFICES ASSUME NEW k \in 1..depth
               PROVE  frame'[k] = frame[k] /\ ref'[K(k)] = ref[K(k)]
    BY DEF LocalFrames
  <2>1. k \in Frame /\ k # depth + 1
    BY <1>0
  <2> QED
    BY <1>0, <1>2, <1>4, <2>1 DEF Removed
<1>6. LocalVars(depth)
  <2>1. \A x \in Var : ref'[V(x)] # ref[V(x)] => Avail(V(x), depth)
    BY <1>3, SlotKinds, SlotDistinct
  <2>2. CASE lvl' = lvl
    BY <2>1, <2>2 DEF LocalVars
  <2>3. CASE lvl' = Owners(ref', {}, depth)
    BY <2>1, <2>3, OwnersKeep
  <2> QED
    BY <2>2, <2>3
<1>7. LocalCounts(depth) /\ NewObjects
  <2>1. ASSUME NEW a \in Addr, rc'[a] # rc[a] PROVE rc[a] # 0 /\ Held(a, depth)
    <3>1. ref[s] = a /\ a # Null
      BY <1>2, <2>1, HeapAssumption DEF Removed
    <3> QED
      BY <3>1, InvExact, Alive DEF Held
  <2>2. \A a \in Addr : rc'[a] = 0 => rc[a] = 0
    BY <1>2 DEF Removed
  <2> QED
    BY <2>1, <2>2 DEF LocalCounts, NewObjects
<1>8. LocalObjects(depth) /\ LocalFields
  <2>1. ASSUME NEW a \in Addr, NEW i \in Field, ref'[F(a, i)] # ref[F(a, i)]
        PROVE  ref'[F(a, i)] = Null
    BY <1>2, <1>3, <2>1, SlotKinds, SlotDistinct DEF Removed
  <2> QED
    BY <2>1 DEF LocalObjects, LocalFields
<1>9. CASE depth' = depth /\ frame' = frame /\ (depth < MaxDepth => ref'[K(depth + 1)] = Null)
  <2>1. \A k \in Frame : ref'[K(k)] = ref[K(k)]
    BY <1>0, <1>1, <1>4, <1>9 DEF Frame
  <2>2. lvl' \in [Var -> 0..MaxDepth] /\ obj' \in [Addr -> Object]
    BY <1>0, OwnersType DEF IInv, TypeOK
  <2>3. stale' \in BOOLEAN
    BY Zenon DEF IInv, TypeOK
  <2> QED
    BY <1>2, <1>5, <1>6, <1>7, <1>8, <1>9, <2>1, <2>2, <2>3, FlatStep DEF Local
<1>10. CASE /\ depth < MaxDepth /\ depth' = depth + 1
            /\ frame' = [frame EXCEPT ![depth + 1] = InOp("remove")]
            /\ ref'[K(depth + 1)] = ref[s] /\ ref[s] \in Addr /\ rc'[ref[s]] = 1
  <2>1. ref'[K(depth + 1)] # Null /\ rc'[ref'[K(depth + 1)]] = 1
    BY <1>10, HeapAssumption
  <2>2. lvl' \in [Var -> 0..MaxDepth] /\ obj' \in [Addr -> Object]
    BY <1>0, OwnersType DEF IInv, TypeOK
  <2>3. stale' \in BOOLEAN
    BY Zenon DEF IInv, TypeOK
  <2> QED
    BY <1>2, <1>4, <1>5, <1>6, <1>7, <1>8, <1>10, <2>1, <2>2, <2>3, PushStep DEF Local
<1> QED
  BY <1>2, <1>9, <1>10 DEF Removed

\* removeReference keeps the invariant.
LEMMA RemoveReferenceInv ==
  ASSUME IInv, NEW x \in Var, removeReference(x)
  PROVE  IInv'
<1>1. V(x) \in Slot /\ Avail(V(x), depth) /\ \A k \in Frame : V(x) # K(k)
  BY SlotKinds, SlotDistinct, Availables DEF removeReference
<1>2. /\ Remove(ref, rc, frame, V(x), depth) /\ UNCHANGED <<obj, stale>>
      /\ lvl' = Owners(ref', {}, depth)
  BY DEF removeReference
<1> QED
  BY <1>1, <1>2, RemoveInv

\* The object that is being destroyed.
LEMMA DyingFacts ==
  ASSUME IInv, Removing
  PROVE  /\ Dying \in Addr /\ rc[Dying] = 1 /\ depth \in Frame
         /\ depth \in 0..MaxDepth /\ depth > 0 /\ K(depth) \in Slot
         /\ \A s \in Slot : ref[s] = Dying => s = K(depth)
<1>1. /\ depth > 0 /\ depth \in Frame /\ depth \in 0..MaxDepth
      /\ K(depth) \in Slot /\ FrameOK(depth)
  BY Stack DEF Removing
<1>2. Dying # Null /\ rc[Dying] = 1
  BY <1>1 DEF FrameOK, Owing, Removing, Dying
<1>3. Dying \in Addr
  BY <1>1, <1>2, InvExact, Alive DEF Dying
<1>4. \A s \in Slot : ref[s] = Dying => s = K(depth)
  BY <1>1, <1>2, <1>3, InvExact, Sole DEF Dying
<1> QED
  BY <1>1, <1>2, <1>3, <1>4

\* RemoveField keeps the invariant.
LEMMA RemoveFieldInv ==
  ASSUME IInv, RemoveField
  PROVE  IInv'
<1>1. PICK i \in Full(ref, Dying) : Remove(ref, rc, frame, F(Dying, i), depth)
  BY DEF RemoveField
<1>2. Dying \in Addr /\ i \in Field
  BY DyingFacts DEF RemoveField, Full
<1>3. /\ F(Dying, i) \in Slot /\ Avail(F(Dying, i), depth)
      /\ \A k \in Frame : F(Dying, i) # K(k)
  <2>1. F(Dying, i) \in Slot /\ \A k \in Frame : F(Dying, i) # K(k)
    BY <1>2, SlotKinds, SlotDistinct
  <2>2. Avail(F(Dying, i), depth)
    BY <1>2, Availables
  <2> QED
    BY <2>1, <2>2
<1>4. UNCHANGED <<obj, stale>> /\ lvl' = lvl
  BY DEF RemoveField
<1> QED
  BY <1>1, <1>3, <1>4, RemoveInv

-----------------------------------------------------------------------------
(* free(). *)

\* The holder of the last reference gives the object back.
LEMMA FreeFacts ==
  ASSUME IInv, NEW d, NEW s \in Slot, Avail(s, d), NEW a \in Addr, ref[s] = a,
         rc[a] = 1, Empty(a), \A b \in Addr, i \in Field : s # F(b, i),
         ref' = [ref EXCEPT ![s] = Null], rc' = [rc EXCEPT ![a] = 0],
         obj' = [obj EXCEPT ![a] = FreeCell]
  PROVE  /\ Exact(ref', rc') /\ obj' \in [Addr -> Object]
         /\ LocalCounts(d) /\ LocalObjects(d) /\ LocalFields /\ NewObjects
         /\ ref'[s] = Null /\ \A u \in Slot : u # s => ref'[u] = ref[u]
<1>0. /\ ref \in [Slot -> Ref] /\ rc \in [Addr -> 0..RefMax] /\ obj \in [Addr -> Object]
  BY DEF IInv, TypeOK
<1>1. Exact(ref', rc')
  <2>1. ref[s] # Null /\ rc[ref[s]] # RefMax
    BY HeapAssumption
  <2>2. Exact([ref EXCEPT ![s] = Null], [rc EXCEPT ![ref[s]] = @ - 1])
    BY <2>1, InvExact, ExactRelease
  <2>3. [rc EXCEPT ![ref[s]] = @ - 1] = rc'
    BY <1>0
  <2> QED
    BY <2>2, <2>3
<1>2. FreeCell \in Object
  BY HeapAssumption DEF FreeCell, Object, Tag
<1>3. obj' \in [Addr -> Object]
  BY <1>0, <1>2
<1>4. ref'[s] = Null /\ \A u \in Slot : u # s => ref'[u] = ref[u]
  BY <1>0
<1>5. \A b \in Addr, i \in Field : ref'[F(b, i)] = ref[F(b, i)]
  BY <1>4, SlotKinds
<1>6. Empty(a)'
  BY <1>5 DEF Empty
<1>7. \A b \in Addr : b # a => rc'[b] = rc[b] /\ obj'[b] = obj[b]
  BY <1>0
<1>8. rc'[a] = 0 /\ obj'[a] = FreeCell
  BY <1>0
<1>9. LocalCounts(d)
  BY <1>6, <1>7 DEF LocalCounts, Held
<1>10. LocalObjects(d)
  BY <1>4, <1>6, <1>7, <1>8, HeapAssumption DEF LocalObjects, Freed
<1>11. LocalFields
  BY <1>5 DEF LocalFields
<1>12. NewObjects
  BY <1>7, <1>8 DEF NewObjects
<1> QED
  BY <1>1, <1>3, <1>4, <1>9, <1>10, <1>11, <1>12

\* FreeElem keeps the invariant: the object it frees is empty.
LEMMA FreeElemInv ==
  ASSUME IInv, FreeElem
  PROVE  IInv'
<1> DEFINE a == Dying
<1>1. /\ Removing /\ Full(ref, a) = {}
      /\ ref' = [ref EXCEPT ![K(depth)] = Null] /\ rc' = [rc EXCEPT ![a] = 0]
      /\ obj' = [obj EXCEPT ![a] = FreeCell]
      /\ depth' = depth - 1 /\ frame' = [frame EXCEPT ![depth] = Idle]
      /\ lvl' = lvl
  BY DEF FreeElem
<1>2. stale' \in BOOLEAN
  BY Zenon DEF FreeElem, IInv, TypeOK
<1>3. /\ a \in Addr /\ rc[a] = 1 /\ depth \in Frame /\ depth > 0 /\ K(depth) \in Slot
      /\ ref[K(depth)] = a /\ depth > depth - 1
  BY <1>1, DyingFacts DEF Dying
<1>4. Avail(K(depth), depth - 1)
  BY <1>3, Availables
<1>5. Empty(a)
  BY <1>1 DEF Full, Empty
<1> HIDE DEF a
<1>6. /\ Exact(ref', rc') /\ obj' \in [Addr -> Object]
      /\ LocalCounts(depth - 1) /\ LocalObjects(depth - 1) /\ LocalFields /\ NewObjects
      /\ ref'[K(depth)] = Null /\ \A u \in Slot : u # K(depth) => ref'[u] = ref[u]
  <2>1. \A b \in Addr, i \in Field : K(depth) # F(b, i)
    BY SlotDistinct
  <2> QED
    BY <1>1, <1>3, <1>4, <1>5, <2>1, FreeFacts
<1>7. /\ \A k \in Frame : k # depth => ref'[K(k)] = ref[K(k)]
      /\ \A x \in Var : ref'[V(x)] = ref[V(x)]
  BY <1>6, SlotKinds, SlotDistinct
<1>8. LocalVars(depth - 1) /\ lvl' \in [Var -> 0..MaxDepth]
  BY <1>1, <1>7 DEF LocalVars, IInv, TypeOK
<1>9. LocalFrames(depth - 1)
  <2> SUFFICES ASSUME NEW k \in 1..(depth - 1)
               PROVE  frame'[k] = frame[k] /\ ref'[K(k)] = ref[K(k)]
    BY DEF LocalFrames
  <2>1. k \in Frame /\ k # depth
    BY <1>3, HeapAssumption DEF Frame
  <2> QED
    BY <1>1, <1>7, <2>1, Stack
<1> QED
  BY <1>1, <1>2, <1>3, <1>6, <1>7, <1>8, <1>9, PopStep DEF Local

\* removeReuseConstructor keeps the invariant: the cell is empty.
LEMMA RemoveReuseConstructorInv ==
  ASSUME IInv, NEW x \in Var, removeReuseConstructor(x)
  PROVE  IInv'
<1> DEFINE a == ref[V(x)]
<1>0. Mine(x) /\ obj[a].tag = "reuse" /\ V(x) \in Slot
  BY SlotKinds DEF removeReuseConstructor, Is
<1>1. a \in Addr /\ rc[a] = 1 /\ Empty(a)
  <2>1. a \in Addr
    BY <1>0, InvExact, Alive DEF Mine
  <2> QED
    BY <1>0, <2>1 DEF IInv, Reuse, Empty
<1>2. /\ ref' = [ref EXCEPT ![V(x)] = Null] /\ rc' = [rc EXCEPT ![a] = 0]
      /\ obj' = [obj EXCEPT ![a] = FreeCell] /\ lvl' = Owners(ref', {}, depth)
      /\ UNCHANGED <<depth, frame>>
  BY <1>1 DEF removeReuseConstructor, IInv, TypeOK
<1>3. stale' \in BOOLEAN
  BY Zenon DEF removeReuseConstructor, IInv, TypeOK
<1>4. Avail(V(x), depth)
  <2>1. obj'[a].tag # "reuse"
    BY <1>1, <1>2 DEF FreeCell, IInv, TypeOK
  <2> QED
    BY <1>0, <2>1 DEF Avail
<1> HIDE DEF a
<1>5. /\ Exact(ref', rc') /\ obj' \in [Addr -> Object]
      /\ LocalCounts(depth) /\ LocalObjects(depth) /\ LocalFields /\ NewObjects
      /\ \A u \in Slot : u # V(x) => ref'[u] = ref[u]
  <2>1. ref[V(x)] = a
    BY DEF a
  <2>2. \A b \in Addr, i \in Field : V(x) # F(b, i)
    BY SlotDistinct
  <2> QED
    BY <1>0, <1>1, <1>2, <1>4, <2>1, <2>2, FreeFacts
<1>6. \A k \in Frame : ref'[K(k)] = ref[K(k)]
  BY <1>5, SlotKinds, SlotDistinct
<1>7. LocalVars(depth) /\ lvl' \in [Var -> 0..MaxDepth]
  <2>1. \A y \in Var : ref'[V(y)] # ref[V(y)] => Avail(V(y), depth)
    BY <1>4, <1>5, SlotKinds
  <2> QED
    BY <1>2, <2>1, OwnersKeep, OwnersType, Stack
<1>8. LocalFrames(depth)
  BY <1>2, <1>6, Stack DEF LocalFrames
<1> QED
  BY <1>2, <1>3, <1>5, <1>6, <1>7, <1>8, FlatStep DEF Local

\* trampolineReturn keeps the invariant: the closure is empty.
LEMMA TrampolineReturnInv ==
  ASSUME IInv, trampolineReturn
  PROVE  IInv'
<1> DEFINE a == ref[K(depth)]
           X == {x \in Var : Mine(x)}
<1>0. /\ depth > 0 /\ frame[depth].op = "trampoline"
      /\ depth \in Frame /\ depth \in 0..MaxDepth /\ MaxDepth \in Nat
      /\ K(depth) \in Slot /\ FrameOK(depth)
  BY Stack DEF trampolineReturn
<1>1. a \in Addr /\ rc[a] = 1 /\ Empty(a)
  <2>1. a # Null /\ rc[a] = 1 /\ Empty(a)
    BY <1>0 DEF FrameOK, Owing, HandedOver, Empty
  <2> QED
    BY <1>0, <2>1, InvExact, Alive
<1>2. /\ ref' = [ref EXCEPT ![K(depth)] = Null] /\ rc' = [rc EXCEPT ![a] = 0]
      /\ obj' = [obj EXCEPT ![a] = FreeCell] /\ lvl' = Owners(ref', X, depth - 1)
      /\ depth' = depth - 1 /\ frame' = [frame EXCEPT ![depth] = Idle]
  BY <1>1 DEF trampolineReturn, IInv, TypeOK
<1>3. stale' \in BOOLEAN
  BY Zenon DEF trampolineReturn, IInv, TypeOK
<1>4. Avail(K(depth), depth - 1)
  <2>1. depth > depth - 1
    BY <1>0
  <2> QED
    BY <1>0, <2>1, Availables
<1>5. \A x \in X : lvl[x] = depth
  BY DEF Mine
<1>6. ref[K(depth)] = a /\ \A b \in Addr, i \in Field : K(depth) # F(b, i)
  BY SlotDistinct
<1> HIDE DEF a, X
<1>7. /\ Exact(ref', rc') /\ obj' \in [Addr -> Object]
      /\ LocalCounts(depth - 1) /\ LocalObjects(depth - 1) /\ LocalFields /\ NewObjects
      /\ ref'[K(depth)] = Null /\ \A u \in Slot : u # K(depth) => ref'[u] = ref[u]
  BY <1>0, <1>1, <1>2, <1>4, <1>6, FreeFacts
<1>8. /\ \A k \in Frame : k # depth => ref'[K(k)] = ref[K(k)]
      /\ \A x \in Var : ref'[V(x)] = ref[V(x)]
  BY <1>7, SlotKinds, SlotDistinct
<1>9. LocalVars(depth - 1)
  BY <1>2, <1>5, <1>8, OwnersKeep
<1>10. lvl' \in [Var -> 0..MaxDepth]
  <2>1. depth - 1 \in 0..MaxDepth
    BY <1>0
  <2> QED
    BY <1>2, <2>1, OwnersType
<1>11. LocalFrames(depth - 1)
  <2> SUFFICES ASSUME NEW k \in 1..(depth - 1)
               PROVE  frame'[k] = frame[k] /\ ref'[K(k)] = ref[K(k)]
    BY DEF LocalFrames
  <2>1. k \in Frame /\ k # depth
    BY <1>0, HeapAssumption DEF Frame
  <2> QED
    BY <1>2, <1>8, <2>1, Stack
<1> QED
  BY <1>0, <1>2, <1>3, <1>7, <1>8, <1>9, <1>10, <1>11, PopStep DEF Local

-----------------------------------------------------------------------------
(* Allocation. *)

\* The arguments put into the fields of a.
LEMMA Filled ==
  ASSUME IInv, NEW a \in Addr, Empty(a), NEW n \in 0..MaxFields, NEW as \in Args(n)
  PROVE  /\ Fills(ref, FromVars(a, as)) /\ Injective(FromVars(a, as))
         /\ \A t : t \in DOMAIN FromVars(a, as) <=> \E i \in DOMAIN as : t = F(a, i)
         /\ \A i \in DOMAIN as : /\ i \in 1..n /\ i \in Field
                                 /\ as[i] \in Var /\ Usable(as[i])
                                 /\ FromVars(a, as)[F(a, i)] = V(as[i])
<1>1. PICK J \in SUBSET (1..n) : as \in [J -> {x \in Var : Usable(x)}]
  BY DEF Args
<1>2. Injective(as)
  BY DEF Args
<1>3. \A i \in DOMAIN as : i \in 1..n /\ i \in Field /\ as[i] \in Var /\ Usable(as[i])
  <2>1. 1..n \subseteq Field
    BY HeapAssumption DEF Field
  <2> QED
    BY <1>1, <2>1
<1>4. \A t : t \in DOMAIN FromVars(a, as) <=> \E i \in DOMAIN as : t = F(a, i)
  BY DEF FromVars
<1>5. \A i \in DOMAIN as : FromVars(a, as)[F(a, i)] = V(as[i])
  BY SlotParts DEF FromVars
<1> DEFINE m == FromVars(a, as)
<1>a. /\ \A t : t \in DOMAIN m <=> \E i \in DOMAIN as : t = F(a, i)
      /\ \A i \in DOMAIN as : m[F(a, i)] = V(as[i])
  BY <1>4, <1>5
<1> HIDE DEF m
<1>6. Fills(ref, m)
  <2> SUFFICES ASSUME NEW t \in DOMAIN m PROVE t \in Slot /\ m[t] \in Slot /\ ref[t] = Null
    BY DEF Fills
  <2>1. PICK i \in DOMAIN as : t = F(a, i)
    BY <1>a
  <2> QED
    BY <1>3, <1>a, <2>1, SlotKinds DEF Empty
<1>7. Injective(m)
  <2> SUFFICES ASSUME NEW s \in DOMAIN m, NEW t \in DOMAIN m, m[s] = m[t] PROVE s = t
    BY DEF Injective
  <2>1. PICK i \in DOMAIN as : s = F(a, i)
    BY <1>a
  <2>2. PICK j \in DOMAIN as : t = F(a, j)
    BY <1>a
  <2>3. V(as[i]) = V(as[j])
    BY <1>a, <2>1, <2>2
  <2>4. as[i] = as[j]
    BY <2>3, SlotDistinct
  <2> QED
    BY <1>2, <2>1, <2>2, <2>4 DEF Injective
<1> QED
  BY <1>3, <1>4, <1>5, <1>6, <1>7 DEF m

\* The slots that the arguments leave and the fields that they enter.
Entered(r, a, n) == \A u \in Slot : r[u] # ref[u] =>
    \/ \E i \in 1..n : u = F(a, i)
    \/ r[u] = Null /\ \E x \in Var : u = V(x) /\ Avail(V(x), depth)

\* A new object in local x, once its fields have been filled.
LEMMA AllocInv ==
  ASSUME IInv, NEW x \in Var, NEW a \in Addr, NEW cell \in Object, rc[a] = 0,
         NEW r, NEW c, Exact(r, c), c[a] = 0, r[V(x)] = Null,
         Entered(r, a, cell.size),
         \A b \in Addr : /\ c[b] # rc[b] => rc[b] # 0 /\ Held(b, depth)
                         /\ c[b] = 0 => rc[b] = 0,
         ref' = [r EXCEPT ![V(x)] = a], rc' = [c EXCEPT ![a] = 1],
         obj' = [obj EXCEPT ![a] = cell], cell.tag # "reuse",
         cell.tag = "ioref" => cell.size = 1,
         cell.tag = "gcpointer" => (ref[F(a, 3)] # Null => Finaliser(ref[F(a, 3)]))',
         lvl' = Owners(ref', {x}, depth), UNCHANGED <<depth, frame>>, stale' \in BOOLEAN
  PROVE  IInv'
<1>0. /\ V(x) \in Slot /\ r \in [Slot -> Ref] /\ c \in [Addr -> 0..RefMax]
      /\ obj \in [Addr -> Object]
  BY SlotKinds DEF Exact, IInv, TypeOK
<1>1. Exact(ref', rc')
  BY <1>0, ExactAlloc
<1>2. /\ ref'[V(x)] = a /\ \A u \in Slot : u # V(x) => ref'[u] = r[u]
      /\ rc'[a] = 1 /\ obj'[a] = cell
      /\ \A b \in Addr : b # a => rc'[b] = c[b] /\ obj'[b] = obj[b]
  BY <1>0
<1>3. \A k \in Frame : ref'[K(k)] = ref[K(k)]
  <2> SUFFICES ASSUME NEW k \in Frame PROVE r[K(k)] = ref[K(k)]
    BY <1>2, SlotKinds, SlotDistinct
  <2> QED
    BY SlotKinds, SlotDistinct DEF Entered
<1>4. LocalFrames(depth)
  BY <1>3, Stack DEF LocalFrames
<1>5. ASSUME NEW y \in Var, r[V(y)] # ref[V(y)] PROVE r[V(y)] = Null /\ Avail(V(y), depth)
  <2>1. V(y) \in Slot /\ \A i \in 1..cell.size : V(y) # F(a, i)
    BY SlotKinds, SlotDistinct
  <2>2. \E z \in Var : V(y) = V(z) /\ Avail(V(z), depth) /\ r[V(y)] = Null
    BY <1>5, <2>1 DEF Entered
  <2> QED
    BY <2>2
<1>6. ref[V(x)] = Null \/ Avail(V(x), depth)
  BY <1>5
<1>7. LocalVars(depth)
  <2>1. \A y \in Var : ref'[V(y)] # ref[V(y)] => ref[V(y)] = Null \/ Avail(V(y), depth)
    <3> SUFFICES ASSUME NEW y \in Var, ref'[V(y)] # ref[V(y)]
                 PROVE  ref[V(y)] = Null \/ Avail(V(y), depth)
      OBVIOUS
    <3>1. CASE V(y) = V(x)
      BY <1>6, <3>1
    <3>2. CASE V(y) # V(x)
      BY <1>2, <1>5, <3>2, SlotKinds
    <3> QED
      BY <3>1, <3>2
  <2>2. \A y \in {x} : ref[V(y)] = Null \/ lvl[y] = depth
    BY <1>6, AvailVar DEF Mine
  <2> QED
    BY <2>1, <2>2, OwnersKeep
<1>8. LocalCounts(depth)
  BY <1>2 DEF LocalCounts
<1>9. LocalObjects(depth)
  BY <1>2 DEF LocalObjects
<1>10. LocalFields
  <2> SUFFICES ASSUME NEW b \in Addr, NEW i \in Field, ref'[F(b, i)] # Null,
                      ref'[F(b, i)] # ref[F(b, i)]
               PROVE  rc'[b] # 0 /\ i <= obj'[b].size /\ rc[b] = 0
    BY DEF LocalFields
  <2>1. /\ r[F(b, i)] # Null /\ r[F(b, i)] # ref[F(b, i)] /\ F(b, i) \in Slot
        /\ \A y \in Var : F(b, i) # V(y)
    BY <1>2, SlotKinds, SlotDistinct
  <2>2. PICK j \in 1..cell.size : F(b, i) = F(a, j)
    BY <2>1 DEF Entered
  <2>3. b = a /\ i = j
    BY <2>2, SlotDistinct
  <2>4. cell.size \in Int
    BY HeapAssumption DEF Object
  <2> QED
    BY <1>2, <2>2, <2>3, <2>4
<1>11. NewObjects
  BY <1>2 DEF NewObjects
<1>12. lvl' \in [Var -> 0..MaxDepth] /\ obj' \in [Addr -> Object]
  BY <1>0, OwnersType, Stack
<1> QED
  BY <1>1, <1>3, <1>4, <1>7, <1>8, <1>9, <1>10, <1>11, <1>12, FlatStep DEF Local

\* Nothing refers to memory that is not allocated, and it refers to nothing.
LEMMA FreshEmpty ==
  ASSUME IInv, NEW a \in Addr, rc[a] = 0
  PROVE  Empty(a) /\ \A s \in Slot : ref[s] # a
<1>1. Empty(a)
  BY DEF IInv, Shape, Empty
<1>2. \A s \in Slot : ref[s] # a
  BY InvExact, Alive, HeapAssumption
<1> QED
  BY <1>1, <1>2

\* newValue keeps the invariant.
LEMMA NewValueInv ==
  ASSUME IInv, NEW x \in Var, newValue(x)
  PROVE  IInv'
<1> DEFINE cell == Cell("value", 0, 0)
<1>1. PICK a \in Addr : /\ rc[a] = 0 /\ ref' = [ref EXCEPT ![V(x)] = a]
                        /\ rc' = [rc EXCEPT ![a] = 1] /\ obj' = [obj EXCEPT ![a] = cell]
  BY DEF newValue
<1>2. cell \in Object /\ cell.tag = "value" /\ cell.size = 0
  BY HeapAssumption DEF Cell, Object, Tag
<1>3. /\ ref[V(x)] = Null /\ lvl' = Owners(ref', {x}, depth) /\ UNCHANGED <<depth, frame>>
  BY DEF newValue
<1>4. stale' \in BOOLEAN
  BY Zenon DEF newValue, IInv, TypeOK
<1>5. Entered(ref, a, cell.size)
  BY DEF Entered
<1> HIDE DEF cell
<1> QED
  BY <1>1, <1>2, <1>3, <1>4, <1>5, InvExact, AllocInv

\* An object filled with locals of the caller.
LEMMA AllocateInv ==
  ASSUME IInv, NEW x \in Var, NEW cell \in Object,
         cell.tag \in {"constructor", "closure"}, Allocate(x, cell)
  PROVE  IInv'
<1>1. PICK a \in Addr, as \in Args(cell.size) :
        /\ rc[a] = 0 /\ Move(ref, FromVars(a, as))[V(x)] = Null
        /\ ref' = [Move(ref, FromVars(a, as)) EXCEPT ![V(x)] = a]
        /\ rc' = [rc EXCEPT ![a] = 1] /\ obj' = [obj EXCEPT ![a] = cell]
  BY DEF Allocate
<1> DEFINE m == FromVars(a, as)
           r == Move(ref, m)
<1>2. cell.size \in 0..MaxFields /\ Empty(a)
  BY <1>1, FreshEmpty DEF Object
<1>3. /\ Fills(ref, m) /\ Injective(m)
      /\ \A t : t \in DOMAIN m <=> \E i \in DOMAIN as : t = F(a, i)
      /\ \A i \in DOMAIN as : /\ i \in 1..cell.size
                              /\ as[i] \in Var /\ Usable(as[i]) /\ m[F(a, i)] = V(as[i])
  BY <1>2, Filled
<1> HIDE DEF m
<1>4. Exact(r, rc)
  BY <1>3, InvExact, ExactMove
<1>5. Entered(r, a, cell.size)
  <2> SUFFICES ASSUME NEW u \in Slot, r[u] # ref[u], ~ \E i \in 1..cell.size : u = F(a, i)
               PROVE  r[u] = Null /\ \E y \in Var : u = V(y) /\ Avail(V(y), depth)
    BY DEF Entered
  <2>1. u \notin DOMAIN m
    BY <1>3
  <2>2. PICK t \in DOMAIN m : m[t] = u /\ r[u] = Null
    BY <2>1 DEF Move
  <2>3. PICK i \in DOMAIN as : t = F(a, i)
    BY <1>3
  <2> QED
    BY <1>3, <2>2, <2>3, Availables
<1>6. /\ lvl' = Owners(ref', {x}, depth) /\ UNCHANGED <<depth, frame>>
  BY DEF Allocate
<1>7. stale' \in BOOLEAN
  BY Zenon DEF Allocate, IInv, TypeOK
<1>8. /\ r[V(x)] = Null /\ ref' = [r EXCEPT ![V(x)] = a]
  BY <1>1 DEF m
<1>9. cell.tag # "reuse" /\ cell.tag # "gcpointer" /\ cell.tag # "ioref"
  OBVIOUS
<1> HIDE DEF r
<1> QED
  BY <1>1, <1>4, <1>5, <1>6, <1>7, <1>8, <1>9, AllocInv

\* newConstructor keeps the invariant.
LEMMA NewConstructorInv ==
  ASSUME IInv, NEW x \in Var, NEW n \in Sizes, newConstructor(x, n)
  PROVE  IInv'
<1>0. n \in 0..MaxFields /\ 0 \in 0..MaxFields
  BY HeapAssumption
<1>1. /\ Cell("constructor", n, 0) \in Object
      /\ Cell("constructor", n, 0).tag = "constructor"
  BY <1>0 DEF Cell, Object, Tag
<1>2. Allocate(x, Cell("constructor", n, 0))
  BY DEF newConstructor
<1> QED
  BY <1>1, <1>2, AllocateInv

\* mkClosure keeps the invariant.
LEMMA MkClosureInv ==
  ASSUME IInv, NEW x \in Var, NEW ar \in Sizes, NEW n \in {0} \cup Sizes,
         mkClosure(x, ar, n)
  PROVE  IInv'
<1>0. n \in 0..MaxFields /\ ar \in 0..MaxFields
  BY HeapAssumption
<1>1. Cell("closure", n, ar) \in Object /\ Cell("closure", n, ar).tag = "closure"
  BY <1>0 DEF Cell, Object, Tag
<1>2. Allocate(x, Cell("closure", n, ar))
  BY DEF mkClosure
<1> QED
  BY <1>1, <1>2, AllocateInv

\* An object filled with duplicates of one value.
LEMMA AllocateSharedInv ==
  ASSUME IInv, NEW x \in Var, NEW v \in Var, NEW cell \in Object,
         cell.tag \in {"ioref", "array"}, NEW I, I = 1..cell.size,
         cell.tag = "ioref" => cell.size = 1,
         AllocateShared(x, cell, I, v)
  PROVE  IInv'
<1>1. PICK a \in Addr : LET m == [s \in {F(a, i) : i \in I} |-> V(v)]
        IN /\ rc[a] = 0
           /\ ref' = [Copy(ref, m) EXCEPT ![V(x)] = a]
           /\ rc' = [NewRefs(rc, ref, m) EXCEPT ![a] = 1]
           /\ obj' = [obj EXCEPT ![a] = cell]
  BY DEF AllocateShared
<1> DEFINE m == [s \in {F(a, i) : i \in I} |-> V(v)]
           r == Copy(ref, m)
           c == NewRefs(rc, ref, m)
<1>2. Empty(a) /\ \A s \in Slot : ref[s] # a
  BY <1>1, FreshEmpty
<1>3. I \subseteq Field
  BY HeapAssumption DEF Object, Field
<1>4. \A t : t \in DOMAIN m <=> \E i \in I : t = F(a, i)
  OBVIOUS
<1>5. \A t \in DOMAIN m : m[t] = V(v)
  OBVIOUS
<1> HIDE DEF m
<1>6. Fills(ref, m)
  BY <1>2, <1>3, <1>4, <1>5, SlotKinds DEF Fills, Empty
<1>7. \A t \in DOMAIN m : ref[m[t]] = Null \/ Avail(m[t], depth)
  <2>1. Given(v)
    BY DEF AllocateShared
  <2> QED
    BY <1>5, <2>1, Availables DEF Given
<1>8. Exact(r, c)
  BY <1>6, InvExact, ExactCopy
<1>9. \A b \in Addr : /\ c[b] # rc[b] => rc[b] # 0 /\ Held(b, depth)
                      /\ c[b] = 0 => rc[b] = 0
  <2>1. \A b \in Addr :
          /\ c[b] \in rc[b]..RefMax /\ rc[b] \in 0..RefMax
          /\ rc[b] = 0 => c[b] = 0
          /\ c[b] # rc[b] => Held(b, depth)
    BY <1>6, <1>7, CopyCounts
  <2> HIDE DEF c
  <2> QED
    BY <2>1, HeapAssumption
<1>10. r[V(x)] = Null /\ c[a] = 0
  <2>1. V(x) \notin DOMAIN m /\ V(x) \in Slot
    BY <1>4, SlotKinds, SlotDistinct
  <2>2. ref[V(x)] = Null
    BY DEF AllocateShared
  <2>3. r[V(x)] = Null
    BY <2>1, <2>2 DEF Copy
  <2>4. rc[a] = 0
    BY <1>1
  <2> HIDE DEF r
  <2> QED
    BY <1>6, <1>7, <2>3, <2>4, CopyCounts
<1>11. Entered(r, a, cell.size)
  BY <1>4 DEF Entered, Copy
<1>12. /\ lvl' = Owners(ref', {x}, depth) /\ UNCHANGED <<depth, frame>>
  BY DEF AllocateShared
<1>13. stale' \in BOOLEAN
  BY Zenon DEF AllocateShared, IInv, TypeOK
<1>14. /\ rc[a] = 0 /\ ref' = [r EXCEPT ![V(x)] = a] /\ rc' = [c EXCEPT ![a] = 1]
       /\ obj' = [obj EXCEPT ![a] = cell]
  BY <1>1 DEF m
<1>15. cell.tag # "reuse" /\ cell.tag # "gcpointer"
  OBVIOUS
<1> HIDE DEF r, c
<1> QED
  BY <1>8, <1>9, <1>10, <1>11, <1>12, <1>13, <1>14, <1>15, AllocInv

\* newIORef keeps the invariant.
LEMMA NewIORefInv ==
  ASSUME IInv, NEW x \in Var, NEW v \in Var, newIORef(x, v)
  PROVE  IInv'
<1>1. /\ Cell("ioref", 1, 0) \in Object /\ Cell("ioref", 1, 0).tag = "ioref"
      /\ {1} = 1..Cell("ioref", 1, 0).size /\ Cell("ioref", 1, 0).size = 1
  BY HeapAssumption DEF Cell, Object, Tag
<1>2. AllocateShared(x, Cell("ioref", 1, 0), {1}, v)
  BY DEF newIORef
<1> QED
  BY <1>1, <1>2, AllocateSharedInv

\* newArray keeps the invariant.
LEMMA NewArrayInv ==
  ASSUME IInv, NEW x \in Var, NEW v \in Var, NEW n \in Sizes, newArray(x, n, v)
  PROVE  IInv'
<1>0. n \in 0..MaxFields /\ 0 \in 0..MaxFields
  BY HeapAssumption
<1>1. /\ Cell("array", n, 0) \in Object /\ Cell("array", n, 0).tag = "array"
      /\ 1..n = 1..Cell("array", n, 0).size
  BY <1>0 DEF Cell, Object, Tag
<1>2. AllocateShared(x, Cell("array", n, 0), 1..n, v)
  BY DEF newArray
<1> QED
  BY <1>1, <1>2, AllocateSharedInv

\* onCollect keeps the invariant: the GC pointer gets a finaliser.
LEMMA OnCollectInv ==
  ASSUME IInv, NEW x \in Var, NEW p \in Var, NEW f \in Var, onCollect(x, p, f)
  PROVE  IInv'
<1> DEFINE cell == Cell("gcpointer", 3, 0)
           m1(a) == [s \in {F(a, 1)} |-> V(p)]
           m2(a) == [s \in {F(a, 2), F(a, 3)} |-> IF s = F(a, 2) THEN V(p) ELSE V(f)]
<1>1. PICK a \in Addr :
        /\ rc[a] = 0 /\ Move(Copy(ref, m1(a)), m2(a))[V(x)] = Null
        /\ ref' = [Move(Copy(ref, m1(a)), m2(a)) EXCEPT ![V(x)] = a]
        /\ rc' = [NewRefs(rc, ref, m1(a)) EXCEPT ![a] = 1]
        /\ obj' = [obj EXCEPT ![a] = cell]
  BY DEF onCollect
<1> DEFINE m == m1(a)
           n == m2(a)
           q == Copy(ref, m)
           r == Move(q, n)
           c == NewRefs(rc, ref, m)
<1>2. /\ Usable(p) /\ Usable(f) /\ ref[V(f)] \in Addr /\ p # f
      /\ Finaliser(ref[V(f)])
  <2>1. Is(p, "value") /\ Is(f, "closure") /\ Missing(ref[V(f)]) = 2
    BY DEF onCollect
  <2>2. ref[V(f)] \in Addr
    BY <2>1, InvExact, Alive, SlotKinds DEF Is, Mine
  <2> QED
    BY <2>1, <2>2 DEF Is, Usable, Finaliser
<1>3. Empty(a) /\ \A s \in Slot : ref[s] # a
  BY <1>1, FreshEmpty
<1>4. /\ 1 \in Field /\ 2 \in Field /\ 3 \in Field
      /\ F(a, 1) # F(a, 2) /\ F(a, 1) # F(a, 3) /\ F(a, 2) # F(a, 3)
      /\ F(a, 1) \in Slot /\ F(a, 2) \in Slot /\ F(a, 3) \in Slot
      /\ V(p) \in Slot /\ V(f) \in Slot /\ V(p) # V(f)
      /\ \A i \in {1, 2, 3}, y \in Var : V(y) # F(a, i)
  <2>1. 1 \in Field /\ 2 \in Field /\ 3 \in Field
    BY HeapAssumption DEF Field
  <2> QED
    BY <1>2, <2>1, SlotKinds, SlotDistinct
<1>5. DOMAIN m = {F(a, 1)} /\ m[F(a, 1)] = V(p)
  OBVIOUS
<1>6. DOMAIN n = {F(a, 2), F(a, 3)} /\ n[F(a, 2)] = V(p) /\ n[F(a, 3)] = V(f)
  BY <1>4
<1> HIDE DEF m, n, m1, m2
<1>7. Fills(ref, m)
  BY <1>3, <1>4, <1>5 DEF Fills, Empty
<1>8. Exact(q, c)
  BY <1>7, InvExact, ExactCopy
<1>9. \A u \in Slot : u # F(a, 1) => q[u] = ref[u]
  BY <1>5 DEF Copy
<1>10. Fills(q, n) /\ Injective(n)
  <2>1. q[F(a, 2)] = Null /\ q[F(a, 3)] = Null
    BY <1>3, <1>4, <1>9 DEF Empty
  <2> HIDE DEF q
  <2> QED
    BY <1>4, <1>6, <2>1 DEF Fills, Injective
<1>11. Exact(r, c)
  BY <1>8, <1>10, ExactMove
<1>12. \A t \in DOMAIN m : ref[m[t]] = Null \/ Avail(m[t], depth)
  BY <1>2, <1>5, Availables
<1>13. \A b \in Addr : /\ c[b] # rc[b] => rc[b] # 0 /\ Held(b, depth)
                       /\ c[b] = 0 => rc[b] = 0
  BY <1>7, <1>12, CopyCounts, HeapAssumption
<1>14. c[a] = 0
  BY <1>1, <1>7, <1>12, CopyCounts
<1>15. cell \in Object /\ cell.tag = "gcpointer" /\ cell.size = 3
  BY HeapAssumption DEF Cell, Object, Tag
<1>16. /\ \A u \in Slot : u \notin {F(a, 2), F(a, 3), V(p), V(f)} => r[u] = q[u]
       /\ r[V(p)] = Null /\ r[V(f)] = Null /\ r[F(a, 3)] = q[V(f)]
  <2> HIDE DEF q
  <2> QED
    BY <1>4, <1>6 DEF Move
<1>17. Entered(r, a, cell.size)
  <2> SUFFICES ASSUME NEW u \in Slot, r[u] # ref[u]
               PROVE  \/ \E i \in 1..3 : u = F(a, i)
                      \/ r[u] = Null /\ \E y \in Var : u = V(y) /\ Avail(V(y), depth)
    BY <1>15 DEF Entered
  <2>1. u \in {F(a, 1), F(a, 2), F(a, 3), V(p), V(f)}
    BY <1>9, <1>16
  <2>2. Avail(V(p), depth) /\ Avail(V(f), depth)
    BY <1>2, Availables
  <2> HIDE DEF r
  <2> QED
    BY <1>16, <2>1, <2>2
<1>18. /\ r[V(x)] = Null /\ ref' = [r EXCEPT ![V(x)] = a] /\ rc' = [c EXCEPT ![a] = 1]
  BY <1>1 DEF m, n
<1>19. (ref[F(a, 3)] # Null => Finaliser(ref[F(a, 3)]))'
  <2>1. ref'[F(a, 3)] = ref[V(f)]
    BY <1>4, <1>9, <1>16, <1>18, <1>11 DEF Exact
  <2>2. ref[V(f)] # a
    BY <1>3, <1>4
  <2>3. obj'[ref[V(f)]] = obj[ref[V(f)]]
    BY <1>1, <1>2, <2>2 DEF IInv, TypeOK
  <2> QED
    BY <1>2, <2>1, <2>3 DEF Finaliser, Missing
<1>20. /\ lvl' = Owners(ref', {x}, depth) /\ UNCHANGED <<depth, frame>>
  BY DEF onCollect
<1>21. stale' \in BOOLEAN
  BY Zenon DEF onCollect, IInv, TypeOK
<1>22. cell.tag # "reuse" /\ rc[a] = 0 /\ obj' = [obj EXCEPT ![a] = cell]
  BY <1>1, <1>15
<1> HIDE DEF r, c, q, cell
<1> QED
  BY <1>11, <1>13, <1>14, <1>15, <1>17, <1>18, <1>19, <1>20, <1>21, <1>22, AllocInv

-----------------------------------------------------------------------------
(* Cells that are reused. *)

\* All the fields of an object become locals.
LEMMA Emptied ==
  ASSUME NEW r, r \in [Slot -> Ref], NEW a \in Addr, NEW ps \in Params(r, Full(r, a))
  PROVE  /\ Fills(r, ToVars(a, ps)) /\ Injective(ToVars(a, ps))
         /\ DOMAIN ps \subseteq Var /\ \A y \in DOMAIN ps : r[V(y)] = Null
         /\ \A u \in Slot :
              \/ Move(r, ToVars(a, ps))[u] = r[u]
              \/ \E y \in Var : u = V(y) /\ r[u] = Null
              \/ \E i \in Field : u = F(a, i) /\ Move(r, ToVars(a, ps))[u] = Null
         /\ \A i \in Field : Move(r, ToVars(a, ps))[F(a, i)] = Null
<1>1. PICK I : I = Full(r, a)
  OBVIOUS
<1>2. I \in SUBSET Field /\ ps \in Params(r, I)
  BY <1>1 DEF Full
<1> DEFINE m == ToVars(a, ps)
<1>3. /\ Fills(r, m) /\ Injective(m)
      /\ DOMAIN ps \subseteq Var /\ \A y \in DOMAIN ps : r[V(y)] = Null
      /\ \A t : t \in DOMAIN m <=> \E y \in DOMAIN ps : t = V(y)
  BY <1>2, Bound
<1>4. \A y \in DOMAIN ps : m[V(y)] = F(a, ps[y]) /\ ps[y] \in I
  BY <1>2, Bound
<1>5. \A i \in I : \E y \in DOMAIN ps : ps[y] = i
  BY <1>2 DEF Params
<1> HIDE DEF m
<1>6. \A t \in DOMAIN m : \E y \in Var, i \in Field : t = V(y) /\ m[t] = F(a, i)
  BY <1>2, <1>3, <1>4
<1>7. \A u \in Slot : \/ Move(r, m)[u] = r[u]
                      \/ \E y \in Var : u = V(y) /\ r[u] = Null
                      \/ \E i \in Field : u = F(a, i) /\ Move(r, m)[u] = Null
  BY <1>3, <1>6 DEF Move, Fills
<1>8. ASSUME NEW i \in Field PROVE Move(r, m)[F(a, i)] = Null
  <2>1. CASE i \notin I
    <3>1. r[F(a, i)] = Null /\ F(a, i) \in Slot /\ \A y \in Var : F(a, i) # V(y)
      BY <1>1, <2>1, SlotKinds, SlotDistinct DEF Full
    <3> QED
      BY <1>7, <3>1
  <2>2. CASE i \in I
    <3>1. PICK y \in DOMAIN ps : ps[y] = i
      BY <1>5, <2>2
    <3>2. V(y) \in DOMAIN m /\ m[V(y)] = F(a, i) /\ F(a, i) \notin DOMAIN m /\ F(a, i) \in Slot
      BY <1>3, <1>4, <3>1, SlotKinds, SlotDistinct
    <3> QED
      BY <3>2 DEF Move
  <2> QED
    BY <2>1, <2>2
<1> QED
  BY <1>3, <1>7, <1>8 DEF m

\* caseReuse keeps the invariant: the cell is unique and left empty.
LEMMA CaseReuseInv ==
  ASSUME IInv, NEW x \in Var, caseReuse(x)
  PROVE  IInv'
<1>a. PICK a \in Addr : a = ref[V(x)]
  BY InvExact, Alive, SlotKinds DEF caseReuse, Is, Mine
<1>0. /\ a \in Addr /\ V(x) \in Slot /\ Mine(x) /\ obj[a].tag = "constructor" /\ rc[a] = 1
  BY <1>a, SlotKinds DEF caseReuse, Is
<1>1. PICK ps \in Params(ref, Full(ref, a)) :
        /\ ref' = Move(ref, ToVars(a, ps))
        /\ lvl' = Owners(ref', {x} \cup DOMAIN ps, depth)
  BY <1>a DEF caseReuse
<1>2. ref \in [Slot -> Ref]
  BY DEF IInv, TypeOK
<1>3. /\ Fills(ref, ToVars(a, ps)) /\ Injective(ToVars(a, ps))
      /\ \A y \in DOMAIN ps : ref[V(y)] = Null
      /\ \A u \in Slot : \/ ref'[u] = ref[u]
                         \/ \E y \in Var : u = V(y) /\ ref[u] = Null
                         \/ \E i \in Field : u = F(a, i) /\ ref'[u] = Null
      /\ \A i \in Field : ref'[F(a, i)] = Null
  BY <1>1, <1>2, Emptied
<1>4. /\ rc' = rc /\ obj' = [obj EXCEPT ![a].tag = "reuse"] /\ UNCHANGED <<depth, frame>>
  BY <1>a DEF caseReuse
<1>5. stale' \in BOOLEAN
  BY Zenon DEF caseReuse, IInv, TypeOK
<1>6. Exact(ref', rc')
  BY <1>1, <1>3, <1>4, InvExact, ExactMove
<1>7. /\ \A k \in Frame : ref'[K(k)] = ref[K(k)]
      /\ \A y \in Var : ref'[V(y)] # ref[V(y)] => ref[V(y)] = Null
      /\ \A b \in Addr, i \in Field : ref'[F(b, i)] # ref[F(b, i)] => ref'[F(b, i)] = Null
  BY <1>3, SlotKinds, SlotDistinct
<1>8. LocalVars(depth)
  <2>1. \A y \in {x} \cup DOMAIN ps : ref[V(y)] = Null \/ lvl[y] = depth
    BY <1>0, <1>3 DEF Mine
  <2> QED
    BY <1>1, <1>7, <2>1, OwnersKeep
<1>9. LocalFrames(depth)
  BY <1>4, <1>7, Stack DEF LocalFrames
<1>10. LocalCounts(depth) /\ LocalFields /\ NewObjects
  BY <1>4, <1>7 DEF LocalCounts, LocalFields, NewObjects
<1>11. /\ obj' \in [Addr -> Object] /\ obj'[a].tag = "reuse" /\ obj'[a].size = obj[a].size
       /\ \A b \in Addr : b # a => obj'[b] = obj[b]
  BY <1>0, <1>4 DEF IInv, TypeOK, Object, Tag
<1>12. Recycled(a, depth)
  <2>1. Avail(V(x), depth)
    BY <1>0, <1>a DEF Avail
  <2>2. ref'[V(x)] = a
    BY <1>0, <1>7, <1>a, HeapAssumption
  <2>3. Empty(a)'
    BY <1>3 DEF Empty
  <2> QED
    BY <1>0, <1>4, <1>11, <1>a, <2>1, <2>2, <2>3 DEF Recycled, Held
<1>13. LocalObjects(depth)
  BY <1>0, <1>11, <1>12 DEF LocalObjects
<1>14. lvl' \in [Var -> 0..MaxDepth]
  BY <1>1, OwnersType, Stack
<1> QED
  BY <1>4, <1>5, <1>6, <1>7, <1>8, <1>9, <1>10, <1>11, <1>13, <1>14, FlatStep DEF Local

\* fillReuse keeps the invariant.
LEMMA FillReuseInv ==
  ASSUME IInv, NEW x \in Var, fillReuse(x)
  PROVE  IInv'
<1>a. PICK a \in Addr : a = ref[V(x)]
  BY InvExact, Alive, SlotKinds DEF fillReuse, Is, Mine
<1>0. /\ a \in Addr /\ V(x) \in Slot /\ Mine(x) /\ obj[a].tag = "reuse"
  BY <1>a, SlotKinds DEF fillReuse, Is
<1>1. rc[a] = 1 /\ Empty(a) /\ obj[a].size \in 0..MaxFields
  BY <1>0 DEF IInv, Reuse, Empty, TypeOK, Object
<1>2. PICK as \in Args(obj[a].size) : ref' = Move(ref, FromVars(a, as))
  BY <1>a DEF fillReuse
<1> DEFINE m == FromVars(a, as)
<1>3. /\ Fills(ref, m) /\ Injective(m)
      /\ \A t : t \in DOMAIN m <=> \E i \in DOMAIN as : t = F(a, i)
      /\ \A i \in DOMAIN as : /\ i \in 1..obj[a].size
                              /\ as[i] \in Var /\ Usable(as[i]) /\ m[F(a, i)] = V(as[i])
  BY <1>0, <1>1, Filled
<1>4. ref' = Move(ref, m)
  BY <1>2
<1> HIDE DEF m
<1>5. /\ rc' = rc /\ obj' = [obj EXCEPT ![a].tag = "constructor"] /\ UNCHANGED <<depth, frame>>
      /\ lvl' = Owners(ref', {}, depth)
  BY <1>a DEF fillReuse
<1>6. stale' \in BOOLEAN
  BY Zenon DEF fillReuse, IInv, TypeOK
<1>7. Exact(ref', rc')
  BY <1>3, <1>4, <1>5, InvExact, ExactMove
<1>8. \A u \in Slot : \/ ref'[u] = ref[u]
                      \/ \E i \in 1..obj[a].size : u = F(a, i)
                      \/ \E y \in Var : u = V(y) /\ Avail(V(y), depth)
  <2> SUFFICES ASSUME NEW u \in Slot, ref'[u] # ref[u], ~ \E i \in 1..obj[a].size : u = F(a, i)
               PROVE  \E y \in Var : u = V(y) /\ Avail(V(y), depth)
    OBVIOUS
  <2>1. u \notin DOMAIN m
    BY <1>3
  <2>2. PICK t \in DOMAIN m : m[t] = u
    BY <1>4, <2>1 DEF Move
  <2>3. PICK i \in DOMAIN as : t = F(a, i)
    BY <1>3
  <2> QED
    BY <1>3, <2>2, <2>3, Availables
<1>9. /\ \A k \in Frame : ref'[K(k)] = ref[K(k)]
      /\ \A y \in Var : ref'[V(y)] # ref[V(y)] => Avail(V(y), depth)
      /\ \A b \in Addr, i \in Field :
           ref'[F(b, i)] # ref[F(b, i)] => b = a /\ i \in 1..obj[a].size
  BY <1>8, SlotKinds, SlotDistinct
<1>10. LocalVars(depth)
  BY <1>5, <1>9, OwnersKeep
<1>11. LocalFrames(depth)
  BY <1>5, <1>9, Stack DEF LocalFrames
<1>12. LocalCounts(depth) /\ NewObjects
  BY <1>5 DEF LocalCounts, NewObjects
<1>13. /\ obj' \in [Addr -> Object] /\ obj'[a].tag = "constructor" /\ obj'[a].size = obj[a].size
       /\ \A b \in Addr : b # a => obj'[b] = obj[b]
  BY <1>0, <1>5 DEF IInv, TypeOK, Object, Tag
<1>14. LocalFields
  BY <1>0, <1>1, <1>5, <1>9, <1>13, <1>a DEF LocalFields
<1>15. LocalObjects(depth)
  <2>1. Avail(V(x), depth)
    BY <1>0, <1>13, <1>a DEF Avail
  <2>2. Recycled(a, depth)
    BY <1>0, <1>13, <1>a, <2>1 DEF Recycled, Held
  <2> QED
    BY <1>1, <1>13, <2>2 DEF LocalObjects
<1>16. lvl' \in [Var -> 0..MaxDepth]
  BY <1>5, OwnersType, Stack
<1> QED
  BY <1>5, <1>6, <1>7, <1>9, <1>10, <1>11, <1>12, <1>13, <1>14, <1>15, <1>16, FlatStep DEF Local


-----------------------------------------------------------------------------
(* Closures. *)

\* tailCall keeps the invariant.
LEMMA TailCallInv ==
  ASSUME IInv, NEW X \in SUBSET Var, tailCall(X)
  PROVE  IInv'
<1> DEFINE cell == Cell("closure", Cardinality(X), Cardinality(X))
<1>1. PICK b \in Addr : /\ rc[b] = 0 /\ ref' = [ref EXCEPT ![K(depth + 1)] = b]
                        /\ rc' = [rc EXCEPT ![b] = 1] /\ obj' = [obj EXCEPT ![b] = cell]
  BY DEF tailCall
<1>2. /\ depth < MaxDepth /\ depth' = depth + 1 /\ \A x \in X : Usable(x)
      /\ frame' = [frame EXCEPT ![depth + 1] = InOp("trampoline")]
      /\ lvl' = Owners(ref', X, depth + 1) /\ Cardinality(X) <= MaxFields
  BY DEF tailCall
<1>3. stale' \in BOOLEAN
  BY Zenon DEF tailCall, IInv, TypeOK
<1>4. /\ depth + 1 \in Frame /\ K(depth + 1) \in Slot /\ ref[K(depth + 1)] = Null
      /\ depth \in 0..MaxDepth /\ MaxDepth \in Nat
      /\ frame \in [Frame -> Activation] /\ 1..depth \subseteq Frame
  BY <1>2, Stack
<1>5. cell \in Object /\ cell.tag = "closure"
  <2>1. Cardinality(X) \in 0..MaxFields
    BY <1>2, HeapAssumption, FS_Subset, FS_CardinalityType
  <2> QED
    BY <2>1 DEF Cell, Object, Tag
<1> HIDE DEF cell
<1>6. Empty(b)
  BY <1>1, FreshEmpty
<1>7. Exact(ref', rc')
  BY <1>1, <1>4, InvExact, ExactAlloc
<1>8. /\ ref'[K(depth + 1)] = b /\ \A u \in Slot : u # K(depth + 1) => ref'[u] = ref[u]
      /\ rc'[b] = 1 /\ obj'[b] = cell /\ obj' \in [Addr -> Object]
      /\ \A a \in Addr : a # b => rc'[a] = rc[a] /\ obj'[a] = obj[a]
  BY <1>1, <1>4, <1>5 DEF IInv, TypeOK
<1>9. /\ \A k \in Frame : k # depth + 1 => ref'[K(k)] = ref[K(k)]
      /\ \A x \in Var : ref'[V(x)] = ref[V(x)]
      /\ \A a \in Addr, i \in Field : ref'[F(a, i)] = ref[F(a, i)]
  BY <1>8, SlotKinds, SlotDistinct
<1>10. LocalVars(depth)
  <2>1. \A x \in X : lvl[x] = depth
    BY <1>2 DEF Usable, Mine
  <2> QED
    BY <1>2, <1>9, <2>1, OwnersKeep
<1>11. LocalFrames(depth)
  <2> SUFFICES ASSUME NEW k \in 1..depth
               PROVE  frame'[k] = frame[k] /\ ref'[K(k)] = ref[K(k)]
    BY DEF LocalFrames
  <2>1. k \in Frame /\ k # depth + 1
    BY <1>4
  <2> QED
    BY <1>2, <1>4, <1>9, <2>1
<1>12. LocalCounts(depth) /\ LocalObjects(depth) /\ LocalFields /\ NewObjects
  BY <1>1, <1>5, <1>8, <1>9 DEF LocalCounts, LocalObjects, LocalFields, NewObjects
<1>13. lvl' \in [Var -> 0..MaxDepth]
  <2>1. depth + 1 \in 0..MaxDepth
    BY <1>2, <1>4
  <2> QED
    BY <1>2, <2>1, OwnersType
<1>14. ref'[K(depth + 1)] # Null /\ \A i \in Field : ref'[F(ref'[K(depth + 1)], i)] = Null
  BY <1>6, <1>8, <1>9, HeapAssumption DEF Empty
<1> QED
  BY <1>2, <1>3, <1>7, <1>8, <1>9, <1>10, <1>11, <1>12, <1>13, <1>14, PushStep DEF Local

(***************************************************************************)
(* idris2_tailcall_apply_closure: r and c are the heap before the new      *)
(* closure at b gets its first reference.                                  *)
(***************************************************************************)
Applied(r, c, s, b, n) ==
    /\ Exact(r, c) /\ c[b] = 0 /\ r[s] = Null
    /\ \A u \in Slot : r[u] # ref[u] =>
         \/ \E i \in 1..(n + 1) : u = F(b, i)
         \/ r[u] = Null /\ Avail(u, depth)
    /\ \A a \in Addr : /\ c[a] # rc[a] => rc[a] # 0 /\ Held(a, depth)
                       /\ c[a] = 0 => rc[a] = 0 \/ (a = ref[s] /\ rc[a] = 1)
    /\ rc[ref[s]] = 1 => c[ref[s]] = 0 /\ \A i \in Field : r[F(ref[s], i)] = Null

\* The fields of the old closure and the new argument.
Passed(s, b, n, arg) ==
    /\ \A t \in DOMAIN arg : /\ t = F(b, n + 1)
                             /\ arg[t] \in Slot /\ arg[t] # s /\ Avail(arg[t], depth)
    /\ \A i \in Field : s # F(ref[s], i)

\* The arguments of the old closure fit into the new one.
LEMMA FieldsOfFacts ==
  ASSUME IInv, NEW a \in Addr, NEW b \in Addr, NEW n \in 0..MaxFields, Empty(b)
  PROVE  /\ Fills(ref, FieldsOf(b, a, 1..n)) /\ Injective(FieldsOf(b, a, 1..n))
         /\ \A t : t \in DOMAIN FieldsOf(b, a, 1..n) <=> \E i \in 1..n : t = F(b, i)
         /\ \A i \in 1..n : FieldsOf(b, a, 1..n)[F(b, i)] = F(a, i)
<1> DEFINE m == FieldsOf(b, a, 1..n)
<1>1. /\ \A t : t \in DOMAIN m <=> \E i \in 1..n : t = F(b, i)
  BY DEF FieldsOf
<1>2. \A i \in 1..n : m[F(b, i)] = F(a, i)
  BY SlotParts DEF FieldsOf
<1>3. \A i \in 1..n : i \in Field
  BY HeapAssumption DEF Field
<1> HIDE DEF m
<1>4. Fills(ref, m)
  <2> SUFFICES ASSUME NEW t \in DOMAIN m PROVE t \in Slot /\ m[t] \in Slot /\ ref[t] = Null
    BY DEF Fills
  <2>1. PICK i \in 1..n : t = F(b, i)
    BY <1>1
  <2> QED
    BY <1>2, <1>3, <2>1, SlotKinds DEF Empty
<1>5. Injective(m)
  <2> SUFFICES ASSUME NEW s \in DOMAIN m, NEW t \in DOMAIN m, m[s] = m[t] PROVE s = t
    BY DEF Injective
  <2>1. PICK i \in 1..n : s = F(b, i)
    BY <1>1
  <2>2. PICK j \in 1..n : t = F(b, j)
    BY <1>1
  <2>3. F(a, i) = F(a, j)
    BY <1>2, <2>1, <2>2
  <2> QED
    BY <2>1, <2>2, <2>3, SlotDistinct
<1> QED
  BY <1>1, <1>2, <1>4, <1>5 DEF m

\* idris2_tailcall_apply_closure keeps the counters exact, unless the
\* counter of the closure is at its maximum.
LEMMA TailcallFacts ==
  ASSUME IInv, Unsaturated, NEW s \in Slot, NEW a \in Addr, ref[s] = a, Avail(s, depth),
         obj[a].tag = "closure", NEW b \in Addr, rc[b] = 0, NEW n, n = obj[a].size,
         n + 1 \in Field, NEW arg, Passed(s, b, n, arg), Shared(TailcallCount(s, b))
  PROVE  \E c : /\ Applied(TailcallArgs(s, b, arg), c, s, b, n)
                /\ TailcallCount(s, b) = [c EXCEPT ![b] = 1]
<1> DEFINE old == FieldsOf(b, a, 1..n)
           q == IF Unshared(a) THEN Move(ref, old) ELSE Copy(ref, old)
           c1 == IF Unshared(a) THEN rc ELSE NewRefs(rc, ref, old)
           q2 == Move(q, arg)
           c2 == [c1 EXCEPT ![a] = @ - 1]
           r == [q2 EXCEPT ![s] = Null]
<1>0. n \in 0..MaxFields /\ Empty(b) /\ a # b /\ rc[a] \in 1..RefMax /\ rc[a] \in Int
  <2>1. rc[a] \in 1..RefMax
    BY InvExact, Alive, HeapAssumption
  <2> QED
    BY <2>1, FreshEmpty, HeapAssumption DEF IInv, TypeOK, Object
<1>1. /\ Fills(ref, old) /\ Injective(old)
      /\ \A t : t \in DOMAIN old <=> \E i \in 1..n : t = F(b, i)
      /\ \A i \in 1..n : old[F(b, i)] = F(a, i)
  BY <1>0, FieldsOfFacts
<1>2. TailcallArgs(s, b, arg) = r
  BY DEF TailcallArgs
<1>3. TailcallCount(s, b) = IF Unshared(a) THEN [rc EXCEPT ![a] = 0, ![b] = 1]
                            ELSE [NewRefs(rc, ref, old) EXCEPT ![a] = @ - 1, ![b] = 1]
  BY DEF TailcallCount
<1> HIDE DEF old
<1>4. Exact(q, c1)
  <2>1. CASE Unshared(a)
    BY <1>1, <2>1, InvExact, ExactMove
  <2>2. CASE ~Unshared(a)
    BY <1>1, <2>2, InvExact, ExactCopy
  <2> QED
    BY <2>1, <2>2
<1>5. \A t \in DOMAIN old : ref[old[t]] = Null \/ Avail(old[t], depth)
  <2> SUFFICES ASSUME NEW t \in DOMAIN old PROVE Avail(old[t], depth)
    OBVIOUS
  <2>1. PICK i \in 1..n : t = F(b, i)
    BY <1>1
  <2>2. i \in Field
    BY <1>0, HeapAssumption DEF Field
  <2> QED
    BY <1>1, <2>1, <2>2, Availables
<1>6. \A e \in Addr : /\ c1[e] # rc[e] => rc[e] # 0 /\ Held(e, depth)
                      /\ c1[e] \in Int /\ c1[e] >= rc[e] /\ c1[e] <= RefMax
                      /\ rc[e] = 0 => c1[e] = 0
  <2>1. CASE Unshared(a)
    BY <2>1, HeapAssumption DEF IInv, TypeOK
  <2>2. CASE ~Unshared(a)
    BY <1>1, <1>5, <2>2, CopyCounts, HeapAssumption
  <2> QED
    BY <2>1, <2>2
<1>7. \A u \in Slot : q[u] # ref[u] =>
        \/ \E i \in 1..n : u = F(b, i)
        \/ Unshared(a) /\ q[u] = Null /\ \E i \in 1..n : u = F(a, i)
  <2> SUFFICES ASSUME NEW u \in Slot, q[u] # ref[u], u \notin DOMAIN old
               PROVE  Unshared(a) /\ q[u] = Null /\ \E i \in 1..n : u = F(a, i)
    BY <1>1
  <2>1. Unshared(a)
    BY DEF Copy
  <2>2. PICK t \in DOMAIN old : old[t] = u /\ q[u] = Null
    BY <2>1 DEF Move
  <2> QED
    BY <1>1, <2>1, <2>2
<1>8. Unshared(a) => \A i \in Field : q[F(a, i)] = Null
  <2> SUFFICES ASSUME Unshared(a), NEW i \in Field PROVE q[F(a, i)] = Null
    OBVIOUS
  <2>1. F(a, i) \in Slot /\ F(a, i) \notin DOMAIN old
    BY <1>0, <1>1, SlotKinds, SlotDistinct
  <2>2. CASE i \in 1..n
    <3>1. F(b, i) \in DOMAIN old /\ old[F(b, i)] = F(a, i)
      BY <1>1, <2>2
    <3> QED
      BY <2>1, <3>1 DEF Move
  <2>3. CASE i \notin 1..n
    <3>1. ref[F(a, i)] = Null
      BY <1>0, <2>3, HeapAssumption DEF IInv, Shape, Field
    <3>2. \A j \in 1..n : F(a, i) # F(b, j) /\ F(a, i) # F(a, j)
      BY <1>0, <2>3, SlotDistinct
    <3> HIDE DEF q
    <3> QED
      BY <1>7, <2>1, <3>1, <3>2
  <2> QED
    BY <2>2, <2>3
<1>9. F(b, n + 1) \in Slot /\ q[F(b, n + 1)] = Null
  <2>1. F(b, n + 1) \in Slot /\ ref[F(b, n + 1)] = Null
    BY <1>0, SlotKinds DEF Empty
  <2>2. \A i \in 1..n : F(b, n + 1) # F(b, i)
    BY <1>0, SlotDistinct
  <2>3. \A i \in 1..n : F(b, n + 1) # F(a, i)
    BY <1>0, SlotDistinct
  <2> QED
    BY <1>7, <2>1, <2>2, <2>3
<1>10. q[s] = a /\ s # F(b, n + 1)
  <2>1. \A i \in Field : s # F(b, i) /\ s # F(a, i)
    BY <1>0, HeapAssumption DEF Empty, Passed
  <2>2. \A i \in 1..n : i \in Field
    BY <1>0, HeapAssumption DEF Field
  <2> QED
    BY <1>7, <2>1, <2>2
<1> HIDE DEF q, c1
<1>11. Fills(q, arg) /\ Injective(arg)
  BY <1>9 DEF Passed, Fills, Injective
<1>12. Exact(q2, c1)
  BY <1>4, <1>11, ExactMove
<1>13. /\ \A u \in Slot : q2[u] # q[u] =>
            u = F(b, n + 1) \/ (q2[u] = Null /\ \E t \in DOMAIN arg : arg[t] = u)
       /\ q2[s] = a
  BY <1>9, <1>10 DEF Move, Passed
<1>14. c1[a] # RefMax /\ c1[a] \in Int /\ (~Unshared(a) => c1[a] > 1)
  <2>1. CASE Unshared(a)
    BY <1>0, <1>6, <2>1, HeapAssumption DEF c1, Unshared
  <2>2. CASE ~Unshared(a)
    <3>1. TailcallCount(s, b)[a] = c1[a] - 1
      BY <1>0, <1>3, <2>2 DEF c1, NewRefs
    <3>2. TailcallCount(s, b)[a] <= ClosureCap
      BY DEF Shared
    <3> QED
      BY <1>0, <1>6, <2>2, <3>1, <3>2, HeapAssumption DEF Unsaturated, Unshared
  <2> QED
    BY <2>1, <2>2
<1>15. Exact(r, c2)
  BY <1>12, <1>13, <1>14, ExactRelease, HeapAssumption
<1>16. TailcallCount(s, b) = [c2 EXCEPT ![b] = 1]
  <2>1. CASE Unshared(a)
    <3>1. c1 = rc /\ rc[a] = 1
      BY <1>0, <2>1 DEF c1, Unshared
    <3> QED
      BY <1>0, <1>3, <2>1, <3>1 DEF IInv, TypeOK
  <2>2. CASE ~Unshared(a)
    BY <1>3, <2>2 DEF c1
  <2> QED
    BY <2>1, <2>2
<1>17. Applied(r, c2, s, b, n)
  <2>1. r[s] = Null /\ \A u \in Slot : u # s => r[u] = q2[u]
    BY <1>12 DEF Exact
  <2>2. \A e \in Addr : c2[e] = IF e = a THEN c1[a] - 1 ELSE c1[e]
    BY <1>12 DEF Exact
  <2>3. c2[b] = 0
    BY <1>0, <1>6, <2>2
  <2> HIDE DEF r, q2, c2
  <2>4. ASSUME NEW u \in Slot, r[u] # ref[u]
        PROVE  \/ \E i \in 1..(n + 1) : u = F(b, i)
               \/ r[u] = Null /\ Avail(u, depth)
    <3>1. CASE u = s
      BY <2>1, <3>1
    <3>2. CASE u # s /\ q2[u] # q[u]
      <4>1. CASE u = F(b, n + 1)
        BY <1>0, <4>1
      <4>2. CASE u # F(b, n + 1)
        BY <1>13, <2>1, <3>2, <4>2 DEF Passed
      <4> QED
        BY <4>1, <4>2
    <3>3. CASE u # s /\ q2[u] = q[u]
      <4>1. r[u] = q[u] /\ q[u] # ref[u]
        BY <2>1, <2>4, <3>3
      <4>2. CASE \E i \in 1..n : u = F(b, i)
        BY <1>0, <4>2
      <4>3. CASE q[u] = Null /\ \E i \in 1..n : u = F(a, i)
        <5>1. PICK i \in 1..n : u = F(a, i)
          BY <4>3
        <5>2. i \in Field
          BY <1>0, HeapAssumption DEF Field
        <5> QED
          BY <4>1, <4>3, <5>1, <5>2, Availables
      <4> QED
        BY <1>7, <4>1, <4>2, <4>3
    <3> QED
      BY <3>1, <3>2, <3>3
  <2>5. ASSUME NEW e \in Addr
        PROVE  /\ c2[e] # rc[e] => rc[e] # 0 /\ Held(e, depth)
               /\ c2[e] = 0 => rc[e] = 0 \/ (e = ref[s] /\ rc[e] = 1)
    <3>1. CASE e = a
      <4>1. Held(a, depth) /\ rc[a] # 0
        BY <1>0 DEF Held
      <4>2. Unshared(a) => rc[a] = 1
        BY <1>0 DEF Unshared
      <4> QED
        BY <1>14, <2>2, <3>1, <4>1, <4>2
    <3>2. CASE e # a
      BY <1>6, <2>2, <3>2, HeapAssumption DEF IInv, TypeOK
    <3> QED
      BY <3>1, <3>2
  <2>6. rc[a] = 1 => c2[a] = 0
    BY <2>2 DEF c1, Unshared
  <2>7. rc[a] = 1 => \A i \in Field : r[F(a, i)] = Null
    <3> SUFFICES ASSUME rc[a] = 1, NEW i \in Field PROVE r[F(a, i)] = Null
      OBVIOUS
    <3>1. q[F(a, i)] = Null /\ F(a, i) \in Slot /\ F(a, i) # F(b, n + 1)
      BY <1>0, <1>8, SlotKinds, SlotDistinct DEF Unshared
    <3> QED
      BY <1>13, <2>1, <3>1
  <2> QED
    BY <1>15, <2>1, <2>3, <2>4, <2>5, <2>6, <2>7 DEF Applied
<1> QED
  BY <1>2, <1>16, <1>17

\* The activations below the innermost owe what they owed.
LEMMA AppliedFrames ==
  ASSUME IInv, NEW r, NEW c, NEW s, NEW b, NEW n, Applied(r, c, s, b, n)
  PROVE  \A k \in Frame : r[K(k)] = ref[K(k)]
<1> SUFFICES ASSUME NEW k \in Frame, r[K(k)] # ref[K(k)] PROVE FALSE
  OBVIOUS
<1>1. K(k) \in Slot /\ \A i : K(k) # F(b, i)
  BY SlotKinds, SlotDistinct
<1>2. r[K(k)] = Null /\ Avail(K(k), depth)
  BY <1>1 DEF Applied
<1>3. k > depth
  BY <1>2, AvailFrame
<1> QED
  BY <1>2, <1>3 DEF IInv, Tops

\* The new closure gets its owner: a local, or idris2_trampoline, which moves
\* the arguments into the parameters.
Installed(r, b) == \A u \in Slot : ref'[u] # r[u] =>
    \/ \E y \in Var : u = V(y) /\ r[u] = Null
    \/ \E k \in Frame : u = K(k)
    \/ \E i \in Field : u = F(b, i) /\ ref'[u] = Null
Grown(s, b, n) == \E cell \in Object :
    cell.tag = "closure" /\ n + 1 <= cell.size /\ obj' = TailcallObj(s, b, cell)
Handed(r) == \E X \in SUBSET Var : /\ \A y \in X : r[V(y)] = Null
                                   /\ \E e : lvl' = Owners(ref', X, e)

\* The step as a whole is local.
LEMMA TailcallLocal ==
  ASSUME IInv, NEW s \in Slot, NEW a \in Addr, ref[s] = a, Avail(s, depth),
         NEW b \in Addr, rc[b] = 0, NEW n \in 0..MaxFields,
         NEW r, NEW c, Applied(r, c, s, b, n), rc' = [c EXCEPT ![b] = 1],
         Grown(s, b, n), Handed(r), Installed(r, b), Exact(ref', rc')
  PROVE  /\ LocalVars(depth) /\ LocalCounts(depth) /\ LocalObjects(depth)
         /\ LocalFields /\ NewObjects /\ obj' \in [Addr -> Object]
<1>a. PICK cell \in Object :
        cell.tag = "closure" /\ n + 1 <= cell.size /\ obj' = TailcallObj(s, b, cell)
  BY DEF Grown
<1>b. PICK X \in SUBSET Var : /\ \A y \in X : r[V(y)] = Null
                              /\ \E e : lvl' = Owners(ref', X, e)
  BY DEF Handed
<1>c. PICK e : lvl' = Owners(ref', X, e)
  BY <1>b
<1>d. \A u \in Slot : ref'[u] # r[u] =>
        \/ \E y \in Var : u = V(y) /\ r[u] = Null
        \/ \E k \in Frame : u = K(k)
        \/ \E i \in Field : u = F(b, i) /\ ref'[u] = Null
  BY DEF Installed
<1>0. /\ obj \in [Addr -> Object] /\ c \in [Addr -> 0..RefMax] /\ a # b /\ rc[a] \in 1..RefMax
      /\ rc[a] \in Int
  <2>1. rc[a] \in 1..RefMax
    BY InvExact, Alive, HeapAssumption
  <2> QED
    BY <2>1, HeapAssumption DEF IInv, TypeOK, Applied, Exact
<1>1. rc'[b] = 1 /\ \A d \in Addr : d # b => rc'[d] = c[d]
  BY <1>0
<1>2. /\ obj'[b] = cell /\ \A d \in Addr : d # a /\ d # b => obj'[d] = obj[d]
      /\ rc[a] = 1 => obj'[a] = FreeCell
      /\ rc[a] # 1 => obj'[a] = obj[a]
      /\ obj' \in [Addr -> Object]
  <2>1. FreeCell \in Object
    BY HeapAssumption DEF FreeCell, Object, Tag
  <2>2. CASE rc[a] = 1
    <3>1. obj' = [obj EXCEPT ![a] = FreeCell, ![b] = cell]
      BY <1>a, <2>2 DEF TailcallObj, Unshared
    <3> QED
      BY <1>0, <2>1, <2>2, <3>1
  <2>3. CASE rc[a] # 1
    <3>1. obj' = [obj EXCEPT ![b] = cell]
      BY <1>0, <1>a, <2>3 DEF TailcallObj, Unshared
    <3> QED
      BY <1>0, <2>3, <3>1
  <2> QED
    BY <2>2, <2>3
<1>3. LocalVars(depth)
  <2>1. ASSUME NEW x \in Var, r[V(x)] # ref[V(x)] PROVE Avail(V(x), depth)
    <3>1. V(x) \in Slot /\ \A i : V(x) # F(b, i)
      BY SlotKinds, SlotDistinct
    <3> QED
      BY <2>1, <3>1 DEF Applied
  <2>2. ASSUME NEW x \in Var, ref'[V(x)] # ref[V(x)]
        PROVE  ref[V(x)] = Null \/ Avail(V(x), depth)
    <3>1. V(x) \in Slot /\ (\A i : V(x) # F(b, i)) /\ \A k : V(x) # K(k)
      BY SlotKinds, SlotDistinct
    <3>2. ref'[V(x)] # r[V(x)] => r[V(x)] = Null
      BY <1>d, <3>1
    <3> QED
      BY <2>1, <2>2, <3>2
  <2>3. \A x \in X : ref[V(x)] = Null \/ lvl[x] = depth
    BY <1>b, <2>1, AvailVar DEF Mine
  <2> QED
    BY <1>c, <2>2, <2>3, OwnersKeep
<1>4. ASSUME rc[a] = 1 PROVE Empty(a)'
  <2> SUFFICES ASSUME NEW i \in Field PROVE ref'[F(a, i)] = Null
    BY DEF Empty
  <2>1. /\ F(a, i) \in Slot /\ (\A y : F(a, i) # V(y)) /\ (\A k : F(a, i) # K(k))
        /\ \A j : F(a, i) # F(b, j)
    BY <1>0, SlotKinds, SlotDistinct
  <2>2. r[F(a, i)] = Null
    BY <1>4 DEF Applied
  <2> QED
    BY <1>d, <2>1, <2>2
<1>5. LocalCounts(depth)
  <2>1. ASSUME NEW d \in Addr, rc'[d] # rc[d] PROVE rc[d] = 0 \/ Held(d, depth)
    BY <1>1, <2>1 DEF Applied
  <2>2. ASSUME NEW d \in Addr, rc'[d] = 0, rc[d] # 0 PROVE Empty(d)'
    <3>1. d = a /\ rc[a] = 1
      BY <1>1, <2>2 DEF Applied
    <3> QED
      BY <1>4, <3>1
  <2> QED
    BY <2>1, <2>2 DEF LocalCounts
<1>6. LocalObjects(depth)
  <2> SUFFICES ASSUME NEW d \in Addr, obj'[d] # obj[d]
               PROVE  \/ rc[d] = 0 /\ rc'[d] # 0
                      \/ rc[d] = 1 /\ (Freed(d, depth) \/ Recycled(d, depth))
    BY DEF LocalObjects
  <2>1. CASE d = b
    BY <1>1, <2>1
  <2>2. CASE d # b
    <3>1. d = a /\ rc[a] = 1 /\ obj'[a] = FreeCell
      BY <1>2, <2>2
    <3>2. ref'[s] # a
      <4>1. rc'[a] = 0
        BY <1>0, <1>1, <3>1 DEF Applied
      <4>2. ref'[s] # Null => rc'[ref'[s]] \in 1..RefMax
        BY Alive
      <4>3. a # Null /\ 0 \notin 1..RefMax
        BY HeapAssumption
      <4> QED
        BY <4>1, <4>2, <4>3
    <3>3. Freed(a, depth)
      BY <1>4, <3>1, <3>2 DEF Freed
    <3> QED
      BY <3>1, <3>3
  <2> QED
    BY <2>1, <2>2
<1>7. LocalFields
  <2> SUFFICES ASSUME NEW d \in Addr, NEW i \in Field,
                      ref'[F(d, i)] # Null, ref'[F(d, i)] # ref[F(d, i)]
               PROVE  rc'[d] # 0 /\ i <= obj'[d].size /\ rc[d] = 0
    BY DEF LocalFields
  <2>1. F(d, i) \in Slot /\ (\A y : F(d, i) # V(y)) /\ (\A k : F(d, i) # K(k))
    BY SlotKinds, SlotDistinct
  <2>2. r[F(d, i)] = ref'[F(d, i)]
    BY <1>d, <2>1
  <2>3. PICK j \in 1..(n + 1) : F(d, i) = F(b, j)
    BY <2>1, <2>2 DEF Applied
  <2>4. d = b /\ i \in 1..(n + 1)
    BY <2>3, SlotDistinct
  <2>5. cell.size \in Int
    BY HeapAssumption DEF Object
  <2>6. i <= cell.size
    BY <1>a, <2>4, <2>5, HeapAssumption
  <2> QED
    BY <1>1, <1>2, <2>4, <2>6
<1>8. NewObjects
  <2> SUFFICES ASSUME NEW d \in Addr, rc[d] = 0, rc'[d] # 0 PROVE d = b
    BY <1>2, <1>a DEF NewObjects
  <2> QED
    BY <1>1 DEF Applied
<1> QED
  BY <1>2, <1>3, <1>5, <1>6, <1>7, <1>8

\* The new argument of an application of the closure in c.
LEMMA LastArgFacts ==
  ASSUME IInv, NEW c \in Var, Is(c, "closure"), NEW b \in Addr, rc[b] = 0,
         NEW n, n = obj[ref[V(c)]].size, n + 1 \in Field, NEW as \in LastArg(c)
  PROVE  Passed(V(c), b, n, FromVars(b, as))
<1>1. as \in Args(n + 1) /\ \A i \in DOMAIN as : i > n /\ as[i] # c
  BY DEF LastArg
<1>2. Empty(b)
  BY FreshEmpty
<1>3. n + 1 \in 0..MaxFields /\ n \in Int
  <2>1. V(c) \in Slot /\ ref[V(c)] # Null
    BY SlotKinds DEF Is, Mine
  <2>2. ref[V(c)] \in Addr
    BY <2>1, InvExact, Alive
  <2> QED
    BY <2>2, HeapAssumption DEF IInv, TypeOK, Object, Field
<1> DEFINE m == FromVars(b, as)
<1>4. /\ \A t : t \in DOMAIN m <=> \E i \in DOMAIN as : t = F(b, i)
      /\ \A i \in DOMAIN as : /\ i \in 1..(n + 1)
                              /\ as[i] \in Var /\ Usable(as[i]) /\ m[F(b, i)] = V(as[i])
  BY <1>1, <1>2, <1>3, Filled
<1> HIDE DEF m
<1>5. ASSUME NEW t \in DOMAIN m
      PROVE  t = F(b, n + 1) /\ m[t] \in Slot /\ m[t] # V(c) /\ Avail(m[t], depth)
  <2>1. PICK i \in DOMAIN as : t = F(b, i)
    BY <1>4
  <2>2. i = n + 1
    <3>1. i > n /\ i \in 1..(n + 1)
      BY <1>1, <1>4
    <3> QED
      BY <1>3, <3>1
  <2>3. as[i] \in Var /\ Usable(as[i]) /\ m[t] = V(as[i]) /\ as[i] # c
    BY <1>1, <1>4, <2>1
  <2>4. t = F(b, n + 1)
    BY <2>1, <2>2, Zenon
  <2>5. m[t] \in Slot /\ m[t] # V(c)
    BY <2>3, SlotKinds, SlotDistinct
  <2>6. Avail(m[t], depth)
    BY <2>3, Availables
  <2> QED
    BY <2>4, <2>5, <2>6, Zenon
<1>6. \A i \in Field : V(c) # F(ref[V(c)], i)
  BY SlotDistinct
<1> QED
  BY <1>5, <1>6 DEF Passed, m

\* applyPartial keeps the invariant.
LEMMA ApplyPartialInv ==
  ASSUME IInv, Unsaturated, NEW x \in Var, NEW f \in Var, applyPartial(x, f)
  PROVE  IInv'
<1>s. PICK s \in Slot : s = V(f)
  BY SlotKinds
<1>1. PICK a \in Addr : a = ref[s]
  BY <1>s, InvExact, Alive DEF applyPartial, Is, Mine
<1>2. /\ Is(f, "closure") /\ V(x) \in Slot /\ Avail(s, depth)
      /\ obj[a].tag = "closure" /\ Missing(a) > 1
  <2>1. Is(f, "closure") /\ Usable(f)
    BY DEF applyPartial, Is, Usable
  <2> QED
    BY <1>s, <1>1, <2>1, SlotKinds, Availables DEF applyPartial, Is
<1>3. PICK n : n = obj[a].size
  OBVIOUS
<1> DEFINE cell == Cell("closure", n + 1, obj[a].arity)
<1>4. n \in 0..MaxFields /\ n + 1 \in Field /\ cell \in Object
  <2>1. obj[a] \in Object
    BY DEF IInv, TypeOK
  <2>2. n \in 0..MaxFields /\ obj[a].arity \in 0..MaxFields
    BY <1>3, <2>1 DEF Object
  <2>3. n + 1 \in 1..MaxFields /\ n + 1 \in 0..MaxFields
    BY <1>2, <1>3, <2>2, HeapAssumption DEF Missing
  <2> QED
    BY <2>2, <2>3 DEF Field, Cell, Object, Tag
<1>5. PICK b \in Addr : \E as \in LastArg(f) :
        /\ rc[b] = 0
        /\ TailcallArgs(s, b, FromVars(b, as))[V(x)] = Null
        /\ ref' = [TailcallArgs(s, b, FromVars(b, as)) EXCEPT ![V(x)] = b]
        /\ rc' = TailcallCount(s, b)
        /\ obj' = TailcallObj(s, b, cell)
  BY <1>s, <1>1, <1>3 DEF applyPartial
<1>6. PICK as \in LastArg(f) :
        /\ rc[b] = 0
        /\ TailcallArgs(s, b, FromVars(b, as))[V(x)] = Null
        /\ ref' = [TailcallArgs(s, b, FromVars(b, as)) EXCEPT ![V(x)] = b]
        /\ rc' = TailcallCount(s, b)
        /\ obj' = TailcallObj(s, b, cell)
  BY <1>5
<1>7. PICK arg : arg = FromVars(b, as)
  OBVIOUS
<1>8. PICK r : r = TailcallArgs(s, b, arg)
  OBVIOUS
<1>9. /\ rc[b] = 0 /\ r[V(x)] = Null /\ ref' = [r EXCEPT ![V(x)] = b]
      /\ rc' = TailcallCount(s, b) /\ obj' = TailcallObj(s, b, cell)
  BY <1>6, <1>7, <1>8
<1>10. /\ Shared(rc') /\ lvl' = Owners(ref', {x}, depth) /\ UNCHANGED <<depth, frame>>
  BY DEF applyPartial
<1>11. stale' \in BOOLEAN
  BY Zenon DEF applyPartial, IInv, TypeOK
<1>12. PICK c : Applied(r, c, s, b, n) /\ rc' = [c EXCEPT ![b] = 1]
  <2>1. Passed(s, b, n, arg)
    BY <1>s, <1>1, <1>2, <1>3, <1>4, <1>7, <1>9, LastArgFacts
  <2>2. Shared(TailcallCount(s, b))
    BY <1>9, <1>10
  <2>3. \E c : Applied(TailcallArgs(s, b, arg), c, s, b, n)
               /\ TailcallCount(s, b) = [c EXCEPT ![b] = 1]
    BY <1>1, <1>2, <1>3, <1>4, <1>9, <2>1, <2>2, TailcallFacts
  <2> QED
    BY <1>8, <1>9, <2>3
<1>13. Exact(r, c) /\ c[b] = 0 /\ r \in [Slot -> Ref] /\ r[s] = Null
  BY <1>12 DEF Applied, Exact
<1>14. Exact(ref', rc')
  <2>1. Exact([r EXCEPT ![V(x)] = b], [c EXCEPT ![b] = 1])
    <3>1. r[V(x)] = Null /\ V(x) \in Slot
      BY <1>2, <1>9
    <3> QED
      BY <1>13, <3>1, ExactAlloc
  <2> QED
    BY <1>9, <1>12, <2>1
<1>15. /\ ref'[V(x)] = b /\ \A u \in Slot : u # V(x) => ref'[u] = r[u]
  BY <1>2, <1>9, <1>13
<1>17. cell.tag = "closure" /\ n + 1 <= cell.size
  BY <1>4, HeapAssumption DEF Cell
<1> HIDE DEF cell
<1>18. /\ LocalVars(depth) /\ LocalCounts(depth) /\ LocalObjects(depth)
       /\ LocalFields /\ NewObjects /\ obj' \in [Addr -> Object]
  <2>1. Installed(r, b)
    BY <1>9, <1>15 DEF Installed
  <2>2. Handed(r)
    BY <1>9, <1>10 DEF Handed
  <2>3. Grown(s, b, n)
    BY <1>4, <1>9, <1>17 DEF Grown
  <2>4. ref[s] = a /\ rc[b] = 0
    BY <1>1, <1>9
  <2> QED
    BY <1>2, <1>4, <1>12, <1>14, <2>1, <2>2, <2>3, <2>4, TailcallLocal
<1>19. \A k \in Frame : ref'[K(k)] = ref[K(k)]
  <2>1. \A k \in Frame : r[K(k)] = ref[K(k)]
    BY <1>12, AppliedFrames
  <2> QED
    BY <1>15, <2>1, SlotKinds, SlotDistinct
<1>20. LocalFrames(depth)
  BY <1>10, <1>19, Stack DEF LocalFrames
<1>21. lvl' \in [Var -> 0..MaxDepth]
  BY <1>10, OwnersType, Stack
<1> QED
  BY <1>10, <1>11, <1>14, <1>18, <1>19, <1>20, <1>21, FlatStep DEF Local

\* idris2_trampoline takes the new closure and hands its arguments over.
LEMMA DispatchInv ==
  ASSUME IInv, NEW s \in Slot, NEW a \in Addr, ref[s] = a, Avail(s, depth),
         NEW b \in Addr, rc[b] = 0, NEW n \in 0..MaxFields,
         NEW r, NEW c, Applied(r, c, s, b, n), rc' = [c EXCEPT ![b] = 1],
         Grown(s, b, n), Dispatch(r, b), stale' \in BOOLEAN
  PROVE  IInv'
<1>0. /\ Exact(r, c) /\ c[b] = 0 /\ r \in [Slot -> Ref] /\ c \in [Addr -> 0..RefMax]
  BY DEF Applied, Exact
<1>1. PICK ps \in Params(r, Full(r, b)) :
        /\ ref' = Move([r EXCEPT ![K(depth + 1)] = b], ToVars(b, ps))
        /\ lvl' = Owners(ref', DOMAIN ps, depth + 1)
  BY DEF Dispatch
<1>2. /\ depth < MaxDepth /\ depth' = depth + 1
      /\ frame' = [frame EXCEPT ![depth + 1] = InOp("trampoline")]
  BY DEF Dispatch
<1>3. /\ depth + 1 \in Frame /\ K(depth + 1) \in Slot /\ ref[K(depth + 1)] = Null
      /\ depth \in 0..MaxDepth /\ MaxDepth \in Nat
      /\ frame \in [Frame -> Activation] /\ 1..depth \subseteq Frame
  BY <1>2, Stack
<1>4. \A k \in Frame : r[K(k)] = ref[K(k)]
  BY AppliedFrames
<1>5. r[K(depth + 1)] = Null
  BY <1>3, <1>4
<1>6. PICK q : q = [r EXCEPT ![K(depth + 1)] = b]
  OBVIOUS
<1>7. Exact(q, rc')
  <2>1. Exact([r EXCEPT ![K(depth + 1)] = b], [c EXCEPT ![b] = 1])
    BY <1>0, <1>3, <1>5, ExactAlloc
  <2> QED
    BY <1>6, <2>1
<1>8. /\ q \in [Slot -> Ref] /\ q[K(depth + 1)] = b
      /\ \A u \in Slot : u # K(depth + 1) => q[u] = r[u]
  BY <1>0, <1>3, <1>6, <1>7 DEF Exact
<1>9. ps \in Params(q, Full(q, b))
  <2>1. /\ \A x \in Var : q[V(x)] = r[V(x)]
        /\ \A i \in Field : q[F(b, i)] = r[F(b, i)]
    BY <1>8, SlotKinds, SlotDistinct
  <2>2. Full(q, b) = Full(r, b)
    BY <2>1 DEF Full
  <2>3. {x \in Var : q[V(x)] = Null} = {x \in Var : r[V(x)] = Null}
    BY <2>1
  <2> QED
    BY <2>2, <2>3 DEF Params
<1>10. PICK m : m = ToVars(b, ps)
  OBVIOUS
<1>11. /\ Fills(q, m) /\ Injective(m)
       /\ DOMAIN ps \subseteq Var /\ \A y \in DOMAIN ps : q[V(y)] = Null
       /\ \A u \in Slot : \/ Move(q, m)[u] = q[u]
                          \/ \E y \in Var : u = V(y) /\ q[u] = Null
                          \/ \E i \in Field : u = F(b, i) /\ Move(q, m)[u] = Null
       /\ \A i \in Field : Move(q, m)[F(b, i)] = Null
  BY <1>8, <1>9, <1>10, Emptied
<1>12. ref' = Move(q, m)
  BY <1>1, <1>6, <1>10
<1>13. Exact(ref', rc')
  BY <1>7, <1>11, <1>12, ExactMove
<1>14. \A u \in Slot : \/ ref'[u] = q[u]
                       \/ \E y \in Var : u = V(y) /\ q[u] = Null
                       \/ \E i \in Field : u = F(b, i) /\ ref'[u] = Null
  BY <1>11, <1>12
<1>15. /\ \A k \in Frame : k # depth + 1 => ref'[K(k)] = ref[K(k)]
       /\ ref'[K(depth + 1)] = b /\ \A i \in Field : ref'[F(b, i)] = Null
  <2>1. \A k \in Frame : ref'[K(k)] = q[K(k)]
    BY <1>14, SlotKinds, SlotDistinct
  <2>2. \A k \in Frame : k # depth + 1 => q[K(k)] = r[K(k)]
    BY <1>8, SlotKinds, SlotDistinct
  <2> QED
    BY <1>3, <1>4, <1>8, <1>11, <1>12, <2>1, <2>2
<1>16. Installed(r, b)
  <2> SUFFICES ASSUME NEW u \in Slot, ref'[u] # r[u]
               PROVE  \/ \E y \in Var : u = V(y) /\ r[u] = Null
                      \/ \E k \in Frame : u = K(k)
                      \/ \E i \in Field : u = F(b, i) /\ ref'[u] = Null
    BY DEF Installed
  <2>1. CASE u = K(depth + 1)
    BY <1>3, <2>1
  <2>2. CASE u # K(depth + 1)
    BY <1>8, <1>14, <2>2
  <2> QED
    BY <2>1, <2>2
<1>17. Handed(r)
  <2>1. \A y \in DOMAIN ps : r[V(y)] = Null
    BY <1>8, <1>11, SlotKinds, SlotDistinct
  <2> QED
    BY <1>1, <1>11, <2>1 DEF Handed
<1>18. /\ LocalVars(depth) /\ LocalCounts(depth) /\ LocalObjects(depth)
       /\ LocalFields /\ NewObjects /\ obj' \in [Addr -> Object]
  BY <1>13, <1>16, <1>17, TailcallLocal
<1>19. LocalFrames(depth)
  <2> SUFFICES ASSUME NEW k \in 1..depth
               PROVE  frame'[k] = frame[k] /\ ref'[K(k)] = ref[K(k)]
    BY DEF LocalFrames
  <2>1. k \in Frame /\ k # depth + 1
    BY <1>3
  <2> QED
    BY <1>2, <1>3, <1>15, <2>1
<1>20. lvl' \in [Var -> 0..MaxDepth]
  <2>1. depth + 1 \in 0..MaxDepth
    BY <1>2, <1>3
  <2> QED
    BY <1>1, <2>1, OwnersType
<1>21. /\ ref'[K(depth + 1)] # Null /\ rc'[ref'[K(depth + 1)]] = 1
       /\ \A i \in Field : ref'[F(ref'[K(depth + 1)], i)] = Null
  BY <1>0, <1>15, HeapAssumption
<1> QED
  BY <1>2, <1>13, <1>15, <1>18, <1>19, <1>20, <1>21, PushStep DEF Local
\* applySaturated keeps the invariant.
LEMMA ApplySaturatedInv ==
  ASSUME IInv, Unsaturated, NEW f \in Var, applySaturated(f)
  PROVE  IInv'
<1>s. PICK s \in Slot : s = V(f)
  BY SlotKinds
<1>1. PICK a \in Addr : a = ref[s]
  BY <1>s, InvExact, Alive DEF applySaturated, Is, Mine
<1>2. /\ Is(f, "closure") /\ Avail(s, depth)
      /\ obj[a].tag = "closure" /\ Missing(a) = 1
  <2>1. Is(f, "closure") /\ Usable(f)
    BY DEF applySaturated, Is, Usable
  <2> QED
    BY <1>s, <1>1, <2>1, Availables DEF applySaturated, Is
<1>3. PICK n : n = obj[a].size
  OBVIOUS
<1> DEFINE cell == Cell("closure", obj[a].arity, obj[a].arity)
<1>4. /\ n \in 0..MaxFields /\ n + 1 \in Field /\ cell \in Object
      /\ cell.tag = "closure" /\ n + 1 <= cell.size
  <2>1. obj[a] \in Object
    BY DEF IInv, TypeOK
  <2>2. n \in 0..MaxFields /\ obj[a].arity \in 0..MaxFields
    BY <1>3, <2>1 DEF Object
  <2>3. obj[a].arity = n + 1 /\ n + 1 \in 1..MaxFields
    BY <1>2, <1>3, <2>2, HeapAssumption DEF Missing
  <2> QED
    BY <2>2, <2>3, HeapAssumption DEF Field, Cell, Object, Tag
<1>5. PICK b \in Addr : \E as \in LastArg(f) :
        /\ rc[b] = 0
        /\ Dispatch(TailcallArgs(s, b, FromVars(b, as)), b)
        /\ rc' = TailcallCount(s, b)
        /\ obj' = TailcallObj(s, b, cell)
  BY <1>s, <1>1 DEF applySaturated
<1>6. PICK as \in LastArg(f) :
        /\ rc[b] = 0
        /\ Dispatch(TailcallArgs(s, b, FromVars(b, as)), b)
        /\ rc' = TailcallCount(s, b)
        /\ obj' = TailcallObj(s, b, cell)
  BY <1>5
<1>7. PICK arg : arg = FromVars(b, as)
  OBVIOUS
<1>8. PICK r : r = TailcallArgs(s, b, arg)
  OBVIOUS
<1>9. /\ rc[b] = 0 /\ Dispatch(r, b)
      /\ rc' = TailcallCount(s, b) /\ obj' = TailcallObj(s, b, cell)
  BY <1>6, <1>7, <1>8
<1>10. Grown(s, b, n)
  BY <1>4, <1>9 DEF Grown
<1>11. stale' \in BOOLEAN
  BY Zenon DEF applySaturated, IInv, TypeOK
<1> HIDE DEF cell
<1>12. PICK c : Applied(r, c, s, b, n) /\ rc' = [c EXCEPT ![b] = 1]
  <2>1. Passed(s, b, n, arg)
    BY <1>s, <1>1, <1>2, <1>3, <1>4, <1>7, <1>9, LastArgFacts
  <2>2. Shared(TailcallCount(s, b))
    BY <1>9 DEF applySaturated
  <2>3. \E c : Applied(TailcallArgs(s, b, arg), c, s, b, n)
               /\ TailcallCount(s, b) = [c EXCEPT ![b] = 1]
    BY <1>1, <1>2, <1>3, <1>4, <1>9, <2>1, <2>2, TailcallFacts
  <2> QED
    BY <1>8, <1>9, <2>3
<1> QED
  BY <1>1, <1>2, <1>4, <1>9, <1>10, <1>11, <1>12, DispatchInv

\* runFinaliser keeps the invariant: the finaliser lacks two arguments.
LEMMA RunFinaliserInv ==
  ASSUME IInv, Unsaturated, runFinaliser
  PROVE  IInv'
<1>a. PICK p \in Addr : p = Dying
  BY DyingFacts DEF runFinaliser
<1>b. obj[p].tag = "gcpointer" /\ ref[F(p, 3)] # Null /\ 2 \in Field /\ 3 \in Field
  BY <1>a, HeapAssumption DEF runFinaliser, Finalised, Field
<1>s. PICK s \in Slot : s = F(p, 3)
  BY <1>b, SlotKinds
<1>1. PICK a \in Addr : a = ref[s]
  BY <1>b, <1>s, InvExact, Alive
<1>2. /\ Avail(s, depth) /\ obj[a].tag = "closure" /\ Missing(a) = 2
  <2>1. Finaliser(a)
    BY <1>b, <1>s, <1>1 DEF IInv, Finalisers
  <2> QED
    BY <1>b, <1>s, <2>1, Availables DEF Finaliser
<1>3. PICK n : n = obj[a].size
  OBVIOUS
<1> DEFINE cell == Cell("closure", n + 2, n + 2)
<1>4. /\ n \in 0..MaxFields /\ n + 1 \in Field /\ cell \in Object
      /\ cell.tag = "closure" /\ n + 1 <= cell.size
  <2>1. obj[a] \in Object
    BY DEF IInv, TypeOK
  <2>2. n \in 0..MaxFields /\ obj[a].arity \in 0..MaxFields
    BY <1>3, <2>1 DEF Object
  <2>3. n + 2 \in 0..MaxFields /\ n + 1 \in 1..MaxFields
    BY <1>2, <1>3, <2>2, HeapAssumption DEF Missing
  <2> QED
    BY <2>2, <2>3, HeapAssumption DEF Field, Cell, Object, Tag
<1>6. PICK b \in Addr :
        /\ rc[b] = 0
        /\ Dispatch(TailcallArgs(s, b, [t \in {F(b, n + 1)} |-> F(p, 2)]), b)
        /\ rc' = TailcallCount(s, b)
        /\ obj' = TailcallObj(s, b, cell)
  BY <1>a, <1>s, <1>1, <1>3 DEF runFinaliser
<1>7. PICK arg : arg = [t \in {F(b, n + 1)} |-> F(p, 2)]
  OBVIOUS
<1>8. PICK r : r = TailcallArgs(s, b, arg)
  OBVIOUS
<1>9. /\ rc[b] = 0 /\ Dispatch(r, b)
      /\ rc' = TailcallCount(s, b) /\ obj' = TailcallObj(s, b, cell)
  BY <1>6, <1>7, <1>8
<1>10. Grown(s, b, n)
  BY <1>4, <1>9 DEF Grown
<1>11. stale' \in BOOLEAN
  BY Zenon DEF runFinaliser, IInv, TypeOK
<1> HIDE DEF cell
<1>12. PICK c : Applied(r, c, s, b, n) /\ rc' = [c EXCEPT ![b] = 1]
  <2>1. Passed(s, b, n, arg)
    <3>1. \A t \in DOMAIN arg : t = F(b, n + 1) /\ arg[t] = F(p, 2)
      BY <1>7
    <3>2. F(p, 2) \in Slot /\ F(p, 2) # s /\ Avail(F(p, 2), depth)
      <4>1. F(p, 2) \in Slot
        BY <1>b, SlotKinds
      <4>2. F(p, 2) # s
        BY <1>s, SlotDistinct
      <4>3. Avail(F(p, 2), depth)
        BY <1>b, Availables
      <4> QED
        BY <4>1, <4>2, <4>3
    <3>3. a # p
      <4>1. s # K(depth)
        BY <1>s, SlotDistinct
      <4> QED
        BY <1>a, <1>1, <4>1, DyingFacts DEF runFinaliser
    <3>4. \A i \in Field : s # F(a, i)
      BY <1>s, <3>3, SlotDistinct
    <3> QED
      BY <1>1, <3>1, <3>2, <3>4 DEF Passed
  <2>2. Shared(TailcallCount(s, b))
    BY <1>9 DEF runFinaliser
  <2>3. \E c : Applied(TailcallArgs(s, b, arg), c, s, b, n)
               /\ TailcallCount(s, b) = [c EXCEPT ![b] = 1]
    <3>1. /\ ref[s] = a /\ Avail(s, depth) /\ obj[a].tag = "closure" /\ rc[b] = 0
          /\ n = obj[a].size /\ n + 1 \in Field
      BY <1>1, <1>2, <1>3, <1>4, <1>9
    <3> QED
      BY <2>1, <2>2, <3>1, TailcallFacts
  <2> QED
    BY <1>8, <1>9, <2>3
<1> QED
  BY <1>1, <1>2, <1>4, <1>9, <1>10, <1>11, <1>12, DispatchInv

-----------------------------------------------------------------------------
(* IORefs and arrays. *)

\* A fixed place: one slot gets what another one holds.
LEMMA OneSlot ==
  ASSUME NEW r, r \in [Slot -> Ref], NEW t \in Slot, NEW s \in Slot, s # t,
         NEW m, m = [u \in {t} |-> s]
  PROVE  /\ r[t] = Null => Fills(r, m) /\ Injective(m)
         /\ Copy(r, m)[t] = r[s] /\ Move(r, m)[t] = r[s] /\ Move(r, m)[s] = Null
         /\ \A u \in Slot : u # t => Copy(r, m)[u] = r[u]
         /\ \A u \in Slot : u # t /\ u # s => Move(r, m)[u] = r[u]
<1>1. DOMAIN m = {t} /\ m[t] = s
  OBVIOUS
<1>2. r[t] = Null => Fills(r, m) /\ Injective(m)
  BY <1>1 DEF Fills, Injective
<1>3. Copy(r, m)[t] = r[s] /\ \A u \in Slot : u # t => Copy(r, m)[u] = r[u]
  BY <1>1 DEF Copy
<1>4. /\ Move(r, m)[t] = r[s] /\ Move(r, m)[s] = Null
      /\ \A u \in Slot : u # t /\ u # s => Move(r, m)[u] = r[u]
  BY <1>1 DEF Move
<1> QED
  BY <1>2, <1>3, <1>4

\* writeIORef keeps the invariant.
LEMMA WriteIORefInv ==
  ASSUME IInv, NEW w \in Var, NEW v \in Var, writeIORef(w, v)
  PROVE  IInv'
<1>1. PICK a \in Addr : a = ref[V(w)]
  BY InvExact, Alive, SlotKinds DEF writeIORef, Is, Mine
<1>2. /\ obj[a].tag = "ioref" /\ obj[a].size = 1 /\ rc[a] # 0
  <2>1. obj[a].tag = "ioref" /\ ref[V(w)] # Null
    BY <1>1 DEF writeIORef, Is, Mine
  <2>2. rc[a] \in 1..RefMax
    BY <1>1, <2>1, InvExact, Alive, SlotKinds
  <2> QED
    BY <2>1, <2>2, HeapAssumption DEF IInv, IORefs
<1>3. depth < MaxDepth /\ Given(v) /\ UNCHANGED <<obj, lvl>>
  BY DEF writeIORef
<1>4. stale' \in BOOLEAN
  BY Zenon DEF writeIORef, IInv, TypeOK
<1>5. /\ depth \in 0..MaxDepth /\ MaxDepth \in Nat /\ depth \in 0..depth
      /\ frame \in [Frame -> Activation] /\ 1..depth \subseteq Frame
      /\ depth + 1 \in Frame /\ K(depth + 1) \in Slot /\ ref[K(depth + 1)] = Null
  BY <1>3, Stack
<1>6. PICK s \in Slot : s = K(depth + 1)
  BY <1>5
<1>7. 1 \in Field
  BY HeapAssumption DEF Field
<1>8. PICK t \in Slot : t = F(a, 1)
  BY <1>7, SlotKinds
<1>9. PICK z \in Slot : z = V(v)
  BY SlotKinds
<1>10. s # t /\ z # t /\ z # s
  BY <1>6, <1>8, <1>9, SlotDistinct
<1>11. PICK m0 : m0 = [u \in {s} |-> t]
  OBVIOUS
<1>12. PICK m : m = [u \in {t} |-> z]
  OBVIOUS
<1>13. PICK q : q = Move(ref, m0)
  OBVIOUS
<1>14. PICK r : r = Copy(q, m)
  OBVIOUS
<1>15. PICK c : c = NewRefs(rc, q, m)
  OBVIOUS
<1>16. Remove(r, c, frame, s, depth)
  BY <1>1, <1>6, <1>8, <1>9, <1>11, <1>12, <1>13, <1>14, <1>15 DEF writeIORef
<1>17. /\ Exact(q, rc) /\ q[s] = ref[t] /\ q[t] = Null
       /\ \A u \in Slot : u # s /\ u # t => q[u] = ref[u]
  <2>1. ref \in [Slot -> Ref] /\ ref[s] = Null
    BY <1>5, <1>6 DEF IInv, TypeOK
  <2>2. Fills(ref, m0) /\ Injective(m0)
    <3>1. DOMAIN m0 = {s} /\ m0[s] = t
      BY <1>11
    <3> QED
      BY <2>1, <3>1, Zenon DEF Fills, Injective
  <2>3. Exact(q, rc)
    BY <1>13, <2>2, InvExact, ExactMove
  <2> QED
    BY <1>10, <1>11, <1>13, <2>1, <2>3, OneSlot
<1>18. /\ Exact(r, c) /\ r[t] = ref[z] /\ \A u \in Slot : u # t => r[u] = q[u]
       /\ Fills(q, m)
  <2>1. q \in [Slot -> Ref]
    BY <1>17 DEF Exact
  <2>2. Fills(q, m)
    BY <1>10, <1>12, <1>17, <2>1, OneSlot
  <2>3. Exact(r, c)
    BY <1>14, <1>15, <1>17, <2>2, ExactCopy
  <2> QED
    BY <1>10, <1>12, <1>14, <1>17, <2>1, <2>2, <2>3, OneSlot
<1>19. \A e \in Addr : /\ c[e] # rc[e] => e = ref[z]
                       /\ c[e] = 0 => rc[e] = 0
  <2> SUFFICES ASSUME NEW e \in Addr
               PROVE  (c[e] # rc[e] => e = ref[z]) /\ (c[e] = 0 => rc[e] = 0)
    OBVIOUS
  <2>1. c[e] \in rc[e]..RefMax /\ ((\A u \in DOMAIN m : q[m[u]] # e) => c[e] = rc[e])
    BY <1>15, <1>17, <1>18, NewRefsAt
  <2>2. rc[e] \in 0..RefMax
    BY DEF IInv, TypeOK
  <2>3. \A u \in DOMAIN m : q[m[u]] = ref[z]
    BY <1>10, <1>12, <1>17
  <2> QED
    BY <2>1, <2>2, <2>3, HeapAssumption
<1>20. Exact(ref', rc') /\ Removed(r, c, frame, s, depth)
  BY <1>5, <1>6, <1>16, <1>18, RemoveFacts
<1>21. \A u \in Slot : u # s => ref'[u] = IF u = t THEN ref[z] ELSE ref[u]
  BY <1>6, <1>17, <1>18, <1>20 DEF Removed
<1>22. r[s] = ref[t]
  BY <1>10, <1>17, <1>18
<1>23. /\ \A k \in Frame : k # depth + 1 => ref'[K(k)] = ref[K(k)]
       /\ \A x \in Var : ref'[V(x)] = ref[V(x)]
       /\ \A b \in Addr, i \in Field : ref'[F(b, i)] # ref[F(b, i)] => b = a /\ i = 1
  BY <1>6, <1>8, <1>21, SlotKinds, SlotDistinct
<1>24. LocalFrames(depth)
  <2> SUFFICES ASSUME NEW k \in 1..depth
               PROVE  frame'[k] = frame[k] /\ ref'[K(k)] = ref[K(k)]
    BY DEF LocalFrames
  <2>1. k \in Frame /\ k # depth + 1
    BY <1>5
  <2> QED
    BY <1>5, <1>20, <1>23, <2>1 DEF Removed
<1>25. LocalVars(depth) /\ LocalObjects(depth)
  BY <1>3, <1>23 DEF LocalVars, LocalObjects
<1>26. \A e \in Addr : rc'[e] = 0 => rc[e] = 0
  BY <1>19, <1>20 DEF Removed
<1>27. ASSUME NEW e \in Addr, rc'[e] # rc[e] PROVE rc[e] # 0 /\ Held(e, depth)
  <2>0. e # Null /\ 0 \notin 1..RefMax
    BY HeapAssumption
  <2>1. CASE e = ref[z]
    <3>1. Avail(z, depth)
      BY <1>3, <1>9, <2>0, <2>1, Availables DEF Given
    <3>2. rc[ref[z]] \in 1..RefMax
      BY <2>0, <2>1, InvExact, Alive
    <3> QED
      BY <2>0, <2>1, <3>1, <3>2 DEF Held
  <2>2. CASE e = ref[t]
    <3>1. Avail(t, depth)
      BY <1>7, <1>8, Availables
    <3>2. rc[ref[t]] \in 1..RefMax
      BY <2>0, <2>2, InvExact, Alive
    <3> QED
      BY <2>0, <2>2, <3>1, <3>2 DEF Held
  <2> QED
    BY <1>19, <1>20, <1>22, <1>27, <2>1, <2>2 DEF Removed
<1>28. LocalCounts(depth) /\ NewObjects
  BY <1>26, <1>27 DEF LocalCounts, NewObjects
<1>29. LocalFields
  <2> SUFFICES ASSUME NEW b \in Addr, NEW i \in Field, ref'[F(b, i)] # ref[F(b, i)]
               PROVE  /\ rc'[b] # 0 /\ i <= obj'[b].size
                      /\ \E x \in Var : ref[V(x)] = b
                      /\ obj[b].tag = "ioref" /\ obj'[b].tag = "ioref"
    BY DEF LocalFields
  <2>1. b = a /\ i = 1
    BY <1>23
  <2> QED
    BY <1>1, <1>2, <1>3, <1>26, <2>1
<1>30. Local(depth)
  BY <1>24, <1>25, <1>28, <1>29 DEF Local
<1>31. lvl' \in [Var -> 0..MaxDepth] /\ obj' \in [Addr -> Object]
  BY <1>3 DEF IInv, TypeOK
<1>32. CASE depth' = depth /\ frame' = frame /\ ref'[K(depth + 1)] = Null
  <2>1. \A k \in Frame : ref'[K(k)] = ref[K(k)]
    BY <1>5, <1>23, <1>32
  <2> QED
    BY <1>4, <1>20, <1>30, <1>31, <1>32, <2>1, FlatStep
<1>33. CASE /\ depth' = depth + 1
            /\ frame' = [frame EXCEPT ![depth + 1] = InOp("remove")]
            /\ ref'[K(depth + 1)] = r[s] /\ r[s] \in Addr /\ rc'[r[s]] = 1
  <2>1. ref'[K(depth + 1)] # Null /\ rc'[ref'[K(depth + 1)]] = 1
    BY <1>33, HeapAssumption
  <2> QED
    BY <1>3, <1>4, <1>20, <1>23, <1>30, <1>31, <1>33, <2>1, PushStep
<1> QED
  BY <1>3, <1>20, <1>32, <1>33 DEF Removed

\* Reading an array slot that an unfinished prim__arraySet released changes
\* nothing but stale.
LEMMA StaleInv ==
  ASSUME IInv, stale' \in BOOLEAN, UNCHANGED <<ref, rc, obj, depth, frame, lvl>>
  PROVE  IInv'
<1>1. TypeOK'
  BY DEF IInv, TypeOK
<1>2. Counted(ref, rc)' /\ Shape' /\ Reuse' /\ Finalisers' /\ IORefs' /\ Tops'
  BY DEF IInv, Counted, RefsTo, Shape, Reuse, Finalisers, Finaliser, Missing, IORefs, Tops
<1>3. Frames'
  BY DEF IInv, Frames, FrameOK, Owing, HandedOver, Setting, Kept
<1>4. Distinct'
  BY DEF IInv, Distinct, Same
<1> QED
  BY <1>1, <1>2, <1>3, <1>4 DEF IInv

\* readIORef keeps the invariant.
LEMMA ReadIORefInv ==
  ASSUME IInv, NEW x \in Var, NEW w \in Var, readIORef(x, w)
  PROVE  IInv'
<1>1. PICK a \in Addr : a = ref[V(w)]
  BY InvExact, Alive, SlotKinds DEF readIORef, Is, Mine
<1>2. Read(x, a, 1) /\ 1 \in Field
  BY <1>1, HeapAssumption DEF readIORef, Field
<1>3. stale' \in BOOLEAN
  BY Zenon DEF readIORef, IInv, TypeOK
<1> QED
  BY <1>2, <1>3, ReadInv

\* arrayGet keeps the invariant.
LEMMA ArrayGetInv ==
  ASSUME IInv, NEW x \in Var, NEW w \in Var, NEW i \in Sizes, arrayGet(x, w, i)
  PROVE  IInv'
<1>1. PICK a \in Addr : a = ref[V(w)]
  BY InvExact, Alive, SlotKinds DEF arrayGet, Is, Mine
<1>2. i \in Field
  BY HeapAssumption DEF Field
<1>3. CASE Busy(a, i)
  <2>1. UNCHANGED <<ref, rc, obj, depth, frame, lvl>> /\ stale' = TRUE
    BY <1>1, <1>3 DEF arrayGet
  <2>2. stale' \in BOOLEAN
    BY <2>1
  <2> QED
    BY <2>1, <2>2, StaleInv
<1>4. CASE ~Busy(a, i)
  <2>1. Read(x, a, i) /\ stale' = stale
    BY <1>1, <1>4 DEF arrayGet
  <2>2. stale' \in BOOLEAN
    BY <2>1, Zenon DEF IInv, TypeOK
  <2> QED
    BY <1>2, <2>1, <2>2, ReadInv
<1> QED
  BY <1>3, <1>4

\* arrayStore keeps the invariant: the slot it fills is its own.
LEMMA ArrayStoreInv ==
  ASSUME IInv, arrayStore
  PROVE  IInv'
<1>1. /\ depth > 0 /\ frame[depth].op = "arraySet" /\ Setting(depth)
      /\ depth \in Frame /\ depth \in 0..MaxDepth /\ MaxDepth \in Nat /\ K(depth) \in Slot
      /\ frame \in [Frame -> Activation] /\ 1..depth \subseteq Frame
  BY Stack DEF arrayStore, FrameOK
<1>2. PICK a \in Addr, i \in Field : a = frame[depth].arr /\ i = frame[depth].idx
  BY <1>1 DEF Setting, Activation
<1>3. PICK w \in Var : w = frame[depth].own
  BY <1>1 DEF Setting
<1>4. /\ ref[K(depth)] = Null /\ ref[V(w)] = a /\ a # Null
      /\ obj[a].tag = "array" /\ i <= obj[a].size /\ ref[F(a, i)] = Null
  BY <1>1, <1>2, <1>3, HeapAssumption DEF Setting
<1>5. PICK v \in Var \cup {Null} : v = frame[depth].val
  BY <1>1 DEF Activation
<1>6. v # Null => v \in Var /\ ref[V(v)] # Null /\ obj[ref[V(v)]].tag # "reuse"
  BY <1>1, <1>5 DEF Setting, Kept
<1>7. PICK m : m = [s \in IF v = Null THEN {} ELSE {F(a, i)} |-> V(v)]
  OBVIOUS
<1>8. /\ ref' = Copy(ref, m) /\ rc' = NewRefs(rc, ref, m) /\ depth' = depth - 1
      /\ frame' = [frame EXCEPT ![depth] = Idle] /\ UNCHANGED <<obj, lvl>>
  BY <1>2, <1>5, <1>7 DEF arrayStore
<1>9. stale' \in BOOLEAN
  BY Zenon DEF arrayStore, IInv, TypeOK
<1>10. \A s \in DOMAIN m : s = F(a, i) /\ m[s] = V(v) /\ v # Null
  BY <1>7
<1>11. Fills(ref, m)
  BY <1>4, <1>6, <1>10, SlotKinds DEF Fills
<1>12. Exact(ref', rc')
  BY <1>8, <1>11, InvExact, ExactCopy
<1>13. \A u \in Slot : u # F(a, i) => ref'[u] = ref[u]
  BY <1>8, <1>10 DEF Copy
<1>14. /\ \A k \in Frame : ref'[K(k)] = ref[K(k)]
       /\ \A x \in Var : ref'[V(x)] = ref[V(x)]
       /\ \A b \in Addr, j \in Field : ref'[F(b, j)] # ref[F(b, j)] => b = a /\ j = i
  BY <1>13, SlotKinds, SlotDistinct
<1>15. LocalFrames(depth - 1)
  <2> SUFFICES ASSUME NEW k \in 1..(depth - 1)
               PROVE  frame'[k] = frame[k] /\ ref'[K(k)] = ref[K(k)]
    BY DEF LocalFrames
  <2>1. k \in Frame /\ k # depth
    BY <1>1, HeapAssumption DEF Frame
  <2> QED
    BY <1>1, <1>8, <1>14, <2>1
<1>16. LocalVars(depth - 1) /\ LocalObjects(depth - 1)
  BY <1>8, <1>14 DEF LocalVars, LocalObjects
<1>17. \A e \in Addr : /\ rc'[e] # rc[e] => rc[e] # 0 /\ Lent(e)
                       /\ rc'[e] = 0 => rc[e] = 0
  <2> SUFFICES ASSUME NEW e \in Addr
               PROVE  /\ rc'[e] # rc[e] => rc[e] # 0 /\ Lent(e)
                      /\ rc'[e] = 0 => rc[e] = 0
    OBVIOUS
  <2>1. rc'[e] \in rc[e]..RefMax /\ ((\A t \in DOMAIN m : ref[m[t]] # e) => rc'[e] = rc[e])
    BY <1>8, <1>11, InvExact, NewRefsAt
  <2>2. rc[e] \in 0..RefMax
    BY DEF IInv, TypeOK
  <2>3. ASSUME rc'[e] # rc[e] PROVE rc[e] # 0 /\ Lent(e)
    <3>1. v # Null /\ ref[V(v)] = e
      BY <1>10, <2>1, <2>3
    <3>2. v \in Var /\ ref[V(v)] # Null /\ obj[e].tag # "reuse" /\ V(v) \in Slot
      BY <1>6, <3>1, SlotKinds
    <3>3. rc[ref[V(v)]] \in 1..RefMax
      BY <3>2, InvExact, Alive
    <3> QED
      BY <3>1, <3>2, <3>3, HeapAssumption DEF Lent
  <2> QED
    BY <2>1, <2>2, <2>3, HeapAssumption
<1>18. LocalCounts(depth - 1) /\ NewObjects
  BY <1>17 DEF LocalCounts, NewObjects
<1>19. ~Busy(a, i)'
  <2> SUFFICES ASSUME NEW k \in 1..(depth - 1), frame'[k].op = "arraySet",
                      frame'[k].arr = a, frame'[k].idx = i
               PROVE  FALSE
    BY <1>8 DEF Busy
  <2>1. k \in 1..depth /\ depth \in 1..depth /\ k # depth
    BY <1>1
  <2>2. frame'[k] = frame[k]
    BY <1>15 DEF LocalFrames
  <2>3. Same(k, depth)
    BY <1>1, <1>2, <2>2 DEF Same
  <2> QED
    BY <2>1, <2>3 DEF IInv, Distinct
<1>20. LocalFields
  <2> SUFFICES ASSUME NEW b \in Addr, NEW j \in Field, ref'[F(b, j)] # ref[F(b, j)]
               PROVE  /\ rc'[b] # 0 /\ j <= obj'[b].size
                      /\ \E x \in Var : ref[V(x)] = b
                      /\ obj[b].tag = "array" /\ ~Busy(b, j)'
    BY DEF LocalFields
  <2>1. b = a /\ j = i
    BY <1>14
  <2>2. rc[ref[V(w)]] \in 1..RefMax
    BY <1>4, InvExact, Alive, SlotKinds
  <2>3. rc'[a] # 0
    BY <1>4, <1>17, <2>2, HeapAssumption
  <2> QED
    BY <1>4, <1>8, <1>19, <2>1, <2>3
<1>21. lvl' \in [Var -> 0..MaxDepth] /\ obj' \in [Addr -> Object]
  BY <1>8 DEF IInv, TypeOK
<1>22. ref'[K(depth)] = Null
  BY <1>1, <1>4, <1>14
<1>23. Local(depth - 1)
  BY <1>15, <1>16, <1>18, <1>20 DEF Local
<1> QED
  BY <1>1, <1>8, <1>9, <1>12, <1>14, <1>21, <1>22, <1>23, PopStep

\* arraySet keeps the invariant: the slot it releases is nobody else's.
LEMMA ArraySetInv ==
  ASSUME IInv, NEW w \in Var, NEW v \in Var, NEW i \in Sizes, arraySet(w, i, v)
  PROVE  IInv'
<1>1. PICK a \in Addr : a = ref[V(w)]
  BY InvExact, Alive, SlotKinds DEF arraySet, Is, Mine
<1>2. i \in Field /\ F(a, i) \in Slot
  <2>1. i \in Field
    BY HeapAssumption DEF Field
  <2> QED
    BY <2>1, SlotKinds
<1>3. CASE Busy(a, i)
  <2>1. UNCHANGED <<ref, rc, obj, depth, frame, lvl>> /\ stale' = TRUE
    BY <1>1, <1>3 DEF arraySet
  <2>2. stale' \in BOOLEAN
    BY <2>1
  <2> QED
    BY <2>1, <2>2, StaleInv
<1>4. CASE ~Busy(a, i)
  <2>1. /\ obj[a].tag = "array" /\ i <= obj[a].size /\ Given(v) /\ depth < MaxDepth
        /\ lvl[w] = depth /\ ref[V(w)] # Null /\ UNCHANGED <<obj, lvl>>
    BY <1>1 DEF arraySet, Is, Mine
  <2>2. PICK act : act = [op |-> "arraySet", arr |-> a, idx |-> i, own |-> w,
                          val |-> IF ref[V(v)] = Null THEN Null ELSE v]
    OBVIOUS
  <2>3. PICK f : f = [frame EXCEPT ![depth + 1] = act]
    OBVIOUS
  <2>4. Remove(ref, rc, f, F(a, i), depth + 1) /\ stale' = stale
    BY <1>1, <1>4, <2>2, <2>3 DEF arraySet
  <2>5. stale' \in BOOLEAN
    BY <2>4, Zenon DEF IInv, TypeOK
  <2>6. /\ depth \in 0..MaxDepth /\ MaxDepth \in Nat /\ depth \in 0..depth
        /\ frame \in [Frame -> Activation] /\ 1..depth \subseteq Frame
        /\ depth + 1 \in Frame /\ K(depth + 1) \in Slot /\ ref[K(depth + 1)] = Null
    BY <2>1, Stack
  <2>7. depth + 1 \in 0..MaxDepth /\ (depth + 1 < MaxDepth => depth + 1 + 1 \in Frame)
    BY <2>1, <2>6 DEF Frame
  <2>8. depth + 1 < MaxDepth => ref[K(depth + 1 + 1)] = Null
    BY <2>6, <2>7 DEF IInv, Tops
  <2>9. Exact(ref', rc') /\ Removed(ref, rc, f, F(a, i), depth + 1)
    BY <1>2, <2>4, <2>7, <2>8, InvExact, RemoveFacts
  <2>10. act \in Activation /\ act.op = "arraySet" /\ act.arr = a /\ act.idx = i
         /\ act.own = w /\ (act.val # Null => act.val = v /\ ref[V(v)] # Null)
    BY <1>2, <2>2 DEF Activation, Ref
  <2>11. /\ f \in [Frame -> Activation] /\ f[depth + 1] = act
         /\ \A k \in 1..depth : f[k] = frame[k]
    BY <2>3, <2>6, <2>10
  <2>12. /\ \A u \in Slot : u # F(a, i) /\ u # K(depth + 1 + 1) => ref'[u] = ref[u]
         /\ ref'[F(a, i)] = Null
    BY <2>9, SlotDistinct DEF Removed
  <2>13. /\ \A k \in Frame : k # depth + 1 + 1 => ref'[K(k)] = ref[K(k)]
         /\ \A x \in Var : ref'[V(x)] = ref[V(x)]
         /\ \A b \in Addr, j \in Field : ref'[F(b, j)] # ref[F(b, j)] => ref'[F(b, j)] = Null
    BY <2>12, SlotKinds, SlotDistinct
  <2>14. \/ /\ depth' = depth + 1 /\ frame' = f
            /\ depth + 1 < MaxDepth => ref'[K(depth + 1 + 1)] = Null
         \/ /\ depth + 1 < MaxDepth /\ depth' = depth + 1 + 1
            /\ frame' = [f EXCEPT ![depth + 1 + 1] = InOp("remove")]
            /\ ref'[K(depth + 1 + 1)] = ref[F(a, i)] /\ ref[F(a, i)] \in Addr
            /\ rc'[ref[F(a, i)]] = 1
    BY <2>9 DEF Removed
  <2>15. /\ frame' \in [Frame -> Activation] /\ frame'[depth + 1] = act
         /\ \A k \in 1..depth : frame'[k] = frame[k]
         /\ depth' = depth + 1 + 1 =>
              /\ frame'[depth + 1 + 1].op = "remove"
              /\ ref'[K(depth + 1 + 1)] # Null /\ rc'[ref'[K(depth + 1 + 1)]] = 1
         /\ depth' \in 0..MaxDepth /\ depth' \in {depth + 1, depth + 1 + 1}
    <3>1. CASE depth' = depth + 1 /\ frame' = f
      BY <2>6, <2>7, <2>11, <3>1
    <3>2. CASE /\ depth + 1 < MaxDepth /\ depth' = depth + 1 + 1
               /\ frame' = [f EXCEPT ![depth + 1 + 1] = InOp("remove")]
               /\ ref'[K(depth + 1 + 1)] = ref[F(a, i)] /\ ref[F(a, i)] \in Addr
               /\ rc'[ref[F(a, i)]] = 1
      <4>1. InOp("remove") \in Activation /\ InOp("remove").op = "remove"
        BY InOpFacts
      <4>2. /\ frame' \in [Frame -> Activation] /\ frame'[depth + 1] = act
            /\ \A k \in 1..depth : frame'[k] = frame[k]
            /\ frame'[depth + 1 + 1].op = "remove" /\ depth' \in 0..MaxDepth
        BY <2>6, <2>7, <2>11, <3>2, <4>1
      <4> QED
        BY <3>2, <4>2, HeapAssumption
    <3> QED
      BY <2>14, <3>1, <3>2
  <2>16. Typed'
    BY <2>1, <2>5, <2>15 DEF Typed, IInv, TypeOK
  <2>17. Tops'
    <3> SUFFICES ASSUME NEW k \in Frame, k > depth' PROVE ref'[K(k)] = Null
      BY DEF Tops
    <3>1. k > depth /\ k \in Int
      BY <2>6, <2>15 DEF Frame
    <3>2. CASE k = depth + 1 + 1
      <4>1. depth' = depth + 1 /\ depth + 1 < MaxDepth
        BY <2>6, <2>15, <3>1, <3>2 DEF Frame
      <4> QED
        BY <2>6, <2>14, <3>2, <4>1
    <3>3. CASE k # depth + 1 + 1
      BY <2>13, <3>1, <3>3 DEF IInv, Tops
    <3> QED
      BY <3>2, <3>3
  <2>19. ASSUME NEW k, k = depth + 1 PROVE FrameOK(k)'
    <3>1. frame'[k] = act /\ ref'[K(k)] = Null
      BY <2>6, <2>13, <2>15, <2>19
    <3>2. ref'[V(w)] = a /\ ref'[V(v)] = ref[V(v)] /\ lvl'[w] = depth
      BY <1>1, <2>1, <2>13
    <3>3. act.val # Null => lvl'[v] = depth /\ obj'[ref'[V(v)]].tag # "reuse"
      BY <2>1, <2>10, <3>2 DEF Given, Usable, Mine
    <3>4. depth < k
      BY <2>6, <2>19
    <3>5. obj'[a].tag = "array" /\ i <= obj'[a].size /\ ref'[F(a, i)] = Null /\ a # Null
      BY <2>1, <2>12, HeapAssumption
    <3>6. Setting(k)'
      BY <2>10, <3>1, <3>2, <3>3, <3>4, <3>5 DEF Setting, Kept
    <3> QED
      BY <2>10, <3>1, <3>6 DEF FrameOK, Owing, HandedOver
  <2>20. ASSUME NEW k, k = depth + 1 + 1, depth' = depth + 1 + 1 PROVE FrameOK(k)'
    BY <2>15, <2>20 DEF FrameOK, Owing, HandedOver, Setting
  <2>21. ASSUME NEW k \in (depth + 1)..depth' PROVE FrameOK(k)'
    <3>1. k = depth + 1 \/ (k = depth + 1 + 1 /\ depth' = depth + 1 + 1)
      BY <2>6, <2>15
    <3> QED
      BY <2>19, <2>20, <3>1
  <2>22. ASSUME NEW k \in (depth + 1)..depth', NEW j \in 1..depth', Same(j, k)'
         PROVE  j = k
    <3>1. /\ k = depth + 1 \/ (k = depth + 1 + 1 /\ depth' = depth + 1 + 1)
          /\ j \in 1..depth \/ j = depth + 1 \/ (j = depth + 1 + 1 /\ depth' = depth + 1 + 1)
      BY <2>6, <2>15
    <3>2. k = depth + 1 /\ j # depth + 1 + 1
      BY <2>15, <2>22, <3>1 DEF Same
    <3>3. frame'[k].arr = a /\ frame'[k].idx = i
      BY <2>10, <2>15, <3>2
    <3>4. j \notin 1..depth
      BY <1>4, <2>15, <2>22, <3>3 DEF Same, Busy
    <3> QED
      BY <3>1, <3>2, <3>4
  <2>23. ASSUME NEW e \in Addr, rc'[e] # rc[e] PROVE rc[e] # 0 /\ Held(e, depth)
    <3>1. e = ref[F(a, i)] /\ e # Null
      BY <2>9, <2>23, HeapAssumption DEF Removed
    <3>2. rc[ref[F(a, i)]] \in 1..RefMax
      BY <1>2, <3>1, InvExact, Alive
    <3>3. Avail(F(a, i), depth)
      BY <1>2, Availables
    <3> QED
      BY <1>2, <3>1, <3>2, <3>3, HeapAssumption DEF Held
  <2>24. \A e \in Addr : rc'[e] = 0 => rc[e] = 0
    BY <2>9 DEF Removed
  <2>25. LocalCounts(depth) /\ NewObjects
    BY <2>23, <2>24 DEF LocalCounts, NewObjects
  <2>26. LocalVars(depth) /\ LocalObjects(depth) /\ LocalFields
    BY <2>1, <2>13 DEF LocalVars, LocalObjects, LocalFields
  <2>27. LocalFrames(depth)
    <3> SUFFICES ASSUME NEW k \in 1..depth
                 PROVE  frame'[k] = frame[k] /\ ref'[K(k)] = ref[K(k)]
      BY DEF LocalFrames
    <3>1. k \in Frame /\ k # depth + 1 + 1
      BY <2>6
    <3> QED
      BY <2>13, <2>15, <3>1
  <2>28. Local(depth) /\ depth <= depth'
    BY <2>6, <2>15, <2>25, <2>26, <2>27 DEF Local
  <2> QED
    BY <2>6, <2>9, <2>16, <2>17, <2>21, <2>22, <2>28, StepInv
<1> QED
  BY <1>3, <1>4

-----------------------------------------------------------------------------
(* The theorems. *)

\* Every step keeps the invariant.
LEMMA NextInv ==
  ASSUME IInv, Unsaturated, [Next]_vars
  PROVE  IInv'
<1>1. CASE UNCHANGED vars
  <2>1. UNCHANGED <<ref, rc, obj, depth, frame, lvl>>
    BY <1>1 DEF vars
  <2>2. stale' \in BOOLEAN
    BY <1>1, Zenon DEF vars, IInv, TypeOK
  <2> QED
    BY <2>1, <2>2, StaleInv
<1>2. ASSUME NEW x \in Var, newValue(x) PROVE IInv'
  BY <1>2, NewValueInv
<1>3. ASSUME NEW x \in Var, NEW n \in Sizes, newConstructor(x, n) PROVE IInv'
  BY <1>3, NewConstructorInv
<1>4. ASSUME NEW x \in Var, NEW ar \in Sizes, NEW n \in {0} \cup Sizes, mkClosure(x, ar, n)
      PROVE  IInv'
  BY <1>4, MkClosureInv
<1>5. ASSUME NEW x \in Var, NEW y \in Var, newReference(x, y) PROVE IInv'
  BY <1>5, NewReferenceInv
<1>6. ASSUME NEW x \in Var, removeReference(x) PROVE IInv'
  BY <1>6, RemoveReferenceInv
<1>7. CASE RemoveField
  BY <1>7, RemoveFieldInv
<1>8. CASE FreeElem
  BY <1>8, FreeElemInv
<1>9. ASSUME NEW x \in Var, caseBorrow(x) PROVE IInv'
  BY <1>9, CaseBorrowInv
<1>10. ASSUME NEW x \in Var, caseReuse(x) PROVE IInv'
  BY <1>10, CaseReuseInv
<1>11. ASSUME NEW x \in Var, fillReuse(x) PROVE IInv'
  BY <1>11, FillReuseInv
<1>12. ASSUME NEW x \in Var, removeReuseConstructor(x) PROVE IInv'
  BY <1>12, RemoveReuseConstructorInv
<1>13. ASSUME NEW x \in Var, NEW f \in Var, applyPartial(x, f) PROVE IInv'
  BY <1>13, ApplyPartialInv
<1>14. ASSUME NEW f \in Var, applySaturated(f) PROVE IInv'
  BY <1>14, ApplySaturatedInv
<1>15. ASSUME NEW X \in SUBSET Var, tailCall(X) PROVE IInv'
  BY <1>15, TailCallInv
<1>16. CASE trampolineReturn
  BY <1>16, TrampolineReturnInv
<1>17. ASSUME NEW x \in Var, NEW v \in Var, newIORef(x, v) PROVE IInv'
  BY <1>17, NewIORefInv
<1>18. ASSUME NEW x \in Var, NEW w \in Var, readIORef(x, w) PROVE IInv'
  BY <1>18, ReadIORefInv
<1>19. ASSUME NEW w \in Var, NEW v \in Var, writeIORef(w, v) PROVE IInv'
  BY <1>19, WriteIORefInv
<1>20. ASSUME NEW x \in Var, NEW v \in Var, NEW n \in Sizes, newArray(x, n, v) PROVE IInv'
  BY <1>20, NewArrayInv
<1>21. ASSUME NEW x \in Var, NEW w \in Var, NEW i \in Sizes, arrayGet(x, w, i) PROVE IInv'
  BY <1>21, ArrayGetInv
<1>22. ASSUME NEW w \in Var, NEW v \in Var, NEW i \in Sizes, arraySet(w, i, v) PROVE IInv'
  BY <1>22, ArraySetInv
<1>23. CASE arrayStore
  BY <1>23, ArrayStoreInv
<1>24. ASSUME NEW x \in Var, NEW p \in Var, NEW f \in Var, onCollect(x, p, f) PROVE IInv'
  BY <1>24, OnCollectInv
<1>25. CASE runFinaliser
  BY <1>25, RunFinaliserInv
<1> QED
  BY <1>1, <1>2, <1>3, <1>4, <1>5, <1>6, <1>7, <1>8, <1>9, <1>10, <1>11, <1>12, <1>13,
     <1>14, <1>15, <1>16, <1>17, <1>18, <1>19, <1>20, <1>21, <1>22, <1>23, <1>24, <1>25
     DEF Next

\* The invariant holds in every state of every program that shares no closure
\* up to the maximum count.
THEOREM HeapInvariant == ASSUME Unsaturated PROVE Spec => []IInv
<1>1. IInv /\ [Next]_vars => IInv'
  BY NextInv
<1> QED
  BY InitInv, <1>1, PTL DEF Spec

\* Counters stay within 0..RefMax, the runtime within its stack, slots hold
\* addresses, for any heap.
THEOREM HeapTypeCorrect == ASSUME Unsaturated PROVE Spec => []TypeOK
<1>1. IInv => TypeOK
  BY DEF IInv
<1> QED
  BY HeapInvariant, <1>1, PTL

\* No slot ever refers to memory given back to free(), whatever order locals,
\* cascades, closures, finalisers and array updates come in.
THEOREM HeapNoDangling == ASSUME Unsaturated PROVE Spec => []NoDangling
<1>1. IInv => NoDangling
  <2> SUFFICES ASSUME IInv, NEW s \in Slot, ref[s] # Null PROVE rc[ref[s]] # 0
    BY DEF NoDangling
  <2>1. rc[ref[s]] \in 1..RefMax
    BY InvExact, Alive
  <2> QED
    BY <2>1, HeapAssumption
<1> QED
  BY HeapInvariant, <1>1, PTL

\* Below the maximum a counter is the number of references, in every
\* intermediate state of every operation.
THEOREM HeapCountExact == ASSUME Unsaturated PROVE Spec => []CountExact
<1>1. IInv => CountExact
  BY HeapAssumption DEF IInv, Counted, CountExact
<1> QED
  BY HeapInvariant, <1>1, PTL

\* What idris2_removeReference destroys and idris2_trampoline has dispatched
\* belongs to that activation alone, and dispatched closures are empty.
THEOREM HeapSoleOwner == ASSUME Unsaturated PROVE Spec => []SoleOwner
<1>1. IInv => SoleOwner
  BY DEF IInv, Frames, FrameOK, Owing, HandedOver, SoleOwner, Full
<1> QED
  BY HeapInvariant, <1>1, PTL

-----------------------------------------------------------------------------
(* Immortal objects. *)

\* A counter at its maximum stays there when references are added.
LEMMA NewRefsImmortal ==
  ASSUME NEW c \in [Addr -> 0..RefMax], NEW r, NEW m, DOMAIN m \subseteq Slot,
         NEW a \in Addr, c[a] = RefMax
  PROVE  NewRefs(c, r, m)[a] = RefMax
<1> DEFINE T == {t \in DOMAIN m : r[m[t]] = a}
<1>1. T \subseteq Slot
  OBVIOUS
<1>2. IsFiniteSet(T)
  BY <1>1, SlotFinite, FS_Subset
<1>3. Cardinality(T) \in Nat
  BY <1>2, FS_CardinalityType
<1>4. NewRefs(c, r, m)[a] = Bump(c[a], Cardinality(T))
  BY DEF NewRefs
<1> HIDE DEF T
<1> QED
  BY <1>3, <1>4, HeapAssumption DEF Bump

\* idris2_removeReference ignores an immortal object.
LEMMA RemoveImmortal ==
  ASSUME NEW r, NEW c, DOMAIN c = Addr, NEW f, NEW s, NEW d, Remove(r, c, f, s, d),
         NEW a \in Addr, c[a] = RefMax
  PROVE  rc'[a] = RefMax
<1>1. CASE rc' = c
  BY <1>1
<1>2. CASE rc' # c
  <2>1. c[r[s]] # RefMax /\ rc' = [c EXCEPT ![r[s]] = @ - 1]
    BY <1>2 DEF Remove, Destroy, Decrement
  <2> QED
    BY <2>1
<1> QED
  BY <1>1, <1>2

\* An application consumes one reference to a closure that is not immortal.
LEMMA TailcallImmortal ==
  ASSUME IInv, Unsaturated, NEW s \in Slot, ref[s] # Null, obj[ref[s]].tag = "closure",
         NEW b \in Addr, rc[b] = 0, Shared(TailcallCount(s, b)),
         NEW a \in Addr, rc[a] = RefMax
  PROVE  TailcallCount(s, b)[a] = RefMax
<1> DEFINE e == ref[s]
           old == FieldsOf(b, e, 1..obj[e].size)
<1>1. e \in Addr /\ rc[e] \in 1..RefMax /\ rc \in [Addr -> 0..RefMax] /\ a # b /\ e # b
  <2>1. e \in Addr /\ rc[e] \in 1..RefMax
    BY InvExact, Alive
  <2> QED
    BY <2>1, HeapAssumption DEF IInv, TypeOK
<1>2. DOMAIN old \subseteq Slot
  <2>1. obj[e].size \in 0..MaxFields
    BY <1>1 DEF IInv, TypeOK, Object
  <2>2. 1..obj[e].size \subseteq Field
    BY <2>1, HeapAssumption DEF Field
  <2> QED
    BY <2>2, SlotKinds DEF FieldsOf
<1>3. TailcallCount(s, b) = IF Unshared(e) THEN [rc EXCEPT ![e] = 0, ![b] = 1]
                            ELSE [NewRefs(rc, ref, old) EXCEPT ![e] = @ - 1, ![b] = 1]
  BY DEF TailcallCount
<1> HIDE DEF old, e
<1>4. CASE Unshared(e)
  <2>1. e # a
    BY <1>4, HeapAssumption DEF Unshared
  <2> QED
    BY <1>1, <1>3, <1>4, <2>1
<1>5. CASE ~Unshared(e)
  <2>1. NewRefs(rc, ref, old)[a] = RefMax
    BY <1>1, <1>2, NewRefsImmortal
  <2>2. \A x \in Addr : TailcallCount(s, b)[x] =
           IF x = b THEN 1 ELSE IF x = e THEN NewRefs(rc, ref, old)[x] - 1
                           ELSE NewRefs(rc, ref, old)[x]
    BY <1>1, <1>3, <1>5 DEF NewRefs
  <2>3. e # a
    <3> SUFFICES ASSUME e = a PROVE FALSE
      OBVIOUS
    <3>1. TailcallCount(s, b)[a] = RefMax - 1
      BY <1>1, <2>1, <2>2
    <3>2. TailcallCount(s, b)[a] <= ClosureCap
      BY DEF Shared, e
    <3> QED
      BY <3>1, <3>2, HeapAssumption DEF Unsaturated
  <2> QED
    BY <1>1, <2>1, <2>2, <2>3
<1> QED
  BY <1>4, <1>5

\* writeIORef adds a reference to the new value and removes one of the old.
LEMMA WriteImmortal ==
  ASSUME IInv, NEW w \in Var, NEW v \in Var, writeIORef(w, v),
         NEW a \in Addr, rc[a] = RefMax
  PROVE  rc'[a] = RefMax
<1>1. ref[V(w)] \in Addr
  BY InvExact, Alive, SlotKinds DEF writeIORef, Is, Mine
<1> DEFINE e == ref[V(w)]
           r1 == Move(ref, [s \in {K(depth + 1)} |-> F(e, 1)])
           m  == [s \in {F(e, 1)} |-> V(v)]
           c  == NewRefs(rc, r1, m)
<1>2. Remove(Copy(r1, m), c, frame, K(depth + 1), depth)
  BY DEF writeIORef
<1>3. 1 \in Field
  BY HeapAssumption DEF Field
<1>4. DOMAIN m \subseteq Slot
  BY <1>1, <1>3, SlotKinds
<1>5. c[a] = RefMax
  BY <1>4, NewRefsImmortal DEF IInv, TypeOK
<1>6. DOMAIN c = Addr
  BY DEF NewRefs
<1> HIDE DEF r1, m, c
<1> QED
  BY <1>2, <1>5, <1>6, RemoveImmortal

\* So does a step that stores new references and allocates.
LEMMA SharedImmortal ==
  ASSUME IInv, NEW r, NEW m, DOMAIN m \subseteq Slot, NEW b \in Addr, rc[b] = 0,
         rc' = [NewRefs(rc, r, m) EXCEPT ![b] = 1], NEW a \in Addr, rc[a] = RefMax
  PROVE  rc'[a] = RefMax
<1>1. NewRefs(rc, r, m)[a] = RefMax
  BY NewRefsImmortal DEF IInv, TypeOK
<1>2. a # b
  BY HeapAssumption
<1> QED
  BY <1>1, <1>2 DEF NewRefs

\* newIORef and newArray.
LEMMA AllocateSharedImmortal ==
  ASSUME IInv, NEW x \in Var, NEW v \in Var, NEW cell, NEW I \in SUBSET Field,
         AllocateShared(x, cell, I, v), NEW a \in Addr, rc[a] = RefMax
  PROVE  rc'[a] = RefMax
<1>1. PICK b \in Addr : /\ rc[b] = 0
                        /\ rc' = [NewRefs(rc, ref, [s \in {F(b, i) : i \in I} |-> V(v)])
                                    EXCEPT ![b] = 1]
  BY DEF AllocateShared
<1>2. DOMAIN [s \in {F(b, i) : i \in I} |-> V(v)] \subseteq Slot
  BY SlotKinds
<1> QED
  BY <1>1, <1>2, SharedImmortal

\* onCollect.
LEMMA OnCollectImmortal ==
  ASSUME IInv, NEW x \in Var, NEW p \in Var, NEW f \in Var, onCollect(x, p, f),
         NEW a \in Addr, rc[a] = RefMax
  PROVE  rc'[a] = RefMax
<1>1. PICK b \in Addr : /\ rc[b] = 0
                        /\ rc' = [NewRefs(rc, ref, [s \in {F(b, 1)} |-> V(p)]) EXCEPT ![b] = 1]
  BY DEF onCollect
<1>2. 1 \in Field
  BY HeapAssumption DEF Field
<1>3. DOMAIN [s \in {F(b, 1)} |-> V(p)] \subseteq Slot
  BY <1>2, SlotKinds
<1> QED
  BY <1>1, <1>3, SharedImmortal

\* What is freed is not immortal.
LEMMA FreeImmortal ==
  ASSUME IInv, FreeElem \/ trampolineReturn \/ \E x \in Var : removeReuseConstructor(x),
         NEW a \in Addr, rc[a] = RefMax
  PROVE  rc'[a] = RefMax
<1>0. rc \in [Addr -> 0..RefMax] /\ RefMax # 1
  BY HeapAssumption DEF IInv, TypeOK
<1>1. CASE FreeElem
  <2>1. rc[Dying] = 1 /\ rc' = [rc EXCEPT ![Dying] = 0]
    BY <1>1, DyingFacts DEF FreeElem
  <2> QED
    BY <1>0, <2>1
<1>2. CASE trampolineReturn
  <2>1. depth > 0 /\ frame[depth].op = "trampoline"
        /\ rc' = [rc EXCEPT ![ref[K(depth)]] = @ - 1]
    BY <1>2 DEF trampolineReturn
  <2>2. rc[ref[K(depth)]] = 1
    BY <2>1, Stack DEF FrameOK, Owing
  <2> QED
    BY <1>0, <2>1, <2>2
<1>3. ASSUME NEW x \in Var, removeReuseConstructor(x) PROVE rc'[a] = RefMax
  <2>1. ref[V(x)] # Null /\ obj[ref[V(x)]].tag = "reuse"
        /\ rc' = [rc EXCEPT ![ref[V(x)]] = @ - 1]
    BY <1>3 DEF removeReuseConstructor, Is, Mine
  <2>2. ref[V(x)] \in Addr
    BY <2>1, InvExact, Alive, SlotKinds
  <2>3. rc[ref[V(x)]] = 1
    BY <2>1, <2>2 DEF IInv, Reuse
  <2> QED
    BY <1>0, <2>1, <2>3
<1> QED
  BY <1>1, <1>2, <1>3

\* Applications and finalisers.
LEMMA ApplyImmortal ==
  ASSUME IInv, Unsaturated,
         \/ \E x, f \in Var : applyPartial(x, f)
         \/ \E f \in Var : applySaturated(f)
         \/ runFinaliser,
         NEW a \in Addr, rc[a] = RefMax
  PROVE  rc'[a] = RefMax
<1>1. ASSUME NEW x \in Var, NEW f \in Var, applyPartial(x, f) PROVE rc'[a] = RefMax
  <2>1. V(f) \in Slot /\ ref[V(f)] # Null /\ obj[ref[V(f)]].tag = "closure"
    BY <1>1, SlotKinds DEF applyPartial, Is, Mine
  <2>2. PICK b \in Addr : rc[b] = 0 /\ rc' = TailcallCount(V(f), b) /\ Shared(rc')
    BY <1>1 DEF applyPartial
  <2>3. Shared(TailcallCount(V(f), b))
    BY <2>2 DEF Shared
  <2> QED
    BY <2>1, <2>2, <2>3, TailcallImmortal
<1>2. ASSUME NEW f \in Var, applySaturated(f) PROVE rc'[a] = RefMax
  <2>1. V(f) \in Slot /\ ref[V(f)] # Null /\ obj[ref[V(f)]].tag = "closure"
    BY <1>2, SlotKinds DEF applySaturated, Is, Mine
  <2>2. PICK b \in Addr : rc[b] = 0 /\ rc' = TailcallCount(V(f), b) /\ Shared(rc')
    BY <1>2 DEF applySaturated
  <2>3. Shared(TailcallCount(V(f), b))
    BY <2>2 DEF Shared
  <2> QED
    BY <2>1, <2>2, <2>3, TailcallImmortal
<1>3. ASSUME runFinaliser PROVE rc'[a] = RefMax
  <2>1. Dying \in Addr /\ 3 \in Field
    BY <1>3, DyingFacts, HeapAssumption DEF runFinaliser, Field
  <2>2. /\ F(Dying, 3) \in Slot /\ ref[F(Dying, 3)] # Null
        /\ obj[ref[F(Dying, 3)]].tag = "closure"
    BY <1>3, <2>1, SlotKinds DEF runFinaliser, Finalised, IInv, Finalisers, Finaliser
  <2>3. PICK b \in Addr : rc[b] = 0 /\ rc' = TailcallCount(F(Dying, 3), b) /\ Shared(rc')
    BY <1>3 DEF runFinaliser
  <2>4. Shared(TailcallCount(F(Dying, 3), b))
    BY <2>3 DEF Shared
  <2> QED
    BY <2>2, <2>3, <2>4, TailcallImmortal
<1> QED
  BY <1>1, <1>2, <1>3

\* Copies: the counters after newReference, caseBorrow and the reads.
LEMMA CopyImmortal ==
  ASSUME IInv,
         \/ \E x, y \in Var : newReference(x, y)
         \/ \E x \in Var : caseBorrow(x)
         \/ \E x, w \in Var : readIORef(x, w)
         \/ \E x, w \in Var, i \in Sizes : arrayGet(x, w, i)
         \/ arrayStore,
         NEW a \in Addr, rc[a] = RefMax
  PROVE  rc'[a] = RefMax
<1>0. rc \in [Addr -> 0..RefMax]
  BY DEF IInv, TypeOK
<1>1. ASSUME NEW x \in Var, NEW y \in Var, newReference(x, y) PROVE rc'[a] = RefMax
  <2>1. rc' = NewRefs(rc, ref, [s \in {V(y)} |-> V(x)])
    BY <1>1 DEF newReference
  <2>2. DOMAIN [s \in {V(y)} |-> V(x)] \subseteq Slot
    BY SlotKinds
  <2> QED
    BY <1>0, <2>1, <2>2, NewRefsImmortal
<1>2. ASSUME NEW x \in Var, caseBorrow(x) PROVE rc'[a] = RefMax
  <2>1. ref[V(x)] \in Addr
    BY <1>2, InvExact, Alive, SlotKinds DEF caseBorrow, Is, Mine
  <2>2. PICK I \in SUBSET Full(ref, ref[V(x)]) : \E ps \in Params(ref, I) :
           rc' = NewRefs(rc, ref, ToVars(ref[V(x)], ps))
    BY <1>2 DEF caseBorrow
  <2>3. PICK ps \in Params(ref, I) : rc' = NewRefs(rc, ref, ToVars(ref[V(x)], ps))
    BY <2>2
  <2>4. I \in SUBSET Field
    BY DEF Full
  <2>5. DOMAIN ToVars(ref[V(x)], ps) \subseteq Slot
    BY <2>1, <2>4, Bound DEF Fills
  <2> QED
    BY <1>0, <2>3, <2>5, NewRefsImmortal
<1>3. ASSUME NEW x \in Var, NEW b, NEW i, Read(x, b, i) PROVE rc'[a] = RefMax
  <2>1. rc' = NewRefs(rc, ref, [s \in {V(x)} |-> F(b, i)])
    BY <1>3 DEF Read
  <2>2. DOMAIN [s \in {V(x)} |-> F(b, i)] \subseteq Slot
    BY SlotKinds
  <2> QED
    BY <1>0, <2>1, <2>2, NewRefsImmortal
<1>4. ASSUME NEW x \in Var, NEW w \in Var, readIORef(x, w) PROVE rc'[a] = RefMax
  BY <1>3, <1>4 DEF readIORef
<1>5. ASSUME NEW x \in Var, NEW w \in Var, NEW i \in Sizes, arrayGet(x, w, i)
      PROVE  rc'[a] = RefMax
  <2>1. CASE rc' = rc
    BY <2>1
  <2>2. CASE rc' # rc
    BY <1>3, <1>5, <2>2 DEF arrayGet
  <2> QED
    BY <2>1, <2>2
<1>6. ASSUME arrayStore PROVE rc'[a] = RefMax
  <2> DEFINE act == frame[depth]
             S == IF act.val = Null THEN {} ELSE {F(act.arr, act.idx)}
  <2>1. rc' = NewRefs(rc, ref, [s \in S |-> V(act.val)])
    BY <1>6 DEF arrayStore
  <2>2. depth > 0 /\ act.op = "arraySet"
    BY <1>6 DEF arrayStore
  <2>3. act.arr \in Addr /\ act.idx \in Field
    BY <2>2, Stack DEF FrameOK, Setting, Activation
  <2>4. DOMAIN [s \in S |-> V(act.val)] \subseteq Slot
    BY <2>3, SlotKinds
  <2> QED
    BY <1>0, <2>1, <2>4, NewRefsImmortal
<1> QED
  BY <1>1, <1>2, <1>4, <1>5, <1>6

\* Allocation uses an address that is free.
LEMMA NewImmortal ==
  ASSUME IInv,
         \/ \E x \in Var : newValue(x)
         \/ \E x \in Var, n \in Sizes : newConstructor(x, n)
         \/ \E x \in Var, ar \in Sizes, n \in {0} \cup Sizes : mkClosure(x, ar, n)
         \/ \E X \in SUBSET Var : tailCall(X),
         NEW a \in Addr, rc[a] = RefMax
  PROVE  rc'[a] = RefMax
<1>1. PICK b \in Addr : rc[b] = 0 /\ rc' = [rc EXCEPT ![b] = 1]
  BY DEF newValue, newConstructor, mkClosure, Allocate, tailCall
<1> QED
  BY <1>1, HeapAssumption DEF IInv, TypeOK

\* Removals.
LEMMA DropImmortal ==
  ASSUME IInv,
         \/ \E x \in Var : removeReference(x)
         \/ RemoveField
         \/ \E w, v \in Var, i \in Sizes : arraySet(w, i, v),
         NEW a \in Addr, rc[a] = RefMax
  PROVE  rc'[a] = RefMax
<1>1. CASE rc' = rc
  BY <1>1
<1>2. CASE rc' # rc
  <2>1. \E f, s, d : Remove(ref, rc, f, s, d)
    <3>1. ASSUME NEW x \in Var, removeReference(x) PROVE Remove(ref, rc, frame, V(x), depth)
      BY <3>1 DEF removeReference
    <3>2. ASSUME RemoveField PROVE \E i : Remove(ref, rc, frame, F(Dying, i), depth)
      BY <3>2 DEF RemoveField
    <3>3. ASSUME NEW w \in Var, NEW v \in Var, NEW i \in Sizes, arraySet(w, i, v)
          PROVE  \E f : Remove(ref, rc, f, F(ref[V(w)], i), depth + 1)
      BY <1>2, <3>3 DEF arraySet
    <3> QED
      BY <3>1, <3>2, <3>3
  <2> QED
    BY <2>1, RemoveImmortal DEF IInv, TypeOK
<1> QED
  BY <1>1, <1>2

\* "An object that reaches the maximum reference count is immortal": no
\* sequence of drops, applications and finalisers brings its counter down, as
\* long as no closure is shared so often that its own counter gets there.
THEOREM HeapImmortalized == ASSUME Unsaturated PROVE Spec => Immortalized
<1>1. ASSUME IInv, [Next]_vars
      PROVE  [\A a \in Addr : rc[a] = RefMax => rc'[a] = RefMax]_vars
  <2> SUFFICES ASSUME Next, NEW a \in Addr, rc[a] = RefMax PROVE rc'[a] = RefMax
    BY <1>1
  <2>1. CASE \E x \in Var : caseReuse(x) \/ fillReuse(x)
    BY <2>1 DEF caseReuse, fillReuse
  <2>2. ASSUME NEW w \in Var, NEW v \in Var, writeIORef(w, v) PROVE rc'[a] = RefMax
    BY <1>1, <2>2, WriteImmortal
  <2>3. ASSUME NEW x \in Var, NEW v \in Var, newIORef(x, v) PROVE rc'[a] = RefMax
    <3>1. {1} \in SUBSET Field
      BY HeapAssumption DEF Field
    <3> QED
      BY <1>1, <2>3, <3>1, AllocateSharedImmortal DEF newIORef
  <2>4. ASSUME NEW x \in Var, NEW v \in Var, NEW n \in Sizes, newArray(x, n, v)
        PROVE  rc'[a] = RefMax
    <3>1. 1..n \in SUBSET Field
      BY HeapAssumption DEF Field
    <3> QED
      BY <1>1, <2>4, <3>1, AllocateSharedImmortal DEF newArray
  <2>5. ASSUME NEW x \in Var, NEW p \in Var, NEW f \in Var, onCollect(x, p, f)
        PROVE  rc'[a] = RefMax
    BY <1>1, <2>5, OnCollectImmortal
  <2>6. CASE FreeElem \/ trampolineReturn \/ \E x \in Var : removeReuseConstructor(x)
    BY <1>1, <2>6, FreeImmortal
  <2>7. CASE \/ \E x, f \in Var : applyPartial(x, f)
             \/ \E f \in Var : applySaturated(f)
             \/ runFinaliser
    BY <1>1, <2>7, ApplyImmortal
  <2>8. CASE \/ \E x, y \in Var : newReference(x, y)
             \/ \E x \in Var : caseBorrow(x)
             \/ \E x, w \in Var : readIORef(x, w)
             \/ \E x, w \in Var, i \in Sizes : arrayGet(x, w, i)
             \/ arrayStore
    BY <1>1, <2>8, CopyImmortal
  <2>9. CASE \/ \E x \in Var : newValue(x)
             \/ \E x \in Var, n \in Sizes : newConstructor(x, n)
             \/ \E x \in Var, ar \in Sizes, n \in {0} \cup Sizes : mkClosure(x, ar, n)
             \/ \E X \in SUBSET Var : tailCall(X)
    BY <1>1, <2>9, NewImmortal
  <2>10. CASE \/ \E x \in Var : removeReference(x)
              \/ RemoveField
              \/ \E w, v \in Var, i \in Sizes : arraySet(w, i, v)
    BY <1>1, <2>10, DropImmortal
  <2> QED
    BY <2>1, <2>2, <2>3, <2>4, <2>5, <2>6, <2>7, <2>8, <2>9, <2>10 DEF Next
<1> QED
  BY HeapInvariant, <1>1, PTL DEF Spec, Immortalized

-----------------------------------------------------------------------------
(***************************************************************************)
(* Leaks.  Nothing but the invariant is needed: a live object that is not  *)
(* held has a live holder, and going back from holder to holder in a       *)
(* finite heap ends at a held object or in a cycle.                        *)
(***************************************************************************)

\* Every set of numbers has a least one.
LEMMA LeastNumber ==
  ASSUME NEW T, T \subseteq Nat, T # {} PROVE \E n \in T : \A m \in T : n <= m
<1> DEFINE R == {p \in Nat \X Nat : p[1] < p[2]}
<1>1. IsWellFoundedOn(R, Nat)
  BY NatLessThanWellFounded DEF OpToRel
<1>2. \A m, n \in Nat : <<m, n>> \in R <=> m < n
  OBVIOUS
<1> HIDE DEF R
<1>3. PICK n \in T : \A m \in T : ~ (<<m, n>> \in R)
  BY <1>1, WFMin
<1>4. \A m \in T : ~ (m < n)
  BY <1>2, <1>3
<1> QED
  BY <1>3, <1>4

\* Induction, for the numbers that are members of a set.
LEMMA Inductive ==
  ASSUME NEW T, 0 \in T, \A n \in Nat : n \in T => n + 1 \in T PROVE Nat \subseteq T
<1> SUFFICES ASSUME Nat \ T # {} PROVE FALSE
  OBVIOUS
<1>1. PICK n \in Nat \ T : \A m \in Nat \ T : n <= m
  BY LeastNumber
<1>2. n - 1 \in Nat /\ ~ (n <= n - 1) /\ (n - 1) + 1 = n
  <2>1. n # 0
    OBVIOUS
  <2> QED
    BY <2>1
<1>3. n - 1 \in T
  BY <1>1, <1>2
<1> QED
  BY <1>2, <1>3

-----------------------------------------------------------------------------
(* What is reachable. *)

\* Out, as a relation.
LEMMA OutOf ==
  ASSUME NEW S, TypeOK, S \subseteq Addr
  PROVE  /\ Out(S) \subseteq Addr
         /\ \A a \in S, i \in Field : ref[F(a, i)] # Null => ref[F(a, i)] \in Out(S)
         /\ \A b \in Out(S) : \E a \in S, i \in Field : b = ref[F(a, i)] /\ b # Null
BY SlotKinds DEF Out, TypeOK, Ref

\* Reach satisfies its recursion.
LEMMA ReachSteps ==
  ASSUME NEW S
  PROVE  \E u : /\ u = [n \in 0..Cardinality(Addr) |->
                          IF n = 0 THEN S ELSE u[n - 1] \cup Out(u[n - 1])]
                /\ Reach(S) = u[Cardinality(Addr)]
<1> DEFINE Upto(u, m) == u = [n \in 0..m |-> IF n = 0 THEN S ELSE u[n - 1] \cup Out(u[n - 1])]
           T == {m \in Nat : \E u : Upto(u, m)}
<1>0. Cardinality(Addr) \in Nat
  BY HeapAssumption, FS_CardinalityType
<1>1. 0 \in T
  <2> DEFINE u == [n \in 0..0 |-> S]
  <2>1. Upto(u, 0)
    OBVIOUS
  <2> QED
    BY <2>1
<1>2. ASSUME NEW m \in Nat, m \in T PROVE m + 1 \in T
  <2>1. PICK u : Upto(u, m)
    BY <1>2
  <2> DEFINE w == [n \in 0..m + 1 |-> IF n = m + 1 THEN u[m] \cup Out(u[m]) ELSE u[n]]
  <2>2. Upto(w, m + 1)
    <3>1. \A n \in 0..m : w[n] = u[n]
      OBVIOUS
    <3>2. \A n \in 0..m : u[n] = IF n = 0 THEN S ELSE u[n - 1] \cup Out(u[n - 1])
      BY <2>1, Zenon
    <3>3. ASSUME NEW n \in 0..m + 1
          PROVE  w[n] = IF n = 0 THEN S ELSE w[n - 1] \cup Out(w[n - 1])
      <4>1. CASE n = 0
        <5>1. 0 \in 0..m
          OBVIOUS
        <5>2. u[0] = S
          BY <3>2, <5>1, Zenon
        <5> QED
          BY <3>1, <4>1, <5>1, <5>2
      <4>2. CASE n = m + 1
        <5>1. w[n] = u[m] \cup Out(u[m]) /\ w[n - 1] = u[m] /\ n # 0
          BY <3>1, <4>2
        <5> QED
          BY <5>1
      <4>3. CASE n \in 1..m
        <5>1. w[n] = u[n] /\ w[n - 1] = u[n - 1] /\ u[n] = u[n - 1] \cup Out(u[n - 1]) /\ n # 0
          <6>1. n \in 0..m /\ n - 1 \in 0..m /\ n # 0
            BY <4>3
          <6>2. u[n] = u[n - 1] \cup Out(u[n - 1])
            BY <3>2, <6>1
          <6> QED
            BY <3>1, <6>1, <6>2
        <5> QED
          BY <5>1
      <4> QED
        BY <4>1, <4>2, <4>3
    <3> QED
      BY <3>3, Zenon
  <2> HIDE DEF w
  <2> QED
    BY <2>2
<1>3. PICK u : Upto(u, Cardinality(Addr))
  <2> HIDE DEF T
  <2>1. Cardinality(Addr) \in T
    BY <1>0, <1>1, <1>2, Inductive
  <2> QED
    BY <2>1 DEF T
<1> DEFINE h == CHOOSE w : Upto(w, Cardinality(Addr))
<1>4. Upto(h, Cardinality(Addr))
  BY <1>3, Zenon
<1>5. Reach(S) = h[Cardinality(Addr)]
  BY Zenon DEF Reach
<1> QED
  BY <1>4, <1>5, Zenon

\* Reach(S) contains S and is closed under Out: one address at least is added
\* by every iteration that does not end it.
LEMMA ReachClosed ==
  ASSUME TypeOK, NEW S, S \subseteq Addr
  PROVE  /\ S \subseteq Reach(S) /\ Reach(S) \subseteq Addr
         /\ Out(Reach(S)) \subseteq Reach(S)
<1> DEFINE N == Cardinality(Addr)
<1>0. N \in Nat
  BY HeapAssumption, FS_CardinalityType
<1>1. PICK u : /\ u = [n \in 0..N |-> IF n = 0 THEN S ELSE u[n - 1] \cup Out(u[n - 1])]
               /\ Reach(S) = u[N]
  BY ReachSteps
<1>2. /\ u[0] = S
      /\ \A n \in 0..N : n + 1 \in 0..N => u[n + 1] = u[n] \cup Out(u[n])
  <2> HIDE DEF N
  <2>1. \A n \in 0..N : u[n] = IF n = 0 THEN S ELSE u[n - 1] \cup Out(u[n - 1])
    BY <1>1, Zenon
  <2>2. ASSUME NEW n \in 0..N, n + 1 \in 0..N PROVE u[n + 1] = u[n] \cup Out(u[n])
    <3>1. n + 1 # 0 /\ (n + 1) - 1 = n
      BY <1>0
    <3>2. u[n + 1] = u[(n + 1) - 1] \cup Out(u[(n + 1) - 1])
      BY <2>1, <2>2, <3>1, Zenon
    <3> QED
      BY <3>1, <3>2, Zenon
  <2>3. u[0] = S
    <3>1. 0 \in 0..N
      BY <1>0
    <3> QED
      BY <2>1, <3>1, Zenon
  <2> QED
    BY <2>2, <2>3
<1> DEFINE Grows(n) == /\ S \subseteq u[n] /\ u[n] \subseteq Addr
                       /\ Out(u[n]) \subseteq u[n] \/ Cardinality(u[n]) >= n
           T == {n \in Nat : n \in 0..N => Grows(n)}
<1> HIDE DEF N
<1>3. 0 \in T
  <2>1. Cardinality(S) \in Nat
    BY HeapAssumption, FS_Subset, FS_CardinalityType
  <2> QED
    BY <1>2, <2>1
<1>4. ASSUME NEW n \in Nat, n \in T, n + 1 \in 0..N PROVE Grows(n + 1)
  <2>1. n \in 0..N /\ Grows(n) /\ u[n + 1] = u[n] \cup Out(u[n])
    BY <1>2, <1>4, <1>0
  <2> DEFINE X == u[n]
  <2>2. S \subseteq X /\ X \subseteq Addr /\ (Out(X) \subseteq X \/ Cardinality(X) >= n)
    BY <2>1
  <2>3. Out(X) \subseteq Addr
    BY <2>2, OutOf
  <2> HIDE DEF X
  <2>4. CASE Out(X) \subseteq X
    <3>1. X \cup Out(X) = X
      BY <2>4
    <3> QED
      BY <2>1, <2>2, <2>4, <3>1 DEF X
  <2>5. CASE ~ (Out(X) \subseteq X)
    <3>1. PICK b \in Out(X) : b \notin X
      BY <2>5
    <3>2. IsFiniteSet(X \cup Out(X)) /\ IsFiniteSet(X) /\ IsFiniteSet(X \cup {b})
      BY <2>2, <2>3, <3>1, HeapAssumption, FS_Subset
    <3>3. Cardinality(X \cup {b}) = Cardinality(X) + 1 /\ Cardinality(X) \in Nat
      BY <3>1, <3>2, FS_AddElement, FS_CardinalityType
    <3>4. Cardinality(X \cup {b}) <= Cardinality(X \cup Out(X)) /\ Cardinality(X \cup Out(X)) \in Nat
      BY <3>1, <3>2, FS_Subset, FS_CardinalityType
    <3>5. Cardinality(X \cup Out(X)) >= n + 1
      BY <2>2, <2>5, <3>3, <3>4
    <3> QED
      BY <2>1, <2>2, <2>3, <3>5 DEF X
  <2> QED
    BY <2>4, <2>5
<1>5. N \in T
  <2>1. \A n \in Nat : n \in T => n + 1 \in T
    BY <1>4
  <2> HIDE DEF T
  <2> QED
    BY <1>0, <1>3, <2>1, Inductive
<1>6. Grows(N)
  BY <1>0, <1>5
<1>7. CASE Cardinality(u[N]) >= N
  <2>1. u[N] \subseteq Addr /\ Cardinality(u[N]) <= Cardinality(Addr) /\ Cardinality(u[N]) \in Nat
    BY <1>6, HeapAssumption, FS_Subset, FS_CardinalityType
  <2>2. Cardinality(u[N]) = Cardinality(Addr)
    BY <1>0, <1>7, <2>1 DEF N
  <2>3. u[N] = Addr
    BY <2>1, <2>2, HeapAssumption, FS_Subset
  <2>4. Out(Addr) \subseteq Addr
    BY OutOf
  <2> QED
    BY <1>1, <1>6, <2>3, <2>4
<1> QED
  BY <1>1, <1>6, <1>7

\* If every member of a finite set of objects is referred to by a member, one
\* of them reaches itself: the one that the fewest members reach.
LEMMA CycleAmong ==
  ASSUME TypeOK, NEW L, L \subseteq Addr, L # {},
         \A a \in L : \E b \in L, i \in Field : ref[F(b, i)] = a
  PROVE  \E a \in L : a \in Reach(Out({a}))
<1> SUFFICES ASSUME \A a \in L : a \notin Reach(Out({a})) PROVE FALSE
  OBVIOUS
<1> DEFINE P(a) == {b \in L : a \in Reach(Out({b}))}
           T == {Cardinality(P(a)) : a \in L}
<1>1. ASSUME NEW a \in L PROVE IsFiniteSet(P(a)) /\ Cardinality(P(a)) \in Nat
  <2>1. P(a) \subseteq Addr
    OBVIOUS
  <2> QED
    BY <2>1, HeapAssumption, FS_Subset, FS_CardinalityType
<1>2. PICK a \in L : \A b \in L : Cardinality(P(a)) <= Cardinality(P(b))
  <2> HIDE DEF P
  <2>1. T \subseteq Nat /\ T # {}
    BY <1>1
  <2>2. PICK n \in T : \A m \in T : n <= m
    <3> HIDE DEF T
    <3> QED
      BY <2>1, LeastNumber
  <2>3. PICK a \in L : n = Cardinality(P(a))
    BY <2>2
  <2>4. \A b \in L : Cardinality(P(b)) \in T
    OBVIOUS
  <2>5. \A b \in L : Cardinality(P(a)) <= Cardinality(P(b))
    BY <2>2, <2>3, <2>4
  <2> QED
    BY <2>5
<1>3. PICK b \in L, i \in Field : ref[F(b, i)] = a
  OBVIOUS
<1>4. a \in Out({b}) /\ a # Null
  <2>1. a # Null /\ {b} \subseteq Addr
    BY HeapAssumption
  <2> QED
    BY <1>3, <2>1, OutOf
<1>5. ASSUME NEW c \in L PROVE Out({c}) \subseteq Reach(Out({c})) /\ Out(Reach(Out({c}))) \subseteq Reach(Out({c})) /\ Reach(Out({c})) \subseteq Addr
  <2>1. {c} \subseteq Addr
    OBVIOUS
  <2>2. Out({c}) \subseteq Addr
    BY <2>1, OutOf
  <2> QED
    BY <2>2, ReachClosed
<1>6. b \in P(a)
  BY <1>4, <1>5
<1>7. P(b) \subseteq P(a)
  <2> SUFFICES ASSUME NEW c \in L, b \in Reach(Out({c})) PROVE a \in Reach(Out({c}))
    OBVIOUS
  <2>1. a \in Out(Reach(Out({c})))
    BY <1>3, <1>4, <1>5, OutOf
  <2> QED
    BY <1>5, <2>1
<1>8. b \notin P(b)
  OBVIOUS
<1>9. Cardinality(P(b)) < Cardinality(P(a))
  <2> HIDE DEF P
  <2>1. Cardinality(P(b)) <= Cardinality(P(a)) /\ Cardinality(P(a)) \in Nat /\ Cardinality(P(b)) \in Nat
    BY <1>1, <1>7, FS_Subset
  <2>2. Cardinality(P(b)) # Cardinality(P(a))
    BY <1>1, <1>6, <1>7, <1>8, FS_Subset
  <2> QED
    BY <2>1, <2>2
<1>10. Cardinality(P(a)) \in Nat /\ Cardinality(P(b)) \in Nat
  BY <1>1
<1>11. Cardinality(P(a)) <= Cardinality(P(b))
  BY <1>2
<1> HIDE DEF P
<1> QED
  BY <1>9, <1>10, <1>11

\* An object that is alive, mortal and not held by a local or an activation
\* is referred to by a field of an object that is alive.
LEMMA HasHolder ==
  ASSUME IInv, NEW a \in Addr, rc[a] # 0, rc[a] # RefMax,
         \A x \in Var : ref[V(x)] # a, \A k \in Frame : ref[K(k)] # a
  PROVE  \E b \in Addr, i \in Field : rc[b] # 0 /\ ref[F(b, i)] = a
<1>1. Cardinality(RefsTo(ref, a)) # 0
  BY InvExact DEF Exact, Counted
<1>2. RefsTo(ref, a) # {}
  BY <1>1, FS_EmptySet
<1>3. PICK s \in Slot : ref[s] = a
  BY <1>2 DEF RefsTo
<1>4. PICK b \in Addr, i \in Field : s = F(b, i)
  BY <1>3, SlotKinds
<1>5. rc[b] # 0
  BY <1>3, <1>4, HeapAssumption DEF IInv, Shape
<1> QED
  BY <1>3, <1>4, <1>5

\* The objects that nothing held or cyclic reaches would be such a set.
LEMMA LeakState == ASSUME IInv PROVE OnlyCyclesLeak
<1> DEFINE held == {a \in Addr : rc[a] = RefMax \/ (\E x \in Var : ref[V(x)] = a)
                                  \/ (\E k \in Frame : ref[K(k)] = a)}
           cyclic == {a \in Addr : a \in Reach(Out({a}))}
           R == Reach(held \cup cyclic)
           L == {a \in Addr : rc[a] # 0} \ R
<1>1. TypeOK
  BY DEF IInv
<1>2. held \cup cyclic \subseteq R /\ Out(R) \subseteq R /\ R \subseteq Addr
  <2>1. held \cup cyclic \subseteq Addr
    OBVIOUS
  <2> QED
    BY <1>1, <2>1, ReachClosed
<1> HIDE DEF R
<1>3. \A a \in L : \E b \in L, i \in Field : ref[F(b, i)] = a
  <2> SUFFICES ASSUME NEW a \in L PROVE \E b \in L, i \in Field : ref[F(b, i)] = a
    OBVIOUS
  <2>1. a \in Addr /\ rc[a] # 0 /\ a \notin held /\ a \notin R
    BY <1>2
  <2>2. PICK b \in Addr, i \in Field : rc[b] # 0 /\ ref[F(b, i)] = a
    BY <2>1, HasHolder
  <2>3. b \notin R
    <3> SUFFICES ASSUME b \in R PROVE FALSE
      OBVIOUS
    <3>1. a # Null
      BY HeapAssumption
    <3>2. a \in Out(R)
      BY <1>1, <1>2, <2>2, <3>1, OutOf
    <3> QED
      BY <1>2, <2>1, <3>2
  <2> QED
    BY <2>2, <2>3
<1>4. L \cap cyclic = {}
  BY <1>2
<1>5. L = {}
  <2> SUFFICES ASSUME L # {} PROVE FALSE
    OBVIOUS
  <2> HIDE DEF L
  <2>1. L \subseteq Addr
    BY DEF L
  <2>2. PICK a \in L : a \in Reach(Out({a}))
    BY <1>1, <1>3, <2>1, CycleAmong
  <2> QED
    BY <1>4, <2>1, <2>2
<1>6. {a \in Addr : rc[a] # 0} \subseteq R
  BY <1>5
<1> QED
  BY <1>6 DEF R, OnlyCyclesLeak

\* Reference counting gives every object back that is not part of a cycle or
\* reachable from one: what is allocated is reachable from a local, from an
\* activation of the runtime, from an immortal object or from an object that
\* reaches itself, in every state of every program.
THEOREM HeapOnlyCyclesLeak == ASSUME Unsaturated PROVE Spec => []OnlyCyclesLeak
<1>1. IInv => OnlyCyclesLeak
  BY LeakState
<1> QED
  BY HeapInvariant, <1>1, PTL

=============================================================================
