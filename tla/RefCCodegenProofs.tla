------------------------- MODULE RefCCodegenProofs -------------------------
(***************************************************************************)
(* Proofs about RefCCodegen: the reference counting instructions of any    *)
(* body over any sets of variables and constructors, of any nesting.       *)
(*                                                                         *)
(* The Env is exact because an enclosing let knows what it has lent: the   *)
(* references of its body are neither owned nor consumed by its value.     *)
(* Cells do not meet because a let keeps for its body only the names that  *)
(* its value cannot build.                                                 *)
(***************************************************************************)
EXTENDS RefCCodegen, FiniteSetTheorems, TLAPS

CodegenTyped ==
    /\ pc \in {"entry", "body", "done"}
    /\ fv \subseteq Var /\ uc \subseteq Con
    /\ owned \subseteq Var /\ reuse \subseteq Con /\ nil \subseteq Var
    /\ ctx \in Seq(Context)
    /\ credit \in [Var -> Int] /\ cell \in [Con -> 0..1]

\* Before the first instruction every argument holds one reference.
Entered == pc = "entry" =>
    /\ ctx = <<>> /\ owned = {} /\ reuse = {}
    /\ \A v \in Var : credit[v] = 0 \/ credit[v] = 1
    /\ \A v \in fv : credit[v] = 1
    /\ \A n \in Con : cell[n] = 0

\* The body of a let owns the variable it binds exactly when it uses it.
Binds == \A i \in DOMAIN ctx : ctx[i].var \in ctx[i].owned <=> ctx[i].var \in ctx[i].fv

\* No constructor of the part in progress, nor of the body of an inner let, has
\* a cell that the body of an outer let waits for.
Apart == /\ \A i \in DOMAIN ctx : ctx[i].reuse \cap uc = {}
         /\ \A i, j \in DOMAIN ctx : i < j => ctx[i].reuse \cap ctx[j].uc = {}

\* A cell that is kept has a name that stands for it.
Kept == \A n \in Con : cell[n] = 1 => n \in reuse \/ \E i \in DOMAIN ctx : n \in ctx[i].reuse

\* The bodies the counting is exact for: no closure is applied to itself, no
\* external primitive is the last use of a variable or keeps a borrowed one, and
\* a match that reuses its cell ignores no field.
Plain == ~SelfApply /\ ~LastUseExt /\ ~BorrowedExt /\ ~IgnoreFields
Exact == Plain => OwnedExact

CodegenInv == /\ CodegenTyped /\ Entered /\ Binds /\ Apart /\ Kept
              /\ Exact /\ Backed /\ DroppedEarly

-----------------------------------------------------------------------------
(* The stack of lets. *)

LEMMA Depth ==
  ASSUME CodegenTyped
  PROVE  /\ Len(ctx) \in Nat /\ DOMAIN ctx = 1..Len(ctx)
         /\ \A i \in DOMAIN ctx : ctx[i] \in Context
BY DEF CodegenTyped

LEMMA PendingFinite ==
  ASSUME CodegenTyped, NEW v
  PROVE  IsFiniteSet(Pending(v)) /\ Cardinality(Pending(v)) \in Nat /\ Pending(v) \subseteq DOMAIN ctx
<1>1. Pending(v) \subseteq 1..Len(ctx)
  BY Depth DEF Pending
<1>2. IsFiniteSet(1..Len(ctx))
  BY Depth, FS_Interval
<1>3. IsFiniteSet(Pending(v))
  BY <1>1, <1>2, FS_Subset
<1> QED
  BY <1>1, <1>3, Depth, FS_CardinalityType

\* A let is entered.
LEMMA Push ==
  ASSUME CodegenTyped, NEW e \in Context, ctx' = Append(ctx, e)
  PROVE  /\ ctx' \in Seq(Context) /\ DOMAIN ctx' = DOMAIN ctx \cup {Len(ctx) + 1}
         /\ \A i \in DOMAIN ctx : ctx'[i] = ctx[i] /\ i < Len(ctx) + 1
         /\ ctx'[Len(ctx) + 1] = e /\ Len(ctx) + 1 \notin DOMAIN ctx
BY DEF CodegenTyped

\* The innermost let is left.
LEMMA Pop ==
  ASSUME CodegenTyped, ctx # <<>>, ctx' = SubSeq(ctx, 1, Len(ctx) - 1)
  PROVE  /\ ctx' \in Seq(Context) /\ DOMAIN ctx' = DOMAIN ctx \ {Len(ctx)}
         /\ \A i \in DOMAIN ctx' : ctx'[i] = ctx[i] /\ i < Len(ctx)
         /\ Len(ctx) \in DOMAIN ctx /\ ctx[Len(ctx)] \in Context
BY DEF CodegenTyped

LEMMA PendingPush ==
  ASSUME CodegenTyped, NEW e \in Context, ctx' = Append(ctx, e), NEW v
  PROVE  /\ Pending(v)' = Pending(v) \cup (IF v \in e.owned \ {e.var} THEN {Len(ctx) + 1} ELSE {})
         /\ Cardinality(Pending(v)') = Cardinality(Pending(v)) + Count(v \in e.owned \ {e.var})
<1>1. Pending(v)' = Pending(v) \cup (IF v \in e.owned \ {e.var} THEN {Len(ctx) + 1} ELSE {})
  BY Push DEF Pending
<1>2. Len(ctx) + 1 \notin Pending(v)
  BY Push, PendingFinite
<1>3. CASE v \in e.owned \ {e.var}
  <2>1. Cardinality(Pending(v) \cup {Len(ctx) + 1}) = Cardinality(Pending(v)) + 1
    BY <1>2, PendingFinite, FS_AddElement
  <2> QED
    BY <1>1, <1>3, <2>1 DEF Count
<1>4. CASE v \notin e.owned \ {e.var}
  <2>1. Pending(v)' = Pending(v)
    BY <1>1, <1>4
  <2>2. Cardinality(Pending(v)') = Cardinality(Pending(v))
    BY <2>1
  <2>3. Count(v \in e.owned \ {e.var}) = 0
    BY <1>4 DEF Count
  <2>4. Cardinality(Pending(v)) \in Nat
    BY PendingFinite
  <2> QED
    BY <1>1, <2>2, <2>3, <2>4
<1> QED
  BY <1>3, <1>4

LEMMA PendingPop ==
  ASSUME CodegenTyped, ctx # <<>>, ctx' = SubSeq(ctx, 1, Len(ctx) - 1), NEW v
  PROVE  LET e == ctx[Len(ctx)]
         IN /\ Pending(v)' = Pending(v) \ {Len(ctx)}
            /\ Cardinality(Pending(v)) = Cardinality(Pending(v)') + Count(v \in e.owned \ {e.var})
<1> DEFINE e == ctx[Len(ctx)]
<1>1. Pending(v)' = Pending(v) \ {Len(ctx)}
  BY Pop DEF Pending
<1>2. Len(ctx) \in Pending(v) <=> v \in e.owned \ {e.var}
  BY Pop DEF Pending
<1> HIDE DEF e
<1>3. CASE v \in e.owned \ {e.var}
  <2>1. Cardinality(Pending(v) \ {Len(ctx)}) = Cardinality(Pending(v)) - 1
    BY <1>2, <1>3, PendingFinite, FS_RemoveElement
  <2> QED
    BY <1>1, <1>3, <2>1, PendingFinite DEF Count, e
<1>4. CASE v \notin e.owned \ {e.var}
  <2>1. Pending(v)' = Pending(v)
    BY <1>1, <1>2, <1>4
  <2>2. Cardinality(Pending(v)') = Cardinality(Pending(v))
    BY <2>1
  <2>3. Count(v \in e.owned \ {e.var}) = 0
    BY <1>4 DEF Count
  <2>4. Cardinality(Pending(v)) \in Nat
    BY PendingFinite
  <2> QED
    BY <1>1, <2>2, <2>3, <2>4 DEF e
<1> QED
  BY <1>3, <1>4

LEMMA PendingSame ==
  ASSUME UNCHANGED ctx, NEW v PROVE Pending(v)' = Pending(v)
BY DEF Pending

-----------------------------------------------------------------------------
(* Leaves.  A leaf consumes what the Env owns; what is left of the credit is *)
(* what the enclosing lets have lent.                                        *)

Spent(c) == c \in [Var -> Int] /\ \A v \in Var : c[v] = Cardinality(Pending(v))

\* The value goes back to the caller, or into the variable of the innermost let.
LEMMA FinishInv ==
  ASSUME CodegenInv, pc = "body", NEW c \in [Var -> Int], Plain => Spent(c), Finish(c),
         cell' \in [Con -> 0..1],
         \A n \in Con : cell'[n] = 1 => \E i \in DOMAIN ctx : n \in ctx[i].reuse
  PROVE  CodegenInv'
<1>0. CodegenTyped
  BY DEF CodegenInv
<1>1. CASE ctx = <<>>
  <2>1. /\ pc' = "done" /\ credit' = c /\ fv' = {} /\ uc' = {}
        /\ owned' = {} /\ reuse' = {} /\ nil' = {} /\ ctx' = <<>> /\ DOMAIN ctx' = {}
    BY <1>1 DEF Finish
  <2>2. CodegenTyped' /\ Entered' /\ Binds' /\ Apart' /\ Backed' /\ DroppedEarly'
    BY <2>1 DEF CodegenTyped, Entered, Binds, Apart, Backed, DroppedEarly
  <2>3. Kept'
    BY <1>1, <2>1 DEF Kept
  <2>4. Exact'
    <3> SUFFICES ASSUME Plain, NEW v \in Var
                 PROVE  credit'[v] = Count(v \in owned') + Cardinality(Pending(v)')
      BY DEF Exact, OwnedExact
    <3>1. Pending(v)' = Pending(v)
      BY <1>1, <2>1, PendingSame
    <3> QED
      BY <1>0, <2>1, <3>1, PendingFinite DEF Spent, Count
  <2> QED
    BY <2>2, <2>3, <2>4 DEF CodegenInv
<1>2. CASE ctx # <<>>
  <2> DEFINE e == ctx[Len(ctx)]
  <2>1. /\ pc' = "body" /\ fv' = e.fv /\ uc' = e.uc
        /\ credit' = [c EXCEPT ![e.var] = @ + Count(e.var \in e.fv)]
        /\ owned' = e.owned /\ reuse' = e.reuse /\ nil' = e.nil
        /\ ctx' = SubSeq(ctx, 1, Len(ctx) - 1)
    BY <1>2 DEF Finish
  <2>2. /\ ctx' \in Seq(Context) /\ DOMAIN ctx' = DOMAIN ctx \ {Len(ctx)}
        /\ \A i \in DOMAIN ctx' : ctx'[i] = ctx[i] /\ i < Len(ctx)
        /\ Len(ctx) \in DOMAIN ctx /\ e \in Context
    BY <1>0, <1>2, <2>1, Pop
  <2>3. /\ e.var \in Var /\ e.fv \subseteq Var /\ e.uc \subseteq Con /\ e.owned \subseteq Var
        /\ e.reuse \subseteq Con /\ e.nil \subseteq Var
    BY <2>2 DEF Context
  <2>4. /\ e.var \in e.owned <=> e.var \in e.fv
        /\ e.owned \subseteq e.fv /\ e.reuse \subseteq e.uc
    BY <2>2 DEF CodegenInv, Binds, DroppedEarly
  <2>5. ASSUME NEW v \in Var
        PROVE  /\ Pending(v)' = Pending(v) \ {Len(ctx)}
               /\ Cardinality(Pending(v)) = Cardinality(Pending(v)') + Count(v \in e.owned \ {e.var})
    BY <1>0, <1>2, <2>1, PendingPop
  <2>6. \A i \in DOMAIN ctx' : ctx[i].reuse \cap e.uc = {}
    BY <2>2 DEF CodegenInv, Apart
  <2>7. \A v \in e.fv \ ({e.var} \cup e.nil) : v \in e.owned \/ \E j \in Pending(v) : j < Len(ctx)
    BY <2>2 DEF CodegenInv, Backed
  <2> HIDE DEF e
  <2>8. CodegenTyped'
    <3>1. credit' \in [Var -> Int]
      BY <2>1, <2>3 DEF Count
    <3> QED
      BY <2>1, <2>2, <2>3, <3>1 DEF CodegenTyped
  <2>9. Entered' /\ Binds' /\ DroppedEarly' /\ Apart'
    BY <2>1, <2>2, <2>4, <2>6 DEF CodegenInv, Entered, Binds, DroppedEarly, Apart
  <2>10. Kept'
    <3> SUFFICES ASSUME NEW n \in Con, cell'[n] = 1
                 PROVE  n \in reuse' \/ \E i \in DOMAIN ctx' : n \in ctx'[i].reuse
      BY DEF Kept
    <3>1. PICK i \in DOMAIN ctx : n \in ctx[i].reuse
      OBVIOUS
    <3> QED
      BY <2>1, <2>2, <3>1 DEF e
  <2>11. Exact'
    <3> SUFFICES ASSUME Plain, NEW v \in Var
                 PROVE  credit'[v] = Count(v \in owned') + Cardinality(Pending(v)')
      BY DEF Exact, OwnedExact
    <3>1. c[v] = Cardinality(Pending(v)') + Count(v \in e.owned \ {e.var}) /\ c[v] \in Int
      BY <2>5 DEF Spent
    <3>2. Cardinality(Pending(v)') \in Nat
      BY <1>0, <2>5, PendingFinite, FS_RemoveElement, FS_CardinalityType
    <3>3. CASE v = e.var
      BY <2>1, <2>3, <2>4, <3>1, <3>2, <3>3 DEF Count, Spent
    <3>4. CASE v # e.var
      BY <2>1, <2>3, <2>4, <3>1, <3>2, <3>4 DEF Count, Spent
    <3> QED
      BY <3>3, <3>4
  <2>12. Backed'
    <3>1. ASSUME NEW v \in fv' \ nil' PROVE v \in owned' \/ Pending(v)' # {}
      <4>1. v \in Var /\ v \in e.fv /\ v \notin e.nil
        BY <2>1, <2>3
      <4>2. v = e.var \/ v \in e.owned \/ \E j \in Pending(v) : j < Len(ctx)
        BY <2>7, <4>1
      <4> QED
        BY <2>1, <2>2, <2>4, <2>5, <4>1, <4>2
    <3>2. ASSUME NEW i \in DOMAIN ctx', NEW v \in ctx'[i].fv \ ({ctx'[i].var} \cup ctx'[i].nil)
          PROVE  v \in ctx'[i].owned \/ \E j \in Pending(v)' : j < i
      <4>1. ctx'[i] = ctx[i] /\ i \in DOMAIN ctx /\ i < Len(ctx)
        BY <2>2
      <4>2. v \in Var
        BY <1>0, <4>1, Depth DEF Context
      <4>3. v \in ctx[i].owned \/ \E j \in Pending(v) : j < i
        BY <4>1 DEF CodegenInv, Backed
      <4>4. ASSUME NEW j \in Pending(v), j < i PROVE j # Len(ctx)
        <5>1. j \in Nat /\ i \in Nat /\ Len(ctx) \in Nat
          BY <1>0, <4>1, Depth, PendingFinite
        <5> QED
          BY <4>1, <4>4, <5>1
      <4> QED
        BY <2>5, <4>1, <4>2, <4>3, <4>4
    <3> QED
      BY <3>1, <3>2 DEF Backed
  <2> QED
    BY <2>8, <2>9, <2>10, <2>11, <2>12 DEF CodegenInv
<1> QED
  BY <1>1, <1>2

\* What every form of leaf expression takes: the references the Env owns.
LEMMA OwnedSpent ==
  ASSUME CodegenInv, pc = "body", NEW c \in [Var -> Int],
         \A v \in Var : c[v] = credit[v] - Count(v \in owned)
  PROVE  Plain => Spent(c)
<1> SUFFICES ASSUME Plain, NEW v \in Var PROVE c[v] = Cardinality(Pending(v))
  BY DEF Spent
<1>1. credit[v] = Count(v \in owned) + Cardinality(Pending(v))
  BY DEF CodegenInv, Exact, OwnedExact
<1>2. Cardinality(Pending(v)) \in Nat
  BY PendingFinite DEF CodegenInv
<1>3. Count(v \in owned) \in Nat
  BY DEF Count
<1> QED
  BY <1>1, <1>2, <1>3

LEMMA RemovedSpent ==
  ASSUME CodegenInv, pc = "body"
  PROVE  /\ removeVars(credit, owned) \in [Var -> Int]
         /\ Plain => Spent(removeVars(credit, owned))
<1> DEFINE c == removeVars(credit, owned)
<1>1. c \in [Var -> Int]
  BY DEF removeVars, CodegenInv, CodegenTyped
<1>2. ASSUME NEW v \in Var PROVE c[v] = credit[v] - Count(v \in owned)
  BY DEF removeVars, CodegenInv, CodegenTyped, Count
<1> HIDE DEF c
<1>3. Plain => Spent(c)
  BY <1>1, <1>2, OwnedSpent
<1> QED
  BY <1>1, <1>3 DEF c

LEMMA CreditSpent ==
  ASSUME CodegenInv, pc = "body", Plain => owned = {}
  PROVE  credit \in [Var -> Int] /\ (Plain => Spent(credit))
<1>1. credit \in [Var -> Int]
  BY DEF CodegenInv, CodegenTyped
<1> SUFFICES ASSUME Plain PROVE Spent(credit)
  BY <1>1
<1>2. ASSUME NEW v \in Var PROVE credit[v] = credit[v] - Count(v \in owned)
  BY <1>1 DEF Count
<1> QED
  BY <1>1, <1>2, OwnedSpent

\* Where no constructor is left to build, no cell is kept here.
LEMMA LeafCells ==
  ASSUME CodegenInv, Leaf, UNCHANGED cell
  PROVE  /\ pc = "body" /\ cell' \in [Con -> 0..1]
         /\ \A n \in Con : cell'[n] = 1 => \E i \in DOMAIN ctx : n \in ctx[i].reuse
BY DEF CodegenInv, CodegenTyped, Kept, DroppedEarly, Leaf

\* Every argument list mentions every free variable, so all that is owned is taken.
LEMMA AllTaken ==
  ASSUME CodegenInv, NEW args \in ArgLists
  PROVE  /\ Taken(args) = owned
         /\ \E n \in Nat : DOMAIN args = 1..n
<1>1. {args[i] : i \in DOMAIN args} = fv /\ owned \subseteq fv
  BY DEF ArgLists, CodegenInv, DroppedEarly
<1>2. Taken(args) = owned
  BY <1>1 DEF Taken
<1>3. PICK n \in 0..MaxArgs : args \in [1..n -> fv]
  BY DEF ArgLists
<1>4. n \in Nat
  BY CodegenAssumption
<1> QED
  BY <1>2, <1>3, <1>4

LEMMA LeafInv ==
  ASSUME CodegenInv,
         \/ variable
         \/ application
         \/ closureApplication
         \/ primitiveOperation
         \/ externalPrimitive
         \/ onCollect
         \/ constant
  PROVE  CodegenInv'
<1>0. /\ pc = "body" /\ cell' \in [Con -> 0..1] /\ owned \subseteq fv
      /\ \A n \in Con : cell'[n] = 1 => \E i \in DOMAIN ctx : n \in ctx[i].reuse
  BY LeafCells DEF variable, application, closureApplication, primitiveOperation,
     externalPrimitive, onCollect, constant, CodegenInv, DroppedEarly
<1>1. credit \in [Var -> Int] /\ fv \subseteq Var
  BY DEF CodegenInv, CodegenTyped
<1> SUFFICES \E c \in [Var -> Int] : (Plain => Spent(c)) /\ Finish(c)
  BY <1>0, FinishInv
<1>2. CASE variable
  <2>1. owned \cap fv = owned
    BY <1>0
  <2>2. Finish(removeVars(credit, owned))
    BY <1>2, <2>1 DEF variable
  <2> QED
    BY <1>0, <2>2, RemovedSpent
<1>3. CASE application
  <2>1. Finish(removeVars(credit, owned))
    BY <1>3, AllTaken DEF application
  <2> QED
    BY <1>0, <2>1, RemovedSpent
<1>4. CASE closureApplication
  <2>1. PICK x, a \in fv :
           /\ fv = {x, a} /\ (x = a => SelfApply)
           /\ Finish([v \in Var |-> credit[v] - Count(v = x /\ x \in owned)
                                             - Count(v = a /\ a \in owned)])
    BY <1>4 DEF closureApplication
  <2> DEFINE c == [v \in Var |-> credit[v] - Count(v = x /\ x \in owned)
                                          - Count(v = a /\ a \in owned)]
  <2>2. c \in [Var -> Int]
    BY <1>1 DEF Count
  <2>3. Plain => x # a
    BY <2>1, Zenon DEF Plain
  <2>4. ASSUME Plain, NEW v \in Var PROVE c[v] = credit[v] - Count(v \in owned)
    BY <1>0, <1>1, <2>1, <2>3, <2>4 DEF Count
  <2>5. Finish(c)
    BY <2>1
  <2> HIDE DEF c
  <2>6. Plain => Spent(c)
    BY <1>0, <2>2, <2>4, OwnedSpent
  <2> QED
    BY <2>2, <2>5, <2>6
<1>5. CASE primitiveOperation
  <2>1. PICK args \in ArgLists :
           LET uses(v) == Cardinality({i \in DOMAIN args : args[i] = v})
               passed == [v \in Var |-> credit[v] + uses(v) - Count(v \in Taken(args))]
           IN Finish([v \in Var |-> passed[v] - uses(v)])
    BY <1>5 DEF primitiveOperation
  <2> DEFINE uses(v) == Cardinality({i \in DOMAIN args : args[i] = v})
             passed == [v \in Var |-> credit[v] + uses(v) - Count(v \in Taken(args))]
             c == [v \in Var |-> passed[v] - uses(v)]
  <2>2. Finish(c)
    BY <2>1
  <2>3. ASSUME NEW v \in Var PROVE uses(v) \in Nat
    <3>1. PICK n \in Nat : DOMAIN args = 1..n
      BY AllTaken
    <3>2. IsFiniteSet(1..n)
      BY FS_Interval
    <3> QED
      BY <3>1, <3>2, FS_Subset, FS_CardinalityType
  <2> HIDE DEF uses
  <2>4. ASSUME NEW v \in Var PROVE c[v] = credit[v] - Count(v \in owned) /\ c[v] \in Int
    <3>1. Taken(args) = owned /\ credit[v] \in Int /\ uses(v) \in Nat /\ Count(v \in owned) \in Nat
      BY <1>1, <2>3, AllTaken DEF Count
    <3> QED
      BY <3>1
  <2>5. c \in [Var -> Int]
    BY <2>4
  <2> HIDE DEF c
  <2>6. Plain => Spent(c)
    BY <1>0, <2>4, <2>5, OwnedSpent
  <2> QED
    BY <2>2, <2>5, <2>6
<1>6. CASE externalPrimitive
  <2>1. Plain => owned = {}
    BY <1>6, Zenon DEF externalPrimitive, Plain
  <2> QED
    BY <1>0, <1>6, <2>1, CreditSpent DEF externalPrimitive
<1>7. CASE onCollect
  <2>1. PICK p, f \in fv :
           /\ p # f /\ fv = {p, f}
           /\ p \in owned => LastUseExt
           /\ f \notin owned => BorrowedExt
           /\ Finish(removeVars(credit, {f}))
    BY <1>7 DEF onCollect
  <2>2. removeVars(credit, {f}) \in [Var -> Int]
    BY <1>1 DEF removeVars
  <2>3. Plain => p \notin owned /\ f \in owned
    BY <2>1, Zenon DEF Plain
  <2>4. Plain => owned = {f}
    BY <1>0, <2>1, <2>3
  <2>5. Plain => Spent(removeVars(credit, {f}))
    BY <1>0, <2>4, RemovedSpent
  <2> QED
    BY <2>1, <2>2, <2>5
<1>8. CASE constant
  <2>1. owned = {}
    BY <1>0, <1>8 DEF constant
  <2> QED
    BY <1>0, <1>8, <2>1, CreditSpent DEF constant
<1> QED
  BY <1>2, <1>3, <1>4, <1>5, <1>6, <1>7, <1>8

\* A constructor fills the cell of its name; no other cell is kept here.
LEMMA ConstructorInv == ASSUME CodegenInv, constructorValue PROVE CodegenInv'
<1>1. PICK n \in Con : uc = {n} /\ cell' = [cell EXCEPT ![n] = IF n \in reuse THEN 0 ELSE @]
  BY DEF constructorValue
<1>2. pc = "body" /\ cell \in [Con -> 0..1] /\ reuse \subseteq {n}
  BY <1>1 DEF constructorValue, CodegenInv, CodegenTyped, DroppedEarly
<1>3. cell' \in [Con -> 0..1]
  BY <1>1, <1>2
<1>4. ASSUME NEW m \in Con, cell'[m] = 1 PROVE \E i \in DOMAIN ctx : m \in ctx[i].reuse
  BY <1>1, <1>2, <1>4 DEF CodegenInv, Kept
<1>5. Finish(removeVars(credit, owned))
  BY AllTaken DEF constructorValue
<1> QED
  BY <1>2, <1>3, <1>4, <1>5, RemovedSpent, FinishInv

-----------------------------------------------------------------------------
(* Entry, let and branches. *)

LEMMA EntryInv == ASSUME CodegenInv, createCFunctions PROVE CodegenInv'
<1>1. /\ pc' = "body" /\ owned' = fv /\ UNCHANGED <<fv, uc, reuse, nil, ctx, cell>>
      /\ credit' = removeVars(credit, {v \in Var : credit[v] = 1} \ fv)
      /\ ctx = <<>> /\ reuse = {} /\ DOMAIN ctx = {} /\ fv \subseteq Var
      /\ credit \in [Var -> Int] /\ \A v \in Var : credit[v] = 0 \/ credit[v] = 1
      /\ \A v \in fv : credit[v] = 1
      /\ \A n \in Con : cell[n] = 0
  BY DEF createCFunctions, CodegenInv, CodegenTyped, Entered
<1>2. CodegenTyped'
  BY <1>1 DEF CodegenInv, CodegenTyped, removeVars
<1>3. Exact'
  <2> SUFFICES ASSUME Plain, NEW v \in Var
               PROVE  credit'[v] = Count(v \in owned') + Cardinality(Pending(v)')
    BY DEF Exact, OwnedExact
  <2>1. Pending(v)' = {}
    BY <1>1 DEF Pending
  <2>2. Cardinality(Pending(v)') = 0
    BY <2>1, FS_EmptySet
  <2>3. credit'[v] = Count(v \in fv)
    BY <1>1 DEF removeVars, Count
  <2> QED
    BY <1>1, <2>2, <2>3 DEF Count
<1>4. Entered' /\ Binds' /\ Apart' /\ Kept' /\ Backed' /\ DroppedEarly'
  BY <1>1 DEF Entered, Binds, Apart, Kept, Backed, DroppedEarly
<1> QED
  BY <1>2, <1>3, <1>4 DEF CodegenInv

\* What the value of a let may not consume is pending until its body.
LEMMA BindingInv ==
  ASSUME CodegenInv, NEW var \in Var, NEW fvV \in SUBSET fv, NEW ucV \in SUBSET uc,
         binding(var, fvV, ucV)
  PROVE  CodegenInv'
<1>0. CodegenTyped
  BY DEF CodegenInv
<1>1. PICK fvB \in SUBSET (fv \cup {var}), ucB \in SUBSET uc :
         /\ fv = fvV \cup (fvB \ {var}) /\ uc = ucV \cup ucB
         /\ owned' = owned \ borrowVal(fvB, var)
         /\ reuse' = reuse \cap ucV
         /\ ctx' = Append(ctx,
              [var |-> var, fv |-> fvB, uc |-> ucB,
               owned |-> borrowVal(fvB, var) \cup (fvB \cap {var}),
               reuse |-> reuse \ ucV, nil |-> nil \cap fvB])
  BY DEF binding
<1> DEFINE B == borrowVal(fvB, var)
           e == [var |-> var, fv |-> fvB, uc |-> ucB, owned |-> B \cup (fvB \cap {var}),
                 reuse |-> reuse \ ucV, nil |-> nil \cap fvB]
<1>2. /\ pc = "body" /\ fv' = fvV /\ uc' = ucV /\ nil' = nil \cap fvV
      /\ UNCHANGED <<pc, credit, cell>>
  BY DEF binding
<1>3. /\ fv \subseteq Var /\ uc \subseteq Con /\ owned \subseteq Var /\ reuse \subseteq Con
      /\ nil \subseteq Var /\ owned \subseteq fv /\ reuse \subseteq uc
  BY DEF CodegenInv, CodegenTyped, DroppedEarly
<1>4. B = owned \cap (fvB \ {var})
  BY DEF borrowVal
<1>5. ctx' = Append(ctx, e) /\ owned' = owned \ B
  BY <1>1
<1> HIDE DEF B
<1>6. e \in Context
  BY <1>3, <1>4 DEF Context
<1>7. /\ e.var = var /\ e.fv = fvB /\ e.uc = ucB /\ e.owned = B \cup (fvB \cap {var})
      /\ e.reuse = reuse \ ucV /\ e.nil = nil \cap fvB
  OBVIOUS
<1> HIDE DEF e
<1>8. /\ ctx' \in Seq(Context) /\ DOMAIN ctx' = DOMAIN ctx \cup {Len(ctx) + 1}
      /\ \A i \in DOMAIN ctx : ctx'[i] = ctx[i] /\ i < Len(ctx) + 1
      /\ ctx'[Len(ctx) + 1] = e /\ Len(ctx) + 1 \notin DOMAIN ctx
  BY <1>0, <1>5, <1>6, Push
<1>9. ASSUME NEW v
      PROVE  /\ Pending(v)' = Pending(v) \cup (IF v \in B THEN {Len(ctx) + 1} ELSE {})
             /\ Cardinality(Pending(v)') = Cardinality(Pending(v)) + Count(v \in B)
  <2>1. e.owned \ {e.var} = B
    BY <1>4, <1>7
  <2> QED
    BY <1>0, <1>5, <1>6, <2>1, PendingPush
<1>10. CodegenTyped'
  BY <1>0, <1>2, <1>3, <1>1, <1>5, <1>8 DEF CodegenTyped
<1>11. Entered' /\ Binds'
  BY <1>2, <1>4, <1>7, <1>8 DEF CodegenInv, Entered, Binds
<1>12. DroppedEarly'
  <2>1. owned' \subseteq fv' /\ reuse' \subseteq uc'
    BY <1>1, <1>2, <1>3, <1>4, <1>5
  <2>2. e.owned \subseteq e.fv /\ e.reuse \subseteq e.uc
    BY <1>1, <1>3, <1>4, <1>7
  <2> QED
    BY <1>8, <2>1, <2>2 DEF CodegenInv, DroppedEarly
<1>13. Apart'
  <2>1. \A i \in DOMAIN ctx' : ctx'[i].reuse \cap uc' = {}
    BY <1>1, <1>2, <1>7, <1>8 DEF CodegenInv, Apart
  <2>2. ASSUME NEW i \in DOMAIN ctx', NEW j \in DOMAIN ctx', i < j
        PROVE  ctx'[i].reuse \cap ctx'[j].uc = {}
    <3>1. Len(ctx) \in Nat /\ DOMAIN ctx = 1..Len(ctx)
      BY <1>0, Depth
    <3>2. i \in DOMAIN ctx /\ ctx'[i] = ctx[i]
      BY <1>8, <2>2, <3>1
    <3>3. CASE j \in DOMAIN ctx
      BY <1>8, <2>2, <3>2, <3>3 DEF CodegenInv, Apart
    <3>4. CASE j = Len(ctx) + 1
      BY <1>1, <1>7, <1>8, <3>2, <3>4 DEF CodegenInv, Apart
    <3> QED
      BY <1>8, <3>3, <3>4
  <2> QED
    BY <2>1, <2>2 DEF Apart
<1>14. Kept'
  <2> SUFFICES ASSUME NEW n \in Con, cell[n] = 1
               PROVE  n \in reuse' \/ \E i \in DOMAIN ctx' : n \in ctx'[i].reuse
    BY <1>2 DEF Kept
  <2>1. n \in reuse \/ \E i \in DOMAIN ctx : n \in ctx[i].reuse
    BY DEF CodegenInv, Kept
  <2> QED
    BY <1>1, <1>7, <1>8, <2>1
<1>15. Exact'
  <2> SUFFICES ASSUME Plain, NEW v \in Var
               PROVE  credit'[v] = Count(v \in owned') + Cardinality(Pending(v)')
    BY DEF Exact, OwnedExact
  <2>1. credit[v] = Count(v \in owned) + Cardinality(Pending(v))
    BY <1>2 DEF CodegenInv, Exact, OwnedExact
  <2>2. Cardinality(Pending(v)) \in Nat
    BY <1>0, PendingFinite
  <2>3. Count(v \in owned) = Count(v \in owned') + Count(v \in B)
    BY <1>4, <1>5 DEF Count
  <2>4. Count(v \in owned') \in Nat /\ Count(v \in B) \in Nat
    BY DEF Count
  <2> QED
    BY <1>2, <1>9, <2>1, <2>2, <2>3, <2>4
<1>16. Backed'
  <2>1. ASSUME NEW v \in fv' \ nil' PROVE v \in owned' \/ Pending(v)' # {}
    <3>1. v \in fv \ nil
      BY <1>2
    <3>2. v \in owned \/ Pending(v) # {}
      BY <1>2, <3>1 DEF CodegenInv, Backed
    <3>3. CASE v \in owned \ B
      BY <1>5, <3>3
    <3>4. CASE v \in B \/ Pending(v) # {}
      BY <1>9, <3>4
    <3> QED
      BY <3>2, <3>3, <3>4
  <2>2. ASSUME NEW i \in DOMAIN ctx', NEW v \in ctx'[i].fv \ ({ctx'[i].var} \cup ctx'[i].nil)
        PROVE  v \in ctx'[i].owned \/ \E j \in Pending(v)' : j < i
    <3>1. Pending(v) \subseteq Pending(v)'
      BY <1>9
    <3>2. CASE i \in DOMAIN ctx
      BY <1>8, <3>1, <3>2 DEF CodegenInv, Backed
    <3>3. CASE i = Len(ctx) + 1
      <4>1. v \in fvB /\ v # var /\ v \notin nil
        BY <1>7, <1>8, <3>3
      <4>2. v \in fv \ nil
        BY <1>1, <4>1
      <4>3. v \in owned \/ Pending(v) # {}
        BY <1>2, <4>2 DEF CodegenInv, Backed
      <4>4. \A j \in Pending(v) : j < i
        BY <1>0, <1>8, <3>3, PendingFinite
      <4> QED
        BY <1>4, <1>7, <1>8, <3>1, <3>3, <4>1, <4>3, <4>4
    <3> QED
      BY <1>8, <3>2, <3>3
  <2> QED
    BY <2>1, <2>2 DEF Backed
<1> QED
  BY <1>10, <1>11, <1>12, <1>13, <1>14, <1>15, <1>16 DEF CodegenInv

\* A branch goes on with the references of the Env that it needs, and with
\* the fields it takes out of the constructor.
LEMMA BranchInv ==
  ASSUME CodegenInv, pc = "body", UNCHANGED <<pc, ctx>>,
         fv' \subseteq Var, nil' \subseteq Var, uc' \subseteq uc,
         owned' \subseteq fv', reuse' \subseteq uc',
         credit' \in [Var -> Int], cell' \in [Con -> 0..1],
         Plain => \A v \in Var : credit'[v] = credit[v] - Count(v \in owned) + Count(v \in owned'),
         \A v \in fv' \ nil' : v \in owned' \/ (v \in fv \ nil /\ v \notin owned),
         \A n \in Con : cell'[n] = 1 => n \in reuse' \/ (cell[n] = 1 /\ n \notin reuse)
  PROVE  CodegenInv'
<1>0. CodegenTyped
  BY DEF CodegenInv
<1>1. ASSUME NEW v PROVE Pending(v)' = Pending(v)
  BY PendingSame
<1>2. CodegenTyped' /\ Entered' /\ Binds' /\ DroppedEarly' /\ Apart'
  BY <1>0 DEF CodegenInv, CodegenTyped, Entered, Binds, DroppedEarly, Apart
<1>3. Kept'
  BY DEF CodegenInv, Kept
<1>4. Exact'
  <2> SUFFICES ASSUME Plain, NEW v \in Var
               PROVE  credit'[v] = Count(v \in owned') + Cardinality(Pending(v)')
    BY DEF Exact, OwnedExact
  <2>1. credit[v] = Count(v \in owned) + Cardinality(Pending(v))
    BY DEF CodegenInv, Exact, OwnedExact
  <2>2. Cardinality(Pending(v)) \in Nat
    BY <1>0, PendingFinite
  <2>3. Count(v \in owned) \in Nat /\ Count(v \in owned') \in Nat
    BY DEF Count
  <2> QED
    BY <1>1, <2>1, <2>2, <2>3
<1>5. Backed'
  BY <1>1 DEF CodegenInv, Backed
<1> QED
  BY <1>2, <1>3, <1>4, <1>5 DEF CodegenInv

LEMMA DroppedCells ==
  ASSUME CodegenInv, NEW ub
  PROVE  LET c == removeReuseConstructors(reuse \ ub)
         IN /\ c \in [Con -> 0..1]
            /\ \A n \in Con : c[n] = 1 => n \in reuse \cap ub \/ (cell[n] = 1 /\ n \notin reuse)
BY DEF CodegenInv, CodegenTyped, removeReuseConstructors

LEMMA ConcaseInv ==
  ASSUME CodegenInv, NEW fb \in SUBSET fv, NEW ub \in SUBSET uc, concaseBody(fb, ub)
  PROVE  CodegenInv'
<1>1. /\ pc = "body" /\ UNCHANGED <<pc, ctx>> /\ fv' = fb /\ uc' = ub /\ nil' = nil \cap fb
      /\ owned' = owned \cap fb /\ reuse' = reuse \cap ub
      /\ credit' = removeVars(credit, owned \ fb)
      /\ cell' = removeReuseConstructors(reuse \ ub)
  BY DEF concaseBody, dropUnusedOwnedVars
<1>2. fv \subseteq Var /\ nil \subseteq Var /\ credit \in [Var -> Int]
  BY DEF CodegenInv, CodegenTyped
<1>3. credit' \in [Var -> Int]
  BY <1>1, <1>2 DEF removeVars
<1>4. ASSUME NEW v \in Var
      PROVE  credit'[v] = credit[v] - Count(v \in owned) + Count(v \in owned')
  BY <1>1, <1>2 DEF removeVars, Count
<1>5. cell' \in [Con -> 0..1]
      /\ \A n \in Con : cell'[n] = 1 => n \in reuse' \/ (cell[n] = 1 /\ n \notin reuse)
  BY <1>1, DroppedCells
<1>6. \A v \in fv' \ nil' : v \in owned' \/ (v \in fv \ nil /\ v \notin owned)
  BY <1>1
<1> QED
  BY <1>1, <1>2, <1>3, <1>4, <1>5, <1>6, BranchInv

LEMMA ErasedInv ==
  ASSUME CodegenInv, NEW sc \in fv, NEW fb \in SUBSET fv, NEW ub \in SUBSET uc,
         erasedAlternative(sc, fb, ub)
  PROVE  CodegenInv'
<1>1. /\ pc = "body" /\ UNCHANGED <<pc, ctx>> /\ fv' = fb /\ uc' = ub
      /\ nil' = (nil \cup {sc}) \cap fb
      /\ owned' = (owned \ {sc}) \cap fb /\ reuse' = reuse \cap ub
      /\ credit' = removeVars(credit, (owned \ fb) \cup (owned \cap {sc}))
      /\ cell' = removeReuseConstructors(reuse \ ub)
  BY DEF erasedAlternative, dropUnusedOwnedVars
<1>2. fv \subseteq Var /\ nil \subseteq Var /\ credit \in [Var -> Int]
  BY DEF CodegenInv, CodegenTyped
<1>3. credit' \in [Var -> Int]
  BY <1>1, <1>2 DEF removeVars
<1>4. ASSUME NEW v \in Var
      PROVE  credit'[v] = credit[v] - Count(v \in owned) + Count(v \in owned')
  BY <1>1, <1>2 DEF removeVars, Count
<1>5. cell' \in [Con -> 0..1]
      /\ \A n \in Con : cell'[n] = 1 => n \in reuse' \/ (cell[n] = 1 /\ n \notin reuse)
  BY <1>1, DroppedCells
<1>6. \A v \in fv' \ nil' : v \in owned' \/ (v \in fv \ nil /\ v \notin owned)
  BY <1>1
<1> QED
  BY <1>1, <1>2, <1>3, <1>4, <1>5, <1>6, BranchInv

\* Whether the cell is reused or not, and whether it turns out to be unique or
\* not, every field the branch uses is owned, and nothing else is kept.
LEMMA AlternativeInv ==
  ASSUME CodegenInv, NEW sc \in fv, NEW n \in Con, NEW args \in SUBSET Fresh,
         NEW ub \in SUBSET uc, NEW unique \in BOOLEAN, NEW fb \in SUBSET (fv \cup args),
         alternative(sc, n, args, fb, ub, unique)
  PROVE  CodegenInv'
<1> DEFINE withArgs   == owned \cup args
           shouldDrop == withArgs \ fb
           reusing    == n \notin reuse /\ n \in ub /\ sc \in shouldDrop
           dupped     == dupVars(credit, args \ shouldDrop)
<1>1. /\ pc = "body" /\ UNCHANGED <<pc, ctx>> /\ fv' = fb /\ uc' = ub /\ nil' = nil \cap fb
      /\ owned' = withArgs \cap fb
  BY DEF alternative, dropUnusedOwnedVars
<1>2. /\ fv \subseteq Var /\ nil \subseteq Var /\ credit \in [Var -> Int] /\ owned \subseteq fv
      /\ args \subseteq Var /\ args \cap fv = {}
  BY DEF CodegenInv, CodegenTyped, DroppedEarly, Fresh, InScope
<1>3. \A v \in fv' \ nil' : v \in owned' \/ (v \in fv \ nil /\ v \notin owned)
  BY <1>1
<1>4. CASE reusing
  <2>1. /\ unique /\ args \cap shouldDrop # {} => IgnoreFields
        /\ credit' = removeVars(IF unique
                                THEN removeVars(dupVars(credit, args), {sc})
                                ELSE removeVars(dupped, {sc}),
                                shouldDrop \ ({sc} \cup args))
        /\ reuse' = (reuse \cap ub) \cup {n}
        /\ cell' = [removeReuseConstructors(reuse \ ub) EXCEPT ![n] = Count(unique)]
    BY <1>4 DEF alternative
  <2>2. Plain /\ unique => args \cap shouldDrop = {}
    BY <2>1, Zenon DEF Plain
  <2>3. sc \in owned /\ sc \notin fb
    BY <1>2, <1>4
  <2>4. /\ credit' \in [Var -> Int]
        /\ Plain => \A v \in Var : credit'[v] = credit[v] - Count(v \in owned) + Count(v \in owned')
    <3>1. CASE unique
      <4>1. credit' = removeVars(removeVars(dupVars(credit, args), {sc}),
                                 shouldDrop \ ({sc} \cup args))
        BY <2>1, <3>1
      <4> QED
        BY <1>1, <1>2, <2>2, <2>3, <3>1, <4>1 DEF removeVars, dupVars, Count
    <3>2. CASE ~unique
      <4>1. credit' = removeVars(removeVars(dupped, {sc}), shouldDrop \ ({sc} \cup args))
        BY <2>1, <3>2
      <4> QED
        BY <1>1, <1>2, <2>3, <4>1 DEF removeVars, dupVars, Count
    <3> QED
      BY <3>1, <3>2
  <2>5. cell' \in [Con -> 0..1]
        /\ \A m \in Con : cell'[m] = 1 => m \in reuse' \/ (cell[m] = 1 /\ m \notin reuse)
    <3> DEFINE c == removeReuseConstructors(reuse \ ub)
               k == Count(unique)
    <3>1. /\ c \in [Con -> 0..1]
          /\ \A m \in Con : c[m] = 1 => m \in reuse \cap ub \/ (cell[m] = 1 /\ m \notin reuse)
      BY DroppedCells
    <3>2. k \in 0..1
      BY DEF Count
    <3>3. cell' = [c EXCEPT ![n] = k]
      BY <2>1
    <3> HIDE DEF c, k
    <3> QED
      BY <2>1, <3>1, <3>2, <3>3
  <2>6. reuse' \subseteq uc'
    BY <1>1, <1>4, <2>1
  <2> QED
    BY <1>1, <1>2, <1>3, <2>4, <2>5, <2>6, BranchInv
<1>5. CASE ~reusing
  <2>1. /\ credit' = removeVars(dupped, shouldDrop \ args)
        /\ reuse' = reuse \cap ub
        /\ cell' = removeReuseConstructors(reuse \ ub)
    BY <1>5 DEF alternative
  <2>2. credit' \in [Var -> Int]
        /\ \A v \in Var : credit'[v] = credit[v] - Count(v \in owned) + Count(v \in owned')
    BY <1>1, <1>2, <2>1 DEF removeVars, dupVars, Count
  <2>3. cell' \in [Con -> 0..1]
        /\ \A m \in Con : cell'[m] = 1 => m \in reuse' \/ (cell[m] = 1 /\ m \notin reuse)
    BY <2>1, DroppedCells
  <2> QED
    BY <1>1, <1>2, <1>3, <2>1, <2>2, <2>3, BranchInv
<1> QED
  BY <1>4, <1>5

-----------------------------------------------------------------------------
LEMMA InitInv == Init => CodegenInv
<1> SUFFICES ASSUME Init PROVE CodegenInv
  OBVIOUS
<1>1. /\ pc = "entry" /\ fv \subseteq Var /\ uc \subseteq Con
      /\ owned = {} /\ reuse = {} /\ nil = {} /\ ctx = <<>> /\ DOMAIN ctx = {}
      /\ cell = [n \in Con |-> 0]
  BY DEF Init
<1>2. PICK args \in SUBSET Var : fv \subseteq args
                               /\ credit = [v \in Var |-> IF v \in args THEN 1 ELSE 0]
  BY DEF Init
<1>3. CodegenTyped /\ Entered
  BY <1>1, <1>2 DEF CodegenTyped, Entered
<1>4. Binds /\ Apart /\ Kept /\ Exact /\ Backed /\ DroppedEarly
  BY <1>1 DEF Binds, Apart, Kept, Exact, OwnedExact, Backed, DroppedEarly
<1> QED
  BY <1>3, <1>4 DEF CodegenInv

\* Every instruction that cStatementsFromANF emits keeps the invariant.
LEMMA CodegenInductive == Spec => []CodegenInv
<1>1. CodegenInv /\ [Next]_vars => CodegenInv'
  <2> SUFFICES ASSUME CodegenInv, [Next]_vars PROVE CodegenInv'
    OBVIOUS
  <2>1. CASE UNCHANGED vars
    <3>1. \A v : Pending(v)' = Pending(v)
      BY <2>1, PendingSame DEF vars
    <3> QED
      BY <2>1, <3>1 DEF vars, CodegenInv, CodegenTyped, Entered, Binds, Apart, Kept,
         Exact, OwnedExact, Backed, DroppedEarly
  <2>2. CASE createCFunctions
    BY <2>2, EntryInv
  <2>3. CASE constructorValue
    BY <2>3, ConstructorInv
  <2>4. CASE \/ variable \/ application \/ closureApplication \/ primitiveOperation
             \/ externalPrimitive \/ onCollect \/ constant
    BY <2>4, LeafInv
  <2>5. CASE \E var \in Var, fvV \in SUBSET fv, ucV \in SUBSET uc : binding(var, fvV, ucV)
    BY <2>5, BindingInv
  <2>6. CASE \E fb \in SUBSET fv, ub \in SUBSET uc : concaseBody(fb, ub)
    BY <2>6, ConcaseInv
  <2>7. CASE \E sc \in fv, fb \in SUBSET fv, ub \in SUBSET uc : erasedAlternative(sc, fb, ub)
    BY <2>7, ErasedInv
  <2>8. CASE \E sc \in fv, n \in Con, args \in SUBSET Fresh, ub \in SUBSET uc, u \in BOOLEAN :
               \E fb \in SUBSET (fv \cup args) : alternative(sc, n, args, fb, ub, u)
    BY <2>8, AlternativeInv
  <2> QED
    BY <2>1, <2>2, <2>3, <2>4, <2>5, <2>6, <2>7, <2>8 DEF Next
<1> QED
  BY InitInv, <1>1, PTL DEF Spec

\* At every point of the generated code a local holds exactly the references
\* that the Env, or the Env of an enclosing let body, says it owns: nothing is
\* consumed twice and nothing is left at a return.  It holds for bodies that
\* apply no closure to itself, in which no external primitive is the last use
\* of a variable or keeps a borrowed finaliser, and where a match that reuses
\* its cell ignores no field.
THEOREM CodegenOwnedExact ==
  ASSUME ~SelfApply, ~LastUseExt, ~BorrowedExt, ~IgnoreFields PROVE Spec => []OwnedExact
<1>1. CodegenInv => OwnedExact
  BY Zenon DEF CodegenInv, Exact, Plain
<1> QED
  BY <1>1, CodegenInductive, PTL

\* A variable the code uses without owning it is NULL or kept alive by an
\* enclosing let: generated code never reads a local after its last reference.
THEOREM CodegenBacked == Spec => []Backed
<1>1. CodegenInv => Backed
  BY DEF CodegenInv
<1> QED
  BY <1>1, CodegenInductive, PTL

\* dropUnusedOwnedVars drops early: the Env never owns a variable, nor keeps a
\* cell, that the rest of the expression has no use for.
THEOREM CodegenDroppedEarly == Spec => []DroppedEarly
<1>1. CodegenInv => DroppedEarly
  BY DEF CodegenInv
<1> QED
  BY <1>1, CodegenInductive, PTL

\* At most one Env on the stack names a cell, so addReuseConstructor never
\* overwrites one that is kept, and every cell that is kept is filled or freed.
THEOREM CodegenCellExact == Spec => []CellExact
<1>1. CodegenInv => CellExact
  <2> SUFFICES ASSUME CodegenInv, NEW n \in Con
               PROVE  Cardinality({i \in DOMAIN ctx : n \in ctx[i].reuse}) + Count(n \in reuse) <= 1
    BY DEF CellExact, CodegenInv, Kept
  <2> DEFINE D == {i \in DOMAIN ctx : n \in ctx[i].reuse}
  <2>1. Len(ctx) \in Nat /\ DOMAIN ctx = 1..Len(ctx)
    BY Depth DEF CodegenInv
  <2>2. \A i, j \in D : i = j
    <3>1. \A i, j \in D : ~(i < j)
      BY DEF CodegenInv, Apart, DroppedEarly
    <3> QED
      BY <2>1, <3>1
  <2>3. n \in reuse => D = {}
    BY DEF CodegenInv, Apart, DroppedEarly
  <2>4. D = {} \/ \E i : D = {i}
    BY <2>2
  <2> HIDE DEF D
  <2>5. Cardinality(D) = 0 \/ (Cardinality(D) = 1 /\ D # {})
    BY <2>4, FS_EmptySet, FS_Singleton
  <2>6. Cardinality(D) + Count(n \in reuse) <= 1
    <3>1. CASE n \in reuse
      BY <2>3, <3>1, FS_EmptySet DEF Count
    <3>2. CASE n \notin reuse
      BY <2>5, <3>2 DEF Count
    <3> QED
      BY <3>1, <3>2
  <2> QED
    BY <2>6 DEF D
<1> QED
  BY <1>1, CodegenInductive, PTL

=============================================================================
