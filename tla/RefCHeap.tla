------------------------------ MODULE RefCHeap ------------------------------
(***************************************************************************)
(* The heap of the RefC runtime (_/support/refc): reference counted values *)
(* and the operations the generated C code and the primitives apply to     *)
(* them (memoryManagement.c, runtime.c, prim.c, prim.h).                   *)
(*                                                                         *)
(* Every place that can hold a counted reference is a slot: a C local of   *)
(* the generated code (a "var" slot), a field of a heap object (a "fld"    *)
(* slot) or an activation record of the runtime that still owes a          *)
(* reference (a "frm" slot).  Null stands for every value that             *)
(* idris2_newReference and idris2_removeReference ignore: NULL, an unboxed *)
(* integer.  A local that a C function no longer may use holds Null.       *)
(*                                                                         *)
(* The mutator is any program that obeys the calling convention of the     *)
(* generated code: it consumes what it owns at most once, an activation    *)
(* only touches its own locals, and a saturated closure goes nowhere but   *)
(* into idris2_trampoline.  RefCCodegen.tla is about whether the code      *)
(* generator obeys it.                                                     *)
(***************************************************************************)
EXTENDS Integers, FiniteSets

CONSTANTS Addr,        \* the addresses malloc can return
          Var,         \* the C locals that can be live at one time
          Null,        \* NULL and unboxed values
          MaxFields,   \* bound on args[], arr[] and arity
          Kinds,       \* the tags of the objects the program allocates
          Sizes,       \* the totals, lengths and arities it asks for
          MaxDepth,    \* bound on the runtime activations on the C stack
          RefMax,      \* IDRIS2_VP_REFCOUNTER_MAX
          ClosureCap,  \* how often the program shares one closure
          Reentrant    \* whether finalisers access an array slot being set

ASSUME HeapAssumption ==
    /\ IsFiniteSet(Addr) /\ IsFiniteSet(Var)
    /\ Null \notin Addr
    /\ MaxFields \in Nat /\ MaxFields >= 3
    /\ Sizes \subseteq 1..MaxFields
    /\ MaxDepth \in Nat
    /\ RefMax \in Nat /\ RefMax >= 2
    /\ ClosureCap \in Nat
    /\ Reentrant \in BOOLEAN

Field == 1..MaxFields
Frame == 1..MaxDepth
Ref   == Addr \cup {Null}

V(x)    == <<"var", x, 0>>
F(a, i) == <<"fld", a, i>>
K(k)    == <<"frm", k, 0>>
Slot == ({"var"} \X Var \X {0}) \cup ({"fld"} \X Addr \X Field)
          \cup ({"frm"} \X Frame \X {0})

(***************************************************************************)
(* "value" is every tag without fields (integers, strings, pointers,       *)
(* buffers, mutexes, conditions); "reuse" is a constructor cell whose      *)
(* fields have been taken out and that waits to be filled again.           *)
(***************************************************************************)
Tag == {"free", "value", "constructor", "reuse", "closure", "ioref",
        "array", "gcpointer"}
Object   == [tag : Tag, size : 0..MaxFields, arity : 0..MaxFields]
FreeCell == [tag |-> "free", size |-> 0, arity |-> 0]
Cell(t, n, ar) == [tag |-> t, size |-> n, arity |-> ar]

(***************************************************************************)
(* An activation of the runtime: idris2_removeReference in its cascade,    *)
(* idris2_trampoline around the function it dispatched to, prim__arraySet  *)
(* between its removeReference and its store.  arr, idx and val are the    *)
(* arguments of arraySet, own is the local that keeps its array alive.     *)
(***************************************************************************)
Activation == [op  : {"none", "remove", "trampoline", "arraySet"},
               arr : Ref, idx : Field, own : Var \cup {Null},
               val : Var \cup {Null}]
Idle      == [op |-> "none", arr |-> Null, idx |-> 1, own |-> Null, val |-> Null]
InOp(o)   == [Idle EXCEPT !.op = o]

VARIABLES ref,    \* what each slot refers to
          rc,     \* header.refCounter of each address; 0 when not allocated
          obj,    \* header.tag and the sizes of each object
          depth,  \* the number of runtime activations
          frame,  \* those activations, innermost at depth
          lvl,    \* the activation each local belongs to
          stale   \* whether freed or consumed memory has been read

vars == <<ref, rc, obj, depth, frame, lvl, stale>>

Init == /\ ref = [s \in Slot |-> Null]
        /\ rc = [a \in Addr |-> 0]
        /\ obj = [a \in Addr |-> FreeCell]
        /\ depth = 0
        /\ frame = [k \in Frame |-> Idle]
        /\ lvl = [x \in Var |-> 0]
        /\ stale = FALSE

-----------------------------------------------------------------------------
(* Slots and counters. *)

RefsTo(r, a) == {s \in Slot : r[s] = a}

\* args[i] = idris2_newReference(var): slot t gets the reference of slot m[t].
Copy(r, m) == [s \in Slot |-> IF s \in DOMAIN m THEN r[m[s]] ELSE r[s]]

\* args[i] = var: the reference in slot m[t] moves to slot t.
\* Mutant: the local goes on using the reference it gave away.
Move_Kept(r, m) == Copy(r, m)
Move(r, m) == [s \in Slot |->
                 IF s \in DOMAIN m THEN r[m[s]]
                 ELSE IF \E t \in DOMAIN m : m[t] = s THEN Null ELSE r[s]]

\* n successive idris2_newReference on a counter: it stops at RefMax.
\* Mutants: no test for the maximum; a counter that wraps around.
Bump_Unsaturated(c, n) == c + n
Bump_Wraps(c, n) == (c + n) % (RefMax + 1)
Bump(c, n) == IF c + n >= RefMax THEN RefMax ELSE c + n

\* The counters after idris2_newReference of each reference Copy(r, m) adds.
\* Mutant: the reference is stored without idris2_newReference.
NewRefs_Forgotten(c, r, m) == c
NewRefs(c, r, m) ==
    [a \in Addr |-> Bump(c[a], Cardinality({t \in DOMAIN m : r[m[t]] = a}))]

Injective(m) == \A s, t \in DOMAIN m : m[s] = m[t] => s = t

\* Field i of a comes from local as[i]; local x comes from field ps[x] of a;
\* the fields J of a come from the same fields of b.
FromVars(a, as) == [s \in {F(a, i) : i \in DOMAIN as} |-> V(as[s[3]])]
ToVars(a, ps)   == [s \in {V(x) : x \in DOMAIN ps} |-> F(a, ps[s[2]])]
FieldsOf(a, b, J) == [s \in {F(a, i) : i \in J} |-> F(b, s[3])]

Full(r, a) == {i \in Field : r[F(a, i)] # Null}

\* The code of the program runs: no activation, or idris2_trampoline called it.
Running == depth > 0 => frame[depth].op = "trampoline"

Mine(x) == ref[V(x)] # Null /\ lvl[x] = depth

\* A value the code may pass on: not a cell that waits for reuse.
Usable(x) == Mine(x) /\ obj[ref[V(x)]].tag # "reuse"

Is(x, t) == Mine(x) /\ obj[ref[V(x)]].tag = t

\* An argument that is not consumed: one of its values, or NULL.
Given(v) == ref[V(v)] # Null => Usable(v)

\* The owners of the locals after a step: X now belong to activation d.
Owners(r, X, d) ==
    [y \in Var |-> IF r[V(y)] = Null THEN 0 ELSE IF y \in X THEN d ELSE lvl[y]]

\* The sharing of closures the program is assumed to keep to.
Shared(c) == \A a \in Addr : obj[a].tag = "closure" => c[a] <= ClosureCap

\* Argument lists: local as[i] is argument i, every other argument is NULL.
Args(n) == {as \in UNION {[J -> {x \in Var : Usable(x)}] : J \in SUBSET (1..n)} :
              Injective(as)}

\* The ways to bind the fields I of an object to free locals.
Params(r, I) == {ps \in UNION {[X -> I] : X \in SUBSET {x \in Var : r[V(x)] = Null}} :
                   Injective(ps) /\ \A i \in I : \E x \in DOMAIN ps : ps[x] = i}

-----------------------------------------------------------------------------
(* Allocation. *)

\* idris2_newValue and the makers of values without fields.
newValue(x) ==
    /\ Running /\ "value" \in Kinds /\ ref[V(x)] = Null
    /\ \E a \in Addr :
         /\ rc[a] = 0
         /\ ref' = [ref EXCEPT ![V(x)] = a]
         /\ rc' = [rc EXCEPT ![a] = 1]
         /\ obj' = [obj EXCEPT ![a] = Cell("value", 0, 0)]
    /\ lvl' = Owners(ref', {x}, depth)
    /\ UNCHANGED <<depth, frame, stale>>

\* An object whose fields take locals of the caller, assigned to x.
Allocate(x, cell) ==
    /\ Running
    /\ \E a \in Addr, as \in Args(cell.size) :
         LET r1 == Move(ref, FromVars(a, as))
         IN /\ rc[a] = 0
            /\ r1[V(x)] = Null
            /\ ref' = [r1 EXCEPT ![V(x)] = a]
            /\ rc' = [rc EXCEPT ![a] = 1]
            /\ obj' = [obj EXCEPT ![a] = cell]
    /\ lvl' = Owners(ref', {x}, depth)
    /\ UNCHANGED <<depth, frame, stale>>

\* idris2_newConstructor(total) and the fillArgs of its owned arguments.
newConstructor(x, total) ==
    "constructor" \in Kinds /\ Allocate(x, Cell("constructor", total, 0))

\* idris2_mkClosure(f, arity, filled) of an unsaturated call and its fillArgs.
mkClosure(x, arity, filled) ==
    /\ "closure" \in Kinds /\ filled < arity
    /\ Allocate(x, Cell("closure", filled, arity))

-----------------------------------------------------------------------------
(* idris2_newReference and idris2_removeReference. *)

newReference(x, y) ==
    /\ Running /\ Usable(x) /\ ref[V(y)] = Null
    /\ LET m == [s \in {V(y)} |-> V(x)]
       IN /\ ref' = Copy(ref, m)
          /\ rc' = NewRefs(rc, ref, m)
    /\ Shared(rc')
    /\ lvl' = Owners(ref', {y}, depth)
    /\ UNCHANGED <<obj, depth, frame, stale>>

\* idris2_removeReference of the reference in slot s, called with d
\* activations on the stack, when the slots hold r, the counters c and the
\* activations f.  At the last reference the call stays active: it owes the
\* references in the fields of the object, and then free(elem).
Destroy(r, c, f, s, d) ==
    /\ d < MaxDepth
    /\ ref' = [r EXCEPT ![s] = Null, ![K(d + 1)] = r[s]]
    /\ rc' = c
    /\ depth' = d + 1
    /\ frame' = [f EXCEPT ![d + 1] = InOp("remove")]

Decrement(r, c, f, s, d) ==
    /\ ref' = [r EXCEPT ![s] = Null]
    /\ rc' = IF r[s] = Null \/ c[r[s]] = RefMax THEN c ELSE [c EXCEPT ![r[s]] = @ - 1]
    /\ depth' = d
    /\ frame' = f

\* Mutants: the last reference destroys nothing; the object is destroyed one
\* reference too early.
Remove_NoDestroy(r, c, f, s, d) == Decrement(r, c, f, s, d)
Remove_Early(r, c, f, s, d) ==
    IF r[s] # Null /\ c[r[s]] <= 2
    THEN Destroy(r, c, f, s, d) ELSE Decrement(r, c, f, s, d)
Remove(r, c, f, s, d) ==
    IF r[s] # Null /\ c[r[s]] = 1
    THEN Destroy(r, c, f, s, d) ELSE Decrement(r, c, f, s, d)

removeReference(x) ==
    /\ Running /\ Usable(x)
    /\ Remove(ref, rc, frame, V(x), depth)
    /\ lvl' = Owners(ref', {}, depth)
    /\ UNCHANGED <<obj, stale>>

\* The object the innermost activation of idris2_removeReference destroys.
Dying == ref[K(depth)]
Removing == depth > 0 /\ frame[depth].op = "remove"
Finalised(a) == obj[a].tag = "gcpointer" => ref[F(a, 3)] = Null

\* The next recursive call of the cascade, the fields in increasing order.
\* Mutant: the loop ends one field too early.
RemoveField_Short ==
    /\ Removing /\ Finalised(Dying)
    /\ \E i \in Full(ref, Dying) :
         /\ \A j \in Full(ref, Dying) : i <= j
         /\ i < obj[Dying].size
         /\ Remove(ref, rc, frame, F(Dying, i), depth)
    /\ UNCHANGED <<obj, lvl, stale>>
RemoveField ==
    /\ Removing /\ Finalised(Dying)
    /\ \E i \in Full(ref, Dying) :
         /\ \A j \in Full(ref, Dying) : i <= j
         /\ Remove(ref, rc, frame, F(Dying, i), depth)
    /\ UNCHANGED <<obj, lvl, stale>>

\* free(elem) after the cascade.
FreeElem ==
    /\ Removing /\ Full(ref, Dying) = {}
    /\ ref' = [ref EXCEPT ![K(depth)] = Null]
    /\ rc' = [rc EXCEPT ![Dying] = 0]
    /\ obj' = [obj EXCEPT ![Dying] = FreeCell]
    /\ depth' = depth - 1
    /\ frame' = [frame EXCEPT ![depth] = Idle]
    /\ UNCHANGED <<lvl, stale>>

-----------------------------------------------------------------------------
(* Pattern matching in the generated code (RefC.idr, addReuseConstructor). *)

\* dupVars: the fields the branch uses are duplicated, the scrutinee stays.
caseBorrow(x) ==
    /\ Running /\ Is(x, "constructor")
    /\ \E I \in SUBSET Full(ref, ref[V(x)]) : \E ps \in Params(ref, I) :
         LET m == ToVars(ref[V(x)], ps)
         IN /\ ref' = Copy(ref, m)
            /\ rc' = NewRefs(rc, ref, m)
            /\ lvl' = Owners(ref', DOMAIN ps, depth)
    /\ Shared(rc')
    /\ UNCHANGED <<obj, depth, frame, stale>>

\* idris2_isUnique(sc): the fields become locals, the cell is kept for reuse.
caseReuse(x) ==
    /\ Running /\ Is(x, "constructor") /\ rc[ref[V(x)]] = 1
    /\ \E ps \in Params(ref, Full(ref, ref[V(x)])) :
         /\ ref' = Move(ref, ToVars(ref[V(x)], ps))
         /\ lvl' = Owners(ref', {x} \cup DOMAIN ps, depth)
    /\ obj' = [obj EXCEPT ![ref[V(x)]].tag = "reuse"]
    /\ UNCHANGED <<rc, depth, frame, stale>>

\* The reused cell is filled instead of a new constructor.
fillReuse(x) ==
    /\ Running /\ Is(x, "reuse")
    /\ LET a == ref[V(x)]
       IN /\ \E as \in Args(obj[a].size) : ref' = Move(ref, FromVars(a, as))
          /\ obj' = [obj EXCEPT ![a].tag = "constructor"]
    /\ lvl' = Owners(ref', {}, depth)
    /\ UNCHANGED <<rc, depth, frame, stale>>

\* idris2_removeReuseConstructor: no constructor was built; free without a
\* cascade.
removeReuseConstructor(x) ==
    /\ Running /\ Is(x, "reuse")
    /\ LET a == ref[V(x)]
       IN /\ ref' = [ref EXCEPT ![V(x)] = Null]
          /\ rc' = [rc EXCEPT ![a] = @ - 1]
          /\ obj' = IF rc[a] = 1 THEN [obj EXCEPT ![a] = FreeCell] ELSE obj
    /\ lvl' = Owners(ref', {}, depth)
    /\ UNCHANGED <<depth, frame, stale>>

-----------------------------------------------------------------------------
(* Closures (runtime.c). *)

\* clos->header.refCounter <= 1.
Unshared(a) == rc[a] <= 1

\* idris2_tailcall_apply_closure of the closure in slot s, the new closure at
\* b: a unique closure gives its arguments away (memcpy), a shared one
\* duplicates them.  arg moves the new argument, if it is not NULL.
TailcallArgs(s, b, arg) ==
    LET clos == ref[s]
        old  == FieldsOf(b, clos, 1..obj[clos].size)
        r1   == IF Unshared(clos) THEN Move(ref, old) ELSE Copy(ref, old)
    IN [Move(r1, arg) EXCEPT ![s] = Null]

\* Its counters: free(clos) when unique, else --clos->header.refCounter, which
\* does not look for IDRIS2_VP_REFCOUNTER_MAX.
\* Mutants: free(clos) is missing; shared arguments are not duplicated.
TailcallCount_NoFree(s, b) == [rc EXCEPT ![b] = 1]
TailcallCount_NoDup(s, b) == IF Unshared(ref[s]) THEN [rc EXCEPT ![ref[s]] = 0, ![b] = 1]
                             ELSE [rc EXCEPT ![ref[s]] = @ - 1, ![b] = 1]
TailcallCount(s, b) ==
    LET clos == ref[s]
        old  == FieldsOf(b, clos, 1..obj[clos].size)
    IN IF Unshared(clos)
       THEN [rc EXCEPT ![clos] = 0, ![b] = 1]
       ELSE [NewRefs(rc, ref, old) EXCEPT ![clos] = @ - 1, ![b] = 1]

TailcallObj(s, b, cell) ==
    IF Unshared(ref[s])
    THEN [obj EXCEPT ![ref[s]] = FreeCell, ![b] = cell]
    ELSE [obj EXCEPT ![b] = cell]

\* idris2_trampoline calls the function of the saturated closure b, whose
\* fields become its parameters; it owes free(clos).
Dispatch(r, b) ==
    /\ depth < MaxDepth
    /\ \E ps \in Params(r, Full(r, b)) :
         /\ ref' = Move([r EXCEPT ![K(depth + 1)] = b], ToVars(b, ps))
         /\ lvl' = Owners(ref', DOMAIN ps, depth + 1)
    /\ depth' = depth + 1
    /\ frame' = [frame EXCEPT ![depth + 1] = InOp("trampoline")]

\* The new argument of an application of c: a local, or NULL.
LastArg(c) == {as \in Args(obj[ref[V(c)]].size + 1) :
                 \A i \in DOMAIN as : i > obj[ref[V(c)]].size /\ as[i] # c}

Missing(a) == obj[a].arity - obj[a].size

\* idris2_apply_closure and idris2_tailcall_apply_closure when arguments are
\* still missing: x is the new closure.
applyPartial(x, c) ==
    /\ Running /\ Is(c, "closure") /\ Missing(ref[V(c)]) > 1
    /\ \E b \in Addr, as \in LastArg(c) :
         LET a  == ref[V(c)]
             r1 == TailcallArgs(V(c), b, FromVars(b, as))
         IN /\ rc[b] = 0
            /\ r1[V(x)] = Null
            /\ ref' = [r1 EXCEPT ![V(x)] = b]
            /\ rc' = TailcallCount(V(c), b)
            /\ obj' = TailcallObj(V(c), b, Cell("closure", obj[a].size + 1, obj[a].arity))
    /\ Shared(rc')
    /\ lvl' = Owners(ref', {x}, depth)
    /\ UNCHANGED <<depth, frame, stale>>

\* The same when the argument is the last: the new closure is dispatched.
applySaturated(c) ==
    /\ Running /\ Is(c, "closure") /\ Missing(ref[V(c)]) = 1
    /\ \E b \in Addr, as \in LastArg(c) :
         LET a == ref[V(c)]
         IN /\ rc[b] = 0
            /\ Dispatch(TailcallArgs(V(c), b, FromVars(b, as)), b)
            /\ rc' = TailcallCount(V(c), b)
            /\ obj' = TailcallObj(V(c), b, Cell("closure", obj[a].arity, obj[a].arity))
    /\ Shared(rc')
    /\ UNCHANGED stale

\* A call in tail position: makeClosure of all the arguments X, returned to
\* idris2_trampoline, which passes them on to the function.
tailCall(X) ==
    /\ Running /\ "closure" \in Kinds /\ depth < MaxDepth
    /\ \A x \in X : Usable(x)
    /\ Cardinality(X) <= MaxFields
    /\ \E b \in Addr :
         /\ rc[b] = 0
         /\ ref' = [ref EXCEPT ![K(depth + 1)] = b]
         /\ rc' = [rc EXCEPT ![b] = 1]
         /\ obj' = [obj EXCEPT ![b] = Cell("closure", Cardinality(X), Cardinality(X))]
    /\ depth' = depth + 1
    /\ frame' = [frame EXCEPT ![depth + 1] = InOp("trampoline")]
    /\ lvl' = Owners(ref', X, depth + 1)
    /\ UNCHANGED stale

\* The dispatched function returns its value, having consumed its other
\* locals; a finaliser returns NULL.  The closure is freed, its arguments are
\* not: the function consumed them.
trampolineReturn ==
    /\ depth > 0 /\ frame[depth].op = "trampoline"
    /\ LET locals == {x \in Var : Mine(x)}
           clos   == ref[K(depth)]
       IN /\ \A x, y \in locals : x = y
          /\ \A x \in locals : Usable(x)
          /\ depth > 1 /\ frame[depth - 1].op = "remove" => locals = {}
          /\ rc' = [rc EXCEPT ![clos] = @ - 1]
          /\ obj' = IF rc[clos] = 1 THEN [obj EXCEPT ![clos] = FreeCell] ELSE obj
          /\ ref' = [ref EXCEPT ![K(depth)] = Null]
          /\ lvl' = Owners(ref', locals, depth - 1)
    /\ depth' = depth - 1
    /\ frame' = [frame EXCEPT ![depth] = Idle]
    /\ UNCHANGED stale

-----------------------------------------------------------------------------
(* IORef, arrays and finalisers (prim.c, prim.h). *)

\* An object whose fields I all get newReference(v), assigned to x.
AllocateShared(x, cell, I, v) ==
    /\ Running /\ ref[V(x)] = Null /\ Given(v)
    /\ \E a \in Addr :
         LET m == [s \in {F(a, i) : i \in I} |-> V(v)]
         IN /\ rc[a] = 0
            /\ ref' = [Copy(ref, m) EXCEPT ![V(x)] = a]
            /\ rc' = [NewRefs(rc, ref, m) EXCEPT ![a] = 1]
            /\ obj' = [obj EXCEPT ![a] = cell]
    /\ Shared(rc')
    /\ lvl' = Owners(ref', {x}, depth)
    /\ UNCHANGED <<depth, frame, stale>>

newIORef(x, v) == "ioref" \in Kinds /\ AllocateShared(x, Cell("ioref", 1, 0), {1}, v)

newArray(x, n, v) == "array" \in Kinds /\ AllocateShared(x, Cell("array", n, 0), 1..n, v)

\* x gets newReference of field i of a.
Read(x, a, i) ==
    /\ ref[V(x)] = Null
    /\ LET m == [s \in {V(x)} |-> F(a, i)]
       IN ref' = Copy(ref, m) /\ rc' = NewRefs(rc, ref, m)
    /\ Shared(rc')
    /\ lvl' = Owners(ref', {x}, depth)
    /\ UNCHANGED <<obj, depth, frame>>

readIORef(x, r) ==
    Running /\ Is(r, "ioref") /\ Read(x, ref[V(r)], 1) /\ UNCHANGED stale

\* newReference(new_value), the swap, removeReference(old): the activation
\* slot above the stack holds old in between.
writeIORef(r, v) ==
    /\ Running /\ Is(r, "ioref") /\ Given(v) /\ depth < MaxDepth
    /\ LET a  == ref[V(r)]
           r1 == Move(ref, [s \in {K(depth + 1)} |-> F(a, 1)])
           m  == [s \in {F(a, 1)} |-> V(v)]
       IN /\ Shared(NewRefs(rc, r1, m))
          /\ Remove(Copy(r1, m), NewRefs(rc, r1, m), frame, K(depth + 1), depth)
    /\ UNCHANGED <<obj, lvl, stale>>

\* arr[i] has been released by a prim__arraySet that has not stored yet.
Busy(a, i) == \E k \in 1..depth :
                frame[k].op = "arraySet" /\ frame[k].arr = a /\ frame[k].idx = i

\* A busy slot still holds the pointer whose reference arraySet gave up.
arrayGet(x, b, i) ==
    /\ Running /\ Is(b, "array") /\ i <= obj[ref[V(b)]].size
    /\ IF Busy(ref[V(b)], i)
       THEN Reentrant /\ stale' = TRUE
            /\ UNCHANGED <<ref, rc, obj, depth, frame, lvl>>
       ELSE Read(x, ref[V(b)], i) /\ UNCHANGED stale

\* removeReference(arr[i]) first ...
arraySet(b, i, v) ==
    /\ Running /\ Is(b, "array") /\ i <= obj[ref[V(b)]].size /\ Given(v)
    /\ depth < MaxDepth
    /\ IF Busy(ref[V(b)], i)
       THEN Reentrant /\ stale' = TRUE
            /\ UNCHANGED <<ref, rc, depth, frame>>
       ELSE LET a == ref[V(b)]
                act == [op |-> "arraySet", arr |-> a, idx |-> i, own |-> b,
                        val |-> IF ref[V(v)] = Null THEN Null ELSE v]
            IN /\ Remove(ref, rc, [frame EXCEPT ![depth + 1] = act], F(a, i), depth + 1)
               /\ UNCHANGED stale
    /\ UNCHANGED <<obj, lvl>>

\* ... then arr[i] = newReference(v).
arrayStore ==
    /\ depth > 0 /\ frame[depth].op = "arraySet"
    /\ LET act == frame[depth]
           m == [s \in IF act.val = Null THEN {} ELSE {F(act.arr, act.idx)}
                   |-> V(act.val)]
       IN /\ ref' = Copy(ref, m)
          /\ rc' = NewRefs(rc, ref, m)
    /\ Shared(rc')
    /\ depth' = depth - 1
    /\ frame' = [frame EXCEPT ![depth] = Idle]
    /\ UNCHANGED <<obj, lvl, stale>>

\* prim__onCollect and prim__onCollectAny: the pointer is duplicated, and the
\* references of the caller to it and to the finaliser pass to the new value,
\* because generated code does not drop the arguments of external primitives.
onCollect(x, p, c) ==
    /\ Running /\ "gcpointer" \in Kinds /\ Is(p, "value") /\ Is(c, "closure") /\ Missing(ref[V(c)]) = 2
    /\ \E a \in Addr :
         LET m  == [s \in {F(a, 1)} |-> V(p)]
             r1 == Move(Copy(ref, m),
                        [s \in {F(a, 2), F(a, 3)} |-> IF s = F(a, 2) THEN V(p) ELSE V(c)])
         IN /\ rc[a] = 0
            /\ r1[V(x)] = Null
            /\ ref' = [r1 EXCEPT ![V(x)] = a]
            /\ rc' = [NewRefs(rc, ref, m) EXCEPT ![a] = 1]
            /\ obj' = [obj EXCEPT ![a] = Cell("gcpointer", 3, 0)]
    /\ lvl' = Owners(ref', {x}, depth)
    /\ UNCHANGED <<depth, frame, stale>>

\* GC_POINTER_TAG: apply_closure(apply_closure(onCollectFct, p), NULL).  The
\* first application stays partial and is consumed by the second.
runFinaliser ==
    /\ Removing /\ ~Finalised(Dying)
    /\ \E b \in Addr :
         LET s == F(Dying, 3)
             n == obj[ref[s]].size
             arg == [t \in {F(b, n + 1)} |-> F(Dying, 2)]
         IN /\ rc[b] = 0
            /\ Dispatch(TailcallArgs(s, b, arg), b)
            /\ rc' = TailcallCount(s, b)
            /\ obj' = TailcallObj(s, b, Cell("closure", n + 2, n + 2))
    /\ Shared(rc')
    /\ UNCHANGED stale

-----------------------------------------------------------------------------
Next ==
    \/ \E x \in Var : newValue(x)
    \/ \E x \in Var, n \in Sizes : newConstructor(x, n)
    \/ \E x \in Var, ar \in Sizes, n \in {0} \cup Sizes : mkClosure(x, ar, n)
    \/ \E x, y \in Var : newReference(x, y)
    \/ \E x \in Var : removeReference(x)
    \/ RemoveField
    \/ FreeElem
    \/ \E x \in Var : caseBorrow(x)
    \/ \E x \in Var : caseReuse(x)
    \/ \E x \in Var : fillReuse(x)
    \/ \E x \in Var : removeReuseConstructor(x)
    \/ \E x, c \in Var : applyPartial(x, c)
    \/ \E c \in Var : applySaturated(c)
    \/ \E X \in SUBSET Var : tailCall(X)
    \/ trampolineReturn
    \/ \E x, v \in Var : newIORef(x, v)
    \/ \E x, r \in Var : readIORef(x, r)
    \/ \E r, v \in Var : writeIORef(r, v)
    \/ \E x, v \in Var, n \in Sizes : newArray(x, n, v)
    \/ \E x, b \in Var, i \in Sizes : arrayGet(x, b, i)
    \/ \E b, v \in Var, i \in Sizes : arraySet(b, i, v)
    \/ arrayStore
    \/ \E x, p, c \in Var : onCollect(x, p, c)
    \/ runFinaliser

Spec == Init /\ [][Next]_vars

-----------------------------------------------------------------------------
(* Properties. *)

\* The counters stay between 0 and IDRIS2_VP_REFCOUNTER_MAX, the runtime within
\* its stack, and every slot holds an address or nothing.
TypeOK ==
    /\ ref \in [Slot -> Ref]
    /\ rc \in [Addr -> 0..RefMax]
    /\ obj \in [Addr -> Object]
    /\ depth \in 0..MaxDepth
    /\ frame \in [Frame -> Activation]
    /\ lvl \in [Var -> 0..MaxDepth]
    /\ stale \in BOOLEAN

\* No slot refers to memory that has been given back to free().
NoDangling == \A s \in Slot : ref[s] # Null => rc[ref[s]] # 0

\* Below IDRIS2_VP_REFCOUNTER_MAX the counter of an object is the number of
\* references to it, whoever holds them.
CountExact == \A a \in Addr : rc[a] \in 1..(RefMax - 1)
                => rc[a] = Cardinality(RefsTo(ref, a))

\* An object idris2_removeReference destroys and a closure
\* idris2_trampoline has dispatched are referenced by nobody else, and the
\* arguments of the latter have all been handed over.
SoleOwner ==
    \A k \in 1..depth :
      /\ frame[k].op \in {"remove", "trampoline"}
           => ref[K(k)] # Null /\ rc[ref[K(k)]] = 1
      /\ frame[k].op = "trampoline" => Full(ref, ref[K(k)]) = {}

\* What is reachable from the objects S.
Out(S) == {ref[F(a, i)] : a \in S, i \in Field} \ {Null}
Reach(S) ==
    LET upto[n \in 0..Cardinality(Addr)] ==
          IF n = 0 THEN S ELSE upto[n - 1] \cup Out(upto[n - 1])
    IN upto[Cardinality(Addr)]

\* Nothing is lost but cycles: every allocated object can be reached from a
\* local, from an activation of the runtime, from an immortal object or from
\* an object that reaches itself (through an IORef or an array).
OnlyCyclesLeak ==
    LET held   == {a \in Addr : rc[a] = RefMax \/ (\E x \in Var : ref[V(x)] = a)
                                  \/ (\E k \in Frame : ref[K(k)] = a)}
        cyclic == {a \in Addr : a \in Reach(Out({a}))}
    IN {a \in Addr : rc[a] # 0} \subseteq Reach(held \cup cyclic)

\* Every idris2_removeReference and prim__arraySet returns: the cascade ends
\* and the program runs again.
CascadeEnds == ~Running ~> Running

\* The C code of the runtime does not stop between its statements.
FairSpec == Spec /\ WF_vars(RemoveField) /\ WF_vars(FreeElem) /\ WF_vars(arrayStore)

\* header comment of _datatypes.h: an object that reaches the maximum
\* reference count is immortal.
Immortalized ==
    [][\A a \in Addr : rc[a] = RefMax => rc'[a] = RefMax]_vars

\* prim__arrayGet and prim__arraySet never read a slot whose reference an
\* unfinished prim__arraySet has already given up.
NoStaleRead == ~stale
=============================================================================
