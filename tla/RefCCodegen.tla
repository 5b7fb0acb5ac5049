---------------------------- MODULE RefCCodegen ----------------------------
(***************************************************************************)
(* The reference counting instructions that Compiler.RefC.RefC puts into   *)
(* the C code of one function (cStatementsFromANF and its helpers).        *)
(*                                                                         *)
(* The code generator walks over a body in A-normal form with an Env: the  *)
(* variables the code owns at this point, and the constructor cells it     *)
(* keeps for reuse.  It knows the body only through freeVariables and      *)
(* usedConstructors of its parts.  The model takes one path through an     *)
(* arbitrary body: (fv, uc) are those two sets for the part that is still  *)
(* to be generated, and every step picks an expression form they allow.    *)
(* Beside the Env it follows the emitted C code: credit[v] counts the      *)
(* references the C local v really holds, cell[n] the cells kept for n.    *)
(***************************************************************************)
EXTENDS Integers, FiniteSets, Sequences

CONSTANTS Var,           \* local variables of the function
          Con,           \* constructor names
          MaxArgs,       \* bound on the arguments of an application
          MaxNest,       \* bound on the nesting of let bindings
          SelfApply,     \* bodies may apply a variable to itself
          LastUseExt,    \* external primitives may be the last use
          BorrowedExt,   \* a borrowed variable may be the finaliser of onCollect
          IgnoreFields   \* a match that reuses its cell may ignore fields

ASSUME CodegenAssumption ==
    /\ MaxArgs \in Nat /\ MaxNest \in Nat
    /\ {SelfApply, LastUseExt, BorrowedExt, IgnoreFields} \subseteq BOOLEAN

VARIABLES pc,      \* "entry", "body" or "done"
          fv, uc,  \* freeVariables and usedConstructors of what remains
          owned,   \* Env.owned
          reuse,   \* the domain of Env.reuseMap
          nil,     \* variables of fv the branch taken shows to be NULL
          ctx,     \* the let bodies to continue with, innermost last
          credit,  \* the references each local holds when the code runs
          cell     \* the cells each reuse variable holds when it runs

vars == <<pc, fv, uc, owned, reuse, nil, ctx, credit, cell>>

Context == [var : Var, fv : SUBSET Var, uc : SUBSET Con,
            owned : SUBSET Var, reuse : SUBSET Con, nil : SUBSET Var]

\* A function is entered owning each of its arguments.
Init == /\ pc = "entry"
        /\ fv \in SUBSET Var /\ uc \in SUBSET Con
        /\ owned = {} /\ reuse = {} /\ nil = {} /\ ctx = <<>>
        /\ \E args \in SUBSET Var :
             /\ fv \subseteq args
             /\ credit = [v \in Var |-> IF v \in args THEN 1 ELSE 0]
        /\ cell = [n \in Con |-> 0]

-----------------------------------------------------------------------------
(* Emitted instructions, as changes to the references the locals hold. *)

removeVars(c, D) == [v \in Var |-> IF v \in D THEN c[v] - 1 ELSE c[v]]

\* Mutant: the fields of a match are used without idris2_newReference.
dupVars_None(c, D) == c
dupVars(c, D) == [v \in Var |-> IF v \in D THEN c[v] + 1 ELSE c[v]]

\* Mutant: a cell that is not needed is forgotten.
removeReuseConstructors_None(N) == cell
removeReuseConstructors(N) == [n \in Con |-> IF n \in N THEN 0 ELSE cell[n]]

\* avarsToC, fillArgs, argsVect: the first use of an owned variable takes its
\* reference, every other use takes a new one.
Taken(args) == {v \in owned : \E i \in DOMAIN args : args[i] = v}

Count(P) == IF P THEN 1 ELSE 0

\* The arguments of a leaf expression: all of its free variables, in any
\* order and number.
ArgLists == {args \in UNION {[1..n -> fv] : n \in 0..MaxArgs} :
               {args[i] : i \in DOMAIN args} = fv}

\* dropUnusedOwnedVars: what of vars the branch with free variables fb needs.
\* Mutant: nothing is dropped.
dropUnusedOwnedVars_Keep(vars_, fb) == vars_
dropUnusedOwnedVars(vars_, fb) == vars_ \cap fb

-----------------------------------------------------------------------------
\* createCFunctions: arguments the body does not use are dropped.
createCFunctions ==
    /\ pc = "entry"
    /\ pc' = "body"
    /\ credit' = removeVars(credit, {v \in Var : credit[v] = 1} \ fv)
    /\ owned' = fv
    /\ UNCHANGED <<fv, uc, reuse, nil, ctx, cell>>

\* The value of an expression has been computed: the function returns it, or
\* the innermost let stores it in its variable and its body follows.
Finish(c) ==
    IF ctx = <<>>
    THEN /\ pc' = "done" /\ credit' = c
         /\ fv' = {} /\ uc' = {}
         /\ owned' = {} /\ reuse' = {} /\ nil' = {} /\ ctx' = <<>>
    ELSE LET e == ctx[Len(ctx)]
         IN /\ pc' = "body"
            /\ credit' = [c EXCEPT ![e.var] = @ + Count(e.var \in e.fv)]
            /\ fv' = e.fv /\ uc' = e.uc
            /\ owned' = e.owned /\ reuse' = e.reuse /\ nil' = e.nil
            /\ ctx' = SubSeq(ctx, 1, Len(ctx) - 1)

Leaf == pc = "body" /\ uc = {}

\* avarToC of a single variable.
variable ==
    /\ Leaf /\ Cardinality(fv) = 1
    /\ Finish(removeVars(credit, owned \cap fv))
    /\ UNCHANGED cell

\* Calls of named functions, saturated or not: the callee, or the closure,
\* takes over one reference per argument.
application ==
    /\ Leaf
    /\ \E args \in ArgLists : Finish(removeVars(credit, Taken(args)))
    /\ UNCHANGED cell

\* idris2_apply_closure(avarToC env closure, avarToC env arg): both uses see
\* the same Env, and take the reference if the variable is owned.
closureApplication ==
    /\ Leaf
    /\ \E c, a \in fv :
         /\ fv = {c, a}
         /\ c = a => SelfApply
         /\ Finish([v \in Var |-> credit[v] - Count(v = c /\ c \in owned)
                                            - Count(v = a /\ a \in owned)])
    /\ UNCHANGED cell

\* A constructor takes over its arguments; it fills the cell kept for its name
\* if there is one.
constructorValue ==
    /\ pc = "body"
    /\ \E n \in Con :
         /\ uc = {n}
         /\ cell' = [cell EXCEPT ![n] = IF n \in reuse THEN 0 ELSE @]
    /\ \E args \in ArgLists : Finish(removeVars(credit, Taken(args)))

\* A primitive operation reads its arguments (new references for all but the
\* first use of an owned variable), then removeVars of every argument.
primitiveOperation ==
    /\ Leaf
    /\ \E args \in ArgLists :
         LET uses(v) == Cardinality({i \in DOMAIN args : args[i] = v})
             passed == [v \in Var |-> credit[v] + uses(v) - Count(v \in Taken(args))]
         IN Finish([v \in Var |-> passed[v] - uses(v)])
    /\ UNCHANGED cell

\* An external primitive gets the bare variables: IORef and array primitives
\* make the references they keep themselves, nothing is dropped.
externalPrimitive ==
    /\ Leaf
    /\ LastUseExt \/ owned = {}
    /\ Finish(credit)
    /\ UNCHANGED cell

\* prim__onCollect, too, gets the bare variables: it makes a reference to the
\* pointer p of its own, and keeps the one to the finaliser f, owned or not.
onCollect ==
    /\ Leaf
    /\ \E p, f \in fv :
         /\ p # f /\ fv = {p, f}
         /\ p \in owned => LastUseExt
         /\ f \notin owned => BorrowedExt
         /\ Finish(removeVars(credit, {f}))
    /\ UNCHANGED cell

\* Constants, erased values and crashes use no variable.
constant ==
    /\ Leaf /\ fv = {}
    /\ Finish(credit)
    /\ UNCHANGED cell

-----------------------------------------------------------------------------
\* The names in scope: a binder is always new.
InScope == fv \cup owned \cup UNION {ctx[i].fv \cup ctx[i].owned \cup {ctx[i].var} :
                                       i \in DOMAIN ctx}
Fresh == Var \ InScope

\* What the body with free variables fvB still needs: moveFromOwnedToBorrowed.
\* Mutant: the value consumes it.
borrowVal_None(fvB, var) == {}
borrowVal(fvB, var) == owned \cap (fvB \ {var})

\* let var = value in body: variables the body uses are borrowed by the value.
binding(var, fvV, ucV) ==
    /\ pc = "body" /\ Len(ctx) < MaxNest /\ var \in Fresh
    /\ \E fvB \in SUBSET (fv \cup {var}), ucB \in SUBSET uc :
         /\ fv = fvV \cup (fvB \ {var}) /\ uc = ucV \cup ucB
         /\ owned' = owned \ borrowVal(fvB, var)
         /\ reuse' = reuse \cap ucV
         /\ ctx' = Append(ctx,
              [var |-> var, fv |-> fvB, uc |-> ucB,
               owned |-> borrowVal(fvB, var) \cup (fvB \cap {var}),
               reuse |-> reuse \ ucV, nil |-> nil \cap fvB])
    /\ fv' = fvV /\ uc' = ucV /\ nil' = nil \cap fvV
    /\ UNCHANGED <<pc, credit, cell>>

\* concaseBody: a default branch, or a branch of a match on a constant; the
\* branch uses fb and the constructors ub.
concaseBody(fb, ub) ==
    /\ pc = "body" /\ fv # {}
    /\ fb \subseteq fv /\ ub \subseteq uc
    /\ owned' = dropUnusedOwnedVars(owned, fb)
    /\ reuse' = reuse \cap ub
    /\ credit' = removeVars(credit, owned \ fb)
    /\ cell' = removeReuseConstructors(reuse \ ub)
    /\ fv' = fb /\ uc' = ub /\ nil' = nil \cap fb
    /\ UNCHANGED <<pc, ctx>>

\* A branch for a constructor represented by NULL: nothing to drop for sc.
erasedAlternative(sc, fb, ub) ==
    /\ pc = "body" /\ sc \in fv
    /\ fb \subseteq fv /\ ub \subseteq uc
    /\ owned' = dropUnusedOwnedVars(owned \ {sc}, fb)
    /\ reuse' = reuse \cap ub
    /\ credit' = removeVars(credit, (owned \ fb) \cup (owned \cap {sc}))
    /\ cell' = removeReuseConstructors(reuse \ ub)
    /\ fv' = fb /\ uc' = ub /\ nil' = (nil \cup {sc}) \cap fb
    /\ UNCHANGED <<pc, ctx>>

\* A branch for constructor n with fields args: see addReuseConstructor.
\* unique is what idris2_isUnique(sc) says when the code runs.
alternative(sc, n, args, fb, ub, unique) ==
    /\ pc = "body" /\ sc \in fv /\ args \subseteq Fresh
    /\ fb \subseteq fv \cup args /\ ub \subseteq uc
    /\ LET withArgs   == owned \cup args
           shouldDrop == withArgs \ fb
           reusing    == n \notin reuse /\ n \in ub /\ sc \in shouldDrop
           dupped     == dupVars(credit, args \ shouldDrop)
       IN /\ owned' = dropUnusedOwnedVars(withArgs, fb)
          /\ IF reusing
             THEN /\ unique /\ args \cap shouldDrop # {} => IgnoreFields
                  /\ credit' = removeVars(IF unique
                                          THEN removeVars(dupVars(credit, args), {sc})
                                          ELSE removeVars(dupped, {sc}),
                                          shouldDrop \ ({sc} \cup args))
                  /\ reuse' = (reuse \cap ub) \cup {n}
                  /\ cell' = [removeReuseConstructors(reuse \ ub) EXCEPT
                                ![n] = Count(unique)]
             ELSE /\ credit' = removeVars(dupped, shouldDrop \ args)
                  /\ reuse' = reuse \cap ub
                  /\ cell' = removeReuseConstructors(reuse \ ub)
    /\ fv' = fb /\ uc' = ub /\ nil' = nil \cap fb
    /\ UNCHANGED <<pc, ctx>>

Next ==
    \/ createCFunctions
    \/ variable
    \/ application
    \/ closureApplication
    \/ constructorValue
    \/ primitiveOperation
    \/ externalPrimitive
    \/ onCollect
    \/ constant
    \/ \E var \in Var, fvV \in SUBSET fv, ucV \in SUBSET uc : binding(var, fvV, ucV)
    \/ \E fb \in SUBSET fv, ub \in SUBSET uc : concaseBody(fb, ub)
    \/ \E sc \in fv, fb \in SUBSET fv, ub \in SUBSET uc : erasedAlternative(sc, fb, ub)
    \/ \E sc \in fv, n \in Con, args \in SUBSET Fresh, ub \in SUBSET uc, u \in BOOLEAN :
         \E fb \in SUBSET (fv \cup args) : alternative(sc, n, args, fb, ub, u)

Spec == Init /\ [][Next]_vars

-----------------------------------------------------------------------------
\* No local gives away more references than it holds, and no more than one
\* cell is kept for a constructor name.
TypeOK ==
    /\ pc \in {"entry", "body", "done"}
    /\ fv \subseteq Var /\ uc \subseteq Con
    /\ owned \subseteq Var /\ reuse \subseteq Con /\ nil \subseteq Var
    /\ ctx \in Seq(Context)
    /\ credit \in [Var -> Nat]
    /\ cell \in [Con -> 0..1]

\* The variables whose references the code generated so far leaves to the
\* bodies of the enclosing lets.
Pending(v) == {i \in DOMAIN ctx : v \in ctx[i].owned \ {ctx[i].var}}

\* "Precise reference counting": a local holds a reference exactly when the
\* Env, or the Env an enclosing let will restore, owns it.  Nothing is
\* consumed twice and nothing is forgotten, in particular at the return.
OwnedExact ==
    pc # "entry" => \A v \in Var :
                      credit[v] = Count(v \in owned) + Cardinality(Pending(v))

\* A variable that is used without being owned is NULL, or an enclosing let
\* keeps it alive.
Backed ==
    /\ pc = "body" => \A v \in fv \ nil : v \in owned \/ Pending(v) # {}
    /\ \A i \in DOMAIN ctx : \A v \in ctx[i].fv \ ({ctx[i].var} \cup ctx[i].nil) :
         v \in ctx[i].owned \/ \E j \in Pending(v) : j < i

\* CHANGELOG: a reference is dropped as soon as possible.  What the Env owns
\* and the cells it keeps are needed by the rest of the expression.
DroppedEarly == /\ owned \subseteq fv /\ reuse \subseteq uc
                /\ \A i \in DOMAIN ctx : /\ ctx[i].owned \subseteq ctx[i].fv
                                         /\ ctx[i].reuse \subseteq ctx[i].uc

\* A cell taken from a unique constructor is filled or freed exactly once.
CellExact ==
    \A n \in Con :
      /\ cell[n] = 1 => n \in reuse \/ \E i \in DOMAIN ctx : n \in ctx[i].reuse
      /\ Cardinality({i \in DOMAIN ctx : n \in ctx[i].reuse}) + Count(n \in reuse) <= 1
=============================================================================
