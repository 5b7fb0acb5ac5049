-------------------------- MODULE MCHeapReentrant --------------------------
(* RefCHeap from a state in which a finaliser can reach the array that     *)
(* holds its pointer.                                                      *)
EXTENDS RefCHeap, TLC

CONSTANTS a1, a2, a3, a4, x1

(***************************************************************************)
(* A state a program reaches with newArray, newValue, mkClosure, onCollect *)
(* and arraySet: x1 is an array a1 whose only element is the GC pointer a2 *)
(* for the value a3; its finaliser a4 is a closure over the array.         *)
(***************************************************************************)
ReentrantInit ==
    /\ ref = [s \in Slot |->
                CASE s \in {V(x1), F(a4, 1)} -> a1
                  [] s = F(a1, 1) -> a2
                  [] s \in {F(a2, 1), F(a2, 2)} -> a3
                  [] s = F(a2, 3) -> a4
                  [] OTHER -> Null]
    /\ rc = [a \in Addr |-> CASE a \in {a1, a3} -> 2 [] a \in {a2, a4} -> 1 [] OTHER -> 0]
    /\ obj = [a \in Addr |-> CASE a = a1 -> Cell("array", 1, 0)
                               [] a = a2 -> Cell("gcpointer", 3, 0)
                               [] a = a3 -> Cell("value", 0, 0)
                               [] a = a4 -> Cell("closure", 1, 3)
                               [] OTHER -> FreeCell]
    /\ depth = 0 /\ frame = [k \in Frame |-> Idle]
    /\ lvl = [x \in Var |-> 0] /\ stale = FALSE

ReentrantSpec == ReentrantInit /\ [][Next]_vars
=============================================================================
