------------------------ MODULE IdrisProcessProofs ------------------------
(* Proofs about IdrisProcess, for any number of processes and any pipe size. *)
EXTENDS IdrisProcess, FiniteSetTheorems, TLAPS

-----------------------------------------------------------------------------
(* Types. *)

\* The part of TypeOK the order of births does not enter.
Typed ==
    /\ stage \in [Child -> {"none", "piped", "both", "flushed", "forked", "open",
                            "failed", "waiting", "done"}]
    /\ kind \in [Child -> {"popen2", "r", "w"}]
    /\ proc \in [Child -> {"none", "forked", "running", "exiting", "exited", "killed"}]
    /\ born \in [Child -> Nat]
    /\ holds \in [Child \cup {Program} -> SUBSET End]
    /\ fill \in [Pipe -> 0..Cap] /\ hand \in [Child -> Nat]
    /\ written \in [Stream -> Nat] /\ pend \in [Stream -> Nat]
    /\ reached \in [Stream -> Nat]
    /\ copy \in [Child -> [Stream -> Nat]] /\ program \in {"running", "over"}

\* What is counted can be counted.
LEMMA BornFinite ==
  LET B == {d \in Child : born[d] > 0}
  IN  IsFiniteSet(B) /\ Cardinality(B) \in Nat /\ Cardinality(B) <= Cardinality(Child)
<1> DEFINE B == {d \in Child : born[d] > 0}
<1>1. IsFiniteSet(B) /\ Cardinality(B) <= Cardinality(Child)
  BY FS_Subset, ProcessAssumption
<1> QED
  BY <1>1, FS_CardinalityType

LEMMA EndKinds ==
  /\ \A c \in Child : In(c) \subseteq End /\ Out(c) \subseteq End
  /\ \A c \in Child : <<c, "in">> \in Pipe /\ <<c, "out">> \in Pipe
  /\ "stdout" \in Stream /\ Child \subseteq Stream
BY DEF In, Out, End, Pipe, Stream

LEMMA InitType == Init => Typed
BY ProcessAssumption DEF Init, Typed

\* Deliver keeps the types.
LEMMA DeliverType ==
  ASSUME Typed, NEW c \in Child, NEW p \in Pipe, Deliver(c, p)
  PROVE  /\ fill' \in [Pipe -> 0..Cap]
         /\ holds' \in [Child \cup {Program} -> SUBSET End]
         /\ proc' \in [Child -> {"none", "forked", "running", "exiting", "exited", "killed"}]
         /\ \A x \in Child \cup {Program} : holds'[x] \subseteq holds[x]
         /\ \A d \in Child : proc'[d] # proc[d] => d = c /\ proc'[d] \in {"killed", "exited"}
<1>1. CASE /\ HasReader(p) /\ fill[p] < Cap
           /\ fill' = [fill EXCEPT ![p] = @ + 1]
           /\ UNCHANGED <<proc, holds>>
  BY <1>1, ProcessAssumption DEF Typed
<1>2. CASE /\ Proc(c, "killed") \/ Proc(c, "exited")
           /\ Close(c, holds[c]) /\ UNCHANGED fill
  BY <1>2 DEF Typed, Proc, Close
<1> QED
  BY <1>1, <1>2 DEF Deliver

\* Taking something out of a pipe that is not empty.
LEMMA TakeOut ==
  ASSUME Typed, NEW p \in Pipe, fill[p] > 0
  PROVE  [fill EXCEPT ![p] = @ - 1] \in [Pipe -> 0..Cap]
<1>1. fill \in [Pipe -> 0..Cap] /\ Cap \in Nat
  BY ProcessAssumption DEF Typed
<1>2. fill[p] - 1 \in 0..Cap
  BY <1>1
<1> QED
  BY <1>1, <1>2

\* The steps of a call of popen2.
LEMMA Popen2Type ==
  ASSUME Typed, NEW c \in Child, popen2(c) \/ InPopen2(c) PROVE Typed'
<1> USE DEF Typed, data, Stage, Close
<1>1. CASE popen2(c)
  <2>1. holds' \in [Child \cup {Program} -> SUBSET End]
    BY <1>1, EndKinds DEF popen2
  <2>2. stage' \in [Child -> {"none", "piped", "both", "flushed", "forked", "open",
                              "failed", "waiting", "done"}]
    BY <1>1 DEF popen2
  <2> QED
    BY <1>1, <2>1, <2>2 DEF popen2
<1>2. CASE popen2_pipe(c)
  <2>1. holds' \in [Child \cup {Program} -> SUBSET End]
    BY <1>2, EndKinds DEF popen2_pipe
  <2>2. stage' \in [Child -> {"none", "piped", "both", "flushed", "forked", "open",
                              "failed", "waiting", "done"}]
    <3>1. stage' = [stage EXCEPT ![c] = "both"] \/ stage' = [stage EXCEPT ![c] = "failed"]
      BY <1>2 DEF popen2_pipe
    <3> QED
      BY <3>1
  <2>3. UNCHANGED <<kind, proc, born, data, copy, program>>
    BY <1>2 DEF popen2_pipe
  <2> QED
    BY <2>1, <2>2, <2>3
<1>3. CASE popen2_flush(c)
  BY <1>3, EndKinds DEF popen2_flush
<1>4. CASE popen2_fork(c)
  <2>1. CASE UNCHANGED <<proc, born, holds, copy>>
    BY <1>4, <2>1 DEF popen2_fork
  <2>2. CASE /\ Stage(c, "forked") /\ Proc(c, "forked") /\ NewBorn(c)
             /\ holds' = [holds EXCEPT ![c] = holds[Program]]
             /\ copy' = [copy EXCEPT ![c] = pend]
    <3>1. born' \in [Child -> Nat]
      BY <2>2, BornFinite DEF NewBorn
    <3>2. copy' \in [Child -> [Stream -> Nat]]
      BY <2>2
    <3> QED
      BY <1>4, <2>2, <3>1, <3>2 DEF popen2_fork, Proc
  <2> QED
    BY <1>4, <2>1, <2>2 DEF popen2_fork
<1>5. CASE popen2_parent(c)
  BY <1>5 DEF popen2_parent
<1> QED
  BY <1>1, <1>2, <1>3, <1>4, <1>5 DEF InPopen2

\* The steps of the command.
LEMMA ChildType ==
  ASSUME Typed, NEW c \in Child, ChildStep(c) \/ child_quit(c) PROVE Typed'
<1> USE DEF data, Stage, Close, Proc
<1>1. CASE popen2_child(c)
  <2>1. copy' \in [Child -> [Stream -> Nat]]
    <3>1. copy' = copy \/ copy' = [copy EXCEPT ![c] = [s \in Stream |-> 0]]
      BY <1>1 DEF popen2_child
    <3>2. copy \in [Child -> [Stream -> Nat]] /\ [s \in Stream |-> 0] \in [Stream -> Nat]
      BY DEF Typed
    <3> QED
      BY <3>1, <3>2
  <2>2. holds' \in [Child \cup {Program} -> SUBSET End]
    BY <1>1 DEF popen2_child, Typed
  <2>3. proc' \in [Child -> {"none", "forked", "running", "exiting", "exited", "killed"}]
    BY <1>1 DEF popen2_child, Typed
  <2>4. UNCHANGED <<stage, kind, born, data, program>>
    BY <1>1 DEF popen2_child
  <2> QED
    BY <2>1, <2>2, <2>3, <2>4 DEF Typed
<1>2. CASE child_read(c)
  <2>1. fill' \in [Pipe -> 0..Cap]
    BY <1>2, EndKinds, TakeOut DEF child_read
  <2> QED
    BY <1>2, <2>1 DEF child_read, Typed
<1>3. CASE child_write(c)
  <2>1. hand' \in [Child -> Nat]
    BY <1>3 DEF child_write, Typed
  <2> QED
    BY <1>3, <2>1, EndKinds, DeliverType DEF child_write, Typed
<1>4. CASE child_abandon(c)
  <2>1. CASE \A s \in Stream : copy[c][s] = 0
    <3>1. /\ Proc(c, "exited") /\ Close(c, holds[c]) /\ UNCHANGED <<fill, reached, copy>>
          /\ UNCHANGED <<stage, kind, born, hand, written, pend, program>>
      BY <1>4, <2>1 DEF child_abandon
    <3> QED
      BY <3>1 DEF Typed
  <2>2. CASE ~ \A s \in Stream : copy[c][s] = 0
    <3>1. PICK s \in Stream :
            /\ copy[c][s] > 0 /\ copy' = [copy EXCEPT ![c][s] = @ - 1]
            /\ LET p == IF s = "stdout" THEN <<c, "out">> ELSE <<s, "in">>
               IN Deliver(c, p) /\ reached' = [reached EXCEPT ![s] = IF HasReader(p) THEN @ + 1 ELSE @]
      BY <1>4, <2>2 DEF child_abandon
    <3> DEFINE p == IF s = "stdout" THEN <<c, "out">> ELSE <<s, "in">>
    <3>2. p \in Pipe
      BY EndKinds DEF Stream
    <3>3. copy' \in [Child -> [Stream -> Nat]]
      BY <3>1 DEF Typed
    <3>4. reached' \in [Stream -> Nat]
      BY <3>1 DEF Typed
    <3>5. Deliver(c, p) /\ UNCHANGED <<stage, kind, born, hand, written, pend, program>>
      BY <1>4, <3>1 DEF child_abandon
    <3> HIDE DEF p
    <3>6. /\ fill' \in [Pipe -> 0..Cap]
          /\ holds' \in [Child \cup {Program} -> SUBSET End]
          /\ proc' \in [Child -> {"none", "forked", "running", "exiting", "exited", "killed"}]
      BY <3>2, <3>5, DeliverType
    <3> QED
      BY <3>3, <3>4, <3>5, <3>6 DEF Typed
  <2> QED
    BY <2>1, <2>2
<1>5. CASE child_exit(c)
  BY <1>5 DEF child_exit, Typed
<1>6. CASE child_quit(c)
  BY <1>6 DEF child_quit, Typed
<1> QED
  BY <1>1, <1>2, <1>3, <1>4, <1>5, <1>6 DEF ChildStep

\* Closing an input.
LEMMA CloseInType ==
  ASSUME Typed, NEW c \in Child, CloseIn(c)
  PROVE  /\ fill' \in [Pipe -> 0..Cap] /\ pend' \in [Stream -> Nat]
         /\ reached' \in [Stream -> Nat]
         /\ holds' \in [Child \cup {Program} -> SUBSET End] /\ program' \in {"running", "over"}
<1> DEFINE p == <<c, "in">>
<1>0. /\ p \in Pipe /\ c \in Stream /\ Cap \in Nat
      /\ fill \in [Pipe -> 0..Cap] /\ pend \in [Stream -> Nat] /\ reached \in [Stream -> Nat]
      /\ holds \in [Child \cup {Program} -> SUBSET End] /\ program \in {"running", "over"}
  BY EndKinds, ProcessAssumption DEF Typed
<1>1. CASE /\ pend[c] = 0 \/ (HasReader(p) /\ fill[p] + pend[c] <= Cap)
           /\ fill' = [fill EXCEPT ![p] = @ + pend[c]]
           /\ reached' = [reached EXCEPT ![c] = @ + pend[c]]
           /\ pend' = [pend EXCEPT ![c] = 0]
           /\ Close(Program, {<<c, "in", "w">>}) /\ UNCHANGED program
  <2> HIDE DEF p
  <2>1. fill[p] + pend[c] \in 0..Cap
    BY <1>0, <1>1
  <2>2. reached[c] + pend[c] \in Nat
    BY <1>0
  <2> QED
    BY <1>0, <1>1, <2>1, <2>2 DEF Close
<1>2. CASE StopProgram /\ UNCHANGED <<fill, reached, pend>>
  BY <1>0, <1>2 DEF StopProgram
<1> QED
  BY <1>1, <1>2 DEF CloseIn

\* What the program does.
LEMMA OperationType ==
  ASSUME Typed, NEW c \in Child, Operation(c) \/ wait_end(c) PROVE Typed'
<1> USE DEF data, Stage, Close, Proc
<1>1. CASE popen2(c)
  BY <1>1, Popen2Type
<1>2. ASSUME NEW m \in {"r", "w"}, popen(c, m) PROVE Typed'
  <2>0. CASE Stage(c, "failed") /\ UNCHANGED <<kind, proc, born, holds, hand>>
    BY <1>2, <2>0 DEF popen, Typed
  <2>n. SUFFICES ASSUME Popen(c, m) PROVE Typed'
    BY <1>2, <2>0 DEF popen
  <2>1. born' \in [Child -> Nat]
    BY <2>n, BornFinite DEF Popen, NewBorn, Typed
  <2>2. holds' \in [Child \cup {Program} -> SUBSET End]
    BY <2>n DEF Popen, Typed, End
  <2>3. hand' \in [Child -> Nat]
    BY <2>n, ProcessAssumption DEF Popen, Typed
  <2> QED
    BY <1>2, <2>n, <2>1, <2>2, <2>3 DEF popen, Popen, Typed
<1>3. CASE readOut(c)
  <2>1. fill' \in [Pipe -> 0..Cap]
    BY <1>3, EndKinds, TakeOut DEF readOut
  <2> QED
    BY <1>3, <2>1 DEF readOut, Typed
<1>4. CASE closeFileIn(c)
  BY <1>4, CloseInType DEF closeFileIn, Typed
<1>5. CASE closeFileOut(c)
  BY <1>5 DEF closeFileOut, Typed
<1>6. CASE popen2Wait(c)
  BY <1>6 DEF popen2Wait, Typed
<1>7. CASE pclose(c)
  <2>1. CASE kind[c] = "w"
    BY <1>7, <2>1, CloseInType DEF pclose, Typed
  <2>2. CASE kind[c] # "w"
    BY <1>7, <2>2 DEF pclose, Typed
  <2> QED
    BY <2>1, <2>2
<1>8. CASE wait_end(c)
  BY <1>8 DEF wait_end, StopProgram, Typed
<1> QED
  BY <1>1, <1>2, <1>3, <1>4, <1>5, <1>6, <1>7, <1>8 DEF Operation

LEMMA PutType ==
  ASSUME Typed, NEW s \in Stream, fPutStr(s) PROVE Typed'
<1>0. /\ fill \in [Pipe -> 0..Cap] /\ pend \in [Stream -> Nat] /\ reached \in [Stream -> Nat]
      /\ written \in [Stream -> Nat] /\ Cap \in Nat
      /\ holds \in [Child \cup {Program} -> SUBSET End] /\ program \in {"running", "over"}
  BY ProcessAssumption DEF Typed
<1>1. written' \in [Stream -> Nat] /\ UNCHANGED <<stage, kind, proc, born, hand, copy>>
  BY <1>0 DEF fPutStr
<1>2. CASE pend' = [pend EXCEPT ![s] = @ + 1] /\ UNCHANGED <<fill, reached, holds, program>>
  <2>1. pend' \in [Stream -> Nat]
    BY <1>0, <1>2
  <2> QED
    BY <1>1, <1>2, <2>1 DEF Typed
<1>3. CASE /\ s # "stdout" => (HasReader(<<s, "in">>) /\ fill[<<s, "in">>] < Cap)
           /\ reached' = [reached EXCEPT ![s] = @ + 1]
           /\ fill' = IF s = "stdout" THEN fill ELSE [fill EXCEPT ![<<s, "in">>] = @ + 1]
           /\ UNCHANGED <<pend, holds, program>>
  <2>1. reached' \in [Stream -> Nat]
    BY <1>0, <1>3
  <2>2. fill' \in [Pipe -> 0..Cap]
    <3>1. CASE s = "stdout"
      BY <1>0, <1>3, <3>1
    <3>2. CASE s # "stdout"
      <4>1. <<s, "in">> \in Pipe
        BY <3>2, EndKinds DEF Stream
      <4>2. fill[<<s, "in">>] + 1 \in 0..Cap
        BY <1>0, <1>3, <3>2, <4>1
      <4> QED
        BY <1>0, <1>3, <3>2, <4>1, <4>2
    <3> QED
      BY <3>1, <3>2
  <2> QED
    BY <1>1, <1>3, <2>1, <2>2 DEF Typed
<1>4. CASE StopProgram /\ UNCHANGED <<pend, fill, reached>>
  <2>1. holds' \in [Child \cup {Program} -> SUBSET End] /\ program' \in {"running", "over"}
    BY <1>0, <1>4 DEF StopProgram
  <2> QED
    BY <1>1, <1>4, <2>1 DEF Typed
<1> QED
  BY <1>2, <1>3, <1>4 DEF fPutStr

LEMMA NextType == Typed /\ [Next]_vars => Typed'
<1>1. ASSUME Typed, UNCHANGED vars PROVE Typed'
  BY <1>1 DEF Typed, vars
<1> QED
  BY <1>1, Popen2Type, ChildType, OperationType, PutType DEF Next

-----------------------------------------------------------------------------
(***************************************************************************)
(* Descriptors.  Which ends of c the program may have open follows from    *)
(* how far the call for c has come, and from how c was started.            *)
(***************************************************************************)
EndsOK(c) ==
    /\ stage[c] \in {"none", "failed"} => LetGo(c)
    /\ stage[c] \in {"waiting", "done"} /\ kind[c] # "popen2" => LetGo(c)
    /\ stage[c] = "piped" => In(c) \cap holds[Program] = {}
    /\ stage[c] \in {"open", "waiting", "done"} => {<<c, "out", "w">>, <<c, "in", "r">>} \cap holds[Program] = {}
    /\ stage[c] = "open" /\ kind[c] = "r" => In(c) \cap holds[Program] = {}
    /\ stage[c] = "open" /\ kind[c] = "w" => Out(c) \cap holds[Program] = {}
    /\ stage[c] \in {"none", "piped", "both", "flushed", "forked"} => kind[c] = "popen2"

EndsInv == Typed /\ \A c \in Child : EndsOK(c)

\* LetGo, end by end.
LEMMA LetGoEnds ==
  ASSUME NEW H \in SUBSET End, NEW c \in Child
  PROVE  (\A e \in H : e[1] # c) <=> (In(c) \cap H = {} /\ Out(c) \cap H = {})
BY DEF In, Out, End

\* A step that neither calls nor opens anything.
Shrinks == UNCHANGED <<stage, kind>> /\ holds'[Program] \subseteq holds[Program]

LEMMA ShrinksEnds == ASSUME NEW d \in Child, EndsOK(d), Shrinks PROVE EndsOK(d)'
BY DEF EndsOK, Shrinks, LetGo

LEMMA ChildShrinks ==
  ASSUME Typed, NEW c \in Child, ChildStep(c) \/ child_quit(c) PROVE Shrinks
<1>0. c # Program /\ holds \in [Child \cup {Program} -> SUBSET End]
  BY ProcessAssumption DEF Typed, Program
<1>1. CASE UNCHANGED holds
  BY <1>1 DEF Shrinks, ChildStep, popen2_child, child_read, child_write, child_abandon,
              child_exit, child_quit
<1>2. ASSUME NEW ends, Close(c, ends) PROVE Shrinks
  <2>1. holds'[Program] = holds[Program]
    BY <1>0, <1>2 DEF Close
  <2> QED
    BY <2>1 DEF Shrinks, ChildStep, popen2_child, child_read, child_write, child_abandon,
              child_exit, child_quit
<1>3. UNCHANGED holds \/ \E ends : Close(c, ends)
  BY DEF ChildStep, popen2_child, child_read, child_write, child_abandon,
              child_exit, child_quit, Deliver
<1> QED
  BY <1>1, <1>2, <1>3

LEMMA CloseInShrinks ==
  ASSUME Typed, NEW c \in Child, CloseIn(c)
  PROVE  /\ holds'[Program] = holds[Program] \ {<<c, "in", "w">>} \/ holds'[Program] = {}
         /\ \A d \in Child : holds'[d] = holds[d]
<1>0. holds \in [Child \cup {Program} -> SUBSET End] /\ Program \notin Child
  BY ProcessAssumption DEF Typed, Program
<1> QED
  BY <1>0 DEF CloseIn, Close, StopProgram

LEMMA PutShrinks ==
  ASSUME Typed, NEW s \in Stream, fPutStr(s)
  PROVE  Shrinks /\ \A d \in Child : holds'[d] = holds[d]
<1>0. holds \in [Child \cup {Program} -> SUBSET End] /\ Program \notin Child
  BY ProcessAssumption DEF Typed, Program
<1>1. UNCHANGED holds \/ StopProgram
  BY DEF fPutStr
<1>2. UNCHANGED <<stage, kind>>
  BY DEF fPutStr
<1> QED
  BY <1>0, <1>1, <1>2 DEF Shrinks, StopProgram

\* A step of c that leaves the others as they are.
Own(c) == /\ \A d \in Child \ {c} : stage'[d] = stage[d] /\ kind'[d] = kind[d]
          /\ \A e \in holds'[Program] : e[1] # c => e \in holds[Program]

LEMMA OwnEnds ==
  ASSUME NEW c \in Child, NEW d \in Child, d # c, Own(c), EndsOK(d) PROVE EndsOK(d)'
<1>1. \A io, rw : <<d, io, rw>> \in holds'[Program] => <<d, io, rw>> \in holds[Program]
  BY DEF Own
<1>2. LetGo(d) => LetGo(d)'
  BY DEF Own, LetGo
<1>3. stage'[d] = stage[d] /\ kind'[d] = kind[d]
  BY DEF Own
<1> QED
  BY <1>1, <1>2, <1>3 DEF EndsOK, In, Out

LEMMA InitEnds == Init => EndsInv
<1> SUFFICES ASSUME Init PROVE \A c \in Child : EndsOK(c)
  BY InitType DEF EndsInv
<1>1. holds[Program] = {}
  BY DEF Init
<1> QED
  BY <1>1 DEF Init, EndsOK, LetGo

\* The steps that change a stage or open something.
LEMMA CallEnds ==
  ASSUME EndsInv, ~ForkFails, NEW c \in Child,
         \/ popen2(c) \/ InPopen2(c) \/ popen2Wait(c) \/ pclose(c) \/ wait_end(c)
         \/ \E m \in {"r", "w"} : popen(c, m)
  PROVE  Own(c) /\ EndsOK(c)'
<1>0. /\ holds \in [Child \cup {Program} -> SUBSET End] /\ Program \notin Child
      /\ stage \in [Child -> {"none", "piped", "both", "flushed", "forked", "open",
                            "failed", "waiting", "done"}]
      /\ kind \in [Child -> {"popen2", "r", "w"}] /\ EndsOK(c)
  BY ProcessAssumption DEF EndsInv, Typed, Program
<1>h. holds[Program] \in SUBSET End
  BY <1>0
<1>l. LetGo(c) <=> (In(c) \cap holds[Program] = {} /\ Out(c) \cap holds[Program] = {})
  BY <1>h, LetGoEnds DEF LetGo
<1>p. holds'[Program] \in SUBSET End =>
      (LetGo(c)' <=> (In(c) \cap holds'[Program] = {} /\ Out(c) \cap holds'[Program] = {}))
  BY LetGoEnds DEF LetGo
<1>i. In(c) \cap Out(c) = {}
  BY DEF In, Out
<1>e. \A e \in In(c) \cup Out(c) : e[1] = c
  BY DEF In, Out
<1>1. CASE popen2(c)
  <2>1. CASE Stage(c, "piped") /\ holds' = [holds EXCEPT ![Program] = @ \cup Out(c)]
    <3>1. holds'[Program] = holds[Program] \cup Out(c) /\ stage'[c] = "piped"
          /\ (\A d \in Child \ {c} : stage'[d] = stage[d]) /\ UNCHANGED kind
      BY <1>0, <1>1, <2>1 DEF popen2, Stage
    <3>2. stage[c] = "none"
      BY <1>1 DEF popen2
    <3> QED
      BY <1>0, <1>l, <1>i, <1>e, <3>1, <3>2 DEF Own, EndsOK
  <2>2. CASE Stage(c, "failed") /\ UNCHANGED holds
    <3>1. stage'[c] = "failed" /\ (\A d \in Child \ {c} : stage'[d] = stage[d]) /\ UNCHANGED kind
      BY <1>0, <1>1, <2>2 DEF popen2, Stage
    <3>2. stage[c] = "none"
      BY <1>1 DEF popen2
    <3> QED
      BY <1>0, <2>2, <3>1, <3>2 DEF Own, EndsOK, LetGo
  <2> QED
    BY <1>1, <2>1, <2>2 DEF popen2
<1>2. CASE popen2_pipe(c)
  <2>1. CASE Stage(c, "both") /\ holds' = [holds EXCEPT ![Program] = @ \cup In(c)]
    <3>1. holds'[Program] = holds[Program] \cup In(c) /\ stage'[c] = "both"
          /\ (\A d \in Child \ {c} : stage'[d] = stage[d]) /\ UNCHANGED kind
      BY <1>0, <1>2, <2>1 DEF popen2_pipe, Stage
    <3>2. stage[c] = "piped"
      BY <1>2 DEF popen2_pipe
    <3> QED
      BY <1>0, <1>e, <3>1, <3>2 DEF Own, EndsOK
  <2>2. CASE Stage(c, "failed") /\ Close(Program, Out(c))
    <3>1. holds'[Program] = holds[Program] \ Out(c) /\ stage'[c] = "failed"
          /\ (\A d \in Child \ {c} : stage'[d] = stage[d]) /\ UNCHANGED kind
      BY <1>0, <1>2, <2>2 DEF popen2_pipe, Stage, Close
    <3>2. stage[c] = "piped"
      BY <1>2 DEF popen2_pipe
    <3>3. In(c) \cap holds'[Program] = {} /\ Out(c) \cap holds'[Program] = {}
      BY <1>0, <3>1, <3>2 DEF EndsOK
    <3>4. LetGo(c)'
      BY <1>h, <1>p, <3>1, <3>3
    <3> QED
      BY <1>0, <3>1, <3>4 DEF Own, EndsOK
  <2> QED
    BY <1>2, <2>1, <2>2 DEF popen2_pipe
<1>3. CASE popen2_flush(c)
  <2>1. stage'[c] = "flushed" /\ stage[c] = "both"
        /\ (\A d \in Child \ {c} : stage'[d] = stage[d]) /\ UNCHANGED <<kind, holds>>
    BY <1>0, <1>3 DEF popen2_flush, Stage
  <2> QED
    BY <1>0, <2>1 DEF Own, EndsOK
<1>4. CASE popen2_fork(c)
  <2>1. stage'[c] = "forked" /\ stage[c] = "flushed"
        /\ (\A d \in Child \ {c} : stage'[d] = stage[d]) /\ UNCHANGED kind
        /\ holds'[Program] = holds[Program]
    BY <1>0, <1>4 DEF popen2_fork, Stage
  <2> QED
    BY <1>0, <2>1 DEF Own, EndsOK
<1>5. CASE popen2_parent(c)
  <2>1. stage'[c] = "open" /\ stage[c] = "forked"
        /\ (\A d \in Child \ {c} : stage'[d] = stage[d]) /\ UNCHANGED kind
        /\ holds'[Program] = holds[Program] \ {<<c, "out", "w">>, <<c, "in", "r">>}
    BY <1>0, <1>5 DEF popen2_parent, Stage, Close
  <2> QED
    BY <1>0, <2>1 DEF Own, EndsOK
<1>6. CASE popen2Wait(c)
  <2>1. stage'[c] = "waiting" /\ stage[c] = "open" /\ kind[c] = "popen2"
        /\ (\A d \in Child \ {c} : stage'[d] = stage[d]) /\ UNCHANGED <<kind, holds>>
    BY <1>0, <1>6 DEF popen2Wait, Stage
  <2> QED
    BY <1>0, <2>1 DEF Own, EndsOK, LetGo
<1>7. CASE pclose(c)
  <2>1. stage'[c] = "waiting" /\ stage[c] = "open" /\ kind[c] # "popen2"
        /\ (\A d \in Child \ {c} : stage'[d] = stage[d]) /\ UNCHANGED kind
    BY <1>0, <1>7 DEF pclose, Stage
  <2>2. \/ holds'[Program] = {}
        \/ kind[c] = "w" /\ holds'[Program] = holds[Program] \ {<<c, "in", "w">>}
        \/ kind[c] = "r" /\ holds'[Program] = holds[Program] \ {<<c, "out", "r">>}
    <3>1. CASE kind[c] = "w"
      <4>1. CloseIn(c)
        BY <1>7, <3>1 DEF pclose
      <4> QED
        BY <3>1, <4>1, CloseInShrinks DEF EndsInv
    <3>2. CASE kind[c] = "r"
      BY <1>0, <1>7, <3>2 DEF pclose, Close
    <3> QED
      BY <1>0, <2>1, <3>1, <3>2
  <2>3. In(c) \cap holds'[Program] = {} /\ Out(c) \cap holds'[Program] = {}
    BY <1>0, <2>1, <2>2 DEF EndsOK, In, Out
  <2>4. holds'[Program] \subseteq holds[Program]
    BY <2>2
  <2>5. LetGo(c)'
    BY <1>h, <1>p, <2>3, <2>4
  <2> QED
    BY <1>0, <2>1, <2>4, <2>5 DEF Own, EndsOK
<1>8. CASE wait_end(c)
  <2>1. stage'[c] \in {"waiting", "done"} /\ stage[c] = "waiting"
        /\ (\A d \in Child \ {c} : stage'[d] = stage[d]) /\ UNCHANGED kind
        /\ holds'[Program] \subseteq holds[Program]
    BY <1>0, <1>8 DEF wait_end, Stage, StopProgram
  <2> QED
    BY <1>0, <2>1 DEF Own, EndsOK, LetGo
<1>9. ASSUME NEW m \in {"r", "w"}, popen(c, m) PROVE Own(c) /\ EndsOK(c)'
  <2> DEFINE mine == IF m = "r" THEN <<c, "out", "r">> ELSE <<c, "in", "w">>
  <2>0. CASE Stage(c, "failed") /\ UNCHANGED <<kind, holds>>
    <3>1. stage'[c] = "failed" /\ stage[c] = "none"
          /\ \A d \in Child \ {c} : stage'[d] = stage[d]
      BY <1>0, <1>9, <2>0 DEF popen, Stage
    <3> QED
      BY <1>0, <2>0, <3>1 DEF Own, EndsOK, LetGo
  <2>n. SUFFICES ASSUME Popen(c, m) PROVE Own(c) /\ EndsOK(c)'
    BY <1>9, <2>0 DEF popen
  <2>1. holds'[Program] = holds[Program] \cup {mine}
    BY <1>0, <2>n DEF Popen
  <2>2. stage'[c] = "open" /\ stage[c] = "none" /\ kind'[c] = m
        /\ \A d \in Child \ {c} : stage'[d] = stage[d] /\ kind'[d] = kind[d]
    BY <1>0, <1>9, <2>n DEF popen, Popen, Stage
  <2>3. Own(c)
    BY <2>1, <2>2 DEF Own
  <2>4. In(c) \cap holds[Program] = {} /\ Out(c) \cap holds[Program] = {}
    BY <1>0, <1>l, <2>2 DEF EndsOK
  <2>5. CASE m = "r"
    BY <2>1, <2>2, <2>3, <2>4, <2>5 DEF EndsOK, In, Out
  <2>6. CASE m = "w"
    BY <2>1, <2>2, <2>3, <2>4, <2>6 DEF EndsOK, In, Out
  <2> QED
    BY <2>5, <2>6
<1> QED
  BY <1>1, <1>2, <1>3, <1>4, <1>5, <1>6, <1>7, <1>8, <1>9 DEF InPopen2

\* Reading and closing a stream.
LEMMA StreamShrinks ==
  ASSUME Typed, NEW c \in Child, readOut(c) \/ closeFileIn(c) \/ closeFileOut(c)
  PROVE  Shrinks /\ \A d \in Child : holds'[d] = holds[d]
<1>0. holds \in [Child \cup {Program} -> SUBSET End] /\ Program \notin Child
  BY ProcessAssumption DEF Typed, Program
<1>1. CASE readOut(c)
  BY <1>1 DEF readOut, Shrinks
<1>2. CASE closeFileIn(c)
  BY <1>2, CloseInShrinks DEF closeFileIn, Shrinks
<1>3. CASE closeFileOut(c)
  BY <1>0, <1>3 DEF closeFileOut, Shrinks, Close
<1> QED
  BY <1>1, <1>2, <1>3

\* The program has no descriptor but those of calls in progress and of streams it
\* was given: a call that fails gives back its own, popen2 closes the ends of the
\* child and pclose its stream; for any interleaving of threads and commands and
\* whenever the program waits, as long as fork does not fail.
THEOREM ProcessNothingLeftOpen == ASSUME ~ForkFails PROVE Spec => []NothingLeftOpen
<1>1. EndsInv /\ [Next]_vars => EndsInv'
  <2> SUFFICES ASSUME EndsInv, [Next]_vars, NEW d \in Child PROVE EndsOK(d)'
    BY NextType DEF EndsInv
  <2>1. CASE UNCHANGED vars
    BY <2>1, ShrinksEnds DEF EndsInv, vars, Shrinks
  <2>2. CASE Shrinks
    BY <2>2, ShrinksEnds DEF EndsInv
  <2>3. ASSUME NEW c \in Child, Own(c), EndsOK(c)' PROVE EndsOK(d)'
    BY <2>3, OwnEnds DEF EndsInv
  <2>4. ASSUME NEW c \in Child,
               InPopen2(c) \/ ChildStep(c) \/ child_quit(c) \/ Operation(c) \/ wait_end(c)
        PROVE  EndsOK(d)'
    <3>1. CASE ChildStep(c) \/ child_quit(c)
      BY <2>2, <3>1, ChildShrinks DEF EndsInv
    <3>2. CASE readOut(c) \/ closeFileIn(c) \/ closeFileOut(c)
      BY <2>2, <3>2, StreamShrinks DEF EndsInv
    <3>3. CASE \/ popen2(c) \/ InPopen2(c) \/ popen2Wait(c) \/ pclose(c) \/ wait_end(c)
               \/ \E m \in {"r", "w"} : popen(c, m)
      BY <2>3, <3>3, CallEnds
    <3> QED
      BY <2>4, <3>1, <3>2, <3>3 DEF Operation
  <2>5. ASSUME NEW s \in Stream, fPutStr(s) PROVE EndsOK(d)'
    BY <2>2, <2>5, PutShrinks DEF EndsInv
  <2> QED
    BY <2>1, <2>4, <2>5 DEF Next
<1>2. EndsInv => NothingLeftOpen
  BY DEF EndsInv, EndsOK, NothingLeftOpen, Started
<1> QED
  BY InitEnds, <1>1, <1>2, PTL DEF Spec

-----------------------------------------------------------------------------
(***************************************************************************)
(* Inheritance.  With one thread one call at a time is in progress, so     *)
(* what a fork copies belongs to calls that have got past their own fork,  *)
(* and the number a child gets is larger than every number given so far.   *)
(***************************************************************************)
Settled(c) == stage[c] \notin {"none", "piped", "both", "flushed"}

Single == \A c, d \in Child : InCall(c) /\ InCall(d) => c = d
Fresh  == \A c \in Child : stage[c] = "none" => LetGo(c)
Unborn == \A c \in Child : ~Settled(c) => born[c] = 0
Births == \A c \in Child : born[c] <= Cardinality({d \in Child : born[d] > 0})
Inherited == \A c, d \in Child : <<d, "in", "w">> \in holds[c] =>
               \/ d = c /\ proc[c] = "forked"
               \/ born[d] < born[c] /\ Settled(d)

OrderInv == Typed /\ Single /\ Fresh /\ Unborn /\ Births /\ Inherited

\* A step in which nothing is born.
Calm == /\ UNCHANGED born
        /\ \A c \in Child : /\ holds'[c] \subseteq holds[c]
                            /\ Settled(c) => Settled(c)'
                            /\ proc[c] = "forked" => \/ proc'[c] = "forked"
                                                     \/ <<c, "in", "w">> \notin holds'[c]

LEMMA CalmOrder ==
  ASSUME Unborn, Births, Inherited, Calm PROVE Unborn' /\ Births' /\ Inherited'
<1>1. Unborn'
  BY DEF Unborn, Calm
<1>2. Births'
  BY DEF Births, Calm
<1>3. Inherited'
  <2> SUFFICES ASSUME NEW c \in Child, NEW d \in Child, <<d, "in", "w">> \in holds'[c]
               PROVE  \/ d = c /\ proc'[c] = "forked"
                      \/ born'[d] < born'[c] /\ Settled(d)'
    BY DEF Inherited
  <2>1. \/ d = c /\ proc[c] = "forked"
        \/ born[d] < born[c] /\ Settled(d)
    BY DEF Inherited, Calm
  <2> QED
    BY <2>1 DEF Calm
<1> QED
  BY <1>1, <1>2, <1>3

\* How a step may begin a call, and what it may not open.
CallsKept == \A d \in Child : InCall(d)' =>
               InCall(d) \/ (Free /\ \A x \in Child \ {d} : stage'[x] = stage[x])
FreshKept == \A d \in Child : stage'[d] = "none" =>
               /\ stage[d] = "none"
               /\ \A e \in holds'[Program] : e[1] = d => e \in holds[Program]

LEMMA KeptOrder ==
  ASSUME Single, Fresh, ~Threaded, CallsKept, FreshKept PROVE Single' /\ Fresh'
<1>1. Single'
  <2> SUFFICES ASSUME NEW c \in Child, NEW d \in Child, InCall(c)', InCall(d)' PROVE c = d
    BY DEF Single
  <2>1. CASE InCall(c) /\ InCall(d)
    BY <2>1 DEF Single
  <2>2. ASSUME NEW a \in Child, NEW b \in Child, a # b, InCall(b)', Free,
               \A x \in Child \ {a} : stage'[x] = stage[x]
        PROVE  FALSE
    BY <2>2 DEF Free, InCall
  <2> QED
    BY <2>1, <2>2 DEF CallsKept
<1>2. Fresh'
  BY DEF Fresh, FreshKept, LetGo
<1> QED
  BY <1>1, <1>2

\* The steps of the commands, the streams and the end of the program.
LEMMA ShrinksKept == ASSUME Shrinks PROVE CallsKept /\ FreshKept
BY DEF Shrinks, CallsKept, FreshKept, InCall

LEMMA ChildCalm ==
  ASSUME Typed, NEW c \in Child, ChildStep(c) \/ child_quit(c) PROVE Calm
<1>0. /\ holds \in [Child \cup {Program} -> SUBSET End] /\ Program \notin Child
      /\ proc \in [Child -> {"none", "forked", "running", "exiting", "exited", "killed"}]
  BY ProcessAssumption DEF Typed, Program
<1>1. UNCHANGED <<stage, born>>
  BY DEF ChildStep, popen2_child, child_read, child_write, child_abandon, child_exit,
         child_quit
<1>2. CASE popen2_child(c)
  <2>1. /\ \A d \in Child : holds'[d] \subseteq holds[d]
        /\ \A d \in Child \ {c} : proc'[d] = proc[d]
        /\ <<c, "in", "w">> \notin holds'[c]
    BY <1>0, <1>2 DEF popen2_child, Close, Proc
  <2> QED
    BY <1>1, <2>1 DEF Calm, Settled
<1>3. CASE ~popen2_child(c)
  <2>1. proc[c] # "forked"
    BY <1>3 DEF ChildStep, child_read, child_write, child_abandon, child_exit, child_quit
  <2>2. UNCHANGED holds \/ Close(c, holds[c])
    BY <1>3 DEF ChildStep, child_read, child_write, child_abandon, child_exit, child_quit,
                Deliver
  <2>3. UNCHANGED proc \/ \E l : Proc(c, l)
    BY <1>3 DEF ChildStep, child_read, child_write, child_abandon, child_exit, child_quit,
                Deliver
  <2>4. \A d \in Child : holds'[d] \subseteq holds[d]
    BY <1>0, <2>2 DEF Close
  <2>5. \A d \in Child \ {c} : proc'[d] = proc[d]
    BY <1>0, <2>3 DEF Proc
  <2> QED
    BY <1>1, <2>1, <2>4, <2>5 DEF Calm, Settled
<1> QED
  BY <1>2, <1>3

\* The steps of a call that are not its fork.
LEMMA CallCalm ==
  ASSUME Typed, NEW c \in Child,
         \/ popen2(c) \/ popen2_pipe(c) \/ popen2_flush(c) \/ popen2_parent(c)
         \/ popen2Wait(c) \/ pclose(c) \/ wait_end(c)
  PROVE  Calm /\ CallsKept /\ FreshKept
<1>0. /\ holds \in [Child \cup {Program} -> SUBSET End] /\ Program \notin Child
      /\ stage \in [Child -> {"none", "piped", "both", "flushed", "forked", "open",
                            "failed", "waiting", "done"}]
  BY ProcessAssumption DEF Typed, Program
<1>1. UNCHANGED <<born, proc>> /\ \E l : stage' = [stage EXCEPT ![c] = l]
  BY <1>0 DEF popen2, popen2_pipe, popen2_flush, popen2_parent, popen2Wait, pclose, wait_end,
         Stage
<1>2. \A d \in Child \ {c} : stage'[d] = stage[d]
  BY <1>0, <1>1
<1>3. /\ \A d \in Child : holds'[d] = holds[d]
      /\ \A e \in holds'[Program] : e[1] # c => e \in holds[Program]
  <2>1. CASE pclose(c)
    <3>1. CASE kind[c] = "w"
      BY <2>1, <3>1, CloseInShrinks DEF pclose
    <3>2. CASE kind[c] # "w"
      BY <1>0, <2>1, <3>2 DEF pclose, Close
    <3> QED
      BY <3>1, <3>2
  <2>2. CASE wait_end(c) \/ popen2Wait(c) \/ popen2_flush(c)
    BY <1>0, <2>2 DEF wait_end, popen2Wait, popen2_flush, StopProgram
  <2>3. CASE popen2_parent(c)
    BY <1>0, <2>3 DEF popen2_parent, Close
  <2>4. CASE popen2(c)
    BY <1>0, <2>4 DEF popen2, Out
  <2>5. CASE popen2_pipe(c)
    BY <1>0, <2>5 DEF popen2_pipe, Close, In, Out
  <2> QED
    BY <2>1, <2>2, <2>3, <2>4, <2>5
<1>4. /\ stage'[c] # "none" /\ (Settled(c) => Settled(c)')
      /\ InCall(c)' => InCall(c) \/ Free
  BY <1>0 DEF popen2, popen2_pipe, popen2_flush, popen2_parent, popen2Wait, pclose, wait_end,
         Stage, Settled, InCall
<1>5. Calm
  BY <1>1, <1>2, <1>3, <1>4 DEF Calm, Settled
<1>6. CallsKept
  BY <1>2, <1>4 DEF CallsKept, InCall
<1>7. FreshKept
  BY <1>2, <1>3, <1>4 DEF FreshKept
<1> QED
  BY <1>5, <1>6, <1>7

\* A birth: the new child gets ends of settled calls, and the next number.
LEMMA BirthOrder ==
  ASSUME OrderInv, NEW c \in Child, ~Settled(c), Settled(c)', NewBorn(c),
         \A d \in Child \ {c} : stage'[d] = stage[d] /\ holds'[d] = holds[d] /\ proc'[d] = proc[d],
         \A d \in Child : <<d, "in", "w">> \in holds'[c] =>
            (d = c /\ proc'[c] = "forked") \/ (d # c /\ Settled(d))
  PROVE  Unborn' /\ Births' /\ Inherited'
<1> DEFINE B == {d \in Child : born[d] > 0}
           n == Cardinality(B)
<1>1. IsFiniteSet(B) /\ n \in Nat
  BY BornFinite
<1>2. born \in [Child -> Nat] /\ born[c] = 0
  BY DEF OrderInv, Typed, Unborn
<1>3. born'[c] = 1 + n /\ \A d \in Child \ {c} : born'[d] = born[d]
  BY <1>2 DEF NewBorn
<1>4. {d \in Child : born'[d] > 0} = B \cup {c} /\ c \notin B
  BY <1>1, <1>2, <1>3
<1>5. Cardinality(B \cup {c}) = n + 1
  BY <1>1, <1>4, FS_AddElement
<1>6. \A d \in Child : born[d] <= n
  BY DEF OrderInv, Births
<1> HIDE DEF B, n
<1>7. Unborn'
  BY <1>3 DEF OrderInv, Unborn, Settled
<1>8. Births'
  <2>1. Cardinality({d \in Child : born'[d] > 0}) = n + 1
    BY <1>4, <1>5
  <2>2. \A d \in Child : born'[d] <= n + 1
    BY <1>1, <1>2, <1>3, <1>6
  <2> QED
    BY <2>1, <2>2 DEF Births
<1>9. Inherited'
  <2> SUFFICES ASSUME NEW x \in Child, NEW d \in Child, <<d, "in", "w">> \in holds'[x]
               PROVE  \/ d = x /\ proc'[x] = "forked"
                      \/ born'[d] < born'[x] /\ Settled(d)'
    BY DEF Inherited
  <2>1. CASE x = c
    <3>1. CASE d = c /\ proc'[c] = "forked"
      BY <2>1, <3>1
    <3>2. CASE d # c /\ Settled(d)
      BY <1>1, <1>2, <1>3, <1>6, <2>1, <3>2 DEF Settled
    <3> QED
      BY <2>1, <3>1, <3>2
  <2>2. CASE x # c
    <3>1. \/ d = x /\ proc[x] = "forked"
          \/ born[d] < born[x] /\ Settled(d)
      BY <2>2 DEF OrderInv, Inherited
    <3>2. CASE d = x /\ proc[x] = "forked"
      BY <2>2, <3>2
    <3>3. CASE born[d] < born[x] /\ Settled(d)
      <4>1. d # c
        BY <3>3
      <4> QED
        BY <1>3, <2>2, <3>3, <4>1 DEF Settled
    <3> QED
      BY <3>1, <3>2, <3>3
  <2> QED
    BY <2>1, <2>2
<1> QED
  BY <1>7, <1>8, <1>9

LEMMA ForkOrder ==
  ASSUME OrderInv, ~Threaded, NEW c \in Child, popen2_fork(c) PROVE OrderInv'
<1>0. /\ holds \in [Child \cup {Program} -> SUBSET End] /\ Program \notin Child
      /\ stage \in [Child -> {"none", "piped", "both", "flushed", "forked", "open",
                            "failed", "waiting", "done"}]
      /\ proc \in [Child -> {"none", "forked", "running", "exiting", "exited", "killed"}]
  BY ProcessAssumption DEF OrderInv, Typed, Program
<1>1. Typed'
  BY Popen2Type DEF OrderInv, InPopen2
<1>2. /\ stage[c] = "flushed" /\ stage'[c] \in {"forked", "failed"}
      /\ \A d \in Child \ {c} : stage'[d] = stage[d]
  BY <1>0 DEF popen2_fork, Stage
<1>3. holds'[Program] = holds[Program]
  BY <1>0 DEF popen2_fork
<1>4. CallsKept /\ FreshKept
  BY <1>2, <1>3 DEF CallsKept, FreshKept, InCall
<1>5. CASE UNCHANGED <<proc, born, holds>>
  <2>1. Calm
    BY <1>2, <1>5 DEF Calm, Settled
  <2> QED
    BY <1>1, <1>4, <2>1, CalmOrder, KeptOrder DEF OrderInv
<1>6. CASE /\ Proc(c, "forked") /\ NewBorn(c)
           /\ holds' = [holds EXCEPT ![c] = holds[Program]]
  <2>1. /\ holds'[c] = holds[Program] /\ proc'[c] = "forked"
        /\ \A d \in Child \ {c} : holds'[d] = holds[d] /\ proc'[d] = proc[d]
    BY <1>0, <1>6 DEF Proc
  <2>2. ASSUME NEW d \in Child, d # c, <<d, "in", "w">> \in holds[Program] PROVE Settled(d)
    <3>1. ~InCall(d)
      BY <1>2, <2>2 DEF OrderInv, Single, InCall
    <3>2. stage[d] # "none"
      BY <2>2 DEF OrderInv, Fresh, LetGo
    <3> QED
      BY <3>1, <3>2 DEF Settled, InCall
  <2>3. Unborn' /\ Births' /\ Inherited'
    BY <1>2, <1>6, <2>1, <2>2, BirthOrder DEF Settled
  <2> QED
    BY <1>1, <1>4, <2>3, KeptOrder DEF OrderInv
<1> QED
  BY <1>5, <1>6 DEF popen2_fork

LEMMA PopenOrder ==
  ASSUME OrderInv, ~Threaded, NEW c \in Child, NEW m \in {"r", "w"}, popen(c, m)
  PROVE  OrderInv'
<1>0. /\ holds \in [Child \cup {Program} -> SUBSET End] /\ Program \notin Child
      /\ stage \in [Child -> {"none", "piped", "both", "flushed", "forked", "open",
                            "failed", "waiting", "done"}]
      /\ proc \in [Child -> {"none", "forked", "running", "exiting", "exited", "killed"}]
  BY ProcessAssumption DEF OrderInv, Typed, Program
<1>1. Typed'
  BY OperationType DEF OrderInv, Operation
<1>f. CASE Stage(c, "failed") /\ UNCHANGED <<proc, born, holds>>
  <2>1. /\ stage[c] = "none" /\ stage'[c] = "failed"
        /\ \A d \in Child \ {c} : stage'[d] = stage[d]
    BY <1>0, <1>f DEF popen, Stage
  <2>2. CallsKept /\ FreshKept
    BY <1>f, <2>1 DEF CallsKept, FreshKept, InCall
  <2>3. Calm
    BY <1>f, <2>1 DEF Calm, Settled
  <2> QED
    BY <1>1, <2>2, <2>3, CalmOrder, KeptOrder DEF OrderInv
<1>n. SUFFICES ASSUME Popen(c, m) PROVE OrderInv'
  BY <1>f DEF popen
<1>2. /\ stage[c] = "none" /\ stage'[c] = "open" /\ Free /\ NewBorn(c)
      /\ \A d \in Child \ {c} : stage'[d] = stage[d] /\ proc'[d] = proc[d]
  BY <1>0, <1>n DEF popen, Popen, Stage, Proc
<1> DEFINE mine == IF m = "r" THEN <<c, "out", "r">> ELSE <<c, "in", "w">>
           its  == IF m = "r" THEN <<c, "out", "w">> ELSE <<c, "in", "r">>
<1>3. /\ holds'[Program] = holds[Program] \cup {mine}
      /\ holds'[c] = {e \in holds[Program] : e[1] \notin Popened} \cup {its}
      /\ \A d \in Child \ {c} : holds'[d] = holds[d]
  BY <1>0, <1>n DEF Popen
<1>4. mine[1] = c
  OBVIOUS
<1>5. CallsKept /\ FreshKept
  BY <1>2, <1>3, <1>4 DEF CallsKept, FreshKept, InCall
<1>6. ASSUME NEW d \in Child, <<d, "in", "w">> \in holds'[c] PROVE d # c /\ Settled(d)
  <2>1. <<d, "in", "w">> \in holds[Program]
    BY <1>3, <1>6
  <2>2. stage[d] # "none"
    BY <2>1 DEF OrderInv, Fresh, LetGo
  <2>3. ~InCall(d)
    BY <1>2 DEF Free
  <2> QED
    BY <1>2, <2>2, <2>3 DEF Settled, InCall
<1>7. Unborn' /\ Births' /\ Inherited'
  BY <1>2, <1>3, <1>6, BirthOrder DEF Settled
<1> QED
  BY <1>1, <1>5, <1>7, KeptOrder DEF OrderInv

LEMMA InitOrder == Init => OrderInv
<1> SUFFICES ASSUME Init PROVE OrderInv
  OBVIOUS
<1>1. Single /\ Fresh /\ Unborn /\ Inherited
  BY DEF Init, Single, Fresh, Unborn, Inherited, InCall, LetGo
<1>2. Births
  <2>1. \A c \in Child : born[c] = 0
    BY DEF Init
  <2>2. Cardinality({d \in Child : born[d] > 0}) \in Nat
    BY BornFinite
  <2> QED
    BY <2>1, <2>2 DEF Births
<1> QED
  BY <1>1, <1>2, InitType DEF OrderInv

\* A program with one thread passes the input of a command only to commands
\* it starts later, and never to the command itself, whichever calls fail: the
\* waits for the end of an input cannot be circular.
THEOREM ProcessInheritOrder == ASSUME ~Threaded PROVE Spec => []InheritOrder
<1>1. OrderInv /\ [Next]_vars => OrderInv'
  <2> SUFFICES ASSUME OrderInv, [Next]_vars PROVE OrderInv'
    OBVIOUS
  <2>1. Typed'
    BY NextType DEF OrderInv
  <2>2. ASSUME Calm, CallsKept, FreshKept PROVE OrderInv'
    BY <2>1, <2>2, CalmOrder, KeptOrder DEF OrderInv
  <2>3. CASE UNCHANGED vars
    BY <2>2, <2>3 DEF Calm, CallsKept, FreshKept, vars, Settled, InCall
  <2>4. ASSUME Shrinks, UNCHANGED <<born, proc>>, \A d \in Child : holds'[d] = holds[d]
        PROVE  OrderInv'
    BY <2>2, <2>4, ShrinksKept DEF Calm, Shrinks, Settled
  <2>5. ASSUME NEW c \in Child,
               InPopen2(c) \/ ChildStep(c) \/ child_quit(c) \/ Operation(c) \/ wait_end(c)
        PROVE  OrderInv'
    <3>1. CASE ChildStep(c) \/ child_quit(c)
      BY <2>2, <3>1, ChildShrinks, ShrinksKept, ChildCalm DEF OrderInv
    <3>2. CASE readOut(c) \/ closeFileIn(c) \/ closeFileOut(c)
      <4>1. UNCHANGED <<born, proc>>
        BY <3>2 DEF readOut, closeFileIn, closeFileOut
      <4> QED
        BY <2>4, <3>2, <4>1, StreamShrinks DEF OrderInv
    <3>3. CASE \/ popen2(c) \/ popen2_pipe(c) \/ popen2_flush(c) \/ popen2_parent(c)
               \/ popen2Wait(c) \/ pclose(c) \/ wait_end(c)
      BY <2>2, <3>3, CallCalm DEF OrderInv
    <3>4. CASE popen2_fork(c)
      BY <3>4, ForkOrder
    <3>5. ASSUME NEW m \in {"r", "w"}, popen(c, m) PROVE OrderInv'
      BY <3>5, PopenOrder
    <3> QED
      BY <2>5, <3>1, <3>2, <3>3, <3>4, <3>5 DEF Operation, InPopen2
  <2>6. ASSUME NEW s \in Stream, fPutStr(s) PROVE OrderInv'
    <3>1. UNCHANGED <<born, proc>>
      BY <2>6 DEF fPutStr
    <3> QED
      BY <2>4, <2>6, <3>1, PutShrinks DEF OrderInv
  <2> QED
    BY <2>3, <2>5, <2>6 DEF Next
<1>2. OrderInv => InheritOrder
  BY DEF OrderInv, Inherited, InheritOrder
<1> QED
  BY InitOrder, <1>1, <1>2, PTL DEF Spec

-----------------------------------------------------------------------------
(***************************************************************************)
(* Double printing.  Between the flush and the fork a program with one     *)
(* thread writes nothing, so the buffers a child copies are empty.         *)
(***************************************************************************)
PrintInv ==
    /\ Typed
    /\ \A c \in Child : stage[c] = "flushed" => pend["stdout"] = 0
    /\ \A c \in Child : pend[c] = 0
    /\ \A c \in Child, s \in Stream : copy[c][s] = 0
    /\ PrintedOnce

LEMMA InitPrint == Init => PrintInv
BY InitType, EndKinds DEF Init, PrintInv, PrintedOnce

\* A step that prints nothing and is not a flush.
Silent == /\ UNCHANGED <<written, pend, reached, copy>>
          /\ \A c \in Child : stage'[c] = "flushed" => stage[c] = "flushed"

LEMMA SilentPrint == ASSUME PrintInv, Silent, Typed' PROVE PrintInv'
BY DEF PrintInv, Silent, PrintedOnce

LEMMA FlushPrint ==
  ASSUME PrintInv, Typed', NEW c \in Child, popen2_flush(c) PROVE PrintInv'
<1>0. /\ reached \in [Stream -> Nat] /\ pend \in [Stream -> Nat] /\ written \in [Stream -> Nat]
      /\ "stdout" \in Stream /\ Child \subseteq Stream /\ "stdout" \notin Child
  BY EndKinds, ProcessAssumption DEF PrintInv, Typed
<1>1. /\ reached' = [reached EXCEPT !["stdout"] = @ + pend["stdout"]]
      /\ pend' = [pend EXCEPT !["stdout"] = 0] /\ UNCHANGED <<written, copy>>
  BY DEF popen2_flush
<1>2. /\ pend'["stdout"] = 0 /\ reached'["stdout"] = reached["stdout"] + pend["stdout"]
      /\ \A s \in Stream \ {"stdout"} : pend'[s] = pend[s] /\ reached'[s] = reached[s]
  BY <1>0, <1>1
<1>3. PrintedOnce'
  <2> SUFFICES ASSUME NEW s \in Stream PROVE reached'[s] + pend'[s] <= written'[s]
    BY DEF PrintedOnce
  <2>1. reached[s] + pend[s] <= written[s] /\ reached[s] \in Nat /\ pend[s] \in Nat
    BY <1>0 DEF PrintInv, PrintedOnce
  <2> QED
    BY <1>1, <1>2, <2>1
<1> QED
  BY <1>0, <1>1, <1>2, <1>3 DEF PrintInv

LEMMA CloseInPrint ==
  ASSUME PrintInv, NEW c \in Child, CloseIn(c) PROVE UNCHANGED <<pend, reached>>
<1>0. /\ reached \in [Stream -> Nat] /\ pend \in [Stream -> Nat] /\ c \in Stream /\ pend[c] = 0
  BY EndKinds DEF PrintInv, Typed
<1>1. CASE /\ reached' = [reached EXCEPT ![c] = @ + pend[c]]
           /\ pend' = [pend EXCEPT ![c] = 0]
  BY <1>0, <1>1
<1>2. CASE UNCHANGED <<fill, reached, pend>>
  BY <1>2
<1> QED
  BY <1>1, <1>2 DEF CloseIn

\* putStr and fPutStr.
LEMMA PutPrint ==
  ASSUME PrintInv, Typed', ~Threaded, Buffered \subseteq {"stdout"},
         NEW s \in Stream, fPutStr(s)
  PROVE  PrintInv'
<1>0. /\ reached \in [Stream -> Nat] /\ pend \in [Stream -> Nat] /\ written \in [Stream -> Nat]
      /\ "stdout" \in Stream /\ Child \subseteq Stream /\ "stdout" \notin Child
  BY EndKinds, ProcessAssumption DEF PrintInv, Typed
<1>1. /\ Free /\ UNCHANGED <<stage, copy>> /\ written'[s] = written[s] + 1
      /\ \A t \in Stream \ {s} : written'[t] = written[t]
  BY <1>0 DEF fPutStr
<1>2. \A c \in Child : stage[c] # "flushed"
  BY <1>1 DEF Free, InCall
<1>3. \/ s = "stdout" /\ pend' = [pend EXCEPT ![s] = @ + 1] /\ UNCHANGED reached
      \/ reached' = [reached EXCEPT ![s] = @ + 1] /\ UNCHANGED pend
      \/ UNCHANGED <<pend, reached>>
  BY DEF fPutStr
<1>4. /\ \A c \in Child : pend'[c] = pend[c]
      /\ reached'[s] + pend'[s] <= reached[s] + pend[s] + 1
      /\ \A t \in Stream \ {s} : reached'[t] = reached[t] /\ pend'[t] = pend[t]
  <2>1. CASE s = "stdout" /\ pend' = [pend EXCEPT ![s] = @ + 1] /\ UNCHANGED reached
    BY <1>0, <2>1
  <2>2. CASE reached' = [reached EXCEPT ![s] = @ + 1] /\ UNCHANGED pend
    BY <1>0, <2>2
  <2>3. CASE UNCHANGED <<pend, reached>>
    BY <1>0, <2>3
  <2> QED
    BY <1>3, <2>1, <2>2, <2>3
<1>5. PrintedOnce'
  <2> SUFFICES ASSUME NEW t \in Stream PROVE reached'[t] + pend'[t] <= written'[t]
    BY DEF PrintedOnce
  <2>1. /\ reached[t] + pend[t] <= written[t] /\ reached[t] \in Nat /\ pend[t] \in Nat
        /\ written[t] \in Nat /\ reached'[t] \in Nat /\ pend'[t] \in Nat
    BY <1>0 DEF PrintInv, PrintedOnce, Typed
  <2>2. CASE t = s
    BY <1>1, <1>4, <2>1, <2>2
  <2>3. CASE t # s
    BY <1>1, <1>4, <2>1, <2>3
  <2> QED
    BY <2>2, <2>3
<1> QED
  BY <1>1, <1>2, <1>4, <1>5 DEF PrintInv

\* "to save from double-printing": in a program with one thread that leaves
\* only stdout buffered, what is given to a stream is delivered at most once,
\* whether or not execlp succeeds in the child.
THEOREM ProcessPrintedOnce ==
  ASSUME ~Threaded, Buffered \subseteq {"stdout"}
  PROVE  Spec => []PrintedOnce
<1>1. PrintInv /\ [Next]_vars => PrintInv'
  <2> SUFFICES ASSUME PrintInv, [Next]_vars PROVE PrintInv'
    OBVIOUS
  <2>0. /\ Typed'
        /\ stage \in [Child -> {"none", "piped", "both", "flushed", "forked", "open",
                            "failed", "waiting", "done"}]
        /\ copy \in [Child -> [Stream -> Nat]]
    BY NextType DEF PrintInv, Typed
  <2>1. ASSUME Silent PROVE PrintInv'
    BY <2>0, <2>1, SilentPrint
  <2>2. CASE UNCHANGED vars
    BY <2>1, <2>2 DEF vars, Silent
  <2>3. ASSUME NEW c \in Child,
               InPopen2(c) \/ ChildStep(c) \/ child_quit(c) \/ Operation(c) \/ wait_end(c)
        PROVE  PrintInv'
    <3>1. CASE popen2_flush(c)
      BY <2>0, <3>1, FlushPrint
    <3>2. CASE popen2_fork(c)
      <4>1. /\ \A d \in Child : stage'[d] # "flushed" \/ stage'[d] = stage[d]
            /\ UNCHANGED <<written, pend, reached>> /\ stage[c] = "flushed"
            /\ UNCHANGED copy \/ copy' = [copy EXCEPT ![c] = pend]
        BY <2>0, <3>2 DEF popen2_fork, Stage, data
      <4>2. \A s \in Stream : pend[s] = 0
        BY <4>1 DEF PrintInv, Stream
      <4>3. \A d \in Child, s \in Stream : copy'[d][s] = 0
        BY <2>0, <4>1, <4>2 DEF PrintInv
      <4> QED
        BY <2>0, <4>1, <4>3 DEF PrintInv, PrintedOnce
    <3>3. CASE popen2_child(c)
      <4>1. UNCHANGED <<stage, written, pend, reached>>
            /\ (UNCHANGED copy \/ copy' = [copy EXCEPT ![c] = [s \in Stream |-> 0]])
        BY <3>3 DEF popen2_child, data
      <4>2. \A d \in Child, s \in Stream : copy'[d][s] = 0
        BY <2>0, <4>1 DEF PrintInv
      <4> QED
        BY <2>0, <4>1, <4>2 DEF PrintInv, PrintedOnce
    <3>4. CASE child_abandon(c)
      <4>1. \A s \in Stream : copy[c][s] = 0
        BY DEF PrintInv
      <4>2. UNCHANGED <<stage, written, pend, reached, copy>>
        BY <3>4, <4>1 DEF child_abandon
      <4> QED
        BY <2>1, <4>2 DEF Silent
    <3>5. CASE child_read(c) \/ child_write(c) \/ child_exit(c) \/ child_quit(c)
               \/ readOut(c) \/ closeFileOut(c)
      BY <2>1, <3>5 DEF child_read, child_write, child_exit, child_quit, readOut,
                        closeFileOut, Silent, data
    <3>6. CASE closeFileIn(c)
      BY <2>1, <3>6, CloseInPrint DEF closeFileIn, Silent
    <3>7. CASE pclose(c)
      <4>1. \A d \in Child : stage'[d] = "flushed" => stage[d] = "flushed"
        BY <2>0, <3>7 DEF pclose, Stage
      <4>2. UNCHANGED <<written, copy, pend, reached>>
        BY <3>7, CloseInPrint DEF pclose
      <4> QED
        BY <2>1, <4>1, <4>2 DEF Silent
    <3>8. CASE popen2(c) \/ popen2_pipe(c) \/ popen2_parent(c) \/ popen2Wait(c) \/ wait_end(c)
      <4>1. \A d \in Child : stage'[d] = "flushed" => stage[d] = "flushed"
        BY <2>0, <3>8 DEF popen2, popen2_pipe, popen2_parent, popen2Wait, wait_end, Stage
      <4>2. UNCHANGED <<written, copy, pend, reached>>
        BY <3>8 DEF popen2, popen2_pipe, popen2_parent, popen2Wait, wait_end, data
      <4> QED
        BY <2>1, <4>1, <4>2 DEF Silent
    <3>9. ASSUME NEW m \in {"r", "w"}, popen(c, m) PROVE PrintInv'
      <4>1. \A d \in Child : stage'[d] = "flushed" => stage[d] = "flushed"
        BY <2>0, <3>9 DEF popen, Popen, Stage
      <4>2. UNCHANGED <<written, copy, pend, reached>>
        BY <3>9 DEF popen
      <4> QED
        BY <2>1, <4>1, <4>2 DEF Silent
    <3> QED
      BY <2>3, <3>1, <3>2, <3>3, <3>4, <3>5, <3>6, <3>7, <3>8, <3>9
         DEF InPopen2, ChildStep, Operation
  <2>4. ASSUME NEW s \in Stream, fPutStr(s) PROVE PrintInv'
    BY <2>0, <2>4, PutPrint
  <2> QED
    BY <2>2, <2>3, <2>4 DEF Next
<1>2. PrintInv => PrintedOnce
  BY DEF PrintInv
<1> QED
  BY InitPrint, <1>1, <1>2, PTL DEF Spec

=============================================================================
