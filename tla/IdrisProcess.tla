---------------------------- MODULE IdrisProcess ----------------------------
(***************************************************************************)
(* Processes started with popen2 and popen (_/support/c/idris_file.c),     *)
(* the pipes between them and the program, and the data that stdio still   *)
(* holds back when the program forks.                                      *)
(*                                                                         *)
(* pipe(2), fork(2) and execlp(3) are steps of their own: between two of   *)
(* them another thread of the program may act, and each may fail.  A       *)
(* forked process has a copy of every descriptor and of every unwritten    *)
(* stdio buffer; execlp keeps the descriptors and forgets the buffers, and *)
(* exit writes them.  What is sent is counted, not looked at.  The code of *)
(* the Windows branches is not modelled.                                   *)
(***************************************************************************)
EXTENDS Integers, FiniteSets

CONSTANTS Child,      \* the processes the program may start
          Threaded,   \* several threads of the program may act at once
          PipeFails,  \* pipe may find no free descriptors
          ForkFails,  \* fork may fail
          ExecFails,  \* execlp may fail
          Buffered,   \* the streams whose data stdio holds back
          Cap,        \* how much a pipe holds
          MaxWrites   \* bound on what the program writes to a stream

ASSUME ProcessAssumption ==
    /\ IsFiniteSet(Child) /\ "stdout" \notin Child /\ "program" \notin Child
    /\ {Threaded, PipeFails, ForkFails, ExecFails} \subseteq BOOLEAN
    /\ Buffered \subseteq Child \cup {"stdout"}
    /\ Cap \in Nat \ {0} /\ MaxWrites \in Nat

VARIABLES stage,    \* how far the call that starts each child has come
          kind,     \* "popen2", or the mode of the popen
          proc,     \* the state of each child
          born,     \* the order of the forks
          holds,    \* the pipe ends each child and the program have open
          fill,     \* what is in each pipe
          hand,     \* what each child has read or made and not yet written
          written, pend, reached,  \* of each stream: data given to stdio, data
                                   \* held back, data that was delivered
          copy,     \* the unwritten data a forked child has a copy of
          program   \* "running", or "over" when it was stopped

vars == <<stage, kind, proc, born, holds, fill, hand, written, pend, reached,
          copy, program>>

Program == "program"
Stream  == Child \cup {"stdout"}      \* stdout, and the input of each child
Pipe    == Child \X {"in", "out"}
End     == Child \X {"in", "out"} \X {"r", "w"}

In(c)  == {<<c, "in", "r">>, <<c, "in", "w">>}
Out(c) == {<<c, "out", "r">>, <<c, "out", "w">>}
HasReader(p) == \E x \in DOMAIN holds : <<p[1], p[2], "r">> \in holds[x]
HasWriter(p) == \E x \in DOMAIN holds : <<p[1], p[2], "w">> \in holds[x]

Init ==
    /\ stage = [c \in Child |-> "none"] /\ kind = [c \in Child |-> "popen2"]
    /\ proc = [c \in Child |-> "none"] /\ born = [c \in Child |-> 0]
    /\ holds = [x \in Child \cup {Program} |-> {}]
    /\ fill = [p \in Pipe |-> 0] /\ hand = [c \in Child |-> 0]
    /\ written = [s \in Stream |-> 0] /\ pend = [s \in Stream |-> 0]
    /\ reached = [s \in Stream |-> 0]
    /\ copy = [c \in Child |-> [s \in Stream |-> 0]]
    /\ program = "running"

\* A call that has begun and not returned.
InCall(c) == stage[c] \in {"piped", "both", "flushed", "forked", "waiting"}
\* A thread of the program can begin something.
Free == program = "running" /\ (Threaded \/ ~ \E c \in Child : InCall(c))

Close(x, ends)  == holds' = [holds EXCEPT ![x] = @ \ ends]
Stage(c, l)     == stage' = [stage EXCEPT ![c] = l]
Proc(c, l)      == proc' = [proc EXCEPT ![c] = l]
NewBorn(c)      == born' = [born EXCEPT ![c] = 1 + Cardinality({d \in Child : born[d] > 0})]
data            == <<fill, hand, written, pend, reached>>

\* abort() in IDRIS2_VERIFY, or SIGPIPE: the system closes everything.
StopProgram == program' = "over" /\ holds' = [holds EXCEPT ![Program] = {}]

-----------------------------------------------------------------------------
(* idris2_popen2. *)

\* pipe(&pipes[0]): the pipe the child writes to.
popen2(c) ==
    /\ Free /\ stage[c] = "none"
    /\ \/ Stage(c, "piped") /\ holds' = [holds EXCEPT ![Program] = @ \cup Out(c)]
       \/ PipeFails /\ Stage(c, "failed") /\ UNCHANGED holds
    /\ UNCHANGED <<kind, proc, born, data, copy, program>>

\* pipe(&pipes[2]): the pipe the child reads from.  When it fails the first
\* pipe is closed.  Mutant: it is not.
popen2_pipe_Leaks(c) ==
    /\ stage[c] = "piped" /\ program = "running"
    /\ \/ Stage(c, "both") /\ holds' = [holds EXCEPT ![Program] = @ \cup In(c)]
       \/ PipeFails /\ Stage(c, "failed") /\ UNCHANGED holds
    /\ UNCHANGED <<kind, proc, born, data, copy, program>>
popen2_pipe(c) ==
    /\ stage[c] = "piped" /\ program = "running"
    /\ \/ Stage(c, "both") /\ holds' = [holds EXCEPT ![Program] = @ \cup In(c)]
       \/ PipeFails /\ Stage(c, "failed") /\ Close(Program, Out(c))
    /\ UNCHANGED <<kind, proc, born, data, copy, program>>

\* fflush(stdout).  Mutant: it is missing.
popen2_flush_None(c) ==
    /\ stage[c] = "both" /\ program = "running"
    /\ Stage(c, "flushed")
    /\ UNCHANGED <<kind, proc, born, holds, data, copy, program>>
popen2_flush(c) ==
    /\ stage[c] = "both" /\ program = "running"
    /\ Stage(c, "flushed")
    /\ reached' = [reached EXCEPT !["stdout"] = @ + pend["stdout"]]
    /\ pend' = [pend EXCEPT !["stdout"] = 0]
    /\ UNCHANGED <<kind, proc, born, holds, fill, hand, written, copy, program>>

\* fork: on failure the call returns NULL at once.
popen2_fork(c) ==
    /\ stage[c] = "flushed" /\ program = "running"
    /\ \/ /\ Stage(c, "forked") /\ Proc(c, "forked") /\ NewBorn(c)
          /\ holds' = [holds EXCEPT ![c] = holds[Program]]
          /\ copy' = [copy EXCEPT ![c] = pend]
       \/ /\ ForkFails /\ Stage(c, "failed")
          /\ UNCHANGED <<proc, born, holds, copy>>
    /\ UNCHANGED <<kind, data, program>>

\* The program keeps pipes[3] and pipes[0] as streams.
popen2_parent(c) ==
    /\ stage[c] = "forked" /\ program = "running"
    /\ Stage(c, "open")
    /\ Close(Program, {<<c, "out", "w">>, <<c, "in", "r">>})
    /\ UNCHANGED <<kind, proc, born, data, copy, program>>

\* The child: its ends become stdin and stdout, the others are closed, then
\* execlp.  Mutant: pipes[3] stays open.
popen2_child_Keeps(c) ==
    /\ proc[c] = "forked"
    /\ Close(c, {<<c, "out", "r">>})
    /\ \/ Proc(c, "running") /\ copy' = [copy EXCEPT ![c] = [s \in Stream |-> 0]]
       \/ ExecFails /\ Proc(c, "exiting") /\ UNCHANGED copy
    /\ UNCHANGED <<stage, kind, born, data, program>>
popen2_child(c) ==
    /\ proc[c] = "forked"
    /\ Close(c, {<<c, "out", "r">>, <<c, "in", "w">>})
    /\ \/ Proc(c, "running") /\ copy' = [copy EXCEPT ![c] = [s \in Stream |-> 0]]
       \/ ExecFails /\ Proc(c, "exiting") /\ UNCHANGED copy
    /\ UNCHANGED <<stage, kind, born, data, program>>

-----------------------------------------------------------------------------
(* idris2_popen: the C library starts the shell and closes in it the streams *)
(* of earlier calls of popen, not those of popen2.  When it finds no         *)
(* descriptors or cannot fork it gives back what it has and returns NULL.  A *)
(* source writes nothing or more than a pipe holds.                          *)

Popened == {d \in Child : kind[d] # "popen2"}

Popen(c, m) ==
    /\ Stage(c, "open") /\ kind' = [kind EXCEPT ![c] = m]
    /\ Proc(c, "running") /\ NewBorn(c)
    /\ LET mine == IF m = "r" THEN <<c, "out", "r">> ELSE <<c, "in", "w">>
           its  == IF m = "r" THEN <<c, "out", "w">> ELSE <<c, "in", "r">>
       IN holds' = [holds EXCEPT ![Program] = @ \cup {mine},
                        ![c] = {e \in holds[Program] : e[1] \notin Popened} \cup {its}]
    /\ \E n \in {0, Cap + 1} : hand' = [hand EXCEPT ![c] = IF m = "r" THEN n ELSE 0]
popen(c, m) ==
    /\ Free /\ stage[c] = "none"
    /\ \/ Popen(c, m)
       \/ (PipeFails \/ ForkFails) /\ Stage(c, "failed") /\ UNCHANGED <<kind, proc, born, holds, hand>>
    /\ UNCHANGED <<fill, written, pend, reached, copy, program>>

-----------------------------------------------------------------------------
(* The started command: a filter, a source or a sink. *)

\* write(2) by process x: delivered, or SIGPIPE.  A shell between the command
\* and the program turns the signal into an exit code.
Deliver(c, p) ==
    \/ /\ HasReader(p) /\ fill[p] < Cap
       /\ fill' = [fill EXCEPT ![p] = @ + 1]
       /\ UNCHANGED <<proc, holds>>
    \/ /\ ~HasReader(p)
       /\ Proc(c, "killed") \/ Proc(c, "exited")
       /\ Close(c, holds[c]) /\ UNCHANGED fill

child_read(c) ==
    /\ proc[c] = "running" /\ kind[c] # "r" /\ hand[c] = 0 /\ fill[<<c, "in">>] > 0
    /\ fill' = [fill EXCEPT ![<<c, "in">>] = @ - 1]
    /\ hand' = [hand EXCEPT ![c] = IF kind[c] = "popen2" THEN 1 ELSE 0]
    /\ UNCHANGED <<stage, kind, proc, born, holds, written, pend, reached, copy, program>>

child_write(c) ==
    /\ proc[c] = "running" /\ hand[c] > 0
    /\ hand' = [hand EXCEPT ![c] = @ - 1]
    /\ Deliver(c, <<c, "out">>)
    /\ UNCHANGED <<stage, kind, born, written, pend, reached, copy, program>>

\* exit(err) after a failed execlp: it writes the copied buffers, stdout into the
\* pipe that has taken its place, and when they are empty the process is gone.
child_abandon(c) ==
    /\ proc[c] = "exiting"
    /\ IF \A s \in Stream : copy[c][s] = 0
       THEN Proc(c, "exited") /\ Close(c, holds[c]) /\ UNCHANGED <<fill, reached, copy>>
       ELSE \E s \in Stream :
         /\ copy[c][s] > 0
         /\ copy' = [copy EXCEPT ![c][s] = @ - 1]
         /\ LET p == IF s = "stdout" THEN <<c, "out">> ELSE <<s, "in">>
            IN Deliver(c, p) /\ reached' = [reached EXCEPT ![s] = IF HasReader(p) THEN @ + 1 ELSE @]
    /\ UNCHANGED <<stage, kind, born, hand, written, pend, program>>

\* The end of the input, or of what the command has to say.
child_exit(c) ==
    /\ proc[c] = "running" /\ hand[c] = 0
    /\ kind[c] = "r" \/ (fill[<<c, "in">>] = 0 /\ ~HasWriter(<<c, "in">>))
    /\ Proc(c, "exited") /\ Close(c, holds[c])
    /\ UNCHANGED <<stage, kind, born, data, copy, program>>

\* A command may end without reading all of its input.
child_quit(c) ==
    /\ proc[c] = "running"
    /\ Proc(c, "exited") /\ Close(c, holds[c])
    /\ UNCHANGED <<stage, kind, born, data, copy, program>>

-----------------------------------------------------------------------------
(* What the program does with its streams, also when it has waited for the   *)
(* command: neither wait closes a stream of popen2.                          *)

Started(c) == stage[c] \in {"open", "waiting", "done"}

\* putStr and fPutStr: stdio holds the data back or writes it at once.
fPutStr(s) ==
    /\ Free /\ written[s] < MaxWrites
    /\ s # "stdout" => Started(s) /\ <<s, "in", "w">> \in holds[Program]
    /\ written' = [written EXCEPT ![s] = @ + 1]
    /\ \/ /\ s \in Buffered /\ pend' = [pend EXCEPT ![s] = @ + 1]
          /\ UNCHANGED <<fill, reached, holds, program>>
       \/ /\ s \notin Buffered /\ (s # "stdout" => (HasReader(<<s, "in">>) /\ fill[<<s, "in">>] < Cap))
          /\ reached' = [reached EXCEPT ![s] = @ + 1]
          /\ fill' = IF s = "stdout" THEN fill ELSE [fill EXCEPT ![<<s, "in">>] = @ + 1]
          /\ UNCHANGED <<pend, holds, program>>
       \/ /\ s \notin Buffered /\ s # "stdout" /\ ~HasReader(<<s, "in">>)
          /\ StopProgram /\ UNCHANGED <<pend, fill, reached>>
    /\ UNCHANGED <<stage, kind, proc, born, hand, copy>>

\* fclose of an input writes what stdio holds back, and fails without a reader.
CloseIn(c) ==
    LET p == <<c, "in">> IN
    \/ /\ pend[c] = 0 \/ (HasReader(p) /\ fill[p] + pend[c] <= Cap)
       /\ fill' = [fill EXCEPT ![p] = @ + pend[c]]
       /\ reached' = [reached EXCEPT ![c] = @ + pend[c]]
       /\ pend' = [pend EXCEPT ![c] = 0]
       /\ Close(Program, {<<c, "in", "w">>}) /\ UNCHANGED program
    \/ pend[c] > 0 /\ ~HasReader(p) /\ StopProgram /\ UNCHANGED <<fill, reached, pend>>

\* idris2_closeFile on a stream of popen2.
closeFileIn(c) ==
    /\ Free /\ Started(c) /\ kind[c] = "popen2" /\ <<c, "in", "w">> \in holds[Program]
    /\ CloseIn(c)
    /\ UNCHANGED <<stage, kind, proc, born, hand, written, copy>>
closeFileOut(c) ==
    /\ Free /\ Started(c) /\ kind[c] = "popen2" /\ <<c, "out", "r">> \in holds[Program]
    /\ Close(Program, {<<c, "out", "r">>})
    /\ UNCHANGED <<stage, kind, proc, born, data, copy, program>>

readOut(c) ==
    /\ Free /\ Started(c) /\ <<c, "out", "r">> \in holds[Program]
    /\ fill[<<c, "out">>] > 0
    /\ fill' = [fill EXCEPT ![<<c, "out">>] = @ - 1]
    /\ UNCHANGED <<stage, kind, proc, born, holds, hand, written, pend, reached, copy, program>>

\* Nothing of d is open in the program.
LetGo(d) == \A e \in holds[Program] : e[1] # d

\* waitpid in idris2_popen2WaitByPid, which closes nothing, and idris2_pclose.
popen2Wait(c) ==
    /\ Free /\ stage[c] = "open" /\ kind[c] = "popen2" /\ Stage(c, "waiting")
    /\ UNCHANGED <<kind, proc, born, holds, data, copy, program>>
pclose(c) ==
    /\ Free /\ stage[c] = "open" /\ kind[c] # "popen2" /\ Stage(c, "waiting")
    /\ IF kind[c] = "w" THEN CloseIn(c)
       ELSE Close(Program, {<<c, "out", "r">>}) /\ UNCHANGED <<fill, reached, pend, program>>
    /\ UNCHANGED <<kind, proc, born, hand, written, copy>>

\* WIFEXITED is verified: a child that a signal has killed stops the program.
wait_end(c) ==
    /\ stage[c] = "waiting" /\ program = "running"
    /\ \/ proc[c] = "exited" /\ Stage(c, "done") /\ UNCHANGED <<holds, program>>
       \/ proc[c] = "killed" /\ StopProgram /\ UNCHANGED stage
    /\ UNCHANGED <<kind, proc, born, data, copy>>

-----------------------------------------------------------------------------
InPopen2(c) == \/ popen2_pipe(c) \/ popen2_flush(c) \/ popen2_fork(c) \/ popen2_parent(c)
ChildStep(c) == \/ popen2_child(c) \/ child_read(c) \/ child_write(c)
                \/ child_abandon(c) \/ child_exit(c)
Operation(c) ==
    \/ popen2(c) \/ \E m \in {"r", "w"} : popen(c, m)
    \/ readOut(c) \/ closeFileIn(c) \/ closeFileOut(c) \/ popen2Wait(c) \/ pclose(c)

Next == \/ \E c \in Child : InPopen2(c) \/ ChildStep(c) \/ child_quit(c) \/ Operation(c) \/ wait_end(c)
        \/ \E s \in Stream : fPutStr(s)

Spec == Init /\ [][Next]_vars

\* Calls and commands go on; what the program does next is its own choice.
FairSpec == Spec /\ \A c \in Child : WF_vars(InPopen2(c)) /\ WF_vars(ChildStep(c)) /\ WF_vars(wait_end(c))

-----------------------------------------------------------------------------
TypeOK ==
    /\ stage \in [Child -> {"none", "piped", "both", "flushed", "forked", "open",
                            "failed", "waiting", "done"}]
    /\ kind \in [Child -> {"popen2", "r", "w"}]
    /\ proc \in [Child -> {"none", "forked", "running", "exiting", "exited", "killed"}]
    /\ born \in [Child -> 0..Cardinality(Child)]
    /\ holds \in [Child \cup {Program} -> SUBSET End]
    /\ fill \in [Pipe -> 0..Cap] /\ hand \in [Child -> Nat]
    /\ {written, pend, reached} \subseteq [Stream -> Nat]
    /\ copy \in [Child -> [Stream -> Nat]] /\ program \in {"running", "over"}

\* A descriptor the program has open belongs to a call in progress or is that of
\* a stream it was given: idris2_popen2 closes the ends of the child and, when it
\* fails, all of them, and idris2_pclose closes its stream before it waits.
NothingLeftOpen ==
    \A c \in Child :
       /\ stage[c] \in {"none", "failed"} => LetGo(c)
       /\ Started(c) => {<<c, "out", "w">>, <<c, "in", "r">>} \cap holds[Program] = {}
       /\ stage[c] \in {"waiting", "done"} /\ kind[c] # "popen2" => LetGo(c)

\* System.File.Process: "You should call popen2Wait after you've done with the
\* child process in order to clean up all system resources."
WaitCleansUp == \A c \in Child : stage[c] = "done" => LetGo(c)

\* A command keeps the input of another one open only if it was started later,
\* and never its own: the waiting for the end of input is not circular.
InheritOrder ==
    \A c, d \in Child :
       proc[c] = "running" /\ <<d, "in", "w">> \in holds[c] => born[d] < born[c]

\* idris2_popen2 flushes "to save from double-printing": what was given to a
\* stream is delivered at most once, whoever writes it.
PrintedOnce == \A s \in Stream : reached[s] + pend[s] <= written[s]

\* idris2_popen2WaitByPid and idris2_pclose come back, if the program has closed
\* the streams of the command and of all that were started after it and have
\* inherited its input: the command sees the end of its input and finds room for
\* its output, or nobody who reads it.
Closed(c) == \A d \in Child : d = c \/ born[d] > born[c] => LetGo(d)
Returns(c) == stage[c] = "done" \/ program = "over"
WaitReturns == \A c \in Child : stage[c] = "waiting" /\ Closed(c) ~> Returns(c)

\* System.File.Process of popen2Wait: "This function relates to popen2 like pclose
\* relates to popen."  As the C code closes nothing before it waits, it does not.
WaitLikePclose ==
    \A c \in Child : stage[c] = "waiting" /\ kind[c] = "popen2" ~> Returns(c)
=============================================================================
