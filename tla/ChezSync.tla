------------------------------ MODULE ChezSync ------------------------------
(***************************************************************************)
(* The synchronisation objects of the Chez runtime                         *)
(* (_/support/chez/support.ss): a semaphore, a barrier, a channel and a    *)
(* future, used by concurrent threads.                                     *)
(*                                                                         *)
(* Mutexes and condition variables belong to Chez Scheme.  condition-wait  *)
(* releases the mutex and waits; condition-signal wakes one waiting thread *)
(* and condition-broadcast all of them; a woken thread must acquire the    *)
(* mutex again, and any other thread may get it first.  A with-mutex       *)
(* section is one step, except for the channel, whose mutex threads also   *)
(* try to acquire without blocking.                                        *)
(***************************************************************************)
EXTENDS Integers, Sequences

CONSTANTS Thread,      \* the threads
          Nobody,      \* no thread holds the mutex
          Value,       \* what the threads send over the channel
          Null,        \* '(), the empty val-box and the list [] of Idris
          Initial,     \* initial count of the semaphore
          SemaWaiters, \* the threads that wait for the semaphore
          NumThreads,  \* the num-threads of the barrier
          Latecomers,  \* threads come to the barrier after it has opened
          Timeout,     \* polls before a get with timeout gives up
          MaxOps       \* bound on the operations of a thread

ASSUME SyncAssumption ==
    /\ Nobody \notin Thread /\ SemaWaiters \subseteq Thread
    /\ Initial \in Nat /\ NumThreads \in Nat \ {0}
    /\ Latecomers \in BOOLEAN /\ Timeout \in Nat /\ MaxOps \in Nat

VARIABLES use,      \* the object the threads share
          pc,       \* where each thread is
          ops,      \* how many operations each thread has started
          waiting,  \* the threads waiting on each condition variable
          count,    \* the box of the semaphore
          arrived,  \* the count-box of the barrier
          passed,   \* the threads that have left the barrier
          mut,      \* the holder of the channel's mutex
          full,     \* not read-box: the channel holds an unread value
          slot,     \* val-box
          arg,      \* the argument of the put of each thread
          elapsed,  \* the elapsed time of the get with timeout of each thread
          sent, received, \* the values put and got, in order
          missed,   \* a get that held the mutex overlooked an unread value
          ready,    \* the future has its result
          awaited   \* the threads whose await has returned

vars == <<use, pc, ops, waiting, count, arrived, passed, mut, full, slot, arg,
          elapsed, sent, received, missed, ready, awaited>>
semaphore == <<count>>
barrier   == <<arrived, passed>>
channel   == <<mut, full, slot, arg, elapsed, sent, received, missed>>
future    == <<ready, awaited>>

Cond == {"sema", "barrier", "read", "val", "future"}

\* The objects are independent: a program that uses several of them is
\* several programs that use one.
Object == {"semaphore", "barrier", "channel", "future"}

Init == /\ use \in Object
        /\ pc = [t \in Thread |-> "idle"]
        /\ ops = [t \in Thread |-> 0]
        /\ waiting = [c \in Cond |-> {}]
        /\ count = Initial
        /\ arrived = 0 /\ passed = {}
        /\ mut = Nobody /\ full = FALSE /\ slot = Null
        /\ arg = [t \in Thread |-> Null]
        /\ elapsed = [t \in Thread |-> 0]
        /\ sent = <<>> /\ received = <<>> /\ missed = FALSE
        /\ ready = FALSE /\ awaited = {}

-----------------------------------------------------------------------------
(* Control of the threads. *)

Start(t, o) == /\ use = o /\ pc[t] = "idle" /\ ops[t] < MaxOps
               /\ ops' = [ops EXCEPT ![t] = @ + 1]
               /\ UNCHANGED use

Goto(t, l) == pc' = [pc EXCEPT ![t] = l] /\ UNCHANGED waiting

\* condition-wait: t waits on c and continues at l when it is woken.
ConditionWait(t, c, l) ==
    /\ waiting' = [waiting EXCEPT ![c] = @ \cup {t}]
    /\ pc' = [pc EXCEPT ![t] = l]

\* condition-signal by t, which goes on to l; woken is where the thread it
\* wakes continues.
ConditionSignal(t, c, l, woken) ==
    IF waiting[c] = {} THEN Goto(t, l)
    ELSE \E u \in waiting[c] :
           /\ waiting' = [waiting EXCEPT ![c] = @ \ {u}]
           /\ pc' = [pc EXCEPT ![t] = l, ![u] = woken]

\* condition-broadcast when t goes on to l.
ConditionBroadcast(t, c, l, woken) ==
    /\ waiting' = [waiting EXCEPT ![c] = {}]
    /\ pc' = [u \in Thread |-> IF u \in waiting[c] THEN woken
                               ELSE IF u = t THEN l ELSE pc[u]]

-----------------------------------------------------------------------------
(* blodwen-semaphore-post and blodwen-semaphore-wait. *)

semaphore_post(t) ==
    /\ Start(t, "semaphore")
    /\ count' = count + 1
    /\ ConditionSignal(t, "sema", "idle", "semaWoken")
    /\ UNCHANGED <<barrier, channel, future>>

\* Mutant: the count is not tested.
semaphore_wait_NoTest(t) ==
    /\ Start(t, "semaphore") /\ t \in SemaWaiters
    /\ count' = count - 1 /\ Goto(t, "idle")
    /\ UNCHANGED <<barrier, channel, future>>
semaphore_wait(t) ==
    /\ Start(t, "semaphore") /\ t \in SemaWaiters
    /\ IF count = 0
       THEN ConditionWait(t, "sema", "semaBlocked") /\ UNCHANGED count
       ELSE count' = count - 1 /\ Goto(t, "idle")
    /\ UNCHANGED <<barrier, channel, future>>

\* After condition-wait the count is not looked at again.
semaphore_wait_end(t) ==
    /\ pc[t] = "semaWoken"
    /\ count' = count - 1
    /\ Goto(t, "idle")
    /\ UNCHANGED <<use, ops, barrier, channel, future>>

-----------------------------------------------------------------------------
(* blodwen-barrier-wait. *)

\* (= count-old+1 num-threads).  Mutant: off by one.
Last_OffByOne == arrived + 2 = NumThreads
Last == arrived + 1 = NumThreads

\* The count is never reset: who comes after the last thread waits, too.
barrier_wait(t) ==
    /\ Start(t, "barrier") /\ (Latecomers \/ arrived < NumThreads)
    /\ arrived' = arrived + 1
    /\ IF Last
       THEN /\ ConditionBroadcast(t, "barrier", "idle", "barrierWoken")
            /\ passed' = passed \cup {t}
       ELSE ConditionWait(t, "barrier", "barrierBlocked") /\ UNCHANGED passed
    /\ UNCHANGED <<semaphore, channel, future>>

barrier_wait_end(t) ==
    /\ pc[t] = "barrierWoken"
    /\ passed' = passed \cup {t}
    /\ Goto(t, "idle")
    /\ UNCHANGED <<use, ops, arrived, semaphore, channel, future>>

-----------------------------------------------------------------------------
(* blodwen-channel-put and the three ways to get. *)

channel_put(t, v) ==
    /\ Start(t, "channel")
    /\ arg' = [arg EXCEPT ![t] = v]
    /\ Goto(t, "put")
    /\ UNCHANGED <<mut, full, slot, elapsed, sent, received, missed, semaphore,
                   barrier, future>>

channel_get(t) ==
    /\ Start(t, "channel")
    /\ Goto(t, "get")
    /\ UNCHANGED <<semaphore, barrier, channel, future>>

\* mutex-acquire, at the start and when condition-wait has been woken.
mutex_acquire(t) ==
    /\ pc[t] \in {"put", "get"} /\ mut = Nobody
    /\ mut' = t
    /\ Goto(t, IF pc[t] = "put" THEN "putIn" ELSE "getIn")
    /\ UNCHANGED <<use, ops, full, slot, arg, elapsed, sent, received, missed,
                   semaphore, barrier, future>>

\* channel-put-while-helper, then the boxes are set; with-mutex ends.
\* Mutant: the helper comes back to the call after it has filled the boxes.
channel_put_in_Again(t) ==
    /\ pc[t] = "putIn"
    /\ mut' = Nobody
    /\ IF full
       THEN ConditionWait(t, "read", "putBlocked") /\ UNCHANGED <<full, slot, sent>>
       ELSE /\ slot' = arg[t] /\ full' = TRUE
            /\ sent' = Append(sent, arg[t])
            /\ Goto(t, "put")
    /\ UNCHANGED <<use, ops, arg, elapsed, received, missed, semaphore, barrier, future>>
channel_put_in(t) ==
    /\ pc[t] = "putIn"
    /\ mut' = Nobody
    /\ IF full
       THEN ConditionWait(t, "read", "putBlocked") /\ UNCHANGED <<full, slot, sent, arg>>
       ELSE /\ slot' = arg[t] /\ full' = TRUE
            /\ arg' = [arg EXCEPT ![t] = Null]
            /\ sent' = Append(sent, arg[t])
            /\ Goto(t, "putSignal")
    /\ UNCHANGED <<use, ops, elapsed, received, missed, semaphore, barrier, future>>

channel_put_signal(t) ==
    /\ pc[t] = "putSignal"
    /\ ConditionSignal(t, "val", "idle", "get")
    /\ UNCHANGED <<use, ops, semaphore, barrier, channel, future>>

\* The boxes are emptied, the mutex is released, read-cv comes next.
\* Mutant: the value stays in its box.
Take_NoReset(t) ==
    /\ received' = Append(received, slot)
    /\ mut' = Nobody
    /\ UNCHANGED <<slot, full>>
    /\ Goto(t, "getSignal")
Take(t) ==
    /\ received' = Append(received, slot)
    /\ slot' = Null /\ full' = FALSE /\ mut' = Nobody
    /\ Goto(t, "getSignal")

\* channel-get-while-helper.
channel_get_in(t) ==
    /\ pc[t] = "getIn"
    /\ IF full THEN Take(t)
       ELSE /\ mut' = Nobody
            /\ ConditionWait(t, "val", "getBlocked")
            /\ UNCHANGED <<full, slot, received>>
    /\ UNCHANGED <<use, ops, arg, elapsed, sent, missed, semaphore, barrier, future>>

\* Mutant: no condition-signal.
channel_get_signal_None(t) ==
    /\ pc[t] = "getSignal"
    /\ Goto(t, "idle")
    /\ UNCHANGED <<use, ops, semaphore, barrier, channel, future>>
channel_get_signal(t) ==
    /\ pc[t] = "getSignal"
    /\ ConditionSignal(t, "read", "idle", "put")
    /\ UNCHANGED <<use, ops, semaphore, barrier, channel, future>>

\* blodwen-channel-get-non-blocking: '() when the mutex is taken.
channel_get_non_blocking(t) ==
    /\ Start(t, "channel")
    /\ IF mut = Nobody THEN mut' = t /\ Goto(t, "tryIn")
       ELSE Goto(t, "idle") /\ UNCHANGED mut
    /\ UNCHANGED <<full, slot, arg, elapsed, sent, received, missed, semaphore,
                   barrier, future>>

channel_get_non_blocking_in(t) ==
    /\ pc[t] = "tryIn"
    /\ IF slot # Null THEN Take(t) /\ UNCHANGED missed
       ELSE /\ mut' = Nobody /\ Goto(t, "idle")
            /\ missed' = (missed \/ full)
            /\ UNCHANGED <<full, slot, received>>
    /\ UNCHANGED <<use, ops, arg, elapsed, sent, semaphore, barrier, future>>

\* blodwen-channel-get-with-timeout polls; elapsed only grows while it sleeps.
channel_get_with_timeout(t) ==
    /\ Start(t, "channel")
    /\ Goto(t, "poll")
    /\ UNCHANGED <<semaphore, barrier, channel, future>>

\* Mutant: the clock stands still.
Sleep_NoClock(t) == UNCHANGED elapsed
Sleep(t) == elapsed' = [elapsed EXCEPT ![t] = IF @ < Timeout THEN @ + 1 ELSE @]
Awake(t) == elapsed' = [elapsed EXCEPT ![t] = 0]

channel_poll(t) ==
    /\ pc[t] = "poll"
    /\ IF mut = Nobody
       THEN mut' = t /\ Goto(t, "pollIn") /\ UNCHANGED elapsed
       ELSE Sleep(t) /\ UNCHANGED <<pc, waiting, mut>>
    /\ UNCHANGED <<use, ops, full, slot, arg, sent, received, missed, semaphore,
                   barrier, future>>

\* Mutant: at the deadline the value is not looked at.
channel_poll_in_LateLook(t) ==
    /\ pc[t] = "pollIn"
    /\ IF slot # Null /\ elapsed[t] < Timeout
       THEN Take(t) /\ Awake(t) /\ UNCHANGED missed
       ELSE /\ mut' = Nobody
            /\ IF elapsed[t] >= Timeout
               THEN Goto(t, "idle") /\ missed' = (missed \/ full) /\ Awake(t)
               ELSE Goto(t, "poll") /\ Sleep(t) /\ UNCHANGED missed
            /\ UNCHANGED <<full, slot, received>>
    /\ UNCHANGED <<use, ops, arg, sent, semaphore, barrier, future>>
channel_poll_in(t) ==
    /\ pc[t] = "pollIn"
    /\ IF slot # Null THEN Take(t) /\ Awake(t) /\ UNCHANGED missed
       ELSE /\ mut' = Nobody
            /\ IF elapsed[t] >= Timeout
               THEN Goto(t, "idle") /\ missed' = (missed \/ full) /\ Awake(t)
               ELSE Goto(t, "poll") /\ Sleep(t) /\ UNCHANGED missed
            /\ UNCHANGED <<full, slot, received>>
    /\ UNCHANGED <<use, ops, arg, sent, semaphore, barrier, future>>

-----------------------------------------------------------------------------
(* blodwen-make-future and blodwen-await-future. *)

\* The forked thread has computed the result.
future_work ==
    /\ use = "future" /\ ~ready /\ ready' = TRUE
    /\ pc' = [u \in Thread |-> IF u \in waiting["future"] THEN "awaitWoken" ELSE pc[u]]
    /\ waiting' = [waiting EXCEPT !["future"] = {}]
    /\ UNCHANGED <<use, ops, awaited, semaphore, barrier, channel>>

await_future(t) ==
    /\ Start(t, "future")
    /\ IF ready THEN Goto(t, "idle") /\ awaited' = awaited \cup {t}
       ELSE ConditionWait(t, "future", "awaitBlocked") /\ UNCHANGED awaited
    /\ UNCHANGED <<ready, semaphore, barrier, channel>>

await_future_end(t) ==
    /\ pc[t] = "awaitWoken"
    /\ awaited' = awaited \cup {t}
    /\ Goto(t, "idle")
    /\ UNCHANGED <<use, ops, ready, semaphore, barrier, channel>>

-----------------------------------------------------------------------------
\* A thread inside an operation goes on.
Continue(t) ==
    \/ semaphore_wait_end(t) \/ barrier_wait_end(t) \/ await_future_end(t)
    \/ mutex_acquire(t)
    \/ channel_put_in(t) \/ channel_put_signal(t)
    \/ channel_get_in(t) \/ channel_get_signal(t)
    \/ channel_get_non_blocking_in(t)
    \/ channel_poll(t) \/ channel_poll_in(t)

Call(t) ==
    \/ semaphore_post(t) \/ semaphore_wait(t) \/ barrier_wait(t)
    \/ \E v \in Value : channel_put(t, v)
    \/ channel_get(t) \/ channel_get_non_blocking(t) \/ channel_get_with_timeout(t)
    \/ await_future(t)

Next == future_work \/ \E t \in Thread : Call(t) \/ Continue(t)

Spec == Init /\ [][Next]_vars

\* A thread that is not blocked runs on; whether it calls anything is its own.
FairSpec == Spec /\ WF_vars(future_work) /\ \A t \in Thread : WF_vars(Continue(t))

-----------------------------------------------------------------------------
Label == {"idle", "semaBlocked", "semaWoken", "barrierBlocked", "barrierWoken",
          "put", "putIn", "putBlocked", "putSignal", "get", "getIn", "getBlocked",
          "getSignal", "tryIn", "poll", "pollIn", "awaitBlocked", "awaitWoken"}
Content == Value \cup {Null}

\* The boxes hold what was sent, the elapsed time stops at the timeout, and the
\* count of the barrier does not go back.
TypeOK ==
    /\ use \in Object /\ pc \in [Thread -> Label] /\ ops \in [Thread -> 0..MaxOps]
    /\ waiting \in [Cond -> SUBSET Thread]
    /\ count \in Int /\ arrived \in Nat /\ passed \subseteq Thread
    /\ mut \in Thread \cup {Nobody} /\ full \in BOOLEAN /\ slot \in Content
    /\ arg \in [Thread -> Content] /\ elapsed \in [Thread -> 0..Timeout]
    /\ sent \in Seq(Content) /\ received \in Seq(Content) /\ missed \in BOOLEAN
    /\ ready \in BOOLEAN /\ awaited \subseteq Thread

\* System.Concurrency: semaphoreWait "blocks until the internal counter ... is
\* non-zero": it never takes the counter below zero.
SemaphoreSound == count >= 0

\* barrierWait "blocks the current thread until all threads have rendezvoused".
BarrierTogether == passed # {} => arrived >= NumThreads

\* The channel neither loses, repeats, reorders nor overwrites a value: what
\* was put is what was got followed by the unread value.
ChannelExact == sent = received \o (IF full THEN <<slot>> ELSE <<>>)

\* The channel implements the one place buffer: a put waits from its call to
\* the moment it fills the boxes, every kind of get empties them, and all other
\* steps of the threads, the lost races and the signals included, are invisible.
Buffer == INSTANCE OnePlaceBuffer
    WITH Client <- Thread, Item <- Value,
         pending <- [t \in Thread |-> IF pc[t] \in {"put", "putIn", "putBlocked"}
                                      THEN <<arg[t]>> ELSE <<>>],
         box <- IF full THEN <<slot>> ELSE <<>>,
         in <- sent, out <- received
ImplementsBuffer == Buffer!BSpec

\* channelGetNonBlocking and channelGetWithTimeout are versions of channelGet:
\* with the mutex in their hands they find a value channelGet would find.
NothingOverlooked == ~missed

\* A thread whose condition holds does not sleep forever: a getter while the
\* channel is full, a putter while it is empty, a thread in a semaphore wait
\* while the count is positive, a thread at a barrier where all threads have
\* rendezvoused, be it the first or a later one, or at a ready future.
Wanting(t) ==
    \/ pc[t] = "getBlocked" /\ full
    \/ pc[t] = "putBlocked" /\ ~full
    \/ pc[t] = "semaBlocked" /\ count > 0
    \/ pc[t] = "barrierBlocked" /\ arrived >= NumThreads
    \/ pc[t] = "awaitBlocked" /\ ready
NoLostWakeup == \A t \in Thread : Wanting(t) ~> ~Wanting(t)

\* channelGetWithTimeout does not wait for the channel: it returns although no
\* value ever comes, once the other threads have left their operations or block.
TimeoutReturns ==
    \A t \in Thread : pc[t] \in {"poll", "pollIn"} ~> pc[t] \notin {"poll", "pollIn"}
=============================================================================
