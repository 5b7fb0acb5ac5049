--------------------------- MODULE ChezSyncProofs ---------------------------
(* Proofs about ChezSync, for any threads and any number of operations. *)
EXTENDS ChezSync, TLAPS

-----------------------------------------------------------------------------
(* The channel. *)

\* What ChannelExact rests on: an empty channel has an empty val-box, which is
\* what the gets that do not block look at.
ChannelInv ==
    /\ sent \in Seq(Content) /\ received \in Seq(Content)
    /\ full \in BOOLEAN /\ slot \in Content /\ arg \in [Thread -> Content]
    /\ ~full => slot = Null
    /\ ChannelExact

LEMMA ChannelInit == Init => ChannelInv
<1> SUFFICES ASSUME Init PROVE ChannelInv
  OBVIOUS
<1>1. sent = <<>> /\ received = <<>> /\ full = FALSE /\ slot = Null
  BY DEF Init
<1>2. arg \in [Thread -> Content]
  BY DEF Init, Content
<1>3. sent = received \o <<>> /\ sent \in Seq(Content) /\ received \in Seq(Content)
  BY <1>1
<1>4. ChannelExact
  BY <1>1, <1>3 DEF ChannelExact
<1> QED
  BY <1>1, <1>2, <1>3, <1>4 DEF ChannelInv, Content

\* Appending the value that has just become unread.
LEMMA PutExact ==
    ASSUME NEW s, NEW r \in Seq(Content), NEW v \in Content, s = r \o <<>>
    PROVE  Append(s, v) = r \o <<v>>
OBVIOUS

LEMMA TakeExact ==
    ASSUME NEW s, NEW r \in Seq(Content), NEW v \in Content, s = r \o <<v>>
    PROVE  s = Append(r, v) \o <<>> /\ Append(r, v) \in Seq(Content)
OBVIOUS

\* Emptying the boxes of a full channel hands its value over.
LEMMA TakeKeeps ==
    ASSUME ChannelInv, full, NEW t \in Thread, Take(t), UNCHANGED <<sent, arg>>
    PROVE  ChannelInv'
<1>1. received' = Append(received, slot) /\ slot' = Null /\ full' = FALSE
  BY DEF Take
<1>2. sent = received \o <<slot>>
  BY DEF ChannelInv, ChannelExact
<1>3. sent = received' \o <<>> /\ received' \in Seq(Content)
  BY <1>1, <1>2, TakeExact DEF ChannelInv
<1>4. ChannelExact'
  BY <1>1, <1>3 DEF ChannelExact
<1> QED
  BY <1>1, <1>3, <1>4 DEF ChannelInv, Content

LEMMA ChannelSame ==
    ASSUME ChannelInv, UNCHANGED <<full, slot, arg, sent, received>>
    PROVE  ChannelInv'
BY DEF ChannelInv, ChannelExact

LEMMA ChannelNext == ASSUME ChannelInv, [Next]_vars PROVE ChannelInv'
<1>1. ASSUME NEW t \in Thread, NEW v \in Value, channel_put(t, v) PROVE ChannelInv'
  BY <1>1 DEF channel_put, ChannelInv, ChannelExact, Content
<1>2. ASSUME NEW t \in Thread, channel_put_in(t) PROVE ChannelInv'
  <2>1. CASE full
    BY <1>2, <2>1, ChannelSame DEF channel_put_in
  <2>2. CASE ~full
    <3>1. /\ slot' = arg[t] /\ full' = TRUE /\ sent' = Append(sent, arg[t])
          /\ arg' = [arg EXCEPT ![t] = Null] /\ UNCHANGED received
      BY <1>2, <2>2 DEF channel_put_in
    <3>2. sent = received \o <<>> /\ arg[t] \in Content
      BY <2>2 DEF ChannelInv, ChannelExact
    <3>3. sent' = received \o <<arg[t]>>
      BY <3>1, <3>2, PutExact DEF ChannelInv
    <3> QED
      BY <3>1, <3>2, <3>3 DEF ChannelInv, ChannelExact, Content
  <2> QED
    BY <2>1, <2>2
<1>3. ASSUME NEW t \in Thread, channel_get_in(t) PROVE ChannelInv'
  <2>1. CASE full
    BY <1>3, <2>1, TakeKeeps DEF channel_get_in
  <2>2. CASE ~full
    BY <1>3, <2>2, ChannelSame DEF channel_get_in
  <2> QED
    BY <2>1, <2>2
<1>4. ASSUME NEW t \in Thread, channel_get_non_blocking_in(t) PROVE ChannelInv'
  <2>1. CASE slot # Null
    <3>1. full
      BY <2>1 DEF ChannelInv
    <3> QED
      BY <1>4, <2>1, <3>1, TakeKeeps DEF channel_get_non_blocking_in
  <2>2. CASE slot = Null
    BY <1>4, <2>2, ChannelSame DEF channel_get_non_blocking_in
  <2> QED
    BY <2>1, <2>2
<1>5. ASSUME NEW t \in Thread, channel_poll_in(t) PROVE ChannelInv'
  <2>1. CASE slot # Null
    <3>1. full
      BY <2>1 DEF ChannelInv
    <3> QED
      BY <1>5, <2>1, <3>1, TakeKeeps DEF channel_poll_in
  <2>2. CASE slot = Null
    BY <1>5, <2>2, ChannelSame DEF channel_poll_in
  <2> QED
    BY <2>1, <2>2
<1>6. ASSUME NEW t \in Thread,
             \/ channel_get(t) \/ mutex_acquire(t) \/ channel_put_signal(t)
             \/ channel_get_signal(t) \/ channel_get_non_blocking(t)
             \/ channel_get_with_timeout(t) \/ channel_poll(t)
      PROVE ChannelInv'
  BY <1>6, ChannelSame DEF channel_get, mutex_acquire, channel_put_signal,
     channel_get_signal, channel_get_non_blocking, channel_get_with_timeout,
     channel_poll, channel
<1>7. ASSUME NEW t \in Thread,
             \/ semaphore_post(t) \/ semaphore_wait(t) \/ semaphore_wait_end(t)
             \/ barrier_wait(t) \/ barrier_wait_end(t)
             \/ await_future(t) \/ await_future_end(t)
      PROVE ChannelInv'
  BY <1>7, ChannelSame DEF semaphore_post, semaphore_wait, semaphore_wait_end,
     barrier_wait, Last, barrier_wait_end, await_future, await_future_end, channel
<1>8. CASE future_work \/ UNCHANGED vars
  BY <1>8, ChannelSame DEF future_work, vars, channel
<1> QED
  BY <1>1, <1>2, <1>3, <1>4, <1>5, <1>6, <1>7, <1>8 DEF Next, Call, Continue

\* Whatever the interleaving of puts, blocking gets, gets that do not block
\* and gets with a timeout, no value is lost, repeated, reordered or
\* overwritten.
THEOREM ChannelCorrect == Spec => []ChannelExact
<1>1. ChannelInv /\ [Next]_vars => ChannelInv'
  BY ChannelNext
<1>2. ChannelInv => ChannelExact
  BY DEF ChannelInv
<1> QED
  BY ChannelInit, <1>1, <1>2, PTL DEF Spec

-----------------------------------------------------------------------------
(* The threads and their condition variables. *)

\* The part of the type invariant that the other objects need.
Control == /\ pc \in [Thread -> Label]
           /\ waiting \in [Cond -> SUBSET Thread]
           /\ count \in Int /\ arrived \in Nat

LEMMA SignalKeeps ==
    ASSUME pc \in [Thread -> Label], waiting \in [Cond -> SUBSET Thread],
           NEW t \in Thread, NEW c \in Cond, NEW l \in Label, NEW woken \in Label,
           ConditionSignal(t, c, l, woken)
    PROVE  /\ pc' \in [Thread -> Label] /\ waiting' \in [Cond -> SUBSET Thread]
           /\ \A u \in Thread : pc'[u] \in {pc[u], l, woken}
           /\ \A u \in Thread : pc'[u] = woken /\ pc[u] # woken /\ l # woken
                                 => u \in waiting[c]
           /\ \A d \in Cond : waiting'[d] \subseteq waiting[d]
<1>1. CASE waiting[c] = {}
  BY <1>1 DEF ConditionSignal, Goto
<1>2. CASE waiting[c] # {}
  <2>1. PICK u \in waiting[c] :
           /\ waiting' = [waiting EXCEPT ![c] = @ \ {u}]
           /\ pc' = [pc EXCEPT ![t] = l, ![u] = woken]
    BY <1>2 DEF ConditionSignal
  <2> QED
    BY <2>1
<1> QED
  BY <1>1, <1>2

\* Goto and condition-wait only move the thread itself.
LEMMA GotoKeeps ==
    ASSUME pc \in [Thread -> Label], waiting \in [Cond -> SUBSET Thread],
           NEW t \in Thread, NEW c \in Cond, NEW l \in Label,
           Goto(t, l) \/ ConditionWait(t, c, l)
    PROVE  /\ pc' \in [Thread -> Label] /\ waiting' \in [Cond -> SUBSET Thread]
           /\ pc'[t] = l /\ \A u \in Thread : u # t => pc'[u] = pc[u]
           /\ \A d \in Cond : d # c => waiting'[d] = waiting[d]
BY DEF Goto, ConditionWait

\* The steps of the channel and of the future, seen from the other objects.
Apart == /\ pc' \in [Thread -> Label] /\ waiting' \in [Cond -> SUBSET Thread]
         /\ \A u \in Thread : pc'[u] \in {"semaWoken", "barrierWoken"} => pc'[u] = pc[u]
         /\ waiting'["sema"] \subseteq waiting["sema"]
         /\ UNCHANGED <<count, arrived, passed>>

LEMMA ChannelApart ==
    ASSUME Control, NEW t \in Thread,
           \/ \E v \in Value : channel_put(t, v)
           \/ channel_get(t) \/ mutex_acquire(t)
           \/ channel_put_in(t) \/ channel_put_signal(t)
           \/ channel_get_in(t) \/ channel_get_signal(t)
           \/ channel_get_non_blocking(t) \/ channel_get_non_blocking_in(t)
           \/ channel_get_with_timeout(t) \/ channel_poll(t) \/ channel_poll_in(t)
    PROVE  Apart
<1> USE DEF Control, Apart, semaphore, barrier
<1>1. ASSUME \/ \E v \in Value : channel_put(t, v)
             \/ channel_get(t) \/ mutex_acquire(t) \/ channel_get_with_timeout(t)
      PROVE Apart
  BY <1>1, GotoKeeps DEF channel_put, channel_get, mutex_acquire,
     channel_get_with_timeout, Label, Cond
<1>2. CASE channel_put_in(t)
  BY <1>2, GotoKeeps DEF channel_put_in, Label, Cond
<1>3. CASE channel_put_signal(t)
  <2>1. ConditionSignal(t, "val", "idle", "get") /\ UNCHANGED <<count, arrived, passed>>
    BY <1>3 DEF channel_put_signal
  <2>2. "val" \in Cond /\ "idle" \in Label /\ "get" \in Label
    BY DEF Cond, Label
  <2>3. /\ pc' \in [Thread -> Label] /\ waiting' \in [Cond -> SUBSET Thread]
        /\ \A u \in Thread : pc'[u] \in {pc[u], "idle", "get"}
        /\ \A d \in Cond : waiting'[d] \subseteq waiting[d]
    BY <2>1, <2>2, SignalKeeps
  <2> QED
    BY <2>1, <2>3 DEF Cond
<1>4. CASE channel_get_in(t)
  BY <1>4, GotoKeeps DEF channel_get_in, Take, Label, Cond
<1>5. CASE channel_get_signal(t)
  <2>1. ConditionSignal(t, "read", "idle", "put") /\ UNCHANGED <<count, arrived, passed>>
    BY <1>5 DEF channel_get_signal
  <2>2. "read" \in Cond /\ "idle" \in Label /\ "put" \in Label
    BY DEF Cond, Label
  <2>3. /\ pc' \in [Thread -> Label] /\ waiting' \in [Cond -> SUBSET Thread]
        /\ \A u \in Thread : pc'[u] \in {pc[u], "idle", "put"}
        /\ \A d \in Cond : waiting'[d] \subseteq waiting[d]
    BY <2>1, <2>2, SignalKeeps
  <2> QED
    BY <2>1, <2>3 DEF Cond
<1>6. CASE channel_get_non_blocking(t)
  BY <1>6, GotoKeeps DEF channel_get_non_blocking, Label, Cond
<1>7. CASE channel_get_non_blocking_in(t)
  BY <1>7, GotoKeeps DEF channel_get_non_blocking_in, Take, Label, Cond
<1>8. CASE channel_poll(t)
  BY <1>8, GotoKeeps DEF channel_poll, Label, Cond
<1>9. CASE channel_poll_in(t)
  <2>1. Goto(t, "getSignal") \/ Goto(t, "idle") \/ Goto(t, "poll")
    BY <1>9 DEF channel_poll_in, Take
  <2> QED
    BY <1>9, <2>1, GotoKeeps, SMTT(30) DEF channel_poll_in, Label, Cond
<1> QED
  BY <1>1, <1>2, <1>3, <1>4, <1>5, <1>6, <1>7, <1>8, <1>9

LEMMA FutureApart ==
    ASSUME Control,
           \/ future_work \/ UNCHANGED vars
           \/ \E t \in Thread : await_future(t) \/ await_future_end(t)
    PROVE  Apart
<1> USE DEF Control, Apart, semaphore, barrier
<1>1. CASE future_work
  BY <1>1 DEF future_work, Label, Cond
<1>2. ASSUME NEW t \in Thread, await_future(t) PROVE Apart
  BY <1>2, GotoKeeps DEF await_future, Label, Cond
<1>3. ASSUME NEW t \in Thread, await_future_end(t) PROVE Apart
  BY <1>3, GotoKeeps DEF await_future_end, Label, Cond
<1>4. CASE UNCHANGED vars
  BY <1>4 DEF vars
<1> QED
  BY <1>1, <1>2, <1>3, <1>4

-----------------------------------------------------------------------------
(* The barrier. *)

\* A thread that has been woken at the barrier has been woken by the last one.
BarrierInv ==
    /\ Control /\ passed \subseteq Thread
    /\ BarrierTogether
    /\ \A t \in Thread : pc[t] = "barrierWoken" => arrived >= NumThreads

LEMMA BarrierNext == ASSUME BarrierInv, [Next]_vars PROVE BarrierInv'
<1> USE SyncAssumption
<1>1. ASSUME NEW t \in Thread, barrier_wait(t) PROVE BarrierInv'
  <2>0. arrived' = arrived + 1 /\ count' = count /\ Control
    BY <1>1 DEF barrier_wait, Last, semaphore, BarrierInv
  <2>1. CASE arrived + 1 = NumThreads
    <3>1. /\ pc' = [u \in Thread |-> IF u \in waiting["barrier"] THEN "barrierWoken"
                                   ELSE IF u = t THEN "idle" ELSE pc[u]]
          /\ waiting' = [waiting EXCEPT !["barrier"] = {}]
          /\ passed' = passed \cup {t}
      BY <1>1, <2>1 DEF barrier_wait, Last, ConditionBroadcast
    <3>2. Control'
      BY <2>0, <3>1 DEF Control, Label, Cond
    <3> QED
      BY <2>0, <2>1, <3>1, <3>2 DEF BarrierInv, BarrierTogether, Control
  <2>2. CASE arrived + 1 # NumThreads
    <3>1. ConditionWait(t, "barrier", "barrierBlocked") /\ passed' = passed
      BY <1>1, <2>2 DEF barrier_wait, Last
    <3>2. /\ pc' \in [Thread -> Label] /\ waiting' \in [Cond -> SUBSET Thread]
          /\ pc'[t] = "barrierBlocked" /\ \A u \in Thread : u # t => pc'[u] = pc[u]
      BY <2>0, <3>1, GotoKeeps DEF Control, Label, Cond
    <3> QED
      BY <2>0, <3>1, <3>2 DEF BarrierInv, BarrierTogether, Control
  <2> QED
    BY <2>1, <2>2
<1>2. ASSUME NEW t \in Thread, barrier_wait_end(t) PROVE BarrierInv'
  <2>1. /\ pc[t] = "barrierWoken" /\ passed' = passed \cup {t}
        /\ Goto(t, "idle") /\ UNCHANGED <<arrived, count>>
    BY <1>2 DEF barrier_wait_end, semaphore
  <2>2. /\ pc' \in [Thread -> Label] /\ waiting' \in [Cond -> SUBSET Thread]
        /\ pc'[t] = "idle" /\ \A u \in Thread : u # t => pc'[u] = pc[u]
    BY <2>1, GotoKeeps DEF BarrierInv, Control, Label, Cond
  <2> QED
    BY <2>1, <2>2 DEF BarrierInv, BarrierTogether, Control
<1>3. ASSUME NEW t \in Thread, semaphore_post(t) PROVE BarrierInv'
  <2>1. /\ ConditionSignal(t, "sema", "idle", "semaWoken")
        /\ count' = count + 1 /\ UNCHANGED <<arrived, passed>>
    BY <1>3 DEF semaphore_post, barrier
  <2>2. "sema" \in Cond /\ "idle" \in Label /\ "semaWoken" \in Label
    BY DEF Cond, Label
  <2>3. /\ pc' \in [Thread -> Label] /\ waiting' \in [Cond -> SUBSET Thread]
        /\ \A u \in Thread : pc'[u] \in {pc[u], "idle", "semaWoken"}
    BY <2>1, <2>2, SignalKeeps DEF BarrierInv, Control
  <2> QED
    BY <2>1, <2>3 DEF BarrierInv, BarrierTogether, Control
<1>4. ASSUME NEW t \in Thread, semaphore_wait(t) \/ semaphore_wait_end(t)
      PROVE BarrierInv'
  <2>1. /\ Goto(t, "idle") \/ ConditionWait(t, "sema", "semaBlocked")
        /\ count' \in {count, count - 1} /\ UNCHANGED <<arrived, passed>>
    BY <1>4 DEF semaphore_wait, semaphore_wait_end, barrier
  <2>2. /\ pc' \in [Thread -> Label] /\ waiting' \in [Cond -> SUBSET Thread]
        /\ pc'[t] \in {"idle", "semaBlocked"}
        /\ \A u \in Thread : u # t => pc'[u] = pc[u]
    BY <2>1, GotoKeeps DEF BarrierInv, Control, Label, Cond
  <2> QED
    BY <2>1, <2>2 DEF BarrierInv, BarrierTogether, Control
<1>5. ASSUME Apart PROVE BarrierInv'
  BY <1>5 DEF Apart, BarrierInv, BarrierTogether, Control
<1> QED
  BY <1>1, <1>2, <1>3, <1>4, <1>5, ChannelApart, FutureApart
     DEF Next, Call, Continue, BarrierInv

\* No thread leaves the barrier before NumThreads have arrived.
THEOREM BarrierCorrect == Spec => []BarrierTogether
<1>1. Init => BarrierInv
  BY SyncAssumption DEF Init, BarrierInv, BarrierTogether, Control, Label, Cond
<1>2. BarrierInv /\ [Next]_vars => BarrierInv'
  BY BarrierNext
<1>3. BarrierInv => BarrierTogether
  BY DEF BarrierInv
<1> QED
  BY <1>1, <1>2, <1>3, PTL DEF Spec

-----------------------------------------------------------------------------
(* The semaphore, when at most one thread waits for it (the one that joins *)
(* a forked thread, say): a second waiter could take what the first was    *)
(* woken for, because the first does not look at the count again.          *)

SemaInv ==
    /\ Control /\ SemaphoreSound
    /\ waiting["sema"] \subseteq SemaWaiters
    /\ \A t \in Thread : pc[t] = "semaWoken" => t \in SemaWaiters /\ count >= 1

OneWaiter == \A t, u \in SemaWaiters : t = u

LEMMA SemaNext == ASSUME OneWaiter, SemaInv, [Next]_vars PROVE SemaInv'
<1> USE SyncAssumption
<1>1. ASSUME NEW t \in Thread, semaphore_post(t) PROVE SemaInv'
  <2>1. /\ ConditionSignal(t, "sema", "idle", "semaWoken")
        /\ count' = count + 1 /\ UNCHANGED <<arrived, passed>>
    BY <1>1 DEF semaphore_post, barrier
  <2>2. "sema" \in Cond /\ "idle" \in Label /\ "semaWoken" \in Label
    BY DEF Cond, Label
  <2>3. /\ pc' \in [Thread -> Label] /\ waiting' \in [Cond -> SUBSET Thread]
        /\ \A u \in Thread : pc'[u] = "semaWoken" /\ pc[u] # "semaWoken"
                              => u \in waiting["sema"]
        /\ waiting'["sema"] \subseteq waiting["sema"]
    BY <2>1, <2>2, SignalKeeps DEF SemaInv, Control
  <2> QED
    BY <2>1, <2>3 DEF SemaInv, SemaphoreSound, Control
<1>2. ASSUME NEW t \in Thread, semaphore_wait(t), count = 0 PROVE SemaInv'
  <2>1. /\ ConditionWait(t, "sema", "semaBlocked") /\ t \in SemaWaiters
        /\ UNCHANGED <<count, arrived>>
    BY <1>2 DEF semaphore_wait, barrier
  <2>2. /\ pc' \in [Thread -> Label] /\ waiting' \in [Cond -> SUBSET Thread]
        /\ pc'[t] = "semaBlocked" /\ \A u \in Thread : u # t => pc'[u] = pc[u]
    BY <2>1, GotoKeeps DEF SemaInv, Control, Label, Cond
  <2>3. waiting'["sema"] = waiting["sema"] \cup {t}
    BY <2>1 DEF ConditionWait, SemaInv, Control, Cond
  <2> QED
    BY <2>1, <2>2, <2>3 DEF SemaInv, SemaphoreSound, Control
<1>3. ASSUME NEW t \in Thread,
             semaphore_wait_end(t) \/ (semaphore_wait(t) /\ count # 0)
      PROVE SemaInv'
  <2>1. /\ Goto(t, "idle") /\ count' = count - 1 /\ arrived' = arrived
        /\ t \in SemaWaiters /\ count >= 1
    BY <1>3 DEF semaphore_wait, semaphore_wait_end, Start, barrier, SemaInv,
                SemaphoreSound, Control
  <2>2. /\ pc' \in [Thread -> Label] /\ waiting' \in [Cond -> SUBSET Thread]
        /\ pc'[t] = "idle" /\ \A u \in Thread : u # t => pc'[u] = pc[u]
    BY <2>1, GotoKeeps DEF SemaInv, Control, Label, Cond
  <2>3. \A u \in Thread : pc'[u] # "semaWoken"
    BY <2>1, <2>2 DEF SemaInv, OneWaiter
  <2> QED
    BY <2>1, <2>2, <2>3 DEF SemaInv, SemaphoreSound, Control, Goto
<1>4. ASSUME NEW t \in Thread, barrier_wait(t) PROVE SemaInv'
  <2>0. arrived' = arrived + 1 /\ count' = count /\ Control
    BY <1>4 DEF barrier_wait, Last, semaphore, SemaInv
  <2>1. CASE arrived + 1 = NumThreads
    <3>1. /\ pc' = [u \in Thread |-> IF u \in waiting["barrier"] THEN "barrierWoken"
                                   ELSE IF u = t THEN "idle" ELSE pc[u]]
          /\ waiting' = [waiting EXCEPT !["barrier"] = {}]
      BY <1>4, <2>1 DEF barrier_wait, Last, ConditionBroadcast
    <3>2. Control' /\ waiting'["sema"] = waiting["sema"]
      BY <2>0, <3>1 DEF Control, Label, Cond
    <3> QED
      BY <2>0, <3>1, <3>2 DEF SemaInv, SemaphoreSound
  <2>2. CASE arrived + 1 # NumThreads
    <3>1. ConditionWait(t, "barrier", "barrierBlocked")
      BY <1>4, <2>2 DEF barrier_wait, Last
    <3>2. /\ pc' \in [Thread -> Label] /\ waiting' \in [Cond -> SUBSET Thread]
          /\ pc'[t] = "barrierBlocked" /\ \A u \in Thread : u # t => pc'[u] = pc[u]
          /\ waiting'["sema"] = waiting["sema"]
      BY <2>0, <3>1, GotoKeeps DEF Control, Label, Cond
    <3> QED
      BY <2>0, <3>2 DEF SemaInv, SemaphoreSound, Control
  <2> QED
    BY <2>1, <2>2
<1>5. ASSUME NEW t \in Thread, barrier_wait_end(t) PROVE SemaInv'
  <2>1. Goto(t, "idle") /\ UNCHANGED <<arrived, count>>
    BY <1>5 DEF barrier_wait_end, semaphore
  <2>2. /\ pc' \in [Thread -> Label] /\ waiting' \in [Cond -> SUBSET Thread]
        /\ pc'[t] = "idle" /\ \A u \in Thread : u # t => pc'[u] = pc[u]
    BY <2>1, GotoKeeps DEF SemaInv, Control, Label, Cond
  <2> QED
    BY <2>1, <2>2 DEF SemaInv, SemaphoreSound, Control, Goto
<1>6. ASSUME Apart PROVE SemaInv'
  BY <1>6 DEF Apart, SemaInv, SemaphoreSound, Control
<1> QED
  BY <1>1, <1>2, <1>3, <1>4, <1>5, <1>6, ChannelApart, FutureApart
     DEF Next, Call, Continue, SemaInv

\* With one waiter the counter never goes below zero.
THEOREM SemaphoreCorrect == ASSUME OneWaiter PROVE Spec => []SemaphoreSound
<1>1. Init => SemaInv
  BY SyncAssumption DEF Init, SemaInv, SemaphoreSound, Control, Label, Cond
<1>2. SemaInv /\ [Next]_vars => SemaInv'
  BY SemaNext
<1>3. SemaInv => SemaphoreSound
  BY DEF SemaInv
<1> QED
  BY <1>1, <1>2, <1>3, PTL DEF Spec

-----------------------------------------------------------------------------
(* The channel as a one place buffer. *)

\* Where a thread is while its put has not taken effect.
Putting == {"put", "putIn", "putBlocked"}
\* Where the threads wait that a condition variable may wake.
Blocked == [c \in Cond |-> CASE c = "sema" -> "semaBlocked" [] c = "barrier" -> "barrierBlocked"
                             [] c = "read" -> "putBlocked" [] c = "val" -> "getBlocked"
                             [] c = "future" -> "awaitBlocked"]

\* A condition variable wakes threads where they wait on it, and a put that
\* waits has a value to deliver.
WaitInv ==
    /\ pc \in [Thread -> Label] /\ waiting \in [Cond -> SUBSET Thread]
    /\ \A c \in Cond : \A t \in waiting[c] : pc[t] = Blocked[c]
    /\ arg \in [Thread -> Content]
    /\ \A t \in Thread : pc[t] \in Putting => arg[t] \in Value
    /\ full => slot \in Value

LEMMA BlockedAt ==
    /\ Blocked["sema"] = "semaBlocked" /\ Blocked["barrier"] = "barrierBlocked"
    /\ Blocked["read"] = "putBlocked" /\ Blocked["val"] = "getBlocked"
    /\ Blocked["future"] = "awaitBlocked"
BY DEF Blocked, Cond

\* What a step does to the threads whose put has not taken effect.
SamePutting == \A t \in Thread : pc'[t] \in Putting <=> pc[t] \in Putting

\* The thread t moves to l, and nobody waits where t was.
LEMMA GotoWait ==
    ASSUME WaitInv, NEW t \in Thread, NEW l \in Label, Goto(t, l),
           \A c \in Cond : pc[t] # Blocked[c]
    PROVE  /\ pc' \in [Thread -> Label] /\ waiting' \in [Cond -> SUBSET Thread]
           /\ \A c \in Cond : \A u \in waiting'[c] : pc'[u] = Blocked[c]
           /\ pc'[t] = l /\ \A u \in Thread : u # t => pc'[u] = pc[u]
BY DEF WaitInv, Goto

LEMMA ConditionWaitWait ==
    ASSUME WaitInv, NEW t \in Thread, NEW d \in Cond, ConditionWait(t, d, Blocked[d]),
           Blocked[d] \in Label, \A c \in Cond : pc[t] # Blocked[c]
    PROVE  /\ pc' \in [Thread -> Label] /\ waiting' \in [Cond -> SUBSET Thread]
           /\ \A c \in Cond : \A u \in waiting'[c] : pc'[u] = Blocked[c]
           /\ pc'[t] = Blocked[d] /\ \A u \in Thread : u # t => pc'[u] = pc[u]
BY DEF WaitInv, ConditionWait

\* A signal moves the signalling thread and one that waited.
LEMMA SignalWait ==
    ASSUME WaitInv, NEW t \in Thread, NEW d \in Cond, NEW l \in Label, NEW woken \in Label,
           ConditionSignal(t, d, l, woken), \A c \in Cond : pc[t] # Blocked[c]
    PROVE  /\ pc' \in [Thread -> Label] /\ waiting' \in [Cond -> SUBSET Thread]
           /\ \A c \in Cond : \A u \in waiting'[c] : pc'[u] = Blocked[c]
           /\ pc'[t] = l
           /\ \A u \in Thread : u # t => \/ pc'[u] = pc[u]
                                         \/ pc[u] = Blocked[d] /\ pc'[u] = woken
<1>1. CASE waiting[d] = {}
  BY <1>1, GotoWait DEF ConditionSignal
<1>2. CASE waiting[d] # {}
  <2>1. PICK u \in waiting[d] :
           /\ waiting' = [waiting EXCEPT ![d] = @ \ {u}]
           /\ pc' = [pc EXCEPT ![t] = l, ![u] = woken]
    BY <1>2 DEF ConditionSignal
  <2>2. u \in Thread /\ pc[u] = Blocked[d] /\ u # t
    BY <2>1 DEF WaitInv
  <2>3. \A c \in Cond : c # d => u \notin waiting[c]
    BY <2>2, BlockedAt DEF WaitInv, Cond
  <2> QED
    BY <2>1, <2>2, <2>3 DEF WaitInv
<1> QED
  BY <1>1, <1>2

LEMMA WaitInit == Init => WaitInv
BY DEF Init, WaitInv, Label, Content, Putting

\* A step that leaves arguments and boxes alone and starts no put.
LEMMA WaitSame ==
    ASSUME WaitInv, UNCHANGED <<arg, full, slot>>,
           pc' \in [Thread -> Label], waiting' \in [Cond -> SUBSET Thread],
           \A c \in Cond : \A u \in waiting'[c] : pc'[u] = Blocked[c],
           SamePutting
    PROVE  WaitInv'
BY DEF WaitInv, SamePutting

\* The steps of the threads that neither put nor take a value, whatever object
\* they use: no put begins or ends by them.
Quiet == WaitInv' /\ SamePutting /\ UNCHANGED <<arg, full, slot, sent, received>>

LEMMA QuietSync ==
    ASSUME WaitInv, NEW t \in Thread,
           \/ semaphore_post(t) \/ semaphore_wait(t) \/ semaphore_wait_end(t)
           \/ barrier_wait_end(t) \/ await_future(t) \/ await_future_end(t)
    PROVE  Quiet
<1>0. UNCHANGED <<arg, full, slot, sent, received>>
  BY DEF semaphore_post, semaphore_wait, semaphore_wait_end, barrier_wait_end,
         await_future, await_future_end, channel
<1>1. /\ pc[t] \in {"idle", "semaWoken", "barrierWoken", "awaitWoken"}
      /\ \A c \in Cond : pc[t] # Blocked[c]
  BY BlockedAt DEF semaphore_post, semaphore_wait, semaphore_wait_end,
         barrier_wait_end, await_future, await_future_end, Start, Cond
<1>2. CASE semaphore_post(t)
  <2>1. ConditionSignal(t, "sema", "idle", "semaWoken")
    BY <1>2 DEF semaphore_post
  <2>2. "sema" \in Cond /\ "idle" \in Label /\ "semaWoken" \in Label
    BY DEF Cond, Label
  <2>3. /\ pc' \in [Thread -> Label] /\ waiting' \in [Cond -> SUBSET Thread]
        /\ \A c \in Cond : \A u \in waiting'[c] : pc'[u] = Blocked[c]
        /\ pc'[t] = "idle"
        /\ \A u \in Thread : u # t => \/ pc'[u] = pc[u]
                                      \/ pc[u] = "semaBlocked" /\ pc'[u] = "semaWoken"
    BY <1>1, <2>1, <2>2, SignalWait, BlockedAt
  <2>4. SamePutting
    BY <1>1, <2>3 DEF SamePutting, Putting
  <2> QED
    BY <1>0, <2>3, <2>4, WaitSame DEF Quiet
<1>3. CASE \/ semaphore_wait(t) \/ semaphore_wait_end(t)
           \/ barrier_wait_end(t) \/ await_future(t) \/ await_future_end(t)
  <2>1. \/ Goto(t, "idle") \/ ConditionWait(t, "sema", "semaBlocked")
        \/ ConditionWait(t, "future", "awaitBlocked")
    BY <1>3 DEF semaphore_wait, semaphore_wait_end, barrier_wait_end, await_future,
                await_future_end
  <2>2. /\ {"sema", "future"} \subseteq Cond
        /\ {"idle", "semaBlocked", "awaitBlocked"} \subseteq Label
    BY DEF Cond, Label
  <2>3. /\ pc' \in [Thread -> Label] /\ waiting' \in [Cond -> SUBSET Thread]
        /\ \A c \in Cond : \A u \in waiting'[c] : pc'[u] = Blocked[c]
        /\ pc'[t] \in {"idle", "semaBlocked", "awaitBlocked"}
        /\ \A u \in Thread : u # t => pc'[u] = pc[u]
    <3>1. CASE Goto(t, "idle")
      BY <1>1, <2>2, <3>1, GotoWait
    <3>2. CASE ConditionWait(t, "sema", "semaBlocked")
      BY <1>1, <2>2, <3>2, ConditionWaitWait, BlockedAt
    <3>3. CASE ConditionWait(t, "future", "awaitBlocked")
      BY <1>1, <2>2, <3>3, ConditionWaitWait, BlockedAt
    <3> QED
      BY <2>1, <3>1, <3>2, <3>3
  <2>4. SamePutting
    BY <1>1, <2>3 DEF SamePutting, Putting
  <2> QED
    BY <1>0, <2>3, <2>4, WaitSame DEF Quiet
<1> QED
  BY <1>2, <1>3

\* A broadcast on d moves every thread that waited on d.
LEMMA QuietBroadcast ==
    ASSUME WaitInv, NEW d \in {"barrier", "future"}, NEW woken \in {"barrierWoken", "awaitWoken"},
           waiting' = [waiting EXCEPT ![d] = {}],
           pc' = [u \in Thread |-> IF u \in waiting[d] THEN woken ELSE pc[u]],
           UNCHANGED <<arg, full, slot, sent, received>>
    PROVE  Quiet
<1>1. d \in Cond /\ woken \in Label
  BY DEF Cond, Label
<1>2. pc' \in [Thread -> Label] /\ waiting' \in [Cond -> SUBSET Thread]
  BY <1>1 DEF WaitInv
<1>3. \A u \in waiting[d] : u \in Thread /\ pc[u] = Blocked[d]
  BY <1>1 DEF WaitInv
<1>4. \A c \in Cond : c # d => Blocked[c] # Blocked[d]
  BY <1>1, BlockedAt DEF Cond
<1>5. ASSUME NEW c \in Cond, NEW u \in waiting'[c] PROVE pc'[u] = Blocked[c]
  <2>1. c # d /\ u \in waiting[c] /\ u \in Thread /\ pc[u] = Blocked[c]
    BY <1>1, <1>2, <1>5 DEF WaitInv
  <2>2. u \notin waiting[d]
    BY <2>1, <1>3, <1>4, BlockedAt DEF Cond
  <2> QED
    BY <2>1, <2>2
<1>6. SamePutting
  <2>1. Blocked[d] \notin Putting /\ woken \notin Putting
    BY BlockedAt DEF Putting
  <2> QED
    BY <1>3, <2>1 DEF SamePutting, WaitInv
<1> QED
  BY <1>2, <1>5, <1>6, WaitSame DEF Quiet

LEMMA QuietBarrier == ASSUME WaitInv, NEW t \in Thread, barrier_wait(t) PROVE Quiet
<1>1. pc[t] = "idle" /\ UNCHANGED <<arg, full, slot, sent, received>>
  BY DEF barrier_wait, Start, channel
<1>2. CASE Last
  <2>1. ConditionBroadcast(t, "barrier", "idle", "barrierWoken")
    BY <1>2 DEF barrier_wait
  <2>2. /\ waiting' = [waiting EXCEPT !["barrier"] = {}]
        /\ pc' = [u \in Thread |-> IF u \in waiting["barrier"] THEN "barrierWoken" ELSE pc[u]]
    BY <1>1, <2>1 DEF ConditionBroadcast
  <2> QED
    BY <1>1, <2>2, QuietBroadcast
<1>3. CASE ~Last
  <2>1. ConditionWait(t, "barrier", "barrierBlocked")
    BY <1>3 DEF barrier_wait
  <2>2. "barrier" \in Cond /\ "barrierBlocked" \in Label /\ \A c \in Cond : pc[t] # Blocked[c]
    BY <1>1, BlockedAt DEF Cond, Label
  <2>3. /\ pc' \in [Thread -> Label] /\ waiting' \in [Cond -> SUBSET Thread]
        /\ \A c \in Cond : \A u \in waiting'[c] : pc'[u] = Blocked[c]
        /\ pc'[t] = "barrierBlocked" /\ \A u \in Thread : u # t => pc'[u] = pc[u]
    BY <2>1, <2>2, ConditionWaitWait, BlockedAt
  <2>4. SamePutting
    BY <1>1, <2>3 DEF SamePutting, Putting
  <2> QED
    BY <1>1, <2>3, <2>4, WaitSame DEF Quiet
<1> QED
  BY <1>2, <1>3

LEMMA QuietFuture == ASSUME WaitInv, future_work PROVE Quiet
<1>1. /\ waiting' = [waiting EXCEPT !["future"] = {}]
      /\ pc' = [u \in Thread |-> IF u \in waiting["future"] THEN "awaitWoken" ELSE pc[u]]
      /\ UNCHANGED <<arg, full, slot, sent, received>>
  BY DEF future_work, channel
<1> QED
  BY <1>1, QuietBroadcast

\* A thread that waits on no condition variable moves, or goes to wait, and
\* begins or ends no put by it.
LEMMA QuietMove ==
    ASSUME WaitInv, NEW t \in Thread, NEW l \in Label, NEW c \in Cond,
           Goto(t, l) \/ (ConditionWait(t, c, l) /\ l = Blocked[c]),
           pc[t] \in Label \ {"semaBlocked", "barrierBlocked", "putBlocked",
                              "getBlocked", "awaitBlocked"},
           l \in Putting <=> pc[t] \in Putting,
           UNCHANGED <<arg, full, slot, sent, received>>
    PROVE  Quiet
<1>1. \A d \in Cond : pc[t] # Blocked[d]
  BY BlockedAt DEF Cond
<1>2. /\ pc' \in [Thread -> Label] /\ waiting' \in [Cond -> SUBSET Thread]
      /\ \A d \in Cond : \A u \in waiting'[d] : pc'[u] = Blocked[d]
      /\ pc'[t] = l /\ \A u \in Thread : u # t => pc'[u] = pc[u]
  <2>1. CASE Goto(t, l)
    BY <1>1, <2>1, GotoWait
  <2>2. CASE ConditionWait(t, c, l) /\ l = Blocked[c]
    BY <1>1, <2>2, ConditionWaitWait
  <2> QED
    BY <2>1, <2>2
<1>3. SamePutting
  BY <1>2 DEF SamePutting
<1> QED
  BY <1>2, <1>3, WaitSame DEF Quiet

\* condition-signal after a put or a get: a woken put begins again, a woken get
\* tries again.
LEMMA QuietSignal ==
    ASSUME WaitInv, NEW t \in Thread, channel_put_signal(t) \/ channel_get_signal(t)
    PROVE  Quiet
<1>1. /\ pc[t] \in {"putSignal", "getSignal"} /\ UNCHANGED <<arg, full, slot, sent, received>>
      /\ \A c \in Cond : pc[t] # Blocked[c]
  BY BlockedAt DEF channel_put_signal, channel_get_signal, channel, Cond
<1>2. {"val", "read"} \subseteq Cond /\ {"idle", "get", "put"} \subseteq Label
  BY DEF Cond, Label
<1>3. /\ pc' \in [Thread -> Label] /\ waiting' \in [Cond -> SUBSET Thread]
      /\ \A c \in Cond : \A u \in waiting'[c] : pc'[u] = Blocked[c]
      /\ pc'[t] = "idle"
      /\ \A u \in Thread : u # t => \/ pc'[u] = pc[u]
                                    \/ pc[u] = "getBlocked" /\ pc'[u] = "get"
                                    \/ pc[u] = "putBlocked" /\ pc'[u] = "put"
  <2>1. CASE channel_put_signal(t)
    <3>1. ConditionSignal(t, "val", "idle", "get")
      BY <2>1 DEF channel_put_signal
    <3> QED
      BY <1>1, <1>2, <3>1, SignalWait, BlockedAt
  <2>2. CASE channel_get_signal(t)
    <3>1. ConditionSignal(t, "read", "idle", "put")
      BY <2>2 DEF channel_get_signal
    <3> QED
      BY <1>1, <1>2, <3>1, SignalWait, BlockedAt
  <2> QED
    BY <2>1, <2>2
<1>4. SamePutting
  BY <1>1, <1>3 DEF SamePutting, Putting
<1> QED
  BY <1>1, <1>3, <1>4, WaitSame DEF Quiet

LEMMA QuietChannel ==
    ASSUME WaitInv, NEW t \in Thread,
           \/ channel_get(t) \/ mutex_acquire(t)
           \/ channel_put_in(t) /\ full
           \/ channel_get_in(t) /\ ~full
           \/ channel_get_non_blocking(t)
           \/ channel_get_non_blocking_in(t) /\ slot = Null
           \/ channel_get_with_timeout(t) \/ channel_poll(t)
           \/ channel_poll_in(t) /\ slot = Null
    PROVE  Quiet
<1>0. {"read", "val"} \subseteq Cond /\ Blocked["read"] = "putBlocked" /\ Blocked["val"] = "getBlocked"
  BY BlockedAt DEF Cond
<1>1. CASE channel_get(t) \/ channel_get_with_timeout(t)
  <2>1. /\ pc[t] = "idle" /\ (Goto(t, "get") \/ Goto(t, "poll"))
        /\ UNCHANGED <<arg, full, slot, sent, received>>
    BY <1>1 DEF channel_get, channel_get_with_timeout, Start, channel
  <2> QED
    BY <1>0, <2>1, QuietMove DEF Label, Putting
<1>2. CASE mutex_acquire(t)
  <2>1. /\ \/ pc[t] = "put" /\ Goto(t, "putIn")
           \/ pc[t] = "get" /\ Goto(t, "getIn")
        /\ UNCHANGED <<arg, full, slot, sent, received>>
    BY <1>2 DEF mutex_acquire
  <2> QED
    BY <1>0, <2>1, QuietMove DEF Label, Putting
<1>3. CASE channel_put_in(t) /\ full
  <2>1. /\ pc[t] = "putIn" /\ ConditionWait(t, "read", "putBlocked")
        /\ UNCHANGED <<arg, full, slot, sent, received>>
    BY <1>3 DEF channel_put_in
  <2> QED
    BY <1>0, <2>1, QuietMove DEF Label, Putting
<1>4. CASE channel_get_in(t) /\ ~full
  <2>1. /\ pc[t] = "getIn" /\ ConditionWait(t, "val", "getBlocked")
        /\ UNCHANGED <<arg, full, slot, sent, received>>
    BY <1>4 DEF channel_get_in
  <2> QED
    BY <1>0, <2>1, QuietMove DEF Label, Putting
<1>5. CASE channel_get_non_blocking(t)
  <2>1. /\ pc[t] = "idle" /\ (Goto(t, "tryIn") \/ Goto(t, "idle"))
        /\ UNCHANGED <<arg, full, slot, sent, received>>
    BY <1>5 DEF channel_get_non_blocking, Start
  <2> QED
    BY <1>0, <2>1, QuietMove DEF Label, Putting
<1>6. CASE channel_get_non_blocking_in(t) /\ slot = Null
  <2>1. /\ pc[t] = "tryIn" /\ Goto(t, "idle")
        /\ UNCHANGED <<arg, full, slot, sent, received>>
    BY <1>6 DEF channel_get_non_blocking_in
  <2> QED
    BY <1>0, <2>1, QuietMove DEF Label, Putting
<1>7. CASE channel_poll(t)
  <2>1. /\ pc[t] = "poll" /\ UNCHANGED <<arg, full, slot, sent, received>>
        /\ Goto(t, "pollIn") \/ UNCHANGED <<pc, waiting>>
    BY <1>7 DEF channel_poll
  <2>2. CASE Goto(t, "pollIn")
    BY <1>0, <2>1, <2>2, QuietMove DEF Label, Putting
  <2>3. CASE UNCHANGED <<pc, waiting>>
    BY <2>1, <2>3 DEF Quiet, WaitInv, SamePutting
  <2> QED
    BY <2>1, <2>2, <2>3
<1>8. CASE channel_poll_in(t) /\ slot = Null
  <2>1. /\ pc[t] = "pollIn" /\ (Goto(t, "idle") \/ Goto(t, "poll"))
        /\ UNCHANGED <<arg, full, slot, sent, received>>
    BY <1>8 DEF channel_poll_in
  <2> QED
    BY <1>0, <2>1, QuietMove DEF Label, Putting
<1> QED
  BY <1>1, <1>2, <1>3, <1>4, <1>5, <1>6, <1>7, <1>8

\* The call of a put, and the step by which it takes effect.
LEMMA PutCalled ==
    ASSUME WaitInv, NEW t \in Thread, NEW v \in Value, channel_put(t, v)
    PROVE  /\ WaitInv' /\ arg' = [arg EXCEPT ![t] = v]
           /\ pc[t] \notin Putting /\ pc'[t] \in Putting
           /\ \A u \in Thread : u # t => pc'[u] = pc[u]
           /\ UNCHANGED <<full, slot, sent, received>>
<1>1. /\ pc[t] = "idle" /\ Goto(t, "put") /\ arg' = [arg EXCEPT ![t] = v]
      /\ UNCHANGED <<full, slot, sent, received>>
  BY DEF channel_put, Start
<1>2. "put" \in Label /\ \A c \in Cond : pc[t] # Blocked[c]
  BY <1>1, BlockedAt DEF Cond, Label
<1>3. /\ pc' \in [Thread -> Label] /\ waiting' \in [Cond -> SUBSET Thread]
      /\ \A c \in Cond : \A u \in waiting'[c] : pc'[u] = Blocked[c]
      /\ pc'[t] = "put" /\ \A u \in Thread : u # t => pc'[u] = pc[u]
  BY <1>1, <1>2, GotoWait
<1> QED
  BY <1>1, <1>3 DEF WaitInv, Putting, Content

LEMMA PutDone ==
    ASSUME WaitInv, NEW t \in Thread, channel_put_in(t), ~full
    PROVE  /\ WaitInv' /\ arg[t] \in Value
           /\ pc[t] \in Putting /\ pc'[t] \notin Putting
           /\ \A u \in Thread : u # t => pc'[u] = pc[u] /\ arg'[u] = arg[u]
           /\ full' = TRUE /\ slot' = arg[t] /\ sent' = Append(sent, arg[t])
           /\ UNCHANGED received
<1>1. /\ pc[t] = "putIn" /\ Goto(t, "putSignal") /\ arg' = [arg EXCEPT ![t] = Null]
      /\ full' = TRUE /\ slot' = arg[t] /\ sent' = Append(sent, arg[t])
      /\ UNCHANGED received
  BY DEF channel_put_in
<1>2. "putSignal" \in Label /\ \A c \in Cond : pc[t] # Blocked[c]
  BY <1>1, BlockedAt DEF Cond, Label
<1>3. /\ pc' \in [Thread -> Label] /\ waiting' \in [Cond -> SUBSET Thread]
      /\ \A c \in Cond : \A u \in waiting'[c] : pc'[u] = Blocked[c]
      /\ pc'[t] = "putSignal" /\ \A u \in Thread : u # t => pc'[u] = pc[u]
  BY <1>1, <1>2, GotoWait
<1> QED
  BY <1>1, <1>3 DEF WaitInv, Putting, Content

\* All kinds of get that find a value.
Taking(t) == \/ channel_get_in(t) /\ full
             \/ channel_get_non_blocking_in(t) /\ slot # Null
             \/ channel_poll_in(t) /\ slot # Null

LEMMA GetDone ==
    ASSUME WaitInv, NEW t \in Thread, Taking(t)
    PROVE  /\ WaitInv' /\ SamePutting /\ arg' = arg
           /\ full' = FALSE /\ sent' = sent /\ received' = Append(received, slot)
<1>1. /\ pc[t] \in {"getIn", "tryIn", "pollIn"} /\ Take(t) /\ UNCHANGED <<arg, sent>>
  BY DEF Taking, channel_get_in, channel_get_non_blocking_in, channel_poll_in
<1>2. /\ Goto(t, "getSignal") /\ full' = FALSE /\ received' = Append(received, slot)
  BY <1>1 DEF Take
<1>3. "getSignal" \in Label /\ \A c \in Cond : pc[t] # Blocked[c]
  BY <1>1, BlockedAt DEF Cond, Label
<1>4. /\ pc' \in [Thread -> Label] /\ waiting' \in [Cond -> SUBSET Thread]
      /\ \A c \in Cond : \A u \in waiting'[c] : pc'[u] = Blocked[c]
      /\ pc'[t] = "getSignal" /\ \A u \in Thread : u # t => pc'[u] = pc[u]
  BY <1>2, <1>3, GotoWait
<1>5. SamePutting
  BY <1>1, <1>4 DEF SamePutting, Putting
<1> QED
  BY <1>1, <1>2, <1>4, <1>5 DEF WaitInv, SamePutting

\* Every step is one of these four.
LEMMA StepKinds ==
    ASSUME WaitInv, [Next]_vars
    PROVE  \/ Quiet
           \/ \E t \in Thread, v \in Value : channel_put(t, v)
           \/ \E t \in Thread : channel_put_in(t) /\ ~full
           \/ \E t \in Thread : Taking(t)
<1>1. CASE UNCHANGED vars
  BY <1>1 DEF vars, Quiet, WaitInv, SamePutting
<1>2. CASE future_work
  BY <1>2, QuietFuture
<1>3. ASSUME NEW t \in Thread, Call(t)
      PROVE  Quiet \/ \E v \in Value : channel_put(t, v)
  <2>1. CASE semaphore_post(t) \/ semaphore_wait(t) \/ await_future(t)
    BY <2>1, QuietSync
  <2>2. CASE barrier_wait(t)
    BY <2>2, QuietBarrier
  <2>3. CASE channel_get(t)
    BY <2>3, QuietChannel
  <2>4. CASE channel_get_non_blocking(t)
    BY <2>4, QuietChannel
  <2>5. CASE channel_get_with_timeout(t)
    BY <2>5, QuietChannel
  <2> QED
    BY <1>3, <2>1, <2>2, <2>3, <2>4, <2>5 DEF Call
<1>4. ASSUME NEW t \in Thread, Continue(t)
      PROVE  Quiet \/ (channel_put_in(t) /\ ~full) \/ Taking(t)
  <2>1. CASE semaphore_wait_end(t) \/ barrier_wait_end(t) \/ await_future_end(t)
    BY <2>1, QuietSync
  <2>2. CASE channel_put_signal(t) \/ channel_get_signal(t)
    BY <2>2, QuietSignal
  <2>3. CASE mutex_acquire(t) \/ channel_poll(t)
    BY <2>3, QuietChannel
  <2>4. CASE channel_put_in(t)
    BY <2>4, QuietChannel
  <2>5. CASE channel_get_in(t)
    BY <2>5, QuietChannel DEF Taking
  <2>6. CASE channel_get_non_blocking_in(t)
    BY <2>6, QuietChannel DEF Taking
  <2>7. CASE channel_poll_in(t)
    BY <2>7, QuietChannel DEF Taking
  <2> QED
    BY <1>4, <2>1, <2>2, <2>3, <2>4, <2>5, <2>6, <2>7 DEF Continue
<1> QED
  BY <1>1, <1>2, <1>3, <1>4 DEF Next

LEMMA WaitNext == ASSUME WaitInv, [Next]_vars PROVE WaitInv'
BY StepKinds, PutCalled, PutDone, GetDone DEF Quiet

\* The refinement, step by step.
LEMMA BufferInit == Init => Buffer!BInit
BY DEF Init, Buffer!BInit

LEMMA BufferNext ==
    ASSUME WaitInv, ChannelInv, [Next]_vars
    PROVE  [Buffer!BNext]_(Buffer!bvars)
<1> DEFINE P == [t \in Thread |-> IF pc[t] \in {"put", "putIn", "putBlocked"}
                                  THEN <<arg[t]>> ELSE <<>>]
           Q == [t \in Thread |-> IF pc'[t] \in {"put", "putIn", "putBlocked"}
                                  THEN <<arg'[t]>> ELSE <<>>]
<1>1. CASE Quiet
  <2>1. Q = P /\ UNCHANGED <<full, slot, sent, received>>
    BY <1>1 DEF Quiet, SamePutting, Putting
  <2>2. UNCHANGED Buffer!bvars
    BY <2>1 DEF Buffer!bvars
  <2> QED
    BY <2>2
<1>2. ASSUME NEW t \in Thread, NEW v \in Value, channel_put(t, v)
      PROVE  Buffer!CallPut(t, v)
  <2>1. /\ pc[t] \notin Putting /\ pc'[t] \in Putting
        /\ \A u \in Thread : u # t => pc'[u] = pc[u]
        /\ arg' = [arg EXCEPT ![t] = v] /\ UNCHANGED <<full, slot, sent, received>>
    BY <1>2, PutCalled
  <2>2. P[t] = <<>> /\ Q = [P EXCEPT ![t] = <<v>>]
    BY <2>1 DEF Putting, WaitInv
  <2> QED
    BY <2>1, <2>2 DEF Buffer!CallPut
<1>3. ASSUME NEW t \in Thread, channel_put_in(t), ~full
      PROVE  Buffer!Put(t)
  <2>1. /\ pc[t] \in Putting /\ pc'[t] \notin Putting /\ arg[t] \in Value
        /\ \A u \in Thread : u # t => pc'[u] = pc[u] /\ arg'[u] = arg[u]
        /\ full' = TRUE /\ slot' = arg[t] /\ sent' = Append(sent, arg[t])
        /\ UNCHANGED received
    BY <1>3, PutDone
  <2>2. P[t] = <<arg[t]>> /\ P[t] # <<>> /\ Q = [P EXCEPT ![t] = <<>>]
    BY <2>1 DEF Putting
  <2>3. sent' = sent \o <<arg[t]>>
    BY <2>1 DEF ChannelInv, Content
  <2> QED
    BY <1>3, <2>1, <2>2, <2>3 DEF Buffer!Put
<1>4. ASSUME NEW t \in Thread, Taking(t) PROVE Buffer!Get
  <2>1. /\ SamePutting /\ arg' = arg
        /\ full' = FALSE /\ sent' = sent /\ received' = Append(received, slot)
    BY <1>4, GetDone
  <2>2. full
    BY <1>4 DEF Taking, ChannelInv
  <2>3. Q = P
    BY <2>1 DEF SamePutting, Putting
  <2>4. received' = received \o <<slot>> /\ <<slot>> # <<>>
    BY <2>1 DEF ChannelInv
  <2> QED
    BY <2>1, <2>2, <2>3, <2>4 DEF Buffer!Get
<1> QED
  BY <1>1, <1>2, <1>3, <1>4, StepKinds DEF Buffer!BNext

\* Whatever the interleaving of puts, the three kinds of get, wakeups and
\* signals, the channel of the Chez runtime behaves as a one place buffer:
\* each put takes effect once and each value leaves once, in order.
THEOREM ChannelImplementsBuffer == Spec => ImplementsBuffer
<1>1. WaitInv /\ [Next]_vars => WaitInv'
  BY WaitNext
<1>2. ChannelInv /\ [Next]_vars => ChannelInv'
  BY ChannelNext
<1>3. WaitInv /\ ChannelInv /\ [Next]_vars => [Buffer!BNext]_(Buffer!bvars)
  BY BufferNext
<1> QED
  BY WaitInit, ChannelInit, BufferInit, <1>1, <1>2, <1>3, PTL
     DEF Spec, ImplementsBuffer, Buffer!BSpec

\* A get that does not block, or polls, overlooks no value as long as '() is
\* not itself a value that is sent.
THEOREM NoneOverlooked == ASSUME Null \notin Value PROVE Spec => []NothingOverlooked
<1>1. Init => NothingOverlooked
  BY DEF Init, NothingOverlooked
<1>2. ASSUME WaitInv, NothingOverlooked, [Next]_vars PROVE NothingOverlooked'
  <2>1. slot = Null => ~full
    BY <1>2 DEF WaitInv
  <2>2. ASSUME NEW t \in Thread, channel_get_non_blocking_in(t) PROVE ~missed'
    <3>1. missed' = missed \/ (missed' = (missed \/ full) /\ ~full)
      BY <2>1, <2>2 DEF channel_get_non_blocking_in
    <3> QED
      BY <1>2, <3>1, Zenon DEF NothingOverlooked
  <2>3. ASSUME NEW t \in Thread, channel_poll_in(t) PROVE ~missed'
    <3>1. missed' = missed \/ (missed' = (missed \/ full) /\ ~full)
      BY <2>1, <2>3 DEF channel_poll_in
    <3> QED
      BY <1>2, <3>1, Zenon DEF NothingOverlooked
  <2>4. \/ missed' = missed
        \/ \E t \in Thread : channel_get_non_blocking_in(t) \/ channel_poll_in(t)
    BY <1>2 DEF Next, Call, Continue, vars, future_work, semaphore_post, semaphore_wait,
       semaphore_wait_end, barrier_wait, barrier_wait_end, await_future, await_future_end,
       channel_put, channel_get, mutex_acquire, channel_put_in, channel_put_signal,
       channel_get_in, channel_get_signal, channel_get_non_blocking,
       channel_get_with_timeout, channel_poll, channel
  <2> QED
    BY <1>2, <2>2, <2>3, <2>4 DEF NothingOverlooked
<1>3. WaitInv /\ [Next]_vars => WaitInv'
  BY WaitNext
<1>4. WaitInv /\ NothingOverlooked /\ [Next]_vars => NothingOverlooked'
  BY <1>2
<1> QED
  BY <1>1, <1>3, <1>4, WaitInit, PTL DEF Spec

=============================================================================
