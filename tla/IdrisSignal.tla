---------------------------- MODULE IdrisSignal ----------------------------
(***************************************************************************)
(* Collected signals (_/support/c/idris_signal.c): the handler             *)
(* _collect_signal, which may run between any two instructions, and the    *)
(* threads that call handle_next_collected_signal share one atomic word,   *)
(* modelled by the set of its bits.                                        *)
(***************************************************************************)
EXTENDS Integers

CONSTANTS Sig,        \* the signal numbers of the system
          N_SIGNALS,  \* N_SIGNALS
          Thread,     \* the threads that handle collected signals
          MaxRaise    \* bound on the signals sent to the process

ASSUME SignalAssumption ==
    Sig \subseteq Nat /\ N_SIGNALS \in Nat /\ MaxRaise \in Nat

VARIABLES disp,     \* the disposition of each signal
          pending,  \* signals the kernel has not delivered yet
          signals,  \* the bits of the atomic word
          pc,       \* where each thread is in handle_next_collected_signal
          snap,     \* signals_snapshot of each thread
          alive,    \* the process runs
          sent,     \* how many signals were sent
          raised,   \* how often the handler has collected each signal
          handled,  \* how often each thread got each signal
          fresh     \* signals collected since anybody last got them

vars == <<disp, pending, signals, pc, snap, alive, sent, raised, handled, fresh>>

Disposition == {"default", "ignore", "collect"}

Init == /\ disp = [s \in Sig |-> "default"]
        /\ pending = {} /\ signals = {}
        /\ pc = [t \in Thread |-> "idle"]
        /\ snap = [t \in Thread |-> {}]
        /\ alive = TRUE
        /\ sent = 0
        /\ raised = [s \in Sig |-> 0]
        /\ handled = [t \in Thread |-> [s \in Sig |-> 0]]
        /\ fresh = {}

\* ignore_signal, default_signal, collect_signal: sigaction.  The kernel
\* forgets a pending signal that becomes ignored.
sigaction(s, d) ==
    /\ alive
    /\ disp' = [disp EXCEPT ![s] = d]
    /\ pending' = IF d = "ignore" THEN pending \ {s} ELSE pending
    /\ UNCHANGED <<signals, pc, snap, alive, sent, raised, handled, fresh>>

\* raise_signal, or send_signal of this or another process.
send_signal(s) ==
    /\ alive /\ sent < MaxRaise
    /\ sent' = sent + 1
    /\ pending' = pending \cup {s}
    /\ UNCHANGED <<disp, signals, pc, snap, alive, raised, handled, fresh>>

\* atomic_fetch_or(&signals, 1 << s).
fetch_or(s) == signals \cup {s}

\* atomic_fetch_and(&signals, ~(1 << s)) by thread t.  Mutants: the bit is not
\* cleared; the snapshot without the bit is stored back.
fetch_and_None(t, s) == signals
fetch_and_Stale(t, s) == snap[t] \ {s}
fetch_and(t, s) == signals \ {s}

\* The handler: atomic_fetch_or.  Its IDRIS2_VERIFY ends the process.
_collect_signal(s) ==
    /\ alive /\ s \in pending /\ disp[s] = "collect"
    /\ pending' = pending \ {s}
    /\ IF s < N_SIGNALS
       THEN /\ signals' = fetch_or(s)
            /\ raised' = [raised EXCEPT ![s] = @ + 1]
            /\ fresh' = fresh \cup {s}
            /\ UNCHANGED alive
       ELSE alive' = FALSE /\ UNCHANGED <<signals, raised, fresh>>
    /\ UNCHANGED <<disp, pc, snap, sent, handled>>

\* Delivery without a handler: the default of these signals ends the process.
deliver(s) ==
    /\ alive /\ s \in pending /\ disp[s] # "collect"
    /\ pending' = pending \ {s}
    /\ alive' = (disp[s] = "ignore")
    /\ UNCHANGED <<disp, signals, pc, snap, sent, raised, handled, fresh>>

\* atomic_load; an empty snapshot returns -1 at once.
\* Mutant: the test for an empty snapshot is missing.
load_NoTest(t) ==
    /\ alive /\ pc[t] = "idle"
    /\ snap' = [snap EXCEPT ![t] = signals]
    /\ pc' = [pc EXCEPT ![t] = "scan"]
    /\ UNCHANGED <<disp, pending, signals, alive, sent, raised, handled, fresh>>
load(t) ==
    /\ alive /\ pc[t] = "idle"
    /\ snap' = [snap EXCEPT ![t] = signals]
    /\ pc' = [pc EXCEPT ![t] = IF signals = {} THEN "idle" ELSE "scan"]
    /\ UNCHANGED <<disp, pending, signals, alive, sent, raised, handled, fresh>>

\* s is the first bit of the snapshot that the loop meets.
\* Mutant: the loop only looks at the bits of one byte.
Found_Byte(t, s) == s < 8 /\ s \in snap[t] /\ \A r \in snap[t] : s <= r
Found(t, s) == s \in snap[t] /\ \A r \in snap[t] : s <= r

\* The loop clears the bit it has found with atomic_fetch_and and returns it.
clear(t, s) ==
    /\ alive /\ pc[t] = "scan"
    /\ Found(t, s)
    /\ signals' = fetch_and(t, s)
    /\ pc' = [pc EXCEPT ![t] = "idle"]
    /\ snap' = [snap EXCEPT ![t] = {}]
    /\ handled' = [handled EXCEPT ![t][s] = @ + 1]
    /\ fresh' = fresh \ {s}
    /\ UNCHANGED <<disp, pending, alive, sent, raised>>

Next == \/ \E s \in Sig, d \in Disposition : sigaction(s, d)
        \/ \E s \in Sig : send_signal(s)
        \/ \E s \in Sig : _collect_signal(s)
        \/ \E s \in Sig : deliver(s)
        \/ \E t \in Thread : load(t)
        \/ \E t \in Thread, s \in Sig : clear(t, s)

Spec == Init /\ [][Next]_vars

\* System.Signal: "call handleNextCollectedSignal in each main loop of your
\* program": each thread keeps calling it, and C code does not stop.
FairSpec == /\ Spec
            /\ \A t \in Thread : WF_vars(load(t))
            /\ \A t \in Thread : WF_vars(\E s \in Sig : clear(t, s))

-----------------------------------------------------------------------------
\* The word only ever holds the bits of signals of this system.
TypeOK == /\ disp \in [Sig -> Disposition]
          /\ pending \subseteq Sig /\ signals \subseteq Sig /\ fresh \subseteq Sig
          /\ pc \in [Thread -> {"idle", "scan"}]
          /\ snap \in [Thread -> SUBSET Sig]
          /\ alive \in BOOLEAN
          /\ sent \in 0..MaxRaise /\ raised \in [Sig -> Nat]
          /\ handled \in [Thread -> [Sig -> Nat]]

\* A signal that arrives while threads are between their load and their clear
\* is not lost: until somebody gets it after its arrival, its bit stays set.
NothingLost == fresh \subseteq signals

\* System.Signal: "the next time this function is called you will retrieve
\* the next unhandled signal instead of the same signal again": no thread
\* gets a signal more often than it was collected.
NotAgain == \A t \in Thread, s \in Sig : handled[t][s] <= raised[s]

\* abort() is not reached: a thread past the test for an empty snapshot finds
\* a bit below N_SIGNALS.
NoAbort == \A t \in Thread : pc[t] = "scan" =>
             \E s \in snap[t] : s < N_SIGNALS /\ \A r \in snap[t] : s <= r

\* While the process lives every collected signal is handed out.
HandedOut == \A s \in Sig : s \in signals /\ alive ~> s \notin signals \/ ~alive
=============================================================================
