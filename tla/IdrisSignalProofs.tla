------------------------- MODULE IdrisSignalProofs -------------------------
(* Proofs about IdrisSignal, for any signals and any number of threads. *)
EXTENDS IdrisSignal, WellFoundedInduction, TLAPS

(***************************************************************************)
(* A thread that holds s in its snapshot, or finds its bit in the word,    *)
(* has still to get an occurrence of s.                                    *)
(***************************************************************************)
Seen(t, s) == s \in signals \/ s \in snap[t]

Credit == \A t \in Thread, s \in Sig :
            handled[t][s] + (IF Seen(t, s) THEN 1 ELSE 0) <= raised[s]

IInv == TypeOK /\ NothingLost /\ Credit

LEMMA InitInv == Init => IInv
<1> SUFFICES ASSUME Init PROVE IInv
  OBVIOUS
<1>1. TypeOK
  BY SignalAssumption DEF Init, TypeOK, Disposition
<1>2. NothingLost /\ Credit
  BY DEF Init, NothingLost, Credit, Seen
<1> QED
  BY <1>1, <1>2 DEF IInv

LEMMA NextType == ASSUME TypeOK, [Next]_vars PROVE TypeOK'
<1> USE SignalAssumption DEF TypeOK
<1>1. ASSUME NEW s \in Sig, NEW d \in Disposition, sigaction(s, d) PROVE TypeOK'
  BY <1>1 DEF sigaction
<1>2. ASSUME NEW s \in Sig, send_signal(s) PROVE TypeOK'
  BY <1>2 DEF send_signal
<1>3. ASSUME NEW s \in Sig, _collect_signal(s) PROVE TypeOK'
  <2>1. CASE s < N_SIGNALS
    <3>1. alive' = alive
      BY <1>3, <2>1 DEF _collect_signal, fetch_or
    <3>2. alive' \in BOOLEAN
      BY <3>1, Zenon
    <3>3. /\ raised' = [raised EXCEPT ![s] = @ + 1]
          /\ signals' = signals \cup {s} /\ fresh' = fresh \cup {s}
          /\ pending' = pending \ {s}
          /\ UNCHANGED <<disp, pc, snap, sent, handled>>
      BY <1>3, <2>1 DEF _collect_signal, fetch_or
    <3> QED
      BY <3>2, <3>3
  <2>2. CASE ~(s < N_SIGNALS)
    BY <1>3, <2>2 DEF _collect_signal, fetch_or
  <2> QED
    BY <2>1, <2>2
<1>4. ASSUME NEW s \in Sig, deliver(s) PROVE TypeOK'
  BY <1>4 DEF deliver
<1>5. ASSUME NEW t \in Thread, load(t) PROVE TypeOK'
  BY <1>5 DEF load
<1>6. ASSUME NEW t \in Thread, NEW s \in Sig, clear(t, s) PROVE TypeOK'
  BY <1>6 DEF clear, Found, fetch_and
<1>7. CASE UNCHANGED vars
  BY <1>7 DEF vars
<1> QED
  BY <1>1, <1>2, <1>3, <1>4, <1>5, <1>6, <1>7 DEF Next

LEMMA NextLost == ASSUME TypeOK, NothingLost, [Next]_vars PROVE NothingLost'
BY DEF TypeOK, NothingLost, Next, vars, sigaction, send_signal, _collect_signal, fetch_or,
       fetch_or, deliver, load, clear, Found, fetch_and

(***************************************************************************)
(* The handler adds at most one to the left side and one to the right; a   *)
(* load sees only bits of the word; a clear trades the bit for a handled   *)
(* signal, and the other threads can only lose a bit by it.                *)
(***************************************************************************)
LEMMA NextCredit == ASSUME TypeOK, TypeOK', Credit, [Next]_vars PROVE Credit'
<1> SUFFICES ASSUME NEW t \in Thread, NEW s \in Sig
             PROVE (handled[t][s] + (IF Seen(t, s) THEN 1 ELSE 0) <= raised[s])'
  BY DEF Credit
<1>0. /\ handled[t][s] + (IF Seen(t, s) THEN 1 ELSE 0) <= raised[s]
      /\ handled[t][s] \in Nat /\ raised[s] \in Nat
  BY DEF Credit, TypeOK
<1>1. ASSUME NEW r \in Sig, _collect_signal(r)
      PROVE (handled[t][s] + (IF Seen(t, s) THEN 1 ELSE 0) <= raised[s])'
  <2>1. CASE r = s /\ r < N_SIGNALS
    <3>1. raised'[s] = raised[s] + 1
      BY <1>1, <2>1 DEF _collect_signal, fetch_or, TypeOK
    <3> QED
      BY <1>0, <1>1, <3>1 DEF _collect_signal, fetch_or, Seen
  <2>2. CASE r # s \/ ~(r < N_SIGNALS)
    <3>1. raised'[s] = raised[s] /\ (Seen(t, s)' => Seen(t, s))
      <4>1. CASE r < N_SIGNALS
        BY <1>1, <2>2, <4>1 DEF _collect_signal, fetch_or, TypeOK, Seen
      <4>2. CASE ~(r < N_SIGNALS)
        BY <1>1, <4>2 DEF _collect_signal, fetch_or, TypeOK, Seen
      <4> QED
        BY <4>1, <4>2
    <3> QED
      BY <1>0, <1>1, <3>1 DEF _collect_signal, fetch_or
  <2> QED
    BY <2>1, <2>2
<1>2. ASSUME NEW u \in Thread, load(u)
      PROVE (handled[t][s] + (IF Seen(t, s) THEN 1 ELSE 0) <= raised[s])'
  <2>1. Seen(t, s)' => Seen(t, s)
    BY <1>2 DEF load, TypeOK, Seen
  <2> QED
    BY <1>0, <1>2, <2>1 DEF load
<1>3. ASSUME NEW u \in Thread, NEW r \in Sig, clear(u, r)
      PROVE (handled[t][s] + (IF Seen(t, s) THEN 1 ELSE 0) <= raised[s])'
  <2>1. CASE u = t /\ r = s
    <3>1. Seen(t, s) /\ ~Seen(t, s)' /\ raised' = raised
      BY <1>3, <2>1 DEF clear, Found, fetch_and, TypeOK, Seen
    <3>2. handled'[t][s] = handled[t][s] + 1
      BY <1>3, <2>1 DEF clear, Found, fetch_and, TypeOK
    <3> QED
      BY <1>0, <3>1, <3>2
  <2>2. CASE u # t \/ r # s
    <3>1. (Seen(t, s)' => Seen(t, s)) /\ raised' = raised
      BY <1>3, <2>2 DEF clear, Found, fetch_and, TypeOK, Seen
    <3>2. handled'[t][s] = handled[t][s]
      BY <1>3, <2>2 DEF clear, Found, fetch_and, TypeOK
    <3> QED
      BY <1>0, <3>1, <3>2
  <2> QED
    BY <2>1, <2>2
<1>4. CASE \/ \E r \in Sig, d \in Disposition : sigaction(r, d)
           \/ \E r \in Sig : send_signal(r) \/ deliver(r)
           \/ UNCHANGED vars
  BY <1>0, <1>4 DEF sigaction, send_signal, deliver, vars, Seen
<1> QED
  BY <1>1, <1>2, <1>3, <1>4 DEF Next

LEMMA Invariance == Spec => []IInv
<1>1. IInv /\ [Next]_vars => IInv'
  BY NextType, NextLost, NextCredit DEF IInv
<1> QED
  BY InitInv, <1>1, PTL DEF Spec

\* The type invariant.
THEOREM TypeCorrect == Spec => []TypeOK
<1>1. IInv => TypeOK
  BY DEF IInv
<1> QED
  BY Invariance, <1>1, PTL

\* No interleaving of the handler with the threads between their atomic_load
\* and their atomic_fetch_and loses a signal.
THEOREM NoSignalLost == Spec => []NothingLost
<1>1. IInv => NothingLost
  BY DEF IInv
<1> QED
  BY Invariance, <1>1, PTL

\* No thread gets a signal more often than it was collected, however many
\* threads call handle_next_collected_signal.
THEOREM NoSignalTwice == Spec => []NotAgain
<1>1. IInv => NotAgain
  BY DEF IInv, Credit, NotAgain, TypeOK
<1> QED
  BY Invariance, <1>1, PTL

-----------------------------------------------------------------------------
(* The loop of handle_next_collected_signal. *)

\* Every bit of the word and of a snapshot is below N_SIGNALS, and a thread in
\* the loop has a snapshot with a bit in it.
Bits == {s \in Sig : s < N_SIGNALS}
ScanInv ==
    /\ signals \subseteq Bits /\ snap \in [Thread -> SUBSET Bits]
    /\ pc \in [Thread -> {"idle", "scan"}]
    /\ \A t \in Thread : pc[t] = "scan" => snap[t] # {}

LEMMA ScanNext == ASSUME ScanInv, [Next]_vars PROVE ScanInv'
<1>1. ASSUME NEW s \in Sig, _collect_signal(s) PROVE ScanInv'
  BY <1>1 DEF _collect_signal, fetch_or, ScanInv, Bits
<1>2. ASSUME NEW t \in Thread, load(t) PROVE ScanInv'
  BY <1>2 DEF load, ScanInv
<1>3. ASSUME NEW t \in Thread, NEW s \in Sig, clear(t, s) PROVE ScanInv'
  BY <1>3 DEF clear, fetch_and, ScanInv
<1>4. CASE \/ \E s \in Sig, d \in Disposition : sigaction(s, d)
           \/ \E s \in Sig : send_signal(s) \/ deliver(s)
           \/ UNCHANGED vars
  BY <1>4 DEF sigaction, send_signal, deliver, vars, ScanInv
<1> QED
  BY <1>1, <1>2, <1>3, <1>4 DEF Next

\* A set of signals has a least element: the bit the loop stops at.
LEMMA LeastBit ==
    ASSUME NEW S \in SUBSET Bits, S # {}
    PROVE  \E s \in S : s < N_SIGNALS /\ \A r \in S : s <= r
<1>1. S \subseteq Nat
  BY SignalAssumption DEF Bits
<1>2. PICK s \in S : \A r \in S : <<r, s>> \notin OpToRel(<, Nat)
  BY <1>1, NatLessThanWellFounded, WFMin, Zenon
<1>3. \A r \in S : ~(r < s)
  BY <1>1, <1>2 DEF OpToRel
<1> QED
  BY <1>1, <1>3, SignalAssumption DEF Bits

\* handle_next_collected_signal never falls out of its loop into abort(): no
\* other thread and no handler can take the bits of a snapshot away.
THEOREM NeverAborts == Spec => []NoAbort
<1>1. Init => ScanInv
  BY DEF Init, ScanInv, Bits
<1>2. ScanInv /\ [Next]_vars => ScanInv'
  BY ScanNext
<1>3. ScanInv => NoAbort
  BY LeastBit DEF ScanInv, NoAbort
<1> QED
  BY <1>1, <1>2, <1>3, PTL DEF Spec
=============================================================================
