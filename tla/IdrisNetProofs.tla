--------------------------- MODULE IdrisNetProofs ---------------------------
(* Proofs about IdrisNet, for any bytes, pieces, buffers and word size. *)
EXTENDS IdrisNet, SequenceTheorems, TLAPS

Loops == {"recvAll", "recvAllBytes"}
Gots  == {"recvAll got", "recvAllBytes got"}

\* recvAllRec goes on with the piece, or ends with an answer.
LEMMA RecCases ==
  ASSUME recvAllRec
  PROVE  /\ op \in Gots /\ UNCHANGED <<errno, sock, sent, shut, broken, wire>>
         /\ UNCHANGED <<put, mem, msg, by, got>>
         /\ \/ /\ ret > 0 /\ op' \in Loops /\ UNCHANGED answer
               /\ acc' = acc \o (IF op = "recvAll got" THEN String(payload) ELSE payload)
            \/ /\ ~(ret > 0) /\ op' = "none" /\ acc' = <<>>
               /\ answer'.op \in Loops /\ answer'.data = acc /\ (answer'.code = 0 => Ends)
<1>1. /\ op \in Gots /\ UNCHANGED <<errno, sock, sent, shut, broken, wire>>
      /\ UNCHANGED <<put, mem, msg, by, got>>
  BY DEF recvAllRec, Gots, peer, buffer
<1>2. CASE ret > 0
  <2>1. op' \in Loops /\ UNCHANGED answer
    BY <1>2 DEF recvAllRec, Loops
  <2>2. acc' = acc \o (IF op = "recvAll got" THEN String(payload) ELSE payload)
    BY <1>2 DEF recvAllRec
  <2> QED
    BY <1>1, <1>2, <2>1, <2>2
<1>3. CASE ~(ret > 0)
  <2> DEFINE f == IF op = "recvAll got" THEN "recvAll" ELSE "recvAllBytes"
             c == IF Ends THEN 0 ELSE 1
  <2>1. /\ op' = "none" /\ acc' = <<>>
        /\ answer' = [op |-> f, code |-> c, data |-> acc, count |-> 0]
    BY <1>3 DEF recvAllRec
  <2>2. f \in Loops
    BY DEF Loops
  <2>3. c = 0 => Ends
    OBVIOUS
  <2> HIDE DEF f, c
  <2>4. answer'.op = f /\ answer'.data = acc /\ answer'.code = c
    BY <2>1
  <2> QED
    BY <1>1, <1>3, <2>1, <2>2, <2>3, <2>4
<1> QED
  BY <1>2, <1>3

-----------------------------------------------------------------------------
(***************************************************************************)
(* Results.  While a function of the library is between its two foreign    *)
(* calls, a failure of the kernel has left an errno, that of a name lookup *)
(* perhaps none, and a success the socket's state.                         *)
(***************************************************************************)
Setups == {"socket", "bind", "connect", "listen", "accept", "send", "sendTo"}

CodeInv ==
    /\ op # "none" => answer.op = "none"
    /\ op \in {"listen", "accept"} /\ ret = -1 => errno = 1
    /\ op = "bind" /\ ret # -1 => sock = "bound"
    /\ op = "connect" /\ ret # -1 => sock = "connected"
    /\ op = "listen" /\ ret # -1 => sock = "listening"
    /\ op = "accept" /\ ret # -1 => sock = "connected"
    /\ ResultSound

\* Whatever errno held before and however the kernel failed, a socket function
\* answers 0 only when the socket has got to the new state, or when getaddrinfo
\* failed in bind or connect and errno is still the 0 the program started with.
THEOREM NetResultSound == Spec => []ResultSound
<1>1. Init => CodeInv
  BY DEF Init, CodeInv, ResultSound, Done, Nothing
<1>2. CodeInv /\ [Next]_vars => CodeInv'
  <2> SUFFICES ASSUME CodeInv, [Next]_vars PROVE CodeInv'
    OBVIOUS
  <2> USE DEF CodeInv, ResultSound, Done
  <2>1. CASE UNCHANGED vars
    BY <2>1 DEF vars
  <2>2. CASE idrnet_socket \/ idrnet_listen \/ idrnet_accept \/ idrnet_send
    BY <2>2 DEF idrnet_socket, idrnet_listen, idrnet_accept, idrnet_send, Call, Kernel, Nothing
  <2>3. CASE idrnet_bind \/ idrnet_connect \/ idrnet_sendto
    BY <2>3 DEF idrnet_bind, idrnet_connect, idrnet_sendto, Call, Kernel, Unresolved, Nothing
  <2>4. CASE setup_return
    BY <2>4 DEF setup_return, Return, Code
  <2>5. CASE idrnet_close
    BY <2>5 DEF idrnet_close, Nothing
  <2>6. CASE Peer
    BY <2>6 DEF Peer, peer_send, peer_close, reset
  <2>7. CASE \E f \in {"recvAll", "recvAllBytes"} : recvAll(f)
    BY <2>7 DEF recvAll, Nothing
  <2>8. CASE idrnet_recv
    BY <2>8 DEF idrnet_recv
  <2>9. CASE recvAllRec
    BY <2>9, RecCases DEF Loops, Gots
  <2>10. CASE idrnet_send_buf \/ idrnet_sendto_buf
    BY <2>10 DEF idrnet_send_buf, idrnet_sendto_buf, Call, Nothing
  <2>11. CASE send_return
    BY <2>11 DEF send_return, Return
  <2>12. CASE idrnet_recvfrom \/ idrnet_recv_buf \/ idrnet_recvfrom_buf
    BY <2>12 DEF idrnet_recvfrom, idrnet_recv_buf, idrnet_recvfrom_buf, Call, Nothing
  <2>13. CASE recvfrom_return
    BY <2>13 DEF recvfrom_return, Return
  <2>14. CASE crash
    BY <2>14 DEF crash
  <2>15. CASE next_message
    BY <2>15 DEF next_message, Nothing
  <2> QED
    BY <2>1, <2>2, <2>3, <2>4, <2>5, <2>6, <2>7, <2>8, <2>9, <2>10, <2>11, <2>12, <2>13,
       <2>14, <2>15 DEF Next, Setup, Receive, Message
<1>3. CodeInv => ResultSound
  BY DEF CodeInv
<1> QED
  BY <1>1, <1>2, <1>3, PTL DEF Spec

-----------------------------------------------------------------------------
(***************************************************************************)
(* recvAll.  On a connection that has not broken, what recvAllRec has      *)
(* accumulated, the piece idrnet_recv has just received and what is still  *)
(* on the wire are together what the peer has sent.                        *)
(***************************************************************************)
StreamInv ==
    /\ sent \in Seq(Byte) /\ wire \in Seq(Byte) /\ acc \in Seq(Byte)
    /\ ~broken => \E p \in Seq(Byte) : sent = p \o wire
    /\ op \in Loops /\ ~broken => sent = acc \o wire
    /\ op \in Gots => /\ payload \in Seq(Byte)
                      /\ ret > 0 /\ ~broken => sent = acc \o (payload \o wire)
                      /\ ret = 0 => shut /\ acc = sent
                      /\ ret = -1 => errno = 1
    /\ answer.op \in Loops /\ answer.code = 0 => answer.data = sent /\ shut

\* A String is the whole payload if no byte of it is null.
LEMMA WholeString ==
  ASSUME Nul \notin Byte, NEW p \in Seq(Byte) PROVE String(p) = p
<1>1. \A i \in DOMAIN p : p[i] \in Byte
  BY LenProperties
<1> QED
  BY <1>1 DEF String

\* A piece and the rest are the whole.
LEMMA Cut ==
  ASSUME NEW w \in Seq(Byte), NEW n \in Nat, n <= Len(w)
  PROVE  /\ SubSeq(w, 1, n) \in Seq(Byte) /\ SubSeq(w, n + 1, Len(w)) \in Seq(Byte)
         /\ SubSeq(w, 1, n) \o SubSeq(w, n + 1, Len(w)) = w
<1>1. Len(w) \in Nat /\ \A i \in 1..Len(w) : w[i] \in Byte
  BY LenProperties
<1>2. \A i \in 1..n : w[i] \in Byte
  BY <1>1
<1>3. \A i \in (n + 1)..Len(w) : w[i] \in Byte
  BY <1>1
<1>4. SubSeq(w, 1, n) \in Seq(Byte)
  BY <1>1, <1>2, SubSeqProperties
<1>5. SubSeq(w, n + 1, Len(w)) \in Seq(Byte)
  BY <1>1, <1>3, SubSeqProperties
<1>6. SubSeq(w, 1, n) \o SubSeq(w, n + 1, Len(w)) = SubSeq(w, 1, Len(w))
  <2>1. 1 \in 1..(Len(w) + 1) /\ n \in (1 - 1)..Len(w) /\ Len(w) \in n..Len(w)
    BY <1>1
  <2> QED
    BY <2>1, ConcatAdjacentSubSeq
<1>7. SubSeq(w, 1, Len(w)) = w
  BY SubSeqFull
<1> QED
  BY <1>4, <1>5, <1>6, <1>7

\* Pieces may be put together in any order.
LEMMA Regroup ==
  ASSUME NEW p \in Seq(Byte), NEW q \in Seq(Byte), NEW w \in Seq(Byte)
  PROVE  (p \o q) \o w = p \o (q \o w)
BY ConcatAssociative

\* A byte that is sent comes last.
LEMMA Sends ==
  ASSUME NEW p \in Seq(Byte), NEW w \in Seq(Byte), NEW b \in Byte
  PROVE  Append(p \o w, b) = p \o Append(w, b)
<1>1. Append(p \o w, b) = (p \o w) \o <<b>>
  BY ConcatProperties, AppendIsConcat
<1>2. Append(w, b) = w \o <<b>>
  BY AppendIsConcat
<1>3. <<b>> \in Seq(Byte)
  OBVIOUS
<1> QED
  BY <1>1, <1>2, <1>3, ConcatAssociative

LEMMA InitStream == Init => StreamInv
<1> SUFFICES ASSUME Init PROVE StreamInv
  OBVIOUS
<1>1. /\ sent = <<>> /\ wire = <<>> /\ acc = <<>> /\ op = "none" /\ answer = Nothing
      /\ <<>> \in Seq(Byte)
  BY DEF Init
<1>2. sent = <<>> \o wire
  BY <1>1, ConcatEmptySeq
<1> QED
  BY <1>1, <1>2 DEF StreamInv, Loops, Gots, Nothing

LEMMA PeerStream == ASSUME StreamInv, Peer PROVE StreamInv'
<1>1. CASE peer_send
  <2>1. PICK b \in Byte : sent' = Append(sent, b) /\ wire' = Append(wire, b)
    BY <1>1 DEF peer_send
  <2>2. ~broken /\ ~shut /\ UNCHANGED <<op, ret, errno, answer, shut, broken, payload, acc>>
    BY <1>1 DEF peer_send
  <2>3. sent' \in Seq(Byte) /\ wire' \in Seq(Byte)
    BY <2>1, AppendProperties DEF StreamInv
  <2>4. \E p \in Seq(Byte) : sent' = p \o wire'
    <3>1. PICK p \in Seq(Byte) : sent = p \o wire
      BY <2>2 DEF StreamInv
    <3> QED
      BY <2>1, <3>1, Sends DEF StreamInv
  <2>5. op \in Loops => sent' = acc \o wire'
    <3> SUFFICES ASSUME op \in Loops PROVE sent' = acc \o wire'
      OBVIOUS
    <3>1. acc \in Seq(Byte) /\ wire \in Seq(Byte) /\ sent = acc \o wire
      BY <2>2 DEF StreamInv
    <3> QED
      BY <2>1, <3>1, Sends
  <2>6. op \in Gots /\ ret > 0 => sent' = acc \o (payload \o wire')
    <3> SUFFICES ASSUME op \in Gots, ret > 0 PROVE sent' = acc \o (payload \o wire')
      OBVIOUS
    <3>1. payload \in Seq(Byte) /\ acc \in Seq(Byte) /\ wire \in Seq(Byte)
          /\ sent = acc \o (payload \o wire)
      BY <2>2 DEF StreamInv
    <3>2. payload \o wire' = Append(payload \o wire, b)
      BY <2>1, <3>1, Sends
    <3> DEFINE q == payload \o wire
    <3>3. q \in Seq(Byte)
      BY <3>1, ConcatProperties
    <3>4. payload \o wire' = Append(q, b) /\ sent' = Append(acc \o q, b)
      BY <2>1, <3>1, <3>2
    <3> HIDE DEF q
    <3>5. acc \o Append(q, b) = Append(acc \o q, b)
      BY <3>1, <3>3, Sends
    <3> QED
      BY <3>4, <3>5
  <2> QED
    BY <2>2, <2>3, <2>4, <2>5, <2>6 DEF StreamInv
<1>2. CASE peer_close
  BY <1>2 DEF peer_close, StreamInv, stream
<1>3. CASE reset
  <2>1. wire' \in Seq(Byte)
    BY <1>3 DEF reset
  <2> QED
    BY <1>3, <2>1 DEF reset, StreamInv
<1> QED
  BY <1>1, <1>2, <1>3 DEF Peer

\* The loop starts.
LEMMA RecvAllStream ==
  ASSUME StreamInv, NEW f \in Loops, recvAll(f) PROVE StreamInv'
<1>1. /\ Len(sent) = Len(wire) /\ op' = f /\ answer' = Nothing /\ acc' = <<>>
      /\ UNCHANGED <<sent, shut, broken, wire>>
  BY DEF recvAll, peer
<1>2. acc' \in Seq(Byte)
  BY <1>1
<1>3. ~broken => sent = acc' \o wire
  <2> SUFFICES ASSUME ~broken PROVE sent = <<>> \o wire
    BY <1>1
  <2>1. PICK p \in Seq(Byte) : sent = p \o wire
    BY DEF StreamInv
  <2>2. Len(sent) = Len(p) + Len(wire) /\ Len(p) \in Nat /\ Len(wire) \in Nat
    BY <2>1, ConcatProperties, LenProperties DEF StreamInv
  <2>3. p = <<>>
    BY <1>1, <2>2, EmptySeq
  <2> QED
    BY <2>1, <2>3
<1>4. f \notin Gots
  BY DEF Gots, Loops
<1> QED
  BY <1>1, <1>2, <1>3, <1>4 DEF StreamInv, Nothing, Loops

\* A piece comes, or the end, or an error.
LEMMA RecvStream == ASSUME StreamInv, idrnet_recv PROVE StreamInv'
<1>0. /\ op \in Loops /\ op' \in Gots /\ recv
      /\ UNCHANGED <<answer, sent, shut, broken, acc>>
  BY DEF idrnet_recv, Loops, Gots, peer
<1>1. op' \notin Loops
  BY <1>0 DEF Loops, Gots
<1>2. ASSUME NEW n \in 1..Piece, n <= Len(wire), ret' = n,
             payload' = SubSeq(wire, 1, n), wire' = SubSeq(wire, n + 1, Len(wire))
      PROVE  StreamInv'
  <2>1. n \in Nat /\ n > 0
    BY NetAssumption
  <2>2. payload' \in Seq(Byte) /\ wire' \in Seq(Byte) /\ payload' \o wire' = wire
    BY <1>2, <2>1, Cut DEF StreamInv
  <2>3. ~broken => \E p \in Seq(Byte) : sent = p \o wire'
    <3> SUFFICES ASSUME ~broken PROVE \E p \in Seq(Byte) : sent = p \o wire'
      OBVIOUS
    <3>1. PICK p \in Seq(Byte) : sent = p \o wire
      BY DEF StreamInv
    <3>2. p \o payload' \in Seq(Byte)
      BY <2>2, ConcatProperties
    <3>3. (p \o payload') \o wire' = p \o (payload' \o wire')
      <4> DEFINE q == payload'
                 w == wire'
      <4>1. q \in Seq(Byte) /\ w \in Seq(Byte)
        BY <2>2
      <4> HIDE DEF q, w
      <4>2. (p \o q) \o w = p \o (q \o w)
        BY <4>1, Regroup
      <4> QED
        BY <4>2 DEF q, w
    <3>4. sent = (p \o payload') \o wire'
      BY <2>2, <3>1, <3>3
    <3> QED
      BY <3>2, <3>4, Zenon
  <2>4. ~broken => sent = acc \o (payload' \o wire')
    BY <1>0, <2>2 DEF StreamInv
  <2>5. ret' # 0 /\ ret' # -1
    BY <1>2, <2>1
  <2> QED
    BY <1>0, <1>1, <2>2, <2>3, <2>4, <2>5 DEF StreamInv
<1>3. CASE wire = <<>> /\ shut /\ ~broken /\ ret' = 0 /\ payload' = <<>> /\ UNCHANGED wire
  <2>1. payload' \in Seq(Byte)
    BY <1>3
  <2>2. acc = sent
    <3>1. sent = acc \o <<>> /\ acc \in Seq(Byte)
      BY <1>0, <1>3 DEF StreamInv
    <3> QED
      BY <3>1, ConcatEmptySeq
  <2> QED
    BY <1>0, <1>1, <1>3, <2>1, <2>2 DEF StreamInv
<1>4. CASE ret' = -1 /\ errno' = 1 /\ payload' = <<>> /\ UNCHANGED wire
  <2>1. payload' \in Seq(Byte)
    BY <1>4
  <2> QED
    BY <1>0, <1>1, <1>4, <2>1 DEF StreamInv
<1> QED
  BY <1>0, <1>2, <1>3, <1>4 DEF recv

\* The piece is appended, or the loop ends.
LEMMA RecStream ==
  ASSUME StreamInv, Nul \notin Byte, recvAllRec PROVE StreamInv'
<1>1. payload \in Seq(Byte) /\ acc \in Seq(Byte) /\ wire \in Seq(Byte) /\ op \in Gots
      /\ UNCHANGED <<errno, sent, shut, broken, wire>>
  BY RecCases DEF StreamInv
<1>2. CASE ret > 0
  <2>1. op' \in Loops /\ UNCHANGED answer /\ acc' = acc \o payload
    BY <1>1, <1>2, RecCases, WholeString
  <2>2. op' \notin Gots
    BY <2>1 DEF Loops, Gots
  <2>3. acc' \in Seq(Byte)
    BY <1>1, <2>1, ConcatProperties
  <2>4. acc' \o wire = acc \o (payload \o wire)
    BY <1>1, <2>1, ConcatAssociative
  <2> QED
    BY <1>1, <1>2, <2>1, <2>2, <2>3, <2>4 DEF StreamInv
<1>3. CASE ~(ret > 0)
  <2>1. /\ op' = "none" /\ acc' = <<>> /\ answer'.op \in Loops
        /\ answer'.data = acc /\ (answer'.code = 0 => Ends)
    BY <1>3, RecCases
  <2>0. <<>> \in Seq(Byte)
    OBVIOUS
  <2>2. Ends => shut /\ acc = sent
    BY <1>1 DEF Ends, StreamInv
  <2>3. op' \notin Gots /\ op' \notin Loops
    BY <2>1 DEF Gots, Loops
  <2> QED
    BY <1>1, <2>0, <2>1, <2>2, <2>3 DEF StreamInv
<1> QED
  BY <1>2, <1>3

\* Every other function leaves the stream alone.
LEMMA OtherStream ==
  ASSUME StreamInv, UNCHANGED <<sent, shut, broken, wire, acc>>,
         op' \notin Loops \cup Gots, answer'.op \notin Loops
  PROVE  StreamInv'
BY DEF StreamInv

\* recvAll and recvAllBytes succeed only with exactly what the peer sent before
\* it closed the connection, for any bytes but null, any cutting of the stream
\* into pieces and any resets in between.
THEOREM NetRecvAllComplete == ASSUME Nul \notin Byte PROVE Spec => []RecvAllComplete
<1>1. StreamInv /\ [Next]_vars => StreamInv'
  <2> SUFFICES ASSUME StreamInv, [Next]_vars PROVE StreamInv'
    OBVIOUS
  <2>1. CASE UNCHANGED vars
    BY <2>1 DEF vars, StreamInv
  <2>2. CASE Peer
    BY <2>2, PeerStream
  <2>3. CASE Receive
    BY <2>3, RecvAllStream, RecvStream, RecStream DEF Receive, Loops
  <2>4. CASE idrnet_close
    <3>1. /\ sent' = <<>> /\ wire' = <<>> /\ acc' = <<>> /\ op' = "none" /\ answer' = Nothing
          /\ <<>> \in Seq(Byte)
      BY <2>4 DEF idrnet_close
    <3>2. sent' = <<>> \o wire'
      BY <3>1, ConcatEmptySeq
    <3> QED
      BY <3>1, <3>2 DEF StreamInv, Loops, Gots, Nothing
  <2>5. CASE idrnet_socket \/ idrnet_bind \/ idrnet_connect \/ idrnet_listen
             \/ idrnet_accept \/ idrnet_send \/ idrnet_sendto
    <3>1. UNCHANGED <<sent, shut, broken, wire, acc>> /\ answer' = Nothing
          /\ op' \in {"socket", "bind", "connect", "listen", "accept", "send", "sendTo"}
      BY <2>5 DEF idrnet_socket, idrnet_bind, idrnet_connect, idrnet_listen,
             idrnet_accept, idrnet_send, idrnet_sendto, Call, peer, stream
    <3> QED
      BY <3>1, OtherStream DEF Loops, Gots, Nothing
  <2>6. CASE setup_return \/ send_return \/ recvfrom_return
    <3>1. /\ UNCHANGED <<sent, shut, broken, wire, acc>> /\ op' = "none"
          /\ op \notin Loops /\ answer'.op = op
      BY <2>6 DEF setup_return, send_return, recvfrom_return, Return, peer, stream, Loops
    <3> QED
      BY <3>1, OtherStream DEF Loops, Gots
  <2>7. CASE idrnet_send_buf \/ idrnet_sendto_buf \/ idrnet_recvfrom \/ next_message
             \/ idrnet_recv_buf \/ idrnet_recvfrom_buf
    <3>1. UNCHANGED <<sent, shut, broken, wire, acc>> /\ answer' = Nothing
          /\ op' \in {"none", "sendBuf", "sendToBuf", "recvFrom", "recvBuf", "recvFromBuf"}
      BY <2>7 DEF idrnet_send_buf, idrnet_sendto_buf, idrnet_recvfrom, next_message,
             idrnet_recv_buf, idrnet_recvfrom_buf, Call, peer, stream
    <3> QED
      BY <3>1, OtherStream DEF Loops, Gots, Nothing
  <2>8. CASE crash
    <3>1. UNCHANGED <<sent, shut, broken, wire, acc, answer>> /\ op' = "crashed"
      BY <2>8 DEF crash, peer, stream
    <3> QED
      BY <3>1 DEF StreamInv, Loops, Gots
  <2> QED
    BY <2>1, <2>2, <2>3, <2>4, <2>5, <2>6, <2>7, <2>8 DEF Next, Setup, Message
<1>2. StreamInv => RecvAllComplete
  BY DEF StreamInv, RecvAllComplete, Loops
<1> QED
  BY InitStream, <1>1, <1>2, PTL DEF Spec

-----------------------------------------------------------------------------
(***************************************************************************)
(* Memory.  Between the two foreign calls of a function, exactly the       *)
(* blocks that the second one frees, or that the function keeps, are live. *)
(***************************************************************************)
Held(bs) == \A b \in Block : blk[b] = "live" <=> b \in bs

\* The functions that hold nothing between their foreign calls.
Clean == {"socket", "connect", "listen", "send", "sendTo", "sendBuf", "recvBuf",
          "recvAll", "recvAllBytes", "recvAllBytes got"}

BlockInv ==
    /\ "free" \notin misuse
    /\ op # "none" => answer.op = "none"
    /\ op \in Clean => Held({})
    /\ op \in {"bind", "sendToBuf"} => Held({}) \/ Held({"addrinfo"})
    /\ op = "accept" => Held({"sockaddr"}) /\ ret \in {0, -1}
    /\ op = "recvAll got" => Held({"struct", "payload"})
    /\ op = "recvFrom" /\ ret # -1 => Held({"sockaddr", "payload", "struct"})
    /\ op = "recvFromBuf" /\ ret # -1 => Held({"sockaddr", "struct"})
    /\ op \in {"recvFrom", "recvFromBuf"} /\ ret = -1 => Held({"struct"})
    /\ FreedOnce

\* What is live after malloc, and after blocks were taken and given back.
LEMMA MallocHeld == ASSUME NEW bs, Malloc(bs) PROVE Held(bs)'
BY DEF Malloc, Held

LEMMA GivenBack ==
  ASSUME NEW b \in Block, blk' = Freed([NoBlocks EXCEPT ![b] = "live"], {b})
  PROVE  Held({})'
BY DEF Freed, NoBlocks, Held

LEMMA OnlyStruct ==
  ASSUME NEW bs, "struct" \notin bs,
         blk' = Freed([NoBlocks EXCEPT !["struct"] = "live"], bs)
  PROVE  Held({"struct"})'
BY DEF Freed, NoBlocks, Held, Block

\* Storing behind a block frees nothing.
LEMMA NotConverted ==
  ASSUME NEW n, Converts(n), "free" \notin misuse PROVE "free" \notin misuse'
BY DEF Converts, Misused

\* A call has just been made.
LEMMA CalledBlocks ==
  ASSUME "free" \notin misuse', answer' = Nothing,
         \/ op' \in Clean /\ Held({})'
         \/ op' \in {"bind", "sendToBuf"} /\ (Held({})' \/ Held({"addrinfo"})')
         \/ op' = "accept" /\ Held({"sockaddr"})' /\ ret' \in {0, -1}
         \/ op' = "recvFrom" /\ ret' # -1 /\ Held({"sockaddr", "payload", "struct"})'
         \/ op' = "recvFromBuf" /\ ret' # -1 /\ Held({"sockaddr", "struct"})'
         \/ op' \in {"recvFrom", "recvFromBuf"} /\ ret' = -1 /\ Held({"struct"})'
  PROVE  BlockInv'
BY DEF BlockInv, FreedOnce, Nothing, Clean

\* The answer of a call that leaves at most what it is known to keep.
LEMMA ReturnBlocks ==
  ASSUME "free" \notin misuse', op' = "none",
         \A b \in Block : blk'[b] = "live" => b \in Kept'
  PROVE  BlockInv'
BY DEF BlockInv, FreedOnce, Clean

\* Neither the blocks nor what is in progress change.
LEMMA SameBlocks ==
  ASSUME BlockInv, UNCHANGED <<op, ret, blk, misuse>>, UNCHANGED answer \/ answer' = Nothing
  PROVE  BlockInv'
<1>1. \A bs : Held(bs)' <=> Held(bs)
  BY DEF Held
<1>2. CASE UNCHANGED answer
  BY <1>1, <1>2 DEF BlockInv, FreedOnce, Kept
<1>3. CASE answer' = Nothing
  <2>1. answer'.op = "none"
    BY <1>3 DEF Nothing
  <2> QED
    BY <1>1, <2>1 DEF BlockInv, FreedOnce
<1> QED
  BY <1>2, <1>3

\* The calls that resolve no name or give the list of addresses back.
LEMMA CleanCalls ==
  ASSUME BlockInv,
         \/ idrnet_socket \/ idrnet_listen \/ idrnet_send \/ idrnet_connect
         \/ idrnet_sendto \/ idrnet_send_buf \/ idrnet_recv_buf
         \/ \E f \in {"recvAll", "recvAllBytes"} : recvAll(f)
  PROVE  BlockInv'
<1>1. "addrinfo" \in Block /\ "copy" \in Block
  BY DEF Block
<1>2. Held({})'
  BY <1>1, MallocHeld, GivenBack DEF idrnet_socket, idrnet_listen, idrnet_send,
     idrnet_connect, idrnet_sendto, idrnet_send_buf, idrnet_recv_buf, recvAll
<1>3. op' \in Clean /\ answer' = Nothing
  BY DEF idrnet_socket, idrnet_listen, idrnet_send, idrnet_connect, idrnet_sendto,
     idrnet_send_buf, idrnet_recv_buf, recvAll, Call, Clean
<1>4. UNCHANGED misuse \/ \E n : Converts(n)
  BY DEF idrnet_socket, idrnet_listen, idrnet_send, idrnet_connect, idrnet_sendto,
     idrnet_send_buf, idrnet_recv_buf, recvAll
<1>5. "free" \notin misuse'
  BY <1>4, NotConverted DEF BlockInv
<1> QED
  BY <1>2, <1>3, <1>5, CalledBlocks

\* The calls that keep blocks.
LEMMA KeepingCalls ==
  ASSUME BlockInv,
         \/ idrnet_bind \/ idrnet_accept \/ idrnet_sendto_buf
         \/ idrnet_recvfrom \/ idrnet_recvfrom_buf
  PROVE  BlockInv'
<1>1. answer' = Nothing /\ (UNCHANGED misuse \/ \E n : Converts(n))
  BY DEF idrnet_bind, idrnet_accept, idrnet_sendto_buf, idrnet_recvfrom,
     idrnet_recvfrom_buf, Call
<1>2. "free" \notin misuse'
  BY <1>1, NotConverted DEF BlockInv
<1>3. CASE idrnet_bind
  <2>1. op' = "bind" /\ (Held({})' \/ Held({"addrinfo"})')
    BY <1>3, MallocHeld DEF idrnet_bind, Call
  <2> QED
    BY <1>1, <1>2, <2>1, CalledBlocks
<1>4. CASE idrnet_sendto_buf
  <2>1. op' = "sendToBuf" /\ (Held({})' \/ Held({"addrinfo"})')
    BY <1>4, MallocHeld DEF idrnet_sendto_buf, Call
  <2> QED
    BY <1>1, <1>2, <2>1, CalledBlocks
<1>5. CASE idrnet_accept
  <2>1. op' = "accept" /\ Held({"sockaddr"})' /\ ret' \in {0, -1}
    BY <1>5, MallocHeld DEF idrnet_accept, Call, Kernel
  <2> QED
    BY <1>1, <1>2, <2>1, CalledBlocks
<1>6. CASE idrnet_recvfrom
  <2>1. op' = "recvFrom"
    BY <1>6 DEF idrnet_recvfrom, Call
  <2>2. \/ ret' # -1 /\ Held({"sockaddr", "payload", "struct"})'
        \/ ret' = -1 /\ Held({"struct"})'
    <3>1. CASE ret' = -1 /\ blk' = Freed([NoBlocks EXCEPT !["struct"] = "live"],
                                         {"payload", "sockaddr"})
      <4>1. "struct" \notin {"payload", "sockaddr"}
        OBVIOUS
      <4> QED
        BY <3>1, <4>1, OnlyStruct
    <3>2. CASE ret' \in {0, 1} /\ Malloc({"sockaddr", "payload", "struct"})
      BY <3>2, MallocHeld
    <3> QED
      BY <1>6, <3>1, <3>2 DEF idrnet_recvfrom
  <2> QED
    BY <1>1, <1>2, <2>1, <2>2, CalledBlocks
<1>7. CASE idrnet_recvfrom_buf
  <2>1. op' = "recvFromBuf"
    BY <1>7 DEF idrnet_recvfrom_buf, Call
  <2>2. \/ ret' # -1 /\ Held({"sockaddr", "struct"})'
        \/ ret' = -1 /\ Held({"struct"})'
    <3>1. CASE Fails /\ blk' = Freed([NoBlocks EXCEPT !["struct"] = "live"], {"sockaddr"})
      BY <3>1, OnlyStruct DEF Fails
    <3>2. CASE (\E len, n : n \in Nat /\ Arrives(len, n)) /\ Malloc({"sockaddr", "struct"})
      BY <3>2, MallocHeld DEF Arrives
    <3>3. \A len, n : n \in Transfers(Shorter(len, Len(msg))) => n \in Nat
      BY DEF Transfers
    <3> QED
      BY <1>7, <3>1, <3>2, <3>3 DEF idrnet_recvfrom_buf
  <2> QED
    BY <1>1, <1>2, <2>1, <2>2, CalledBlocks
<1> QED
  BY <1>3, <1>4, <1>5, <1>6, <1>7

\* The Idris side of the calls that send or set up.
LEMMA AnswerBlocks == ASSUME BlockInv, setup_return \/ send_return PROVE BlockInv'
<1>1. "free" \notin misuse' /\ op' = "none" /\ answer'.op = op /\ answer'.count = ret
  <2> DEFINE c == Code
  <2>1. /\ "free" \notin misuse' /\ op' = "none"
        /\ answer' = [op |-> op, code |-> c, data |-> <<>>, count |-> ret]
    BY DEF setup_return, send_return, Return, BlockInv
  <2> HIDE DEF c
  <2> QED
    BY <2>1
<1>2. CASE op \in Clean
  <2>1. blk' = blk /\ Held({})
    BY <1>2 DEF setup_return, send_return, Clean, BlockInv
  <2> QED
    BY <1>1, <2>1, ReturnBlocks DEF Held
<1>3. CASE op \in {"bind", "sendToBuf"}
  <2>1. blk' = blk /\ (Held({}) \/ Held({"addrinfo"})) /\ Kept' = {"addrinfo"}
    BY <1>1, <1>3 DEF setup_return, send_return, BlockInv, Kept
  <2> QED
    BY <1>1, <2>1, ReturnBlocks DEF Held
<1>4. CASE op = "accept"
  <2>1. Held({"sockaddr"}) /\ ret \in {0, -1}
    BY <1>4 DEF BlockInv
  <2>2. CASE ret = 0
    <3>1. blk' = Freed(blk, {"sockaddr"})
      BY <1>4, <2>2 DEF setup_return, send_return
    <3> QED
      BY <1>1, <2>1, <3>1, ReturnBlocks DEF Held, Freed
  <2>3. CASE ret = -1
    <3>1. blk' = blk /\ Kept' = {"sockaddr"}
      BY <1>1, <1>4, <2>3 DEF setup_return, send_return, Kept
    <3> QED
      BY <1>1, <2>1, <3>1, ReturnBlocks DEF Held
  <2> QED
    BY <2>1, <2>2, <2>3
<1>5. op \in Clean \cup {"bind", "sendToBuf", "accept"}
  BY DEF setup_return, send_return, Clean
<1> QED
  BY <1>2, <1>3, <1>4, <1>5

\* idrnet_recv takes a structure and a payload.
LEMMA RecvBlocks == ASSUME BlockInv, idrnet_recv PROVE BlockInv'
<1>1. /\ op \in Loops /\ UNCHANGED answer
      /\ op' = (IF op = "recvAll" THEN "recvAll got" ELSE "recvAllBytes got")
  BY DEF idrnet_recv, Loops
<1>2. "free" \notin misuse'
  BY DEF idrnet_recv, Misused, BlockInv
<1>3. answer'.op = "none"
  BY <1>1 DEF BlockInv, Loops
<1>4. CASE op = "recvAll"
  <2>1. Held({"struct", "payload"})'
    BY <1>4, MallocHeld DEF idrnet_recv
  <2> QED
    BY <1>1, <1>2, <1>3, <1>4, <2>1 DEF BlockInv, FreedOnce, Clean
<1>5. CASE op # "recvAll"
  <2>1. Held({})'
    BY <1>5, MallocHeld DEF idrnet_recv
  <2> QED
    BY <1>1, <1>2, <1>3, <1>5, <2>1 DEF BlockInv, FreedOnce, Clean
<1> QED
  BY <1>4, <1>5

\* recvAllRec: the structure and the payload are freed before the next piece.
LEMMA RecBlocks == ASSUME BlockInv, recvAllRec PROVE BlockInv'
<1> DEFINE bs == IF op = "recvAll got" THEN {"struct", "payload"} ELSE {}
<1>1. op \in Gots /\ Misused("free", Bad(blk, bs)) /\ blk' = Freed(blk, bs)
  BY DEF recvAllRec, Gots
<1>2. Held(bs)
  BY <1>1 DEF BlockInv, Gots, Clean
<1>3. bs \subseteq Block
  BY DEF Block
<1> HIDE DEF bs
<1>4. ~Bad(blk, bs)
  BY <1>2, <1>3 DEF Bad, Held
<1>5. "free" \notin misuse'
  BY <1>1, <1>4 DEF BlockInv, Misused
<1>6. Held({})'
  BY <1>1, <1>2 DEF Freed, Held
<1>7. (op' \in Loops /\ UNCHANGED answer) \/ op' = "none"
  BY RecCases
<1>8. op' # "none" => answer'.op = "none"
  BY <1>1, <1>7 DEF BlockInv, Gots
<1> QED
  BY <1>5, <1>6, <1>7, <1>8 DEF BlockInv, FreedOnce, Held, Loops, Clean

\* recvFrom, recvFromBuf and recvBuf: the fields that are not NULL are live.
LEMMA RecvfromBlocks == ASSUME BlockInv, recvfrom_return PROVE BlockInv'
<1>1. /\ op \in {"recvFrom", "recvFromBuf", "recvBuf"} /\ op' = "none" /\ answer'.op = op
      /\ Misused("free", Bad(blk, Fields)) /\ blk' = Freed(blk, Fields) /\ ~NoSender
  BY DEF recvfrom_return, Return
<1>2. Fields \subseteq Block /\ \A b \in Fields : blk[b] = "live"
  <2>1. CASE op = "recvFrom" /\ ret # -1
    <3>1. Fields = {"payload", "sockaddr"} /\ Held({"sockaddr", "payload", "struct"})
      BY <2>1 DEF Fields, BlockInv
    <3> QED
      BY <3>1 DEF Block, Held
  <2>2. CASE op = "recvFromBuf" /\ ret > 0 /\ ret # -1
    <3>1. Fields = {"sockaddr"} /\ Held({"sockaddr", "struct"})
      BY <2>2 DEF Fields, BlockInv
    <3> QED
      BY <3>1 DEF Block, Held
  <2>3. CASE Fields = {}
    BY <2>3
  <2>4. ret > 0 => ret # -1
    OBVIOUS
  <2> QED
    BY <2>1, <2>2, <2>3, <2>4 DEF Fields
<1>3. "free" \notin misuse'
  BY <1>1, <1>2 DEF Misused, Bad, BlockInv
<1>4. \A b \in Block : blk'[b] = "live" <=> blk[b] = "live" /\ b \notin Fields
  BY <1>1 DEF Freed
<1>5. CASE op = "recvBuf"
  <2>1. Held({})
    BY <1>5 DEF BlockInv, Clean
  <2> QED
    BY <1>1, <1>3, <1>4, <2>1, ReturnBlocks DEF Held
<1>6. CASE op # "recvBuf" /\ ret = -1
  <2>1. Held({"struct"}) /\ Kept' = {"struct"}
    BY <1>1, <1>6 DEF BlockInv, Kept
  <2> QED
    BY <1>1, <1>3, <1>4, <2>1, ReturnBlocks DEF Held
<1>7. CASE op # "recvBuf" /\ ret # -1
  <2>1. Kept' = {"struct"} /\ "sockaddr" \in Fields
    BY <1>1, <1>7 DEF Kept, NoSender
  <2>2. \/ op = "recvFrom" /\ Held({"sockaddr", "payload", "struct"}) /\ "payload" \in Fields
        \/ op = "recvFromBuf" /\ Held({"sockaddr", "struct"})
    BY <1>1, <1>7 DEF BlockInv, Fields
  <2> QED
    BY <1>1, <1>3, <1>4, <2>1, <2>2, ReturnBlocks DEF Held
<1> QED
  BY <1>5, <1>6, <1>7

\* No function of Network.Socket frees a block twice or after it was given away,
\* on any path of kernel calls that succeed, fail or do part of the work, and what
\* each of them leaves allocated is at most the block it is known to keep.
THEOREM NetFreedOnce == Spec => []FreedOnce
<1>1. Init => BlockInv
  BY DEF Init, BlockInv, FreedOnce, Nothing, Clean
<1>2. BlockInv /\ [Next]_vars => BlockInv'
  <2> SUFFICES ASSUME BlockInv, [Next]_vars PROVE BlockInv'
    OBVIOUS
  <2>1. CASE UNCHANGED vars
    BY <2>1, SameBlocks DEF vars
  <2>2. CASE idrnet_close \/ Peer \/ next_message
    BY <2>2, SameBlocks DEF idrnet_close, Peer, peer_send, peer_close, reset, next_message
  <2>3. CASE crash
    <3>1. op' = "crashed" /\ op # "none" /\ answer' = answer /\ misuse' = misuse \cup {"null"}
      BY <2>3 DEF crash
    <3> QED
      BY <3>1 DEF BlockInv, FreedOnce, Clean
  <2> QED
    BY <2>1, <2>2, <2>3, CleanCalls, KeepingCalls, AnswerBlocks, RecvBlocks, RecBlocks,
       RecvfromBlocks DEF Next, Setup, Receive, Message
<1>3. BlockInv => FreedOnce
  BY DEF BlockInv
<1> QED
  BY <1>1, <1>2, <1>3, PTL DEF Spec

-----------------------------------------------------------------------------
(***************************************************************************)
(* Buffers.  Of a buffer of whole words, transfers that end with a word    *)
(* hand over the first k bytes; what is on its way are the bytes that      *)
(* follow, in network order.  A buffer that sendToBuf has converted is not *)
(* sent again.                                                             *)
(***************************************************************************)
Recvs == {"recvBuf", "recvFromBuf"}

\* What has been received: that of a call in progress is not yet answered.
Total == IF op \in Recvs /\ ret # -1 THEN got \o payload ELSE got

Flight(k, t, s) ==
    /\ k \in Nat /\ k % Word = 0 /\ s \in Seq(Byte) /\ Len(s) % Word = 0
    /\ k + Len(s) <= Len(put) /\ t = SubSeq(put, 1, k)
    /\ \A i \in 1..Len(s) : s[i] = Swap(put)[k + i]

BufferInv ==
    /\ put \in Buffers
    /\ by \in {"none", "sendBuf", "sendToBuf"}
    /\ by # "sendToBuf" => mem = put
    /\ by = "none" => msg = <<>> /\ got = <<>>
    /\ op \in Recvs => by # "none"
    /\ op # "crashed" => \E k \in Nat : Flight(k, Total, msg)
    /\ RoundTrip

\* Quotient and remainder are unique.
LEMMA DivUnique ==
  ASSUME NEW d \in Nat \ {0}, NEW q \in Int, NEW r \in 0..d - 1
  PROVE  (d * q + r) \div d = q /\ (d * q + r) % d = r
<1> DEFINE a == d * q + r
<1>1. a \in Int /\ d \in Int /\ d > 0
  OBVIOUS
<1>2. a = d * (a \div d) + (a % d) /\ a % d \in 0..d - 1 /\ a \div d \in Int
  <2> HIDE DEF a
  <2>1. a % d \in 0..d - 1 /\ a \div d \in Int
    BY <1>1
  <2> QED
    BY <1>1, <2>1
<1>3. ASSUME NEW x \in Int, NEW y \in 0..d - 1, d * x + y = d * q + r PROVE x = q
  <2>1. ASSUME x < q PROVE FALSE
    <3>1. q - x \in Nat /\ q - x >= 1 /\ d * (q - x) = y - r
      BY <1>3, <2>1
    <3>2. d * (q - x) >= d
      BY <3>1
    <3> QED
      BY <3>1, <3>2
  <2>2. ASSUME q < x PROVE FALSE
    <3>1. x - q \in Nat /\ x - q >= 1 /\ d * (x - q) = r - y
      BY <1>3, <2>2
    <3>2. d * (x - q) >= d
      BY <3>1
    <3> QED
      BY <3>1, <3>2
  <2> QED
    BY <2>1, <2>2
<1>4. a \div d = q
  <2> DEFINE x == a \div d
             y == a % d
  <2>1. x \in Int /\ y \in 0..d - 1 /\ d * x + y = d * q + r
    BY <1>2
  <2> HIDE DEF x, y
  <2>2. x = q
    BY <2>1, <1>3
  <2> QED
    BY <2>2 DEF x
<1> QED
  BY <1>2, <1>4

\* The byte that changes places with byte i.
Mirror(i) == ((i - 1) \div Word) * Word + (Word - ((i - 1) % Word))

\* In a buffer of whole words, bytes change places in pairs inside of it.
LEMMA MirrorMirror ==
  ASSUME NEW n \in Nat, n % Word = 0, NEW i \in 1..n
  PROVE  /\ Mirror(i) \in 1..n /\ Mirror(Mirror(i)) = i
         /\ ~((i - 1) \div Word >= Words(n))
<1>1. Word \in Nat /\ Word > 0
  BY NetAssumption
<1> DEFINE q == (i - 1) \div Word
           r == (i - 1) % Word
           k == n \div Word
<1>2. q \in Nat /\ r \in 0..Word - 1 /\ k \in Nat
  BY <1>1
<1>3. i - 1 = Word * q + r /\ n = Word * k
  BY <1>1
<1>4. Mirror(i) = q * Word + (Word - r)
  BY DEF Mirror
<1> HIDE DEF q, r, k
<1>5. Word * q < Word * k
  BY <1>1, <1>2, <1>3
<1>6. q + 1 <= k
  <2>1. SUFFICES ASSUME k <= q PROVE FALSE
    BY <1>2
  <2>2. q - k \in Nat /\ Word * (q - k) >= 0 /\ Word * q = Word * k + Word * (q - k)
    BY <1>1, <1>2, <2>1
  <2> QED
    BY <1>1, <1>2, <1>5, <2>2
<1>7. Mirror(i) \in 1..n
  <2>1. Mirror(i) = Word * q + Word - r /\ Mirror(i) \in Nat /\ Mirror(i) >= 1
    BY <1>1, <1>2, <1>4
  <2>2. Word * q + Word <= Word * k
    <3>1. k - (q + 1) \in Nat /\ Word * (k - (q + 1)) >= 0
          /\ Word * k = Word * q + Word + Word * (k - (q + 1))
      BY <1>1, <1>2, <1>6
    <3> QED
      BY <1>1, <1>2, <3>1
  <2> QED
    BY <1>1, <1>2, <1>3, <2>1, <2>2
<1>8. Mirror(Mirror(i)) = i
  <2> DEFINE j == Mirror(i)
             t == Word - 1 - r
  <2>1. t \in 0..Word - 1
    BY <1>1, <1>2
  <2>2. j - 1 = Word * q + t
    BY <1>1, <1>2, <1>4
  <2>3. (Word * q + t) \div Word = q /\ (Word * q + t) % Word = t
    <3> HIDE DEF t
    <3> QED
      BY <1>1, <1>2, <2>1, DivUnique
  <2> HIDE DEF j
  <2>4. Mirror(j) = q * Word + (Word - t)
    BY <2>2, <2>3 DEF Mirror
  <2>5. Mirror(j) = i
    BY <1>1, <1>2, <1>3, <2>1, <2>4
  <2> QED
    BY <2>5 DEF j
<1>9. ~(q >= Words(n))
  BY <1>2, <1>6 DEF Words, k
<1> QED
  BY <1>7, <1>8, <1>9 DEF q

\* A sequence is a function on 1..n.
LEMMA SeqLen ==
  ASSUME NEW S, NEW n \in Nat, NEW b \in [1..n -> S]
  PROVE  b \in Seq(S) /\ Len(b) = n
BY SeqDef, LenProperties

LEMMA SwapSeq ==
  ASSUME NEW S, NEW b \in Seq(S), Len(b) % Word = 0
  PROVE  /\ Swap(b) \in Seq(S) /\ Len(Swap(b)) = Len(b)
         /\ \A i \in 1..Len(b) : Swap(b)[i] = b[Mirror(i)]
<1> DEFINE n == Len(b)
<1>1. n \in Nat /\ n % Word = 0 /\ \A i \in 1..n : b[i] \in S
  BY LenProperties
<1>2. ASSUME NEW i \in 1..n
      PROVE  (LET w == (i - 1) \div Word
                  j == w * Word + (Word - ((i - 1) % Word))
              IN IF w >= Words(n) THEN b[i] ELSE IF j <= n THEN b[j] ELSE Junk) = b[Mirror(i)]
  <2> HIDE DEF n
  <2>1. Mirror(i) \in 1..n /\ ~((i - 1) \div Word >= Words(n))
    BY <1>1, <1>2, MirrorMirror
  <2>2. Mirror(i) <= n
    BY <1>1, <2>1
  <2> QED
    BY <2>1, <2>2 DEF Mirror
<1>3. Swap(b) = [i \in 1..n |-> b[Mirror(i)]]
  BY <1>2, Zenon DEF Swap
<1> HIDE DEF n
<1>4. \A i \in 1..n : b[Mirror(i)] \in S
  BY <1>1, MirrorMirror
<1>5. Swap(b) \in [1..n -> S] /\ \A i \in 1..n : Swap(b)[i] = b[Mirror(i)]
  BY <1>3, <1>4
<1>6. Swap(b) \in Seq(S) /\ Len(Swap(b)) = n
  BY <1>1, <1>5, SeqLen
<1> QED
  BY <1>5, <1>6 DEF n

\* Words in front of a word do not change how it is mirrored.
LEMMA MirrorShift ==
  ASSUME NEW k \in Nat, k % Word = 0, NEW x \in Nat, x >= 1
  PROVE  Mirror(k + x) = k + Mirror(x)
<1>1. Word \in Nat \ {0} /\ Word \in Nat /\ Word > 0
  BY NetAssumption
<1> DEFINE q == (x - 1) \div Word
           r == (x - 1) % Word
           c == k \div Word
<1>2. q \in Int /\ r \in 0..Word - 1 /\ c \in Int
  BY <1>1
<1>3. x - 1 = Word * q + r /\ k = Word * c
  BY <1>1
<1>4. Mirror(x) = q * Word + (Word - r)
  BY DEF Mirror
<1> HIDE DEF q, r, c
<1>5. (Word * (c + q) + r) \div Word = c + q /\ (Word * (c + q) + r) % Word = r
  <2> DEFINE p == c + q
  <2>1. p \in Int
    BY <1>2
  <2> HIDE DEF p
  <2>2. (Word * p + r) \div Word = p /\ (Word * p + r) % Word = r
    BY <1>1, <1>2, <2>1, DivUnique
  <2> QED
    BY <2>2 DEF p
<1>6. (k + x) - 1 = Word * (c + q) + r
  BY <1>1, <1>2, <1>3
<1>7. Mirror(k + x) = (c + q) * Word + (Word - r)
  BY <1>5, <1>6 DEF Mirror
<1> QED
  BY <1>1, <1>2, <1>3, <1>4, <1>7

\* Whole words and whole words are whole words.
LEMMA WholeWords ==
  ASSUME NEW m \in Nat, NEW n \in Nat, m % Word = 0, n % Word = 0
  PROVE  (m + n) % Word = 0 /\ (n <= m => (m - n) % Word = 0)
<1>1. Word \in Nat \ {0} /\ Word \in Nat /\ Word > 0
  BY NetAssumption
<1> DEFINE a == m \div Word
           b == n \div Word
<1>2. a \in Int /\ b \in Int /\ m = Word * a /\ n = Word * b
  BY <1>1
<1> HIDE DEF a, b
<1>3. ASSUME NEW c \in Int PROVE (Word * c) % Word = 0
  <2>1. 0 \in 0..Word - 1
    BY <1>1
  <2>2. (Word * c + 0) % Word = 0
    BY <1>1, <2>1, DivUnique
  <2>3. Word * c + 0 = Word * c
    BY <1>1
  <2> QED
    BY <2>2, <2>3
<1>4. a + b \in Int /\ m + n = Word * (a + b)
  BY <1>1, <1>2
<1>5. a - b \in Int /\ m - n = Word * (a - b)
  BY <1>1, <1>2
<1> QED
  BY <1>3, <1>4, <1>5

\* Part of a sequence, byte by byte.
LEMMA Part ==
  ASSUME NEW S, NEW s \in Seq(S), NEW k \in Nat, NEW n \in Nat, k + n <= Len(s)
  PROVE  /\ SubSeq(s, k + 1, k + n) \in Seq(S) /\ Len(SubSeq(s, k + 1, k + n)) = n
         /\ \A i \in 1..n : SubSeq(s, k + 1, k + n)[i] = s[k + i]
<1>1. Len(s) \in Nat /\ \A i \in 1..Len(s) : s[i] \in S
  BY LenProperties
<1>2. \A i \in (k + 1)..(k + n) : s[i] \in S
  BY <1>1
<1> DEFINE a == k + 1
           b == k + n
<1>3. a \in Int /\ b \in Int /\ b - a + 1 = n /\ (a <= b <=> n > 0)
  OBVIOUS
<1>4. \A i \in 1..n : a + i - 1 = k + i
  OBVIOUS
<1>5. \A i \in a..b : s[i] \in S
  BY <1>2
<1> HIDE DEF a, b
<1>6. /\ SubSeq(s, a, b) \in Seq(S)
      /\ Len(SubSeq(s, a, b)) = IF a <= b THEN b - a + 1 ELSE 0
      /\ \A i \in 1..b - a + 1 : SubSeq(s, a, b)[i] = s[a + i - 1]
  BY <1>3, <1>5, SubSeqProperties
<1>7. \A i \in 1..n : SubSeq(s, a, b)[i] = s[k + i]
  BY <1>3, <1>4, <1>6
<1>8. Len(SubSeq(s, a, b)) = n
  BY <1>3, <1>6
<1> QED
  BY <1>6, <1>7, <1>8 DEF a, b

\* The buffer of the receiver: the first n bytes of s and what was there before.
LEMMA Padded ==
  ASSUME NEW s \in Seq(Byte), NEW n \in Nat, n <= Len(s),
         NEW m \in Nat, NEW z \in [1..m -> {Junk}]
  PROVE  /\ SubSeq(s, 1, n) \o z \in Seq(Byte \cup {Junk})
         /\ Len(SubSeq(s, 1, n) \o z) = n + m
         /\ \A i \in 1..n : (SubSeq(s, 1, n) \o z)[i] = s[i]
<1> DEFINE S == Byte \cup {Junk}
           h == SubSeq(s, 1, n)
<1>1. h \in Seq(S) /\ Len(h) = n /\ \A i \in 1..n : h[i] = s[i]
  <2>1. s \in Seq(S)
    BY SeqDef
  <2>2. 0 \in Nat /\ 0 + n <= Len(s)
    OBVIOUS
  <2> HIDE DEF S
  <2>3. /\ SubSeq(s, 0 + 1, 0 + n) \in Seq(S) /\ Len(SubSeq(s, 0 + 1, 0 + n)) = n
        /\ \A i \in 1..n : SubSeq(s, 0 + 1, 0 + n)[i] = s[0 + i]
    BY <2>1, <2>2, Part
  <2>4. 0 + 1 = 1 /\ 0 + n = n /\ \A i \in 1..n : 0 + i = i
    OBVIOUS
  <2> QED
    BY <2>3, <2>4
<1>2. z \in Seq(S) /\ Len(z) = m
  <2>1. z \in [1..m -> S]
    OBVIOUS
  <2> HIDE DEF S
  <2> QED
    BY <2>1, SeqLen
<1> HIDE DEF h, S
<1>3. /\ h \o z \in Seq(S) /\ Len(h \o z) = Len(h) + Len(z)
      /\ \A i \in 1..Len(h) + Len(z) : (h \o z)[i] = IF i <= Len(h) THEN h[i] ELSE z[i - Len(h)]
  BY <1>1, <1>2, ConcatProperties
<1>4. \A i \in 1..n : i \in 1..n + m /\ i <= n
  OBVIOUS
<1>5. h \o z \in Seq(S) /\ Len(h \o z) = n + m /\ \A i \in 1..n : (h \o z)[i] = s[i]
  BY <1>1, <1>2, <1>3, <1>4
<1> QED
  BY <1>5 DEF h, S

\* Bytes that follow the first k, in network order and with anything behind them,
\* are converted to what was put there.
LEMMA Converted ==
  ASSUME NEW S, NEW b \in Seq(S), Len(b) % Word = 0, NEW c \in Seq(S), Len(c) % Word = 0,
         NEW k \in Nat, k % Word = 0, NEW n \in Nat, n % Word = 0,
         k + n <= Len(b), n <= Len(c), \A i \in 1..n : c[i] = Swap(b)[k + i]
  PROVE  SubSeq(Swap(c), 1, n) = SubSeq(b, k + 1, k + n)
<1>1. Len(b) \in Nat /\ Len(c) \in Nat
  BY LenProperties
<1>2. /\ Swap(c) \in Seq(S) /\ Len(Swap(c)) = Len(c)
      /\ \A i \in 1..Len(c) : Swap(c)[i] = c[Mirror(i)]
  BY SwapSeq
<1>3. \A i \in 1..Len(b) : Swap(b)[i] = b[Mirror(i)]
  BY SwapSeq
<1>4. ASSUME NEW i \in 1..n PROVE Swap(c)[i] = b[k + i]
  <2>1. Mirror(i) \in 1..n /\ Mirror(Mirror(i)) = i
    BY MirrorMirror
  <2>2. i \in 1..Len(c) /\ k + Mirror(i) \in 1..Len(b)
    BY <1>1, <2>1
  <2>3. Swap(c)[i] = Swap(b)[k + Mirror(i)]
    BY <1>2, <2>1, <2>2
  <2>4. Mirror(k + Mirror(i)) = k + i
    <3> DEFINE x == Mirror(i)
    <3>1. x \in Nat /\ x >= 1 /\ Mirror(x) = i
      BY <2>1
    <3> HIDE DEF x
    <3>2. Mirror(k + x) = k + i
      BY <3>1, MirrorShift
    <3> QED
      BY <3>2 DEF x
  <2> QED
    BY <1>3, <2>2, <2>3, <2>4
<1> DEFINE d == Swap(c)
           u == SubSeq(d, 1, n)
           v == SubSeq(b, k + 1, k + n)
<1>5. d \in Seq(S) /\ Len(d) = Len(c)
  BY <1>2
<1>6. u \in Seq(S) /\ Len(u) = n /\ \A i \in 1..n : u[i] = d[i]
  <2> HIDE DEF d
  <2>1. /\ SubSeq(d, 0 + 1, 0 + n) \in Seq(S) /\ Len(SubSeq(d, 0 + 1, 0 + n)) = n
        /\ \A i \in 1..n : SubSeq(d, 0 + 1, 0 + n)[i] = d[0 + i]
    <3>1. 0 \in Nat /\ 0 + n <= Len(d)
      BY <1>5
    <3> QED
      BY <1>5, <3>1, Part
  <2>2. 0 + 1 = 1 /\ 0 + n = n /\ \A i \in 1..n : 0 + i = i
    OBVIOUS
  <2> QED
    BY <2>1, <2>2
<1>7. v \in Seq(S) /\ Len(v) = n /\ \A i \in 1..n : v[i] = b[k + i]
  BY Part
<1>8. \A i \in 1..n : u[i] = v[i]
  BY <1>4, <1>6, <1>7
<1> HIDE DEF u, v
<1>9. u = v
  BY <1>6, <1>7, <1>8, SeqEqual
<1> QED
  BY <1>9 DEF u, v, d

\* The buffer of the program.
LEMMA Whole ==
  ASSUME \A n \in Lens : n % Word = 0, NEW b \in Buffers
  PROVE  /\ Len(b) \in Nat /\ Len(b) % Word = 0 /\ b \in [1..Len(b) -> Byte]
         /\ b \in Seq(Byte) /\ SubSeq(b, 1, 0) = <<>> /\ 0 % Word = 0
<1>1. PICK n \in Lens : b \in [1..n -> Byte]
  BY DEF Buffers
<1>2. n \in Nat
  BY NetAssumption
<1>3. b \in Seq(Byte) /\ Len(b) = n
  BY <1>1, <1>2, SeqLen
<1>4. SubSeq(b, 1, 0) = <<>>
  BY SubSeqEmpty
<1>5. 0 % Word = 0
  BY NetAssumption
<1> QED
  BY <1>1, <1>2, <1>3, <1>4, <1>5

\* The calls that touch neither the buffer nor a message.
LEMMA OtherBuffer ==
  ASSUME BufferInv, UNCHANGED <<put, mem, msg, by, got>>,
         op \notin Recvs \cup {"crashed"}, op' \notin Recvs
  PROVE  BufferInv'
BY DEF BufferInv, RoundTrip, Total, Flight

\* What one call transfers ends with a word.
LEMMA WholeTransfers ==
  ASSUME ~SplitWords, NEW m \in Nat, m % Word = 0, NEW n \in Transfers(m)
  PROVE  n \in Nat /\ n <= m /\ n % Word = 0
BY DEF Transfers

\* The first bytes leave the program.
LEMMA SendBuffer ==
  ASSUME BufferInv, \A n \in Lens : n % Word = 0, ~SplitWords,
         idrnet_send_buf \/ idrnet_sendto_buf
  PROVE  BufferInv'
<1>1. /\ by = "none" /\ mem = put /\ msg = <<>> /\ got = <<>> /\ put' = put /\ got' = got
      /\ op' \in {"sendBuf", "sendToBuf"} /\ by' \in {"sendBuf", "sendToBuf"}
      /\ by' = "sendBuf" => mem' = mem
  BY DEF BufferInv, idrnet_send_buf, idrnet_sendto_buf, Call
<1>2. /\ Len(put) \in Nat /\ Len(put) % Word = 0 /\ put \in Seq(Byte)
      /\ SubSeq(put, 1, 0) = <<>> /\ 0 % Word = 0
  BY Whole DEF BufferInv
<1>3. CASE msg' = <<>>
  <2>1. msg' \in Seq(Byte) /\ Len(msg') = 0
    BY <1>3
  <2>2. Flight(0, <<>>, msg')
    BY <1>2, <2>1 DEF Flight
  <2>3. Flight(0, Total, msg)'
    BY <1>1, <2>2 DEF Flight, Total, Recvs
  <2> QED
    BY <1>1, <2>3 DEF BufferInv, RoundTrip, Recvs
<1>4. ASSUME NEW n \in Transfers(Len(put)), msg' = SubSeq(Swap(put), 1, n)
      PROVE  BufferInv'
  <2>1. n \in Nat /\ n <= Len(put) /\ n % Word = 0
    BY <1>2, WholeTransfers
  <2> DEFINE w == Swap(put)
  <2>3. w \in Seq(Byte) /\ Len(w) = Len(put)
    BY <1>2, SwapSeq
  <2>4. msg' = SubSeq(w, 0 + 1, 0 + n)
    BY <1>4, <2>1
  <2> HIDE DEF w
  <2>5. /\ SubSeq(w, 0 + 1, 0 + n) \in Seq(Byte) /\ Len(SubSeq(w, 0 + 1, 0 + n)) = n
        /\ \A i \in 1..n : SubSeq(w, 0 + 1, 0 + n)[i] = w[0 + i]
    BY <2>1, <2>3, Part
  <2>6. /\ msg' \in Seq(Byte) /\ Len(msg') = n /\ \A i \in 1..n : msg'[i] = Swap(put)[0 + i]
    BY <2>4, <2>5 DEF w
  <2>7. Flight(0, <<>>, msg')
    BY <1>2, <2>1, <2>6 DEF Flight
  <2>8. Flight(0, Total, msg)'
    BY <1>1, <2>7 DEF Flight, Total, Recvs
  <2> QED
    BY <1>1, <2>8 DEF BufferInv, RoundTrip, Recvs
<1>5. UNCHANGED msg \/ Transmit
  BY DEF idrnet_send_buf, idrnet_sendto_buf
<1> QED
  BY <1>1, <1>3, <1>4, <1>5 DEF Transmit, buf_htonl

\* Some of them arrive; of a datagram, those not asked for are lost.
LEMMA ArriveBuffer ==
  ASSUME BufferInv, \A n \in Lens : n % Word = 0, ~SplitWords,
         op = "none", op' \in Recvs, by # "none", UNCHANGED <<put, mem, by, got>>,
         NEW len \in Lens, NEW n \in Transfers(Shorter(len, Len(msg))),
         Arrives(len, n), msg' \in {Rest(n), <<>>}
  PROVE  BufferInv'
<1>1. /\ Len(put) \in Nat /\ Len(put) % Word = 0 /\ put \in [1..Len(put) -> Byte]
      /\ put \in Seq(Byte) /\ 0 % Word = 0
  BY Whole DEF BufferInv
<1>2. PICK k \in Nat : Flight(k, got, msg)
  BY DEF BufferInv, Total, Recvs
<1>3. /\ k % Word = 0 /\ msg \in Seq(Byte) /\ Len(msg) % Word = 0 /\ Len(msg) \in Nat
      /\ k + Len(msg) <= Len(put) /\ got = SubSeq(put, 1, k)
      /\ \A i \in 1..Len(msg) : msg[i] = Swap(put)[k + i]
  BY <1>2, LenProperties DEF Flight
<1>4. len \in Nat /\ len % Word = 0
  BY NetAssumption
<1>5. n \in Nat /\ n % Word = 0 /\ n <= len /\ n <= Len(msg)
  <2> DEFINE m == Shorter(len, Len(msg))
  <2>1. m \in Nat /\ m % Word = 0 /\ m <= len /\ m <= Len(msg)
    BY <1>3, <1>4 DEF Shorter
  <2> HIDE DEF m
  <2>2. n \in Nat /\ n <= m /\ n % Word = 0
    <3>1. n \in Transfers(m)
      BY DEF m
    <3> QED
      BY <2>1, <3>1, WholeTransfers
  <2> QED
    BY <1>3, <1>4, <2>1, <2>2
<1>6. payload' = SubSeq(put, k + 1, k + n) /\ ret' = n
  <2> DEFINE z == [i \in 1..len - n |-> Junk]
             c == SubSeq(msg, 1, n) \o z
             S == Byte \cup {Junk}
  <2>1. len - n \in Nat /\ z \in [1..len - n -> {Junk}] /\ n + (len - n) = len
    BY <1>4, <1>5
  <2>2. c \in Seq(S) /\ Len(c) = len /\ \A i \in 1..n : c[i] = msg[i]
    <3> HIDE DEF z
    <3>1. /\ SubSeq(msg, 1, n) \o z \in Seq(Byte \cup {Junk})
          /\ Len(SubSeq(msg, 1, n) \o z) = n + (len - n)
          /\ \A i \in 1..n : (SubSeq(msg, 1, n) \o z)[i] = msg[i]
      BY <1>3, <1>5, <2>1, Padded
    <3> QED
      BY <2>1, <3>1
  <2>3. put \in Seq(S)
    BY <1>1, SeqDef
  <2>4. /\ k + n <= Len(put) /\ \A i \in 1..n : c[i] = Swap(put)[k + i]
    <3> HIDE DEF c, z, S
    <3>1. k + n <= Len(put)
      BY <1>1, <1>3, <1>5
    <3>2. ASSUME NEW i \in 1..n PROVE c[i] = Swap(put)[k + i]
      <4>1. i \in 1..Len(msg)
        BY <1>3, <1>5
      <4>2. c[i] = msg[i] /\ msg[i] = Swap(put)[k + i]
        BY <1>3, <2>2, <4>1, Zenon
      <4> QED
        BY <4>2
    <3> QED
      BY <3>1, <3>2
  <2>5. SubSeq(Swap(c), 1, n) = SubSeq(put, k + 1, k + n)
    <3>1. /\ c \in Seq(S) /\ Len(c) % Word = 0 /\ n <= Len(c)
          /\ put \in Seq(S) /\ Len(put) % Word = 0 /\ k + n <= Len(put)
          /\ k \in Nat /\ k % Word = 0 /\ n \in Nat /\ n % Word = 0
      BY <1>1, <1>3, <1>4, <1>5, <2>2, <2>3, <2>4
    <3>2. \A i \in 1..n : c[i] = Swap(put)[k + i]
      BY <2>4
    <3> HIDE DEF c, S, z
    <3> QED
      BY <3>1, <3>2, Converted, Zenon
  <2> QED
    BY <2>5 DEF Arrives, buf_ntohl
<1>7. Total' = SubSeq(put, 1, k + n)
  <2>1. Total' = got \o payload'
    BY <1>5, <1>6 DEF Total
  <2>2. 1 \in 1..Len(put) + 1 /\ k \in 1 - 1..Len(put) /\ k + n \in k..Len(put)
    BY <1>1, <1>3, <1>5
  <2>3. SubSeq(put, 1, k) \o SubSeq(put, k + 1, k + n) = SubSeq(put, 1, k + n)
    BY <1>1, <2>2, ConcatAdjacentSubSeq
  <2> QED
    BY <1>3, <1>6, <2>1, <2>3
<1>8. k + n \in Nat /\ (k + n) % Word = 0 /\ k + n <= Len(put)
  BY <1>1, <1>3, <1>5, WholeWords
<1>9. Flight(k + n, Total', msg')
  <2>1. CASE msg' = <<>>
    <3>1. msg' \in Seq(Byte) /\ Len(msg') = 0
      BY <2>1
    <3> QED
      BY <1>1, <1>7, <1>8, <3>1 DEF Flight
  <2>2. CASE msg' = Rest(n)
    <3> DEFINE l == Len(msg) - n
    <3>1. l \in Nat /\ n + l = Len(msg) /\ l % Word = 0 /\ (k + n) + l <= Len(put)
      BY <1>1, <1>3, <1>5, WholeWords
    <3> HIDE DEF l
    <3>2. msg' = SubSeq(msg, n + 1, n + l)
      BY <2>2, <3>1 DEF Rest
    <3>3. /\ msg' \in Seq(Byte) /\ Len(msg') = l /\ \A i \in 1..l : msg'[i] = msg[n + i]
      <4>1. /\ SubSeq(msg, n + 1, n + l) \in Seq(Byte) /\ Len(SubSeq(msg, n + 1, n + l)) = l
            /\ \A i \in 1..l : SubSeq(msg, n + 1, n + l)[i] = msg[n + i]
        <5>1. n + l <= Len(msg) /\ msg \in Seq(Byte) /\ n \in Nat /\ l \in Nat
          BY <1>3, <1>5, <3>1
        <5> QED
          BY <5>1, Part
      <4> QED
        BY <3>2, <4>1
    <3>4. ASSUME NEW i \in 1..l PROVE msg'[i] = Swap(put)[(k + n) + i]
      <4>1. n + i \in 1..Len(msg) /\ k + (n + i) = (k + n) + i
        BY <1>5, <3>1
      <4> QED
        BY <1>3, <3>3, <4>1
    <3> QED
      BY <1>7, <1>8, <3>1, <3>3, <3>4 DEF Flight
  <2> QED
    BY <2>1, <2>2
<1>10. Flight(k + n, Total, msg)'
  BY <1>9 DEF Flight
<1>11. \E m \in Nat : Flight(m, Total, msg)'
  BY <1>8, <1>10
<1> QED
  BY <1>11 DEF BufferInv, RoundTrip

LEMMA RecvBuffer ==
  ASSUME BufferInv, \A n \in Lens : n % Word = 0, ~SplitWords,
         idrnet_recv_buf \/ idrnet_recvfrom_buf
  PROVE  BufferInv'
<1>1. op = "none" /\ op' \in Recvs /\ by # "none" /\ UNCHANGED <<put, mem, by, got>>
  BY DEF idrnet_recv_buf, idrnet_recvfrom_buf, Call, Recvs
<1>2. CASE Fails
  <2>1. Total' = Total /\ msg' = msg
    BY <1>1, <1>2 DEF Fails, Total, Recvs
  <2> QED
    BY <1>1, <2>1 DEF BufferInv, RoundTrip, Flight
<1>3. ASSUME NEW len \in Lens, NEW n \in Transfers(Shorter(len, Len(msg))),
             Arrives(len, n), msg' \in {Rest(n), <<>>}
      PROVE  BufferInv'
  BY <1>1, <1>3, ArriveBuffer
<1> QED
  BY <1>2, <1>3 DEF idrnet_recv_buf, idrnet_recvfrom_buf

\* The receiving function answers.
LEMMA ReturnBuffer ==
  ASSUME BufferInv, \A n \in Lens : n % Word = 0, recvfrom_return PROVE BufferInv'
<1> DEFINE d == IF op # "recvFrom" /\ ret # -1 THEN payload ELSE <<>>
<1>1. /\ UNCHANGED <<put, mem, msg, by>> /\ op' = "none" /\ got' = got \o d
      /\ op \in Recvs \cup {"recvFrom"}
  BY DEF recvfrom_return, Return, Recvs
<1>2. Len(put) \in Nat /\ put \in Seq(Byte)
  BY Whole DEF BufferInv
<1>3. PICK k \in Nat : Flight(k, Total, msg)
  BY <1>1 DEF BufferInv, Recvs
<1>4. Total = SubSeq(put, 1, k) /\ k <= Len(put) /\ Len(msg) \in Nat
  BY <1>2, <1>3, LenProperties DEF Flight
<1>5. Total \in Seq(Byte) /\ Len(Total) = k
  <2>1. SubSeq(put, 0 + 1, 0 + k) \in Seq(Byte) /\ Len(SubSeq(put, 0 + 1, 0 + k)) = k
    <3>1. 0 \in Nat /\ 0 + k <= Len(put)
      BY <1>4
    <3> QED
      BY <1>2, <3>1, Part
  <2>2. 0 + 1 = 1 /\ 0 + k = k
    OBVIOUS
  <2> QED
    BY <1>4, <2>1, <2>2
<1>6. got' = Total
  <2>1. CASE op # "recvFrom" /\ ret # -1
    BY <1>1, <2>1 DEF Total
  <2>2. CASE ~(op # "recvFrom" /\ ret # -1)
    <3>1. Total = got /\ got' = got \o <<>>
      BY <1>1, <2>2 DEF Total, Recvs
    <3> QED
      BY <1>5, <3>1, ConcatEmptySeq
  <2> QED
    BY <2>1, <2>2
<1>7. Flight(k, Total, msg)'
  <2>1. Total' = Total
    BY <1>1, <1>6 DEF Total, Recvs
  <2> QED
    BY <1>1, <1>3, <2>1 DEF Flight
<1>8. RoundTrip'
  BY <1>1, <1>4, <1>5, <1>6 DEF RoundTrip
<1>9. by = "none" => got' = <<>>
  BY <1>1, <1>6 DEF BufferInv, Total
<1> QED
  BY <1>1, <1>7, <1>8, <1>9 DEF BufferInv, Recvs

\* A new buffer, or the same one once more.
LEMMA NextBuffer ==
  ASSUME BufferInv, \A n \in Lens : n % Word = 0, Resends \subseteq {"sendBuf"}, next_message
  PROVE  BufferInv'
<1>1. /\ op' = "none" /\ msg' = <<>> /\ by' = "none" /\ got' = <<>>
      /\ put' \in Buffers /\ mem' = put'
  BY DEF next_message, BufferInv
<1>2. Len(put') \in Nat /\ SubSeq(put', 1, 0) = <<>> /\ 0 % Word = 0
  <2> DEFINE b == put'
  <2>1. b \in Buffers
    BY <1>1
  <2> HIDE DEF b
  <2>2. Len(b) \in Nat /\ SubSeq(b, 1, 0) = <<>> /\ 0 % Word = 0
    BY <2>1, Whole
  <2> QED
    BY <2>2 DEF b
<1>3. <<>> \in Seq(Byte) /\ Len(<<>>) = 0
  OBVIOUS
<1>4. Flight(0, Total, msg)'
  BY <1>1, <1>2, <1>3 DEF Flight, Total, Recvs
<1> QED
  BY <1>1, <1>2, <1>3, <1>4 DEF BufferInv, RoundTrip, Recvs

\* Of a buffer of whole words, sent in network order and received in host order,
\* any number of calls that stop between two words hand over a prefix, for any
\* word size and any content, and also when sendBuf sends it again: it converts
\* a copy.
THEOREM NetRoundTrip ==
  ASSUME \A n \in Lens : n % Word = 0, ~SplitWords, Resends \subseteq {"sendBuf"}
  PROVE  Spec => []RoundTrip
<1>1. Init => BufferInv
  <2> SUFFICES ASSUME Init PROVE BufferInv
    OBVIOUS
  <2>1. /\ op = "none" /\ put \in Buffers /\ mem = put /\ msg = <<>> /\ by = "none" /\ got = <<>>
    BY DEF Init
  <2>2. Len(put) \in Nat /\ SubSeq(put, 1, 0) = <<>> /\ 0 % Word = 0
    BY <2>1, Whole
  <2>3. <<>> \in Seq(Byte) /\ Len(<<>>) = 0
    OBVIOUS
  <2>4. Flight(0, Total, msg)
    BY <2>1, <2>2, <2>3 DEF Flight, Total, Recvs
  <2> QED
    BY <2>1, <2>2, <2>3, <2>4 DEF BufferInv, RoundTrip, Recvs
<1>2. BufferInv /\ [Next]_vars => BufferInv'
  <2> SUFFICES ASSUME BufferInv, [Next]_vars PROVE BufferInv'
    OBVIOUS
  <2>1. CASE UNCHANGED vars
    BY <2>1 DEF vars, BufferInv, RoundTrip, Total, Flight
  <2>2. CASE Peer
    <3>1. UNCHANGED <<op, ret, payload, put, mem, msg, by, got>>
      BY <2>2 DEF Peer, peer_send, peer_close, reset, stream, buffer
    <3> QED
      BY <3>1 DEF BufferInv, RoundTrip, Total, Flight
  <2>3. CASE idrnet_close
    BY <2>3, OtherBuffer DEF idrnet_close, buffer, Recvs
  <2>4. CASE idrnet_socket \/ idrnet_bind \/ idrnet_connect \/ idrnet_listen
             \/ idrnet_accept \/ idrnet_send \/ idrnet_sendto
    <3>1. UNCHANGED <<put, mem, msg, by, got>> /\ op = "none" /\ op' \in Setups
      BY <2>4 DEF idrnet_socket, idrnet_bind, idrnet_connect, idrnet_listen,
             idrnet_accept, idrnet_send, idrnet_sendto, Call, buffer, Setups
    <3> QED
      BY <3>1, OtherBuffer DEF Setups, Recvs
  <2>5. CASE setup_return \/ send_return
    <3>1. /\ UNCHANGED <<put, mem, msg, by, got>> /\ op' = "none"
          /\ op \in Setups \cup {"sendBuf", "sendToBuf"}
      BY <2>5 DEF setup_return, send_return, Return, buffer, Setups
    <3> QED
      BY <3>1, OtherBuffer DEF Recvs, Setups
  <2>6. CASE \E f \in {"recvAll", "recvAllBytes"} : recvAll(f)
    BY <2>6, OtherBuffer DEF recvAll, buffer, Recvs
  <2>7. CASE idrnet_recv
    <3>1. UNCHANGED <<put, mem, msg, by, got>> /\ op \in Loops /\ op' \in Gots
      BY <2>7 DEF idrnet_recv, buffer, Gots, Loops
    <3> QED
      BY <3>1, OtherBuffer DEF Recvs, Gots, Loops
  <2>8. CASE recvAllRec
    <3>1. UNCHANGED <<put, mem, msg, by, got>> /\ op \in Gots /\ op' \in Loops \cup {"none"}
      BY <2>8, RecCases
    <3> QED
      BY <3>1, OtherBuffer DEF Recvs, Loops, Gots
  <2>9. CASE idrnet_send_buf \/ idrnet_sendto_buf
    BY <2>9, SendBuffer
  <2>10. CASE idrnet_recvfrom
    BY <2>10, OtherBuffer DEF idrnet_recvfrom, Call, buffer, Recvs
  <2>11. CASE idrnet_recv_buf \/ idrnet_recvfrom_buf
    BY <2>11, RecvBuffer
  <2>12. CASE recvfrom_return
    BY <2>12, ReturnBuffer
  <2>13. CASE crash
    BY <2>13 DEF crash, buffer, BufferInv, RoundTrip, Recvs
  <2>14. CASE next_message
    BY <2>14, NextBuffer
  <2> QED
    BY <2>1, <2>2, <2>3, <2>4, <2>5, <2>6, <2>7, <2>8, <2>9, <2>10, <2>11, <2>12, <2>13,
       <2>14 DEF Next, Setup, Receive, Message
<1>3. BufferInv => RoundTrip
  BY DEF BufferInv
<1> QED
  BY <1>1, <1>2, <1>3, PTL DEF Spec

=============================================================================
