------------------------------ MODULE IdrisNet ------------------------------
(***************************************************************************)
(* Sockets: _/support/c/idris_net.c and the functions of Network.Socket    *)
(* that call it, for one program and its peer.                             *)
(*                                                                         *)
(* A function of the library is two or more foreign calls: the C function  *)
(* leaves a return value, an errno and blocks of memory; the Idris side    *)
(* looks at the return value, fetches errno or the payload and frees.      *)
(* The network delivers a stream in pieces of any size, may break the      *)
(* connection, and may interrupt a call.  An int has Word bytes here.      *)
(***************************************************************************)
EXTENDS Integers, Sequences, FiniteSets

CONSTANTS Byte,        \* what is sent
          Nul,         \* the byte that ends a C string; in Byte or not
          Junk,        \* the content of memory outside of a buffer
          Word,        \* sizeof(int)
          Lens,        \* the lengths of the buffers the program sends
          Piece,       \* what one recv asks for at most
          MaxSent,     \* bound on what the peer sends
          SplitWords,  \* a transfer may be cut short in the middle of a word
          Resends      \* the functions after which a buffer is sent again

ASSUME NetAssumption ==
    /\ Junk \notin Byte /\ Word \in Nat \ {0} /\ Lens \subseteq Nat
    /\ Piece \in Nat \ {0} /\ MaxSent \in Nat /\ SplitWords \in BOOLEAN

VARIABLES op,       \* the library function in progress, or "none"
          ret,      \* what its C function has returned
          errno,    \* zero or an error
          sock,     \* what the kernel knows about the socket
          blk,      \* the blocks of memory of this call
          misuse,   \* how memory was misused: "free" of a block that is not live,
                    \* "zero" or "word" stored behind a block, "null" dereferenced
          answer,   \* what the last function has returned
          sent, shut, broken,  \* the peer: what it sent, whether it closed
                               \* the connection, whether the connection broke
          wire,     \* what was sent and not received
          payload,  \* what the last C function has received
          acc,      \* the accumulator of recvAllRec
          put, mem, \* what the program has put into its buffer, and what is there
          msg, by,  \* the bytes on their way, and the function that has sent them
          got       \* what the receiving program has found in its buffers

vars == <<op, ret, errno, sock, blk, misuse, answer, sent, shut, broken, wire,
          payload, acc, put, mem, msg, by, got>>
peer   == <<sent, shut, broken>>
stream == <<wire, payload, acc>>
buffer == <<put, mem, msg, by, got>>

Block == {"addrinfo", "sockaddr", "struct", "payload", "copy"}
NoBlocks == [b \in Block |-> "none"]
Nothing == [op |-> "none", code |-> 0, data |-> <<>>, count |-> 0]

Buffers == UNION {[1..n -> Byte] : n \in Lens}

Init == /\ op = "none" /\ ret = 0 /\ errno = 0 /\ sock = "none"
        /\ blk = NoBlocks /\ misuse = {} /\ answer = Nothing
        /\ sent = <<>> /\ shut = FALSE /\ broken = FALSE
        /\ wire = <<>> /\ payload = <<>> /\ acc = <<>>
        /\ put \in Buffers /\ mem = put /\ msg = <<>> /\ by = "none" /\ got = <<>>

\* A C function is called; the blocks of earlier calls are out of reach.
Call(f) == op = "none" /\ op' = f /\ answer' = Nothing
Malloc(bs) == blk' = [b \in Block |-> IF b \in bs THEN "live" ELSE "none"]
\* free() of bs during a call that has the blocks m.
Freed(m, bs) == [b \in Block |-> IF b \in bs THEN "freed" ELSE m[b]]
Misused(how, bad) == misuse' = IF bad THEN misuse \cup {how} ELSE misuse
Bad(m, bs) == \E b \in bs : m[b] # "live"
\* The Idris side has what it needs and answers.
Return(c, d, n) == /\ op' = "none" /\ ret' = 0 /\ payload' = <<>>
                   /\ answer' = [op |-> op, code |-> c, data |-> d, count |-> n]

-----------------------------------------------------------------------------
(* socket, bind, connect, listen, accept, send, sendTo. *)

\* The system call succeeds and moves the socket to s, or fails.
Kernel(s) == \/ ret' = 0 /\ sock' = s /\ UNCHANGED errno
             \/ ret' = -1 /\ errno' = 1 /\ UNCHANGED sock
\* getaddrinfo reports through its result; errno is set or stays what it was.
Unresolved == ret' = -1 /\ errno' \in {errno, 1} /\ UNCHANGED sock

idrnet_socket ==
    /\ Call("socket") /\ sock = "none" /\ Kernel("open") /\ Malloc({})
    /\ UNCHANGED <<misuse, peer, stream, buffer>>

\* The list of addresses is not given back; a Unix address needs none.
idrnet_bind ==
    /\ Call("bind") /\ sock = "open"
    /\ \/ Unresolved /\ Malloc({})
       \/ Kernel("bound") /\ (Malloc({}) \/ Malloc({"addrinfo"}))
    /\ UNCHANGED <<misuse, peer, stream, buffer>>

\* The list is freed on both paths.  Mutant: not after a failed connect.
idrnet_connect_Leaks ==
    /\ Call("connect") /\ sock \in {"open", "bound"}
    /\ \/ Unresolved /\ Malloc({})
       \/ Kernel("connected") /\ (Malloc({}) \/ IF ret' = -1 THEN Malloc({"addrinfo"})
                  ELSE blk' = Freed([NoBlocks EXCEPT !["addrinfo"] = "live"], {"addrinfo"}))
    /\ UNCHANGED <<misuse, peer, stream, buffer>>
idrnet_connect ==
    /\ Call("connect") /\ sock \in {"open", "bound"}
    /\ \/ Unresolved /\ Malloc({})
       \/ Kernel("connected") /\ (Malloc({})
            \/ blk' = Freed([NoBlocks EXCEPT !["addrinfo"] = "live"], {"addrinfo"}))
    /\ UNCHANGED <<misuse, peer, stream, buffer>>

idrnet_listen ==
    /\ Call("listen") /\ sock = "bound" /\ Kernel("listening") /\ Malloc({})
    /\ UNCHANGED <<misuse, peer, stream, buffer>>

\* create_sockaddr and accept; the program goes on with the new socket.
idrnet_accept ==
    /\ Call("accept") /\ sock = "listening" /\ Kernel("connected") /\ Malloc({"sockaddr"})
    /\ UNCHANGED <<misuse, peer, stream, buffer>>

\* idrnet_send and idrnet_send_bytes: the kernel takes some of the data or fails;
\* idrnet_sendto resolves the address first and gives the list back.
idrnet_send ==
    /\ Call("send") /\ sock = "connected" /\ Kernel(sock) /\ Malloc({})
    /\ UNCHANGED <<misuse, peer, stream, buffer>>
idrnet_sendto ==
    /\ Call("sendTo") /\ sock \in {"open", "bound"}
    /\ \/ Unresolved /\ Malloc({})
       \/ Kernel(sock) /\ blk' = Freed([NoBlocks EXCEPT !["addrinfo"] = "live"], {"addrinfo"})
    /\ UNCHANGED <<misuse, peer, stream, buffer>>

\* The Idris side.  Mutant: the return value of the C function is not looked at.
Code_Unchecked == 0
Code == IF ret = -1 THEN errno ELSE 0
setup_return ==
    /\ op \in {"socket", "bind", "connect", "listen", "accept", "send", "sendTo"}
    /\ Return(Code, <<>>, ret)
    /\ blk' = IF op = "accept" /\ ret = 0 THEN Freed(blk, {"sockaddr"}) ELSE blk
    /\ UNCHANGED <<errno, sock, misuse, peer, wire, acc, buffer>>

idrnet_close ==
    /\ op = "none" /\ sock # "none" /\ sock' = "none"
    /\ sent' = <<>> /\ shut' = FALSE /\ broken' = FALSE
    /\ wire' = <<>> /\ payload' = <<>> /\ acc' = <<>> /\ answer' = Nothing
    /\ UNCHANGED <<op, ret, errno, blk, misuse, buffer>>

-----------------------------------------------------------------------------
(* The peer. *)

peer_send == /\ sock = "connected" /\ ~shut /\ ~broken /\ Len(sent) < MaxSent
             /\ \E b \in Byte : sent' = Append(sent, b) /\ wire' = Append(wire, b)
             /\ UNCHANGED <<op, ret, errno, sock, blk, misuse, answer, shut, broken,
                            payload, acc, buffer>>
peer_close == /\ sock = "connected" /\ ~broken /\ shut' = TRUE
              /\ UNCHANGED <<op, ret, errno, sock, blk, misuse, answer, sent, broken,
                             stream, buffer>>
\* A reset of the connection: what was on the way is lost.
reset == /\ sock = "connected" /\ ~broken /\ broken' = TRUE /\ wire' = <<>>
         /\ UNCHANGED <<op, ret, errno, sock, blk, misuse, answer, sent, shut,
                        payload, acc, buffer>>

-----------------------------------------------------------------------------
(* recvAll and recvAllBytes. *)

\* recv(2) blocks until there is something: a piece, the end, or an error.
recv ==
    \/ \E n \in 1..Piece :
          /\ n <= Len(wire) /\ ret' = n
          /\ payload' = SubSeq(wire, 1, n) /\ wire' = SubSeq(wire, n + 1, Len(wire))
          /\ UNCHANGED errno
    \/ /\ wire = <<>> /\ shut /\ ~broken /\ ret' = 0 /\ payload' = <<>>
       /\ UNCHANGED <<errno, wire>>
    \/ /\ ret' = -1 /\ errno' = 1 /\ payload' = <<>> /\ UNCHANGED wire

recvAll(f) ==
    /\ op = "none" /\ sock = "connected"
    /\ Len(sent) = Len(wire)      \* nothing was received before
    /\ op' = f /\ answer' = Nothing
    /\ acc' = <<>> /\ ret' = 0 /\ Malloc({}) /\ payload' = <<>>
    /\ UNCHANGED <<errno, sock, misuse, peer, wire, buffer>>

\* idrnet_recv: the structure and the payload, a block of len + 1 bytes whose
\* byte recv_res + 1 is set to 0; or recv into a buffer.
idrnet_recv ==
    /\ op \in {"recvAll", "recvAllBytes"} /\ recv
    /\ Misused("zero", op = "recvAll" /\ ret' > 0 /\ ret' + 1 > Piece)
    /\ op' = IF op = "recvAll" THEN "recvAll got" ELSE "recvAllBytes got"
    /\ IF op = "recvAll" THEN Malloc({"struct", "payload"}) ELSE Malloc({})
    /\ UNCHANGED <<sock, answer, peer, acc, buffer>>

\* A payload becomes a String up to its first null.
String(p) == IF \E i \in DOMAIN p : p[i] = Nul
             THEN SubSeq(p, 1, (CHOOSE i \in DOMAIN p : p[i] = Nul /\ \A j \in 1..i - 1 : p[j] # Nul) - 1)
             ELSE p

\* recv and recvAllRec: Left 0 is the end of the stream, another Left an error.
\* Mutant: every Left is taken for the end.
Ends_All == ret <= 0
Ends == IF ret = -1 THEN errno = 0 ELSE ret = 0
recvAllRec ==
    /\ op \in {"recvAll got", "recvAllBytes got"}
    /\ LET f == IF op = "recvAll got" THEN "recvAll" ELSE "recvAllBytes"
       IN IF ret > 0
          THEN /\ acc' = acc \o (IF f = "recvAll" THEN String(payload) ELSE payload)
               /\ op' = f /\ UNCHANGED answer
          ELSE /\ op' = "none" /\ acc' = <<>>
               /\ answer' = [op |-> f, code |-> IF Ends THEN 0 ELSE 1, data |-> acc, count |-> 0]
    \* idrnet_free_recv_struct frees the payload and the structure
    /\ LET bs == IF op = "recvAll got" THEN {"struct", "payload"} ELSE {}
       IN Misused("free", Bad(blk, bs)) /\ blk' = Freed(blk, bs)
    /\ ret' = 0 /\ payload' = <<>>
    /\ UNCHANGED <<errno, sock, peer, wire, buffer>>

-----------------------------------------------------------------------------
(* Buffers in network byte order: sendBuf, sendToBuf, recvBuf, recvFromBuf,  *)
(* and recvFrom.                                                             *)

\* htonl and ntohl of a little endian machine, on (len / sizeof(int)) + 1 words:
\* what lies behind the end of the buffer takes part in the last word.
Words(n) == n \div Word + 1
Swap(b) == [i \in 1..Len(b) |->
              LET w == (i - 1) \div Word            \* the word of byte i
                  j == w * Word + (Word - ((i - 1) % Word))
              IN IF w >= Words(Len(b)) THEN b[i] ELSE IF j <= Len(b) THEN b[j] ELSE Junk]
buf_htonl(b) == Swap(b)
buf_ntohl(b) == Swap(b)
\* The conversion of len bytes stores words that reach behind them.
Converts(len) == Misused("word", Words(len) * Word > len)

\* send and recv do all of it, or less; nothing only if there is nothing.
Transfers(n) == {k \in 0..n : \/ k = n
                              \/ k > 0 /\ (SplitWords \/ k % Word = 0)}
Shorter(m, n) == IF m < n THEN m ELSE n

\* The kernel takes some of the converted buffer, or send fails.
Transmit == \/ \E n \in Transfers(Len(mem)) :
                  ret' = n /\ msg' = SubSeq(buf_htonl(mem), 1, n) /\ UNCHANGED errno
            \/ ret' = -1 /\ errno' = 1 /\ UNCHANGED msg

\* idrnet_send_buf converts a copy.  Mutant: it converts the buffer.
idrnet_send_buf_InPlace ==
    /\ Call("sendBuf") /\ by = "none" /\ by' = "sendBuf" /\ Transmit
    /\ mem' = buf_htonl(mem) /\ Converts(Len(mem)) /\ Malloc({})
    /\ UNCHANGED <<sock, peer, stream, put, got>>
idrnet_send_buf ==
    /\ Call("sendBuf") /\ by = "none" /\ by' = "sendBuf" /\ Transmit
    /\ Converts(Len(mem)) /\ blk' = Freed([NoBlocks EXCEPT !["copy"] = "live"], {"copy"})
    /\ UNCHANGED <<sock, peer, stream, put, mem, got>>
\* idrnet_sendto_buf converts the buffer of the program, also when sendto fails
\* after it, and keeps the list of addresses.
idrnet_sendto_buf ==
    /\ Call("sendToBuf") /\ by = "none" /\ by' = "sendToBuf"
    /\ \/ Unresolved /\ Malloc({}) /\ UNCHANGED <<msg, mem, misuse>>
       \/ /\ Transmit /\ mem' = buf_htonl(mem) /\ Converts(Len(mem))
          /\ Malloc({"addrinfo"}) /\ UNCHANGED sock
    /\ UNCHANGED <<peer, stream, put, got>>
send_return ==
    /\ op \in {"sendBuf", "sendToBuf"} /\ Return(Code, <<>>, ret)
    /\ UNCHANGED <<errno, sock, blk, misuse, peer, wire, acc, buffer>>

\* The receiving program asks for len bytes and gets n of them, all of len are
\* converted; a datagram loses what was not asked for.
Arrives(len, n) ==
    /\ ret' = n /\ UNCHANGED errno
    /\ LET b == SubSeq(msg, 1, n) \o [i \in 1..len - n |-> Junk]
       IN payload' = SubSeq(buf_ntohl(b), 1, n)
Rest(n) == SubSeq(msg, n + 1, Len(msg))
Fails == ret' = -1 /\ errno' = 1 /\ UNCHANGED <<msg, payload>>

\* A recv of 0, the end of the stream, converts the buffer as well.
idrnet_recv_buf ==
    /\ Call("recvBuf") /\ by # "none" /\ Malloc({})
    /\ \/ \E len \in Lens : \E n \in Transfers(Shorter(len, Len(msg))) :
             Arrives(len, n) /\ msg' = Rest(n) /\ Converts(len)
       \/ Fails /\ UNCHANGED misuse
    /\ UNCHANGED <<sock, peer, wire, acc, put, mem, by, got>>
\* idrnet_recvfrom_buf has no payload of its own.  After a failure it frees
\* remote_addr; when 0 bytes came it neither frees nor returns it.
idrnet_recvfrom_buf ==
    /\ Call("recvFromBuf") /\ by # "none"
    /\ \/ /\ \E len \in Lens : \E n \in Transfers(Shorter(len, Len(msg))) :
               /\ Arrives(len, n) /\ msg' \in {Rest(n), <<>>}
               /\ IF n > 0 THEN Converts(len) ELSE UNCHANGED misuse
          /\ Malloc({"sockaddr", "struct"})
       \/ /\ Fails /\ UNCHANGED misuse
          /\ blk' = Freed([NoBlocks EXCEPT !["struct"] = "live"], {"sockaddr"})
    /\ UNCHANGED <<sock, peer, wire, acc, put, mem, by, got>>
\* idrnet_recvfrom: buf and remote_addr are freed when nothing came; the fields
\* of the result, nuked before, stay NULL.
idrnet_recvfrom ==
    /\ Call("recvFrom")
    /\ \/ ret' \in {0, 1} /\ UNCHANGED errno /\ Malloc({"sockaddr", "payload", "struct"})
       \/ /\ ret' = -1 /\ errno' = 1
          /\ blk' = Freed([NoBlocks EXCEPT !["struct"] = "live"], {"payload", "sockaddr"})
    /\ UNCHANGED <<sock, misuse, peer, stream, buffer>>

\* The fields of the result that are not NULL.
Fields == IF op = "recvFrom" /\ ret # -1 THEN {"payload", "sockaddr"}
          ELSE IF op = "recvFromBuf" /\ ret > 0 THEN {"sockaddr"} ELSE {}
\* The getters read the address of the sender, whatever the result of recvfrom;
\* idrnet_free_recvfrom_struct keeps the structure.  recvFromBuf adds 1 to the
\* number of bytes.
NoSender == op # "recvBuf" /\ ret # -1 /\ "sockaddr" \notin Fields
recvfrom_return ==
    /\ op \in {"recvFrom", "recvFromBuf", "recvBuf"} /\ ~NoSender
    /\ Misused("free", Bad(blk, Fields)) /\ blk' = Freed(blk, Fields)
    /\ LET data == IF op # "recvFrom" /\ ret # -1 THEN payload ELSE <<>>
       IN /\ Return(Code, data, IF op = "recvFromBuf" THEN ret + 1 ELSE ret)
          /\ got' = got \o data
    /\ UNCHANGED <<errno, sock, peer, wire, acc, put, mem, msg, by>>
\* idrnet_sockaddr_ipv4_port reads through the NULL: the program is killed.
crash ==
    /\ op \in {"recvFrom", "recvFromBuf"} /\ NoSender
    /\ op' = "crashed" /\ misuse' = misuse \cup {"null"}
    /\ UNCHANGED <<ret, errno, sock, blk, answer, peer, stream, buffer>>

\* The program goes on to another message, or sends the same buffer again.
next_message ==
    /\ op = "none" /\ by # "none"
    /\ msg' = <<>> /\ by' = "none" /\ payload' = <<>> /\ answer' = Nothing /\ got' = <<>>
    /\ \/ by \in Resends /\ UNCHANGED <<put, mem>>
       \/ put' \in Buffers /\ mem' = put'
    /\ UNCHANGED <<op, ret, errno, sock, blk, misuse, peer, wire, acc>>

-----------------------------------------------------------------------------
Setup   == \/ idrnet_socket \/ idrnet_bind \/ idrnet_connect \/ idrnet_listen
           \/ idrnet_accept \/ idrnet_send \/ idrnet_sendto \/ setup_return \/ idrnet_close
Peer    == peer_send \/ peer_close \/ reset
Receive == \/ \E f \in {"recvAll", "recvAllBytes"} : recvAll(f)
           \/ idrnet_recv \/ recvAllRec
Message == \/ idrnet_send_buf \/ idrnet_sendto_buf \/ send_return \/ idrnet_recvfrom
           \/ idrnet_recv_buf \/ idrnet_recvfrom_buf \/ recvfrom_return \/ crash
           \/ next_message

Next == Setup \/ Peer \/ Receive \/ Message
Spec == Init /\ [][Next]_vars

-----------------------------------------------------------------------------
\* The kernel has done what the last function was asked for.
Done == /\ answer.op = "bind" => sock = "bound"
        /\ answer.op = "connect" => sock = "connected"
        /\ answer.op = "listen" => sock = "listening"
        /\ answer.op = "accept" => sock = "connected"

\* Network/Socket.idr: bind and connect return 0 on success, an error code
\* otherwise; so do listen and accept.
ResultTrue == answer.code = 0 => Done

\* A 0 that is not true comes only from a getaddrinfo that failed in bind or
\* connect without setting errno, before any other call has failed: a wrong 0 is
\* never an error that the kernel has reported, nor that of an earlier call.
ResultSound == answer.code = 0 /\ ~Done => answer.op \in {"bind", "connect"} /\ errno = 0

\* recvAll and recvAllBytes succeed only with all that the peer has sent before
\* it closed the connection, however the network has cut it into pieces.
RecvAllComplete ==
    answer.op \in {"recvAll", "recvAllBytes"} /\ answer.code = 0 => answer.data = sent

\* What the code leaves allocated: bind and sendToBuf the list of addresses,
\* an accept that failed its sockaddr, recvFrom and recvFromBuf the structure.
Kept == IF answer.op \in {"bind", "sendToBuf"} THEN {"addrinfo"}
        ELSE IF answer.op = "accept" /\ answer.count = -1 THEN {"sockaddr"}
        ELSE IF answer.op \in {"recvFrom", "recvFromBuf"} THEN {"struct"} ELSE {}

\* On success and on failure, every block is freed at most once, and at least
\* once unless the function is known to keep it.
FreedOnce ==
    /\ "free" \notin misuse
    /\ answer.op # "none" => \A b \in Block : blk[b] = "live" => b \in Kept

\* idris_net.c: "Null-term, so Idris can interpret it".  The 0 that ends a
\* payload is stored in the payload.
NulInside == "zero" \notin misuse

\* Neither conversion touches memory outside of the buffer it is given.
WordsInside == "word" \notin misuse

\* The address of the sender that recvFrom and recvFromBuf read is there.
SenderThere == "null" \notin misuse

\* Network/Socket/Raw.idr: the number recvFromBuf returns is the result of the
\* function underneath, the number of bytes received.
CountTrue == answer.op \in {"recvBuf", "recvFromBuf"} /\ answer.code = 0
               => answer.count = Len(answer.data)

\* Bytes sent in network order by sendBuf or sendToBuf and received by recvBuf
\* and recvFromBuf, in any number of calls that do less than they are asked for,
\* arrive as a prefix of what the program has put into its buffer, also when it
\* is sent again.
RoundTrip == got = SubSeq(put, 1, Len(got))
=============================================================================
