------------------------------ MODULE RefCText ------------------------------
(***************************************************************************)
(* Strings and buffers of the RefC runtime (_/support/refc/stringOps.c and *)
(* buffer.c).                                                              *)
(*                                                                         *)
(* A string is a block of bytes that ends at its first 0; next to each     *)
(* block the model keeps the String of Idris that it stands for, a         *)
(* sequence of characters.  A buffer is an array of bytes; next to it the  *)
(* model keeps what was stored where and not yet overwritten.  The C code  *)
(* has offsets and lengths as int where Idris has them as Int and strlen   *)
(* gives a size_t: an int has IntBits bits here and a byte Base values.    *)
(***************************************************************************)
EXTENDS Integers, Sequences, FiniteSets, SequencesExt

CONSTANTS Char,     \* the characters of the program, as numbers
          MaxLen,   \* bound on the length of strings
          IntBits,  \* the bits of int
          Args,     \* the offsets and lengths that the program passes
          Sizes,    \* the sizes of the two buffers
          Lens,     \* the bytes of the numbers and strings stored in them
          Base,     \* how many values a byte has
          Overlap   \* copies inside a buffer may overlap

ASSUME TextAssumption ==
    /\ Char \subseteq Nat /\ MaxLen \in Nat /\ IntBits \in Nat \ {0}
    /\ Args \subseteq Int /\ Base \in Nat \ {0} /\ Overlap \in BOOLEAN
    /\ Sizes \in [{"p", "q"} -> Nat] /\ Lens \subseteq Nat

VARIABLES use,      \* "string" or "buffer": the two parts share nothing
          str, idr, \* two strings: their blocks, and what they stand for
          it,       \* a string iterator: its copy, its position, its string
          seen,     \* the characters it has given out
          buf, rec, \* two buffers: their bytes, and what was stored in them
          state     \* "ok", "stopped" by a failed check, or "stray" when
                    \* memory outside of the block was touched

vars == <<use, str, idr, it, seen, buf, rec, state>>
Reg == {"x", "y"}
Buf == {"p", "q"}

\* A character as an unsigned char; those that a C string can hold.
Byte(c) == c % Base
Letter == Char \cap 1..Base - 1

\* The conversion of an Int or a size_t to int.
int(n) == LET m == n % 2 ^ IntBits
          IN IF m >= 2 ^ (IntBits - 1) THEN m - 2 ^ IntBits ELSE m

Init == /\ use \in {"string", "buffer"} /\ state = "ok"
        /\ str = [r \in Reg |-> <<0>>] /\ idr = [r \in Reg |-> <<>>]
        /\ it = [block |-> <<0>>, pos |-> 0, idr |-> <<>>] /\ seen = <<>>
        /\ buf = [b \in Buf |-> [i \in 1..Sizes[b] |-> 0]]
        /\ rec = [b \in Buf |-> {}]

-----------------------------------------------------------------------------
(* C strings. *)

Terminated(b) == \E i \in DOMAIN b : b[i] = 0
strlen(b) == (CHOOSE i \in DOMAIN b : b[i] = 0 /\ \A j \in 1..i - 1 : b[j] # 0) - 1
Chars(b) == SubSeq(b, 1, strlen(b))
\* malloc and memset; memcpy of the bytes s to position at.
Zeros(n) == [i \in 1..n |-> 0]
memcpy(b, at, s) == [i \in DOMAIN b |-> IF at < i /\ i <= at + Len(s) THEN s[i - at] ELSE b[i]]

\* `int l = strlen(s)', and the bytes up to there.
intlen(b) == int(strlen(b))
Counted(b) == SubSeq(b, 1, intlen(b))

idris2_mkEmptyString(l) == Zeros(l)
idris2_mkString(b) == memcpy(Zeros(intlen(b) + 1), 0, Counted(b))

tail(b) == IF intlen(b) = 0 THEN <<0>>
           ELSE memcpy(Zeros(intlen(b)), 0, SubSeq(b, 2, intlen(b)))
reverse(b) == LET l == intlen(b) IN memcpy(Zeros(l + 1), 0, [i \in 1..l |-> b[l + 1 - i]])
\* Mutant: no room for the final 0.
strCons_Short(c, b) ==
    memcpy(memcpy(idris2_mkEmptyString(intlen(b) + 1), 0, <<Byte(c)>>), 1, Counted(b))
strCons(c, b) == memcpy(memcpy(idris2_mkEmptyString(intlen(b) + 2), 0, <<Byte(c)>>), 1, Counted(b))
strAppend(a, b) == memcpy(memcpy(idris2_mkEmptyString(intlen(a) + intlen(b) + 1), 0, Counted(a)),
                          intlen(a), Counted(b))
\* The length that strSubstr takes.
Taken(b, start, len) ==
    LET rest == int(strlen(b) - int(start)) IN IF rest < int(len) THEN rest ELSE int(len)
strSubstr(b, start, len) ==
    LET l == Taken(b, start, len)
    IN memcpy(idris2_mkEmptyString(l + 1), 0, SubSeq(b, int(start) + 1, int(start) + l))
\* Lists are sequences: fastUnpack reads up to the 0.
fastPack(cs) == memcpy(Zeros(int(Len(cs)) + 1), 0, [i \in DOMAIN cs |-> Byte(cs[i])])
fastUnpack(b) == Chars(b)
Joined(bs) == FlattenSeq([i \in DOMAIN bs |-> Chars(bs[i])])
fastConcat(bs) == memcpy(Zeros(int(Len(Joined(bs))) + 1), 0, Joined(bs))

\* The Prelude's substr, as documented.
Substr(s, start, len) ==
    IF start >= Len(s) THEN <<>>
    ELSE SubSeq(s, start + 1, IF start + len > Len(s) THEN Len(s) ELSE start + len)

-----------------------------------------------------------------------------
(* The operations of a program on strings. *)

\* A length or size that is no int has become negative: no system has such a
\* block, and the program ends with a failed check or a write to NULL.
Stop == /\ use = "string" /\ state = "ok" /\ state' = "stopped"
        /\ UNCHANGED <<use, str, idr, it, seen, buf, rec>>
\* r becomes the C result b, which stands for s and takes the given lengths.
Set(r, b, s, lens) ==
    /\ use = "string" /\ state = "ok" /\ Len(s) <= MaxLen
    /\ IF \E l \in lens : l < 0 THEN Stop
       ELSE /\ str' = [str EXCEPT ![r] = b] /\ idr' = [idr EXCEPT ![r] = s]
            /\ UNCHANGED <<use, it, seen, buf, rec, state>>

strTail(r) == idr[r] # <<>> /\ Set(r, tail(str[r]), Tail(idr[r]), {intlen(str[r])})
strReverse(r) == Set(r, reverse(str[r]), Reverse(idr[r]), {int(intlen(str[r]) + 1)})
cons(r, c) == Set(r, strCons(c, str[r]), <<c>> \o idr[r],
                  {intlen(str[r]), int(intlen(str[r]) + 2)})
append(r, q) == Set(r, strAppend(str[r], str[q]), idr[r] \o idr[q],
                    {intlen(str[r]), intlen(str[q]), int(intlen(str[r]) + intlen(str[q]) + 1)})
\* fastUnpack and fastPack count in ints.
pack(r, q) == Set(r, fastPack(fastUnpack(str[q])), idr[q],
                  {int(i) : i \in 0..strlen(str[q]) + 1})
concat(r, q) == LET bs == <<str[q], str[r], str[q]>>
                IN  Set(r, fastConcat(bs), idr[q] \o idr[r] \o idr[q],
                        {intlen(str[r]), intlen(str[q]), int(int(Len(Joined(bs))) + 1)})

substr(r, start, len) ==
    /\ start >= 0 /\ len >= 0
    /\ LET l == Taken(str[r], start, len)
       IN  IF start >= Len(idr[r]) THEN Set(r, <<0>>, <<>>, {})
           ELSE Set(r, strSubstr(str[r], start, len), Substr(idr[r], start, len), {l, int(l + 1)})

stringIteratorNew(r) ==
    LET l == intlen(str[r])
    IN  IF int(l + 1) < 0 THEN Stop
        ELSE /\ use = "string" /\ state = "ok" /\ seen' = <<>>
             /\ it' = [block |-> memcpy(Zeros(l + 1), 0, SubSeq(str[r], 1, l + 1)), pos |-> 0,
                       idr |-> idr[r]]
             /\ UNCHANGED <<use, str, idr, buf, rec, state>>

Advance(p) == p + 1
stringIteratorNext ==
    /\ use = "string" /\ state = "ok" /\ it.block[it.pos + 1] # 0
    /\ seen' = Append(seen, it.block[it.pos + 1]) /\ Len(seen) < MaxLen
    /\ it' = [it EXCEPT !.pos = Advance(@)]
    /\ UNCHANGED <<use, str, idr, buf, rec, state>>
stringIteratorToString(r) ==
    LET rest == SubSeq(it.block, it.pos + 1, Len(it.block))
    IN  Set(r, idris2_mkString(rest), SubSeq(it.idr, Len(seen) + 1, Len(it.idr)),
            {intlen(rest), int(intlen(rest) + 1)})

-----------------------------------------------------------------------------
(* Buffers. *)

\* assert_valid_range, in 64 bits.  Mutant: the sum has the width of int.
assert_valid_range_Narrow(b, offset, len) ==
    offset >= 0 /\ len >= 0 /\ int(offset + len) <= Len(buf[b])
assert_valid_range(b, offset, len) ==
    offset >= 0 /\ len >= 0 /\ offset + len <= Len(buf[b])

InBlock(b, offset, len) == 0 <= offset /\ offset + len <= Len(buf[b])

\* The records of b that a write of len bytes at loc leaves alone.
Apart(r, loc, len) == r.loc + r.len <= loc \/ loc + len <= r.loc
Kept(b, loc, len) == {r \in rec[b] : Apart(r, loc, len)}

\* The bytes s are written to b at loc; the program means it to hold new.
Write(b, loc, s, new) ==
    IF ~assert_valid_range(b, loc, Len(s)) THEN state' = "stopped" /\ UNCHANGED <<buf, rec>>
    ELSE IF ~InBlock(b, loc, Len(s)) THEN state' = "stray" /\ UNCHANGED <<buf, rec>>
    ELSE /\ buf' = [buf EXCEPT ![b] = memcpy(@, loc, s)]
         /\ rec' = [rec EXCEPT ![b] = Kept(b, loc, Len(s)) \cup new]
         /\ UNCHANGED state

\* How many numbers fit into n bytes.
Power[n \in Nat] == IF n = 0 THEN 1 ELSE Base * Power[n - 1]

\* setBufferUIntLE: the low byte first.
Bytes(val, len) == LET v[i \in 0..len] == IF i = 0 THEN val ELSE v[i - 1] \div Base
                   IN [i \in 1..len |-> v[i - 1] % Base]
setBufferUIntLE(b, loc, val, len) ==
    /\ use = "buffer" /\ state = "ok"
    /\ Write(b, int(loc), Bytes(val, len), {[loc |-> loc, len |-> len, int |-> TRUE, val |-> <<val>>]})
    /\ UNCHANGED <<use, str, idr, it, seen>>
\* getBufferUIntLE: from the high byte down.
getBufferUIntLE(b, loc, len) ==
    LET r[i \in 0..len] == IF i = 0 THEN 0 ELSE r[i - 1] * Base + buf[b][loc + len + 1 - i] IN r[len]

setBufferString(b, loc, s) ==
    /\ use = "buffer" /\ state = "ok"
    /\ Write(b, int(loc), s, {[loc |-> loc, len |-> Len(s), int |-> FALSE, val |-> s]})
    /\ UNCHANGED <<use, str, idr, it, seen>>
\* strncpy stops at a 0 and fills up with 0.
getBufferString(b, loc, len) ==
    Chars(SubSeq(buf[b], loc + 1, loc + len) \o <<0>>)

\* copyBuffer: memcpy between overlapping ranges may go either way.
Moved(b, from, n, loc) ==
    LET up[i \in 0..n] == IF i = 0 THEN buf[b] ELSE [up[i - 1] EXCEPT ![loc + i] = up[i - 1][from + i]]
        down[i \in 0..n] == IF i = 0 THEN buf[b]
                            ELSE [down[i - 1] EXCEPT ![loc + n + 1 - i] = down[i - 1][from + n + 1 - i]]
    IN {SubSeq(up[n], loc + 1, loc + n), SubSeq(down[n], loc + 1, loc + n)}
copyBuffer(a, from, len, b, loc) ==
    LET f == int(from) n == int(len) l == int(loc)
        within == {r \in rec[a] : r.loc >= f /\ r.loc + r.len <= f + n}
        new == {[r EXCEPT !.loc = @ - f + l] : r \in within}
    IN /\ use = "buffer" /\ state = "ok"
       /\ a = b => Overlap \/ f + n <= l \/ l + n <= f
       /\ IF ~assert_valid_range(a, f, n) \/ ~assert_valid_range(b, l, n)
          THEN state' = "stopped" /\ UNCHANGED <<buf, rec>>
          ELSE IF ~InBlock(a, f, n) \/ ~InBlock(b, l, n)
          THEN state' = "stray" /\ UNCHANGED <<buf, rec>>
          ELSE \E s \in IF a = b THEN Moved(a, f, n, l) ELSE {SubSeq(buf[a], f + 1, f + n)} :
                 Write(b, l, s, new)
       /\ UNCHANGED <<use, str, idr, it, seen>>

-----------------------------------------------------------------------------
StringOp ==
    \/ \E r \in Reg : strTail(r) \/ strReverse(r) \/ stringIteratorNew(r) \/ stringIteratorToString(r)
    \/ \E r \in Reg, c \in Char : cons(r, c)
    \/ \E r, q \in Reg : append(r, q) \/ pack(r, q) \/ concat(r, q)
    \/ \E r \in Reg, start, len \in Args : substr(r, start, len)
    \/ stringIteratorNext
BufferOp ==
    \/ \E b \in Buf, loc \in Args, len \in Lens :
         \/ \E val \in 0..Power[len] - 1 : setBufferUIntLE(b, loc, val, len)
         \/ \E s \in [1..len -> Letter] : setBufferString(b, loc, s)
    \/ \E a, b \in Buf, from, len, loc \in Args : copyBuffer(a, from, len, b, loc)

Next == StringOp \/ BufferOp
Spec == Init /\ [][Next]_vars

-----------------------------------------------------------------------------
\* The block of every string ends with a 0 and holds the characters that the
\* operations of Idris define, after any sequence of operations; the iterator
\* has given out the beginning of its string, and no call stops the program.
StringFaithful ==
    /\ \A r \in Reg : Terminated(str[r]) /\ Chars(str[r]) = idr[r]
    /\ Terminated(it.block) /\ SubSeq(it.idr, 1, Len(seen)) = seen
    /\ use = "string" => state = "ok"

\* What was stored in a buffer and not overwritten is read back, also after
\* copies, and no call touches memory outside of the buffer.
BufferFaithful ==
    /\ state # "stray"
    /\ \A b \in Buf : \A r \in rec[b] :
         IF r.int THEN getBufferUIntLE(b, r.loc, r.len) = r.val[1]
         ELSE getBufferString(b, r.loc, r.len) = r.val
=============================================================================
