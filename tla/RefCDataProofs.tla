--------------------------- MODULE RefCDataProofs ---------------------------
(***************************************************************************)
(* Proofs about the data of the RefC runtime.  RefCText: strings, buffers  *)
(* and numbers of any length, any width of int and any number of values of *)
(* a byte.  RefCWords: integer types of any widths.                        *)
(***************************************************************************)
EXTENDS RefCText, RefCWords, SequenceTheorems, WellFoundedInduction, TLAPS

\* The program passes only offsets and lengths that an int can hold.
Narrow == \A n \in Args : int(n) = n
\* An int can hold the size of every block.
Short == \A n \in 0..MaxLen + 1 : int(n) = n
\* Every character is a byte of its own, and not the 0.
OneByte == Char \subseteq 1..Base - 1

-----------------------------------------------------------------------------
(***************************************************************************)
(* Strings.  Every block is exactly the characters and one 0.              *)
(***************************************************************************)
Text == Seq(Letter)
Block(s) == [i \in 1..Len(s) + 1 |-> IF i <= Len(s) THEN s[i] ELSE 0]

LEMMA CharFacts == \A c \in Letter : c \in Int /\ c # 0 /\ Byte(c) = c
<1> SUFFICES ASSUME NEW c \in Letter PROVE c \in Int /\ c # 0 /\ Byte(c) = c
  OBVIOUS
<1>1. c \in Nat /\ c # 0 /\ c < Base /\ Base \in Nat /\ Base > 0
  BY TextAssumption DEF Letter
<1>2. c % Base = c
  BY <1>1
<1> QED
  BY <1>1, <1>2 DEF Byte

LEMMA LenNat == \A s \in Text : Len(s) \in Nat /\ DOMAIN s = 1..Len(s)
BY LenProperties DEF Text

LEMMA BlockFacts ==
  ASSUME NEW s \in Text
  PROVE  /\ DOMAIN Block(s) = 1..Len(s) + 1 /\ Len(s) \in Nat
         /\ Len(Block(s)) = Len(s) + 1
         /\ Block(s)[Len(s) + 1] = 0
         /\ \A i \in 1..Len(s) : Block(s)[i] = s[i] /\ s[i] \in Letter /\ s[i] # 0
<1>1. Len(s) \in Nat /\ \A i \in 1..Len(s) : s[i] \in Letter
  BY LenProperties DEF Text
<1>2. Len(s) + 1 \in 1..Len(s) + 1 /\ ~ (Len(s) + 1 <= Len(s)) /\ Len(s) + 1 \in Nat
  BY <1>1
<1>3. DOMAIN Block(s) = 1..Len(s) + 1 /\ Block(s)[Len(s) + 1] = 0
  BY <1>2 DEF Block
<1>4. \A i \in 1..Len(s) : Block(s)[i] = s[i]
  BY <1>1 DEF Block
<1>5. \A i \in 1..Len(s) : s[i] # 0
  BY <1>1, CharFacts
<1>6. Len(Block(s)) = Len(s) + 1
  BY <1>2 DEF Block
<1> QED
  BY <1>1, <1>3, <1>4, <1>5, <1>6

LEMMA BlockLen ==
  ASSUME NEW s \in Text PROVE Terminated(Block(s)) /\ strlen(Block(s)) = Len(s)
<1> DEFINE P(i) == Block(s)[i] = 0 /\ \A j \in 1..i - 1 : Block(s)[j] # 0
<1>1. Len(s) + 1 \in DOMAIN Block(s) /\ P(Len(s) + 1)
  BY BlockFacts
<1>2. ASSUME NEW i \in DOMAIN Block(s), P(i) PROVE i = Len(s) + 1
  <2>1. i \in 1..Len(s) + 1 /\ Len(s) \in Nat
    BY BlockFacts
  <2>2. i \notin 1..Len(s)
    BY <1>2, BlockFacts
  <2> QED
    BY <2>1, <2>2
<1>3. (CHOOSE i \in DOMAIN Block(s) : P(i)) = Len(s) + 1
  BY <1>1, <1>2
<1>4. Terminated(Block(s))
  BY <1>1 DEF Terminated
<1>5. (Len(s) + 1) - 1 = Len(s)
  BY BlockFacts
<1> QED
  BY <1>3, <1>4, <1>5 DEF strlen

\* Two blocks, or two texts, are equal if they agree everywhere.
LEMMA SameText ==
  ASSUME NEW s \in Text, NEW t \in Text, Len(s) = Len(t), \A i \in 1..Len(s) : s[i] = t[i]
  PROVE  s = t
BY SeqEqual DEF Text

LEMMA PieceText ==
  ASSUME NEW s \in Text, NEW m \in Nat, NEW n \in Nat, m <= n, n <= Len(s)
  PROVE  /\ SubSeq(s, m + 1, n) \in Text /\ Len(SubSeq(s, m + 1, n)) = n - m
         /\ \A i \in 1..n - m : SubSeq(s, m + 1, n)[i] = s[m + i]
<1>1. Len(s) \in Nat /\ \A i \in 1..Len(s) : s[i] \in Letter
  BY LenProperties DEF Text
<1>2. \A i \in (m + 1)..n : s[i] \in Letter
  BY <1>1
<1>3. /\ SubSeq(s, m + 1, n) \in Seq(Letter)
      /\ Len(SubSeq(s, m + 1, n)) = IF m + 1 <= n THEN n - (m + 1) + 1 ELSE 0
      /\ \A i \in 1..n - (m + 1) + 1 : SubSeq(s, m + 1, n)[i] = s[(m + 1) + i - 1]
  BY <1>2, SubSeqProperties
<1>4. \A i \in 1..n - m : i \in 1..n - (m + 1) + 1 /\ (m + 1) + i - 1 = m + i
  OBVIOUS
<1> QED
  BY <1>3, <1>4 DEF Text

LEMMA BlockChars == ASSUME NEW s \in Text PROVE Chars(Block(s)) = s
<1>1. strlen(Block(s)) = Len(s)
  BY BlockLen
<1>2. Len(s) \in Nat /\ Block(s) = [i \in 1..Len(s) + 1 |-> IF i <= Len(s) THEN s[i] ELSE 0]
  BY BlockFacts DEF Block
<1>3. SubSeq(Block(s), 1, Len(s)) = [i \in 1..Len(s) |-> Block(s)[i]]
  <2>1. \A i \in 1..Len(s) : Block(s)[i] \in Letter
    BY BlockFacts
  <2>2. /\ SubSeq(Block(s), 1, Len(s)) \in Seq(Letter)
        /\ Len(SubSeq(Block(s), 1, Len(s))) = IF 1 <= Len(s) THEN Len(s) - 1 + 1 ELSE 0
        /\ \A i \in 1..Len(s) - 1 + 1 : SubSeq(Block(s), 1, Len(s))[i] = Block(s)[1 + i - 1]
    BY <1>2, <2>1, SubSeqProperties
  <2> QED
    BY <1>2, <2>2
<1>4. [i \in 1..Len(s) |-> Block(s)[i]] = [i \in 1..Len(s) |-> s[i]]
  BY BlockFacts
<1>5. [i \in 1..Len(s) |-> s[i]] = s
  BY LenProperties DEF Text
<1> QED
  BY <1>1, <1>3, <1>4, <1>5 DEF Chars

\* memcpy of a text into fresh memory of the right size.
LEMMA FreshBlock ==
  ASSUME NEW s \in Text PROVE memcpy(Zeros(Len(s) + 1), 0, s) = Block(s)
<1>1. Len(s) \in Nat /\ DOMAIN Zeros(Len(s) + 1) = 1..Len(s) + 1
  BY LenNat DEF Zeros
<1>2. \A i \in 1..Len(s) + 1 : (0 < i /\ i <= 0 + Len(s) <=> i <= Len(s)) /\ i - 0 = i
                               /\ Zeros(Len(s) + 1)[i] = 0
  BY <1>1 DEF Zeros
<1> QED
  BY <1>1, <1>2 DEF memcpy, Block

\* Two texts are copied one behind the other.
LEMMA TwoCopies ==
  ASSUME NEW s \in Text, NEW t \in Text
  PROVE  /\ memcpy(memcpy(Zeros(Len(s) + Len(t) + 1), 0, s), Len(s), t) = Block(s \o t)
         /\ s \o t \in Text
<1> DEFINE m == Len(s)
           n == Len(t)
           z == Zeros(m + n + 1)
           y == memcpy(z, 0, s)
<1>1. /\ s \o t \in Text /\ Len(s \o t) = m + n
      /\ \A i \in 1..m + n : (s \o t)[i] = IF i <= m THEN s[i] ELSE t[i - m]
  BY ConcatProperties DEF Text
<1>2. m \in Nat /\ n \in Nat
  BY LenNat
<1>3. DOMAIN z = 1..m + n + 1 /\ \A i \in 1..m + n + 1 : z[i] = 0
  BY DEF Zeros
<1> HIDE DEF m, n, z
<1>4. /\ DOMAIN y = 1..m + n + 1
      /\ \A i \in 1..m + n + 1 : y[i] = IF i <= m THEN s[i] ELSE 0
  <2>1. \A i \in 1..m + n + 1 : (0 < i /\ i <= 0 + m <=> i <= m) /\ i - 0 = i
    BY <1>2
  <2> QED
    BY <1>3, <2>1 DEF memcpy, m
<1> HIDE DEF y
<1>5. memcpy(y, m, t) = [i \in 1..m + n + 1 |-> IF m < i /\ i <= m + n THEN t[i - m] ELSE y[i]]
  BY <1>4 DEF memcpy, n
<1>6. Block(s \o t) = [i \in 1..m + n + 1 |-> IF i <= m + n THEN (s \o t)[i] ELSE 0]
  BY <1>1 DEF Block
<1>7. ASSUME NEW i \in 1..m + n + 1
      PROVE  (IF m < i /\ i <= m + n THEN t[i - m] ELSE y[i])
             = (IF i <= m + n THEN (s \o t)[i] ELSE 0)
  <2>1. CASE i <= m
    BY <1>1, <1>2, <1>4, <2>1
  <2>2. CASE m < i /\ i <= m + n
    <3>1. i \in 1..m + n /\ ~ (i <= m)
      BY <1>2, <2>2
    <3>2. (s \o t)[i] = t[i - m]
      BY <1>1, <3>1
    <3> QED
      BY <2>2, <3>2
  <2>3. CASE m + n < i
    BY <1>2, <1>4, <2>3
  <2>4. i <= m \/ (m < i /\ i <= m + n) \/ m + n < i
    BY <1>2
  <2> QED
    BY <2>1, <2>2, <2>3, <2>4, Zenon
<1>8. memcpy(y, m, t) = Block(s \o t)
  BY <1>5, <1>6, <1>7, Zenon
<1> QED
  BY <1>1, <1>8 DEF y, z, m, n

\* A piece of the block without its 0 is a piece of the text.
LEMMA PieceOfBlock ==
  ASSUME NEW s \in Text, NEW m \in Nat, NEW n \in Nat, m <= n, n <= Len(s)
  PROVE  SubSeq(Block(s), m + 1, n) = SubSeq(s, m + 1, n)
<1>1. \A i \in (m + 1)..n : Block(s)[i] = s[i] /\ s[i] \in Letter
  BY BlockFacts
<1>2. /\ SubSeq(Block(s), m + 1, n) \in Seq(Letter)
      /\ Len(SubSeq(Block(s), m + 1, n)) = IF m + 1 <= n THEN n - (m + 1) + 1 ELSE 0
      /\ \A i \in 1..n - (m + 1) + 1 : SubSeq(Block(s), m + 1, n)[i] = Block(s)[(m + 1) + i - 1]
  BY <1>1, SubSeqProperties
<1>3. /\ SubSeq(s, m + 1, n) \in Text /\ Len(SubSeq(s, m + 1, n)) = n - m
      /\ \A i \in 1..n - m : SubSeq(s, m + 1, n)[i] = s[m + i]
  BY PieceText
<1>4. ASSUME NEW i \in 1..n - m PROVE SubSeq(Block(s), m + 1, n)[i] = SubSeq(s, m + 1, n)[i]
  <2>1. i \in 1..n - (m + 1) + 1 /\ (m + 1) + i - 1 = m + i /\ m + i \in (m + 1)..n
    OBVIOUS
  <2> QED
    BY <1>1, <1>2, <1>3, <2>1
<1>5. Len(SubSeq(Block(s), m + 1, n)) = n - m
  BY <1>2
<1> QED
  BY <1>2, <1>3, <1>4, <1>5, SameText DEF Text

\* The rest of a block is the block of the rest.
LEMMA RestOfBlock ==
  ASSUME NEW s \in Text, NEW m \in Nat, m <= Len(s)
  PROVE  SubSeq(Block(s), m + 1, Len(Block(s))) = Block(SubSeq(s, m + 1, Len(s)))
<1> DEFINE n == Len(s)
           r == SubSeq(s, m + 1, n)
           b == SubSeq(Block(s), m + 1, n + 1)
<1>1. n \in Nat /\ Len(Block(s)) = n + 1 /\ DOMAIN Block(s) = 1..n + 1
      /\ Block(s)[n + 1] = 0 /\ \A i \in 1..n : Block(s)[i] = s[i] /\ s[i] \in Letter
  BY BlockFacts
<1>2. r \in Text /\ Len(r) = n - m /\ \A i \in 1..n - m : r[i] = s[m + i]
  BY <1>1, PieceText
<1>3. \A i \in (m + 1)..(n + 1) : Block(s)[i] \in Letter \cup {0}
  <2> HIDE DEF n
  <2> SUFFICES ASSUME NEW i \in (m + 1)..(n + 1) PROVE Block(s)[i] \in Letter \cup {0}
    OBVIOUS
  <2>1. i = n + 1 \/ i \in 1..n
    BY <1>1
  <2> QED
    BY <1>1, <2>1
<1>4. /\ b \in Seq(Letter \cup {0})
      /\ Len(b) = IF m + 1 <= n + 1 THEN (n + 1) - (m + 1) + 1 ELSE 0
      /\ \A i \in 1..(n + 1) - (m + 1) + 1 : b[i] = Block(s)[(m + 1) + i - 1]
  BY <1>1, <1>3, SubSeqProperties
<1> HIDE DEF r, b, n
<1>5. Len(b) = n - m + 1 /\ \A i \in 1..n - m + 1 : b[i] = Block(s)[m + i]
  <2>1. m <= n
    BY DEF n
  <2>2. \A i \in 1..n - m + 1 : i \in 1..(n + 1) - (m + 1) + 1 /\ (m + 1) + i - 1 = m + i
    BY <1>1
  <2> QED
    BY <1>1, <1>4, <2>1, <2>2
<1>6. b = [i \in 1..n - m + 1 |-> b[i]]
  BY <1>4, <1>5, LenProperties
<1>7. ASSUME NEW i \in 1..n - m + 1 PROVE b[i] = IF i <= n - m THEN r[i] ELSE 0
  <2>1. CASE i <= n - m
    <3>1. i \in 1..n - m /\ m + i \in 1..n
      BY <1>1, <2>1 DEF n
    <3> QED
      BY <1>1, <1>2, <1>5, <3>1, <2>1
  <2>2. CASE ~ (i <= n - m)
    <3>1. m + i = n + 1
      BY <1>1, <2>2 DEF n
    <3> QED
      BY <1>1, <1>5, <2>2, <3>1
  <2> QED
    BY <2>1, <2>2
<1>8. b = Block(r)
  BY <1>2, <1>6, <1>7, Zenon DEF Block
<1> QED
  BY <1>1, <1>8 DEF b, r, n

-----------------------------------------------------------------------------
(* The operations on strings, whose lengths are ints. *)
Exact(s) == int(Len(s)) = Len(s)

LEMMA Lengths ==
  ASSUME NEW s \in Text, Exact(s)
  PROVE  intlen(Block(s)) = Len(s) /\ Counted(Block(s)) = s /\ Len(s) \in Nat
<1>1. strlen(Block(s)) = Len(s) /\ Chars(Block(s)) = s /\ Len(s) \in Nat
  BY BlockLen, BlockChars, LenNat
<1>2. intlen(Block(s)) = Len(s)
  BY <1>1 DEF intlen, Exact
<1> QED
  BY <1>1, <1>2 DEF Counted, Chars

LEMMA TailBlock ==
  ASSUME NEW s \in Text, Exact(s), s # <<>>
  PROVE  tail(Block(s)) = Block(Tail(s)) /\ Tail(s) \in Text
<1>1. Len(s) \in Nat /\ Len(s) # 0 /\ intlen(Block(s)) = Len(s)
  BY Lengths, EmptySeq DEF Text
<1>2. Tail(s) = SubSeq(s, 2, Len(s))
  BY TailIsSubSeq DEF Text
<1> DEFINE m == 1
<1>3. m \in Nat /\ m + 1 = 2 /\ m <= Len(s) /\ Len(s) <= Len(s) /\ Len(s) - m + 1 = Len(s)
  BY <1>1
<1> HIDE DEF m
<1>4. SubSeq(s, 2, Len(s)) \in Text /\ Len(SubSeq(s, 2, Len(s))) = Len(s) - m
  <2>1. SubSeq(s, m + 1, Len(s)) \in Text /\ Len(SubSeq(s, m + 1, Len(s))) = Len(s) - m
    BY <1>1, <1>3, PieceText
  <2> QED
    BY <1>3, <2>1, Zenon
<1>5. SubSeq(Block(s), 2, Len(s)) = SubSeq(s, 2, Len(s))
  <2>1. SubSeq(Block(s), m + 1, Len(s)) = SubSeq(s, m + 1, Len(s))
    BY <1>1, <1>3, PieceOfBlock
  <2> QED
    BY <1>3, <2>1, Zenon
<1>6. memcpy(Zeros(Len(s)), 0, Tail(s)) = Block(Tail(s))
  BY <1>2, <1>3, <1>4, FreshBlock
<1> QED
  BY <1>1, <1>2, <1>4, <1>5, <1>6 DEF tail

LEMMA ReverseBlock ==
  ASSUME NEW s \in Text, Exact(s)
  PROVE  reverse(Block(s)) = Block(Reverse(s)) /\ Reverse(s) \in Text
<1> DEFINE n == Len(s)
           r == [i \in 1..n |-> Block(s)[n + 1 - i]]
<1>1. /\ n \in Nat /\ intlen(Block(s)) = n
      /\ \A i \in 1..n : Block(s)[i] = s[i] /\ s[i] \in Letter
  BY Lengths, BlockFacts
<1>2. \A i \in 1..n : n + 1 - i \in 1..n /\ n + 1 - i = (n - i) + 1
  BY <1>1
<1>3. r = Reverse(s)
  BY <1>1, <1>2 DEF Reverse
<1>4. r \in Seq(Letter) /\ Len(r) = n
  <2>1. r \in [1..n -> Letter]
    BY <1>1, <1>2
  <2> QED
    BY <1>1, <2>1, IsASeq, LenProperties
<1>5. memcpy(Zeros(n + 1), 0, r) = Block(r)
  BY <1>4, FreshBlock DEF Text
<1>6. reverse(Block(s)) = memcpy(Zeros(n + 1), 0, r)
  BY <1>1 DEF reverse
<1> QED
  BY <1>3, <1>4, <1>5, <1>6 DEF Text

LEMMA ConsBlock ==
  ASSUME NEW s \in Text, Exact(s), NEW c \in Letter
  PROVE  strCons(c, Block(s)) = Block(<<c>> \o s) /\ <<c>> \o s \in Text
<1>1. <<c>> \in Text /\ Len(<<c>>) = 1
  BY DEF Text
<1>2. intlen(Block(s)) = Len(s) /\ Counted(Block(s)) = s /\ Len(s) \in Nat /\ Byte(c) = c
  BY Lengths, CharFacts
<1>3. Len(<<c>>) + Len(s) + 1 = Len(s) + 2
  BY <1>1, <1>2
<1> QED
  BY <1>1, <1>2, <1>3, TwoCopies DEF strCons, idris2_mkEmptyString

LEMMA AppendBlock ==
  ASSUME NEW s \in Text, NEW t \in Text, Exact(s), Exact(t)
  PROVE  strAppend(Block(s), Block(t)) = Block(s \o t) /\ s \o t \in Text
<1>1. intlen(Block(s)) = Len(s) /\ Counted(Block(s)) = s
  BY Lengths
<1>2. intlen(Block(t)) = Len(t) /\ Counted(Block(t)) = t
  BY Lengths
<1> QED
  BY <1>1, <1>2, TwoCopies DEF strAppend, idris2_mkEmptyString

LEMMA PackBlock ==
  ASSUME NEW s \in Text, Exact(s)
  PROVE  /\ fastPack(fastUnpack(Block(s))) = Block(s)
         /\ idris2_mkString(Block(s)) = Block(s)
         /\ memcpy(Zeros(Len(s) + 1), 0, SubSeq(Block(s), 1, Len(s) + 1)) = Block(s)
<1>1. Chars(Block(s)) = s /\ intlen(Block(s)) = Len(s) /\ Counted(Block(s)) = s /\ Len(s) \in Nat
  BY BlockChars, Lengths
<1>2. fastPack(s) = memcpy(Zeros(Len(s) + 1), 0, s)
  <2>1. DOMAIN s = 1..Len(s) /\ \A i \in 1..Len(s) : s[i] \in Letter
    BY LenProperties DEF Text
  <2>2. [i \in DOMAIN s |-> Byte(s[i])] = [i \in 1..Len(s) |-> s[i]]
    BY <2>1, CharFacts
  <2>3. [i \in 1..Len(s) |-> s[i]] = s
    BY LenProperties DEF Text
  <2> QED
    BY <2>2, <2>3 DEF fastPack, Exact
<1>3. memcpy(Zeros(Len(s) + 1), 0, SubSeq(Block(s), 1, Len(s) + 1)) = Block(s)
  <2> DEFINE n == Len(s) + 1
             b == SubSeq(Block(s), 1, n)
  <2>1. n \in Nat /\ n >= 1 /\ DOMAIN Block(s) = 1..n /\ Len(Block(s)) = n
        /\ \A i \in 1..n : Block(s)[i] \in Letter \cup {0}
    BY <1>1, BlockFacts
  <2>2. b \in Seq(Letter \cup {0}) /\ Len(b) = n /\ \A i \in 1..n : b[i] = Block(s)[i]
    <3>1. /\ b \in Seq(Letter \cup {0}) /\ Len(b) = IF 1 <= n THEN n - 1 + 1 ELSE 0
          /\ \A i \in 1..n - 1 + 1 : b[i] = Block(s)[1 + i - 1]
      BY <2>1, SubSeqProperties
    <3> QED
      BY <2>1, <3>1
  <2> HIDE DEF b, n
  <2>3. memcpy(Zeros(n), 0, b) = [i \in 1..n |-> Block(s)[i]]
    BY <2>1, <2>2 DEF memcpy, Zeros
  <2>4. Block(s) = [i \in 1..n |-> Block(s)[i]]
    BY DEF Block, n
  <2> QED
    BY <2>3, <2>4 DEF b, n
<1> QED
  BY <1>1, <1>2, <1>3, FreshBlock DEF fastUnpack, idris2_mkString

\* FlattenSeq of three sequences.
LEMMA FlattenThree ==
  ASSUME NEW l, NEW s \in Text, NEW t \in Text, NEW u \in Text, l = <<s, t, u>>
  PROVE  FlattenSeq(l) = s \o t \o u
<1> DEFINE Flat(f) == f = [i \in 1..Len(l) |-> IF i = 1 THEN l[i] ELSE f[i - 1] \o l[i]]
           h == CHOOSE f : Flat(f)
           g == [i \in 1..3 |-> IF i = 1 THEN s ELSE IF i = 2 THEN s \o t ELSE (s \o t) \o u]
<1>1. Len(l) = 3 /\ Len(l) # 0 /\ l[1] = s /\ l[2] = t /\ l[3] = u
  OBVIOUS
<1>2. FlattenSeq(l) = h[Len(l)]
  BY <1>1, Zenon DEF FlattenSeq
<1>3. Flat(g)
  BY <1>1
<1>4. Flat(h)
  BY <1>3, Zenon
<1> HIDE DEF h
<1>5. \A i \in 1..3 : h[i] = IF i = 1 THEN l[i] ELSE h[i - 1] \o l[i]
  BY <1>1, <1>4, Zenon
<1>6. h[1] = s
  BY <1>1, <1>5
<1>a. 2 \in 1..3 /\ 3 \in 1..3 /\ 2 # 1 /\ 3 # 1 /\ 2 - 1 = 1 /\ 3 - 1 = 2
  OBVIOUS
<1>7. h[2] = s \o t
  <2>1. h[2] = h[2 - 1] \o l[2]
    BY <1>a, <1>5, Zenon
  <2> QED
    BY <1>1, <1>6, <1>a, <2>1, Zenon
<1>8. h[3] = (s \o t) \o u
  <2>1. h[3] = h[3 - 1] \o l[3]
    BY <1>a, <1>5, Zenon
  <2> QED
    BY <1>1, <1>7, <1>a, <2>1, Zenon
<1> QED
  BY <1>1, <1>2, <1>8, Zenon

LEMMA ConcatBlock ==
  ASSUME NEW s \in Text, NEW t \in Text, NEW u \in Text, Exact(s \o t \o u)
  PROVE  /\ Joined(<<Block(s), Block(t), Block(u)>>) = s \o t \o u
         /\ fastConcat(<<Block(s), Block(t), Block(u)>>) = Block(s \o t \o u)
         /\ s \o t \o u \in Text
<1> DEFINE bs == <<Block(s), Block(t), Block(u)>>
           l == [i \in DOMAIN bs |-> Chars(bs[i])]
<1>1. l = <<s, t, u>>
  <2>1. Chars(Block(s)) = s /\ Chars(Block(t)) = t /\ Chars(Block(u)) = u
    BY BlockChars
  <2>2. DOMAIN bs = 1..3 /\ bs[1] = Block(s) /\ bs[2] = Block(t) /\ bs[3] = Block(u)
    OBVIOUS
  <2>3. l = [i \in 1..3 |-> Chars(bs[i])]
    BY <2>2
  <2>4. Chars(bs[1]) = s /\ Chars(bs[2]) = t /\ Chars(bs[3]) = u
    BY <2>1, <2>2
  <2> HIDE DEF bs
  <2> QED
    BY <2>3, <2>4
<1>2. s \o t \o u \in Text
  BY ConcatProperties DEF Text
<1>3. Joined(bs) = FlattenSeq(l)
  BY DEF Joined
<1> HIDE DEF l, bs
<1>4. FlattenSeq(l) = s \o t \o u
  BY <1>1, FlattenThree, Zenon
<1>5. fastConcat(bs) = memcpy(Zeros(Len(s \o t \o u) + 1), 0, s \o t \o u)
  BY <1>3, <1>4 DEF fastConcat, Exact
<1> QED
  BY <1>2, <1>3, <1>4, <1>5, FreshBlock DEF bs

\* A start and a length that int can hold select what the Prelude documents,
\* and never a negative length.
LEMMA SubstrBlock ==
  ASSUME NEW s \in Text, NEW start \in Int, NEW len \in Int, start >= 0, len >= 0,
         int(start) = start, int(len) = len, start < Len(s), \A i \in 0..Len(s) : int(i) = i
  PROVE  /\ Taken(Block(s), start, len) \in 0..Len(s)
         /\ strSubstr(Block(s), start, len) = Block(Substr(s, start, len))
         /\ Substr(s, start, len) \in Text
<1> DEFINE n == Len(s)
           e == IF start + len > n THEN n ELSE start + len
           k == IF n - start < len THEN n - start ELSE len
<1>1. n \in Nat /\ strlen(Block(s)) = n /\ start \in Nat
  BY BlockLen, LenNat
<1>2. Taken(Block(s), start, len) = k
  <2>1. int(n - start) = n - start
    BY <1>1
  <2> QED
    BY <1>1, <2>1 DEF Taken
<1>3. Substr(s, start, len) = SubSeq(s, start + 1, e)
  BY <1>1 DEF Substr
<1>4. k \in Nat /\ e \in Nat /\ e = start + k /\ start <= e /\ e <= n /\ e - start = k
  BY <1>1
<1> HIDE DEF n, e, k
<1>5. SubSeq(s, start + 1, e) \in Text /\ Len(SubSeq(s, start + 1, e)) = k
  <2>1. SubSeq(s, start + 1, e) \in Text /\ Len(SubSeq(s, start + 1, e)) = e - start
    BY <1>4, PieceText DEF n
  <2> QED
    BY <1>4, <2>1
<1>6. SubSeq(Block(s), start + 1, e) = SubSeq(s, start + 1, e)
  BY <1>1, <1>4, PieceOfBlock DEF n
<1>7. strSubstr(Block(s), start, len)
        = memcpy(Zeros(k + 1), 0, SubSeq(Block(s), start + 1, start + k))
  BY <1>2 DEF strSubstr, idris2_mkEmptyString
<1>8. memcpy(Zeros(k + 1), 0, SubSeq(s, start + 1, e)) = Block(SubSeq(s, start + 1, e))
  BY <1>5, FreshBlock
<1>9. k \in 0..n
  BY <1>1, <1>4
<1> QED
  BY <1>2, <1>3, <1>4, <1>5, <1>6, <1>7, <1>8, <1>9, Zenon DEF n

-----------------------------------------------------------------------------
(***************************************************************************)
(* The invariant of the strings.  The iterator keeps a block of its own,   *)
(* and its position is the number of characters that it has given out.     *)
(***************************************************************************)
BlocksHold == /\ DOMAIN str = Reg /\ DOMAIN idr = Reg
              /\ \A r \in Reg : /\ idr[r] \in Text /\ Len(idr[r]) <= MaxLen
                                 /\ str[r] = Block(idr[r])
IteratorHolds ==
    /\ it = [block |-> Block(it.idr), pos |-> Len(seen), idr |-> it.idr]
    /\ it.idr \in Text /\ Len(it.idr) <= MaxLen
    /\ seen \in Text /\ Len(seen) <= Len(it.idr)
    /\ SubSeq(it.idr, 1, Len(seen)) = seen
StringInv == BlocksHold /\ IteratorHolds /\ (use = "string" => state = "ok")

LEMMA EmptyText == <<>> \in Text /\ Block(<<>>) = <<0>> /\ SubSeq(<<>>, 1, 0) = <<>>
<1>1. <<>> \in Text /\ Len(<<>>) = 0
  BY DEF Text
<1>2. Block(<<>>) = [i \in 1..1 |-> 0]
  BY <1>1 DEF Block
<1> QED
  BY <1>1, <1>2

LEMMA StringInit == Init => StringInv
<1> SUFFICES ASSUME Init PROVE StringInv
  OBVIOUS
<1>1. BlocksHold
  <2>1. Len(<<>>) <= MaxLen
    BY TextAssumption
  <2> QED
    BY <2>1, EmptyText DEF Init, BlocksHold
<1>2. IteratorHolds
  <2>1. Len(<<>>) = 0 /\ 0 <= 0 /\ 0 <= MaxLen
    BY TextAssumption
  <2> QED
    BY <2>1, EmptyText, Zenon DEF Init, IteratorHolds
<1> QED
  BY <1>1, <1>2 DEF Init, StringInv

LEMMA Fits1 ==
  ASSUME Short, NEW n \in Nat, n <= MaxLen + 1 PROVE int(n) = n
BY TextAssumption DEF Short

LEMMA ShortExact ==
  ASSUME Short, NEW s \in Text, Len(s) <= MaxLen
  PROVE  Exact(s) /\ Len(s) \in Nat /\ \A i \in 0..Len(s) + 1 : int(i) = i
<1>1. Len(s) \in Nat /\ MaxLen \in Nat
  BY LenNat, TextAssumption
<1> QED
  BY <1>1 DEF Short, Exact

\* What the registers and their lengths are.
LEMMA RegFacts ==
  ASSUME Short, StringInv, NEW r \in Reg
  PROVE  /\ idr[r] \in Text /\ Len(idr[r]) <= MaxLen /\ Len(idr[r]) \in Nat
         /\ str[r] = Block(idr[r]) /\ Exact(idr[r])
         /\ intlen(str[r]) = Len(idr[r]) /\ strlen(str[r]) = Len(idr[r])
         /\ \A i \in 0..Len(idr[r]) + 1 : int(i) = i
<1>1. idr[r] \in Text /\ Len(idr[r]) <= MaxLen /\ str[r] = Block(idr[r])
  BY DEF StringInv, BlocksHold
<1>2. Exact(idr[r]) /\ Len(idr[r]) \in Nat /\ \A i \in 0..Len(idr[r]) + 1 : int(i) = i
  BY <1>1, ShortExact
<1> QED
  BY <1>1, <1>2, Lengths, BlockLen

LEMMA SetKeeps ==
  ASSUME StringInv, NEW r \in Reg, NEW b, NEW s \in Text, NEW lens, b = Block(s),
         \A l \in lens : l \in Nat, Set(r, b, s, lens)
  PROVE  StringInv'
<1>0. ~ \E l \in lens : l < 0
  OBVIOUS
<1>1. BlocksHold'
  BY <1>0 DEF StringInv, BlocksHold, Set
<1>2. IteratorHolds'
  BY <1>0 DEF StringInv, IteratorHolds, Set
<1> QED
  BY <1>0, <1>1, <1>2 DEF StringInv, Set

\* The sizes of the blocks that tail and reverse ask for are ints.
LEMMA TailKeeps ==
  ASSUME Short, StringInv, NEW r \in Reg, strTail(r) PROVE StringInv'
<1>1. tail(str[r]) = Block(Tail(idr[r])) /\ Tail(idr[r]) \in Text
  BY RegFacts, TailBlock DEF strTail
<1>2. \A l \in {intlen(str[r])} : l \in Nat
  BY RegFacts
<1> QED
  BY <1>1, <1>2, SetKeeps DEF strTail

LEMMA ReverseKeeps ==
  ASSUME Short, StringInv, NEW r \in Reg, strReverse(r) PROVE StringInv'
<1>1. reverse(str[r]) = Block(Reverse(idr[r])) /\ Reverse(idr[r]) \in Text
  BY RegFacts, ReverseBlock
<1>2. \A l \in {int(intlen(str[r]) + 1)} : l \in Nat
  BY RegFacts
<1> QED
  BY <1>1, <1>2, SetKeeps DEF strReverse

LEMMA ConsKeeps ==
  ASSUME Short, OneByte, StringInv, NEW r \in Reg, NEW c \in Char, cons(r, c) PROVE StringInv'
<1>0. c \in Letter
  BY DEF OneByte, Letter
<1>1. strCons(c, str[r]) = Block(<<c>> \o idr[r]) /\ <<c>> \o idr[r] \in Text
  BY <1>0, RegFacts, ConsBlock
<1>2. Set(r, strCons(c, str[r]), <<c>> \o idr[r], {intlen(str[r]), int(intlen(str[r]) + 2)})
  BY DEF cons
<1>3. Len(<<c>> \o idr[r]) = Len(idr[r]) + 1 /\ Len(<<c>> \o idr[r]) <= MaxLen
  <2>1. <<c>> \in Text /\ Len(<<c>>) = 1
    BY <1>0 DEF Text
  <2> QED
    BY <1>2, <2>1, RegFacts, ConcatProperties DEF Text, Set
<1>4. int(intlen(str[r]) + 2) = intlen(str[r]) + 2
  BY <1>3, RegFacts, Fits1, TextAssumption
<1>5. \A l \in {intlen(str[r]), int(intlen(str[r]) + 2)} : l \in Nat
  BY <1>4, RegFacts
<1> QED
  BY <1>1, <1>2, <1>5, SetKeeps

LEMMA AppendKeeps ==
  ASSUME Short, StringInv, NEW r \in Reg, NEW q \in Reg, append(r, q) PROVE StringInv'
<1> DEFINE m == intlen(str[r])
           n == intlen(str[q])
<1>1. strAppend(str[r], str[q]) = Block(idr[r] \o idr[q]) /\ idr[r] \o idr[q] \in Text
  BY RegFacts, AppendBlock
<1>2. Set(r, strAppend(str[r], str[q]), idr[r] \o idr[q], {m, n, int(m + n + 1)})
  BY DEF append
<1>3. Len(idr[r] \o idr[q]) = m + n /\ Len(idr[r] \o idr[q]) <= MaxLen /\ m \in Nat /\ n \in Nat
  <2>1. Len(idr[r] \o idr[q]) <= MaxLen
    BY <1>2 DEF Set
  <2>2. idr[r] \in Text /\ idr[q] \in Text /\ m = Len(idr[r]) /\ n = Len(idr[q])
        /\ m \in Nat /\ n \in Nat
    BY RegFacts
  <2>3. Len(idr[r] \o idr[q]) = Len(idr[r]) + Len(idr[q])
    BY <2>2, ConcatProperties DEF Text
  <2> QED
    BY <2>1, <2>2, <2>3, Zenon
<1> HIDE DEF m, n
<1>4. int(m + n + 1) = m + n + 1
  BY <1>3, Fits1, TextAssumption
<1>5. \A l \in {m, n, int(m + n + 1)} : l \in Nat
  BY <1>3, <1>4
<1> QED
  BY <1>1, <1>2, <1>5, SetKeeps

LEMMA PackKeeps ==
  ASSUME Short, StringInv, NEW r \in Reg, NEW q \in Reg, pack(r, q) PROVE StringInv'
<1>1. fastPack(fastUnpack(str[q])) = Block(idr[q]) /\ idr[q] \in Text
  BY RegFacts, PackBlock
<1>2. \A l \in {int(i) : i \in 0..strlen(str[q]) + 1} : l \in Nat
  BY RegFacts
<1> QED
  BY <1>1, <1>2, SetKeeps DEF pack

LEMMA ConcatKeeps ==
  ASSUME Short, StringInv, NEW r \in Reg, NEW q \in Reg, concat(r, q) PROVE StringInv'
<1> DEFINE s == idr[q] \o idr[r] \o idr[q]
           bs == <<str[q], str[r], str[q]>>
           lens == {intlen(str[r]), intlen(str[q]), int(int(Len(Joined(bs))) + 1)}
<1>1. Set(r, fastConcat(bs), s, lens)
  BY DEF concat
<1>2. s \in Text
  BY RegFacts, ConcatProperties DEF Text
<1>3. Len(s) <= MaxLen
  BY <1>1 DEF Set
<1>4. Exact(s) /\ Len(s) \in Nat /\ int(Len(s) + 1) = Len(s) + 1
  <2> HIDE DEF s
  <2> QED
    BY <1>2, <1>3, ShortExact
<1>5. Joined(bs) = s /\ fastConcat(bs) = Block(s)
  <2>1. idr[r] \in Text /\ idr[q] \in Text /\ str[r] = Block(idr[r]) /\ str[q] = Block(idr[q])
    BY RegFacts
  <2>2. /\ Joined(<<Block(idr[q]), Block(idr[r]), Block(idr[q])>>) = s
        /\ fastConcat(<<Block(idr[q]), Block(idr[r]), Block(idr[q])>>) = Block(s)
    BY <1>4, <2>1, ConcatBlock, Zenon
  <2> QED
    BY <2>1, <2>2, Zenon
<1>6. \A l \in lens : l \in Nat
  <2>1. int(int(Len(Joined(bs))) + 1) \in Nat
    <3> HIDE DEF s, bs
    <3> QED
      BY <1>4, <1>5 DEF Exact
  <2>2. intlen(str[r]) \in Nat /\ intlen(str[q]) \in Nat
    BY RegFacts
  <2> HIDE DEF bs
  <2> QED
    BY <2>1, <2>2
<1> HIDE DEF s, bs, lens
<1> QED
  BY <1>1, <1>2, <1>5, <1>6, SetKeeps

LEMMA SubstrKeeps ==
  ASSUME Narrow, Short, StringInv, NEW r \in Reg, NEW start \in Args, NEW len \in Args,
         substr(r, start, len)
  PROVE  StringInv'
<1> DEFINE l == Taken(str[r], start, len)
<1>1. /\ start \in Int /\ len \in Int /\ start >= 0 /\ len >= 0
      /\ int(start) = start /\ int(len) = len
  BY TextAssumption DEF Narrow, substr
<1>2. /\ idr[r] \in Text /\ str[r] = Block(idr[r]) /\ Len(idr[r]) \in Nat
      /\ \A i \in 0..Len(idr[r]) + 1 : int(i) = i
  BY RegFacts
<1>3. CASE start >= Len(idr[r])
  <2>1. Set(r, <<0>>, <<>>, {})
    BY <1>3 DEF substr
  <2>2. \A k \in {} : k \in Nat
    OBVIOUS
  <2> QED
    BY <2>1, <2>2, EmptyText, SetKeeps
<1>4. CASE ~ (start >= Len(idr[r]))
  <2>1. start < Len(idr[r]) /\ \A i \in 0..Len(idr[r]) : int(i) = i
    BY <1>1, <1>2, <1>4
  <2>2. /\ l \in 0..Len(idr[r])
        /\ strSubstr(str[r], start, len) = Block(Substr(idr[r], start, len))
        /\ Substr(idr[r], start, len) \in Text
    BY <1>1, <1>2, <2>1, SubstrBlock
  <2>3. Set(r, strSubstr(str[r], start, len), Substr(idr[r], start, len), {l, int(l + 1)})
    BY <1>4, Zenon DEF substr
  <2> HIDE DEF l
  <2>4. l \in Nat /\ int(l + 1) = l + 1
    BY <1>2, <2>2
  <2>5. \A k \in {l, int(l + 1)} : k \in Nat
    BY <2>4
  <2> QED
    BY <2>2, <2>3, <2>5, SetKeeps
<1> QED
  BY <1>3, <1>4

LEMMA IteratorKeeps ==
  ASSUME StringInv, stringIteratorNext
  PROVE  StringInv'
<1> DEFINE s == it.idr
           n == Len(seen)
           c == s[n + 1]
<1>1. /\ s \in Text /\ seen \in Text /\ n <= Len(s) /\ SubSeq(s, 1, n) = seen
      /\ it.block = Block(s) /\ it.pos = n /\ Len(s) <= MaxLen
  BY DEF StringInv, IteratorHolds
<1>2. n \in Nat /\ Len(s) \in Nat /\ DOMAIN seen = 1..n
  BY <1>1, LenNat
<1>3. Block(s)[n + 1] # 0
  BY <1>1 DEF stringIteratorNext
<1>4. n < Len(s)
  <2>1. n # Len(s)
    BY <1>1, <1>3, BlockFacts
  <2> QED
    BY <1>1, <1>2, <2>1
<1>5. n + 1 \in 1..Len(s)
  BY <1>2, <1>4
<1>6. Block(s)[n + 1] = c /\ c \in Letter
  BY <1>1, <1>5, BlockFacts
<1>7. seen' = Append(seen, c) /\ it' = [it EXCEPT !.pos = n + 1]
  BY <1>1, <1>6 DEF stringIteratorNext, Advance
<1>8. /\ seen' \in Text /\ Len(seen') = n + 1 /\ seen'[n + 1] = c
      /\ \A i \in 1..n : seen'[i] = seen[i]
  BY <1>1, <1>2, <1>6, <1>7, AppendProperties DEF Text
<1>9. it' = [block |-> Block(s), pos |-> n + 1, idr |-> s]
  <2>1. it = [block |-> Block(s), pos |-> n, idr |-> s]
    BY Zenon DEF StringInv, IteratorHolds
  <2> HIDE DEF s, n
  <2> QED
    BY <1>7, <2>1
<1>10. SubSeq(s, 1, n + 1) = seen'
  <2> DEFINE z == 0
  <2>1. z \in Nat /\ z + 1 = 1 /\ z <= n + 1 /\ z <= n /\ (\A i \in Nat : i - z = i /\ z + i = i)
    BY <1>2
  <2> HIDE DEF z
  <2>2. /\ SubSeq(s, z + 1, n + 1) \in Text /\ Len(SubSeq(s, z + 1, n + 1)) = (n + 1) - z
        /\ \A i \in 1..(n + 1) - z : SubSeq(s, z + 1, n + 1)[i] = s[z + i]
    <3> DEFINE k == n + 1
    <3>1. k \in Nat /\ k <= Len(s) /\ z <= k
      BY <1>2, <1>4, <2>1
    <3>a. k = n + 1
      OBVIOUS
    <3> HIDE DEF k
    <3>2. /\ SubSeq(s, z + 1, k) \in Text /\ Len(SubSeq(s, z + 1, k)) = k - z
          /\ \A i \in 1..k - z : SubSeq(s, z + 1, k)[i] = s[z + i]
      BY <1>1, <2>1, <3>1, PieceText
    <3> HIDE DEF s, n
    <3> QED
      BY <3>a, <3>2
  <2>3. \A i \in 1..n - z : SubSeq(s, z + 1, n)[i] = s[z + i]
    BY <1>1, <1>2, <2>1, PieceText
  <2>4. n + 1 \in Nat /\ 1..n \subseteq Nat /\ 1..n + 1 \subseteq Nat
    BY <1>2
  <2>5. /\ SubSeq(s, 1, n + 1) \in Text /\ Len(SubSeq(s, 1, n + 1)) = n + 1
        /\ \A i \in 1..n + 1 : SubSeq(s, 1, n + 1)[i] = s[i]
    <3> HIDE DEF n
    <3>1. (n + 1) - z = n + 1 /\ (\A i \in 1..n + 1 : z + i = i)
      BY <2>1, <2>4
    <3> QED
      BY <2>1, <2>2, <3>1, Zenon
  <2>6. \A i \in 1..n : seen[i] = s[i]
    <3> HIDE DEF n
    <3>1. n - z = n /\ (\A i \in 1..n : z + i = i)
      BY <1>2, <2>1, <2>4
    <3> QED
      BY <1>1, <2>1, <2>3, <3>1, Zenon
  <2>7. \A i \in 1..n + 1 : i = n + 1 \/ i \in 1..n
    BY <1>2
  <2>8. \A i \in 1..n + 1 : SubSeq(s, 1, n + 1)[i] = seen'[i]
    BY <1>8, <2>5, <2>6, <2>7, Zenon
  <2> QED
    BY <1>8, <2>5, <2>8, SameText
<1>11. it'.idr = s /\ it'.block = Block(s) /\ it'.pos = n + 1
  BY <1>9
<1>12. n + 1 <= Len(s)
  BY <1>2, <1>4
<1>13. IteratorHolds'
  <2> HIDE DEF s, n, c
  <2> QED
    BY <1>1, <1>8, <1>9, <1>10, <1>11, <1>12, Zenon DEF IteratorHolds
<1>14. BlocksHold'
  BY DEF StringInv, BlocksHold, stringIteratorNext
<1> QED
  BY <1>13, <1>14 DEF StringInv, stringIteratorNext

LEMMA NewKeeps ==
  ASSUME Short, StringInv, NEW r \in Reg, stringIteratorNew(r)
  PROVE  StringInv'
<1>1. /\ idr[r] \in Text /\ Len(idr[r]) <= MaxLen /\ Len(idr[r]) \in Nat /\ Exact(idr[r])
      /\ str[r] = Block(idr[r]) /\ intlen(str[r]) = Len(idr[r])
      /\ int(Len(idr[r]) + 1) = Len(idr[r]) + 1
  BY RegFacts
<1>2. /\ it' = [block |-> Block(idr[r]), pos |-> 0, idr |-> idr[r]] /\ seen' = <<>>
      /\ UNCHANGED <<use, str, idr, state>>
  <2>1. ~ (int(intlen(str[r]) + 1) < 0)
    BY <1>1
  <2>2. memcpy(Zeros(intlen(str[r]) + 1), 0, SubSeq(str[r], 1, intlen(str[r]) + 1)) = Block(idr[r])
    BY <1>1, PackBlock
  <2> QED
    BY <2>1, <2>2 DEF stringIteratorNew
<1>3. it'.idr = idr[r]
  BY <1>2
<1>4. SubSeq(idr[r], 1, 0) = <<>> /\ Len(<<>>) = 0 /\ 0 <= Len(idr[r])
  BY <1>1, SubSeqProperties DEF Text
<1>5. IteratorHolds'
  BY <1>1, <1>2, <1>3, <1>4, EmptyText, Zenon DEF IteratorHolds
<1>6. BlocksHold'
  BY <1>2 DEF StringInv, BlocksHold
<1> QED
  BY <1>2, <1>5, <1>6 DEF StringInv

LEMMA ToStringKeeps ==
  ASSUME Short, StringInv, NEW r \in Reg, stringIteratorToString(r)
  PROVE  StringInv'
<1> DEFINE s == it.idr
           n == Len(seen)
           rest == SubSeq(s, n + 1, Len(s))
           b == SubSeq(it.block, it.pos + 1, Len(it.block))
<1>1. /\ s \in Text /\ seen \in Text /\ n <= Len(s) /\ Len(s) <= MaxLen
      /\ it.block = Block(s) /\ it.pos = n
  BY DEF StringInv, IteratorHolds
<1>2. n \in Nat /\ Len(s) \in Nat /\ Len(s) <= Len(s)
  BY <1>1, LenNat
<1>3. b = Block(rest)
  BY <1>1, <1>2, RestOfBlock
<1>4. rest \in Text /\ Len(rest) <= MaxLen
  <2>1. rest \in Text /\ Len(rest) = Len(s) - n
    BY <1>1, <1>2, PieceText
  <2> HIDE DEF rest
  <2> QED
    BY <1>1, <1>2, <2>1, TextAssumption
<1>5. Set(r, idris2_mkString(b), rest, {intlen(b), int(intlen(b) + 1)})
  BY DEF stringIteratorToString
<1> HIDE DEF rest, b
<1>6. Exact(rest) /\ Len(rest) \in Nat /\ int(Len(rest) + 1) = Len(rest) + 1
  BY <1>4, ShortExact
<1>7. idris2_mkString(b) = Block(rest) /\ intlen(b) = Len(rest)
  BY <1>3, <1>4, <1>6, PackBlock, Lengths
<1>8. \A l \in {intlen(b), int(intlen(b) + 1)} : l \in Nat
  BY <1>6, <1>7
<1> QED
  BY <1>4, <1>5, <1>7, <1>8, SetKeeps

LEMMA BufferLeavesStrings ==
  ASSUME StringInv, BufferOp
  PROVE  StringInv'
<1>1. use = "buffer" /\ UNCHANGED <<use, str, idr, it, seen>>
  <2>1. \A b, loc, len, num : setBufferUIntLE(b, loc, num, len)
          => use = "buffer" /\ UNCHANGED <<use, str, idr, it, seen>>
    BY Zenon DEF setBufferUIntLE
  <2>2. \A b, loc, s : setBufferString(b, loc, s)
          => use = "buffer" /\ UNCHANGED <<use, str, idr, it, seen>>
    BY Zenon DEF setBufferString
  <2>3. ASSUME NEW a, NEW from, NEW len, NEW b, NEW loc, copyBuffer(a, from, len, b, loc)
        PROVE  use = "buffer" /\ UNCHANGED <<use, str, idr, it, seen>>
    BY <2>3 DEF copyBuffer
  <2> QED
    BY <2>1, <2>2, <2>3, Zenon DEF BufferOp
<1>2. BlocksHold' /\ IteratorHolds'
  BY <1>1 DEF StringInv, BlocksHold, IteratorHolds
<1> QED
  BY <1>1, <1>2 DEF StringInv

LEMMA StringStep ==
  ASSUME Narrow, Short, OneByte PROVE StringInv /\ [Next]_vars => StringInv'
<1> SUFFICES ASSUME StringInv, [Next]_vars PROVE StringInv'
  OBVIOUS
<1>1. CASE UNCHANGED vars
  BY <1>1 DEF StringInv, BlocksHold, IteratorHolds, vars
<1>2. CASE StringOp
  BY <1>2, TailKeeps, ReverseKeeps, ConsKeeps, AppendKeeps, PackKeeps, ConcatKeeps, SubstrKeeps,
     IteratorKeeps, NewKeeps, ToStringKeeps DEF StringOp
<1> QED
  BY <1>1, <1>2, BufferLeavesStrings DEF Next

\* Every string operation of the runtime leaves a block that ends with a 0 and
\* holds the characters that Idris defines, the iterator gives out its string
\* from the front, and no operation stops the program, in any order of calls:
\* as long as the offsets and lengths that are passed and the sizes of the
\* blocks fit into an int (without that, a length becomes negative), and the
\* characters are bytes other than 0.
THEOREM TextStringFaithful ==
  ASSUME Narrow, Short, OneByte PROVE Spec => []StringFaithful
<1>1. StringInv => StringFaithful
  BY BlockLen, BlockChars DEF StringInv, BlocksHold, IteratorHolds, StringFaithful
<1> QED
  BY <1>1, StringInit, StringStep, PTL DEF Spec

-----------------------------------------------------------------------------
(***************************************************************************)
(* Numbers: induction, and functions defined by repeating a step.          *)
(***************************************************************************)
LEMMA LeastNumber ==
  ASSUME NEW T, T \subseteq Nat, T # {} PROVE \E n \in T : \A m \in T : n <= m
<1> DEFINE R == {p \in Nat \X Nat : p[1] < p[2]}
<1>1. IsWellFoundedOn(R, Nat)
  BY NatLessThanWellFounded DEF OpToRel
<1>2. \A m, n \in Nat : <<m, n>> \in R <=> m < n
  OBVIOUS
<1> HIDE DEF R
<1>3. PICK n \in T : \A m \in T : ~ (<<m, n>> \in R)
  BY <1>1, WFMin
<1>4. \A m \in T : ~ (m < n)
  BY <1>2, <1>3
<1> QED
  BY <1>3, <1>4

\* Induction, for the numbers that are members of a set.
LEMMA Inductive ==
  ASSUME NEW T, 0 \in T, \A n \in Nat : n \in T => n + 1 \in T PROVE Nat \subseteq T
<1> SUFFICES ASSUME Nat \ T # {} PROVE FALSE
  OBVIOUS
<1>1. PICK n \in Nat \ T : \A m \in Nat \ T : n <= m
  BY LeastNumber
<1>2. n - 1 \in Nat /\ ~ (n <= n - 1) /\ (n - 1) + 1 = n
  <2>1. n # 0
    OBVIOUS
  <2> QED
    BY <2>1
<1>3. n - 1 \in T
  BY <1>1, <1>2
<1> QED
  BY <1>2, <1>3

\* g starts with x and repeats the step, n times.
Run(g, step, x, n) == /\ n \in Nat /\ g \in [0..n -> Nat] /\ g[0] = x
                      /\ \A i \in 0..n - 1 : g[i + 1] = step[i][g[i]]

LEMMA RunExists ==
  ASSUME NEW step \in [Nat -> [Nat -> Nat]], NEW x \in Nat
  PROVE  \A n \in Nat : \E g : Run(g, step, x, n)
<1> DEFINE T == {n \in Nat : \E g : Run(g, step, x, n)}
<1>1. 0 \in T
  <2> DEFINE g == [i \in 0..0 |-> x]
  <2>1. Run(g, step, x, 0)
    BY DEF Run
  <2> QED
    BY <2>1
<1>2. ASSUME NEW n \in Nat, n \in T PROVE n + 1 \in T
  <2>1. PICK g : Run(g, step, x, n)
    BY <1>2
  <2> DEFINE h == [i \in 0..n + 1 |-> IF i = n + 1 THEN step[n][g[n]] ELSE g[i]]
  <2>2. g \in [0..n -> Nat] /\ g[0] = x /\ \A i \in 0..n - 1 : g[i + 1] = step[i][g[i]]
    BY <2>1 DEF Run
  <2>3. step[n][g[n]] \in Nat
    BY <2>2
  <2>4. h \in [0..n + 1 -> Nat]
    <3>1. \A i \in 0..n + 1 : i # n + 1 => i \in 0..n
      OBVIOUS
    <3>2. \A i \in 0..n + 1 : (IF i = n + 1 THEN step[n][g[n]] ELSE g[i]) \in Nat
      BY <2>2, <2>3, <3>1, Zenon
    <3> QED
      BY <3>2, Zenon
  <2>5. \A i \in 0..n : h[i] = g[i]
    OBVIOUS
  <2>6. h[n + 1] = step[n][g[n]]
    OBVIOUS
  <2> HIDE DEF h
  <2>7. h[0] = x
    <3>1. 0 \in 0..n
      OBVIOUS
    <3> QED
      BY <2>2, <2>5, <3>1, Zenon
  <2>8. ASSUME NEW i \in 0..(n + 1) - 1 PROVE h[i + 1] = step[i][h[i]]
    <3>1. CASE i = n
      <4>1. n \in 0..n
        OBVIOUS
      <4> QED
        BY <2>5, <2>6, <3>1, <4>1, Zenon
    <3>2. CASE i # n
      <4>1. i \in 0..n - 1 /\ i \in 0..n /\ i + 1 \in 0..n
        BY <3>2
      <4> QED
        BY <2>2, <2>5, <4>1
    <3> QED
      BY <3>1, <3>2
  <2>9. Run(h, step, x, n + 1)
    <3>1. n + 1 \in Nat
      OBVIOUS
    <3> QED
      BY <2>4, <2>7, <2>8, <3>1, Zenon DEF Run
  <2> QED
    BY <2>9
<1> HIDE DEF T
<1>3. Nat \subseteq T
  BY <1>1, <1>2, Inductive
<1> QED
  BY <1>3 DEF T

Agree(g, h, n) == \A i \in 0..n : g[i] = h[i]

LEMMA RunsAgree ==
  ASSUME NEW step, NEW x, NEW m, NEW n, m <= n, NEW g, NEW h,
         Run(g, step, x, m), Run(h, step, x, n)
  PROVE  Agree(g, h, m)
<1>0. m \in Nat /\ n \in Nat
  BY DEF Run
<1> DEFINE T == {i \in Nat : i <= m => g[i] = h[i]}
<1>1. 0 \in T
  BY DEF Run
<1>2. ASSUME NEW i \in Nat, i \in T PROVE i + 1 \in T
  <2> SUFFICES ASSUME i + 1 <= m PROVE g[i + 1] = h[i + 1]
    OBVIOUS
  <2>1. i \in 0..m - 1 /\ i \in 0..n - 1 /\ i <= m
    BY <1>0
  <2>2. g[i] = h[i]
    BY <1>2, <2>1
  <2> QED
    BY <2>1, <2>2 DEF Run
<1> HIDE DEF T
<1>3. Nat \subseteq T
  BY <1>1, <1>2, Inductive
<1> QED
  BY <1>0, <1>3 DEF T, Agree

LEMMA Repeated ==
  ASSUME NEW step \in [Nat -> [Nat -> Nat]], NEW x \in Nat
  PROVE  \E g \in [Nat -> Nat] : g[0] = x /\ \A i \in Nat : g[i + 1] = step[i][g[i]]
<1> DEFINE G(n) == CHOOSE g : Run(g, step, x, n)
           h == [n \in Nat |-> G(n)[n]]
<1>1. \A n \in Nat : Run(G(n), step, x, n)
  BY RunExists, Zenon
<1> HIDE DEF G
<1>2. h \in [Nat -> Nat]
  <2>1. \A n \in Nat : n \in 0..n /\ G(n) \in [0..n -> Nat]
    BY <1>1 DEF Run
  <2> QED
    BY <2>1
<1>3. h[0] = x
  BY <1>1 DEF Run
<1>4. ASSUME NEW i \in Nat PROVE h[i + 1] = step[i][h[i]]
  <2>1. i + 1 \in Nat /\ i <= i + 1 /\ i \in 0..i /\ i \in 0..(i + 1) - 1
    OBVIOUS
  <2>2. G(i)[i] = G(i + 1)[i]
    <3> DEFINE k == i + 1
    <3>1. /\ k \in Nat /\ i <= k /\ i \in 0..i
          /\ Run(G(i), step, x, i) /\ Run(G(k), step, x, k)
      BY <1>1, <2>1, Zenon
    <3>2. PICK g : g = G(i)
      OBVIOUS
    <3>3. PICK f : f = G(k)
      OBVIOUS
    <3> HIDE DEF k, h
    <3>4. Agree(g, f, i)
      <4>1. i <= k /\ Run(g, step, x, i) /\ Run(f, step, x, k)
        BY <3>1, <3>2, <3>3, Zenon
      <4> QED
        BY <4>1, RunsAgree, Zenon
    <3>5. G(i)[i] = G(k)[i]
      BY <3>1, <3>2, <3>3, <3>4, Zenon DEF Agree
    <3> QED
      BY <3>5 DEF k
  <2>3. G(i + 1)[i + 1] = step[i][G(i + 1)[i]]
    BY <1>1, <2>1 DEF Run
  <2> QED
    BY <2>1, <2>2, <2>3
<1> QED
  BY <1>2, <1>3, <1>4

\* A recursive definition of the powers of a number defines them.
PowersOf(base) == CHOOSE p : p = [n \in Nat |-> IF n = 0 THEN 1 ELSE base * p[n - 1]]

LEMMA Powers ==
  ASSUME NEW base \in Nat, NEW f, f = PowersOf(base)
  PROVE  /\ f \in [Nat -> Nat] /\ f[0] = 1
         /\ \A n \in Nat : f[n + 1] = base * f[n]
<1> DEFINE IsPower(p) == p = [n \in Nat |-> IF n = 0 THEN 1 ELSE base * p[n - 1]]
           step == [i \in Nat |-> [x \in Nat |-> base * x]]
<1>1. step \in [Nat -> [Nat -> Nat]] /\ \A i, x \in Nat : step[i][x] = base * x
  <2>1. \A x \in Nat : base * x \in Nat
    OBVIOUS
  <2> QED
    BY <2>1
<1> HIDE DEF step
<1>2. PICK g \in [Nat -> Nat] : g[0] = 1 /\ \A i \in Nat : g[i + 1] = step[i][g[i]]
  <2>1. 1 \in Nat
    OBVIOUS
  <2> QED
    BY <1>1, <2>1, Repeated, Zenon
<1>3. \A n \in Nat : g[n] = IF n = 0 THEN 1 ELSE base * g[n - 1]
  <2> SUFFICES ASSUME NEW n \in Nat, n # 0 PROVE g[n] = base * g[n - 1]
    BY <1>2
  <2>1. n - 1 \in Nat /\ (n - 1) + 1 = n
    OBVIOUS
  <2> QED
    BY <1>1, <1>2, <2>1
<1>4. IsPower(g)
  <2>1. g = [n \in Nat |-> g[n]]
    OBVIOUS
  <2> QED
    BY <1>3, <2>1, Zenon
<1>5. IsPower(f)
  BY <1>4, Zenon DEF PowersOf
<1>6. \A n \in Nat : f[n] = IF n = 0 THEN 1 ELSE base * f[n - 1]
  BY <1>5, Zenon
<1>7. DOMAIN f = Nat /\ f = [n \in Nat |-> f[n]]
  BY <1>5
<1>8. f[0] = 1
  BY <1>6
<1>9. ASSUME NEW n \in Nat PROVE f[n + 1] = base * f[n]
  <2>1. n + 1 \in Nat /\ n + 1 # 0 /\ (n + 1) - 1 = n
    OBVIOUS
  <2> QED
    BY <1>6, <2>1, Zenon
<1> DEFINE T == {n \in Nat : f[n] \in Nat}
<1>10. Nat \subseteq T
  <2>1. 0 \in T
    BY <1>8
  <2>2. ASSUME NEW n \in Nat, n \in T PROVE n + 1 \in T
    BY <1>9, <2>2
  <2> HIDE DEF T
  <2> QED
    BY <2>1, <2>2, Inductive
<1> QED
  BY <1>7, <1>8, <1>9, <1>10

-----------------------------------------------------------------------------
(* The bytes of a number. *)

LEMMA BaseFacts == Base \in Nat /\ Base > 0
BY TextAssumption

LEMMA PowerSteps ==
  /\ Power \in [Nat -> Nat] /\ Power[0] = 1
  /\ \A n \in Nat : Power[n + 1] = Base * Power[n]
<1>1. Power = PowersOf(Base)
  BY Zenon DEF Power, PowersOf
<1> QED
  BY <1>1, BaseFacts, Powers, Zenon

LEMMA DivFacts ==
  \A x \in Nat : /\ x \div Base \in Nat /\ x % Base \in Nat /\ x % Base < Base
                 /\ x = Base * (x \div Base) + (x % Base)
BY BaseFacts

LEMMA DivBelow == ASSUME NEW x \in Nat, NEW p \in Nat, x < Base * p PROVE x \div Base < p
<1> DEFINE q == x \div Base
           m == x % Base
<1>1. q \in Nat /\ m \in Nat /\ x = Base * q + m
  BY DivFacts
<1> HIDE DEF q, m
<1>2. ASSUME q >= p PROVE FALSE
  <2>1. Base * q >= Base * p
    BY <1>1, <1>2, BaseFacts
  <2> QED
    BY <1>1, <2>1, BaseFacts
<1> QED
  BY <1>1, <1>2 DEF q

\* What Bytes divides: the number without its low i bytes.
Shifted(num, len) ==
    CHOOSE v : v = [i \in 0..len |-> IF i = 0 THEN num ELSE v[i - 1] \div Base]

LEMMA ShiftedFacts ==
  ASSUME NEW num \in Nat, NEW len \in Nat
  PROVE  /\ Shifted(num, len) \in [0..len -> Nat] /\ Shifted(num, len)[0] = num
         /\ \A i \in 0..len - 1 : Shifted(num, len)[i + 1] = Shifted(num, len)[i] \div Base
<1> DEFINE IsShift(v) == v = [i \in 0..len |-> IF i = 0 THEN num ELSE v[i - 1] \div Base]
           step == [i \in Nat |-> [x \in Nat |-> x \div Base]]
           s == Shifted(num, len)
<1>1. step \in [Nat -> [Nat -> Nat]] /\ \A i, x \in Nat : step[i][x] = x \div Base
  BY DivFacts
<1> HIDE DEF step
<1>2. PICK g : Run(g, step, num, len)
  BY <1>1, RunExists
<1>3. g \in [0..len -> Nat] /\ g[0] = num /\ \A i \in 0..len - 1 : g[i + 1] = g[i] \div Base
  <2>1. g \in [0..len -> Nat] /\ g[0] = num /\ \A i \in 0..len - 1 : g[i + 1] = step[i][g[i]]
    BY <1>2 DEF Run
  <2>2. \A i \in 0..len - 1 : i \in Nat /\ g[i] \in Nat
    BY <2>1
  <2> QED
    BY <1>1, <2>1, <2>2, Zenon
<1>4. \A i \in 0..len : g[i] = IF i = 0 THEN num ELSE g[i - 1] \div Base
  <2> SUFFICES ASSUME NEW i \in 0..len, i # 0 PROVE g[i] = g[i - 1] \div Base
    BY <1>3
  <2>1. i - 1 \in 0..len - 1 /\ (i - 1) + 1 = i
    OBVIOUS
  <2> QED
    BY <1>3, <2>1
<1>5. IsShift(g)
  <2>1. g = [i \in 0..len |-> g[i]]
    BY <1>3
  <2> QED
    BY <1>4, <2>1, Zenon
<1>6. IsShift(s)
  BY <1>5, Zenon DEF Shifted
<1> HIDE DEF s
<1>7. \A i \in 0..len : s[i] = IF i = 0 THEN num ELSE s[i - 1] \div Base
  BY <1>6, Zenon
<1>8. DOMAIN s = 0..len /\ s = [i \in 0..len |-> s[i]]
  BY <1>6
<1>9. s[0] = num
  BY <1>7
<1>10. ASSUME NEW i \in 0..len - 1 PROVE s[i + 1] = s[i] \div Base
  <2>1. i + 1 \in 0..len /\ i + 1 # 0 /\ (i + 1) - 1 = i
    OBVIOUS
  <2> QED
    BY <1>7, <2>1, Zenon
<1> DEFINE T == {i \in Nat : i <= len => s[i] \in Nat}
<1>11. Nat \subseteq T
  <2>1. 0 \in T
    BY <1>9
  <2>2. ASSUME NEW n \in Nat, n \in T PROVE n + 1 \in T
    <3> SUFFICES ASSUME n + 1 <= len PROVE s[n + 1] \in Nat
      OBVIOUS
    <3>1. n \in 0..len - 1 /\ s[n] \in Nat
      BY <2>2
    <3> QED
      BY <1>10, <3>1, DivFacts
  <2> HIDE DEF T
  <2> QED
    BY <2>1, <2>2, Inductive
<1>12. \A i \in 0..len : s[i] \in Nat
  BY <1>11
<1> QED
  BY <1>8, <1>9, <1>10, <1>12 DEF s

LEMMA BytesFacts ==
  ASSUME NEW num \in Nat, NEW len \in Nat
  PROVE  /\ Bytes(num, len) \in [1..len -> Nat]
         /\ \A i \in 1..len : Bytes(num, len)[i] = Shifted(num, len)[i - 1] % Base
<1>1. Bytes(num, len) = [i \in 1..len |-> Shifted(num, len)[i - 1] % Base]
  BY Zenon DEF Bytes, Shifted
<1>2. ASSUME NEW i \in 1..len PROVE Shifted(num, len)[i - 1] % Base \in Nat
  <2>1. i - 1 \in 0..len
    OBVIOUS
  <2>2. Shifted(num, len)[i - 1] \in Nat
    BY <2>1, ShiftedFacts
  <2> QED
    BY <2>2, DivFacts
<1> QED
  BY <1>1, <1>2

\* A number below Power[len] has no more than len bytes.
LEMMA ShiftedOut ==
  ASSUME NEW len \in Nat, NEW num \in Nat, num < Power[len]
  PROVE  Shifted(num, len)[len] = 0
<1> DEFINE s == Shifted(num, len)
           T == {i \in Nat : i <= len => s[i] < Power[len - i]}
<1>1. /\ s \in [0..len -> Nat] /\ s[0] = num
      /\ \A i \in 0..len - 1 : s[i + 1] = s[i] \div Base
  BY ShiftedFacts
<1> HIDE DEF s
<1>2. 0 \in T
  BY <1>1
<1>3. ASSUME NEW i \in Nat, i \in T PROVE i + 1 \in T
  <2> SUFFICES ASSUME i + 1 <= len PROVE s[i + 1] < Power[len - (i + 1)]
    OBVIOUS
  <2> DEFINE k == len - (i + 1)
  <2>1. k \in Nat /\ len - i = k + 1 /\ i \in 0..len - 1 /\ i \in 0..len /\ i <= len
    OBVIOUS
  <2>2. s[i] < Power[k + 1] /\ s[i] \in Nat /\ s[i + 1] = s[i] \div Base
    BY <1>1, <1>3, <2>1
  <2> HIDE DEF k
  <2>3. Power[k + 1] = Base * Power[k] /\ Power[k] \in Nat
    BY <2>1, PowerSteps
  <2>4. s[i] \div Base < Power[k]
    BY <2>2, <2>3, DivBelow
  <2> QED
    BY <2>2, <2>4 DEF k
<1> HIDE DEF T
<1>4. Nat \subseteq T
  BY <1>2, <1>3, Inductive
<1>5. s[len] < Power[len - len]
  BY <1>4 DEF T
<1>6. s[len] < 1 /\ s[len] \in Nat
  <2>1. len - len = 0 /\ len \in 0..len
    OBVIOUS
  <2> QED
    BY <1>1, <1>5, <2>1, PowerSteps
<1> QED
  BY <1>6 DEF s

\* m holds the bytes of num, behind loc.
Written(m, loc, num, len) == \A i \in 1..len : m[loc + i] = Bytes(num, len)[i]

\* The bytes that Bytes gives, read from the high one down, are the number.
LEMMA ReadNumber ==
  ASSUME NEW b, NEW loc \in Nat, NEW len \in Nat, NEW num \in Nat, num < Power[len],
         Written(buf[b], loc, num, len)
  PROVE  getBufferUIntLE(b, loc, len) = num
<1> DEFINE s == Shifted(num, len)
           m == buf[b]
           IsRead(r) == r = [i \in 0..len |-> IF i = 0 THEN 0
                                              ELSE r[i - 1] * Base + buf[b][loc + len + 1 - i]]
           h == CHOOSE r : IsRead(r)
           c == [i \in 0..len |-> s[len - i]]
<1>1. /\ s \in [0..len -> Nat] /\ s[0] = num
      /\ \A i \in 0..len - 1 : s[i + 1] = s[i] \div Base
  BY ShiftedFacts
<1>2. s[len] = 0
  BY ShiftedOut
<1>3. \A i \in 1..len : m[loc + i] = s[i - 1] % Base
  BY BytesFacts DEF Written
<1> HIDE DEF s, m
<1>4. ASSUME NEW i \in 0..len, i # 0
      PROVE  s[len - i] = s[len - (i - 1)] * Base + m[loc + len + 1 - i]
  <2> DEFINE k == len - i
  <2>1. /\ k \in 0..len - 1 /\ k \in 0..len /\ k + 1 \in 1..len /\ (k + 1) - 1 = k
        /\ len - (i - 1) = k + 1 /\ loc + len + 1 - i = loc + (k + 1)
    BY <1>4
  <2> HIDE DEF k
  <2>2. s[k + 1] = s[k] \div Base /\ m[loc + (k + 1)] = s[k] % Base /\ s[k] \in Nat
    <3>1. m[loc + (k + 1)] = s[(k + 1) - 1] % Base
      BY <1>3, <2>1, Zenon
    <3> QED
      BY <1>1, <2>1, <3>1
  <2>3. s[k] = Base * (s[k] \div Base) + (s[k] % Base) /\ s[k] \div Base \in Nat
    BY <2>2, DivFacts
  <2>4. Base * (s[k] \div Base) = (s[k] \div Base) * Base
    BY <2>3, BaseFacts
  <2>5. s[k] = s[k + 1] * Base + m[loc + (k + 1)]
    BY <2>2, <2>3, <2>4, Zenon
  <2> QED
    BY <2>1, <2>5, Zenon DEF k
<1>5. IsRead(c)
  <2>1. \A i \in 0..len : i # 0 => i - 1 \in 0..len
    OBVIOUS
  <2>2. \A i \in 0..len : i # 0 => c[i - 1] = s[len - (i - 1)]
    BY <2>1, Zenon
  <2>3. len - 0 = len
    OBVIOUS
  <2>4. ASSUME NEW i \in 0..len
        PROVE  s[len - i] = IF i = 0 THEN 0 ELSE c[i - 1] * Base + buf[b][loc + len + 1 - i]
    BY <1>2, <1>4, <2>2, <2>3, Zenon DEF m
  <2> QED
    BY <2>4, Zenon
<1>6. IsRead(h)
  BY <1>5, Zenon
<1>7. getBufferUIntLE(b, loc, len) = h[len]
  BY Zenon DEF getBufferUIntLE
<1> HIDE DEF h
<1>8. \A i \in 0..len : h[i] = IF i = 0 THEN 0 ELSE h[i - 1] * Base + m[loc + len + 1 - i]
  BY <1>6, Zenon DEF m
<1> DEFINE T == {i \in Nat : i <= len => h[i] = s[len - i]}
<1>9. 0 \in T
  <2>1. 0 \in 0..len /\ len - 0 = len
    OBVIOUS
  <2>2. h[0] = 0
    BY <1>8, <2>1, Zenon
  <2> QED
    BY <1>2, <2>1, <2>2
<1>10. ASSUME NEW i \in Nat, i \in T PROVE i + 1 \in T
  <2> SUFFICES ASSUME i + 1 <= len PROVE h[i + 1] = s[len - (i + 1)]
    OBVIOUS
  <2>1. i + 1 \in 0..len /\ i + 1 # 0 /\ (i + 1) - 1 = i /\ h[i] = s[len - i]
    BY <1>10
  <2>2. h[i + 1] = h[(i + 1) - 1] * Base + m[loc + len + 1 - (i + 1)]
    BY <1>8, <2>1, Zenon
  <2>3. s[len - (i + 1)] = s[len - ((i + 1) - 1)] * Base + m[loc + len + 1 - (i + 1)]
    BY <1>4, <2>1, Zenon
  <2> QED
    BY <2>1, <2>2, <2>3, Zenon
<1> HIDE DEF T
<1>11. Nat \subseteq T
  BY <1>9, <1>10, Inductive
<1>12. h[len] = s[len - len]
  BY <1>11 DEF T
<1>13. len - len = 0
  OBVIOUS
<1> QED
  BY <1>1, <1>7, <1>12, <1>13, Zenon

\* A memory of N bytes.
Array(m, N) == N \in Nat /\ m \in [1..N -> Nat]

LEMMA PieceBytes ==
  ASSUME NEW N \in Nat, NEW m \in [1..N -> Nat], NEW a \in Nat, NEW n \in Nat, a + n <= N
  PROVE  /\ SubSeq(m, a + 1, a + n) \in Seq(Nat) /\ Len(SubSeq(m, a + 1, a + n)) = n
         /\ \A i \in 1..n : SubSeq(m, a + 1, a + n)[i] = m[a + i]
<1> DEFINE p == SubSeq(m, a + 1, a + n)
<1>1. \A i \in (a + 1)..(a + n) : m[i] \in Nat
  OBVIOUS
<1>2. /\ p \in Seq(Nat)
      /\ Len(p) = IF a + 1 <= a + n THEN (a + n) - (a + 1) + 1 ELSE 0
      /\ \A i \in 1..(a + n) - (a + 1) + 1 : p[i] = m[(a + 1) + i - 1]
  BY <1>1, SubSeqProperties
<1> HIDE DEF p
<1>3. Len(p) = n
  BY <1>2
<1>4. ASSUME NEW i \in 1..n PROVE p[i] = m[a + i]
  <2>1. i \in 1..(a + n) - (a + 1) + 1 /\ (a + 1) + i - 1 = a + i
    OBVIOUS
  <2>2. p[i] = m[(a + 1) + i - 1]
    BY <1>2, <2>1, Zenon
  <2> QED
    BY <2>1, <2>2, Zenon
<1> QED
  BY <1>2, <1>3, <1>4 DEF p

\* The characters that setBufferString wrote are read up to a 0 that is put
\* behind them.
LEMMA ReadText ==
  ASSUME NEW b, NEW N, Array(buf[b], N), NEW loc \in Nat, NEW s \in Text,
         loc + Len(s) <= N, \A i \in 1..Len(s) : buf[b][loc + i] = s[i]
  PROVE  getBufferString(b, loc, Len(s)) = s
<1> DEFINE m == buf[b]
           n == Len(s)
           p == SubSeq(m, loc + 1, loc + n)
<1>1. n \in Nat /\ DOMAIN s = 1..n /\ s \in Seq(Nat)
  <2>1. Len(s) \in Nat /\ s \in [1..Len(s) -> Letter] /\ DOMAIN s = 1..Len(s)
    BY LenProperties DEF Text
  <2>2. Letter \subseteq Nat
    BY TextAssumption DEF Letter
  <2>3. s \in [1..Len(s) -> Nat]
    BY <2>1, <2>2
  <2>4. s \in Seq(Nat)
    BY <2>1, <2>3
  <2> QED
    BY <2>1, <2>4
<1>2. p \in Seq(Nat) /\ Len(p) = n /\ \A i \in 1..n : p[i] = m[loc + i]
  BY <1>1, PieceBytes DEF Array
<1> HIDE DEF p
<1>3. p = s
  BY <1>1, <1>2, SeqEqual
<1>4. s \o <<0>> = Block(s)
  <2>1. /\ Len(s \o <<0>>) = n + 1 /\ s \o <<0>> \in Seq(Nat)
        /\ \A i \in 1..n + 1 : (s \o <<0>>)[i] = IF i <= n THEN s[i] ELSE <<0>>[i - n]
    <3>1. <<0>> \in Seq(Nat) /\ Len(<<0>>) = 1
      OBVIOUS
    <3> QED
      BY <1>1, <3>1, ConcatProperties
  <2>2. \A i \in 1..n + 1 : ~ (i <= n) => i - n = 1
    BY <1>1
  <2>3. <<0>>[1] = 0
    OBVIOUS
  <2>4. \A i \in 1..n + 1 : (s \o <<0>>)[i] = IF i <= n THEN s[i] ELSE 0
    BY <2>1, <2>2, <2>3, Zenon
  <2>5. s \o <<0>> = [i \in 1..n + 1 |-> (s \o <<0>>)[i]]
    BY <2>1, LenProperties
  <2> QED
    BY <2>4, <2>5, Zenon DEF Block
<1>5. getBufferString(b, loc, n) = Chars(s \o <<0>>)
  BY <1>3, Zenon DEF getBufferString, p
<1> QED
  BY <1>4, <1>5, BlockChars

-----------------------------------------------------------------------------
(* A copy inside a buffer, between ranges that do not overlap. *)

\* The bytes from a + 1 to c have been copied to the range behind l.
Part(m, N, f, l, a, c) == [j \in 1..N |-> IF a < j /\ j <= c THEN m[f + (j - l)] ELSE m[j]]
\* One byte is copied.
Put(m, to, from) == [m EXCEPT ![to] = m[from]]
Slice(m, a, n) == SubSeq(m, a + 1, a + n)
\* Two ranges of n bytes, behind f and behind l, that do not overlap.
Disjoint(m, N, f, l, n) ==
    /\ N \in Nat /\ m \in [1..N -> Nat] /\ f \in Nat /\ l \in Nat /\ n \in Nat
    /\ f + n <= N /\ l + n <= N /\ (f + n <= l \/ l + n <= f)

LEMMA PartGrows ==
  ASSUME NEW m, NEW N, NEW f, NEW l, NEW n, Disjoint(m, N, f, l, n),
         NEW a \in Nat, NEW c \in Nat, l <= a, a <= c, c <= l + n, NEW d, NEW k
  PROVE  /\ c < l + n /\ d = c + 1 /\ k = f + (d - l)
              => Put(Part(m, N, f, l, a, c), d, k) = Part(m, N, f, l, a, d)
         /\ l < a /\ d = a - 1 /\ k = f + (a - l)
              => Put(Part(m, N, f, l, a, c), a, k) = Part(m, N, f, l, d, c)
<1> USE DEF Disjoint
<1> DEFINE P == Part(m, N, f, l, a, c)
<1>1. DOMAIN P = 1..N /\ \A j \in 1..N : P[j] = IF a < j /\ j <= c THEN m[f + (j - l)] ELSE m[j]
  BY DEF Part
<1> HIDE DEF P
<1>2. ASSUME NEW j \in (l + 1)..(l + n) PROVE P[f + (j - l)] = m[f + (j - l)]
  <2> DEFINE q == f + (j - l)
  <2>1. q \in 1..N /\ ~ (a < q /\ q <= c)
    OBVIOUS
  <2> HIDE DEF q
  <2> QED
    BY <1>1, <2>1 DEF q
<1>3. ASSUME c < l + n
      PROVE  [P EXCEPT ![c + 1] = P[f + ((c + 1) - l)]] = Part(m, N, f, l, a, c + 1)
  <2> DEFINE x == P[f + ((c + 1) - l)]
  <2>1. x = m[f + ((c + 1) - l)]
    <3>1. c + 1 \in (l + 1)..(l + n)
      BY <1>3
    <3> QED
      BY <1>2, <3>1, Zenon
  <2> HIDE DEF x
  <2>2. [P EXCEPT ![c + 1] = x] = [j \in 1..N |-> IF j = c + 1 THEN x ELSE P[j]]
    BY <1>1
  <2>3. ASSUME NEW j \in 1..N
        PROVE  (IF j = c + 1 THEN x ELSE P[j])
                 = IF a < j /\ j <= c + 1 THEN m[f + (j - l)] ELSE m[j]
    <3>1. CASE j = c + 1
      <4>1. a < j /\ j <= c + 1
        BY <3>1
      <4> QED
        BY <2>1, <3>1, <4>1, Zenon
    <3>2. CASE j # c + 1
      <4>1. (a < j /\ j <= c + 1) <=> (a < j /\ j <= c)
        BY <3>2
      <4> QED
        BY <1>1, <3>2, <4>1, Zenon
    <3> QED
      BY <3>1, <3>2, Zenon
  <2>4. [P EXCEPT ![c + 1] = x] = Part(m, N, f, l, a, c + 1)
    BY <2>2, <2>3, Zenon DEF Part
  <2> QED
    BY <2>4 DEF x
<1>4. ASSUME l < a
      PROVE  [P EXCEPT ![a] = P[f + (a - l)]] = Part(m, N, f, l, a - 1, c)
  <2> DEFINE x == P[f + (a - l)]
  <2>1. x = m[f + (a - l)]
    <3>1. a \in (l + 1)..(l + n)
      BY <1>4
    <3> QED
      BY <1>2, <3>1, Zenon
  <2> HIDE DEF x
  <2>2. [P EXCEPT ![a] = x] = [j \in 1..N |-> IF j = a THEN x ELSE P[j]]
    BY <1>1
  <2>3. ASSUME NEW j \in 1..N
        PROVE  (IF j = a THEN x ELSE P[j])
                 = IF a - 1 < j /\ j <= c THEN m[f + (j - l)] ELSE m[j]
    <3>1. CASE j = a
      <4>1. a - 1 < j /\ j <= c
        BY <3>1
      <4> QED
        BY <2>1, <3>1, <4>1, Zenon
    <3>2. CASE j # a
      <4>1. (a - 1 < j /\ j <= c) <=> (a < j /\ j <= c)
        BY <3>2
      <4> QED
        BY <1>1, <3>2, <4>1, Zenon
    <3> QED
      BY <3>1, <3>2, Zenon
  <2>4. [P EXCEPT ![a] = x] = Part(m, N, f, l, a - 1, c)
    BY <2>2, <2>3, Zenon DEF Part
  <2> QED
    BY <2>4 DEF x
<1> QED
  BY <1>3, <1>4, Zenon DEF P, Put

LEMMA PartEmpty ==
  ASSUME NEW N \in Nat, NEW m \in [1..N -> Nat], NEW f \in Nat, NEW l \in Nat, NEW a \in Nat
  PROVE  Part(m, N, f, l, a, a) = m
<1>1. \A j \in 1..N : ~ (a < j /\ j <= a)
  OBVIOUS
<1>2. Part(m, N, f, l, a, a) = [j \in 1..N |-> m[j]]
  BY <1>1 DEF Part
<1> QED
  BY <1>2

LEMMA PartWhole ==
  ASSUME NEW m, NEW N, NEW f, NEW l, NEW n, Disjoint(m, N, f, l, n)
  PROVE  \A e : e = l + n => Slice(Part(m, N, f, l, l, e), l, n) = Slice(m, f, n)
<1> USE DEF Disjoint
<1> DEFINE P == Part(m, N, f, l, l, l + n)
           p == SubSeq(P, l + 1, l + n)
           q == SubSeq(m, f + 1, f + n)
<1>1. P \in [1..N -> Nat] /\ \A j \in 1..N : l < j /\ j <= l + n => P[j] = m[f + (j - l)]
  <2>1. \A j \in 1..N : l < j /\ j <= l + n => f + (j - l) \in 1..N
    OBVIOUS
  <2> QED
    BY <2>1 DEF Part
<1> HIDE DEF P
<1>2. p \in Seq(Nat) /\ Len(p) = n /\ \A i \in 1..n : p[i] = P[l + i]
  BY <1>1, PieceBytes
<1>3. q \in Seq(Nat) /\ Len(q) = n /\ \A i \in 1..n : q[i] = m[f + i]
  BY PieceBytes
<1> HIDE DEF p, q
<1>4. ASSUME NEW i \in 1..n PROVE p[i] = q[i]
  <2>1. l + i \in 1..N /\ l < l + i /\ l + i <= l + n /\ (l + i) - l = i
    OBVIOUS
  <2>2. P[l + i] = m[f + ((l + i) - l)]
    BY <1>1, <2>1, Zenon
  <2> QED
    BY <1>2, <1>3, <2>1, <2>2, Zenon
<1>5. p = q
  BY <1>2, <1>3, <1>4, SeqEqual
<1>6. Slice(P, l, n) = Slice(m, f, n)
  BY <1>5, Zenon DEF p, q, Slice
<1> QED
  BY <1>6, Zenon DEF P

\* memcpy from the low byte up ...
Ups(m, f, l, n) ==
    CHOOSE up : up = [i \in 0..n |-> IF i = 0 THEN m
                        ELSE [up[i - 1] EXCEPT ![l + i] = up[i - 1][f + i]]]

LEMMA UpCopies ==
  ASSUME NEW m, NEW N, NEW f, NEW l, NEW n, Disjoint(m, N, f, l, n)
  PROVE  \A x : x = l + n => Ups(m, f, l, n)[n] = Part(m, N, f, l, l, x)
<1> DEFINE h == Ups(m, f, l, n)
           IsUp(up) == up = [i \in 0..n |-> IF i = 0 THEN m
                                 ELSE [up[i - 1] EXCEPT ![l + i] = up[i - 1][f + i]]]
           c == [i \in 0..n |-> Part(m, N, f, l, l, l + i)]
<1>a. N \in Nat /\ m \in [1..N -> Nat] /\ f \in Nat /\ l \in Nat /\ n \in Nat
  BY DEF Disjoint
<1>1. Part(m, N, f, l, l, l + 0) = m
  <2>1. l + 0 = l
    BY <1>a
  <2> QED
    BY <1>a, <2>1, PartEmpty
<1>2. ASSUME NEW i \in 0..n, i # 0
      PROVE  [Part(m, N, f, l, l, l + (i - 1)) EXCEPT ![l + i]
                 = Part(m, N, f, l, l, l + (i - 1))[f + i]] = Part(m, N, f, l, l, l + i)
  <2> DEFINE d == l + (i - 1)
  <2>1. /\ d \in Nat /\ l <= d /\ d <= l + n /\ d < l + n /\ l <= l
        /\ l + i = d + 1 /\ f + i = f + ((l + i) - l)
    BY <1>a, <1>2
  <2> HIDE DEF d
  <2>2. Put(Part(m, N, f, l, l, d), l + i, f + i) = Part(m, N, f, l, l, l + i)
    BY <1>a, <2>1, PartGrows
  <2> QED
    BY <2>2, Zenon DEF d, Put
<1>3. IsUp(c)
  <2>1. \A i \in 0..n : i # 0 => i - 1 \in 0..n
    BY <1>a
  <2>2. \A i \in 0..n : i # 0 => c[i - 1] = Part(m, N, f, l, l, l + (i - 1))
    BY <2>1, Zenon
  <2>3. ASSUME NEW i \in 0..n
        PROVE  Part(m, N, f, l, l, l + i) = IF i = 0 THEN m
                 ELSE [c[i - 1] EXCEPT ![l + i] = c[i - 1][f + i]]
    <3>1. CASE i = 0
      BY <1>1, <3>1, Zenon
    <3>2. CASE i # 0
      BY <1>2, <2>2, <3>2, Zenon
    <3> QED
      BY <3>1, <3>2, Zenon
  <2> QED
    BY <2>3, Zenon
<1>4. IsUp(h)
  BY <1>3, Zenon DEF Ups
<1> HIDE DEF h
<1>5. \A i \in 0..n : h[i] = IF i = 0 THEN m ELSE [h[i - 1] EXCEPT ![l + i] = h[i - 1][f + i]]
  BY <1>4, Zenon
<1> DEFINE T == {i \in Nat : i <= n => h[i] = Part(m, N, f, l, l, l + i)}
<1>6. 0 \in T
  <2>1. 0 \in 0..n /\ 0 \in Nat
    BY <1>a
  <2>2. h[0] = m
    BY <1>5, <2>1, Zenon
  <2> QED
    BY <1>1, <2>1, <2>2, Zenon
<1>7. ASSUME NEW i \in Nat, i \in T PROVE i + 1 \in T
  <2> SUFFICES ASSUME i + 1 <= n PROVE h[i + 1] = Part(m, N, f, l, l, l + (i + 1))
    OBVIOUS
  <2>1. i + 1 \in 0..n /\ i + 1 # 0 /\ (i + 1) - 1 = i /\ i <= n
    BY <1>a
  <2>2. h[i] = Part(m, N, f, l, l, l + i)
    BY <1>7, <2>1, Zenon
  <2>3. h[i + 1] = [h[(i + 1) - 1] EXCEPT ![l + (i + 1)] = h[(i + 1) - 1][f + (i + 1)]]
    BY <1>5, <2>1, Zenon
  <2>4. [Part(m, N, f, l, l, l + ((i + 1) - 1)) EXCEPT ![l + (i + 1)]
           = Part(m, N, f, l, l, l + ((i + 1) - 1))[f + (i + 1)]] = Part(m, N, f, l, l, l + (i + 1))
    BY <1>2, <2>1, Zenon
  <2> QED
    BY <2>1, <2>2, <2>3, <2>4, Zenon
<1> HIDE DEF T
<1>8. Nat \subseteq T
  BY <1>6, <1>7, Inductive
<1>9. h[n] = Part(m, N, f, l, l, l + n)
  <2>1. n \in Nat /\ n <= n
    BY <1>a
  <2>2. n \in T
    BY <1>8, <2>1, Zenon
  <2> QED
    BY <2>1, <2>2, Zenon DEF T
<1> QED
  BY <1>9, Zenon DEF h

\* ... and from the high byte down.
Downs(m, f, l, n) ==
    CHOOSE down : down = [i \in 0..n |-> IF i = 0 THEN m
                            ELSE [down[i - 1] EXCEPT ![l + n + 1 - i] = down[i - 1][f + n + 1 - i]]]

LEMMA DownCopies ==
  ASSUME NEW m, NEW N, NEW f, NEW l, NEW n, Disjoint(m, N, f, l, n)
  PROVE  \A x : x = l + n => Downs(m, f, l, n)[n] = Part(m, N, f, l, l, x)
<1> DEFINE h == Downs(m, f, l, n)
           e == l + n
           IsDown(down) == down = [i \in 0..n |-> IF i = 0 THEN m
                             ELSE [down[i - 1] EXCEPT ![l + n + 1 - i] = down[i - 1][f + n + 1 - i]]]
           c == [i \in 0..n |-> Part(m, N, f, l, e - i, e)]
<1>a. N \in Nat /\ m \in [1..N -> Nat] /\ f \in Nat /\ l \in Nat /\ n \in Nat
  BY DEF Disjoint
<1>0. e \in Nat /\ e = l + n
  BY <1>a
<1> HIDE DEF e
<1>1. Part(m, N, f, l, e - 0, e) = m
  <2>1. e - 0 = e
    BY <1>0
  <2> QED
    BY <1>a, <1>0, <2>1, PartEmpty
<1>2. ASSUME NEW i \in 0..n, i # 0
      PROVE  [Part(m, N, f, l, e - (i - 1), e) EXCEPT ![l + n + 1 - i]
                 = Part(m, N, f, l, e - (i - 1), e)[f + n + 1 - i]] = Part(m, N, f, l, e - i, e)
  <2> DEFINE d == e - (i - 1)
  <2>1. /\ d \in Nat /\ l <= d /\ d <= e /\ e <= l + n /\ l < d
        /\ l + n + 1 - i = d /\ f + n + 1 - i = f + (d - l) /\ e - i = d - 1
    BY <1>a, <1>0, <1>2
  <2> HIDE DEF d
  <2>2. Put(Part(m, N, f, l, d, e), d, f + n + 1 - i) = Part(m, N, f, l, e - i, e)
    <3> DEFINE k == f + n + 1 - i
               g == e - i
    <3>1. k = f + (d - l) /\ g = d - 1
      BY <2>1, Zenon
    <3> HIDE DEF k, g
    <3>2. Put(Part(m, N, f, l, d, e), d, k) = Part(m, N, f, l, g, e)
      <4>1. d \in Nat /\ e \in Nat /\ l <= d /\ d <= e /\ e <= l + n /\ l < d
        BY <1>0, <2>1, Zenon
      <4> QED
        BY <3>1, <4>1, PartGrows
    <3> QED
      BY <3>2 DEF k, g
  <2>3. Put(Part(m, N, f, l, d, e), l + n + 1 - i, f + n + 1 - i) = Part(m, N, f, l, e - i, e)
    BY <2>1, <2>2, Zenon
  <2> QED
    BY <2>3, Zenon DEF d, Put
<1>3. IsDown(c)
  <2>1. \A i \in 0..n : i # 0 => i - 1 \in 0..n
    BY <1>a
  <2>2. \A i \in 0..n : i # 0 => c[i - 1] = Part(m, N, f, l, e - (i - 1), e)
    BY <2>1, Zenon
  <2>3. ASSUME NEW i \in 0..n
        PROVE  Part(m, N, f, l, e - i, e) = IF i = 0 THEN m
                 ELSE [c[i - 1] EXCEPT ![l + n + 1 - i] = c[i - 1][f + n + 1 - i]]
    <3>1. CASE i = 0
      BY <1>1, <3>1, Zenon
    <3>2. CASE i # 0
      BY <1>2, <2>2, <3>2, Zenon
    <3> QED
      BY <3>1, <3>2, Zenon
  <2> QED
    BY <2>3, Zenon
<1>4. IsDown(h)
  BY <1>3, Zenon DEF Downs
<1> HIDE DEF h
<1>5. \A i \in 0..n : h[i] = IF i = 0 THEN m
                      ELSE [h[i - 1] EXCEPT ![l + n + 1 - i] = h[i - 1][f + n + 1 - i]]
  BY <1>4, Zenon
<1> DEFINE T == {i \in Nat : i <= n => h[i] = Part(m, N, f, l, e - i, e)}
<1>6. 0 \in T
  <2>1. 0 \in 0..n /\ 0 \in Nat
    BY <1>a
  <2>2. h[0] = m
    BY <1>5, <2>1, Zenon
  <2> QED
    BY <1>1, <2>1, <2>2, Zenon
<1>7. ASSUME NEW i \in Nat, i \in T PROVE i + 1 \in T
  <2> SUFFICES ASSUME i + 1 <= n PROVE h[i + 1] = Part(m, N, f, l, e - (i + 1), e)
    OBVIOUS
  <2>1. i + 1 \in 0..n /\ i + 1 # 0 /\ (i + 1) - 1 = i /\ i <= n
    BY <1>a
  <2>2. h[i] = Part(m, N, f, l, e - i, e)
    BY <1>7, <2>1, Zenon
  <2>3. h[i + 1] = [h[(i + 1) - 1] EXCEPT ![l + n + 1 - (i + 1)]
                                            = h[(i + 1) - 1][f + n + 1 - (i + 1)]]
    BY <1>5, <2>1, Zenon
  <2>4. [Part(m, N, f, l, e - ((i + 1) - 1), e) EXCEPT ![l + n + 1 - (i + 1)]
           = Part(m, N, f, l, e - ((i + 1) - 1), e)[f + n + 1 - (i + 1)]]
        = Part(m, N, f, l, e - (i + 1), e)
    BY <1>2, <2>1, Zenon
  <2> QED
    BY <2>1, <2>2, <2>3, <2>4, Zenon
<1> HIDE DEF T
<1>8. Nat \subseteq T
  BY <1>6, <1>7, Inductive
<1>9. h[n] = Part(m, N, f, l, e - n, e)
  <2>1. n \in Nat /\ n <= n
    BY <1>a
  <2>2. n \in T
    BY <1>8, <2>1, Zenon
  <2> QED
    BY <2>1, <2>2, Zenon DEF T
<1>10. e - n = l
  BY <1>a, <1>0
<1> QED
  BY <1>0, <1>9, <1>10, Zenon DEF h

LEMMA MovedApart ==
  ASSUME NEW b, NEW N, NEW f, NEW l, NEW n, Disjoint(buf[b], N, f, l, n)
  PROVE  \A s \in Moved(b, f, n, l) : s = Slice(buf[b], f, n)
<1> DEFINE u == Ups(buf[b], f, l, n)[n]
           d == Downs(buf[b], f, l, n)[n]
<1>1. Moved(b, f, n, l) = {Slice(u, l, n), Slice(d, l, n)}
  BY Zenon DEF Moved, Ups, Downs, Slice
<1> DEFINE e == l + n
<1>2. e = l + n
  OBVIOUS
<1> HIDE DEF e
<1>3. u = Part(buf[b], N, f, l, l, e)
  BY <1>2, UpCopies
<1>4. d = Part(buf[b], N, f, l, l, e)
  BY <1>2, DownCopies
<1> HIDE DEF u, d
<1>5. Slice(Part(buf[b], N, f, l, l, e), l, n) = Slice(buf[b], f, n)
  BY <1>2, PartWhole
<1> QED
  BY <1>1, <1>3, <1>4, <1>5, Zenon

-----------------------------------------------------------------------------
(***************************************************************************)
(* The invariant of the buffers.  Every record lies inside of its buffer,  *)
(* and the buffer holds there what the record encodes to.                  *)
(***************************************************************************)
Enc(r) == IF r.int THEN Bytes(r.val[1], r.len) ELSE r.val
Record(r) ==
    /\ r = [loc |-> r.loc, len |-> r.len, int |-> r.int, val |-> r.val]
    /\ r.loc \in Nat /\ r.len \in Nat
    /\ r.int => r.val[1] \in Nat /\ r.val[1] < Power[r.len]
    /\ ~ r.int => r.val \in Text /\ Len(r.val) = r.len
\* m holds r, behind position at.
HeldAt(r, m, at) == \A i \in 1..r.len : m[at + i] = Enc(r)[i]
Memory == /\ DOMAIN buf = Buf /\ DOMAIN rec = Buf
          /\ \A b \in Buf : buf[b] \in [1..Sizes[b] -> Nat]
Records == \A b \in Buf : \A r \in rec[b] :
             Record(r) /\ r.loc + r.len <= Sizes[b] /\ HeldAt(r, buf[b], r.loc)
BufferInv == Memory /\ Records /\ state # "stray"

LEMMA SizesNat == \A b \in Buf : Sizes[b] \in Nat
BY TextAssumption DEF Buf

LEMMA BufferInit == Init => BufferInv
<1> SUFFICES ASSUME Init PROVE BufferInv
  OBVIOUS
<1>1. Memory
  BY SizesNat DEF Init, Memory
<1>2. Records
  BY DEF Init, Records
<1> QED
  BY <1>1, <1>2 DEF Init, BufferInv

LEMMA BufferLen == ASSUME Memory PROVE \A b \in Buf : Len(buf[b]) = Sizes[b]
<1> SUFFICES ASSUME NEW b \in Buf PROVE Len(buf[b]) = Sizes[b]
  OBVIOUS
<1>1. buf[b] \in [1..Sizes[b] -> Nat] /\ Sizes[b] \in Nat
  BY SizesNat DEF Memory
<1> QED
  BY <1>1

\* The bytes s at loc, in a memory m of N bytes.
LEMMA Copied ==
  ASSUME NEW N \in Nat, NEW m \in [1..N -> Nat], NEW loc \in Nat, NEW s \in Seq(Nat),
         loc + Len(s) <= N
  PROVE  /\ memcpy(m, loc, s) \in [1..N -> Nat]
         /\ \A j \in 1..N : memcpy(m, loc, s)[j]
              = IF loc < j /\ j <= loc + Len(s) THEN s[j - loc] ELSE m[j]
<1>1. memcpy(m, loc, s) = [j \in 1..N |-> IF loc < j /\ j <= loc + Len(s) THEN s[j - loc] ELSE m[j]]
  BY DEF memcpy
<1>2. Len(s) \in Nat /\ \A i \in 1..Len(s) : s[i] \in Nat
  BY LenProperties
<1>3. ASSUME NEW j \in 1..N, loc < j, j <= loc + Len(s) PROVE s[j - loc] \in Nat
  <2>1. j - loc \in 1..Len(s)
    BY <1>2, <1>3
  <2> QED
    BY <1>2, <2>1
<1>4. ASSUME NEW j \in 1..N
      PROVE  (IF loc < j /\ j <= loc + Len(s) THEN s[j - loc] ELSE m[j]) \in Nat
  BY <1>3
<1> QED
  BY <1>1, <1>4, Zenon

\* What a write does to the records next to it and to the ones it stores.
LEMMA CopiedHolds ==
  ASSUME NEW N \in Nat, NEW m \in [1..N -> Nat], NEW loc \in Nat, NEW s \in Seq(Nat),
         loc + Len(s) <= N, NEW r, Record(r), r.loc + r.len <= N
  PROVE  /\ HeldAt(r, m, r.loc) /\ Apart(r, loc, Len(s)) => HeldAt(r, memcpy(m, loc, s), r.loc)
         /\ HeldAt(r, s, r.loc - loc) /\ loc <= r.loc /\ r.loc + r.len <= loc + Len(s)
              => HeldAt(r, memcpy(m, loc, s), r.loc)
<1> DEFINE c == memcpy(m, loc, s)
           n == Len(s)
           k == r.loc
<1>1. /\ n \in Nat
      /\ \A j \in 1..N : c[j] = IF loc < j /\ j <= loc + n THEN s[j - loc] ELSE m[j]
  BY Copied, LenProperties
<1>2. k \in Nat /\ r.len \in Nat /\ k + r.len <= N
  BY DEF Record
<1> HIDE DEF c, n, k
<1>3. ASSUME HeldAt(r, m, k), Apart(r, loc, n), NEW i \in 1..r.len PROVE c[k + i] = Enc(r)[i]
  <2>1. k + i \in 1..N /\ ~ (loc < k + i /\ k + i <= loc + n)
    <3>1. k + r.len <= loc \/ loc + n <= k
      BY <1>3, Zenon DEF Apart, k
    <3>2. n \in Nat
      BY <1>1
    <3> QED
      BY <1>2, <3>1, <3>2
  <2>2. c[k + i] = m[k + i]
    BY <1>1, <2>1, Zenon
  <2> QED
    BY <1>3, <2>2 DEF HeldAt
<1>4. ASSUME HeldAt(r, s, k - loc), loc <= k, k + r.len <= loc + n, NEW i \in 1..r.len
      PROVE  c[k + i] = Enc(r)[i]
  <2>1. k + i \in 1..N /\ loc < k + i /\ k + i <= loc + n /\ (k + i) - loc = (k - loc) + i
    BY <1>1, <1>2, <1>4
  <2>2. c[k + i] = s[(k + i) - loc]
    BY <1>1, <2>1, Zenon
  <2>3. s[(k - loc) + i] = Enc(r)[i]
    BY <1>4 DEF HeldAt
  <2> QED
    BY <2>1, <2>2, <2>3, Zenon
<1> QED
  BY <1>3, <1>4 DEF HeldAt, c, n, k

LEMMA WriteKeeps ==
  ASSUME BufferInv, NEW b \in Buf, NEW loc \in Int, NEW s \in Seq(Nat), NEW new,
         loc >= 0 => \A r \in new :
            /\ Record(r) /\ loc <= r.loc /\ r.loc + r.len <= loc + Len(s)
            /\ HeldAt(r, s, r.loc - loc),
         Write(b, loc, s, new)
  PROVE  BufferInv'
<1>0. Memory /\ Records /\ state # "stray"
  BY DEF BufferInv
<1>1. Sizes[b] \in Nat /\ buf[b] \in [1..Sizes[b] -> Nat] /\ Len(buf[b]) = Sizes[b]
      /\ Len(s) \in Nat
  BY <1>0, SizesNat, BufferLen, LenProperties DEF Memory
<1>2. CASE ~ assert_valid_range(b, loc, Len(s))
  <2>1. state' = "stopped" /\ UNCHANGED <<buf, rec>>
    BY <1>2, Zenon DEF Write
  <2> QED
    BY <1>0, <2>1 DEF BufferInv, Memory, Records
<1>3. CASE assert_valid_range(b, loc, Len(s))
  <2>1. loc >= 0 /\ loc + Len(s) <= Sizes[b] /\ InBlock(b, loc, Len(s)) /\ loc \in Nat
    BY <1>1, <1>3 DEF assert_valid_range, InBlock
  <2>2. /\ buf' = [buf EXCEPT ![b] = memcpy(buf[b], loc, s)]
        /\ rec' = [rec EXCEPT ![b] = Kept(b, loc, Len(s)) \cup new]
        /\ state' = state
    BY <1>3, <2>1, Zenon DEF Write
  <2> DEFINE c == memcpy(buf[b], loc, s)
  <2>3. c \in [1..Sizes[b] -> Nat]
    BY <1>1, <2>1, Copied
  <2> HIDE DEF c
  <2>4. Memory'
    BY <1>0, <2>2, <2>3 DEF Memory, c
  <2>5. /\ buf'[b] = c /\ rec'[b] = Kept(b, loc, Len(s)) \cup new
        /\ \A a \in Buf : a # b => buf'[a] = buf[a] /\ rec'[a] = rec[a]
    BY <1>0, <2>2 DEF Memory, c
  <2>6. ASSUME NEW r \in rec'[b]
        PROVE  Record(r) /\ r.loc + r.len <= Sizes[b] /\ HeldAt(r, c, r.loc)
    <3>1. CASE r \in rec[b] /\ Apart(r, loc, Len(s))
      <4>1. Record(r) /\ r.loc + r.len <= Sizes[b] /\ HeldAt(r, buf[b], r.loc)
        BY <1>0, <3>1 DEF Records
      <4> QED
        BY <1>1, <2>1, <3>1, <4>1, CopiedHolds DEF c
    <3>2. CASE r \in new
      <4>1. /\ Record(r) /\ loc <= r.loc /\ r.loc + r.len <= loc + Len(s)
            /\ HeldAt(r, s, r.loc - loc)
        BY <2>1, <3>2, Zenon
      <4>2. r.loc + r.len <= Sizes[b]
        BY <1>1, <2>1, <4>1 DEF Record
      <4> QED
        BY <1>1, <2>1, <4>1, <4>2, CopiedHolds DEF c
    <3> QED
      BY <2>5, <3>1, <3>2, Zenon DEF Kept
  <2>7. Records'
    <3> SUFFICES ASSUME NEW a \in Buf, NEW r \in rec'[a]
                 PROVE  Record(r) /\ r.loc + r.len <= Sizes[a] /\ HeldAt(r, buf'[a], r.loc)
      BY DEF Records
    <3>1. CASE a = b
      BY <2>5, <2>6, <3>1, Zenon
    <3>2. CASE a # b
      <4>1. buf'[a] = buf[a] /\ r \in rec[a]
        BY <2>5, <3>2
      <4> QED
        BY <1>0, <4>1, Zenon DEF Records
    <3> QED
      BY <3>1, <3>2
  <2> QED
    BY <1>0, <2>2, <2>4, <2>7 DEF BufferInv
<1> QED
  BY <1>2, <1>3

LEMMA StoredNumber ==
  ASSUME Narrow, BufferInv, NEW b \in Buf, NEW loc \in Args, NEW len \in Lens,
         NEW num \in 0..Power[len] - 1, setBufferUIntLE(b, loc, num, len)
  PROVE  BufferInv'
<1> DEFINE s == Bytes(num, len)
           r == [loc |-> loc, len |-> len, int |-> TRUE, val |-> <<num>>]
<1>1. loc \in Int /\ int(loc) = loc /\ len \in Nat
  BY TextAssumption DEF Narrow
<1>2. Power[len] \in Nat
  BY <1>1, PowerSteps
<1>3. num \in Nat /\ num < Power[len]
  BY <1>2
<1>4. s \in Seq(Nat) /\ Len(s) = len
  <2>1. s \in [1..len -> Nat]
    BY <1>1, <1>3, BytesFacts
  <2> HIDE DEF s
  <2> QED
    BY <1>1, <2>1
<1>5. r.loc = loc /\ r.len = len /\ r.int = TRUE /\ r.val[1] = num
      /\ r = [loc |-> r.loc, len |-> r.len, int |-> r.int, val |-> r.val]
  OBVIOUS
<1>6. Enc(r) = s
  BY <1>5 DEF Enc
<1>7. Write(b, loc, s, {r})
  BY <1>1 DEF setBufferUIntLE
<1> HIDE DEF s, r
<1>8. ASSUME loc >= 0
      PROVE  /\ Record(r) /\ loc <= r.loc /\ r.loc + r.len <= loc + Len(s)
             /\ HeldAt(r, s, r.loc - loc)
  <2>1. Record(r)
    BY <1>1, <1>3, <1>5, <1>8 DEF Record
  <2>2. loc <= r.loc /\ r.loc + r.len <= loc + Len(s)
    BY <1>1, <1>4, <1>5
  <2>3. \A i \in 1..len : (loc - loc) + i = i
    BY <1>1
  <2>4. HeldAt(r, s, r.loc - loc)
    BY <1>5, <1>6, <2>3, Zenon DEF HeldAt
  <2> QED
    BY <2>1, <2>2, <2>4
<1> QED
  BY <1>1, <1>4, <1>7, <1>8, WriteKeeps

LEMMA StoredText ==
  ASSUME Narrow, BufferInv, NEW b \in Buf, NEW loc \in Args, NEW len \in Lens,
         NEW s \in [1..len -> Letter], setBufferString(b, loc, s)
  PROVE  BufferInv'
<1> DEFINE r == [loc |-> loc, len |-> Len(s), int |-> FALSE, val |-> s]
<1>1. loc \in Int /\ int(loc) = loc /\ len \in Nat
  BY TextAssumption DEF Narrow
<1>2. s \in Text /\ Len(s) = len
  BY <1>1 DEF Text
<1>3. s \in Seq(Nat)
  <2>0. Letter \subseteq Nat
    BY TextAssumption DEF Letter
  <2>1. s \in [1..len -> Nat]
    BY <2>0
  <2> QED
    BY <1>1, <2>1
<1>4. r.loc = loc /\ r.len = len /\ r.int = FALSE /\ r.val = s
      /\ r = [loc |-> r.loc, len |-> r.len, int |-> r.int, val |-> r.val]
  BY <1>2
<1>5. Enc(r) = s
  BY <1>4 DEF Enc
<1>6. Write(b, loc, s, {r})
  BY <1>1 DEF setBufferString
<1> HIDE DEF r
<1>7. ASSUME loc >= 0
      PROVE  /\ Record(r) /\ loc <= r.loc /\ r.loc + r.len <= loc + Len(s)
             /\ HeldAt(r, s, r.loc - loc)
  <2>1. Record(r)
    BY <1>1, <1>2, <1>4, <1>7 DEF Record
  <2>2. loc <= r.loc /\ r.loc + r.len <= loc + Len(s)
    BY <1>1, <1>2, <1>4
  <2>3. \A i \in 1..len : (loc - loc) + i = i
    BY <1>1
  <2>4. HeldAt(r, s, r.loc - loc)
    BY <1>4, <1>5, <2>3, Zenon DEF HeldAt
  <2> QED
    BY <2>1, <2>2, <2>4
<1> QED
  BY <1>1, <1>3, <1>6, <1>7, WriteKeeps

LEMMA SliceBytes ==
  ASSUME NEW m, NEW N, Array(m, N), NEW a \in Nat, NEW n \in Nat, a + n <= N
  PROVE  \A i \in 1..n : Slice(m, a, n)[i] = m[a + i]
BY PieceBytes DEF Slice, Array

ByteSeq(s, n) == s \in Seq(Nat) /\ Len(s) = n

LEMMA SliceLen ==
  ASSUME NEW m, NEW N, Array(m, N), NEW a \in Nat, NEW n \in Nat, a + n <= N,
         NEW s, s = Slice(m, a, n)
  PROVE  ByteSeq(s, n)
BY PieceBytes DEF Slice, Array, ByteSeq

\* A record that copyBuffer moves from f to l.
Relocated(r, f, l) == [loc |-> r.loc - f + l, len |-> r.len, int |-> r.int, val |-> r.val]

\* A record that lies in the range from f is held in the copy of that range.
LEMMA MovedRecord ==
  ASSUME NEW m, NEW N, Array(m, N), NEW f \in Nat, NEW n \in Nat, NEW l \in Nat,
         f + n <= N, NEW r, Record(r), HeldAt(r, m, r.loc), f <= r.loc, r.loc + r.len <= f + n,
         NEW q, q = Relocated(r, f, l)
  PROVE  /\ Record(q) /\ l <= q.loc /\ q.loc + q.len <= l + n
         /\ HeldAt(q, Slice(m, f, n), q.loc - l)
<1>1. /\ r = [loc |-> r.loc, len |-> r.len, int |-> r.int, val |-> r.val]
      /\ r.loc \in Nat /\ r.len \in Nat
  BY DEF Record
<1>3. q.loc = r.loc - f + l /\ q.len = r.len /\ q.int = r.int /\ q.val = r.val
  BY DEF Relocated
<1>4. q = [loc |-> q.loc, len |-> q.len, int |-> q.int, val |-> q.val]
  BY DEF Relocated
<1>5. q.loc \in Nat /\ l <= q.loc /\ q.loc + q.len <= l + n /\ q.loc - l = r.loc - f
  BY <1>1, <1>3
<1>6. Record(q)
  BY <1>3, <1>4, <1>5 DEF Record
<1>7. Enc(q) = Enc(r)
  BY <1>3 DEF Enc
<1> DEFINE p == Slice(m, f, n)
<1>8. \A i \in 1..n : p[i] = m[f + i]
  BY SliceBytes
<1> HIDE DEF p
<1>9. ASSUME NEW i \in 1..q.len PROVE p[(q.loc - l) + i] = Enc(q)[i]
  <2> DEFINE k == r.loc
             j == (k - f) + i
  <2>1. i \in 1..r.len /\ (q.loc - l) + i = j
    BY <1>3, <1>5, Zenon
  <2>2. k \in Nat /\ r.len \in Nat /\ f <= k /\ k + r.len <= f + n
    BY <1>1
  <2>3. HeldAt(r, m, k)
    OBVIOUS
  <2> HIDE DEF k
  <2>4. j \in 1..n /\ f + j = k + i
    BY <2>1, <2>2
  <2> HIDE DEF j
  <2>5. p[j] = m[k + i]
    BY <1>8, <2>4, Zenon
  <2>6. m[k + i] = Enc(r)[i]
    BY <2>1, <2>3, Zenon DEF HeldAt
  <2> QED
    BY <1>7, <2>1, <2>5, <2>6, Zenon
<1> QED
  BY <1>5, <1>6, <1>9 DEF HeldAt, p

LEMMA CopyKeeps ==
  ASSUME Narrow, ~ Overlap, BufferInv, NEW a \in Buf, NEW b \in Buf, NEW from \in Args,
         NEW len \in Args, NEW loc \in Args, copyBuffer(a, from, len, b, loc)
  PROVE  BufferInv'
<1> DEFINE within == {r \in rec[a] : r.loc >= from /\ r.loc + r.len <= from + len}
           new == {[r EXCEPT !.loc = r.loc - from + loc] : r \in within}
           Source == IF a = b THEN Moved(a, from, len, loc)
                     ELSE {SubSeq(buf[a], from + 1, from + len)}
<1>0. Memory /\ Records /\ state # "stray"
  BY DEF BufferInv
<1>1. /\ from \in Int /\ len \in Int /\ loc \in Int
      /\ int(from) = from /\ int(len) = len /\ int(loc) = loc
  BY TextAssumption DEF Narrow
<1>2. /\ a = b => from + len <= loc \/ loc + len <= from
      /\ IF ~ assert_valid_range(a, from, len) \/ ~ assert_valid_range(b, loc, len)
         THEN state' = "stopped" /\ UNCHANGED <<buf, rec>>
         ELSE IF ~ InBlock(a, from, len) \/ ~ InBlock(b, loc, len)
         THEN state' = "stray" /\ UNCHANGED <<buf, rec>>
         ELSE \E s \in Source : Write(b, loc, s, new)
  BY <1>1, Zenon DEF copyBuffer
<1> HIDE DEF Source, new
<1>3. CASE ~ assert_valid_range(a, from, len) \/ ~ assert_valid_range(b, loc, len)
  <2>1. state' = "stopped" /\ UNCHANGED <<buf, rec>>
    BY <1>2, <1>3, Zenon
  <2> QED
    BY <1>0, <2>1 DEF BufferInv, Memory, Records
<1>4. CASE assert_valid_range(a, from, len) /\ assert_valid_range(b, loc, len)
  <2>1. /\ from \in Nat /\ len \in Nat /\ loc \in Nat
        /\ from + len <= Sizes[a] /\ loc + len <= Sizes[b]
        /\ InBlock(a, from, len) /\ InBlock(b, loc, len)
    BY <1>0, <1>1, <1>4, BufferLen DEF assert_valid_range, InBlock
  <2>2. PICK s \in Source : Write(b, loc, s, new)
    BY <1>2, <1>4, <2>1, Zenon
  <2>3. Sizes[a] \in Nat /\ buf[a] \in [1..Sizes[a] -> Nat] /\ Array(buf[a], Sizes[a])
    BY <1>0, SizesNat DEF Memory, Array
  <2>4. s = Slice(buf[a], from, len)
    <3>1. CASE a = b
      <4>1. Disjoint(buf[a], Sizes[a], from, loc, len)
        BY <1>2, <2>1, <2>3, <3>1 DEF Disjoint
      <4> QED
        BY <2>2, <3>1, <4>1, MovedApart DEF Source
    <3>2. CASE a # b
      BY <2>2, <3>2, Zenon DEF Source, Slice
    <3> QED
      BY <3>1, <3>2
  <2>5. s \in Seq(Nat) /\ Len(s) = len
    <3>1. from \in Nat /\ len \in Nat /\ from + len <= Sizes[a] /\ Array(buf[a], Sizes[a])
      BY <2>1, <2>3, Zenon
    <3>2. ByteSeq(s, len)
      BY <2>4, <3>1, SliceLen
    <3> QED
      BY <3>2 DEF ByteSeq
  <2>6. ASSUME NEW q \in new
        PROVE  /\ Record(q) /\ loc <= q.loc /\ q.loc + q.len <= loc + Len(s)
               /\ HeldAt(q, s, q.loc - loc)
    <3>1. PICK r \in rec[a] : /\ r.loc >= from /\ r.loc + r.len <= from + len
                              /\ q = [r EXCEPT !.loc = r.loc - from + loc]
      BY <2>6, Zenon DEF new
    <3>2. Record(r) /\ HeldAt(r, buf[a], r.loc)
      BY <1>0 DEF Records
    <3>3. from <= r.loc
      BY <2>1, <3>1, <3>2 DEF Record
    <3>a. q = Relocated(r, from, loc)
      <4>1. r = [loc |-> r.loc, len |-> r.len, int |-> r.int, val |-> r.val]
        BY <3>2 DEF Record
      <4> QED
        BY <3>1, <4>1 DEF Relocated
    <3>b. r.loc + r.len <= from + len
      BY <3>1
    <3>4. /\ Record(q) /\ loc <= q.loc /\ q.loc + q.len <= loc + len
          /\ HeldAt(q, Slice(buf[a], from, len), q.loc - loc)
      BY <2>1, <2>3, <3>a, <3>b, <3>2, <3>3, MovedRecord
    <3> QED
      BY <2>4, <2>5, <3>4, Zenon
  <2> QED
    BY <1>1, <2>2, <2>5, <2>6, WriteKeeps
<1> QED
  BY <1>3, <1>4

LEMMA StringsLeaveBuffers ==
  ASSUME BufferInv, StringOp
  PROVE  BufferInv'
<1>1. UNCHANGED <<buf, rec>> /\ (state' = state \/ state' = "stopped")
  <2>0. Stop => UNCHANGED <<buf, rec>> /\ state' = "stopped"
    BY Zenon DEF Stop
  <2>1. \A r, b, s, lens : Set(r, b, s, lens)
          => UNCHANGED <<buf, rec>> /\ (state' = state \/ state' = "stopped")
    <3> SUFFICES ASSUME NEW r, NEW b, NEW s, NEW lens, Set(r, b, s, lens)
                 PROVE  UNCHANGED <<buf, rec>> /\ (state' = state \/ state' = "stopped")
      BY Zenon
    <3>1. Stop \/ UNCHANGED <<buf, rec, state>>
      BY DEF Set
    <3> QED
      BY <2>0, <3>1
  <2>2. \A r, start, len : substr(r, start, len)
          => UNCHANGED <<buf, rec>> /\ (state' = state \/ state' = "stopped")
    BY <2>1, Zenon DEF substr
  <2>3. \A r : stringIteratorNew(r)
          => UNCHANGED <<buf, rec>> /\ (state' = state \/ state' = "stopped")
    <3> SUFFICES ASSUME NEW r, stringIteratorNew(r)
                 PROVE  UNCHANGED <<buf, rec>> /\ (state' = state \/ state' = "stopped")
      BY Zenon
    <3>1. Stop \/ UNCHANGED <<buf, rec, state>>
      BY DEF stringIteratorNew
    <3> QED
      BY <2>0, <3>1
  <2>4. stringIteratorNext => UNCHANGED <<buf, rec>> /\ state' = state
    BY Zenon DEF stringIteratorNext
  <2> QED
    BY <2>1, <2>2, <2>3, <2>4, Zenon DEF StringOp, strTail, strReverse, cons, append, pack,
       concat, stringIteratorToString
<1>2. Memory' /\ Records'
  BY <1>1 DEF BufferInv, Memory, Records
<1> QED
  BY <1>1, <1>2 DEF BufferInv

LEMMA BufferStep ==
  ASSUME Narrow, ~ Overlap PROVE BufferInv /\ [Next]_vars => BufferInv'
<1> SUFFICES ASSUME BufferInv, [Next]_vars PROVE BufferInv'
  OBVIOUS
<1>1. CASE UNCHANGED vars
  BY <1>1 DEF BufferInv, Memory, Records, vars
<1>2. CASE BufferOp
  BY <1>2, StoredNumber, StoredText, CopyKeeps DEF BufferOp
<1> QED
  BY <1>1, <1>2, StringsLeaveBuffers DEF Next

LEMMA HeldIsRead == BufferInv => BufferFaithful
<1> SUFFICES ASSUME BufferInv PROVE BufferFaithful
  OBVIOUS
<1>0. Memory /\ Records /\ state # "stray"
  BY DEF BufferInv
<1> SUFFICES ASSUME NEW b \in Buf, NEW r \in rec[b]
             PROVE  IF r.int THEN getBufferUIntLE(b, r.loc, r.len) = r.val[1]
                    ELSE getBufferString(b, r.loc, r.len) = r.val
  BY <1>0 DEF BufferFaithful
<1>1. /\ Record(r) /\ r.loc + r.len <= Sizes[b] /\ HeldAt(r, buf[b], r.loc)
      /\ Array(buf[b], Sizes[b])
  BY <1>0, SizesNat DEF Records, Memory, Array
<1>2. r.loc \in Nat /\ r.len \in Nat
  BY <1>1 DEF Record
<1> DEFINE k == r.loc
           n == r.len
<1>3. CASE r.int
  <2> DEFINE v == r.val[1]
  <2>1. v \in Nat /\ v < Power[n]
    BY <1>1, <1>3 DEF Record
  <2>2. Written(buf[b], k, v, n)
    BY <1>1, <1>3, Zenon DEF HeldAt, Enc, Written
  <2>3. k \in Nat /\ n \in Nat
    BY <1>2
  <2>4. getBufferUIntLE(b, k, n) = v
    <3> HIDE DEF v, k, n
    <3> QED
      BY <2>1, <2>2, <2>3, ReadNumber
  <2> QED
    BY <1>3, <2>4
<1>4. CASE ~ r.int
  <2> DEFINE v == r.val
  <2>1. v \in Text /\ n = Len(v)
    BY <1>1, <1>4 DEF Record
  <2>2. \A i \in 1..n : buf[b][k + i] = v[i]
    BY <1>1, <1>4, Zenon DEF HeldAt, Enc
  <2>3. k \in Nat /\ k + n <= Sizes[b]
    BY <1>1, <1>2
  <2>4. getBufferString(b, k, n) = v
    <3> HIDE DEF v, k, n
    <3>1. \A i \in 1..Len(v) : buf[b][k + i] = v[i]
      BY <2>1, <2>2, Zenon
    <3>2. k + Len(v) <= Sizes[b]
      BY <2>1, <2>3, Zenon
    <3>3. getBufferString(b, k, Len(v)) = v
      BY <1>1, <2>1, <2>3, <3>1, <3>2, ReadText
    <3> QED
      BY <2>1, <3>3, Zenon
  <2> QED
    BY <1>4, <2>4
<1> QED
  BY <1>3, <1>4

\* What setBufferUIntLE and setBufferString store in a buffer, and copyBuffer
\* moves, is what getBufferUIntLE and getBufferString read back until a write
\* reaches it, and no call touches memory outside of a buffer, for buffers,
\* numbers and strings of any size, as long as offsets and lengths fit into an
\* int and no copy inside a buffer overlaps itself.
THEOREM TextBufferFaithful == ASSUME Narrow, ~ Overlap PROVE Spec => []BufferFaithful
BY BufferInit, BufferStep, HeldIsRead, PTL DEF Spec

-----------------------------------------------------------------------------
(***************************************************************************)
(* Integers.  A conversion is known by two facts: its result is in the     *)
(* range of the type, and differs from the number by a multiple of the     *)
(* number of values of the type.                                           *)
(***************************************************************************)

LEMMA Pow2Steps == /\ Pow2 \in [Nat -> Nat] /\ Pow2[0] = 1
                   /\ \A n \in Nat : Pow2[n + 1] = 2 * Pow2[n]
<1>1. Pow2 = PowersOf(2)
  BY Zenon DEF Pow2, PowersOf
<1>2. 2 \in Nat
  OBVIOUS
<1> QED
  BY <1>1, <1>2, Powers, Zenon

LEMMA Pow2Positive == \A n \in Nat : Pow2[n] \in Nat /\ Pow2[n] > 0
<1> DEFINE T == {n \in Nat : Pow2[n] \in Nat /\ Pow2[n] > 0}
<1>1. 0 \in T
  BY Pow2Steps
<1>2. ASSUME NEW n \in Nat, n \in T PROVE n + 1 \in T
  BY <1>2, Pow2Steps
<1> HIDE DEF T
<1>3. Nat \subseteq T
  BY <1>1, <1>2, Inductive
<1> QED
  BY <1>3 DEF T

\* A power of two divides the larger ones.
LEMMA Pow2Divides ==
  ASSUME NEW m \in Nat, NEW n \in Nat, m <= n
  PROVE  \E k \in Nat : k > 0 /\ Pow2[n] = k * Pow2[m]
<1> DEFINE T == {i \in Nat : \E k \in Nat : k > 0 /\ Pow2[m + i] = k * Pow2[m]}
<1>1. 0 \in T
  <2>1. 1 \in Nat /\ 1 > 0 /\ Pow2[m + 0] = 1 * Pow2[m]
    BY Pow2Positive
  <2> QED
    BY <2>1
<1>2. ASSUME NEW i \in Nat, i \in T PROVE i + 1 \in T
  <2>1. PICK k \in Nat : k > 0 /\ Pow2[m + i] = k * Pow2[m]
    BY <1>2
  <2>2. m + i \in Nat /\ m + (i + 1) = (m + i) + 1
    OBVIOUS
  <2>3. Pow2[m + (i + 1)] = 2 * Pow2[m + i]
    BY <2>2, Pow2Steps
  <2>4. 2 * k \in Nat /\ 2 * k > 0 /\ 2 * (k * Pow2[m]) = (2 * k) * Pow2[m]
    BY <2>1, Pow2Positive
  <2> QED
    BY <2>1, <2>3, <2>4
<1> HIDE DEF T
<1>3. Nat \subseteq T
  BY <1>1, <1>2, Inductive
<1>4. n - m \in Nat /\ m + (n - m) = n
  OBVIOUS
<1> QED
  BY <1>3, <1>4 DEF T

LEMMA Pow2Grows == ASSUME NEW m \in Nat, NEW n \in Nat, m <= n PROVE Pow2[m] <= Pow2[n]
<1>1. PICK k \in Nat : k > 0 /\ Pow2[n] = k * Pow2[m]
  BY Pow2Divides
<1> QED
  BY <1>1, Pow2Positive

\* Quotient and remainder of a positive divisor, and that they are unique.
LEMMA Division ==
  ASSUME NEW a \in Int, NEW d \in Nat, d > 0
  PROVE  a \div d \in Int /\ a % d \in 0..d - 1 /\ a = d * (a \div d) + (a % d)
<1>1. a \div d \in Int /\ a % d \in 0..d - 1
  OBVIOUS
<1> QED
  BY <1>1

LEMMA OneDivision ==
  ASSUME NEW d \in Nat, d > 0, NEW q \in Int, NEW r \in 0..d - 1,
         NEW x \in Int, NEW y \in 0..d - 1, d * x + y = d * q + r
  PROVE  x = q /\ y = r
<1>1. ASSUME x < q PROVE FALSE
  <2>1. q - x \in Nat /\ q - x >= 1 /\ d * (q - x) = y - r
    BY <1>1
  <2>2. d * (q - x) >= d
    BY <2>1
  <2> QED
    BY <2>1, <2>2
<1>2. ASSUME q < x PROVE FALSE
  <2>1. x - q \in Nat /\ x - q >= 1 /\ d * (x - q) = r - y
    BY <1>2
  <2>2. d * (x - q) >= d
    BY <2>1
  <2> QED
    BY <2>1, <2>2
<1>3. x = q
  BY <1>1, <1>2
<1> QED
  BY <1>3

LEMMA Divided ==
  ASSUME NEW a \in Int, NEW d \in Nat, d > 0, NEW q \in Int, NEW r \in 0..d - 1, a = d * q + r
  PROVE  a \div d = q /\ a % d = r
<1> DEFINE x == a \div d
           y == a % d
<1>1. x \in Int /\ y \in 0..d - 1 /\ d * x + y = d * q + r
  BY Division
<1> HIDE DEF x, y
<1>2. x = q /\ y = r
  BY <1>1, OneDivision
<1> QED
  BY <1>2 DEF x, y

\* a and b leave the same remainder when they are divided by d.
Same(a, b, d) == \E k \in Int : a - b = k * d

LEMMA SameTwice ==
  ASSUME NEW a \in Int, NEW b \in Int, NEW c \in Int, NEW d \in Nat, Same(a, b, d), Same(b, c, d)
  PROVE  Same(a, c, d)
<1>1. PICK k \in Int : a - b = k * d
  BY DEF Same
<1>2. PICK l \in Int : b - c = l * d
  BY DEF Same
<1>3. k + l \in Int /\ a - c = (k + l) * d
  BY <1>1, <1>2
<1> QED
  BY <1>3 DEF Same

LEMMA SameBack ==
  ASSUME NEW a \in Int, NEW b \in Int, NEW d \in Nat, Same(a, b, d) PROVE Same(b, a, d)
<1>1. PICK k \in Int : a - b = k * d
  BY DEF Same
<1>2. -k \in Int /\ b - a = (-k) * d
  BY <1>1
<1> QED
  BY <1>2 DEF Same

LEMMA SameItself == ASSUME NEW a \in Int, NEW d \in Nat PROVE Same(a, a, d)
<1>1. 0 \in Int /\ a - a = 0 * d
  OBVIOUS
<1> QED
  BY <1>1 DEF Same

\* What holds for a power of two holds for the smaller ones.
LEMMA SameLess ==
  ASSUME NEW a \in Int, NEW b \in Int, NEW m \in Nat, NEW n \in Nat, m <= n, Same(a, b, Pow2[n])
  PROVE  Same(a, b, Pow2[m])
<1>1. PICK k \in Int : a - b = k * Pow2[n]
  BY DEF Same
<1>2. PICK l \in Nat : l > 0 /\ Pow2[n] = l * Pow2[m]
  BY Pow2Divides
<1> DEFINE p == Pow2[m]
<1>3. p \in Nat
  BY Pow2Positive
<1>4. a - b = k * (l * p)
  BY <1>1, <1>2
<1> HIDE DEF p
<1>5. k * l \in Int /\ k * (l * p) = (k * l) * p
  BY <1>2, <1>3
<1>6. Same(a, b, p)
  BY <1>4, <1>5 DEF Same
<1> QED
  BY <1>6 DEF p

LEMMA SameRemainder ==
  ASSUME NEW a \in Int, NEW d \in Nat, d > 0 PROVE a % d \in Int /\ Same(a % d, a, d)
<1> DEFINE q == a \div d
           r == a % d
<1>1. q \in Int /\ r \in 0..d - 1 /\ a = d * q + r
  BY Division
<1> HIDE DEF q, r
<1>2. -q \in Int /\ r - a = (-q) * d
  BY <1>1
<1>3. r \in Int /\ Same(r, a, d)
  BY <1>1, <1>2 DEF Same
<1> QED
  BY <1>3 DEF r

LEMMA Widths == \A t : Width(t) \in Nat /\ Width(t) >= 2
BY WordsAssumption DEF Width

LEMMA WidthOrder == /\ W8 \in Nat /\ W16 \in Nat /\ W32 \in Nat /\ W64 \in Nat
                    /\ 2 <= W8 /\ W8 < W16 /\ W16 < W32 /\ W32 < W64
BY WordsAssumption

\* The range of a type with w bits, and how many values it has.
Fits(t, n) == Least(t) <= n /\ n <= Most(t)

LEMMA Limits ==
  \A t : /\ Least(t) \in Int /\ Most(t) \in Int /\ Pow2[Width(t)] \in Nat /\ Pow2[Width(t)] > 0
         /\ Most(t) = Least(t) + Pow2[Width(t)] - 1
         /\ Least(t) <= 0 /\ 1 <= Most(t)
<1> SUFFICES ASSUME NEW t
             PROVE  /\ Least(t) \in Int /\ Most(t) \in Int
                    /\ Pow2[Width(t)] \in Nat /\ Pow2[Width(t)] > 0
                    /\ Most(t) = Least(t) + Pow2[Width(t)] - 1
                    /\ Least(t) <= 0 /\ 1 <= Most(t)
  OBVIOUS
<1> DEFINE n == Width(t) - 2
<1>1. n \in Nat /\ Width(t) - 1 = n + 1 /\ Width(t) = (n + 1) + 1
  BY Widths
<1> HIDE DEF n
<1>2. Pow2[n] \in Nat /\ Pow2[n] > 0
  BY <1>1, Pow2Positive
<1>3. Pow2[Width(t) - 1] = 2 * Pow2[n]
  BY <1>1, Pow2Steps
<1>4. Pow2[Width(t)] = 2 * (2 * Pow2[n])
  BY <1>1, Pow2Steps
<1> QED
  BY <1>2, <1>3, <1>4 DEF Least, Most

LEMMA Converted ==
  ASSUME NEW t \in Fixed, NEW n \in Int
  PROVE  /\ Convert(t, n) \in Int /\ Fits(t, Convert(t, n))
         /\ Same(Convert(t, n), n, Pow2[Width(t)])
<1> DEFINE lo == Least(t)
           p == Pow2[Width(t)]
           r == (n - lo) % p
<1>1. lo \in Int /\ p \in Nat /\ p > 0 /\ Most(t) = lo + p - 1
  BY Limits
<1>2. Convert(t, n) = lo + r
  BY DEF Convert
<1> HIDE DEF lo, p
<1>3. n - lo \in Int
  BY <1>1
<1>4. r \in 0..p - 1
  BY <1>1, <1>3, Division
<1>5. Same(r, n - lo, p)
  BY <1>1, <1>3, SameRemainder
<1> HIDE DEF r
<1>6. PICK k \in Int : r - (n - lo) = k * p
  BY <1>5 DEF Same
<1>7. (lo + r) - n = k * p
  BY <1>1, <1>4, <1>6
<1>8. Same(lo + r, n, p)
  BY <1>7 DEF Same
<1>9. lo + r \in Int /\ lo <= lo + r /\ lo + r <= lo + p - 1
  BY <1>1, <1>4
<1>10. Convert(t, n) \in Int /\ lo <= Convert(t, n) /\ Convert(t, n) <= Most(t)
  BY <1>1, <1>2, <1>9
<1> QED
  BY <1>2, <1>8, <1>10 DEF lo, p, Fits

LEMMA ConvertOnly ==
  ASSUME NEW t \in Fixed, NEW n \in Int, NEW r \in Int, Fits(t, r), Same(r, n, Pow2[Width(t)])
  PROVE  Convert(t, n) = r
<1> DEFINE lo == Least(t)
           p == Pow2[Width(t)]
<1>1. lo \in Int /\ p \in Nat /\ p > 0 /\ Most(t) = lo + p - 1
  BY Limits
<1>2. Convert(t, n) = lo + ((n - lo) % p)
  BY DEF Convert
<1>3. lo <= r /\ r <= lo + p - 1
  BY <1>1 DEF Fits
<1>4. PICK k \in Int : r - n = k * p
  BY DEF Same
<1> HIDE DEF lo, p
<1>5. /\ n - lo \in Int /\ -k \in Int /\ r - lo \in 0..p - 1
      /\ n - lo = p * (-k) + (r - lo)
  <2>1. n - lo \in Int /\ -k \in Int /\ r - lo \in 0..p - 1
    BY <1>1, <1>3
  <2>2. n = r - k * p
    BY <1>1, <1>4
  <2>3. p * (-k) = - (k * p)
    BY <1>1
  <2> QED
    BY <1>1, <2>1, <2>2, <2>3
<1>6. (n - lo) % p = r - lo
  BY <1>1, <1>5, Divided
<1> QED
  BY <1>1, <1>2, <1>6

\* A number in the range of its type is not changed; an Integer never is.
LEMMA ConvertFits ==
  ASSUME NEW t \in Fixed, NEW n \in Int, Fits(t, n) PROVE Convert(t, n) = n
<1>1. Same(n, n, Pow2[Width(t)])
  BY Limits, SameItself
<1> QED
  BY <1>1, ConvertOnly

LEMMA ConvertOther == ASSUME NEW t, t \notin Fixed, NEW n PROVE Convert(t, n) = n
BY DEF Convert

LEMMA ConvertInt == ASSUME NEW t, NEW n \in Int PROVE Convert(t, n) \in Int
BY Converted, ConvertOther

\* Numbers that agree in the bits of a type are converted to the same value.
LEMMA ConvertSame ==
  ASSUME NEW t \in Fixed, NEW a \in Int, NEW b \in Int, Same(a, b, Pow2[Width(t)])
  PROVE  Convert(t, a) = Convert(t, b)
<1> DEFINE r == Convert(t, b)
<1>1. r \in Int /\ Fits(t, r) /\ Same(r, b, Pow2[Width(t)])
  BY Converted
<1>2. Pow2[Width(t)] \in Nat
  BY Limits
<1> HIDE DEF r
<1>3. Same(r, a, Pow2[Width(t)])
  BY <1>1, <1>2, SameBack, SameTwice
<1>4. Convert(t, a) = r
  BY <1>1, <1>3, ConvertOnly
<1> QED
  BY <1>4 DEF r

\* A conversion to a type that is not wider than the one before.
LEMMA ConvertNarrower ==
  ASSUME NEW t \in Fixed, NEW u \in Fixed, Width(u) <= Width(t), NEW n \in Int
  PROVE  Convert(u, Convert(t, n)) = Convert(u, n)
<1> DEFINE r == Convert(t, n)
<1>1. r \in Int /\ Same(r, n, Pow2[Width(t)])
  BY Converted
<1> HIDE DEF r
<1>2. Same(r, n, Pow2[Width(u)])
  BY <1>1, Widths, SameLess
<1>3. Convert(u, r) = Convert(u, n)
  BY <1>1, <1>2, ConvertSame
<1> QED
  BY <1>3 DEF r

LEMMA ConvertTwice ==
  ASSUME NEW t, NEW n \in Int PROVE Convert(t, Convert(t, n)) = Convert(t, n)
<1>1. CASE t \in Fixed
  <2>1. Width(t) <= Width(t)
    BY Widths
  <2> QED
    BY <1>1, <2>1, ConvertNarrower
<1>2. CASE t \notin Fixed
  BY <1>2, ConvertOther
<1> QED
  BY <1>1, <1>2

-----------------------------------------------------------------------------
(* What the makers store and the readers read. *)

LEMMA Narrows ==
  ASSUME NEW t, Width(t) <= W32
  PROVE  t \in {"Int8", "Bits8", "Int16", "Bits16", "Int32", "Bits32"} /\ t \in Fixed
BY WidthOrder DEF Width, Fixed, Signed, Unsigned

\* Half a pointer has the bits of every type that is kept in it.
LEMMA HalfWord ==
  ASSUME NEW t, Width(t) <= W32, NEW n \in Int
  PROVE  n % Pow2[W32] \in 0..Pow2[W32] - 1 /\ Convert(t, n % Pow2[W32]) = Convert(t, n)
<1> DEFINE p == Pow2[W32]
           r == n % p
<1>1. p \in Nat /\ p > 0
  BY WidthOrder, Pow2Positive
<1>2. r \in 0..p - 1 /\ r \in Int /\ Same(r, n, Pow2[W32])
  <2> HIDE DEF p
  <2>1. n % p \in 0..p - 1 /\ n % p \in Int /\ Same(n % p, n, p)
    BY <1>1, Division, SameRemainder
  <2> QED
    BY <2>1 DEF p
<1> HIDE DEF r
<1>3. Same(r, n, Pow2[Width(t)])
  BY <1>2, Widths, WidthOrder, SameLess
<1>4. Convert(t, r) = Convert(t, n)
  BY <1>2, <1>3, Narrows, ConvertSame
<1> QED
  BY <1>2, <1>4 DEF r

\* Whatever number the maker of a type is given, the reader finds the value of
\* the type that has its bits.
LEMMA ReadsMade ==
  ASSUME NEW t, NEW n \in Int
  PROVE  /\ mk(t, n) \in Int /\ vp_to(t, mk(t, n)) = Convert(t, n)
         /\ Width(t) <= W32 => mk(t, n) \in 0..Pow2[W32] - 1
<1>1. CASE Width(t) <= W32
  <2>1. mk(t, n) = n % Pow2[W32]
    BY <1>1 DEF mk
  <2> QED
    BY <1>1, <2>1, HalfWord DEF vp_to
<1>2. CASE ~ (Width(t) <= W32)
  <2>1. mk(t, n) = Convert(t, n)
    BY <1>2 DEF mk
  <2> QED
    BY <1>2, <2>1, ConvertInt, ConvertTwice DEF vp_to
<1> QED
  BY <1>1, <1>2

-----------------------------------------------------------------------------
(* Division. *)

LEMMA AbsFacts == \A b \in Int : Abs(b) \in Nat /\ (b # 0 => Abs(b) > 0)
BY DEF Abs

\* The division of C, from the quotient and the remainder without signs.
LEMMA QuotFacts ==
  ASSUME NEW a \in Int, NEW b \in Int, b # 0
  PROVE  \E q \in Nat : \E s \in 0..Abs(b) - 1 :
           /\ Abs(a) = Abs(b) * q + s
           /\ Quot(a, b) = IF (a < 0) = (b < 0) THEN q ELSE -q
           /\ Rem(a, b) = IF a < 0 THEN -s ELSE s
<1> DEFINE d == Abs(b)
           q == Abs(a) \div d
           s == Abs(a) % d
<1>1. d \in Nat /\ d > 0 /\ Abs(a) \in Nat
  BY AbsFacts
<1>2. Quot(a, b) = IF (a < 0) = (b < 0) THEN q ELSE -q
  BY DEF Quot
<1>3. q \in Int /\ s \in 0..d - 1 /\ Abs(a) = d * q + s
  <2> HIDE DEF d
  <2>1. Abs(a) \in Int
    BY <1>1
  <2> QED
    BY <1>1, <2>1, Division
<1> HIDE DEF q, s
<1>4. q \in Nat
  <2>1. ASSUME q < 0 PROVE FALSE
    <3> HIDE DEF d
    <3>1. -q - 1 \in Nat /\ d * (-q - 1) >= 0
      BY <1>1, <1>3, <2>1
    <3>2. d * (-q - 1) = -(d * q) - d
      BY <1>1, <1>3
    <3> QED
      BY <1>1, <1>3, <3>1, <3>2
  <2> QED
    BY <1>3, <2>1
<1>5. Rem(a, b) = a - b * Quot(a, b)
  BY DEF Rem
<1>6. Rem(a, b) = IF a < 0 THEN -s ELSE s
  <2>1. CASE a < 0 /\ b < 0
    <3>1. d = -b /\ Abs(a) = -a /\ Quot(a, b) = q
      BY <1>2, <2>1 DEF Abs
    <3>2. b * q = -((-b) * q)
      BY <1>4
    <3> QED
      BY <1>3, <1>4, <1>5, <2>1, <3>1, <3>2
  <2>2. CASE a < 0 /\ ~ (b < 0)
    <3>1. d = b /\ Abs(a) = -a /\ Quot(a, b) = -q
      BY <1>2, <2>2 DEF Abs
    <3>2. b * (-q) = -(b * q)
      BY <1>4
    <3> QED
      BY <1>3, <1>4, <1>5, <2>2, <3>1, <3>2
  <2>3. CASE ~ (a < 0) /\ b < 0
    <3>1. d = -b /\ Abs(a) = a /\ Quot(a, b) = -q
      BY <1>2, <2>3 DEF Abs
    <3>2. b * (-q) = (-b) * q
      BY <1>4
    <3> QED
      BY <1>3, <1>4, <1>5, <2>3, <3>1, <3>2
  <2>4. CASE ~ (a < 0) /\ ~ (b < 0)
    <3>1. d = b /\ Abs(a) = a /\ Quot(a, b) = q
      BY <1>2, <2>4 DEF Abs
    <3> QED
      BY <1>3, <1>4, <1>5, <2>4, <3>1
  <2> QED
    BY <2>1, <2>2, <2>3, <2>4
<1> QED
  BY <1>2, <1>3, <1>4, <1>6

\* The division of Idris, from the same quotient and remainder.
LEMMA EuclidFacts ==
  ASSUME NEW a \in Int, NEW b \in Int, b # 0, NEW q \in Nat, NEW s \in 0..Abs(b) - 1,
         Abs(a) = Abs(b) * q + s
  PROVE  LET k == IF a >= 0 THEN q ELSE IF s = 0 THEN -q ELSE -q - 1
             m == IF a >= 0 \/ s = 0 THEN s ELSE Abs(b) - s
         IN /\ a \div Abs(b) = k /\ a % Abs(b) = m
            /\ Euclid("mod", a, b) = m /\ Euclid("div", a, b) = IF b < 0 THEN -k ELSE k
<1> DEFINE d == Abs(b)
           k == IF a >= 0 THEN q ELSE IF s = 0 THEN -q ELSE -q - 1
           m == IF a >= 0 \/ s = 0 THEN s ELSE d - s
<1>1. d \in Nat /\ d > 0
  BY AbsFacts
<1>2. k \in Int /\ m \in 0..d - 1 /\ a = d * k + m
  <2>1. Abs(a) = d * q + s
    OBVIOUS
  <2>2. s \in 0..d - 1
    OBVIOUS
  <2> HIDE DEF d
  <2>3. CASE a >= 0
    BY <1>1, <2>1, <2>2, <2>3 DEF Abs
  <2>4. CASE ~ (a >= 0) /\ s = 0
    <3>1. d * (-q) = -(d * q)
      BY <1>1
    <3> QED
      BY <1>1, <2>1, <2>4, <3>1 DEF Abs
  <2>5. CASE ~ (a >= 0) /\ s # 0
    <3>1. d * (-q - 1) = -(d * q) - d
      BY <1>1
    <3> QED
      BY <1>1, <2>1, <2>2, <2>5, <3>1 DEF Abs
  <2> QED
    BY <2>3, <2>4, <2>5
<1> HIDE DEF d, k, m
<1>3. a \div d = k /\ a % d = m
  BY <1>1, <1>2, Divided
<1>4. (a - m) \div d = k
  <2>1. a - m \in Int /\ 0 \in 0..d - 1 /\ a - m = d * k + 0
    BY <1>1, <1>2
  <2> QED
    BY <1>1, <1>2, <2>1, Divided
<1>5. Euclid("mod", a, b) = m /\ Euclid("div", a, b) = IF b < 0 THEN -k ELSE k
  <2>1. Euclid("mod", a, b) = a % d
    BY DEF Euclid, d
  <2>2. Euclid("div", a, b) = IF b < 0 THEN -((a - (a % d)) \div d) ELSE (a - (a % d)) \div d
    BY DEF Euclid, d
  <2> QED
    BY <1>3, <1>4, <2>1, <2>2
<1> QED
  BY <1>3, <1>5 DEF d, k, m

\* The correction in idris2_div_IntN makes the quotient Euclidean.
LEMMA DivInt ==
  ASSUME NEW a \in Int, NEW b \in Int, b # 0
  PROVE  div_Int(a, b) \in Int /\ div_Int(a, b) = Euclid("div", a, b)
<1>1. PICK q \in Nat, s \in 0..Abs(b) - 1 :
         /\ Abs(a) = Abs(b) * q + s
         /\ Quot(a, b) = IF (a < 0) = (b < 0) THEN q ELSE -q
         /\ Rem(a, b) = IF a < 0 THEN -s ELSE s
  BY QuotFacts
<1> DEFINE k == IF a >= 0 THEN q ELSE IF s = 0 THEN -q ELSE -q - 1
<1>2. Euclid("div", a, b) = IF b < 0 THEN -k ELSE k
  BY <1>1, EuclidFacts
<1>3. Abs(b) \in Nat
  BY AbsFacts
<1>4. CASE a >= 0
  <2>1. Rem(a, b) >= 0
    BY <1>1, <1>3, <1>4
  <2> QED
    BY <1>1, <1>2, <1>4, <2>1 DEF div_Int
<1>5. CASE ~ (a >= 0) /\ s = 0
  <2>1. a < 0 /\ s \in Int /\ s <= 0
    BY <1>3, <1>5
  <2>2. ~ (Rem(a, b) < 0)
    BY <1>1, <2>1
  <2> QED
    BY <1>1, <1>2, <1>5, <2>2 DEF div_Int
<1>6. CASE ~ (a >= 0) /\ s # 0
  <2>1. Rem(a, b) < 0
    BY <1>1, <1>3, <1>6
  <2> QED
    BY <1>1, <1>2, <1>6, <2>1 DEF div_Int
<1> QED
  BY <1>4, <1>5, <1>6

\* Of a number that is not negative C and Idris take the same remainder, and
\* the same quotient by a positive one.
LEMMA RemMod ==
  ASSUME NEW a \in Nat, NEW b \in Int, b # 0
  PROVE  /\ Rem(a, b) \in Int /\ Rem(a, b) = Euclid("mod", a, b)
         /\ b > 0 => Quot(a, b) \in Int /\ Quot(a, b) = Euclid("div", a, b)
<1>1. PICK q \in Nat, s \in 0..Abs(b) - 1 :
         /\ Abs(a) = Abs(b) * q + s
         /\ Quot(a, b) = IF (a < 0) = (b < 0) THEN q ELSE -q
         /\ Rem(a, b) = IF a < 0 THEN -s ELSE s
  <2>1. a \in Int
    OBVIOUS
  <2> QED
    BY <2>1, QuotFacts
<1>2. Euclid("mod", a, b) = s /\ Euclid("div", a, b) = IF b < 0 THEN -q ELSE q
  <2>1. a \in Int /\ a >= 0
    OBVIOUS
  <2> QED
    BY <1>1, <2>1, EuclidFacts
<1>3. s \in Int /\ ~ (a < 0)
  BY AbsFacts
<1> QED
  BY <1>1, <1>2, <1>3

\* idris2_mod_IntN of a number that is not negative: also for the smallest
\* divisor, which its negation does not change.
LEMMA ModInt ==
  ASSUME NEW t \in Signed, NEW a \in Nat, NEW b \in Int, b # 0, Fits(t, b)
  PROVE  mod_Int(t, a, b) \in Int /\ mod_Int(t, a, b) = Euclid("mod", a, b)
<1> DEFINE d == IF b < 0 THEN Convert(t, -b) ELSE b
<1>1. d \in Int /\ d # 0 /\ (d = b \/ d = -b)
  <2>1. CASE b < 0 /\ b # Least(t)
    <3>1. Most(t) = Least(t) + Pow2[Width(t)] - 1 /\ Least(t) \in Int /\ Most(t) \in Int
      BY Limits
    <3>2. Least(t) = -Pow2[Width(t) - 1] /\ Most(t) = Pow2[Width(t) - 1] - 1
      BY DEF Least, Most, Signed, Unsigned
    <3>3. Pow2[Width(t) - 1] \in Nat
      <4>1. Width(t) - 1 \in Nat
        BY Widths
      <4> QED
        BY <4>1, Pow2Positive
    <3>4. -b \in Int /\ Fits(t, -b)
      BY <2>1, <3>2, <3>3 DEF Fits
    <3>5. Convert(t, -b) = -b
      BY <3>4, ConvertFits DEF Fixed
    <3> QED
      BY <2>1, <3>5
  <2>2. CASE b < 0 /\ b = Least(t)
    <3> DEFINE n == Width(t) - 1
    <3>1. n \in Nat /\ n + 1 = Width(t)
      BY Widths
    <3>2. Least(t) = -Pow2[n]
      BY DEF Least, Signed, Unsigned
    <3> HIDE DEF n
    <3>3. Pow2[Width(t)] = 2 * Pow2[n] /\ Pow2[n] \in Nat
      BY <3>1, Pow2Steps
    <3>4. -1 \in Int /\ b - (-b) = (-1) * Pow2[Width(t)]
      BY <2>2, <3>2, <3>3
    <3>5. Same(b, -b, Pow2[Width(t)])
      BY <3>4 DEF Same
    <3>6. Convert(t, -b) = b
      <4>1. -b \in Int /\ t \in Fixed
        BY DEF Fixed
      <4> QED
        BY <3>5, <4>1, ConvertOnly
    <3> QED
      BY <2>2, <3>6
  <2>3. CASE ~ (b < 0)
    BY <2>3
  <2> QED
    BY <2>1, <2>2, <2>3
<1> HIDE DEF d
<1>2. Rem(a, d) \in Int /\ Rem(a, d) = Euclid("mod", a, d)
  BY <1>1, RemMod
<1>3. mod_Int(t, a, b) = Rem(a, d) + 0
  BY DEF mod_Int, d
<1>4. Euclid("mod", a, d) = Euclid("mod", a, b)
  <2>1. Abs(d) = Abs(b)
    BY <1>1 DEF Abs
  <2> QED
    BY <2>1 DEF Euclid
<1> QED
  BY <1>2, <1>3, <1>4

\* idris2_div_Integer divides what is left without the remainder.
LEMMA DivInteger ==
  ASSUME NEW a \in Int, NEW b \in Int, b # 0
  PROVE  div_Integer(a, b) \in Int /\ div_Integer(a, b) = Euclid("div", a, b)
<1> DEFINE d == Abs(b)
           k == a \div d
           n == a - (a % d)
<1>1. d \in Nat /\ d > 0
  BY AbsFacts
<1>2. k \in Int /\ n \in Int /\ n = d * k
  <2> HIDE DEF d
  <2>1. k \in Int /\ a % d \in 0..d - 1 /\ a = d * k + (a % d)
    BY <1>1, Division
  <2>2. a % d \in Int
    BY <1>1, <2>1
  <2> HIDE DEF k
  <2>3. d * k \in Int
    BY <1>1, <2>1
  <2> QED
    BY <2>1, <2>2, <2>3
<1>3. div_Integer(a, b) = Quot(n, b)
  BY DEF div_Integer, mod_Integer
<1>4. Euclid("div", a, b) = IF b < 0 THEN -(n \div d) ELSE n \div d
  BY DEF Euclid
<1> HIDE DEF k, n
<1>5. n \div d = k
  <2>1. 0 \in 0..d - 1 /\ n = d * k + 0
    BY <1>1, <1>2
  <2> HIDE DEF d
  <2> QED
    BY <1>1, <1>2, <2>1, Divided
<1>6. Quot(n, b) = IF b < 0 THEN -k ELSE k
  <2> DEFINE j == Abs(k)
  <2>1. j \in Nat
    BY <1>2, AbsFacts
  <2>2. Abs(n) = d * j
    <3> HIDE DEF d
    <3>1. CASE k >= 0
      <4>1. d * k >= 0
        BY <1>1, <1>2, <3>1
      <4> QED
        BY <1>1, <1>2, <3>1, <4>1 DEF Abs
    <3>2. CASE k < 0
      <4>1. -k \in Nat /\ -k > 0 /\ d * (-k) = -(d * k)
        BY <1>1, <1>2, <3>2
      <4>2. d * (-k) > 0
        BY <1>1, <4>1
      <4> QED
        BY <1>1, <1>2, <3>2, <4>1, <4>2 DEF Abs
    <3> QED
      BY <1>2, <3>1, <3>2
  <2>3. Abs(n) \div d = j
    <3> HIDE DEF d, j
    <3>1. Abs(n) \in Int /\ 0 \in 0..d - 1 /\ Abs(n) = d * j + 0 /\ j \in Int
      BY <1>1, <1>2, <2>1, <2>2, AbsFacts
    <3> QED
      BY <1>1, <3>1, Divided
  <2>4. (n < 0) = (k < 0)
    <3> HIDE DEF d
    <3>1. CASE k >= 0
      <4>1. d * k >= 0
        BY <1>1, <1>2, <3>1
      <4> QED
        BY <1>2, <3>1, <4>1
    <3>2. CASE k < 0
      <4>1. -k \in Nat /\ -k > 0 /\ d * (-k) = -(d * k)
        BY <1>1, <1>2, <3>2
      <4>2. d * (-k) > 0
        BY <1>1, <4>1
      <4>3. d * k \in Int
        BY <1>1, <1>2
      <4> QED
        BY <1>2, <3>2, <4>1, <4>2, <4>3
    <3> QED
      BY <1>2, <3>1, <3>2
  <2>5. Quot(n, b) = IF (n < 0) = (b < 0) THEN j ELSE -j
    BY <2>3 DEF Quot
  <2> QED
    BY <1>2, <2>4, <2>5 DEF Abs
<1> QED
  BY <1>2, <1>3, <1>4, <1>5, <1>6

-----------------------------------------------------------------------------
(* Numbers from their bits. *)

\* f[n] is the number that the bits below n make.
Sums(f, bits) ==
    /\ f \in [Nat -> Nat] /\ Number(bits) = f[W64] /\ f[0] = 0
    /\ \A n \in Nat : f[n + 1] = f[n] + (IF n \in bits THEN Pow2[n] ELSE 0)

LEMMA NumberSteps == ASSUME NEW bits PROVE \E f : Sums(f, bits)
<1> DEFINE one == [i \in Nat |-> IF i \in bits THEN Pow2[i] ELSE 0]
           step == [i \in Nat |-> [x \in Nat |-> x + one[i]]]
           IsSum(f) == f = [n \in Nat |-> IF n = 0 THEN 0
                                          ELSE f[n - 1] + (IF n - 1 \in bits THEN Pow2[n - 1] ELSE 0)]
           sum == CHOOSE f : IsSum(f)
<1>1. \A i \in Nat : one[i] \in Nat
  BY Pow2Positive
<1> HIDE DEF one
<1>2. step \in [Nat -> [Nat -> Nat]] /\ \A i, x \in Nat : step[i][x] = x + one[i]
  <2>1. \A i, x \in Nat : x + one[i] \in Nat
    BY <1>1
  <2> QED
    BY <2>1
<1> HIDE DEF step
<1>3. PICK g \in [Nat -> Nat] : g[0] = 0 /\ \A i \in Nat : g[i + 1] = step[i][g[i]]
  <2>1. 0 \in Nat
    OBVIOUS
  <2> QED
    BY <1>2, <2>1, Repeated, Zenon
<1>4. ASSUME NEW n \in Nat, n # 0
      PROVE  g[n] = g[n - 1] + (IF n - 1 \in bits THEN Pow2[n - 1] ELSE 0)
  <2> DEFINE i == n - 1
  <2>1. i \in Nat /\ i + 1 = n
    BY <1>4
  <2> HIDE DEF i
  <2>2. g[n] = g[i] + one[i]
    BY <1>2, <1>3, <2>1
  <2>3. one[i] = IF i \in bits THEN Pow2[i] ELSE 0
    BY <2>1 DEF one
  <2> QED
    BY <2>2, <2>3 DEF i
<1>5. IsSum(g)
  <2>1. \A n \in Nat : g[n] = IF n = 0 THEN 0
                              ELSE g[n - 1] + (IF n - 1 \in bits THEN Pow2[n - 1] ELSE 0)
    BY <1>3, <1>4
  <2>2. g = [n \in Nat |-> g[n]]
    OBVIOUS
  <2> QED
    BY <2>1, <2>2, Zenon
<1>6. IsSum(sum)
  BY <1>5, Zenon
<1>7. Number(bits) = sum[W64]
  BY Zenon DEF Number
<1> HIDE DEF sum
<1>8. sum[0] = 0
  BY <1>6
<1>9. ASSUME NEW n \in Nat
      PROVE  /\ sum[n + 1] = sum[n] + (IF n \in bits THEN Pow2[n] ELSE 0)
             /\ sum[n + 1] = sum[n] + one[n]
  <2>1. n + 1 \in Nat /\ n + 1 # 0 /\ (n + 1) - 1 = n
    OBVIOUS
  <2>2. sum[n + 1] = sum[n] + (IF n \in bits THEN Pow2[n] ELSE 0)
    BY <1>6, <2>1, Zenon
  <2> QED
    BY <2>2 DEF one
<1> DEFINE T == {n \in Nat : sum[n] \in Nat}
<1>10. Nat \subseteq T
  <2>1. 0 \in T
    BY <1>8
  <2>2. ASSUME NEW n \in Nat, n \in T PROVE n + 1 \in T
    BY <1>1, <1>9, <2>2
  <2> HIDE DEF T
  <2> QED
    BY <2>1, <2>2, Inductive
<1>11. sum = [n \in Nat |-> sum[n]]
  BY <1>6
<1>12. sum \in [Nat -> Nat]
  BY <1>10, <1>11
<1>13. Sums(sum, bits)
  BY <1>7, <1>8, <1>9, <1>12, Zenon DEF Sums
<1> QED
  BY <1>13, Zenon

LEMMA NumberNat == ASSUME NEW bits PROVE Number(bits) \in Nat
<1>1. PICK f : Sums(f, bits)
  BY NumberSteps
<1> QED
  BY <1>1, WidthOrder DEF Sums

\* The bit i of x, and how it changes when a higher bit is added.
Bit(x, i) == (x \div Pow2[i]) % 2

LEMMA HigherBit ==
  ASSUME NEW x \in Nat, NEW i \in Nat, NEW n \in Nat, i < n
  PROVE  Bit(x + Pow2[n], i) = Bit(x, i)
<1> DEFINE p == Pow2[i]
           q == x \div p
           r == x % p
<1>1. PICK k \in Nat : k > 0 /\ Pow2[n] = k * Pow2[i + 1]
  BY Pow2Divides
<1>2. p \in Nat /\ p > 0 /\ Pow2[i + 1] = 2 * p
  BY Pow2Positive, Pow2Steps
<1> HIDE DEF p
<1>3. q \in Int /\ r \in 0..p - 1 /\ x = p * q + r
  BY <1>2, Division
<1> HIDE DEF q, r
<1>4. Pow2[n] = k * (2 * p) /\ k * (2 * p) = p * (2 * k)
  BY <1>1, <1>2
<1>5. p * (q + 2 * k) = p * q + p * (2 * k)
  BY <1>2, <1>3
<1>6. x + Pow2[n] = p * (q + 2 * k) + r
  BY <1>2, <1>3, <1>4, <1>5
<1>7. x + Pow2[n] \in Int /\ q + 2 * k \in Int
  BY <1>3, <1>4, <1>2
<1>8. (x + Pow2[n]) \div p = q + 2 * k
  BY <1>2, <1>3, <1>6, <1>7, Divided
<1>9. (q + 2 * k) % 2 = q % 2
  BY <1>3
<1> QED
  BY <1>8, <1>9 DEF Bit, p, q

\* The bits of a number are those it was made from.
LEMMA BitsOfNumber ==
  ASSUME NEW bits, bits \subseteq 0..W64 - 1 PROVE Bits(Number(bits)) = bits
<1>0. PICK f : Sums(f, bits)
  BY NumberSteps
<1>1. /\ f \in [Nat -> Nat] /\ Number(bits) = f[W64] /\ f[0] = 0
      /\ \A n \in Nat : f[n + 1] = f[n] + (IF n \in bits THEN Pow2[n] ELSE 0)
  BY <1>0, Zenon DEF Sums
<1> DEFINE T == {n \in Nat : f[n] < Pow2[n] /\ \A i \in 0..n - 1 : Bit(f[n], i) = 1 <=> i \in bits}
<1>2. 0 \in T
  BY <1>1, Pow2Steps
<1>3. ASSUME NEW n \in Nat, n \in T PROVE n + 1 \in T
  <2>1. /\ f[n] \in Nat /\ f[n] < Pow2[n]
        /\ \A i \in 0..n - 1 : Bit(f[n], i) = 1 <=> i \in bits
    BY <1>1, <1>3
  <2>2. Pow2[n] \in Nat /\ Pow2[n] > 0 /\ Pow2[n + 1] = 2 * Pow2[n]
    BY Pow2Positive, Pow2Steps
  <2>3. f[n + 1] = f[n] + (IF n \in bits THEN Pow2[n] ELSE 0)
    BY <1>1
  <2>4. f[n + 1] < Pow2[n + 1]
    BY <2>1, <2>2, <2>3
  <2>5. ASSUME NEW i \in 0..n - 1 PROVE Bit(f[n + 1], i) = 1 <=> i \in bits
    <3>1. CASE n \in bits
      <4>1. Bit(f[n] + Pow2[n], i) = Bit(f[n], i)
        BY <2>1, HigherBit
      <4> QED
        BY <2>1, <2>3, <3>1, <4>1
    <3>2. CASE n \notin bits
      BY <2>1, <2>3, <3>2
    <3> QED
      BY <3>1, <3>2
  <2>6. Bit(f[n + 1], n) = 1 <=> n \in bits
    <3> DEFINE p == Pow2[n]
    <3>1. CASE n \in bits
      <4>1. f[n + 1] = p * 1 + f[n] /\ f[n] \in 0..p - 1 /\ f[n + 1] \in Int
        BY <2>1, <2>2, <2>3, <3>1
      <4>2. f[n + 1] \div p = 1
        <5> HIDE DEF p
        <5>1. 1 \in Int /\ p \in Nat /\ p > 0
          BY <2>2 DEF p
        <5> QED
          BY <4>1, <5>1, Divided
      <4>3. 1 % 2 = 1
        OBVIOUS
      <4> QED
        BY <3>1, <4>2, <4>3 DEF Bit
    <3>2. CASE n \notin bits
      <4>1. f[n + 1] = p * 0 + f[n] /\ f[n] \in 0..p - 1 /\ f[n + 1] \in Int
        BY <2>1, <2>2, <2>3, <3>2
      <4>2. f[n + 1] \div p = 0
        <5> HIDE DEF p
        <5>1. 0 \in Int /\ p \in Nat /\ p > 0
          BY <2>2 DEF p
        <5> QED
          BY <4>1, <5>1, Divided
      <4>3. 0 % 2 = 0
        OBVIOUS
      <4> QED
        BY <3>2, <4>2, <4>3 DEF Bit
    <3> QED
      BY <3>1, <3>2
  <2>7. \A i \in 0..(n + 1) - 1 : i \in 0..n - 1 \/ i = n
    OBVIOUS
  <2>8. \A i \in 0..(n + 1) - 1 : Bit(f[n + 1], i) = 1 <=> i \in bits
    BY <2>5, <2>6, <2>7
  <2>9. n + 1 \in Nat
    OBVIOUS
  <2> QED
    BY <2>4, <2>8, <2>9
<1> HIDE DEF T
<1>4. Nat \subseteq T
  BY <1>2, <1>3, Inductive
<1>5. \A i \in 0..W64 - 1 : Bit(f[W64], i) = 1 <=> i \in bits
  BY <1>4, WidthOrder DEF T
<1>6. Bits(Number(bits)) = {i \in 0..W64 - 1 : Bit(f[W64], i) = 1}
  BY <1>1, Zenon DEF Bits, Bit
<1> QED
  BY <1>5, <1>6

-----------------------------------------------------------------------------
(***************************************************************************)
(* The operations.  Each gives to the maker of its type a number that has  *)
(* the bits of the value Idris defines.                                    *)
(***************************************************************************)

LEMMA LiteralFacts ==
  ASSUME NEW t, NEW n \in Literals(t) PROVE n \in Int /\ (t \in Fixed => Fits(t, n))
<1> DEFINE lo == Least(t) - (IF t = "Integer" THEN 1 ELSE 0)
           hi == Most(t) + (IF t = "Integer" THEN 1 ELSE 0)
<1>1. Least(t) \in Int /\ Most(t) \in Int
  BY Limits
<1>2. lo \in Int /\ hi \in Int /\ (t # "Integer" => lo = Least(t) /\ hi = Most(t))
  BY <1>1
<1>3. n \in UNION {{lo + e, hi - e, e, -e} : e \in 0..Edge} /\ lo <= n /\ n <= hi
  BY DEF Literals
<1> HIDE DEF lo, hi
<1>4. PICK e \in 0..Edge : n \in {lo + e, hi - e, e, -e}
  BY <1>3
<1>5. e \in Int
  BY WordsAssumption
<1>6. n \in Int
  BY <1>2, <1>4, <1>5
<1>7. t \in Fixed => t # "Integer"
  BY DEF Fixed, Signed, Unsigned
<1> QED
  BY <1>2, <1>3, <1>6, <1>7 DEF Fits

\* The operations other than division.
LEMMA PlainOp ==
  ASSUME NEW op \in BinOp \ {"div", "mod"}, NEW a \in Int, NEW b \in Int,
         op \in {"shiftl", "shiftr"} => b >= 0
  PROVE  COp(op, a, b) \in Int
<1>1. op \in {"add", "sub", "mul", "shiftl", "shiftr", "and", "or", "xor"}
  BY DEF BinOp
<1>2. CASE op \in {"add", "sub", "mul"}
  BY <1>2 DEF COp
<1>3. CASE op \in {"shiftl", "shiftr"}
  <2>1. b \in Nat
    BY <1>3
  <2> DEFINE p == Pow2[b]
  <2>2. p \in Nat /\ p > 0
    BY <2>1, Pow2Positive
  <2>3. op = "shiftl" => COp(op, a, b) = a * p
    BY DEF COp
  <2>4. op = "shiftr" => COp(op, a, b) = a \div p
    BY DEF COp
  <2> HIDE DEF p
  <2>5. a * p \in Int /\ a \div p \in Int
    BY <2>2, Division
  <2> QED
    BY <1>3, <2>3, <2>4, <2>5
<1>4. CASE op \in {"and", "or", "xor"}
  <2>1. \/ COp(op, a, b) = Number(Bits(a) \cap Bits(b))
        \/ COp(op, a, b) = Number(Bits(a) \cup Bits(b))
        \/ COp(op, a, b) = Number((Bits(a) \ Bits(b)) \cup (Bits(b) \ Bits(a)))
    BY <1>4 DEF COp
  <2>2. COp(op, a, b) \in Nat
    BY <2>1, NumberNat, Zenon
  <2> QED
    BY <2>2
<1> QED
  BY <1>1, <1>2, <1>3, <1>4

LEMMA Computed ==
  ASSUME NEW t \in Type, NEW op \in BinOp, NEW a \in Int, NEW b \in Int,
         t \in Fixed => Fits(t, a) /\ Fits(t, b),
         op \in {"shiftl", "shiftr"} => b >= 0,
         op \in {"div", "mod"} => b # 0,
         op = "mod" /\ t \in Signed => a >= 0
  PROVE  Compute(op, t, a, b) \in Int /\ Meaning(op, t, a, b) = Convert(t, Compute(op, t, a, b))
<1>1. CASE op \notin {"div", "mod"}
  <2>1. Compute(op, t, a, b) = COp(op, a, b)
    BY <1>1 DEF Compute
  <2>2. Meaning(op, t, a, b) = Convert(t, COp(op, a, b))
    BY <1>1 DEF Meaning
  <2> QED
    BY <1>1, <2>1, <2>2, PlainOp
<1>2. CASE op \in {"div", "mod"}
  <2>1. Meaning(op, t, a, b) = Convert(t, Euclid(op, a, b))
    BY <1>2 DEF Meaning
  <2>2. b # 0
    BY <1>2
  <2>3. Compute(op, t, a, b) \in Int /\ Compute(op, t, a, b) = Euclid(op, a, b)
    <3>1. CASE t \in Signed /\ op = "div"
      <4>1. Compute(op, t, a, b) = div_Int(a, b)
        BY <3>1 DEF Compute
      <4> QED
        BY <2>2, <3>1, <4>1, DivInt
    <3>2. CASE t \in Signed /\ op = "mod"
      <4>1. Compute(op, t, a, b) = mod_Int(t, a, b)
        BY <3>2 DEF Compute
      <4>2. a \in Nat /\ Fits(t, b)
        BY <3>2 DEF Fixed
      <4> QED
        BY <2>2, <3>2, <4>1, <4>2, ModInt
    <3>3. CASE t = "Integer" /\ op = "div"
      <4>1. Compute(op, t, a, b) = div_Integer(a, b)
        BY <3>3 DEF Compute, Signed
      <4> QED
        BY <2>2, <3>3, <4>1, DivInteger
    <3>4. CASE t = "Integer" /\ op = "mod"
      <4>1. Compute(op, t, a, b) = a % Abs(b)
        BY <3>4 DEF Compute, Signed, mod_Integer
      <4>2. Euclid(op, a, b) = a % Abs(b)
        BY <3>4 DEF Euclid
      <4>3. a % Abs(b) \in Int
        BY <2>2, AbsFacts, SameRemainder
      <4> QED
        BY <4>1, <4>2, <4>3
    <3>5. CASE t \in Unsigned
      <4>1. Least(t) = 0
        BY <3>5 DEF Least
      <4>2. a \in Nat /\ b \in Int /\ b > 0
        BY <2>2, <3>5, <4>1 DEF Fits, Fixed
      <4>3. t \notin Signed /\ t # "Integer"
        BY <3>5 DEF Signed, Unsigned
      <4>4. Compute(op, t, a, b) = COp(op, a, b)
        BY <4>3 DEF Compute
      <4>5. COp(op, a, b) = IF op = "div" THEN Quot(a, b) ELSE Rem(a, b)
        BY <1>2 DEF COp
      <4> QED
        BY <1>2, <2>2, <4>2, <4>4, <4>5, RemMod
    <3> QED
      BY <1>2, <3>1, <3>2, <3>3, <3>4, <3>5 DEF Type, Fixed
  <2> QED
    BY <2>1, <2>3
<1> QED
  BY <1>1, <1>2

\* The word has its type and stands for the value: this is inductive.
WordInv == TypeOK /\ Faithful

LEMMA WordValue ==
  ASSUME WordInv
  PROVE  /\ ty \in Type \cup {"String"} /\ w \in Int /\ val \in Int /\ vp_to(ty, w) = val
         /\ ty \in Fixed => Fits(ty, val)
<1>1. ty \in Type \cup {"String"} /\ w \in Int /\ val \in Int /\ vp_to(ty, w) = val
  BY DEF WordInv, TypeOK, Faithful
<1>2. ty \in Fixed => Fits(ty, Convert(ty, w))
  BY <1>1, Converted
<1> QED
  BY <1>1, <1>2 DEF vp_to

\* A step that stores a number with the bits of the new value.
LEMMA Stored ==
  ASSUME NEW t \in Type, NEW n \in Int,
         ty' = t, w' = mk(t, n), val' = Convert(t, n), trapped' \in BOOLEAN
  PROVE  WordInv'
<1>1. /\ mk(t, n) \in Int /\ vp_to(t, mk(t, n)) = Convert(t, n)
      /\ Width(t) <= W32 => mk(t, n) \in 0..Pow2[W32] - 1
  BY ReadsMade
<1>2. Convert(t, n) \in Int
  BY ConvertInt
<1>3. TypeOK'
  BY <1>1, <1>2 DEF TypeOK
<1>4. Faithful'
  BY <1>1 DEF Faithful
<1> QED
  BY <1>3, <1>4 DEF WordInv

LEMMA WordStart == WordInit => WordInv
<1> SUFFICES ASSUME WordInit PROVE WordInv
  OBVIOUS
<1>1. ty \in Type /\ val \in Literals(ty) /\ w = mk(ty, val) /\ trapped = FALSE
  BY DEF WordInit
<1>2. val \in Int /\ (ty \in Fixed => Fits(ty, val))
  BY <1>1, LiteralFacts
<1>3. Convert(ty, val) = val
  BY <1>2, ConvertFits, ConvertOther
<1>4. /\ w \in Int /\ vp_to(ty, w) = val
      /\ Width(ty) <= W32 => w \in 0..Pow2[W32] - 1
  BY <1>1, <1>2, <1>3, ReadsMade
<1> QED
  BY <1>1, <1>2, <1>4 DEF WordInv, TypeOK, Faithful

LEMMA BinopStep ==
  ASSUME WordInv, ~ NegativeMod, NEW op \in BinOp, binop(op) PROVE WordInv'
<1>1. /\ ty \in Type \cup {"String"} /\ w \in Int /\ val \in Int /\ vp_to(ty, w) = val
      /\ ty \in Fixed => Fits(ty, val)
  BY WordValue
<1>2. ty \in Type /\ ty' = ty
  BY <1>1 DEF binop, Running
<1>3. PICK b \in Operand(op) :
        /\ op = "mod" /\ ty \in Signed /\ vp_to(ty, w) < 0 => NegativeMod
        /\ IF Traps(op, vp_to(ty, w), b)
           THEN trapped' = TRUE /\ UNCHANGED <<w, val>>
           ELSE /\ w' = mk(ty, Compute(op, ty, vp_to(ty, w), b))
                /\ val' = Meaning(op, ty, val, b)
                /\ UNCHANGED trapped
  BY DEF binop
<1>4. /\ b \in Literals(ty)
      /\ op \in {"shiftl", "shiftr"} => b >= 0
      /\ op \in {"div", "mod"} => b # 0
  BY DEF Operand
<1>5. b \in Int /\ (ty \in Fixed => Fits(ty, b))
  BY <1>4, LiteralFacts
<1>6. CASE Traps(op, vp_to(ty, w), b)
  <2>1. ty' = ty /\ w' = w /\ val' = val /\ trapped' = TRUE
    BY <1>2, <1>3, <1>6
  <2> QED
    BY <2>1 DEF WordInv, TypeOK, Faithful
<1>7. CASE ~ Traps(op, vp_to(ty, w), b)
  <2> DEFINE n == Compute(op, ty, val, b)
  <2>1. w' = mk(ty, n) /\ val' = Meaning(op, ty, val, b) /\ trapped' = trapped
    BY <1>1, <1>3, <1>7
  <2>2. op = "mod" /\ ty \in Signed => val >= 0
    BY <1>1, <1>3
  <2>3. n \in Int /\ Meaning(op, ty, val, b) = Convert(ty, n)
    BY <1>1, <1>2, <1>4, <1>5, <2>2, Computed
  <2>4. trapped' \in BOOLEAN
    BY <2>1 DEF WordInv, TypeOK
  <2> HIDE DEF n
  <2> QED
    BY <1>2, <2>1, <2>3, <2>4, Stored
<1> QED
  BY <1>6, <1>7

LEMMA NegateStep == ASSUME WordInv, negate PROVE WordInv'
<1>1. /\ ty \in Type \cup {"String"} /\ val \in Int /\ vp_to(ty, w) = val
  BY WordValue
<1>2. /\ ty \in Type /\ ty' = ty /\ trapped' = trapped
      /\ w' = mk(ty, -vp_to(ty, w)) /\ val' = Convert(ty, -val)
  BY <1>1 DEF negate, Running
<1>3. -val \in Int /\ w' = mk(ty, -val) /\ trapped' \in BOOLEAN
  BY <1>1, <1>2 DEF WordInv, TypeOK
<1> QED
  BY <1>2, <1>3, Stored

LEMMA CmpopStep ==
  ASSUME WordInv, NEW op \in CmpOp, cmpop(op) PROVE WordInv'
<1>1. /\ ty \in Type \cup {"String"} /\ val \in Int /\ vp_to(ty, w) = val
  BY WordValue
<1>2. PICK b \in Literals(ty) :
        /\ w' = mkBool(Compare(op, vp_to(ty, w), vp_to(ty, mk(ty, b))))
        /\ val' = IF Compare(op, val, b) THEN 1 ELSE 0
  BY DEF cmpop
<1>3. b \in Int /\ (ty \in Fixed => Fits(ty, b))
  BY LiteralFacts
<1>4. vp_to(ty, mk(ty, b)) = b
  BY <1>3, ReadsMade, ConvertFits, ConvertOther
<1> DEFINE n == IF Compare(op, val, b) THEN 1 ELSE 0
<1>5. n \in Int /\ (n = 0 \/ n = 1)
  OBVIOUS
<1>6. w' = mk("Int8", n) /\ val' = n
  BY <1>1, <1>2, <1>4 DEF mkBool
<1>7. ty' = "Int8" /\ trapped' \in BOOLEAN
  BY DEF cmpop, WordInv, TypeOK
<1> HIDE DEF n
<1>8. "Int8" \in Fixed /\ "Int8" \in Type
  BY DEF Fixed, Signed, Type
<1>9. Least("Int8") \in Int /\ Most("Int8") \in Int /\ Least("Int8") <= 0 /\ 1 <= Most("Int8")
  BY Limits
<1>10. Fits("Int8", n)
  BY <1>5, <1>9 DEF Fits
<1>11. Convert("Int8", n) = n
  BY <1>5, <1>8, <1>10, ConvertFits
<1> QED
  BY <1>5, <1>6, <1>7, <1>8, <1>11, Stored

LEMMA CastStep ==
  ASSUME WordInv, ~ Overrun, NEW to \in Type, cast(to) PROVE WordInv'
<1>1. /\ ty \in Type \cup {"String"} /\ w \in Int /\ val \in Int /\ vp_to(ty, w) = val
  BY WordValue
<1>2. /\ ty \in Type /\ to # ty /\ ty' = to /\ val' = Convert(to, val) /\ trapped' = trapped
      /\ <<ty, to>> \in Identity /\ Width(to) > Width(ty) => Canonical
      /\ w' = IF <<ty, to>> \in Identity THEN w ELSE mk(to, Convert(to, vp_to(ty, w)))
  BY <1>1 DEF cast, Running
<1>3. trapped' \in BOOLEAN
  BY <1>2 DEF WordInv, TypeOK
<1>4. CASE <<ty, to>> \notin Identity
  <2> DEFINE n == Convert(to, val)
  <2>1. n \in Int /\ Convert(to, n) = n
    BY <1>1, ConvertInt, ConvertTwice
  <2>2. w' = mk(to, n) /\ val' = n
    BY <1>1, <1>2, <1>4
  <2> HIDE DEF n
  <2> QED
    BY <1>2, <1>3, <2>1, <2>2, Stored
<1>5. CASE <<ty, to>> \in Identity
  <2>1. w' = w
    BY <1>2, <1>5
  <2>2. Width(ty) <= W32 /\ Width(to) <= W32 /\ ty \in Fixed /\ to \in Fixed
    <3>1. /\ ty \in {"Int8", "Bits8", "Int16", "Bits16", "Int32", "Bits32"}
          /\ to \in {"Int8", "Bits8", "Int16", "Bits16", "Int32", "Bits32"}
      BY <1>5 DEF Identity
    <3> QED
      BY <3>1, WidthOrder DEF Width, Fixed, Signed, Unsigned
  <2>3. w \in 0..Pow2[W32] - 1
    BY <2>2 DEF WordInv, TypeOK
  <2>4. Convert(to, w) = Convert(to, val)
    <3>1. CASE Width(to) <= Width(ty)
      <4>1. val = Convert(ty, w)
        BY <1>1 DEF vp_to
      <4> QED
        BY <1>1, <2>2, <3>1, <4>1, ConvertNarrower
    <3>2. CASE ~ (Width(to) <= Width(ty))
      <4>1. Width(to) > Width(ty)
        BY <3>2, Widths
      <4>2. w = mk(ty, val)
        BY <1>1, <1>2, <1>5, <4>1 DEF Canonical
      <4>3. w = val % Pow2[W32]
        BY <2>2, <4>2 DEF mk
      <4> QED
        BY <1>1, <2>2, <4>3, HalfWord
    <3> QED
      BY <3>1, <3>2
  <2>5. Convert(to, val) \in Int
    BY <1>1, ConvertInt
  <2>6. TypeOK'
    BY <1>1, <1>2, <1>3, <2>1, <2>3, <2>5 DEF TypeOK
  <2>7. Faithful'
    BY <1>2, <2>1, <2>4 DEF Faithful, vp_to
  <2> QED
    BY <2>6, <2>7 DEF WordInv
<1> QED
  BY <1>4, <1>5

LEMMA ToStringStep == ASSUME WordInv, cast_to_string PROVE WordInv'
<1>1. val \in Int /\ vp_to(ty, w) = val
  BY WordValue
<1>2. ty' = "String" /\ w' = val /\ val' = val /\ trapped' \in BOOLEAN
  BY <1>1 DEF cast_to_string, WordInv, TypeOK
<1>3. "String" \notin Fixed /\ ~ (Width("String") <= W32)
  BY WidthOrder DEF Fixed, Signed, Unsigned, Width
<1>4. Convert("String", val) = val
  BY <1>3, ConvertOther
<1>5. TypeOK'
  BY <1>1, <1>2, <1>3 DEF TypeOK
<1>6. Faithful'
  BY <1>2, <1>4 DEF Faithful, vp_to
<1> QED
  BY <1>5, <1>6 DEF WordInv

\* atoi of a number that an int can hold.
LEMMA Atoi == ASSUME NEW n \in Int, Fits("Int32", n) PROVE atoi(n) = n
<1>1. "Int32" \in Fixed /\ "Int64" \notin Unsigned /\ "Int32" \notin Unsigned
  BY DEF Fixed, Signed, Unsigned
<1>2. Width("Int32") = W32 /\ Width("Int64") = W64
  BY DEF Width
<1>3. W32 - 1 \in Nat /\ W64 - 1 \in Nat /\ W32 - 1 <= W64 - 1
  BY WidthOrder
<1>4. Pow2[W32 - 1] <= Pow2[W64 - 1] /\ Pow2[W32 - 1] \in Nat /\ Pow2[W64 - 1] \in Nat
  BY <1>3, Pow2Grows, Pow2Positive
<1>5. ~ (n < Least("Int64")) /\ ~ (n > Most("Int64"))
  BY <1>1, <1>2, <1>4 DEF Fits, Least, Most
<1>6. atoi(n) = Convert("Int32", n)
  BY <1>5 DEF atoi
<1> QED
  BY <1>1, <1>6, ConvertFits

LEMMA FromStringStep ==
  ASSUME WordInv, ~ LongText, NEW to \in Type, cast_String(to) PROVE WordInv'
<1>1. /\ ty = "String" /\ ty' = to /\ val' = Convert(to, val) /\ trapped' = trapped
      /\ to # "Integer" => w \in Least("Int32")..Most("Int32")
      /\ w' = IF to = "Integer" THEN w ELSE mk(to, Convert(to, atoi(w)))
  BY DEF cast_String
<1>2. val \in Int /\ w = val
  <2>1. "String" \notin Fixed
    BY DEF Fixed, Signed, Unsigned
  <2> QED
    BY <1>1, <2>1, WordValue, ConvertOther DEF vp_to
<1>3. trapped' \in BOOLEAN
  BY <1>1 DEF WordInv, TypeOK
<1> DEFINE n == Convert(to, val)
<1>4. n \in Int /\ Convert(to, n) = n
  BY <1>2, ConvertInt, ConvertTwice
<1>5. w' = mk(to, n)
  <2>1. CASE to = "Integer"
    <3>1. to \notin Fixed /\ ~ (Width(to) <= W32)
      BY <2>1, WidthOrder DEF Fixed, Signed, Unsigned, Width
    <3>2. n = val
      BY <3>1, ConvertOther
    <3> HIDE DEF n
    <3>3. mk(to, n) = n
      BY <3>1, ConvertOther DEF mk
    <3> QED
      BY <1>1, <1>2, <2>1, <3>2, <3>3
  <2>2. CASE to # "Integer"
    <3>1. Least("Int32") \in Int /\ Most("Int32") \in Int
      BY Limits
    <3>2. Fits("Int32", w)
      BY <1>1, <2>2, <3>1 DEF Fits
    <3>3. atoi(w) = val
      BY <1>2, <3>2, Atoi
    <3> QED
      BY <1>1, <2>2, <3>3
  <2> QED
    BY <2>1, <2>2
<1> HIDE DEF n
<1>6. val' = Convert(to, n)
  BY <1>1, <1>4 DEF n
<1> QED
  BY <1>1, <1>3, <1>4, <1>5, <1>6, Stored

LEMMA WordStep ==
  ASSUME ~ NegativeMod, ~ Overrun, ~ LongText
  PROVE  WordInv /\ [WordNext]_wordVars => WordInv'
<1> SUFFICES ASSUME WordInv, [WordNext]_wordVars PROVE WordInv'
  OBVIOUS
<1>1. ASSUME NEW op \in BinOp, binop(op) PROVE WordInv'
  BY <1>1, BinopStep
<1>2. ASSUME NEW op \in CmpOp, cmpop(op) PROVE WordInv'
  BY <1>2, CmpopStep
<1>3. CASE negate
  BY <1>3, NegateStep
<1>4. ASSUME NEW to \in Type, cast(to) PROVE WordInv'
  BY <1>4, CastStep
<1>5. ASSUME NEW to \in Type, cast_String(to) PROVE WordInv'
  BY <1>5, FromStringStep
<1>6. CASE cast_to_string
  BY <1>6, ToStringStep
<1>7. CASE UNCHANGED wordVars
  BY <1>7 DEF wordVars, WordInv, TypeOK, Faithful
<1> QED
  BY <1>1, <1>2, <1>3, <1>4, <1>5, <1>6, <1>7 DEF WordNext

\* Whatever operations, comparisons, casts and conversions through strings the
\* program applied, the reader of the type finds the value Idris defines, for
\* integer types of any widths, as long as mod meets no negative number
\* (idris2_mod_IntN), no cast defined as (x) widens a word that ran over its
\* type (casts.h), and no string spells a number beyond int (atoi).
THEOREM WordsFaithful ==
  ASSUME ~ NegativeMod, ~ Overrun, ~ LongText PROVE WordSpec => []Faithful
<1>1. WordInv => Faithful
  BY DEF WordInv
<1> QED
  BY <1>1, WordStart, WordStep, PTL DEF WordSpec

\* The constant case compares idris2_extractInt with its constants and takes
\* the branch of the value, for integer types of any widths, in every state
\* in which the word is the one the maker stores and the value fits an int.
THEOREM WordsCaseExact ==
  ASSUME ~ NegativeMod, ~ Overrun, ~ LongText PROVE WordSpec => []CaseExact
<1>1. ASSUME WordInv PROVE CaseExact
  <2> SUFFICES ASSUME ty # "String", Canonical, val \in Least("Int32")..Most("Int32"),
                      NEW c \in Literals(ty)
               PROVE  extractInt(ty, w) = c <=> val = c
    BY DEF CaseExact
  <2>1. ty \in Type /\ w \in Int /\ val \in Int /\ vp_to(ty, w) = val
    BY <1>1, WordValue
  <2>2. w = mk(ty, val)
    BY <2>1 DEF Canonical
  <2>3. Fits("Int32", val) /\ "Int32" \in Fixed /\ Width("Int32") = W32 /\ W32 <= W32
    <3>1. Least("Int32") \in Int /\ Most("Int32") \in Int
      BY Limits
    <3> QED
      BY <3>1, WidthOrder DEF Fits, Fixed, Signed, Width
  <2>4. Convert("Int32", val) = val
    BY <2>1, <2>3, ConvertFits
  <2>5. Convert("Int32", w) = val
    <3>1. CASE Width(ty) <= W32
      <4>1. w = val % Pow2[W32]
        BY <2>2, <3>1 DEF mk
      <4>2. Convert("Int32", val % Pow2[W32]) = Convert("Int32", val)
        BY <2>1, <2>3, HalfWord
      <4> QED
        BY <2>4, <4>1, <4>2
    <3>2. CASE ~ (Width(ty) <= W32)
      <4>1. w = Convert(ty, val)
        BY <2>2, <3>2 DEF mk
      <4>2. w = val
        <5>1. Convert(ty, Convert(ty, w)) = Convert(ty, w)
          BY <2>1, ConvertTwice
        <5> QED
          BY <2>1, <4>1, <5>1 DEF vp_to
      <4> QED
        BY <2>4, <4>2
    <3> QED
      BY <3>1, <3>2
  <2> QED
    BY <2>5 DEF extractInt
<1> QED
  BY <1>1, WordStart, WordStep, PTL DEF WordSpec

\* The operators & | ^ of the model set the bits that the C operators set, in
\* words of any width.
THEOREM WordsBitwise ==
  \A a, b : /\ Bits(COp("and", a, b)) = Bits(a) \cap Bits(b)
            /\ Bits(COp("or", a, b)) = Bits(a) \cup Bits(b)
            /\ Bits(COp("xor", a, b)) = (Bits(a) \ Bits(b)) \cup (Bits(b) \ Bits(a))
<1> SUFFICES ASSUME NEW a, NEW b
             PROVE  /\ Bits(COp("and", a, b)) = Bits(a) \cap Bits(b)
                    /\ Bits(COp("or", a, b)) = Bits(a) \cup Bits(b)
                    /\ Bits(COp("xor", a, b)) = (Bits(a) \ Bits(b)) \cup (Bits(b) \ Bits(a))
  OBVIOUS
<1>1. \A x : Bits(x) \subseteq 0..W64 - 1
  BY DEF Bits
<1>2. /\ COp("and", a, b) = Number(Bits(a) \cap Bits(b))
      /\ COp("or", a, b) = Number(Bits(a) \cup Bits(b))
      /\ COp("xor", a, b) = Number((Bits(a) \ Bits(b)) \cup (Bits(b) \ Bits(a)))
  BY DEF COp
<1>3. /\ Bits(a) \cap Bits(b) \subseteq 0..W64 - 1
      /\ Bits(a) \cup Bits(b) \subseteq 0..W64 - 1
      /\ (Bits(a) \ Bits(b)) \cup (Bits(b) \ Bits(a)) \subseteq 0..W64 - 1
  BY <1>1
<1> QED
  BY <1>2, <1>3, BitsOfNumber

=============================================================================
