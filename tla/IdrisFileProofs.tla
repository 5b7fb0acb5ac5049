--------------------------- MODULE IdrisFileProofs ---------------------------
(* Proofs about IdrisFile, for files, lines, pages and chunks of any length. *)
EXTENDS IdrisFile, FiniteSetTheorems, SequenceTheorems, TLAPS

Chars == Letters

FileTyped ==
    /\ job \in Reading \cup Writing
    /\ disk \in Seq(Chars) /\ out \in Seq(Chars) /\ line \in Seq(Chars)
    /\ size \in Nat /\ pos \in Nat /\ bad \in Nat \cup {-1}

LEMMA TextSeq == ASSUME NEW m \in Nat, NEW t \in Text(m) PROVE t \in Seq(Chars)
<1>1. PICK n \in 0..m : t \in [1..n -> Chars]
  BY DEF Text, Chars
<1> QED
  BY <1>1, SeqDef

\* A piece of a sequence.
LEMMA Piece ==
  ASSUME NEW s \in Seq(Chars), NEW m \in Nat, NEW n \in Nat, m <= n, n <= Len(s)
  PROVE  SubSeq(s, m + 1, n) \in Seq(Chars) /\ Len(SubSeq(s, m + 1, n)) = n - m
<1>1. Len(s) \in Nat /\ \A i \in 1..Len(s) : s[i] \in Chars
  BY LenProperties
<1>2. \A i \in (m + 1)..n : s[i] \in Chars
  BY <1>1
<1>3. /\ SubSeq(s, m + 1, n) \in Seq(Chars)
      /\ Len(SubSeq(s, m + 1, n)) = IF m + 1 <= n THEN n - (m + 1) + 1 ELSE 0
  BY <1>2, SubSeqProperties
<1> QED
  BY <1>3

LEMMA Prefix ==
  ASSUME NEW s \in Seq(Chars), NEW n \in Nat, n <= Len(s)
  PROVE  /\ SubSeq(s, 1, n) \in Seq(Chars) /\ Len(SubSeq(s, 1, n)) = n
         /\ SubSeq(s, n + 1, Len(s)) \in Seq(Chars)
         /\ SubSeq(s, 1, n) \o SubSeq(s, n + 1, Len(s)) = s
<1>1. Len(s) \in Nat /\ 0 + 1 = 1 /\ n - 0 = n
  BY LenProperties
<1>2. SubSeq(s, 0 + 1, n) \in Seq(Chars) /\ Len(SubSeq(s, 0 + 1, n)) = n - 0
  BY <1>1, Piece
<1>3. SubSeq(s, n + 1, Len(s)) \in Seq(Chars)
  BY <1>1, Piece
<1>4. SubSeq(s, 1, n) \o SubSeq(s, n + 1, Len(s)) = SubSeq(s, 1, Len(s))
  <2>1. 1 \in 1..(Len(s) + 1) /\ n \in (1 - 1)..Len(s) /\ Len(s) \in n..Len(s)
    BY <1>1
  <2> QED
    BY <2>1, ConcatAdjacentSubSeq
<1>5. SubSeq(s, 1, Len(s)) = s
  BY SubSeqFull
<1> QED
  BY <1>1, <1>2, <1>3, <1>4, <1>5

LEMMA MeetFront ==
  ASSUME NEW s \in Seq(Chars), NEW m \in Nat, NEW n \in Nat, m <= n, n <= Len(s)
  PROVE  SubSeq(s, 1, m) \o SubSeq(s, m + 1, n) = SubSeq(s, 1, n)
<1>1. Len(s) \in Nat
  BY LenProperties
<1>2. 1 \in 1..(Len(s) + 1) /\ m \in (1 - 1)..Len(s) /\ n \in m..Len(s)
  BY <1>1
<1> QED
  BY <1>2, ConcatAdjacentSubSeq

LEMMA OneMore ==
  ASSUME NEW s \in Seq(Chars), NEW m \in Nat, NEW n \in Nat, m <= n, n < Len(s)
  PROVE  Append(SubSeq(s, m + 1, n), s[n + 1]) = SubSeq(s, m + 1, n + 1)
OBVIOUS

LEMMA Regroup ==
  ASSUME NEW s \in Seq(Chars), NEW t \in Seq(Chars), NEW u \in Seq(Chars)
  PROVE  (s \o t) \o u = s \o (t \o u)
BY ConcatAssociative

\* What a char * holds of a String: a prefix, and all of it when it has no null.
LEMMA CStringPrefix ==
  ASSUME NEW s \in Seq(Chars)
  PROVE  CString(s) \in Seq(Chars) /\ (~Nuls => CString(s) = s)
<1> DEFINE C == {i \in 1..Len(s) : \A j \in 1..i : s[j] # "0"}
<1>1. Len(s) \in Nat
  BY LenProperties
<1>2. IsFiniteSet(1..Len(s)) /\ Cardinality(1..Len(s)) = Len(s)
  <2>1. 0 \in Int /\ 1 \in Int /\ Len(s) \in Int
    BY <1>1
  <2>2. IsFiniteSet(1..Len(s)) /\ Cardinality(1..Len(s)) = IF 1 > Len(s) THEN 0 ELSE Len(s) - 1 + 1
    BY <2>1, FS_Interval
  <2> QED
    BY <1>1, <2>2
<1>3. C \subseteq 1..Len(s)
  OBVIOUS
<1>4. ~Nuls => C = 1..Len(s)
  <2>1. ASSUME ~Nuls, NEW i \in 1..Len(s) PROVE s[i] # "0"
    <3>1. s[i] \in Chars
      BY <1>1
    <3> QED
      BY <2>1, <3>1 DEF Chars, Letters
  <2>2. ASSUME NEW i \in 1..Len(s), NEW j \in 1..i PROVE j \in 1..Len(s)
    BY <1>1
  <2> QED
    BY <2>1, <2>2
<1>5. Cardinality(C) \in Nat /\ Cardinality(C) <= Len(s)
  <2>1. IsFiniteSet(C) /\ Cardinality(C) <= Cardinality(1..Len(s))
    BY <1>2, <1>3, FS_Subset
  <2> QED
    BY <1>2, <2>1, FS_CardinalityType
<1>6. CString(s) = SubSeq(s, 1, Cardinality(C))
  BY DEF CString
<1> HIDE DEF C
<1>7. SubSeq(s, 1, Cardinality(C)) \in Seq(Chars)
  BY <1>5, Prefix
<1>8. ~Nuls => SubSeq(s, 1, Cardinality(C)) = s
  BY <1>2, <1>4, SubSeqFull
<1> QED
  BY <1>6, <1>7, <1>8

\* write(2) moves a part of stdio's buffer to the disk.
LEMMA FlushMoves ==
  ASSUME FileTyped, Flush
  PROVE  /\ disk' \in Seq(Chars) /\ out' \in Seq(Chars) /\ disk' \o out' = disk \o out
<1> DEFINE a == SubSeq(out, 1, Writable)
           b == SubSeq(out, Writable + 1, Len(out))
<1>1. Writable \in 0..Len(out)
  <2>1. Len(out) \in Nat /\ Len(disk) \in Nat /\ Room \in Nat
    BY FileAssumption DEF FileTyped
  <2> QED
    BY <2>1 DEF Writable
<1>2. disk' = disk \o a /\ out' = b
  BY DEF Flush
<1>3. a \in Seq(Chars) /\ b \in Seq(Chars) /\ a \o b = out
  <2>1. out \in Seq(Chars) /\ Writable \in Nat /\ Writable <= Len(out)
    BY <1>1 DEF FileTyped
  <2> QED
    BY <2>1, Prefix
<1> HIDE DEF a, b
<1>4. (disk \o a) \o b = disk \o (a \o b)
  <2>1. disk \in Seq(Chars)
    BY DEF FileTyped
  <2> QED
    BY <1>3, <2>1, Regroup, Zenon
<1>5. disk \o a \in Seq(Chars)
  BY <1>3, ConcatProperties DEF FileTyped
<1> QED
  BY <1>2, <1>3, <1>4, <1>5

LEMMA OpenTyped ==
  ASSUME FileTyped, openFile, job \in Writing
  PROVE  /\ out' \in Seq(Chars) /\ disk' \in Seq(Chars)
         /\ ~Nuls => want' = disk' \o out'
         /\ stage' = "fputs" /\ err' = FALSE
<1>1. PICK t \in Text(MaxText) :
         /\ disk' = IF job = "writeFile" THEN <<>> ELSE disk
         /\ out' = CString(t) /\ want' = disk' \o t /\ stage' = "fputs"
  BY DEF openFile, Goto
<1>2. CString(t) \in Seq(Chars) /\ (~Nuls => CString(t) = t)
  BY <1>1, TextSeq, CStringPrefix, FileAssumption
<1>3. err' = FALSE
  BY DEF openFile
<1>4. disk' \in Seq(Chars)
  BY <1>1 DEF FileTyped
<1>5. ~Nuls => want' = disk' \o out'
  BY <1>1, <1>2, Zenon
<1>6. out' \in Seq(Chars) /\ stage' = "fputs"
  BY <1>1, <1>2
<1> QED
  BY <1>3, <1>4, <1>5, <1>6

\* The size of a file as an int, below twice the largest int: itself or negative.
LEMMA SizeInt ==
  ASSUME NEW n \in Nat
  PROVE  int(n) \in Int /\ (n <= 2 * IntMax + 1 => int(n) = n \/ int(n) < 0)
<1> DEFINE w == 2 * (IntMax + 1)
<1>1. w \in Nat /\ w > 0 /\ IntMax \in Nat
  BY FileAssumption
<1>2. int(n) = IF n % w <= IntMax THEN n % w ELSE (n % w) - w
  BY DEF int
<1>3. n <= 2 * IntMax + 1 => n < w
  BY <1>1
<1> HIDE DEF w
<1>4. n % w \in 0..(w - 1)
  BY <1>1
<1>5. n < w => n % w = n
  BY <1>1
<1> QED
  BY <1>1, <1>2, <1>3, <1>4, <1>5

LEMMA FileTypedStep == ASSUME FileTyped, [Next]_vars PROVE FileTyped'
<1>1. CASE UNCHANGED vars
  BY <1>1 DEF vars, FileTyped
<1>2. CASE openFile
  <2>1. UNCHANGED <<job, bad, size, line>> /\ pos' = 0
    BY <1>2 DEF openFile
  <2>2. disk' \in Seq(Chars) /\ out' \in Seq(Chars)
    <3>1. CASE job \in Writing
      BY <1>2, <3>1, OpenTyped
    <3>2. CASE job \notin Writing
      BY <1>2, <3>2 DEF openFile, FileTyped
    <3> QED
      BY <3>1, <3>2
  <2> QED
    BY <2>1, <2>2 DEF FileTyped
<1>3. CASE openFile_fails \/ closeRead \/ fileSize_fails \/ malloc_fails
  BY <1>3 DEF openFile_fails, closeRead, fileSize_fails, malloc_fails, stream, lines, FileTyped
<1>4. CASE readLinesOnto
  <2>1. UNCHANGED <<job, disk, bad, pos, out>> /\ size' = BufSiz /\ line' = <<>>
    BY <1>4 DEF readLinesOnto, stream
  <2>2. BufSiz \in Nat
    BY FileAssumption
  <2> QED
    BY <2>1, <2>2 DEF FileTyped
<1>5. CASE seekLine
  BY <1>5 DEF seekLine, fgetc, FileTyped
<1>6. CASE readLine \/ readLine_fails
  <2>1. UNCHANGED <<job, disk, bad, out>> /\ pos' \in Nat
    BY <1>6 DEF readLine, readLine_fails, stream, fgetc, FileTyped
  <2>2. (line' = <<>> /\ size' = 0) \/ UNCHANGED <<line, size>> \/
        (Char /\ line' = Append(line, Next1) /\ size' = Enlarged(Len(line) + 1))
    BY <1>6 DEF readLine, readLine_fails, Finish
  <2>3. line' \in Seq(Chars) /\ size' \in Nat
    <3>1. Char => Next1 \in Chars
      BY DEF Char, Next1, FileTyped
    <3>2. Enlarged(Len(line) + 1) \in Nat
      BY DEF FileTyped, Enlarged
    <3>3. Char => Append(line, Next1) \in Seq(Chars)
      BY <3>1 DEF FileTyped
    <3>4. CASE line' = <<>> /\ size' = 0
      BY <3>4
    <3>5. CASE Char /\ line' = Append(line, Next1) /\ size' = Enlarged(Len(line) + 1)
      BY <3>2, <3>3, <3>5, Zenon
    <3>6. CASE UNCHANGED <<line, size>>
      BY <3>6 DEF FileTyped
    <3> QED
      BY <2>2, <3>4, <3>5, <3>6
  <2> QED
    BY <2>1, <2>3 DEF FileTyped
<1>7. CASE readChars \/ readBufferData
  <2>1. UNCHANGED <<job, disk, bad, out, size, line>>
    BY <1>7 DEF readChars, readBufferData, lines
  <2>2. ASSUME NEW n \in Nat PROVE Last(n) \in Nat
    BY DEF Last, FileTyped
  <2>3. pos' = Last(Chunk) \/ (pos' = Last(fileSize) /\ fileSize >= 0)
    BY <1>7 DEF readChars, readBufferData, fread
  <2>4. Chunk \in Nat /\ fileSize \in Int
    BY FileAssumption, SizeInt DEF FileTyped, fileSize
  <2>5. pos' \in Nat
    BY <2>2, <2>3, <2>4
  <2> QED
    BY <2>1, <2>5 DEF FileTyped
<1>8. CASE writeLine \/ closeFile
  <2>1. UNCHANGED <<job, bad, pos, size, line>>
    BY <1>8 DEF writeLine, closeFile, lines, stream
  <2>2. Flush \/ UNCHANGED <<disk, out>> \/ (disk' = disk /\ out' = <<>>)
    BY <1>8 DEF writeLine, closeFile
  <2>3. disk' \in Seq(Chars) /\ out' \in Seq(Chars)
    <3>1. CASE Flush
      BY <3>1, FlushMoves
    <3>2. CASE UNCHANGED <<disk, out>>
      BY <3>2 DEF FileTyped
    <3>3. CASE disk' = disk /\ out' = <<>>
      BY <3>3 DEF FileTyped
    <3> QED
      BY <2>2, <3>1, <3>2, <3>3
  <2> QED
    BY <2>1, <2>3 DEF FileTyped
<1> QED
  BY <1>1, <1>2, <1>3, <1>4, <1>5, <1>6, <1>7, <1>8 DEF Next

LEMMA FileTypedInit == Init => FileTyped
<1> SUFFICES ASSUME Init PROVE FileTyped
  OBVIOUS
<1>1. disk \in Seq(Chars)
  BY TextSeq, FileAssumption DEF Init
<1>2. bad \in Nat \cup {-1}
  BY <1>1 DEF Init
<1> QED
  BY <1>1, <1>2 DEF Init, FileTyped

LEMMA FileTyping == Spec => []FileTyped
BY FileTypedInit, FileTypedStep, PTL DEF Spec

-----------------------------------------------------------------------------
(***************************************************************************)
(* getdelim.  The line and the null behind it fit into the block: it is    *)
(* doubled before they would not.                                          *)
(***************************************************************************)

\* getdelim in idris2_readLine writes neither a character nor the final null
\* behind the block it has allocated, for every length of line and every
\* initial size above one.
THEOREM FileInBuffer == Spec => []InBuffer
<1>1. Init => InBuffer
  BY DEF Init, InBuffer
<1>2. FileTyped /\ InBuffer /\ [Next]_vars => InBuffer'
  <2> SUFFICES ASSUME FileTyped, InBuffer, [Next]_vars, stage' = "line"
               PROVE  Len(line') + 1 < size'
    BY DEF InBuffer
  <2>1. CASE UNCHANGED vars
    BY <2>1 DEF vars, InBuffer
  <2>2. CASE readLinesOnto
    BY <2>2, FileAssumption DEF readLinesOnto
  <2>3. CASE readLine
    <3>1. stage = "line" /\ Char /\ line' = Append(line, Next1) /\ size' = Enlarged(Len(line) + 1)
      BY <2>3 DEF readLine, Finish, Goto
    <3>2. Len(line') = Len(line) + 1 /\ Len(line) \in Nat /\ size \in Nat /\ Len(line) + 1 < size
      BY <3>1 DEF FileTyped, InBuffer
    <3>3. size' > Len(line) + 2
      BY <3>1, <3>2 DEF Enlarged
    <3> QED
      BY <3>2, <3>3
  <2>4. CASE openFile \/ openFile_fails \/ seekLine \/ readChars \/ readBufferData
             \/ writeLine \/ closeFile \/ closeRead \/ readLine_fails \/ fileSize_fails
             \/ malloc_fails
    <3>1. stage' # "line"
      BY <2>4 DEF openFile, openFile_fails, seekLine, readChars, readBufferData, writeLine,
             closeFile, closeRead, readLine_fails, fileSize_fails, malloc_fails, Finish, Goto
    <3> QED
      BY <3>1
  <2> QED
    BY <2>1, <2>2, <2>3, <2>4 DEF Next
<1> QED
  BY <1>1, <1>2, FileTyping, PTL DEF Spec

-----------------------------------------------------------------------------
(***************************************************************************)
(* Writing.  Until a write has failed, the disk and stdio's buffer hold    *)
(* together what the file is to be.                                        *)
(***************************************************************************)
WriteInv == job \in Writing =>
    /\ stage \in {"open", "fputs", "close", "closeLeft", "right", "returnedLeft", "aborted"}
    /\ stage \in {"fputs", "close"} => ~err /\ disk \o out = want
    /\ stage = "right" => disk = want

\* writeFile and appendFile return Right only when the disk holds all of the
\* text, whatever room it has, whenever stdio writes and whichever reads and
\* allocations fail, for texts without nulls.
THEOREM FileWriteSound == ASSUME ~Nuls PROVE Spec => []WriteSound
<1>1. Init => WriteInv
  BY DEF Init, WriteInv
<1>2. FileTyped /\ WriteInv /\ [Next]_vars => WriteInv'
  <2> SUFFICES ASSUME FileTyped, WriteInv, [Next]_vars, job' \in Writing
               PROVE  WriteInv'
    BY DEF WriteInv
  <2>0. job \in Writing
    BY DEF Next, vars, openFile, openFile_fails, readLinesOnto, seekLine, readLine, readChars,
       readBufferData, writeLine, closeFile, closeRead, readLine_fails, fileSize_fails, malloc_fails
  <2>1. CASE UNCHANGED vars
    BY <2>1 DEF vars, WriteInv
  <2>2. CASE openFile
    BY <2>0, <2>2, OpenTyped DEF WriteInv
  <2>3. CASE openFile_fails
    BY <2>0, <2>3 DEF openFile_fails, Goto, WriteInv
  <2>4. CASE writeLine
    <3>1. CASE stage' = "close" /\ UNCHANGED <<disk, out, err>>
      BY <2>0, <2>4, <3>1 DEF writeLine, WriteInv
    <3>2. CASE Flush /\ err' = (out' # <<>>)
               /\ stage' = (IF out' = <<>> THEN "close" ELSE "closeLeft")
      <4>1. disk' \o out' = want'
        BY <2>0, <2>4, <3>2, FlushMoves DEF writeLine, WriteInv
      <4>2. stage' = "close" => ~err'
        BY <3>2
      <4> QED
        BY <3>2, <4>1, <4>2 DEF WriteInv
    <3> QED
      BY <2>4, <3>1, <3>2 DEF writeLine, Goto
  <2>5. CASE closeFile
    <3>1. /\ UNCHANGED want /\ stage \in {"close", "closeLeft"}
          /\ stage' \in {"aborted", "right", "returnedLeft"}
          /\ stage' = "right" => stage = "close" /\ out' = <<>>
      BY <2>5 DEF closeFile, Goto, Verified
    <3>2. ASSUME stage' = "right" PROVE disk' = want'
      <4>1. ~err /\ disk \o out = want /\ out' = <<>>
        BY <2>0, <3>1, <3>2 DEF WriteInv
      <4>2. disk' \in Seq(Chars) /\ disk' \o <<>> = want
        BY <2>5, <4>1, FlushMoves DEF closeFile
      <4> QED
        BY <3>1, <4>2, ConcatEmptySeq
    <3> QED
      BY <3>1, <3>2 DEF WriteInv
  <2>6. CASE readLinesOnto \/ seekLine \/ readLine \/ readLine_fails \/ readChars
             \/ readBufferData \/ fileSize_fails \/ malloc_fails \/ closeRead
    BY <2>0, <2>6 DEF WriteInv, readLinesOnto, seekLine, readLine, readLine_fails, readChars,
       readBufferData, fileSize_fails, malloc_fails, closeRead
  <2> QED
    BY <2>1, <2>2, <2>3, <2>4, <2>5, <2>6 DEF Next
<1>3. WriteInv => WriteSound
  BY DEF WriteInv, WriteSound
<1> QED
  BY <1>1, <1>2, <1>3, FileTyping, PTL DEF Spec

-----------------------------------------------------------------------------
(***************************************************************************)
(* Reading.  What the program has got is a prefix of the file.  A page     *)
(* starts where the page before it has stopped because both are counted in *)
(* newlines: it has stopped behind newline number page, or at the end of a *)
(* file that has fewer newlines.                                           *)
(***************************************************************************)
Whole == {"fGetChars", "createBufferFromFile"}

\* The newlines among the first p characters.
Newlines(p) == Cardinality({i \in 1..p : disk[i] = "n"})
\* p is behind newline number k, or at the start.
EndOf(p, k) == Newlines(p) = k /\ (p = 0 \/ disk[p] = "n")
\* The program has got the first k lines.
Have(k) == EndOf(Len(got), k) \/ (Len(got) = Len(disk) /\ Newlines(Len(disk)) < k)
\* The lines that have been read when fuel is left.
Done == page + PageLines - fuel
\* seekLine has offset lines to go.
Skipping == Have(page) /\ Newlines(pos) = page - offset /\ fuel = PageLines

PrefixInv ==
    /\ stage \in {"open", "chars", "buffer", "loop", "seek", "line", "dry", "end", "left",
                  "right", "returnedLeft"}
    /\ stage \notin {"open", "returnedLeft"} => want = disk
    /\ got \in Seq(Chars) /\ Len(got) <= Len(disk) /\ got = SubSeq(disk, 1, Len(got))
    /\ pos <= Len(disk) /\ Len(disk) <= MaxLen
    /\ stage \in {"end", "right"} => got = disk
    /\ stage = "chars" => Len(got) = pos
    /\ stage = "buffer" => got = <<>> /\ pos = 0
    /\ job \in Whole => /\ stage \notin {"loop", "seek", "line", "dry"}
                        /\ stage = "open" => got = <<>>

LinesInv ==
    /\ page \in Nat
    /\ job # "readFilePage" => /\ page = 0 /\ stage # "dry"
                               /\ stage \in {"loop", "seek", "line"} => fuel = Forever
    /\ stage = "open" => Have(page)
    /\ stage = "dry" => Have(page + PageLines)
    /\ stage \in {"loop", "seek", "line"} => offset \in Nat /\ fuel \in Nat \cup {Forever}
    /\ stage = "seek" => ~eof /\ offset > 0 /\ Skipping
    /\ stage = "line" => /\ ~eof /\ offset = 0 /\ fuel # 0
                         /\ Len(got) <= pos /\ line = SubSeq(disk, Len(got) + 1, pos)
                         /\ fuel # Forever => Newlines(pos) = Done
    /\ stage = "loop" => /\ eof => got = disk /\ (fuel # Forever => Newlines(Len(disk)) < Done)
                         /\ ~eof /\ offset > 0 => Skipping
                         /\ ~eof /\ offset = 0 => /\ Len(got) = pos
                                                  /\ fuel # Forever => EndOf(pos, Done)

ReadInv == job \in Reading => PrefixInv /\ (job \notin Whole => LinesInv)

LEMMA NewlinesStep ==
  ASSUME NEW p \in Nat
  PROVE  /\ Newlines(p) \in Nat
         /\ Newlines(p + 1) = IF disk[p + 1] = "n" THEN Newlines(p) + 1 ELSE Newlines(p)
<1> DEFINE N(q) == {i \in 1..q : disk[i] = "n"}
<1>1. IsFiniteSet(N(p))
  <2>1. IsFiniteSet(1..p)
    BY FS_Interval
  <2> QED
    BY <2>1, FS_Subset
<1>2. Cardinality(N(p)) \in Nat
  BY <1>1, FS_CardinalityType
<1>3. p + 1 \notin N(p)
  OBVIOUS
<1>4. N(p + 1) = IF disk[p + 1] = "n" THEN N(p) \cup {p + 1} ELSE N(p)
  OBVIOUS
<1> HIDE DEF N
<1>5. Cardinality(N(p) \cup {p + 1}) = Cardinality(N(p)) + 1
  BY <1>1, <1>3, FS_AddElement
<1>6. Cardinality(N(p + 1)) = IF disk[p + 1] = "n" THEN Cardinality(N(p)) + 1 ELSE Cardinality(N(p))
  BY <1>4, <1>5
<1> QED
  BY <1>2, <1>6 DEF N, Newlines

LEMMA NewlinesGrow ==
  ASSUME NEW p \in Nat, NEW q \in Nat, p <= q PROVE Newlines(p) <= Newlines(q)
<1>1. IsFiniteSet(1..q)
  BY FS_Interval
<1>2. IsFiniteSet({i \in 1..q : disk[i] = "n"})
  BY <1>1, FS_Subset
<1>3. {i \in 1..p : disk[i] = "n"} \subseteq {i \in 1..q : disk[i] = "n"}
  OBVIOUS
<1> QED
  BY <1>2, <1>3, FS_Subset DEF Newlines

LEMMA NewlinesNone == Newlines(0) = 0
<1>1. {i \in 1..0 : disk[i] = "n"} = {}
  OBVIOUS
<1> QED
  BY <1>1, FS_EmptySet DEF Newlines

\* There is one place behind newline number k.
LEMMA EndUnique ==
  ASSUME NEW p \in Nat, NEW q \in Nat, NEW k, EndOf(p, k), EndOf(q, k) PROVE p = q
<1>1. ASSUME NEW a \in Nat, NEW b \in Nat, EndOf(a, k), EndOf(b, k), a < b PROVE FALSE
  <2>1. b - 1 \in Nat /\ a <= b - 1 /\ (b - 1) + 1 = b
    BY <1>1
  <2>2. disk[b] = "n" /\ Newlines(a) = k /\ Newlines(b) = k
    BY <1>1 DEF EndOf
  <2>3. Newlines(b) = Newlines(b - 1) + 1 /\ Newlines(b - 1) \in Nat
    BY <2>1, <2>2, NewlinesStep
  <2>4. Newlines(a) <= Newlines(b - 1) /\ Newlines(a) \in Nat
    BY <2>1, NewlinesGrow, NewlinesStep
  <2> QED
    BY <2>2, <2>3, <2>4
<1> QED
  BY <1>1

LEMMA Sizes ==
  ASSUME FileTyped, PrefixInv
  PROVE  /\ disk \in Seq(Chars) /\ got \in Seq(Chars) /\ line \in Seq(Chars)
         /\ Len(disk) \in Nat /\ Len(got) \in Nat /\ Len(got) <= Len(disk)
         /\ pos \in Nat /\ pos <= Len(disk)
<1>1. disk \in Seq(Chars) /\ line \in Seq(Chars) /\ pos \in Nat
  BY Zenon DEF FileTyped
<1>2. got \in Seq(Chars) /\ Len(got) <= Len(disk) /\ pos <= Len(disk)
  BY Zenon DEF PrefixInv
<1> QED
  BY <1>1, <1>2, LenProperties

\* Who has the first k lines, and stands behind line k, stands behind all it has.
LEMMA HaveThere ==
  ASSUME FileTyped, PrefixInv, NEW k, NEW p \in Nat, p <= Len(disk), EndOf(p, k), Have(k)
  PROVE  Len(got) = p
<1>1. Len(got) \in Nat /\ Len(disk) \in Nat
  BY Sizes
<1>2. Newlines(p) <= Newlines(Len(disk)) /\ Newlines(p) = k
  BY <1>1, NewlinesGrow DEF EndOf
<1>3. Newlines(p) \in Nat /\ Newlines(Len(disk)) \in Nat
  BY <1>1, NewlinesStep
<1>4. EndOf(Len(got), k)
  BY <1>2, <1>3 DEF Have
<1> QED
  BY <1>1, <1>4, EndUnique

\* A file with fewer newlines has been read to its end.
LEMMA HaveAll ==
  ASSUME FileTyped, PrefixInv, NEW k \in Nat, Newlines(Len(disk)) < k, Have(k)
  PROVE  got = disk
<1>1. Len(got) \in Nat /\ Len(disk) \in Nat /\ Len(got) <= Len(disk)
  BY Sizes
<1>2. Newlines(Len(got)) <= Newlines(Len(disk))
  BY <1>1, NewlinesGrow
<1>3. Newlines(Len(got)) \in Nat /\ Newlines(Len(disk)) \in Nat
  BY <1>1, NewlinesStep
<1>4. Len(got) = Len(disk)
  BY <1>2, <1>3 DEF Have, EndOf
<1>5. SubSeq(disk, 1, Len(disk)) = disk
  BY SubSeqFull DEF FileTyped
<1> QED
  BY <1>4, <1>5 DEF PrefixInv

\* The file stays: so does every count, wherever the stream has got to.
LEMMA SameCounts ==
  ASSUME UNCHANGED disk
  PROVE  /\ Newlines(pos)' = Newlines(pos')
         /\ Newlines(Len(disk))' = Newlines(Len(disk))
         /\ EndOf(pos, Done)' <=> EndOf(pos', Done')
<1>1. Newlines(pos)' = Newlines(pos')
  BY DEF Newlines
<1>2. Newlines(Len(disk))' = Newlines(Len(disk))
  BY DEF Newlines
<1>3. EndOf(pos, Done)' <=> EndOf(pos', Done')
  BY <1>1 DEF EndOf
<1> QED
  BY <1>1, <1>2, <1>3

LEMMA SameHave ==
  ASSUME UNCHANGED <<disk, got>>
  PROVE  /\ Have(page)' <=> Have(page')
         /\ Have(page + PageLines)' <=> Have(page' + PageLines)
<1>1. Newlines(Len(got))' = Newlines(Len(got)) /\ Newlines(Len(disk))' = Newlines(Len(disk))
  BY DEF Newlines
<1> QED
  BY <1>1 DEF Have, EndOf

\* openFile: the page that follows is the one that is wanted.
LEMMA OpenRead ==
  ASSUME FileTyped, ReadInv, job \in Reading, openFile PROVE ReadInv'
<1>0. job \notin Writing
  BY DEF Reading, Writing
<1>1. /\ stage = "open" /\ pos' = 0 /\ eof' = FALSE /\ want' = disk /\ offset' = page
      /\ fuel' = IF job = "readFilePage" THEN PageLines ELSE Forever
      /\ stage' = CASE job = "fGetChars" -> "chars" [] job = "createBufferFromFile" -> "buffer"
                    [] OTHER -> "loop"
      /\ UNCHANGED <<job, disk, page, got>>
  BY <1>0 DEF openFile, Goto
<1>2. PrefixInv /\ (job \notin Whole => LinesInv)
  BY DEF ReadInv
<1>3. Len(disk) \in Nat
  BY <1>2, Sizes
<1>4. /\ job = "fGetChars" => stage' = "chars"
      /\ job = "createBufferFromFile" => stage' = "buffer"
      /\ job \notin Whole => stage' = "loop"
  BY <1>1 DEF Whole
<1>5. PrefixInv'
  <2>1. stage' \in {"chars", "buffer", "loop"} /\ (job \in Whole => stage' # "loop" /\ got = <<>>)
        /\ (stage' \in {"chars", "buffer"} => job \in Whole)
    BY <1>1, <1>2, <1>4 DEF Whole, PrefixInv
  <2>2. got = <<>> => Len(got) = 0
    OBVIOUS
  <2> QED
    BY <1>1, <1>2, <1>3, <2>1, <2>2 DEF PrefixInv
<1>6. ASSUME job \notin Whole PROVE LinesInv'
  <2>1. page \in Nat /\ Have(page) /\ (job # "readFilePage" => page = 0)
    BY <1>1, <1>2, <1>6 DEF LinesInv
  <2>2. fuel' \in Nat \cup {Forever} /\ (fuel' # Forever => fuel' = PageLines)
        /\ (job # "readFilePage" => fuel' = Forever) /\ PageLines \in Nat
    BY <1>1, FileAssumption DEF Forever
  <2>3. offset' > 0 => fuel' = PageLines
    BY <1>1, <2>1, <2>2 DEF Forever
  <2>4. Have(page)' /\ Newlines(pos)' = 0
    BY <1>1, <2>1, SameCounts, SameHave, NewlinesNone
  <2>5. page = 0 => Len(got) = 0 /\ EndOf(0, 0)
    <3>1. EndOf(0, 0)
      BY NewlinesNone DEF EndOf
    <3>2. ASSUME page = 0 PROVE Len(got) = 0
      BY <1>2, <1>3, <2>1, <3>1, <3>2, HaveThere
    <3> QED
      BY <3>1, <3>2
  <2>6. fuel' # Forever => Done' = page
    BY <1>1, <2>1, <2>2 DEF Done
  <2>7. offset' > 0 => Skipping'
    <3>1. page - page = 0
      BY <2>1
    <3> QED
      BY <1>1, <2>1, <2>3, <2>4, <3>1 DEF Skipping
  <2>8. offset' = 0 => Len(got') = pos' /\ (fuel' # Forever => EndOf(pos, Done)')
    BY <1>1, <2>5, <2>6, SameCounts
  <2>9. ~eof' /\ stage' = "loop" /\ page' = page /\ job' = job /\ offset' \in Nat
    BY <1>1, <1>4, <1>6, <2>1
  <2> QED
    BY <2>1, <2>2, <2>7, <2>8, <2>9 DEF LinesInv
<1> QED
  BY <1>1, <1>5, <1>6 DEF ReadInv

LEMMA OpenFailsRead ==
  ASSUME FileTyped, ReadInv, job \in Reading, openFile_fails \/ fileSize_fails PROVE ReadInv'
<1>1. stage' = "returnedLeft" /\ UNCHANGED <<job, disk, pos, page, got, want>>
  BY DEF openFile_fails, fileSize_fails, Goto, stream, lines
<1> QED
  BY <1>1 DEF ReadInv, PrefixInv, LinesInv

\* readLinesOnto decides how to go on.
LEMMA LoopRead ==
  ASSUME FileTyped, ReadInv, job \in Reading, readLinesOnto PROVE ReadInv'
<1>1. /\ stage = "loop" /\ UNCHANGED <<job, disk, pos, eof, offset, fuel, page, got, want>>
      /\ line' = <<>>
      /\ stage' = CASE fuel = 0 -> "dry" [] fuel # 0 /\ eof -> "end"
                    [] fuel # 0 /\ ~eof /\ offset > 0 -> "seek" [] OTHER -> "line"
  BY DEF readLinesOnto, Goto, stream
<1>2. PrefixInv /\ job \notin Whole /\ LinesInv
  BY <1>1 DEF ReadInv, PrefixInv
<1>3. /\ offset \in Nat /\ fuel \in Nat \cup {Forever}
      /\ eof => got = disk /\ (fuel # Forever => Newlines(Len(disk)) < Done)
      /\ ~eof /\ offset > 0 => Skipping
      /\ ~eof /\ offset = 0 => Len(got) = pos /\ (fuel # Forever => EndOf(pos, Done))
  BY <1>1, <1>2 DEF LinesInv
<1>4. page \in Nat /\ PageLines \in Nat /\ PageLines > 0
  BY <1>2, FileAssumption DEF LinesInv
<1>5. CASE fuel = 0
  <2>1. stage' = "dry" /\ fuel # Forever
    BY <1>1, <1>5 DEF Forever
  <2>2. Done = page + PageLines
    BY <1>4, <1>5 DEF Done
  <2>3. ~(~eof /\ offset > 0)
    BY <1>3, <1>4, <1>5 DEF Skipping
  <2>4. Have(page + PageLines)
    <3>1. CASE eof
      BY <1>3, <2>1, <2>2, <3>1 DEF Have
    <3>2. CASE ~eof
      <4>1. Len(got) = pos /\ EndOf(pos, Done)
        BY <1>3, <2>1, <2>3, <3>2
      <4> QED
        BY <2>2, <4>1 DEF Have
    <3> QED
      BY <3>1, <3>2
  <2>5. Have(page + PageLines)'
    BY <1>1, <2>4, SameHave
  <2>6. job = "readFilePage"
    BY <1>1, <1>2, <2>1 DEF LinesInv
  <2>7. PrefixInv'
    BY <1>1, <1>2, <2>1 DEF PrefixInv
  <2>8. LinesInv'
    BY <1>1, <1>4, <2>1, <2>5, <2>6 DEF LinesInv
  <2> QED
    BY <2>7, <2>8 DEF ReadInv
<1>6. CASE fuel # 0 /\ eof
  <2>1. stage' = "end" /\ got = disk
    BY <1>1, <1>3, <1>6
  <2> QED
    BY <1>1, <1>2, <2>1 DEF ReadInv, PrefixInv, LinesInv
<1>7. CASE fuel # 0 /\ ~eof /\ offset > 0
  <2>1. stage' = "seek" /\ Skipping
    BY <1>1, <1>3, <1>7
  <2>2. Skipping'
    BY <1>1, <2>1, SameCounts, SameHave DEF Skipping
  <2>3. PrefixInv'
    BY <1>1, <1>2, <2>1 DEF PrefixInv
  <2>4. LinesInv'
    BY <1>1, <1>2, <1>3, <1>7, <2>1, <2>2 DEF LinesInv
  <2> QED
    BY <2>3, <2>4 DEF ReadInv
<1>8. CASE fuel # 0 /\ ~eof /\ ~(offset > 0)
  <2>1. stage' = "line" /\ offset = 0 /\ Len(got) = pos /\ (fuel # Forever => EndOf(pos, Done))
    BY <1>1, <1>3, <1>8
  <2>2. fuel' # Forever => Newlines(pos)' = Done'
    <3>1. Done' = Done
      BY <1>1 DEF Done
    <3> QED
      BY <1>1, <2>1, <3>1, SameCounts DEF EndOf
  <2>3. pos \in Nat /\ SubSeq(disk, pos + 1, pos) = <<>>
    <3>1. pos \in Nat
      BY <1>2, Sizes
    <3> QED
      BY <3>1, SubSeqEmpty
  <2>4. line' = SubSeq(disk', Len(got') + 1, pos') /\ Len(got') <= pos'
    BY <1>1, <2>1, <2>3
  <2>5. PrefixInv'
    BY <1>1, <1>2, <2>1 DEF PrefixInv
  <2>6. LinesInv'
    BY <1>1, <1>2, <1>3, <1>8, <2>1, <2>2, <2>4 DEF LinesInv
  <2> QED
    BY <2>5, <2>6 DEF ReadInv
<1> QED
  BY <1>5, <1>6, <1>7, <1>8

\* idris2_seekLine: the place where the page starts, or the end of the file.
LEMMA SeekRead ==
  ASSUME FileTyped, ReadInv, job \in Reading, bad = -1, seekLine PROVE ReadInv'
<1>1. /\ stage = "seek" /\ fgetc
      /\ UNCHANGED <<job, disk, fuel, page, got, want>>
  BY DEF seekLine
<1>2. PrefixInv /\ job \notin Whole /\ LinesInv
  BY <1>1 DEF ReadInv, PrefixInv
<1>3. /\ offset \in Nat /\ offset > 0 /\ ~eof /\ page \in Nat /\ fuel \in Nat \cup {Forever}
      /\ Have(page) /\ Newlines(pos) = page - offset /\ fuel = PageLines
      /\ job # "readFilePage" => fuel = Forever /\ page = 0
  BY <1>1, <1>2 DEF LinesInv, Skipping
<1>4. Len(disk) \in Nat /\ pos \in Nat /\ pos <= Len(disk) /\ pos # bad
      /\ PageLines \in Nat /\ PageLines > 0
  BY <1>2, Sizes, FileAssumption
<1>5. Have(page)'
  BY <1>1, <1>3, SameHave
<1>6. Done' = page
  BY <1>1, <1>3, <1>4 DEF Done
<1>7. CASE pos < Len(disk) /\ Next1 # "n"
  <2>1. pos' = pos + 1 /\ eof' = eof /\ stage' = "seek" /\ offset' = offset
    BY <1>1, <1>4, <1>7 DEF seekLine, fgetc, Char, AtEnd, Goto
  <2>2. Newlines(pos)' = Newlines(pos)
    BY <1>1, <1>4, <1>7, <2>1, NewlinesStep, SameCounts DEF Next1
  <2>3. Skipping'
    BY <1>1, <1>3, <1>5, <2>1, <2>2 DEF Skipping
  <2>4. pos' <= Len(disk) /\ ~eof'
    BY <1>3, <1>4, <1>7, <2>1
  <2>5. PrefixInv'
    BY <1>1, <1>2, <2>1, <2>4 DEF PrefixInv
  <2>6. LinesInv'
    BY <1>1, <1>3, <2>1, <2>3, <2>4 DEF LinesInv
  <2> QED
    BY <2>5, <2>6 DEF ReadInv
<1>8. CASE pos < Len(disk) /\ Next1 = "n"
  <2>1. pos' = pos + 1 /\ eof' = eof /\ stage' = "loop" /\ offset' = offset - 1
    BY <1>1, <1>4, <1>8 DEF seekLine, fgetc, Char, AtEnd, Goto
  <2>2. Newlines(pos + 1) = page - offset' /\ disk[pos + 1] = "n"
    <3>1. Newlines(pos + 1) = Newlines(pos) + 1
      BY <1>4, <1>8, NewlinesStep DEF Next1
    <3> QED
      BY <1>3, <1>8, <2>1, <3>1 DEF Next1
  <2>3. Newlines(pos)' = page' - offset'
    BY <1>1, <2>1, <2>2, SameCounts
  <2>4. Skipping'
    BY <1>1, <1>3, <1>5, <2>3 DEF Skipping
  <2>5. pos' <= Len(disk) /\ ~eof' /\ pos + 1 \in Nat
    BY <1>3, <1>4, <1>8, <2>1
  <2>6. offset' = 0 => Len(got) = pos' /\ EndOf(pos, Done)'
    <3> SUFFICES ASSUME offset' = 0 PROVE Len(got) = pos' /\ EndOf(pos, Done)'
      OBVIOUS
    <3>1. page - offset' = page
      BY <1>3
    <3>2. EndOf(pos + 1, page)
      BY <2>2, <3>1 DEF EndOf
    <3>3. pos + 1 <= Len(disk)
      BY <2>1, <2>5
    <3>4. Len(got) = pos + 1
      BY <1>2, <1>3, <2>5, <3>2, <3>3, HaveThere
    <3> QED
      BY <1>1, <1>6, <2>1, <3>2, <3>4, SameCounts
  <2>7. PrefixInv'
    BY <1>1, <1>2, <2>1, <2>5 DEF PrefixInv
  <2>8. offset' \in Nat
    BY <1>3, <2>1
  <2>9. LinesInv'
    BY <1>1, <1>3, <2>1, <2>4, <2>5, <2>6, <2>8 DEF LinesInv
  <2> QED
    BY <2>7, <2>9 DEF ReadInv
<1>9. CASE pos = Len(disk)
  <2>1. pos' = pos /\ eof' = TRUE /\ stage' = "loop" /\ offset' = offset - 1
    BY <1>1, <1>4, <1>9 DEF seekLine, fgetc, Char, AtEnd, Goto
  <2>2. Newlines(Len(disk)) < page
    BY <1>3, <1>9
  <2>3. got = disk
    BY <1>2, <1>3, <2>2, HaveAll
  <2>4. Newlines(Len(disk))' < Done'
    BY <1>1, <1>6, <2>2, SameCounts
  <2>5. PrefixInv'
    BY <1>1, <1>2, <2>1 DEF PrefixInv
  <2>6. offset' \in Nat /\ eof'
    BY <1>3, <2>1
  <2>7. LinesInv'
    BY <1>1, <1>3, <2>1, <2>3, <2>4, <2>6 DEF LinesInv
  <2> QED
    BY <2>5, <2>7 DEF ReadInv
<1> QED
  BY <1>4, <1>7, <1>8, <1>9

\* idris2_readLine: one more character, a whole line, or the rest of the file.
LEMMA LineRead ==
  ASSUME FileTyped, ReadInv, job \in Reading, bad = -1, ~scarce, ~Nuls, readLine
  PROVE  ReadInv'
<1>1. /\ stage = "line" /\ fgetc
      /\ UNCHANGED <<job, disk, offset, page, want>>
  BY DEF readLine
<1>2. PrefixInv /\ job \notin Whole /\ LinesInv
  BY <1>1 DEF ReadInv, PrefixInv
<1>3. /\ offset = 0 /\ ~eof /\ page \in Nat /\ fuel \in Nat \cup {Forever} /\ fuel # 0
      /\ Len(got) <= pos /\ line = SubSeq(disk, Len(got) + 1, pos)
      /\ fuel # Forever => Newlines(pos) = Done
      /\ job # "readFilePage" => fuel = Forever /\ page = 0
  BY <1>1, <1>2 DEF LinesInv
<1>4. /\ Len(disk) \in Nat /\ pos \in Nat /\ pos <= Len(disk) /\ pos # bad /\ Len(got) \in Nat
      /\ disk \in Seq(Chars) /\ got \in Seq(Chars) /\ line \in Seq(Chars)
      /\ PageLines \in Nat /\ want = disk
  <2>1. want = disk
    BY <1>1, <1>2 DEF PrefixInv
  <2> QED
    BY <1>2, <2>1, Sizes, FileAssumption
<1>5. got \o line = SubSeq(disk, 1, pos) /\ got = SubSeq(disk, 1, Len(got))
  <2>1. got = SubSeq(disk, 1, Len(got))
    BY <1>2 DEF PrefixInv
  <2>2. SubSeq(disk, 1, Len(got)) \o SubSeq(disk, Len(got) + 1, pos) = SubSeq(disk, 1, pos)
    BY <1>3, <1>4, MeetFront
  <2> QED
    BY <1>3, <2>1, <2>2, Zenon
<1>6. ASSUME pos < Len(disk)
      PROVE  /\ pos' = pos + 1 /\ eof' = eof /\ pos + 1 <= Len(disk) /\ ~eof'
             /\ Append(line, Next1) = SubSeq(disk, Len(got) + 1, pos + 1)
             /\ Newlines(pos)' = Newlines(pos + 1)
  <2>1. pos' = pos + 1 /\ eof' = eof /\ pos + 1 <= Len(disk) /\ ~eof'
    BY <1>1, <1>3, <1>4, <1>6 DEF fgetc, Char
  <2>2. Append(line, Next1) = SubSeq(disk, Len(got) + 1, pos + 1)
    BY <1>3, <1>4, <1>6, OneMore DEF Next1
  <2> QED
    BY <1>1, <2>1, <2>2, SameCounts
<1>7. CASE pos < Len(disk) /\ Next1 # "n"
  <2>1. line' = Append(line, Next1) /\ UNCHANGED <<stage, got, fuel>>
    BY <1>4, <1>7 DEF readLine, Char
  <2>2. line' = SubSeq(disk', Len(got') + 1, pos') /\ Len(got') <= pos' /\ pos' <= Len(disk')
    <3>1. line' = SubSeq(disk', Len(got') + 1, pos')
      BY <1>1, <1>6, <1>7, <2>1, Zenon
    <3>2. pos' = pos + 1 /\ disk' = disk /\ got' = got
      BY <1>1, <1>6, <1>7, <2>1
    <3> QED
      BY <1>3, <1>4, <1>7, <3>1, <3>2
  <2>3. fuel' # Forever => Newlines(pos)' = Done'
    <3>1. Newlines(pos + 1) = Newlines(pos) /\ Done' = Done
      BY <1>1, <1>4, <1>7, <2>1, NewlinesStep DEF Next1, Done
    <3> QED
      BY <1>3, <1>6, <1>7, <2>1, <3>1
  <2>4. PrefixInv'
    BY <1>1, <1>2, <2>1, <2>2 DEF PrefixInv
  <2>5. LinesInv'
    BY <1>1, <1>3, <1>6, <1>7, <2>1, <2>2, <2>3 DEF LinesInv
  <2> QED
    BY <1>1, <2>4, <2>5 DEF ReadInv
<1>8. CASE pos < Len(disk) /\ Next1 = "n"
  <2>1. /\ got' = got \o Append(line, Next1) /\ stage' = "loop"
        /\ fuel' = IF fuel = Forever THEN Forever ELSE fuel - 1
    <3>1. Append(line, "n") \in Seq(Chars)
      BY <1>4 DEF Chars, Letters
    <3>2. CString(Append(line, "n")) = Append(line, Next1)
      BY <1>8, <3>1, CStringPrefix
    <3> QED
      BY <1>4, <1>8, <3>2 DEF readLine, Char, Finish, Goto
  <2>2. got' = SubSeq(disk, 1, pos + 1)
    <3>1. SubSeq(disk, 1, Len(got)) \o SubSeq(disk, Len(got) + 1, pos + 1)
            = SubSeq(disk, 1, pos + 1)
      <4>1. pos + 1 \in Nat /\ Len(got) <= pos + 1 /\ pos + 1 <= Len(disk)
        BY <1>3, <1>4, <1>8
      <4> QED
        BY <1>4, <4>1, MeetFront
    <3>2. got' = SubSeq(disk, 1, Len(got)) \o SubSeq(disk, Len(got) + 1, pos + 1)
      BY <1>5, <1>6, <1>8, <2>1, Zenon
    <3> QED
      BY <3>1, <3>2
  <2>3. got' \in Seq(Chars) /\ Len(got') = pos' /\ pos' <= Len(disk') /\ got' = SubSeq(disk', 1, Len(got'))
    <3>1. pos + 1 \in Nat /\ pos + 1 <= Len(disk)
      BY <1>4, <1>6, <1>8
    <3>2. SubSeq(disk, 1, pos + 1) \in Seq(Chars) /\ Len(SubSeq(disk, 1, pos + 1)) = pos + 1
      BY <1>4, <3>1, Prefix
    <3> QED
      BY <1>1, <1>6, <1>8, <2>2, <3>1, <3>2
  <2>4. fuel' \in Nat \cup {Forever} /\ (fuel' = Forever <=> fuel = Forever)
    BY <1>3, <2>1 DEF Forever
  <2>5. fuel' # Forever => EndOf(pos, Done)'
    <3> SUFFICES ASSUME fuel # Forever PROVE EndOf(pos', Done')
      BY <1>1, <2>4, SameCounts
    <3>1. Newlines(pos + 1) = Newlines(pos) + 1 /\ disk[pos + 1] = "n"
      BY <1>4, <1>8, NewlinesStep DEF Next1
    <3>2. Done' = Done + 1
      BY <1>1, <1>3, <1>4, <2>1 DEF Done, Forever
    <3> QED
      BY <1>3, <1>6, <1>8, <3>1, <3>2 DEF EndOf
  <2>6. PrefixInv'
    BY <1>1, <1>2, <1>4, <2>1, <2>3 DEF PrefixInv
  <2>7. LinesInv'
    BY <1>1, <1>3, <1>6, <1>8, <2>1, <2>3, <2>4, <2>5 DEF LinesInv
  <2> QED
    BY <1>1, <2>6, <2>7 DEF ReadInv
<1>9. CASE pos = Len(disk)
  <2>1. /\ got' = got \o line /\ stage' = "loop" /\ pos' = pos /\ eof' = TRUE
        /\ fuel' = IF fuel = Forever THEN Forever ELSE fuel - 1
    <3>1. CString(line) = line
      BY <1>4, CStringPrefix
    <3>2. ~Char /\ AtEnd /\ Unfinished = line
      BY <1>4, <1>9 DEF Char, AtEnd, Unfinished
    <3>3. Finish(line)
      BY <3>2 DEF readLine
    <3> QED
      BY <1>1, <3>1, <3>2, <3>3 DEF fgetc, Finish, Goto
  <2>2. got' = disk
    <3>1. SubSeq(disk, 1, Len(disk)) = disk
      BY <1>4, SubSeqFull
    <3> QED
      BY <1>5, <1>9, <2>1, <3>1
  <2>3. fuel' \in Nat \cup {Forever} /\ (fuel' = Forever <=> fuel = Forever)
    BY <1>3, <2>1 DEF Forever
  <2>4. fuel' # Forever => Newlines(Len(disk))' < Done'
    <3> SUFFICES ASSUME fuel # Forever PROVE Newlines(Len(disk)) < Done'
      BY <1>1, <2>3, SameCounts
    <3>1. Newlines(Len(disk)) = Done /\ Done \in Int /\ Done' = Done + 1
      BY <1>1, <1>3, <1>4, <1>9, <2>1 DEF Done, Forever
    <3> QED
      BY <3>1
  <2>5. got' = disk' /\ got' \in Seq(Chars) /\ Len(got') <= Len(disk') /\ got' = SubSeq(disk', 1, Len(got'))
    BY <1>1, <1>4, <2>2, SubSeqFull
  <2>6. PrefixInv'
    BY <1>1, <1>2, <1>4, <1>9, <2>1, <2>5 DEF PrefixInv
  <2>7. LinesInv'
    BY <1>1, <1>3, <2>1, <2>3, <2>4, <2>5 DEF LinesInv
  <2> QED
    BY <1>1, <2>6, <2>7 DEF ReadInv
<1> QED
  BY <1>4, <1>7, <1>8, <1>9

\* fread without errors: as much as there is.
LEMMA FreadWhole ==
  ASSUME FileTyped, PrefixInv, bad = -1, NEW n \in Nat, fread(n), got' = got \o Taken(n),
         Len(got) = pos, UNCHANGED disk
  PROVE  /\ got' \in Seq(Chars) /\ Len(got') = pos' /\ pos' <= Len(disk')
         /\ got' = SubSeq(disk', 1, Len(got'))
         /\ pos' = IF Len(disk) < pos + n THEN Len(disk) ELSE pos + n
<1>1. /\ Len(disk) \in Nat /\ pos \in Nat /\ pos <= Len(disk)
      /\ disk \in Seq(Chars) /\ got \in Seq(Chars)
  BY Sizes
<1>2. pos' = Last(n) /\ got' = got \o SubSeq(disk, pos + 1, Last(n))
  BY DEF fread, Taken
<1>3. Last(n) = IF Len(disk) < pos + n THEN Len(disk) ELSE pos + n
  BY DEF Last
<1>4. Last(n) \in Nat /\ pos <= Last(n) /\ Last(n) <= Len(disk)
  BY <1>1, <1>3
<1>5. got = SubSeq(disk, 1, pos)
  BY Zenon DEF PrefixInv
<1>6. got' = SubSeq(disk, 1, Last(n))
  <2>1. SubSeq(disk, 1, pos) \o SubSeq(disk, pos + 1, Last(n)) = SubSeq(disk, 1, Last(n))
    BY <1>1, <1>4, MeetFront
  <2> QED
    BY <1>2, <1>5, <2>1, Zenon
<1>7. SubSeq(disk, 1, Last(n)) \in Seq(Chars) /\ Len(SubSeq(disk, 1, Last(n))) = Last(n)
  BY <1>1, <1>4, Prefix
<1> QED
  BY <1>2, <1>3, <1>4, <1>6, <1>7

\* A prefix as long as the file is the file.
LEMMA WholeFile ==
  ASSUME NEW s \in Seq(Chars), NEW t, t = SubSeq(s, 1, Len(t)), Len(t) = Len(s) PROVE t = s
BY SubSeqFull

LEMMA CharsRead ==
  ASSUME FileTyped, ReadInv, job \in Reading, bad = -1, ~Nuls, readChars PROVE ReadInv'
<1>1. /\ stage = "chars" /\ fread(Chunk) /\ UNCHANGED <<job, disk, page, want>>
      /\ got' = got \o CString(Taken(Chunk))
      /\ stage' = IF Last(Chunk) = pos /\ err' THEN "left"
                  ELSE IF CString(Taken(Chunk)) = <<>> THEN "end" ELSE "chars"
  BY DEF readChars, Goto, lines
<1>2. PrefixInv /\ (job \notin Whole => LinesInv) /\ Len(got) = pos /\ want = disk
  BY <1>1 DEF ReadInv, PrefixInv
<1>3. /\ Len(disk) \in Nat /\ pos \in Nat /\ pos <= Len(disk) /\ Chunk \in Nat /\ Chunk > 0
      /\ disk \in Seq(Chars)
  BY <1>2, Sizes, FileAssumption
<1>0. Last(Chunk) \in Nat /\ pos <= Last(Chunk) /\ Last(Chunk) <= Len(disk)
  BY <1>3 DEF Last
<1>5. CString(Taken(Chunk)) = Taken(Chunk)
  <2>1. Taken(Chunk) \in Seq(Chars)
    BY <1>0, <1>3, Piece DEF Taken
  <2> QED
    BY <2>1, CStringPrefix
<1>4. /\ got' \in Seq(Chars) /\ Len(got') = pos' /\ pos' <= Len(disk')
      /\ got' = SubSeq(disk', 1, Len(got'))
      /\ pos' = IF Len(disk) < pos + Chunk THEN Len(disk) ELSE pos + Chunk
  BY <1>1, <1>2, <1>3, <1>5, FreadWhole
<1>6. stage' \in {"chars", "left", "end"} /\ (stage' = "end" => pos' = pos)
  <2>1. pos' = Last(Chunk)
    BY <1>1 DEF fread
  <2>2. stage' = "end" => Len(Taken(Chunk)) = 0
    BY <1>1, <1>5
  <2>3. Len(Taken(Chunk)) = Last(Chunk) - pos
    BY <1>0, <1>3, Piece DEF Taken
  <2> QED
    BY <1>0, <1>1, <1>3, <2>1, <2>2, <2>3
<1>7. stage' = "end" => got' = disk'
  <2> SUFFICES ASSUME stage' = "end" PROVE got' = disk'
    OBVIOUS
  <2>1. Len(got') = Len(disk')
    BY <1>1, <1>3, <1>4, <1>6
  <2> QED
    BY <1>1, <1>3, <1>4, <2>1, WholeFile
<1>8. PrefixInv'
  BY <1>1, <1>2, <1>4, <1>6, <1>7 DEF PrefixInv
<1>9. job \notin Whole => LinesInv'
  BY <1>1, <1>2, <1>6 DEF LinesInv
<1> QED
  BY <1>1, <1>8, <1>9 DEF ReadInv

LEMMA BufferRead ==
  ASSUME FileTyped, ReadInv, job \in Reading, bad = -1, MaxLen <= 2 * IntMax + 1, readBufferData
  PROVE  ReadInv'
<1>0. fileSize = Len(disk)
  <2>1. Len(disk) \in Nat /\ Len(disk) <= MaxLen /\ MaxLen \in Nat /\ IntMax \in Nat
    <3>1. disk \in Seq(Chars)
      BY Zenon DEF FileTyped
    <3>2. Len(disk) <= MaxLen
      BY Zenon DEF ReadInv, PrefixInv
    <3> QED
      BY <3>1, <3>2, FileAssumption, LenProperties
  <2>2. Len(disk) <= 2 * IntMax + 1
    BY <2>1
  <2>3. int(Len(disk)) = Len(disk) \/ int(Len(disk)) < 0
    BY <2>1, <2>2, SizeInt
  <2>4. int(Len(disk)) >= 0 /\ int(Len(disk)) \in Int
    BY <2>1, SizeInt DEF readBufferData, fileSize
  <2> QED
    BY <2>3, <2>4 DEF fileSize
<1>1. /\ stage = "buffer" /\ fread(Len(disk)) /\ UNCHANGED <<job, disk, page, want>>
      /\ got' = got \o Taken(Len(disk)) /\ stage' = "end"
  BY <1>0 DEF readBufferData, Goto, lines
<1>2. PrefixInv /\ (job \notin Whole => LinesInv) /\ got = <<>> /\ pos = 0 /\ want = disk
  BY <1>1 DEF ReadInv, PrefixInv
<1>3. Len(disk) \in Nat /\ disk \in Seq(Chars) /\ Len(got) = pos
  BY <1>2, Sizes
<1>4. /\ got' \in Seq(Chars) /\ Len(got') = pos' /\ pos' <= Len(disk')
      /\ got' = SubSeq(disk', 1, Len(got'))
      /\ pos' = IF Len(disk) < pos + Len(disk) THEN Len(disk) ELSE pos + Len(disk)
  BY <1>1, <1>2, <1>3, FreadWhole
<1>5. Len(got') = Len(disk)
  BY <1>2, <1>3, <1>4
<1>6. got' = disk'
  BY <1>1, <1>3, <1>4, <1>5, WholeFile
<1>7. PrefixInv'
  BY <1>1, <1>2, <1>4, <1>6 DEF PrefixInv
<1>8. job \notin Whole => LinesInv'
  BY <1>1, <1>2 DEF LinesInv
<1> QED
  BY <1>1, <1>7, <1>8 DEF ReadInv

\* The end, or on to the next page.
LEMMA CloseRead ==
  ASSUME FileTyped, ReadInv, job \in Reading, closeRead PROVE ReadInv'
<1>1. /\ stage \in {"end", "dry", "left"} /\ UNCHANGED <<job, disk, pos, got, want>>
      /\ stage = "dry" => stage' = "open" /\ page' = page + PageLines
      /\ stage = "end" => stage' = "right" /\ page' = page
      /\ stage = "left" => stage' = "returnedLeft" /\ page' = page
  BY DEF closeRead, Goto, stream
<1>2. PrefixInv /\ (job \notin Whole => LinesInv)
  BY DEF ReadInv
<1>3. job \in Whole => stage # "dry"
  BY <1>2 DEF PrefixInv
<1>4. PrefixInv'
  BY <1>1, <1>2, <1>3 DEF PrefixInv
<1>5. ASSUME job \notin Whole PROVE LinesInv'
  <2>1. CASE stage = "dry"
    <3>1. Have(page + PageLines) /\ page \in Nat /\ job = "readFilePage" /\ PageLines \in Nat
      BY <1>2, <1>5, <2>1, FileAssumption DEF LinesInv
    <3>2. Have(page)'
      BY <1>1, <2>1, <3>1, SameHave
    <3>3. page' \in Nat /\ stage' = "open" /\ job' = "readFilePage"
      BY <1>1, <2>1, <3>1
    <3> QED
      BY <3>2, <3>3 DEF LinesInv
  <2>2. CASE stage # "dry"
    BY <1>1, <1>2, <1>5, <2>2 DEF LinesInv
  <2> QED
    BY <2>1, <2>2
<1> QED
  BY <1>1, <1>4, <1>5 DEF ReadInv

\* fRead, readFile, readFilePage page after page, fGetChars and
\* createBufferFromFile return Right with exactly the content of the file, for
\* lines, pages and chunks of any length, with or without a last newline, when no
\* read and no allocation fails: if the file holds no null and its length fits an
\* unsigned int (one that is no int gives Left).
THEOREM FileReadExact ==
  ASSUME ~Nuls, MaxLen <= 2 * IntMax + 1
  PROVE  Spec => []ReadExact
<1>1. Init => ReadInv
  <2> SUFFICES ASSUME Init PROVE ReadInv
    OBVIOUS
  <2>1. stage = "open" /\ pos = 0 /\ got = <<>> /\ page = 0
    BY DEF Init
  <2>2. disk \in Seq(Chars)
    BY FileTypedInit, Zenon DEF FileTyped
  <2>3. Len(disk) \in Nat /\ got \in Seq(Chars) /\ Len(got) = 0 /\ SubSeq(disk, 1, 0) = <<>>
    BY <2>1, <2>2, SubSeqEmpty
  <2>4. Have(0)
    BY <2>3, NewlinesNone DEF Have, EndOf
  <2>5. PrefixInv
    <3>1. PICK n \in 0..MaxLen : disk \in [1..n -> Letters]
      BY DEF Init, Text
    <3>2. Len(disk) = n
      BY <2>2, <3>1, FileAssumption
    <3>3. Len(disk) <= MaxLen
      BY <3>1, <3>2, FileAssumption
    <3> QED
      BY <2>1, <2>3, <3>3 DEF PrefixInv
  <2>6. LinesInv
    BY <2>1, <2>4 DEF LinesInv
  <2> QED
    BY <2>5, <2>6 DEF ReadInv
<1>2. FileTyped /\ (Undisturbed => ReadInv) /\ [Next]_vars => (Undisturbed => ReadInv)'
  <2> SUFFICES ASSUME FileTyped, Undisturbed => ReadInv, [Next]_vars, Undisturbed',
                      job' \in Reading
               PROVE  ReadInv'
    BY DEF ReadInv
  <2>w. UNCHANGED <<bad, scarce>>
    BY DEF Next, vars, openFile, openFile_fails, readLinesOnto, seekLine, readLine, readChars,
       readBufferData, writeLine, closeFile, closeRead, readLine_fails, fileSize_fails, malloc_fails
  <2>u. Undisturbed /\ ReadInv
    BY <2>w DEF Undisturbed
  <2>0. job \in Reading
    BY DEF Next, vars, openFile, openFile_fails, readLinesOnto, seekLine, readLine, readChars,
       readBufferData, writeLine, closeFile, closeRead, readLine_fails, fileSize_fails, malloc_fails
  <2>1. bad = -1 /\ ~scarce
    BY <2>u DEF Undisturbed
  <2>2. CASE UNCHANGED vars
    <3>1. /\ UNCHANGED <<job, stage, disk, pos, eof, line, offset, fuel, page, got, want>>
      BY <2>2 DEF vars
    <3>2. PrefixInv => PrefixInv'
      BY <3>1 DEF PrefixInv
    <3>3. (Skipping' <=> Skipping) /\ Done' = Done
      BY <3>1, SameCounts, SameHave DEF Skipping, Done
    <3>4. LinesInv => LinesInv'
      BY <3>1, <3>3, SameCounts, SameHave DEF LinesInv
    <3> QED
      BY <2>u, <3>1, <3>2, <3>4 DEF ReadInv
  <2>3. CASE writeLine \/ closeFile
    <3>1. stage \in {"fputs", "close", "closeLeft"}
      BY <2>3 DEF writeLine, closeFile
    <3> QED
      BY <2>0, <2>u, <3>1 DEF ReadInv, PrefixInv
  <2>4. CASE readLine_fails \/ malloc_fails
    BY <2>1, <2>4 DEF readLine_fails, malloc_fails
  <2> QED
    BY <2>0, <2>1, <2>2, <2>3, <2>4, <2>u, OpenRead, OpenFailsRead, LoopRead, SeekRead, LineRead, CharsRead,
       BufferRead, CloseRead DEF Next
<1>3. (Undisturbed => ReadInv) => ReadExact
  BY DEF ReadInv, PrefixInv, ReadExact
<1> QED
  BY <1>1, <1>2, <1>3, FileTyping, PTL DEF Spec

=============================================================================
