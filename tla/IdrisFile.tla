------------------------------ MODULE IdrisFile ------------------------------
(***************************************************************************)
(* Reading and writing whole files: the functions of System.File on top of *)
(* idris_file.c, the line reader of getline.c, and stdio underneath.       *)
(*                                                                         *)
(* A stream has a position and the two sticky indicators of stdio; writing *)
(* goes through a buffer that reaches the disk now or when the stream is   *)
(* closed, and the disk may be full by then.  A file is a sequence of      *)
(* newlines ("n"), nulls ("0") and other characters; getdelim and seekLine *)
(* take one character per step.  Fuel 0 is Dry, Forever is forever.        *)
(***************************************************************************)
EXTENDS Integers, Sequences, FiniteSets

CONSTANTS Calls,      \* the functions the program may call
          MaxLen,     \* bound on the length of the file
          IntMax,     \* the largest int
          BufSiz,     \* BUFSIZ
          PageLines,  \* how many lines a page has
          Chunk,      \* how many characters readChars asks for
          MaxText,    \* bound on the length of what the program writes
          Room,       \* what the disk has room for
          Nuls        \* files and texts may hold nulls

ASSUME FileAssumption ==
    /\ MaxLen \in Nat /\ BufSiz \in Nat /\ BufSiz > 1
    /\ PageLines \in Nat \ {0} /\ Chunk \in Nat \ {0} /\ Room \in Nat
    /\ MaxText \in Nat /\ IntMax \in Nat /\ Nuls \in BOOLEAN

VARIABLES job,      \* the function the program has called
          stage,    \* where it is
          disk,     \* the file
          bad,      \* where reading fails, or -1
          scarce,   \* memory is scarce: allocations may fail
          pos, eof, err, \* the stream: position and indicators
          out,      \* what stdio has not written yet
          size,     \* the size of getdelim's buffer
          line,     \* what getdelim has stored in it
          offset, fuel, \* the parameters of readLinesOnto
          page,     \* the first line of the page being read
          got,      \* what the program has read, concatenated
          want      \* what it should have read or written

vars == <<job, stage, disk, bad, scarce, pos, eof, err, out, size, line, offset, fuel,
          page, got, want>>
stream == <<pos, eof, err>>
lines  == <<size, line, offset, fuel, page>>

Letters == {"x", "n"} \cup (IF Nuls THEN {"0"} ELSE {})
Text(max) == UNION {[1..n -> Letters] : n \in 0..max}
Forever == -1
Reading == {"fRead", "readFile", "readFilePage", "fGetChars", "createBufferFromFile"}
Writing == {"writeFile", "appendFile"}

Init ==
    /\ job \in Calls \cap (Reading \cup Writing) /\ stage = "open"
    /\ disk \in Text(MaxLen)
    /\ bad \in -1..Len(disk) /\ scarce \in BOOLEAN
    /\ pos = 0 /\ eof = FALSE /\ err = FALSE /\ out = <<>>
    /\ size = 0 /\ line = <<>> /\ offset = 0 /\ fuel = 0 /\ page = 0
    /\ got = <<>> /\ want = <<>>

Goto(l) == stage' = l

\* A String becomes a char * and back (prim__getString) up to the first null.
CString(s) == SubSeq(s, 1, Cardinality({i \in 1..Len(s) : \A j \in 1..i : s[j] # "0"}))
\* The conversion of a length to int.
int(n) == LET low == n % (2 * (IntMax + 1))
          IN  IF low <= IntMax THEN low ELSE low - 2 * (IntMax + 1)

-----------------------------------------------------------------------------
(* stdio. *)

\* fgetc: a character, or one of the indicators.
Char   == pos < Len(disk) /\ pos # bad
AtEnd  == pos = Len(disk) /\ pos # bad
fgetc  == IF Char THEN pos' = pos + 1 /\ UNCHANGED <<eof, err>>
          ELSE /\ IF AtEnd THEN eof' = TRUE /\ UNCHANGED err ELSE err' = TRUE /\ UNCHANGED eof
               /\ UNCHANGED pos
Next1  == disk[pos + 1]

\* fread of n characters: it stops at the end and at an error.
Last(n) == IF bad # -1 /\ bad < pos + n THEN bad
           ELSE IF Len(disk) < pos + n THEN Len(disk) ELSE pos + n
Taken(n) == SubSeq(disk, pos + 1, Last(n))
fread(n) == /\ pos' = Last(n)
            /\ eof' = (eof \/ (Last(n) < pos + n /\ Last(n) # bad))
            /\ err' = (err \/ (Last(n) < pos + n /\ Last(n) = bad))

\* write(2) of a prefix of the buffer: as much as the disk has room for.
Writable == IF Len(out) + Len(disk) <= Room THEN Len(out)
            ELSE IF Len(disk) < Room THEN Room - Len(disk) ELSE 0
Flush == /\ disk' = disk \o SubSeq(out, 1, Writable)
         /\ out' = SubSeq(out, Writable + 1, Len(out))

-----------------------------------------------------------------------------
(* openFile, and the loops of System.File. *)

openFile ==
    /\ stage = "open"
    /\ pos' = 0 /\ eof' = FALSE /\ err' = FALSE
    /\ IF job \in Writing
       THEN \E t \in Text(MaxText) :
              /\ disk' = IF job = "writeFile" THEN <<>> ELSE disk
              /\ out' = CString(t) /\ want' = disk' \o t /\ Goto("fputs")
              /\ UNCHANGED <<offset, fuel>>
       ELSE /\ want' = disk /\ offset' = page
            /\ fuel' = IF job = "readFilePage" THEN PageLines ELSE Forever
            /\ Goto(CASE job = "fGetChars" -> "chars" [] job = "createBufferFromFile" -> "buffer"
                      [] OTHER -> "loop")
            /\ UNCHANGED <<disk, out>>
    /\ UNCHANGED <<job, bad, scarce, size, line, page, got>>

\* withFile: fopen gives NULL and the error is returned.
openFile_fails ==
    /\ stage = "open" /\ Goto("returnedLeft")
    /\ UNCHANGED <<job, disk, bad, scarce, stream, out, lines, got, want>>

\* readLinesOnto, and fRead, which is the same without offset and fuel.
readLinesOnto ==
    /\ stage = "loop"
    /\ Goto(CASE fuel = 0 -> "dry" [] fuel # 0 /\ eof -> "end"
              [] fuel # 0 /\ ~eof /\ offset > 0 -> "seek" [] OTHER -> "line")
    /\ size' = BufSiz /\ line' = <<>>
    /\ UNCHANGED <<job, disk, bad, scarce, stream, out, offset, fuel, page, got, want>>

\* idris2_seekLine, one character.  Mutant: the end of the file is not seen.
seekLine_NoEof ==
    /\ stage = "seek" /\ fgetc
    /\ IF Char /\ Next1 = "n" THEN Goto("loop") /\ offset' = offset - 1
       ELSE UNCHANGED <<stage, offset>>
    /\ UNCHANGED <<job, disk, bad, scarce, out, size, line, fuel, page, got, want>>
seekLine ==
    /\ stage = "seek" /\ fgetc
    /\ \/ Char /\ Next1 # "n" /\ UNCHANGED <<stage, offset>>
       \/ (Char => Next1 = "n") /\ (Char \/ AtEnd) /\ Goto("loop") /\ offset' = offset - 1
       \/ ~Char /\ ~AtEnd /\ Goto("left") /\ UNCHANGED offset
    /\ UNCHANGED <<job, disk, bad, scarce, out, size, line, fuel, page, got, want>>

\* The buffer is enlarged when two more characters would not fit (n stored).
\* Mutant: when it is full.
Enlarged_Late(n) == IF n >= size THEN size * 2 ELSE size
Enlarged(n) == IF n + 2 >= size THEN size * 2 ELSE size

\* What the line is when fgetc gives no character: the rest of the file at the
\* end; after an error getdelim returns -1 and readLine empties the buffer.
\* Mutant: an unfinished last line is nothing read.
Unfinished_Lost == <<>>
Unfinished == IF AtEnd THEN line ELSE <<>>

\* getdelim in idris2_readLine, one character; the line goes to the program.
\* When the block cannot be enlarged getdelim returns -1 with the line read so
\* far, and the line is emptied as after an error.
Finish(l) == /\ got' = got \o CString(l) /\ line' = <<>> /\ size' = 0 /\ Goto("loop")
             /\ fuel' = IF fuel = Forever THEN Forever ELSE fuel - 1
readLine ==
    /\ stage = "line" /\ fgetc
    /\ IF ~Char THEN Finish(Unfinished)
       ELSE IF Next1 = "n" THEN Finish(Append(line, "n"))
       ELSE \/ /\ line' = Append(line, Next1)
               /\ size' = Enlarged(Len(line) + 1)
               /\ UNCHANGED <<stage, got, fuel>>
            \/ scarce /\ Enlarged(Len(line) + 1) # size /\ Finish(<<>>)
    /\ UNCHANGED <<job, disk, bad, scarce, out, offset, page, want>>

\* getdelim has no block to begin with: getStringAndFree takes the NULL for an
\* empty line unless the error indicator is set.
readLine_fails ==
    /\ stage = "line" /\ line = <<>> /\ scarce
    /\ IF err THEN Goto("left") /\ UNCHANGED <<got, line, size, fuel>> ELSE Finish(<<>>)
    /\ UNCHANGED <<job, disk, bad, scarce, stream, out, offset, page, want>>

\* idris2_readChars in a loop that stops when it gets the empty string: NULL is
\* one too or, when the error indicator is set, an error.
readChars ==
    /\ stage = "chars" /\ fread(Chunk) /\ got' = got \o CString(Taken(Chunk))
    /\ Goto(IF Last(Chunk) = pos /\ err' THEN "left"
            ELSE IF CString(Taken(Chunk)) = <<>> THEN "end" ELSE "chars")
    /\ UNCHANGED <<job, disk, bad, scarce, out, lines, want>>

\* createBufferFromFile: fileSize, newBuffer and idris2_readBufferData, whose
\* result is not negative.  A size that is, or cannot be found out, is an error.
fileSize == int(Len(disk))
readBufferData ==
    /\ stage = "buffer" /\ fileSize >= 0 /\ fread(fileSize) /\ got' = got \o Taken(fileSize)
    /\ Goto("end") /\ UNCHANGED <<job, disk, bad, scarce, out, lines, want>>
fileSize_fails ==
    /\ stage = "buffer" /\ Goto("returnedLeft")
    /\ UNCHANGED <<job, disk, bad, scarce, stream, out, lines, got, want>>

\* malloc gives NULL in idris2_readChars or newBuffer, and NULL is written to.
malloc_fails ==
    /\ stage \in {"chars", "buffer"} /\ scarce /\ Goto("aborted")
    /\ UNCHANGED <<job, disk, bad, scarce, stream, out, lines, got, want>>

\* idris2_writeLine: fputs may write some of the buffer, and fails when the
\* disk does not take it.
writeLine ==
    /\ stage = "fputs"
    /\ \/ Goto("close") /\ UNCHANGED <<disk, out, err>>
       \/ /\ Flush /\ err' = (out' # <<>>)
          /\ Goto(IF out' = <<>> THEN "close" ELSE "closeLeft")
    /\ UNCHANGED <<job, bad, scarce, pos, eof, lines, got, want>>

-----------------------------------------------------------------------------
(* closeFile: fclose writes the rest, and IDRIS2_VERIFY stops the program    *)
(* when it cannot.  After a failed write stdio may have given up the rest.   *)

\* Mutant: the result of fclose is not verified.
Verified_Not == TRUE
Verified == out' = <<>>

closeFile ==
    /\ stage \in {"close", "closeLeft"}
    /\ Flush \/ (err /\ disk' = disk /\ out' = <<>>)
    /\ Goto(IF ~Verified THEN "aborted" ELSE IF stage = "close" THEN "right" ELSE "returnedLeft")
    /\ UNCHANGED <<job, bad, scarce, stream, lines, got, want>>

\* A reader's stream: nothing to write.  A program that reads by pages goes on
\* with the next page until it is told that the end was reached.
closeRead ==
    /\ stage \in {"end", "dry", "left"}
    /\ IF stage = "dry" THEN Goto("open") /\ page' = page + PageLines
       ELSE Goto(IF stage = "end" THEN "right" ELSE "returnedLeft") /\ UNCHANGED page
    /\ UNCHANGED <<job, disk, bad, scarce, stream, out, size, line, offset, fuel, got, want>>

Next == \/ openFile \/ openFile_fails \/ readLinesOnto \/ seekLine \/ readLine \/ readLine_fails
        \/ readChars \/ readBufferData \/ fileSize_fails \/ malloc_fails \/ writeLine \/ closeFile \/ closeRead

Spec == Init /\ [][Next]_vars
\* One thread that runs on.
FairSpec == Spec /\ WF_vars(Next)

-----------------------------------------------------------------------------
\* Neither reading nor an allocation fails.
Undisturbed == bad = -1 /\ ~scarce

\* readFile, readFilePage page by page, fRead, fGetChars and createBufferFromFile
\* return all of the file, in order and once, however the lines end.
ReadExact == Undisturbed /\ stage = "right" /\ job \in Reading => got = want

\* getdelim stores characters and the final null inside the block it has
\* allocated, for every length of line.
InBuffer == stage = "line" => Len(line) + 1 < size

\* writeFile and appendFile report success only when everything is on the disk.
WriteSound == stage = "right" /\ job \in Writing => disk = want

\* Every one of the functions returns (or stops the program) on a finite file.
ReadEnds == Undisturbed ~> stage \in {"right", "returnedLeft", "aborted"}

\* System.File.ReadWrite of readFile: "This function is partial since there is no
\* guarantee that the given file isn't infinite."  It is said to return for finite
\* files, but after a read error the loops go on with empty lines.
ReadAlways == ~scarce ~> stage \in {"right", "returnedLeft", "aborted"}

\* System.File.ReadWrite of readFile: "Read the entire file at the given name."
\* What the readers lose to an error or a failed allocation they do not report.
ReadAll == stage = "right" /\ job \in Reading => got = want
=============================================================================
