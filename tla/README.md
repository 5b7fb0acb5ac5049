# Verification of the Idris 2 run time in this repository

This directory holds TLA+ models of the parts of the repository whose
correctness depends on long sequences of steps or on the order of events: the reference counted heap of the
RefC backend, the reference counting instructions its code generator emits, its
integer representation, strings and buffers, the signal handler, processes, files
and sockets of the C support library, and the synchronisation objects of the Chez
Scheme runtime. TLC checks the models on
small instances, TLAPS proves the safety properties for all instances.
`PROJECT.json` lists components, runs, mutants, the map from definitions to
source lines, findings, hazards and theorems.

Paths below are relative to the root of the repository; `refc/` is short for
`_/support/refc/`, `c/` for `_/support/c/`.

## 1. Inventory

The repository is the Idris 2 compiler (written in Idris) with its support code
under `_/support`. A program takes this way: the front end (`Idris/`, `TTImp/`,
`Core/`) elaborates it into case trees, `Compiler/` lowers them to A-normal form
(`Compiler/ANF.idr`), and a backend prints code: `Compiler/RefC` prints C that is
linked with `refc/` and `c/`, `Compiler/Scheme` prints Scheme that is loaded
together with `_/support/chez/support.ss` and calls `c/` through its foreign
function interface.

| Component | State | Operations | What makes it hard | What makes it correct |
|---|---|---|---|---|
| RefC heap (`refc/memoryManagement.c`, `runtime.c`, `prim.c`) | counters, tags and fields of heap objects, C stack | makers, `newReference`, `removeReference`, closure application, trampoline, IORef, array and GC pointer primitives | the cascade of `removeReference` runs finalisers, which are Idris programs; counters saturate; unique objects are updated in place | no freed object is referenced, counters count, nothing but cycles leaks, cascades end |
| RefC code generator (`Compiler/RefC/RefC.idr`) | `Env`: owned variables and cells kept for reuse | one case of `cStatementsFromANF` per expression form, `concaseBody`, `addReuseConstructor` | a path through nested lets and matches moves every variable between owned and borrowed | on each path each reference is consumed exactly once, what is borrowed is alive |
| RefC integers (`refc/mathFunctions.*`, `casts.*`, `extractInt`) | none: words | arithmetic, comparison, casts, strings of digits, constant case | values narrower than the word, C division and promotion, limits of the types | the word read back is the value Idris defines |
| Signals (`c/idris_signal.c`) | one atomic word, dispositions | `collect_signal`, the handler, `handle_next_collected_signal`, `send_signal` | the handler runs between any two instructions of any thread | no signal is lost or handed twice to a thread; each one is handed out |
| Chez concurrency (`support.ss`) | boxes, mutexes, condition variables | post/wait, barrier wait, put and three kinds of get, future | woken threads compete for the mutex; signals are sent outside it; polling races the deadline | counts stay non-negative, nobody passes early, the channel is exact, no wakeup is lost |
| RefC strings and buffers (`refc/stringOps.c`, `buffer.c`) | blocks of bytes, an iterator's copy and position | all operations that make a string, iteration, stores, reads and copies in buffers | lengths by terminator, arguments cut to `int`, range checks, overlapping copies | a block is the string Idris defines; what was stored is read back |
| Processes (`c/idris_file.c`: `popen2`, `popen`, `pclose`; `popen2WaitByPid`) | descriptors of every process, stdio buffers | start a command, write, read, close, wait | fork copies descriptors and unwritten data; each call may fail; a command may stop early | descriptors are given back, data is printed once, waiting returns |
| Files (`c/idris_file.c`, `getline.c`, `System.File`) | stream position and indicators, line buffer | open, read by line, page, chunk, buffer; write; close | stdio writes late; the end is seen only after a failed read | a file is read exactly, success means it is on the disk, readers end |
| Network (`c/idris_net.c`, `Network.Socket`) | socket, errno, blocks of memory of a call | set-up calls, stream and message transfer, buffers in network order | a function is several foreign calls; a stream comes in pieces and may break; freeing on each path | results are true, streams complete, memory is freed once, buffers survive the round trip |
| Directories, terminal, memory, system, clock (`c/`, `refc/clock.c`) | saved terminal settings | thin wrappers | | not modelled |
| Front end and other backends | terms | pure transformations | size | outside the reach of these methods |

Interaction: generated C code calls the heap; the heap calls back into generated
code when it runs a finaliser; the code generator fixes, at compile time, which
references a function consumes, and the heap relies on it. `RefCHeap` assumes
that discipline of its mutator, and `RefCCodegen` is about whether the generator
keeps it. The two share the calling convention and no state, so there is no
module that composes them. `IdrisFile` and `IdrisNet` compose three layers each:
the Idris library, the C support code and what it calls. `IdrisProcess` composes
the program, the C library and the started commands through the pipes they share.

## 2. Modules

### RefCHeap

State: `ref` says what each *slot* refers to. A slot is a C local (`V(x)`), a
field of an object (`F(a, i)`) or an activation of the runtime that still owes a
reference (`K(k)`). `rc` is `header.refCounter` (0: not allocated), `obj` the tag
and sizes, `depth` and `frame` the activations of `removeReference`,
`idris2_trampoline` and `prim__arraySet` on the C stack, `lvl` the activation a
local belongs to. `Null` is NULL and every unboxed value.

The mutator is any program that obeys the convention of generated code. Actions
and code: `newValue` (all makers of values without fields), `newConstructor`,
`mkClosure`, `newReference`, `removeReference` with the steps `RemoveField` and
`FreeElem` of its cascade, `caseBorrow`/`caseReuse`/`fillReuse`/
`removeReuseConstructor` (a match, the reuse of a unique cell), `applyPartial`/
`applySaturated`/`tailCall`/`trampolineReturn` (closures), `newIORef`,
`readIORef`, `writeIORef`, `newArray`, `arrayGet`, `arraySet`/`arrayStore` (the
two statements between which a finaliser can run), `onCollect`, `runFinaliser`.

Abstractions: the payload of values; the tags of constructors; statically
allocated values (immortal, treated as `Null`); the code of functions (any
sequence of actions that leaves at most the result). `RefMax` stands for
`IDRIS2_VP_REFCOUNTER_MAX` (65535), scaled to 3 or 4.

### RefCCodegen

The generator knows a body only through `freeVariables` and `usedConstructors`
of its parts. The model therefore takes *one path through an arbitrary body*:
`fv` and `uc` are these two sets for the part still to be generated, each action
is one case of `cStatementsFromANF` and picks parts that are compatible with
them. `owned` and `reuse` are the `Env`, `ctx` the bodies of the enclosing lets
with the `Env` that will be restored for them. `credit` and `cell` follow the
emitted C code: the references each local really holds. `nil` remembers the
variables that the branch taken shows to be NULL.

Four constants switch on code shapes for which the generator is wrong (section
5), so that the main run shows that everything else is right: `IgnoreFields`,
`SelfApply`, `LastUseExt` and `BorrowedExt`, the last for `onCollect`, which keeps
arguments that it gets as bare variables.

### RefCWords

`w` is the upper half of the pointer of an unboxed value, or the boxed number;
`val` is what Idris says the program computes. The actions apply a binary
operation with an operand from the edges of the type, negate, compare or cast.
A number may also be turned into a string and back (`cast_to_string`,
`cast_String`), where narrow types go through `atoi`, which gives an `int`. The
makers, readers and operators are translated with their C conversions and
promotions; the four widths are constants, scaled from 8, 16, 32, 64 to 2, 4, 8,
10 such that the relations between them that the code uses are kept (two narrow
operands multiply without overflow of `int`, the 32 bit type fills the half
word). `Pow2` is the table of powers of two; `&`, `|` and `^` are the operations on
the sets of bits (`Bits`, `Number`). Signed overflow of C is taken to wrap, as the compilers in use do, except
for the division that traps.

### RefCText

A string is its block of bytes (`str`), which ends at the first 0; `idr` is the
String of Idris it should be, a sequence of characters; a character is stored as a
byte (`Byte`), of which there are `Base`. Every `int l = strlen(s)` is a conversion
(`intlen`), and sums of lengths are converted again where the code stores them in an
`int`; a size that has become negative ends the program (`Stop`). `append`, `cons`, `strTail`, `strReverse`, `substr`,
`pack` (from a list), `concat` and the iterator are translated with their sizes
and copies. A buffer is an array of bytes (`buf`); `rec` is the set of integers
and strings that were stored and not overwritten since, and a copy copies the
records that lie inside its source. A number has one of the lengths `Lens` and is
below `Power` of that length, which counts the values of its bytes. Offsets and lengths are converted to an `int`
of `IntBits` bits where the C code takes an `int`; `assert_valid_range` adds them in
64 bits, which never overflows. `memcpy` between overlapping ranges is undefined: the copy
may run in either direction.

### IdrisProcess

`holds` is the set of pipe ends each process has open; `stage` is how far the call
that starts a child has come. `pipe`, `fflush`, `fork`, the parent's `close`s and
the child's `dup2`, `close` and `execlp` are steps of their own, and `pipe`, `fork`,
`popen` and `execlp` may fail. The program may wait for a command at any time, with
its streams open, and use them afterwards, since `idris2_popen2WaitByPid` closes
nothing; whether the wait then returns is the question of `WaitReturns`. A forked child has a copy of the descriptors and of the
unwritten stdio data (`copy`); a successful `execlp` forgets the latter, `exit`
after a failed one writes it. Commands are filters, sources or sinks that may also
stop at any time. `IDRIS2_VERIFY` and `SIGPIPE` stop the program.

### IdrisFile

`job` is the function the program calls: `fRead`, `readFile`, `readFilePage` (page
after page), a loop of `fGetChars`, `createBufferFromFile`, `writeFile` or
`appendFile`. A stream is its position and its two sticky indicators; written data
stays in `out` until stdio writes it, at the latest in `fclose`, and the disk has
room for `Room` characters. A file is newlines, nulls (`Nuls`) and other characters;
what passes through a C string is cut at the first null (`CString`), and the size of a
file is an `int` (`IntMax`). `openFile` and `fileSize` may fail; `bad` is the place where the
device cannot be read (-1: none), `scarce` says that allocations may fail: `realloc` in the
middle of a line gives the empty line that the caller goes on from, a failed `malloc`
NULL. A reader is `Undisturbed` without both. `Calls` is the set of
functions the program calls. `readLine` and `seekLine` take one character per step
because the buffer grows and the indicators change between characters.

### IdrisNet

`op` is the function of `Network.Socket` in progress. Its C function sets `ret`,
`errno` and the blocks of memory of the call (`blk`); the Idris side then looks at
`ret`, fetches `errno` or the payload, and frees. `peer_send`, `peer_close` and
`reset` are the other side; `recv` gives a piece of any size, the end, or an error.
`buf_htonl` and `buf_ntohl` are the byte permutation they perform, over
`len / sizeof(int) + 1` words, with `Junk` for what lies behind the buffer.
`send` and `recv` may do less than they are asked for, at word boundaries or, under
`SplitWords`, anywhere; the receiving functions convert all of `len` whatever came,
and a program receives until it has all. `errno` changes only where a call fails that
sets it; `getaddrinfo` may leave it alone. `misuse` records what the code does
outside of its memory: a second free, the 0 or a word stored behind a block, and the
NULL address of the sender that `crash` reads through.

### IdrisSignal

The atomic word is the set of its bits. `_collect_signal` is one atomic step;
`handle_next_collected_signal` is two, `load` and `clear`, because that is where
the handler and other threads get in. `deliver` and the effect of `sigaction` on
a pending signal are the kernel's (external). `raised`, `handled` and `fresh`
record history for the properties.

### ChezSync

Semaphore, barrier, channel and future of `support.ss`. `use` picks the one
object the threads share. A `with-mutex` section is one step except for the
channel, whose mutex is also tried without blocking. Condition variables are
those of Chez Scheme (external): `condition-wait` releases the mutex and must
acquire it again after it has been woken, in competition with all others; it is not
woken without a signal. `Latecomers` lets threads arrive at a barrier that has
opened.

`OnePlaceBuffer` is the abstract specification of a channel: a put that has been
called takes effect once, at one moment, when the buffer is empty; a get empties
it. `ChezSync!Buffer` instantiates it: a put is pending while its thread is at one
of the labels of `channel_put` before the boxes are filled, the buffer is the pair
of boxes, and histories map to histories. `ImplementsBuffer` says that every step
of the three kinds of get, of put, of the condition variables and of the other
objects is a step of the buffer or leaves it alone.

### Proof modules and MC modules

`IdrisSignalProofs`, `ChezSyncProofs`, `IdrisProcessProofs`, `IdrisNetProofs`,
`IdrisFileProofs`, `RefCCodegenProofs` and `RefCHeapProofs` extend the modules they
are about. `RefCDataProofs` extends `RefCText` and `RefCWords`: the proofs about
both need induction, recursive functions and powers, whose lemmas are stated there
once. (This is why the specification of `RefCWords` is called `WordSpec`.)
`MCHeap`, `MCHeapReentrant`, `MCCodegen`, `MCText` and `MCNet` add a symmetry set, an
initial state or values of constants for TLC. The other runs use the specification module itself. Operators
named after another one with a suffix (`Bump_Wraps`) are mutants: what a
plausible bug would make of the definition that follows them.

## 3. Runs

| Run | Bounds | What it shows |
|---|---|---|
| heap_data | 3 objects, 2 locals, fields up to 3, depth 4, counters up to 3 | constructors, reuse, IORefs, arrays; enough for shared children, cycles through IORef and array, saturation; the cascade ends |
| heap_final | 4 objects, 3 locals, depth 4, sizes 1 and 2, counters up to 4, closures shared up to 2 | closures shared and unshared, tail calls, a finaliser that runs inside a cascade and allocates itself |
| codegen | 3 variables, 2 constructors, 3 arguments, 2 nested lets | all paths; two constructors are needed for a cell that is kept while another one is built |
| words | operands up to 3 away from 0, the minimum and the maximum of each of the nine types | all pairs of consecutive operations; words of one step feed the next; conversions to and from strings |
| text | 2 characters, strings up to 3, `int` of 4 bits, offsets and lengths -1, 0, 1, 2, 7, two buffers of 2 bytes, bytes of 3 values, numbers and strings of 1 and 2 bytes stored in them | sequences of operations of any length; a negative offset, and a sum of offset and length beyond `int`; numbers that a string overwrites in part; copies of whole records and of parts (the theorem is for all sizes) |
| signal | signals 2, 10 and 34, two threads, three sends | 34 is beyond `N_SIGNALS`; two threads in the window between load and clear |
| sync | three threads, two operations each, one semaphore waiter, barrier of two, timeout of one poll | every interleaving of put and all kinds of get; the refinement of `OnePlaceBuffer` |
| process | two commands, pipes of one unit, one write to each stream, failing `pipe`, `popen` and `execlp`, waiting at any time | every order of starting, writing, closing and waiting, with streams open or closed; two commands are enough for one to inherit the other's input |
| file | files up to 6 characters, the largest `int` 3, `BUFSIZ` 2, pages of 2 lines, chunks of 2, texts up to 3, room for 4 | lines that fill the buffer and make it double twice, with and without a last newline, an empty last page; errors at every character and at every allocation, a full disk, sizes beyond `int` |
| net | 2 bytes, `int` of 2 bytes, buffers of 2 and 4, streams up to 3, pieces up to 3 | every way of cutting, closing and breaking a stream; every error path; short sends and receives; the same buffer sent again |
| words_mod | as words, with `mod` of negative numbers | a finding (section 5) |
| sync_semaphore | three threads, two of them may wait on the semaphore | a finding (section 5) |

Deadlock is not checked: a program may stop at any time (all bounds on
operations end in a state without successors, and a thread may wait for a post
that never comes).

Fairness. `RefCHeap!FairSpec`: a cascade that has started goes on, since it is C
code without blocking calls; nothing is assumed of the program. `IdrisSignal!
FairSpec`: each thread keeps calling `handle_next_collected_signal`, as
`System.Signal` tells the programmer to do in the main loop. `ChezSync!FairSpec`:
a thread that is inside an operation and can move moves; no thread has to call
anything. `IdrisProcess!FairSpec`: calls that have begun, commands and a `waitpid`
whose child has ended go on; the program may stop calling, and a command need not
stop early. `IdrisFile!FairSpec`: the one thread runs on. All fairness is weak.

Every property of a passing run has a mutant in `PROJECT.json` which violates it.

## 4. Properties

* `RefCHeap`: `NoDangling` (nothing refers to freed memory), `CountExact` (a
  counter below the maximum is the number of references), `SoleOwner` (what is
  being destroyed or has been dispatched belongs to the runtime alone),
  `OnlyCyclesLeak`, `Immortalized` (action property), `CascadeEnds` (liveness),
  `NoStaleRead` (no access to an array slot in the middle of its update).
* `RefCCodegen`: `OwnedExact` (credit equals what the current and the suspended
  environments own), `Backed` (a borrowed variable is owned by an enclosing let
  body, or NULL), `DroppedEarly`, `CellExact`.
* `RefCWords`: `Faithful`, `CaseExact`. Constants beyond 32 bits are excluded
  from `CaseExact`; the tests under `_/tests/refc/basicpatternmatch` mark them as
  a known limit.
* `IdrisSignal`: `NothingLost`, `NotAgain`, `NoAbort`, `HandedOut`. `NotAgain`
  counts for each thread: two threads that take the same snapshot may both be
  given the same signal, which the documentation does not exclude.
* `ChezSync`: `SemaphoreSound`, `BarrierTogether`, `ChannelExact`,
  `NothingOverlooked`, `NoLostWakeup`, `TimeoutReturns`, and `ImplementsBuffer`,
  the refinement.
* `RefCText`: `StringFaithful` (blocks are terminated and hold the string of
  Idris, the iterator gives out its characters in order), `BufferFaithful` (what
  was stored is read back, nothing outside of the block is touched).
* `IdrisProcess`: `NothingLeftOpen` (the calls leave no end behind but those of the
  streams they return), `InheritOrder` (a command holds only inputs of earlier
  ones), `PrintedOnce`, `WaitReturns` (liveness: a wait returns if the program has let
  go of the streams of the command and of later ones, which rests on `InheritOrder`).
  What the documentation says of `popen2Wait`, that it waits as `pclose` does and cleans
  up, is `WaitLikePclose` and `WaitCleansUp`; neither holds.
* `IdrisFile`: `ReadExact` (what an undisturbed reader returns is the file), `InBuffer`,
  `WriteSound`, `ReadEnds` (liveness: undisturbed readers return). The same without
  `Undisturbed`, which the documentation suggests, is `ReadAll` and `ReadAlways`; neither
  holds.
* `IdrisNet`: `ResultTrue` (0 means success) and `ResultSound` (the one way in which a
  0 is wrong), `RecvAllComplete`, `FreedOnce`, `RoundTrip`, `CountTrue`, and
  `NulInside`, `WordsInside` and `SenderThere`, one for each kind of `misuse`.

## 5. Findings

Two runs expect a violation; `findings` in `PROJECT.json` quotes what the repository says
otherwise.

| Run | Property | What happens |
|---|---|---|
| words_mod | `Faithful` | `mod` of a negative multiple of the divisor is the divisor (`mathFunctions.c:100`) |
| sync_semaphore | `SemaphoreSound` | the semaphore's wait does not test again after it has been woken (`support.ss:347`) |

The other defects and limits met while modelling are reproduced by the configurations
below, which TLC reports as violating the property named. Where the first column says
"with", it is the instance of a passing run with that property in place of its own: the
behaviour is part of the run. The last column names the text of the repository that
says otherwise, if there is one.

| Configuration | Property | What happens | Against |
|---|---|---|---|
| `MCHeapSaturated` | `Immortalized` | `runtime.c:171` (and `:146`) decrements a closure's counter without the test for the maximum: an immortal closure becomes mortal | `_datatypes.h:34` "Objects that reach the maximum reference count will be immortalized." |
| `MCHeapReentrant` | `NoStaleRead` | a finaliser that reads the array slot whose element is being replaced finds the freed element (`prim.c:94`) | |
| `MCCodegenIgnoreFields` | `OwnedExact` | an unused field of a unique cell that is kept for reuse is never dropped (`RefC.idr:444`) | `CHANGELOG.md:153` "precise reference counting instructions" |
| `MCCodegenSelfApply` | `OwnedExact` | `f f` with an owned `f` consumes it twice (`RefC.idr:499`) | `CHANGELOG.md:153` "precise reference counting instructions" |
| `MCCodegenLastUseExt` | `OwnedExact` | a variable whose last use is an external primitive is never dropped (`RefC.idr:564`) | `CHANGELOG.md:153` "precise reference counting instructions" |
| `MCCodegenBorrowedExt` | `OwnedExact` | `onCollect` keeps a borrowed argument for which no reference was made (`RefC.idr:564`, `prim.c:110`) | `RefC.idr:212` "If variable borrowed ... when used, call a function idris2_newReference." |
| `MCWordsOverrun` | `Faithful` | widening casts expose bits beyond the narrow type (`casts.h:8`) | |
| `MCWordsText` | `Faithful` | a string with a number beyond `int` is cast to Int64 through `atoi` (`casts.c:144`) | |
| `MCTextSubstr` | `StringFaithful` | `substr` takes its length as `int` (`stringOps.c:61`) | `Prelude/Types.idr:818` "Truncated if this exceeds the length of the input" |
| `MCTextLong` | `StringFaithful` | the length of a string does not fit an `int` (`stringOps.c:50`) | |
| `MCTextChar` | `StringFaithful` | a character beyond a byte is cut to its low byte (`stringOps.c:44`) | |
| `MCTextOverlap` | `BufferFaithful` | a copy inside a buffer with overlapping ranges uses `memcpy` (`buffer.c:35`) | |
| `MCSyncBarrier` | `NoLostWakeup` | the count of a barrier is never reset and compared for equality: whoever arrives later sleeps forever (`support.ss:368`) | `Concurrency.idr:180` "Blocks the current thread until all threads have rendezvoused here." |
| `MCSyncNil` | `NothingOverlooked` | `channelGetNonBlocking` and `channelGetWithTimeout` take an unread `Nil` or `Nothing` for an empty channel (`support.ss:449`) | `Concurrency.idr:220` "Non-blocking version of channelGet" |
| `MCProcessForkFails` | `NothingLeftOpen` | when `fork` fails four descriptors stay open (`idris_file.c:356-358`) | |
| `MCProcessDouble` | `PrintedOnce` | only stdout and stderr are flushed before `fork` (`idris_file.c:351-354`): a failed `execlp` followed by `exit` writes the data held back for another stream a second time | |
| `MCProcessThreads` | `InheritOrder` | with two threads in `popen2`, two commands can each hold the other's input | |
| `MCProcess` with | `WaitLikePclose` | `popen2Wait` leaves the input of the command open, and so may a later command that has inherited it: a command that reads to its end never ends (`idris_file.c:437`) | `Process.idr:119` "This function relates to `popen2` like `pclose` relates to `popen`." |
| `MCProcess` with | `WaitCleansUp` | `popen2Wait` closes no stream (`idris_file.c:437`) | `Process.idr:96` "in order to clean up all system resources" |
| `MCFileSize` | `ReadExact` | the size of a file is cut to an `int`: beyond twice the largest one `createBufferFromFile` gives a short buffer (`idris_file.c:74`) | `System/File/Buffer.idr:79` "a new buffer whose size matches the file size" |
| `MCFileNul` | `ReadExact` | the rest of a line behind a null byte is lost (`ReadWrite.idr:61`) | `ReadWrite.idr:210` "Read the entire file at the given name." |
| `MCFile` with | `ReadAlways` | after a read error `readLine` returns "" and no end of file is set: `fRead` and `readFile` go on forever (`ReadWrite.idr:174`) | `ReadWrite.idr:210`: partial only because the file may be infinite |
| `MCFile` with | `ReadAll` | when the line buffer cannot be enlarged, what was read of the line is lost and reading goes on (`getline.c:67`); `createBufferFromFile` does not look at the number of bytes it got | `ReadWrite.idr:210`, as above |
| `MCNetNul` | `RecvAllComplete` | a payload with a null byte is cut there | |
| `MCNetOdd` | `RoundTrip` | a length that is no multiple of the word takes bytes from behind the buffer | |
| `MCNetSplit` | `RoundTrip` | a transfer that ends inside a word: the word is converted without its second part | |
| `MCNetResend` | `RoundTrip` | `idrnet_sendto_buf` converts the program's buffer in place | |
| `MCNet` with | `ResultTrue` | `getaddrinfo` reports through its result; with errno 0 `bind` and `connect` return 0, success (`idris_net.c:127`) | `Socket.idr:38` "Returns 0 on success, an error code otherwise." |
| `MCNet` with | `NulInside` | the 0 after the payload is stored at `recv_res + 1`, behind the block when all of `len` was received (`idris_net.c:264`) | `idris_net.c:264` "Null-term, so Idris can interpret it" |
| `MCNet` with | `WordsInside` | the conversion of every buffer reaches behind it (`idris_net.c:37`) | |
| `MCNet` with | `SenderThere` | after a `recvfrom` of 0 bytes the sender's address is read through a NULL (`idris_net.c:386-396`) | |
| `MCNet` with | `CountTrue` | `recvFromBuf` returns one more than the number of bytes received (`Raw.idr:210`) | `Raw.idr:179` "Result value from underlying function." |

The passing runs exclude the cases that have a configuration of their own, by the
constants `ClosureCap`, `Reentrant`; `IgnoreFields`, `SelfApply`, `LastUseExt`,
`BorrowedExt`; `NegativeMod`, `Overrun`, `LongText`; `Args`, `Overlap`, `MaxLen` and `Char`;
`SemaWaiters`, `Latecomers` and `Null \notin Value`; `ForkFails`, `Buffered`, `Threaded`;
`Nuls`, `MaxLen`; `Nul`, `Lens`, `SplitWords`, `Resends`. In the run `net` names fail to
resolve, zeros and words are stored behind blocks, and datagrams are empty; in `process`
the program waits with its streams open; in `file` reading and allocation fail.

`Kept` of `IdrisNet` names what the code never gives back, read off each function:
`bind` and `sendToBuf` keep the list of addresses, a failed `accept` its
`sockaddr`, `recvFrom` and `recvFromBuf` the structure. `FreedOnce` says that nothing
else is kept, and that nothing is freed twice.

## 6. Proofs

**The heap.** `RefCHeapProofs` proves `TypeOK`, `NoDangling`, `CountExact` and
`SoleOwner` of `RefCHeap` for any finite sets of addresses and locals, any sizes,
any depth of the stack and any maximum count, under the hypothesis `Unsaturated`:
`ClosureCap` is at most `RefMax - 2`, so the counter of a closure never reaches
the maximum. `MCHeapSaturated.cfg` shows why: the decrement in `runtime.c:171` ignores
the maximum. Objects of all other kinds may saturate. The instances of
`heap_data` and `heap_final` satisfy the hypothesis.

None of the safety properties is inductive. The invariant `IInv` adds: fields of free objects
are empty and references lie within the size of their object (`Shape`); a cell
that waits for reuse is unique, empty and held by a local (`Reuse`), so that
`removeReuseConstructor` may skip the cascade; the finaliser of a GC pointer is a
closure that lacks two arguments (`Finalisers`), so that `runFinaliser` may
dispatch it; an activation of `removeReference` or of the trampoline has the only
reference to its object and a dispatched closure is empty (`Owing`,
`HandedOver`); an unfinished `prim__arraySet` has an empty slot in an array that
a local of its caller keeps alive (`Setting`), and no two of them share a slot
(`Distinct`); nothing is owed above the innermost activation (`Tops`).

The argument has two halves. *Counting*: moving, duplicating, allocating,
releasing and shifting a reference each keep `Exact(r, c)`, "the counters c count
the references in r"; operations of several steps are composed of these.
*Locality*: `Local(d)` says that a step uses only references that the innermost
activation may use and leaves the activations `1..d` alone; `StepInv` shows that
a local step keeps everything the suspended activations rely on, by the fact that
an object with counter one has no second holder (`Sole`). One lemma for each
action shows that it is local and sets up or removes its own activation
correctly. This is what makes finalisers, which are arbitrary programs that run
in the middle of a cascade, safe.

`Immortalized` is an action property, proved from the same invariant: a step that
lowers a counter is a release (which tests for the maximum), the application of a
closure (whose counter is below it by `Unsaturated`), or an in-place use of an object
with counter one.

`OnlyCyclesLeak` follows from `IInv` in each state. The iteration that computes what
is reachable adds an address in every round before the last, so that it ends
with a set which is closed under the fields. By `CountExact` an object that is
allocated, mortal and not held by a local or an activation is held by a field of
another allocated object; if the former is outside what the roots reach, so is
the latter. Among such objects take one that is reached by the fewest of them: whatever
reaches its holder reaches it too, so both are reached by the same ones, and the
holder, which is one of them, reaches itself. The least element comes from the well-founded order of the
natural numbers; induction is used in the form "a set that has 0 and the successor
of each of its numbers has them all", which needs no predicate as a parameter.

**Strings.** `TextStringFaithful` proves `StringFaithful` for any sequence of calls and
any bound on the length of strings. `StringInv` says that each block is exactly the text of
Idris and one 0 (`Block`), with no room left behind it, and that the position of the
iterator is the number of characters it has given out. For each operation, what its
copies leave is compared with the sequence Idris defines. The hypotheses: the
offsets and lengths passed fit into an `int` (`Narrow`; `MCTextSubstr` shows why), so does
the size of the longest string (`Short`; `MCTextLong`), and the characters are bytes other
than 0 (`OneByte`; `MCTextChar`).

**Buffers.** `TextBufferFaithful` proves `BufferFaithful` for buffers, numbers and
strings of any size, any number of values of a byte and any width of `int`. The
invariant (`BufferInv` of this module) says that every record lies inside its buffer
and that the bytes there are its encoding. A number below `Power[len]` is used up
after `len` divisions, and reading the bytes from the high end gives it back: both by
induction on the bytes. A store leaves the records that it does not touch; a copy
between ranges that do not overlap gives the same bytes in either direction, and moves
the encodings inside its source to the records it adds. Hypotheses: `Narrow`, and
no copy that overlaps itself (`MCTextOverlap`).

**Integers.** `WordsFaithful` and `WordsCaseExact` prove the two properties of
`RefCWords` for types of any widths in the order of the real ones. `Faithful` with
the type invariant is inductive. A conversion is characterised by two facts, that
its result is in the range of the type and that it differs from the number by a
multiple of the number of values of the type (`Converted`, `ConvertOnly`); since powers
of two divide larger ones, cutting a number to the half word loses nothing that a
narrower reader sees (`ReadsMade`), which is why results that ran over their type do
no harm. `DivInt`, `ModInt` and `DivInteger` derive the Euclidean division from that of C
for all signs, the smallest divisor, whose negation overflows, included.
`WordsBitwise` shows that the bit operators of the model are the bitwise ones. The
hypotheses are that `NegativeMod`, `Overrun` and `LongText` are off: `words_mod`,
`MCWordsOverrun` and `MCWordsText` violate `Faithful` with each of them.

**The code generator.** `RefCCodegenProofs` proves the four properties of
`RefCCodegen` for any sets of variables and constructors and any nesting of lets.
`Backed`, `DroppedEarly` and `CellExact` need no hypothesis. `OwnedExact` assumes
that `SelfApply`, `LastUseExt`, `IgnoreFields` and `BorrowedExt` are off; the four
configurations of these names violate it otherwise. `CodegenInv` adds: the body of a let owns the
variable it binds exactly when it uses it (`Binds`), so that the reference the value
gives to it is owned or dropped; no constructor of the part in progress, nor of the
body of an inner let, has a cell that an outer body waits for (`Apart`), so that one
name never stands for two cells; and a cell that is kept has a name (`Kept`). The
proof of each case adds up what the case takes from `credit` and from the `Env` for
one variable; a lemma for all cases that only consume variables does most of them.

**Signals.** `IdrisSignalProofs` proves `TypeOK`, `NothingLost`, `NotAgain` and
`NoAbort` for any set of signals and threads. `NotAgain` is not inductive; the
strengthening `Credit` says that a thread which holds a signal in its snapshot, or
sees its bit in the word, has one occurrence of it still to come. The handler adds
one on both sides, a load copies only bits of the word, a clear trades the bit for a
handled signal. For `NoAbort`, `ScanInv` says that a thread in the loop has a
snapshot with a bit below `N_SIGNALS` in it, which then has a least one.

**Synchronisation.** `ChezSyncProofs` proves `ChannelExact` (with an invariant that
ties the labels of the threads to the holder of the mutex, so that boxes are only
changed by the holder), `BarrierTogether`, and `SemaphoreSound` under the assumption
`OneWaiter` that at most one thread ever waits, which is exactly what
`sync_semaphore` shows to be needed. `ImplementsBuffer` follows from that invariant
and `WaitInv`: a condition variable holds only threads that wait at its label, so
that waking one neither starts nor ends a put; a put that has not taken effect has a
value; a full channel holds a value. Every step is then one of four kinds: a put is
called, a put fills the boxes, a get empties them, or the buffer does not change.
`NothingOverlooked` assumes `Null \notin Value`; `MCSyncNil` shows why.

**Processes.** `IdrisProcessProofs` proves, for any number of commands, any capacity
of the pipes and any number of writes:

* `NothingLeftOpen` if `fork` does not fail (`MCProcessForkFails`), for any number of
  threads, and whenever the program waits. `EndsInv` says, for each stage of a call and
  each kind of stream, which ends the program has.
* `InheritOrder` for one thread (`MCProcessThreads`). `OrderInv`: at most one call is
  in progress, so what a fork copies belongs to calls that are past their own fork;
  numbers of births are at most the number of commands born, so that a new one is
  larger than all.
* `PrintedOnce` for one thread that leaves only stdout unwritten (`MCProcessDouble`).
  With `Threaded` set in `MCProcess.cfg` TLC violates it too: another thread writes
  between the flush and the fork.
  `PrintInv`: between the flush and the fork there is nothing to copy.

**Files.** `IdrisFileProofs` proves, for files, lines, pages, chunks, texts and
buffers of any length: `InBuffer` (the block always has room for one character and
the null, before and after it doubles, which needs an initial size above one), with all
failures; `WriteSound` (`WriteInv`: until `fclose`, disk and unwritten data together are the
text, or the error indicator is set) for texts without nulls; and `ReadExact`, which is
about readers that neither a read error nor a failed allocation disturbs (`ReadAll` is
about all, and does not hold), if the file holds no null (`MCFileNul`) and its size is not
beyond the range of an unsigned `int` (`MCFileSize`). The last is the longest: what was got is a prefix of the file, and a
reader of lines stands at its end. For `readFilePage` the next page is found by
counting lines from the start of the file again, so the invariant counts newlines:
after `n` lines the reader stands behind the newline with number `n`, and there is
only one such place. That a page which ends exactly at the end of the file is
followed by one more, empty, page is part of it.

**Network.** `IdrisNetProofs` proves, for any bytes, pieces, word size and lengths:

* `ResultSound`, without hypothesis. `CodeInv` follows the result and `errno` between
  the C function and the Idris code that fetches it. (`ResultTrue`, that
  0 means success, is violated by the instance of the run.)
* `RecvAllComplete` if no byte is null (`MCNetNul`). `StreamInv`: accumulator, the
  piece in hand and the wire together are what was sent, unless the connection has
  been reset, after which no end of the stream is reported.
* `FreedOnce`, without hypothesis. `BlockInv` says which blocks are live between the
  foreign calls of a function.
* `RoundTrip` for lengths that are multiples of the word (`MCNetOdd`), transfers that do
  not end inside one (`MCNetSplit`), and when only `sendBuf` sends again (`MCNetResend`).
  `BufferInv`: what has been received and what is on its way together are a prefix of
  the converted buffer, at a word boundary; the conversion of a part at such a
  boundary is the part of the conversion; the lemmas `MirrorMirror` and `SwapSeq`
  show from the uniqueness of quotient and remainder that converting twice gives back the
  buffer.

All hypotheses are satisfied by the passing run of the same module, and each is
needed: the configurations named violate the property without it. The invariants
`CodegenInv`, `ScanInv`, `WaitInv`, `EndsInv`, `OrderInv`, `PrintInv`, `ReadInv` (of undisturbed readers),
`WriteInv`, `CodeInv`, `StreamInv`, `BlockInv`, `StringInv`, `WordInv` and both of the
name `BufferInv` have also been evaluated by TLC on the instances of these runs.

Every safety property and action property that a passing run checks is stated by a
theorem. Only model-checked are the liveness properties (`CascadeEnds`, `HandedOut`,
`NoLostWakeup`, `TimeoutReturns`, `WaitReturns`, `ReadEnds`): fairness and `ENABLED` are
outside the prover's reach.

## 7. Not modelled

Endless streams of signals: the sends are bounded, so that `HandedOut` finds a bit that is
never looked at and not a signal that waits because lower ones keep arriving
(`idris_signal.c:84`); `System.Signal` promises no order. Spurious wakeups of condition
variables. Further: doubles; characters as values of their own; the reading of one character of a string (`strIndex`); file
times, permissions, `poll`; getters of socket addresses and ports (the sender's
address that `recvFromBuf` should give is never filled in, because `fromlen` is 0);
directories, terminal, memory and system calls, which keep no state; the branches
for Windows; the mutex and condition primitives of RefC (its `prim__fork` is not
implemented, so no second thread exists); foreign function stubs; the Racket,
Gambit and JavaScript runtimes; the front end. `PROJECT.json` gives the reason for
each. `tail` of an empty string keeps its cell; the heap model has no strings, so
this is not a property of a run.

## 8. Plan

The properties planned for the modelled parts are checked and, but for liveness,
proved. What could be added is more of the system: the bit operations of Integer, doubles
and characters in `RefCWords`, `poll` and file times in `IdrisFile`, and the array update
of `prim.c:94` as a passing property once the old element is dropped after the new
one is stored.
