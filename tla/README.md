# A TLA+ model of ShrinkLog

ShrinkLog replaces the string of a log call by a short tag at build time and
puts it back when the logs are read. Three programs share that job and never
meet: a tool that rewrites sources, C code on a device, a decoder on a host.
This directory models them, checks the models with TLC and proves part of the
results with TLAPS.

## 1. The system

| Part | State | Operations | Talks to |
| --- | --- | --- | --- |
| `ProjectProcessor` (`ProjectProcessor/src/ProjectProcessor.cpp`) | sources, `slog/map.slog`, `slog/Tags.h` on disk; `masterHashMap`, `maxId`, `argEncoderOpt` in memory | `ProcessProject`: scan, one `ProcessFile` per path on the pool, `AssignIDs`, `UnifyArgumentTags`, `GenerateMapFile`, `GenerateHeaderFile` | `ThreadPool` (jobs, callbacks), `ArgEncoder` (calls), the other two programs through the two files |
| `ThreadPool` (`ProjectProcessor/src/ThreadPool.h`) | job queue, two mutexes, condition variable, atomics `terminate`, `queueNonEmpty`, `exitCnt`, `errorCnt` | `AddJob`, `JoinAll`, the workers' loop | its owner and its workers, through shared state |
| Search for LOG calls (`FilterUncommentedParts`, `logPattern`, `FindPrints`, `SimplifyMultilineString`) | flags of one pass over a file; where the search of a part goes on | one step per character, one per call found | called by `ProcessFile` |
| `ArgEncoder` (`Common/`) | sizes of the C types of the target | `GetByteSize`, `EncodeArg`, `DecodeArg` | both tools |
| Type configuration (`TypeSizeDiscovery.h`, `TypeConfigLoader.h`) | `slog/TypeConfig.yaml` | print, load, check | target, both tools, the preprocessor |
| TargetLib (`TargetLib/slog/ShrinkLog.h`) | position in the tag, `va_list` | `LOG` | `Tags.h` at compile time, the interface at run time |
| `LogDecoder` (`LogDecoder/src/`) | the descriptors of the map, position in a line | load of the map, `DecodeTextFormat`, `DescriptorCleaner` | `map.slog`, the collected text |
| Around them | | `TextFile`, command lines, scripts | |

What is hard in it:

* **Interleaving.** The pool reads `queueNonEmpty` and `terminate` without a
  lock, `GetJob` gives up on a taken mutex, `AddJob` notifies under the wrong
  mutex for a wakeup to be certain. Two paths of one file are two jobs. An
  editor may save a file between its `Load` and its write. `LOG` may be
  interrupted by another `LOG`.
* **Failure and restart.** Files are rewritten in place, map and header one
  after the other; a kill, an `exit(1)` in a worker or a failed write leaves
  any mixture, and the next run has to cope with it. The interface loses or
  delays characters, the device is reset.
* **Files of different ages.** Sources, configuration, header, firmware and map
  are tied together by nothing but the order in which somebody made them.
* **Agreement without communication.** Five pieces of code read a placeholder
  (`argPattern`, the tables of `ArgEncoder`, the pattern of
  `UnifyArgumentTags`, `substringArgPattern`, the codes in `LOG`); two work
  out the width of an id; a filter, a regular expression, a simplifier and a
  cleaner between them decide what a string literal says. Where they differ, an
  argument is sent and not read, or a call is not found.
* **Boundaries.** Ids at 254 and 65534, an id equal to the number of lines of
  the map, the ends of comments, sizes of floats.

## 2. Modules

| Module | Models | Built on |
| --- | --- | --- |
| `JobPool` | what the pool promises: FIFO, each job to one worker, `JoinAll` after the last | |
| `ThreadPool` | the pool as it is written, one step per observable operation | implements `JobPool` |
| `Project` | what a run of the processor promises about the disk | |
| `ProjectProcessor` | runs of the processor between edits, with faults and crashes | `JobPool` as its pool; implements `Project` |
| `CommentFilter` | `FilterUncommentedParts` against comments as C has them | |
| `LogSearch` | the calls found in the parts, and their strings up to the decoder's screen, against calls and strings of C | `CommentFilter` |
| `Codec` | a placeholder through encoder, unification, chunker | |
| `IdWidth` | width and bytes of an id | |
| `LogChannel` | what LOG and the decoder promise together | |
| `Wire` | LOG, a disturbed wire, the decoder | `Codec`, `IdWidth`; implements `LogChannel` |
| `TypeConfig` | what a target prints of its types and who accepts it | |
| `Toolchain` | configuration, runs, builds, the map at the decoder | `Project`, `TypeConfig`, `IdWidth` |
| `ThreadPool_proofs`, `ProjectProcessor_proofs`, `CommentFilter_proofs`, `Wire_proofs` | proofs | the module they are named for |
| `Toolchain_proofs` | proofs about `Toolchain`, and about `IdWidth` | `Toolchain` |
| `LogSearch_proofs` | proofs about the search | `LogSearch`, `CommentFilter_proofs` |
| `ProjectProcessor_refinement` | proofs: the run implements `Project`, and its types | `ProjectProcessor_proofs` |
| `NaturalOrder` | facts for the proofs: least elements, induction, recursion over 1 .. N | |
| `MCProjectProcessor`, `MCLogSearch`, `MCWire`, `MCToolchain` | finite instances | |

Operators named `X_Y` behind a "Mutation" comment are broken variants of `X`,
kept to show that each property notices the bug they stand for. No
specification uses them.

### ThreadPool

`pc[w]` is the place of a worker in `WorkerWrapper` and `GetJob`, `mpc` that of
the thread that owns the pool, which adds every job and then calls `JoinAll`
(the only client, `ProcessProject`; the destructor calls `JoinAll` only when
that was not done). Each atomic load or store, `try_lock`, lock, unlock, wait
and notify is an action. The two loads in the wait predicate are one step:
`terminate` is never reset, so every outcome of two loads is an outcome of one.
A condition variable is the set of waiting workers; `notify_one` picks any of
them, a notify without a waiter is lost, and spurious wakeups happen.
`try_lock` is assumed to fail only when the mutex is taken (C++ permits more).
Memory order is sequential, the default of the atomics used (`exitCnt` is
added to with relaxed order but followed by `join()`). Workers is not empty:
`main.cpp:50` refuses a thread count of zero.

### ProjectProcessor and Project

A file is the sequence of its LOG calls, each a message and a tag. The
developer adds calls and changes messages between runs; a run hands all paths
to `JobPool`, workers `Load`, `AppendToMasterHashMap` and `WriteCall` one tag
after the other, and the main thread assigns ids in an arbitrary order (an
`unordered_map` has no other) and writes the map and the header. What may go
wrong is the constant `Faults`:

| Fault | In the code |
| --- | --- |
| `open` | `ProcessFile` cannot open the file and it is counted (63-67, 513) |
| `write` | the stream fails, nothing throws, the file counts as processed (85-92) |
| `map`, `header` | the file is not written and the status is dropped (525-526) |
| `crash` | a kill at any point: a tag half written (`Tear`), half a map, half a header |
| `edit` | a message is changed, to one of the same length, while its file is read, processed and written back (70, 87): the change may be lost |

Apart from these, a message whose placeholder is in no table ends the process
with `exit(1)` in the middle of the others' work (`ExitInWorker`). Two paths
may name one file. That `TagOf` is injective is an assumption: the tag is seven
digits of a hash and nothing in the code looks for collisions.

`Project` is the same run with threads, phases and failures left out: it
retags any of the calls, numbers some of the messages of the sources, writes a
beginning of the map and of the header and ends at any time. The refinement
maps its `ids` to `stagId` from `AssignIDs` to the end of the run and to `None`
otherwise; a step of a worker is a `Retag` of one call or nothing, a kill is
a `Retag` that tears tags, a cut `WriteMap`, or an `End`. `Toolchain` builds on
`Project` instead of `ProjectProcessor`, which keeps it checkable.

### CommentFilter and LogSearch

The four flags and `partBegin` of `FilterUncommentedParts`, one action per
level of its if-chain and one character per step. Characters are classes; `L`
is the beginning of a call, `LOG(` and a tag of the right form up to the comma.
`LogSearch` goes on where the filter returns: `FindNext` is one match of
`logPattern` (`ClosingQuote` is its string: literals with blanks between them,
escapes, continued lines) with its `SimplifyMultilineString`, `NextPart` the
loop over the parts. `Cleaned` is `DescriptorCleaner` on the decoder's side.
The reference is written independently, from C: `Tokens` are comments and
string literals from left to right, `IsCall` is a call outside of them,
`Spelled` the characters its literals denote.

### Codec, IdWidth, Wire

A placeholder is its length modifier and the class of its conversion; flags,
width and precision match alike in all the patterns and are left out. `%%`
before a blank and a letter is a placeholder to all of them (`PercentSign`).
The constant `SizeOf` is the type configuration. `Chunks` says which
placeholders of a unified message the decoder finds and which argument of the
row each gets: the k-th found takes the k-th argument, also when one in front
of it was not found.

In `Wire` a character on the wire is known by what it stands for (which half
byte of which argument of which log; a character of a string; a NUL; a line
end), so a value is shown right if and only if the decoder reads exactly its
characters. LOG writes to the wire branch by branch, and a code without a
branch takes no argument: codes for floats of other sizes, and every integer
where the largest has one or two bytes (`IntBytes`; `ShrinkLog.h:48` lets it
compile). An integer is filled into one member of a union and shifted out of
another; digits that are not those filled in stand for nothing (`Filled`, the
digit 0 of the argument). `BigEndian` is the byte order of the target, which
decides over that and over the order of the bytes of a float; the host of the
decoder is taken to be little-endian, and the decoder asks for neither. The decoder is started on
the collected text and goes through it as `DecodeTextFormat` does. An exception
there terminates the program (it is `noexcept`) and nothing is printed. When
the characters of an id are not those of an id, any row of the map may come of
it, or none. What may happen in between is the constant `Disturbances`:

| Disturbance | Meaning |
| --- | --- |
| `lose` | the interface loses one character, a line end included |
| `late` | `putchar` keeps a line end back while `SlogPutchar` sends on (192) |
| `reset` | the device is reset in the middle of `LOG` |
| `interrupt` | an interrupt handler calls `LOG` with any message in the middle of another call (`LogText` is all it sends), after the logs of the interrupts before it |

### TypeConfig, Toolchain

A configuration is a function from keys to numbers; what is no number is
`NotANumber`. `SlogDiscover` is what a target prints, `Accepted` what the
loader and the constructor of `ArgEncoder` take, `IntSizesCompile` the
preprocessor's check. In `Toolchain` the developer installs a configuration,
edits, runs the processor, builds (every tag of the sources must be in the
header) and hands a map to the decoder. `paired` and `current` are history
variables: map and header come from one run that wrote all of its map, and the
firmware was built from that header. The header has a width of its ids
(`headerIdBytes`) and the firmware that of its header (`imageIdBytes`); the
decoder takes one from the number of rows. `Decoded` is what it makes of an id:
the bytes it hears, anything when the widths differ, its end when the map has
too many rows, the value behind the end of `_cache`. That the cursor moves by
one byte whatever the width (`Decoder.cpp:63`) matters for the arguments, which
are in `Wire`.

## 3. Properties and runs

| Run | Instance | Checks |
| --- | --- | --- |
| `ThreadPool_all` | 3 workers, 4 jobs; fair | `TypeOK`, `JobConservation`, `FlagCoversQueue`, `NoEarlyExit`, `JoinMeansDone`, `JoinReturns`, `ImplementsJobPool` |
| `ProjectProcessor_crash` | 2 files of one call, 2 messages, 2 workers; `open`, `crash`, `edit` | `TypeOK`, `CollectedAll`, `CleanRunIsUsable` |
| `ProjectProcessor_links` | 1 file of up to two calls under 2 paths, 3 messages, one of them not encodable; all faults but `edit`; fair | `RightTagStays`, `RunEnds`, `ImplementsProject` |
| `CommentFilter_all` | every text of up to 6 characters of 5 classes and about 52,000 texts with calls | `RangesDisjoint`, `NothingCommented`, `CodeSearched`, `FoundAreCalls`, `CallsShown` |
| `Wire_working` | every supported placeholder alone, 8 typical ones in pairs; up to 2 logs | `LogsSurvive`, `ImplementsLogChannel` |
| `Wire_mixed` | a 16-bit target without long double, placeholders that do not work among others, newlines in strings, up to 3 logs, one disturbance of any kind; fair | `TypeOK`, `OthersSurvive`, `DecodingEnds` |
| `Toolchain` | 1 file of up to two calls, 2 messages, 3 targets; symmetry of messages | `TypeOK`, `CurrentLogsDecode`, `SizesFit` |

What the less obvious ones say:

* `CleanRunIsUsable`: a run that returns OK and counted no error leaves
  sources, header and map that agree, whatever torn tags, half maps, old
  headers or lost edits were there before.
* `OthersSurvive`: damage stays in its line. Each log whose own line arrived is
  shown with its values, once and in order, if the decoder gets to the end.
* `CallsShown`: what the reader sees of a call's string is what the programmer
  wrote, through concatenation, continued lines and escapes.
* `CurrentLogsDecode`: as long as the map is that of the run whose header the
  firmware was built with, every log is shown with a message of its tag, with
  the sizes it was encoded with; unless firmware and decoder differ in the
  width of an id, or the decoder refuses the map for its size (`IdsAgree`).
* `FoundAreCalls`: a place found is a call of the code, or it lies in the
  comment the file ends in when no part was found before that comment
  (`TrailingComments`). `NothingCommented` exempts the same ranges.

The invariants of the search are stated for the texts it was written for, each
condition a named operator: no two stars in a row in a comment, no slash in a
literal, no continued line comment (`Plain`); no `\\` in a literal and no call
quoted in one (`PlainStrings`); no stray backslash between a tag and its string
(`PlainTags`); no continued line between two literals and no
comment right behind the call's comma (`Visible`). `NothingCommented` and
`CodeSearched` need the first, `FoundAreCalls` the first three, `CallsShown`
all but `PlainTags`, and `RangesDisjoint` none. What happens without them
is in the next section.

Bounds, and why they are enough:

* Three workers let one sleep, one spin on `qMutex` and one hold it; four jobs
  keep the queue non-empty around all of them. `errorCnt` and `exitCnt` are
  bounded by the code (once per job, once per worker). The proofs cover all
  sizes. There is no symmetry: liveness is checked.
* Two files, two workers and two messages are what it takes for two workers to
  race on the map and for ids to change order; the number of runs and edits is
  not bounded. `MaxCalls` bounds the calls in a file: two, where tearing and
  overwriting inside one file matter, one elsewhere. The proofs cover all sizes.
* Six characters hold a comment and the start of another, with code between
  them or in front, with a minimum width of one (the code uses 17, the default
  of the parameter is 1; the proof covers all). The texts with calls are all
  combinations of what may stand before a call, between tag and string, in a
  literal (up to three characters), between two literals, and behind.
* The decoder keeps nothing between lines but the map, so two logs show what a
  line does to the next and a third what a joined line does to one that is
  whole; a message of two placeholders shows what an argument does to the next.
  `MaxLogs` and `MaxHits` bound logs and disturbances.
* Two messages are enough for a numbering to change and a row to be missing;
  one target is the default, one has no sixteen-byte type, one has a size
  (twelve) that cannot be printed. The proofs cover all sizes.

`CHECK_DEADLOCK FALSE` where a program ends: the pool is joined, the text is
decoded, the search is over. `ProjectProcessor` and `Toolchain` can always go
on and are checked for deadlock.

Fairness: threads of a running process are scheduled (`WF` of the main thread
and of each worker; a mutex may still be given to somebody else for as long as
it is released and taken again), and the decoder, a sequential program, goes
on. Nothing forces a spurious wakeup, an edit, a run, a log, a fault or a
disturbance: the steps in which something goes wrong are outside the fair
actions. `JoinReturns` holds although a notification of `AddJob` can be lost,
because `JoinAll` notifies again and again until every worker has left.

## 4. Where the code and its documents part

Each is a run in which TLC finds the property violated.

| Run | Property | What happens |
| --- | --- | --- |
| `ProjectProcessor_lost_header` | `OKMeansHeader` | `ProcessProject` drops the status of the generators: OK without `Tags.h` (`ProjectProcessor.cpp:526`, `README.md:85`) |
| `CommentFilter_stars` | `AllCodeSearched` | a comment that ends in `**/` does not end, and code behind it is not searched (`ProjectProcessor.cpp:163`, comment at 199) |
| `Wire_id2bytes` | `LogsSurvive` | behind an id of two bytes the decoder moves one byte (`Decoder.cpp:63`, message at 47) |
| `Wire_longdouble` | `LogsSurvive` | `%lf` becomes `%lLf` and is not found by the chunker (`ProjectProcessor.cpp:374`, `README.md:33`, test message `tf_arguments.h:24`) |
| `Toolchain_config` | `DiscoveredIsAccepted` | the file a target prints begins with a line that is no number, and the loader refuses it (`TypeSizeDiscovery.h:71`, `TypeConfigLoader.h:44`, `README.md:138`) |

Met on the way and not given a run of their own:

* a newline in a string argument cuts the log in two (`ShrinkLog.h:157`); it is
  a condition of `OthersSurvive`;
* the id widths differ at 254 and 65534 rows (theorem `WidthsAgree`);
* with a largest integer of one or two bytes `LOG` sends no integer
  (`ShrinkLog.h:88`);
* a four-byte double has no branch in `LOG` (`ShrinkLog.h:177`), and `%ls`
  makes a row the decoder ignores (code 126 is above the limit of `DecodeArg`);
* `%%` before a blank and a letter is taken for a placeholder, and `LOG` reads
  an argument nobody passed (`ProjectProcessor.cpp:50`);
* a failed write of a source goes unnoticed (`ProjectProcessor.cpp:85-92`);
* a part of the text ends one character early before a line comment (188;
  `CodeEnd`), and a comment at the end of a file without parts is searched, and
  a call in it processed (210; `TrailingComments`);
* an int is filled into `var32` and shifted out of `var64`, which are other
  bytes on a big-endian target, and the bytes of a float are sent in memory
  order (`ShrinkLog.h:106`, `147`); the repository's `README.md:88` says that
  the configuration has the endianness, and no code uses it;
* two slashes in a string literal start a comment (186);
* a quote behind `\\` is not counted; with an odd number of quotes an iterator
  is read behind the end of a vector (251);
* literals with a continued line between them, and a call with a line comment
  right behind its comma, are not matched or cut off (49, 188);
* `DescriptorCleaner` takes the `\n` in `\\n` for a newline;
* every run numbers all messages anew, so adding a log changes the bytes of
  others, where `README.md:197-199` says that unchanged logs remain unaffected;
* the code writes `map.slog` (`ProjectProcessor.cpp:389`); `README.md:168` and
  `183` name `Map.slog`, another file where names have case.

## 5. Proofs

`tlapm` checks, for every value of the constants that satisfies the named
assumptions:

| Theorem | Statement |
| --- | --- |
| `ThreadPool_proofs` `TypeCorrect` | `Spec => []TypeOK` |
| `NoJobLostOrRepeated` | `Spec => []JobConservation` |
| `FlagIsSound` | `Spec => []FlagCoversQueue` |
| `WorkersStayForTheLastJob` | `Spec => []NoEarlyExit` |
| `JoinIsComplete` | `Spec => []JoinMeansDone` |
| `PoolRefinement` | `Spec => ImplementsJobPool` |
| `ProjectProcessor_proofs` `RightTagsStay` | without `edit`: `Spec => RightTagStays` |
| `EverythingIsCollected` | without `write`: `Spec => []CollectedAll` |
| `CleanRunsAreUsable` | without `write`, `map`, `header`: `Spec => CleanRunIsUsable` |
| `ProjectProcessor_refinement` `RunTypeCorrect` | `Spec => []TypeOK` |
| `RunsImplementProject` | without `edit`: `Spec => ImplementsProject` |
| `CommentFilter_proofs` `RangesAreDisjoint` | `Spec => []RangesDisjoint` |
| `CommentsAreSkipped` | `Plain` texts: `Spec => []NothingCommented` |
| `CodeIsSearched` | `Plain` texts: `Spec => []CodeSearched` |
| `LogSearch_proofs` `SearchFilters` | `SearchSpec => Spec`, with these three |
| `OnlyCallsAreFound` | `Plain`, `PlainStrings`, `PlainTags`: `SearchSpec => []FoundAreCalls`, which exempts what is found in a trailing comment |
| `CallsAreShown` | width at most 4, `Plain`, `PlainStrings`, calls that are `Visible`: `SearchSpec => []CallsShown` |
| `Wire_proofs` `WireTypeCorrect` | `Spec => []TypeOK` |
| `LogsAreDelivered` | undisturbed: `Spec => []LogsSurvive` |
| `WireImplementsChannel` | undisturbed: `Spec => ImplementsLogChannel` |
| `DamageStaysInItsLine` | fewer than 254 rows: `Spec => []OthersSurvive` |
| `Toolchain_proofs` `WidthsAgree` | the widths of an id agree if and only if the map does not have 254 or 65534 rows |
| `IdSurvives` | an id the decoder accepts is what the bytes of its tag stand for |
| `TypeCorrect` | `Spec => []TypeOK` |
| `LogsOfARunDecode` | for maps the decoder accepts, without 254 or 65534 rows: `Spec => []CurrentLogsDecode` |
| `SizesAreTheTargets` | `Spec => []SizesFit` |
| `RunsAreProjectRuns` | `Spec => ProjectSpec` |

**The pool.** `PoolAssumption`: finitely many workers, at least one, distinct
from the main thread and from `None`. The set of jobs may be empty or infinite.
None of the invariants is inductive alone. `IndInv` adds three facts: who holds
`qMutex` is determined by the program counters (`LockInv`), a worker holds a
job exactly between `GetJob` and the end of the call (`JobInv`), `terminate`
is set exactly from the start of `JoinAll` on, when `pending` is empty
(`TermInv`); and `exitCnt` counts the workers that are done (`ExitInv`). The
heart of it: `queueNonEmpty` becomes false only under `qMutex` over an empty
queue, so never while `AddJob` is between its store and its `emplace`; a worker
that has seen `terminate` and then a false flag therefore sees a queue that is
and stays empty. `JoinMeansDone` follows because a worker that is done holds no
job.

**The processor.** `ProjectAssumption`: finitely many messages and paths, tags
that tell the messages apart, any files, links, workers; `None` is no path and
no numbering. `TextInv` says what makes a write
harmless: while nobody edited, a worker's text has the messages on disk, each
with its tag, so that writes of several workers to one file only turn wrong
tags into right ones (`WriteEffect`) and a kill tears only what was wrong
before (`TearStays`). `CollectInv` follows each path: an appended file is in
`masterHashMap`, a written prefix has its tags (`Half`), a finished path is
`Complete`, and stays so while the others go on (`StaysComplete`). It does not
need that all workers are idle at `JoinAll`: a late one would change nothing
(`NumberAppend`). With `NumberInv`, map and numbering belong together until
the header is written. What the theorems exclude is what is false: with a
silent failure of a write, a run can return OK and not be usable; a kill can
tear a tag that an edit in the meantime had made right.

**A run is one of Project.** Here it matters that the workers are idle when the
main thread goes on: a call that one of them changed behind `AssignIDs` would be
a `Retag` in a phase in which `Project` has none, and a step that writes the
map must leave the sources alone. `OnceInv` says that each path is in one
place: still to be added, in the queue, with one worker, or finished; so all
paths finished (`QuietInv`) leaves no worker with a job. `NumberedInv` and
`MessageInv` make the rows of the map rows of `Project`, cut ones included
(`RefineInv`). With `edit` the theorem would be false: a worker that writes
back what it read before changes a message, which `Project` leaves to the
developer. `RunTypeCorrect` has no such condition. Its one hard part is that
`errorCnt` does not exceed the number of paths: `OnceInv` says that no path is
handled twice, and `FailInv` counts the errors against the paths handled
(`Handled`), the one a worker is just returning from included. A loop that took
a path twice would break it.

**The search.** For texts of any length and any width but 0
(`FilterAssumption`). `RangeInv`: outside a comment all ranges end at or before
`partBegin`, inside one at or before `it`; the distance `it - 2 - partBegin`,
which may be negative, adds no range.

That the ranges are the code between the comments takes an invariant that
relates the flags of the pass to the tokens of the reference (`PassInv`). It
names a place s up to which the reference has been read: no token reaches over
s but those that begin there or later (`Scanned`). The flags say what lies
between s and `it` (`Where`): nothing, a piece of a literal, a first slash, an
open line or block comment. Of the parts, `PartInv` says that each comment
begun before s ends at or before `partBegin` and was kept out of the ranges but
for its first slash, and that each place before s where code begins is
`partBegin` or was looked at up to some later end; which end that was is not
needed before the file is over. `Plain` is used where the pass differs from the
reference: in `InCode` (no slash in a literal) and in `EndBlock` (no two stars).
That no line comment is continued is a condition on the reference itself, which
does not know continuations.

The reference is recursive over the text, and so are the pattern of a call and
what C says of its string. All of these recursions go forward, so one lemma
(`Descent` in `NaturalOrder`, by induction over the distance to the end) gives
the functions they define, and with them their equations (`TokensScan`,
`SkippedScan`, `StringsScan`, `ClosingScan`, `SpelledScan`). For `FoundAreCalls` the walk of
the pattern through a string is followed from literal to literal:
`ClosingLiteral` (it leaves a literal of the reference where that one ends,
since it never stops behind a backslash), `ClosingNext`, and `StringsAre` (so
all it passed are literals of the reference that follow each other, with the
end of a call behind the last). `FoundInv` keeps of the search that each place
found matches within a range; that the place is in no comment is
`CommentsAreSkipped`. The proof showed that the property needs `PlainTags`: the
pattern lets a stray backslash stand between a tag and its string
(`ProjectProcessor.cpp:49`), C does not, and no text of the run has one.

`CallsAreShown` is the opposite direction, with the text. A width of more than
4 would let a part be too narrow for a call, which has at least four characters
here (the tag, two quotes, the comma or parenthesis); the code's
`minimumStringWidthToCheck` is the 17 characters that `L` stands for, a width of
1. First, a visible call is matched wherever it stands as a whole (`CallStands`:
`InSightCloses` takes the pattern through its literals, `RegionIs` says that it
stops where the last one does), and it does stand in one part as a whole: the
gap around it reaches behind its comma, since no line comment opens there
(`StretchSearched`, from `CodeSearched`). Second, the search does not step over
it: `ShownInv` says that every call matched in a range and behind `from` or in
an earlier part is among those found, with its text. It rests on `MatchedText`:
a match outside the comments has a text that is defined, so that the search
goes on, and holds no second tag. Third, the text. All functions on the way
leave characters out of a part of the file, or write a newline over one, so the
text after each is *listed* by a set of places of the file (`Lists`): there is
one text for a set (`ListedOnce`), and the set can be computed. The continued
lines go first (`ContinuationsAre`, `KeptListed`), then the quotes of the
literals and what is between them, by the parity of the quotes passed
(`CountBefore`, `Parity`, `SimplifiedLists`), then the letter of each newline
escape (`CleanedLists`). The reference, one recursion over the literals, lists
the same places (`SpelledLists`). That a backslash in a literal never stands
behind another one (`PlainStrings`) is what keeps its two characters together in
all of them.

**The wire.** `WireAssumption` and `SizeAssumption`: messages are sequences of
placeholders `ArgEncoder` knows, strings are made of characters and line ends,
sizes are those the constructor of `ArgEncoder` lets through. The types hold
under every disturbance; what takes an argument is `va <= tagIt` (each code of
the tag takes at most one argument) and that nothing is shown twice. Delivery
is proved for what `Undisturbed` says: no disturbance, fewer than 254 rows (ids
of one byte in firmware and decoder, which is where `WidthsAgree` and the
cursor at `Decoder.cpp:63` leave it), placeholders that are `Supported`, and
strings without a line end. A placeholder is `Supported` when LOG has a branch
for it and its bytes are those of the argument (`Filled`): on a little-endian
target every integer up to the largest, if that has four or eight bytes; on a
big-endian one only integers that fill the union, strings and no float. Each
of these is necessary; the runs of section 4
and `Wire_mixed` show what happens otherwise, on little-endian targets (every run
has one). The number of logs, the messages,
their lengths and the sizes of the types are arbitrary.

`LogsSurvive` speaks of the end only, so the invariant (`DeliveryInv`) has to
say how every log lies on the wire while it is being written, and where the
decoder is while it reads. A layout is a table of places: `at[n][a]` is where
the a-th block of log n begins, block 0 being the id. `Laid(at)` says that the
blocks LOG has sent so far are there, one behind the other, with no line end
among them, and that each closed log has its line end (`Ended`). LOG extends a
layout by one place (`Moved`) and leaves the others. `DecodeInv(at)` says that
the decoder has printed the first logs, that the line it has is the n-th, that
the cursor is at the block behind what it has shown, and that the rest of the
text begins with log n + 1. The two meet in `BlockText` (what the characters of
a block can be) and `SentBytes`: for a supported placeholder the code in the
tag, the branch LOG takes, the chunk the decoder finds behind the unified
modifier and the number of bytes it reads are of one size. Strings
have no size: that the decoder stops at the right place is the statement that
the NUL LOG sends is the first one behind the cursor, where the least element
of a set of places is needed. `getline` is the same argument for line ends.
`WireImplementsChannel` follows from the same invariant: the only step that
changes `decoded` appends the values of the next log.

`DamageStaysInItsLine` has one of these conditions, the number of rows: other
messages and disturbances may do to the other lines what they like. While the
wire is disturbed there is no layout of it, so `ScatterInv` says less of more
logs: the first character of a log comes before its others and before the first
of any later log (`Order`), and of each log that can be shown and lost nothing
the characters are on the wire in their order, once each, wherever they stand
(`Collected`: they are those of a text that spells its blocks, `Spelled`, strewn
over the wire by an increasing rank, `Strewn`). A lost character, a line end
that moves back, a reset and an inserted log each keep that, which four lemmas
about taking out, moving and putting in state of any sequence (`TakenOut`,
`MovedBack`, `ResetKeeps`, `PutIn`). An interrupt puts in a whole log of any
message at once: `LogText` flattens the texts of its arguments, and
`SpelledLog` says, by induction over them (`Flattened`, `SpelledBegin`), that
they spell what the branches of LOG would have sent one by one (`ArgTextSent`). The ranks of a log whose characters stand
in one piece leave no gap (`Consecutive`), so its blocks have places again
(`Placed`), as in `Laid`, and begin behind a line end (`Stands`). From then on
the wire is fixed, and `Follow` accounts for the lines begun: where each began
(`ls`), that what was printed for it begins with the character that stood there
(`Printed`), that no expected log was passed over (`Ahead`), and that the line
of an expected log is read as in an undisturbed file (`Taken`; the lemmas about
`Reading` serve both theorems). Since only one line begins with the first
character of a log, only one shows its values (`AllFollowed`).

Stating `Order` showed that an earlier `Interrupt` was wrong: it let a later
interrupt put its log in front of an earlier one of the same call, which no
device does. The action now appends behind the interrupts before it.

**The toolchain.** `ToolchainAssumption`: finitely many messages, every message
has a tag, sizes of 1 to 255. Tags need not be different here: what is shown is
a message of the tag. `PairInv` says what `paired` and `current` are worth: a
complete map has as many rows as the numbering has messages (`FullMap`, by a
bijection), a line of the header leads to a row of its tag (`LinesShow`) and
below the index the decoder's check lets through, and the header's id width is
that of the number of rows. With `WidthsAgree` the decoder then reads as many
bytes as were sent, and with `IdSurvives` they are the id.

`NaturalOrder` derives from the well-founded order of finite intervals that a
set of natural numbers has a least element, and induction in the form "a set
with 0 and all successors is `Nat`", and the function of a recursion over
1 .. N that goes forward; the induction theorems of the library take
an operator as a parameter, which the provers cannot instantiate.

Only model-checked: liveness (`JoinReturns`, `RunEnds`, `DecodingEnds`), which
is out of the prover's reach. Every invariant and every other property of a
run that must pass is a theorem, under the conditions the table names.

## 6. Not modelled

* Binary mode: announced in `README.md:36`, absent from the decoder.
* Values and the text `snprintf` makes of them, with its cut at 1000
  characters: the models know which characters a value is read from, and an
  unformatted value is abstract in all of them.
* Flags, width and precision of placeholders, and the XXH32 hashes of the
  tables of `ArgEncoder` (`ArgEncoder.cpp:173`): a fixed table of a few names,
  taken to have no two of one hash.
* How often seven digits of a hash collide: an assumption (`TagOf`).
* Edits during a run that change the length of a file: the write goes to old
  offsets, and what is then in the file is no longer a sequence of calls.
* `LogDecoder` in parallel, several devices on one interface: the code has
  neither. Binary compatibility between versions of the tools: there is one.
* A host of the decoder that is not little-endian.
* YAML syntax, argument parsing, printing, scripts, Docker and CMake files, the
  example project: no state that the parts above depend on.
* Compilers and flashing are external: `Build` takes what they are promised.
