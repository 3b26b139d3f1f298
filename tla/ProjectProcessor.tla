-------------------------- MODULE ProjectProcessor --------------------------
(***************************************************************************)
(* ProjectProcessor/src/ProjectProcessor.cpp: runs of the processor over a *)
(* project, between edits of a developer.  A run hands every path to the   *)
(* pool (JobPool), the workers rewrite the tags of the files in place and  *)
(* collect the messages in masterHashMap, and the main thread then numbers *)
(* the messages and writes slog/map.slog and slog/Tags.h.                  *)
(*                                                                         *)
(* A source file is the sequence of its LOG calls, each a message and a    *)
(* tag; the text around them never changes its length and is left out.     *)
(* What makes a text a LOG call is not modelled here.  Several paths may   *)
(* name one file (links): recursive_directory_iterator lists them all.     *)
(***************************************************************************)
EXTENDS Naturals, Sequences, FiniteSets

CONSTANTS Workers,      \* worker threads of a run
          Paths,        \* the paths with a matching extension
          Files,        \* the files they name
          FileOf,       \* path -> file
          Messages,     \* simplified messages (SimplifyMultilineString)
          Tags,         \* what can stand where a tag is expected
          TagOf,        \* message -> tag: GenerateTagNames
          Placeholder,  \* the tag a developer types, e.g. SLOG_unknown
          Torn,         \* a tag of which only some characters were written
          Unencodable,  \* messages with a placeholder the tables do not have
          Faults,       \* what can go wrong in a run, see FaultKinds
          MaxCalls,     \* bound: LOG calls in a file
          None

FaultKinds == {"open", "write", "map", "header", "crash", "edit"}

(* TagOf is a 64-bit hash cut to 7 digits of base 63.  That it separates   *)
(* the messages of a project is an assumption, not something code checks.  *)
ASSUME ProjectAssumption ==
  /\ IsFiniteSet(Paths) /\ IsFiniteSet(Messages)
  /\ FileOf \in [Paths -> Files] /\ Files = {FileOf[p] : p \in Paths}
  /\ TagOf \in [Messages -> Tags]
  /\ \A m, n \in Messages : TagOf[m] = TagOf[n] => m = n
  /\ {Placeholder, Torn} \subseteq Tags
  /\ \A m \in Messages : TagOf[m] \notin {Placeholder, Torn}
  /\ Unencodable \subseteq Messages
  /\ Faults \subseteq FaultKinds
  /\ None \notin Paths /\ \A S \in SUBSET Messages : None \notin [S -> Nat]
  /\ MaxCalls \in Nat

VARIABLES
  src,            \* the source files on disk
  map,            \* slog/map.slog: id -> message
  header,         \* slog/Tags.h: tag -> id
  phase,          \* where the main thread is in ProcessProject
  status,         \* what the last run returned, or that it died
  errorCnt,       \* files not processed in this run
  edited,         \* history: a source was edited during this run
  masterHashMap,  \* the messages collected in this run
  stagId,         \* message -> id, after AssignIDs
  pending, queue, job, finished, joined,   \* the pool
  wpc,            \* where each worker is in ProcessFile
  text,           \* fileContentStr of each worker
  written         \* how many calls of text reached the disk

disk    == <<src, map, header>>
pool    == <<pending, queue, job, finished, joined>>
worker  == <<wpc, text, written>>
result  == <<status, errorCnt, edited>>
collect == <<masterHashMap, stagId>>
vars    == <<disk, phase, result, collect, pool, worker>>

Pool == INSTANCE JobPool WITH Jobs <- Paths

(* The numbering of the run, once it is made.                              *)
Run == INSTANCE Project WITH ids <- IF phase \in {"map", "header"} THEN stagId ELSE None

Call      == [msg : Messages, tag : Tags]
EmptyFile == <<>>          \* also the empty map and the empty header

Idle == [w \in Workers |-> "idle"]

MessagesIn(calls) == {calls[k].msg : k \in DOMAIN calls}

(* Mutation: every call gets the tag of the first message.                 *)
Retagged_First(calls) ==
  [k \in DOMAIN calls |-> [calls[k] EXCEPT !.tag = TagOf[calls[1].msg]]]

(* GenerateTagNames and ReplaceTags.                                       *)
Retagged(calls) ==
  [k \in DOMAIN calls |-> [calls[k] EXCEPT !.tag = TagOf[calls[k].msg]]]

Init ==
  /\ src = [f \in Files |-> <<>>]
  /\ map = EmptyFile /\ header = EmptyFile
  /\ phase = "off" /\ status = "none" /\ errorCnt = 0 /\ edited = FALSE
  /\ masterHashMap = {} /\ stagId = <<>>
  /\ Pool!Init
  /\ wpc = Idle
  /\ text = [w \in Workers |-> <<>>]
  /\ written = [w \in Workers |-> 0]

-----------------------------------------------------------------------------
(* The developer.  A changed message keeps its old tag.  Calls are added   *)
(* between runs; a message may also be changed, to one of the same length, *)
(* while the file is read, processed and written back.                     *)

AddLog(f, m) ==
  /\ phase = "off"
  /\ Len(src[f]) < MaxCalls
  /\ src' = [src EXCEPT ![f] = Append(@, [msg |-> m, tag |-> Placeholder])]
  /\ UNCHANGED <<map, header, phase, result, collect, pool, worker>>

ChangeMessage(f, k, m) ==
  /\ phase = "off" \/ "edit" \in Faults
  /\ src' = [src EXCEPT ![f][k].msg = m]
  /\ edited' = (edited \/ phase # "off")
  /\ UNCHANGED <<map, header, phase, status, errorCnt, collect, pool, worker>>

-----------------------------------------------------------------------------
(* ProcessProject.                                                         *)

RefusalStatuses == {"WrongProjectPath", "InvalidConfiguration", "EmptyProjectDirectory"}

(* The early returns: nothing was touched yet.                             *)
Refuse(s) ==
  /\ phase = "off"
  /\ status' = s
  /\ UNCHANGED <<disk, phase, errorCnt, edited, collect, pool, worker>>

(* Mutation: the errors of the previous run are still counted.             *)
Start_KeepErrors ==
  /\ phase = "off"
  /\ phase' = "pool"
  /\ status' = "none" /\ edited' = FALSE
  /\ masterHashMap' = {} /\ stagId' = <<>>
  /\ pending' = Paths /\ queue' = <<>> /\ finished' = {} /\ joined' = FALSE
  /\ UNCHANGED <<disk, errorCnt, job, worker>>

(* A new process: every member of ProjectProcessor is fresh.               *)
Start ==
  /\ phase = "off"
  /\ phase' = "pool"
  /\ status' = "none" /\ errorCnt' = 0 /\ edited' = FALSE
  /\ masterHashMap' = {} /\ stagId' = <<>>
  /\ pending' = Paths /\ queue' = <<>> /\ finished' = {} /\ joined' = FALSE
  /\ UNCHANGED <<disk, job, worker>>

AddJob(p) ==
  /\ phase = "pool"
  /\ Pool!AddJob(p)
  /\ UNCHANGED <<disk, phase, result, collect, worker>>

-----------------------------------------------------------------------------
(* ProcessFile, run by the workers of the pool.                            *)

Take(w) ==
  /\ wpc[w] = "idle"
  /\ Pool!Take(w)
  /\ wpc' = [wpc EXCEPT ![w] = "open"]
  /\ UNCHANGED <<disk, phase, result, collect, text, written>>

(* The lambda around ProcessFile counts what it returns.                   *)
OpenFails(w) ==
  /\ wpc[w] = "open"
  /\ "open" \in Faults
  /\ errorCnt' = errorCnt + 1
  /\ wpc' = [wpc EXCEPT ![w] = "return"]
  /\ UNCHANGED <<disk, phase, status, edited, collect, pool, text, written>>

(* The whole content is read.  Tags seen here do not matter to what is     *)
(* done next, so a read that overlaps the write of another worker through  *)
(* another path is as good as a read before it.                            *)
Load(w) ==
  LET calls == src[FileOf[job[w]]]
  IN  /\ wpc[w] = "open"
      /\ MessagesIn(calls) \cap Unencodable = {}
      /\ text' = [text EXCEPT ![w] = Retagged(calls)]
      /\ written' = [written EXCEPT ![w] = 0]
      /\ wpc' = [wpc EXCEPT ![w] = IF calls = <<>> THEN "return" ELSE "append"]
      /\ UNCHANGED <<disk, phase, result, collect, pool>>

(* Mutation: the file's messages replace those collected so far.           *)
AppendToMasterHashMap_Overwrite(w) ==
  /\ wpc[w] = "append"
  /\ masterHashMap' = MessagesIn(text[w])
  /\ wpc' = [wpc EXCEPT ![w] = "write"]
  /\ UNCHANGED <<disk, phase, result, stagId, pool, text, written>>

(* Under mhmMutex.                                                         *)
AppendToMasterHashMap(w) ==
  /\ wpc[w] = "append"
  /\ masterHashMap' = masterHashMap \cup MessagesIn(text[w])
  /\ wpc' = [wpc EXCEPT ![w] = "write"]
  /\ UNCHANGED <<disk, phase, result, stagId, pool, text, written>>

(* Mutation: the write skips the last call of the text.                    *)
WriteCall_Short(w) ==
  /\ wpc[w] = "write"
  /\ written[w] + 1 < Len(text[w])
  /\ written' = [written EXCEPT ![w] = @ + 1]
  /\ src' = [src EXCEPT ![FileOf[job[w]]][written[w] + 1] = text[w][written[w] + 1]]
  /\ UNCHANGED <<map, header, phase, result, collect, pool, wpc, text>>

(* The text goes back over the same bytes, not atomically: another path's  *)
(* worker, or a crash, can see any prefix of it.                           *)
WriteCall(w) ==
  /\ wpc[w] = "write"
  /\ written[w] < Len(text[w])
  /\ written' = [written EXCEPT ![w] = @ + 1]
  /\ src' = [src EXCEPT ![FileOf[job[w]]][written[w] + 1] = text[w][written[w] + 1]]
  /\ UNCHANGED <<map, header, phase, result, collect, pool, wpc, text>>

(* A stream that fails does not throw, so the handler in ProcessFile never *)
(* runs and the result is OK.                                              *)
WriteFails(w) ==
  /\ wpc[w] = "write"
  /\ "write" \in Faults
  /\ written[w] < Len(text[w])
  /\ wpc' = [wpc EXCEPT ![w] = "return"]
  /\ UNCHANGED <<disk, phase, result, collect, pool, text, written>>

Close(w) ==
  /\ wpc[w] = "write"
  /\ written[w] = Len(text[w])
  /\ wpc' = [wpc EXCEPT ![w] = "return"]
  /\ UNCHANGED <<disk, phase, result, collect, pool, text, written>>

Return(w) ==
  /\ wpc[w] = "return"
  /\ Pool!Finish(w)
  /\ wpc' = [wpc EXCEPT ![w] = "idle"]
  /\ text' = [text EXCEPT ![w] = <<>>]
  /\ written' = [written EXCEPT ![w] = 0]
  /\ UNCHANGED <<disk, phase, result, collect>>

-----------------------------------------------------------------------------
(* After the pool: AssignIDs, UnifyArgumentTags, the map and the header.   *)

(* Mutation: ids are not advanced.                                         *)
Numberings_Same(S) == {[m \in S |-> 1]}

(* Every way to number the messages 1 .. N: masterHashMap is unordered, so *)
(* the order depends on the hash and on which worker came first.           *)
Numberings(S) ==
  {f \in [S -> 1 .. Cardinality(S)] : \A m, n \in S : f[m] = f[n] => m = n}

(* JoinAll returns; the messages get their ids.                            *)
AssignIDs ==
  /\ phase = "pool"
  /\ Pool!JoinAll
  /\ stagId' \in Numberings(masterHashMap)
  /\ phase' = "map"
  /\ UNCHANGED <<disk, result, masterHashMap, worker>>

(* id -> message; UnifyArgumentTags keeps one message per key.             *)
MapRows == [i \in {stagId[m] : m \in masterHashMap} |->
              CHOOSE m \in masterHashMap : stagId[m] = i]

(* tag -> id.                                                              *)
HeaderLines == [t \in {TagOf[m] : m \in masterHashMap} |->
                  stagId[CHOOSE m \in masterHashMap : TagOf[m] = t]]

GenerateMapFile ==
  /\ phase = "map"
  /\ map' = MapRows
  /\ phase' = "header"
  /\ UNCHANGED <<src, header, result, collect, pool, worker>>

(* The directory or the stream cannot be opened; ProcessProject drops the  *)
(* status, when there is one, and goes on.                                 *)
MapFileFails ==
  /\ phase = "map"
  /\ "map" \in Faults
  /\ phase' = "header"
  /\ UNCHANGED <<disk, result, collect, pool, worker>>

(* The process ends: its members are gone, only the disk remains.          *)
Leave(s) ==
  /\ phase' = "off" /\ status' = s
  /\ masterHashMap' = {} /\ stagId' = <<>>
  /\ pending' = Paths /\ queue' = <<>> /\ finished' = {} /\ joined' = FALSE
  /\ job' = [w \in Workers |-> None]
  /\ wpc' = Idle
  /\ text' = [w \in Workers |-> <<>>]
  /\ written' = [w \in Workers |-> 0]

GenerateHeaderFile ==
  /\ phase = "header"
  /\ header' = HeaderLines
  /\ Leave("OK")
  /\ UNCHANGED <<src, map, errorCnt, edited>>

HeaderFileFails ==
  /\ phase = "header"
  /\ "header" \in Faults
  /\ Leave("OK")
  /\ UNCHANGED <<disk, errorCnt, edited>>

-----------------------------------------------------------------------------
(* The process dies.                                                       *)

(* The tag being written may be left half old, half new; it still matches  *)
(* the log pattern.                                                        *)
Writing == {w \in Workers : wpc[w] = "write" /\ written[w] < Len(text[w])}

Tear(W) ==
  [f \in Files |-> [k \in DOMAIN src[f] |->
     IF \E w \in W : /\ FileOf[job[w]] = f
                     /\ written[w] + 1 = k
                     /\ text[w][k].tag # src[f][k].tag
     THEN [src[f][k] EXCEPT !.tag = Torn]
     ELSE src[f][k]]]

(* GetByteSize calls exit(1) in a worker, whatever the others are doing.   *)
ExitInWorker(w) ==
  /\ wpc[w] = "open"
  /\ MessagesIn(src[FileOf[job[w]]]) \cap Unencodable # {}
  /\ \E W \in SUBSET Writing : src' = Tear(W)
  /\ Leave("exit")
  /\ UNCHANGED <<map, header, errorCnt, edited>>

(* A file that was truncated and then written up to the k-th message.      *)
FirstRows(k)  == [i \in DOMAIN MapRows \cap 1 .. k |-> MapRows[i]]
FirstLines(k) == [t \in {u \in DOMAIN HeaderLines : HeaderLines[u] <= k} |->
                    HeaderLines[t]]
Cuts == 0 .. Cardinality(masterHashMap)

(* Killed, at any point.                                                   *)
Crash ==
  /\ phase # "off"
  /\ "crash" \in Faults
  /\ \E W \in SUBSET Writing : src' = Tear(W)
  /\ \/ UNCHANGED <<map, header>>
     \/ phase = "map" /\ UNCHANGED header /\ \E k \in Cuts : map' = FirstRows(k)
     \/ phase = "header" /\ UNCHANGED map /\ \E k \in Cuts : header' = FirstLines(k)
  /\ Leave("crash")
  /\ UNCHANGED <<errorCnt, edited>>

-----------------------------------------------------------------------------
Developer ==
  \/ \E f \in Files, m \in Messages : AddLog(f, m)
  \/ \E f \in Files, m \in Messages : \E k \in DOMAIN src[f] : ChangeMessage(f, k, m)

MainThread ==
  \/ \E p \in Paths : AddJob(p)
  \/ AssignIDs \/ GenerateMapFile \/ GenerateHeaderFile

WorkerStep(w) ==
  \/ Take(w) \/ Load(w) \/ AppendToMasterHashMap(w)
  \/ WriteCall(w) \/ Close(w) \/ Return(w) \/ ExitInWorker(w)

Fault ==
  \/ \E w \in Workers : OpenFails(w) \/ WriteFails(w)
  \/ MapFileFails \/ HeaderFileFails \/ Crash

Next ==
  \/ Developer
  \/ \E s \in RefusalStatuses : Refuse(s)
  \/ Start
  \/ MainThread
  \/ \E w \in Workers : WorkerStep(w)
  \/ Fault

Spec == Init /\ [][Next]_vars

(* The threads of a running process are scheduled.  Nobody has to edit the *)
(* project or start a run, and no fault has to happen: none of them is     *)
(* what a run needs to come to its end.                                    *)
Fairness == WF_vars(MainThread) /\ \A w \in Workers : WF_vars(WorkerStep(w))

FairSpec == Spec /\ Fairness

-----------------------------------------------------------------------------
SeqsUpTo(S, n) == UNION {[1 .. k -> S] : k \in 0 .. n}

TypeOK ==
  /\ src \in [Files -> SeqsUpTo(Call, MaxCalls)]
  /\ DOMAIN map \subseteq Nat /\ \A i \in DOMAIN map : map[i] \in Messages
  /\ DOMAIN header \subseteq Tags /\ \A t \in DOMAIN header : header[t] \in Nat
  /\ phase \in {"off", "pool", "map", "header"}
  /\ status \in {"none", "OK", "exit", "crash"} \cup RefusalStatuses
  /\ errorCnt \in 0 .. Cardinality(Paths) /\ edited \in BOOLEAN
  /\ masterHashMap \subseteq Messages
  /\ wpc \in [Workers -> {"idle", "open", "append", "write", "return"}]
  /\ text \in [Workers -> SeqsUpTo(Call, MaxCalls)]
  /\ written \in [Workers -> 0 .. MaxCalls]

Calls == UNION {{src[f][k] : k \in DOMAIN src[f]} : f \in Files}

(* The main thread reads masterHashMap without mhmMutex after JoinAll: by  *)
(* then it holds the messages of the files that could be opened, no more,  *)
(* and every call in those files has its tag on disk, in whatever order    *)
(* the workers collected and wrote, and through whichever path.            *)
CollectedAll ==
  phase \in {"map", "header"} /\ errorCnt = 0 /\ ~edited =>
    /\ masterHashMap = {c.msg : c \in Calls}
    /\ \A c \in Calls : c.tag = TagOf[c.msg]

(* What a build needs of the disk: a LOG call has the tag of its message,  *)
(* and header and map agree on a number that means this message.           *)
Usable(call) ==
  /\ call.tag = TagOf[call.msg]
  /\ call.tag \in DOMAIN header
  /\ header[call.tag] \in DOMAIN map
  /\ map[header[call.tag]] = call.msg

ProjectUsable == \A c \in Calls : Usable(c)

RunReturnsOK == phase # "off" /\ phase' = "off" /\ status' = "OK"

(* A run that returns OK and counted no error leaves a project that can be *)
(* built and decoded, whatever earlier runs and edits left behind: torn    *)
(* tags, half a map, a new map beside an old header, an edit that an       *)
(* earlier run wrote over or did not see.                                  *)
CleanRunIsUsable ==
  [][RunReturnsOK /\ errorCnt' = 0 /\ ~edited => ProjectUsable']_vars

(* "The old tags inside LOG functions are replaced with the new generated  *)
(* tags (only when a message changed)" (README.md:84): a tag that is right *)
(* stays, through crashes and concurrent writes of the same file.          *)
RightTagStays ==
  [][\A f \in Files : \A k \in DOMAIN src[f] :
       LET before == src[f][k]
           after  == src'[f][k]
       IN  before.tag = TagOf[before.msg] /\ after.msg = before.msg
             => after.tag = before.tag]_vars

(* Whatever the workers and the failures do, a run is one of Project: it   *)
(* changes tags and never a message, and map and header come from one      *)
(* numbering of messages of the sources.                                   *)
ImplementsProject == Run!ProjectSpec

(* ProcessProject returns, or dies, once it has started.                   *)
RunEnds == phase # "off" ~> phase = "off"

-----------------------------------------------------------------------------
(* What README.md says and the code does not do.                           *)

(* README.md:85, "generates a header file with all the tags": expected of  *)
(* a run that returns OK.                                                  *)
OKMeansHeader ==
  [][RunReturnsOK => {TagOf[m] : m \in masterHashMap} \subseteq DOMAIN header']_vars

=============================================================================
