----------------------- MODULE ProjectProcessor_proofs -----------------------
(***************************************************************************)
(* Proofs about ProjectProcessor for any project and any number of         *)
(* workers: what the workers write, and what they collect.                 *)
(***************************************************************************)
EXTENDS ProjectProcessor, SequenceTheorems, TLAPS

-----------------------------------------------------------------------------
(* The values of what the workers share.                                   *)

WorkerTypes ==
  /\ job \in [Workers -> Paths \cup {None}]
  /\ wpc \in [Workers -> {"idle", "open", "append", "write", "return"}]
  /\ text \in [Workers -> Seq(Call)]
  /\ written \in [Workers -> Nat]
  /\ \A w \in Workers : wpc[w] # "idle" => job[w] \in Paths
  /\ \A w \in Workers : wpc[w] \in {"append", "write"} =>
       DOMAIN text[w] = DOMAIN src[FileOf[job[w]]]

PoolTypes ==
  /\ pending \subseteq Paths
  /\ queue \in Seq(Paths)

TypeInv ==
  /\ src \in [Files -> Seq(Call)]
  /\ WorkerTypes
  /\ PoolTypes
  /\ phase \in {"off", "pool", "map", "header"}
  /\ phase = "off" => wpc = Idle /\ queue = <<>>
  /\ errorCnt \in Nat /\ edited \in BOOLEAN

LEMMA MapSeq ==
  ASSUME NEW S, NEW n \in Nat, NEW f \in [1 .. n -> S]
  PROVE  f \in Seq(S) /\ Len(f) = n
  OBVIOUS

LEMMA RetaggedType ==
  ASSUME NEW calls \in Seq(Call)
  PROVE  /\ Retagged(calls) \in Seq(Call)
         /\ DOMAIN Retagged(calls) = DOMAIN calls
         /\ \A k \in DOMAIN calls : Retagged(calls)[k] =
              [msg |-> calls[k].msg, tag |-> TagOf[calls[k].msg]]
<1>1. calls \in [1 .. Len(calls) -> Call] /\ Len(calls) \in Nat
  BY LenProperties
<1>2. ASSUME NEW k \in DOMAIN calls
      PROVE  /\ [calls[k] EXCEPT !.tag = TagOf[calls[k].msg]] =
                [msg |-> calls[k].msg, tag |-> TagOf[calls[k].msg]]
             /\ [calls[k] EXCEPT !.tag = TagOf[calls[k].msg]] \in Call
  BY <1>1, <1>2, ProjectAssumption DEF Call
<1>3. Retagged(calls) \in [1 .. Len(calls) -> Call]
  BY <1>1, <1>2 DEF Retagged
<1> QED
  BY <1>1, <1>2, <1>3, MapSeq DEF Retagged

LEMMA FileOfPath == \A p \in Paths : FileOf[p] \in Files
  BY ProjectAssumption

(* One call of a file is replaced.                                         *)
LEMMA ReplaceCall ==
  ASSUME src \in [Files -> Seq(Call)],
         NEW f \in Files, NEW k \in DOMAIN src[f], NEW c \in Call,
         src' = [src EXCEPT ![f][k] = c]
  PROVE  /\ src' \in [Files -> Seq(Call)]
         /\ \A g \in Files : DOMAIN src'[g] = DOMAIN src[g]
         /\ \A g \in Files : \A j \in DOMAIN src[g] :
              src'[g][j] = IF g = f /\ j = k THEN c ELSE src[g][j]
<1>1. DOMAIN src[f] = 1 .. Len(src[f])
  BY LenProperties
<1>2. /\ [src[f] EXCEPT ![k] = c] \in Seq(Call)
      /\ DOMAIN [src[f] EXCEPT ![k] = c] = DOMAIN src[f]
  BY <1>1, ExceptSeq
<1>3. src' = [src EXCEPT ![f] = [src[f] EXCEPT ![k] = c]]
  OBVIOUS
<1> QED
  BY <1>2, <1>3

(* Tags are torn.                                                          *)
LEMMA TearEffect ==
  ASSUME src \in [Files -> Seq(Call)], NEW W, src' = Tear(W)
  PROVE  /\ src' \in [Files -> Seq(Call)]
         /\ \A f \in Files : DOMAIN src'[f] = DOMAIN src[f]
         /\ \A f \in Files : \A k \in DOMAIN src[f] : src'[f][k].msg = src[f][k].msg
<1> DEFINE torn(f, k) == \E w \in W : /\ FileOf[job[w]] = f
                                      /\ written[w] + 1 = k
                                      /\ text[w][k].tag # src[f][k].tag
<1>1. \A f \in Files : /\ DOMAIN src'[f] = DOMAIN src[f]
                       /\ \A k \in DOMAIN src[f] :
                            src'[f][k] = IF torn(f, k) THEN [src[f][k] EXCEPT !.tag = Torn]
                                         ELSE src[f][k]
  BY DEF Tear
<1> HIDE DEF torn
<1>2. ASSUME NEW f \in Files PROVE src'[f] \in Seq(Call)
  <2>1. /\ DOMAIN src[f] = 1 .. Len(src[f]) /\ Len(src[f]) \in Nat
        /\ \A k \in 1 .. Len(src[f]) : src[f][k] \in Call
    BY LenProperties
  <2>2. \A k \in 1 .. Len(src[f]) : src'[f][k] \in Call
    <3> SUFFICES ASSUME NEW k \in 1 .. Len(src[f]) PROVE src'[f][k] \in Call
      OBVIOUS
    <3>1. src[f][k] \in Call /\ [src[f][k] EXCEPT !.tag = Torn] \in Call
      BY <2>1, ProjectAssumption DEF Call
    <3> QED
      BY <1>1, <2>1, <3>1
  <2>3. src'[f] = [k \in DOMAIN src[f] |-> src'[f][k]]
    BY DEF Tear
  <2>4. src'[f] \in [1 .. Len(src[f]) -> Call]
    BY <2>1, <2>2, <2>3
  <2> QED
    BY <2>1, <2>4, MapSeq
<1>3. src' = [f \in Files |-> src'[f]]
  BY DEF Tear
<1>4. ASSUME NEW f \in Files, NEW k \in DOMAIN src[f]
      PROVE  src'[f][k].msg = src[f][k].msg
  <2>1. src[f][k] \in Call
    BY LenProperties
  <2> QED
    BY <1>1, <2>1 DEF Call
<1> QED
  BY <1>1, <1>2, <1>3, <1>4

LEMMA TypeInit == Init => TypeInv
<1>1. <<>> \in Seq(Call) /\ <<>> \in Seq(Paths)
  BY EmptySeq
<1>2. Init => /\ src \in [Files -> Seq(Call)] /\ text \in [Workers -> Seq(Call)]
              /\ written \in [Workers -> Nat]
  BY <1>1 DEF Init
<1>3. Init => WorkerTypes
  BY <1>2 DEF Init, WorkerTypes, Idle, Pool!Init
<1>4. Init => PoolTypes /\ queue = <<>>
  BY <1>1 DEF Init, PoolTypes, Pool!Init
<1>5. Init => phase = "off" /\ wpc = Idle /\ edited = FALSE
  BY DEF Init
<1>6. Init => errorCnt \in Nat
  BY DEF Init
<1> QED
  BY <1>2, <1>3, <1>4, <1>5, <1>6, Zenon DEF TypeInv

LEMMA TypeLeave ==
  ASSUME TypeInv, NEW s, Leave(s), src' \in [Files -> Seq(Call)], UNCHANGED <<errorCnt, edited>>
  PROVE  TypeInv'
  BY DEF TypeInv, Leave, WorkerTypes, PoolTypes, Idle

LEMMA TypeNext ==
  ASSUME TypeInv, [Next]_vars
  PROVE  TypeInv'
<1> USE DEF disk, pool, worker, result, collect
<1>1. CASE Developer
  <2>1. ASSUME NEW f \in Files, NEW m \in Messages, AddLog(f, m)
        PROVE  TypeInv'
    <3>1. [msg |-> m, tag |-> Placeholder] \in Call
      BY ProjectAssumption DEF Call
    <3>2. src' \in [Files -> Seq(Call)]
      BY <2>1, <3>1, AppendProperties DEF AddLog, TypeInv
    <3> QED
      BY <2>1, <3>2 DEF AddLog, TypeInv, WorkerTypes, PoolTypes, Idle
  <2>2. ASSUME NEW f \in Files, NEW m \in Messages, NEW k \in DOMAIN src[f],
               ChangeMessage(f, k, m)
        PROVE  TypeInv'
    <3>1. src[f][k] \in Call
      BY LenProperties DEF TypeInv
    <3>2. [src[f][k] EXCEPT !.msg = m] \in Call
      BY <3>1 DEF Call
    <3>3. src' = [src EXCEPT ![f][k] = [src[f][k] EXCEPT !.msg = m]]
      BY <2>2 DEF ChangeMessage
    <3>4. /\ src' \in [Files -> Seq(Call)]
          /\ \A g \in Files : DOMAIN src'[g] = DOMAIN src[g]
      BY <3>2, <3>3, ReplaceCall DEF TypeInv
    <3> QED
      BY <2>2, <3>4, FileOfPath DEF ChangeMessage, TypeInv, WorkerTypes, PoolTypes
  <2> QED
    BY <1>1, <2>1, <2>2 DEF Developer
<1>2. CASE \E s \in RefusalStatuses : Refuse(s)
  BY <1>2 DEF Refuse, TypeInv, WorkerTypes, PoolTypes
<1>3. CASE Start
  BY <1>3, EmptySeq DEF Start, TypeInv, WorkerTypes, PoolTypes
<1>4. CASE MainThread
  <2>1. ASSUME NEW p \in Paths, AddJob(p) PROVE TypeInv'
    <3>1. queue' \in Seq(Paths)
      BY <2>1, AppendProperties DEF AddJob, Pool!AddJob, TypeInv, PoolTypes
    <3> QED
      BY <2>1, <3>1 DEF AddJob, Pool!AddJob, TypeInv, WorkerTypes, PoolTypes
  <2>2. CASE AssignIDs
    BY <2>2 DEF AssignIDs, Pool!JoinAll, TypeInv, WorkerTypes, PoolTypes
  <2>3. CASE GenerateMapFile
    BY <2>3 DEF GenerateMapFile, TypeInv, WorkerTypes, PoolTypes
  <2>4. CASE GenerateHeaderFile
    BY <2>4, TypeLeave DEF GenerateHeaderFile, TypeInv
  <2> QED
    BY <1>4, <2>1, <2>2, <2>3, <2>4 DEF MainThread
<1>5. ASSUME NEW w \in Workers, WorkerStep(w) PROVE TypeInv'
  <2>0. wpc[w] # "idle" => phase # "off" /\ job[w] \in Paths /\ FileOf[job[w]] \in Files
    BY FileOfPath DEF TypeInv, WorkerTypes, Idle
  <2>1. CASE Take(w)
    <3>1. /\ Head(queue) \in Paths /\ queue' \in Seq(Paths)
          /\ phase # "off"
      BY <2>1, HeadTailProperties DEF Take, Pool!Take, TypeInv, PoolTypes
    <3>2. /\ wpc' = [wpc EXCEPT ![w] = "open"]
          /\ job' = [job EXCEPT ![w] = Head(queue)]
          /\ UNCHANGED <<src, text, written, pending, phase, errorCnt, edited>>
      BY <2>1 DEF Take, Pool!Take
    <3> QED
      BY <3>1, <3>2 DEF TypeInv, WorkerTypes, PoolTypes
  <2>2. CASE Load(w)
    <3>1. Retagged(src[FileOf[job[w]]]) \in Seq(Call)
      BY <2>0, <2>2, RetaggedType DEF Load, TypeInv
    <3>2. DOMAIN Retagged(src[FileOf[job[w]]]) = DOMAIN src[FileOf[job[w]]]
      BY DEF Retagged
    <3> QED
      BY <2>0, <2>2, <3>1, <3>2 DEF Load, TypeInv, WorkerTypes, PoolTypes
  <2>3. CASE AppendToMasterHashMap(w)
    BY <2>0, <2>3 DEF AppendToMasterHashMap, TypeInv, WorkerTypes, PoolTypes
  <2>4. CASE WriteCall(w)
    <3> DEFINE f == FileOf[job[w]]
               k == written[w] + 1
    <3>1. phase # "off" /\ f \in Files /\ k \in DOMAIN text[w] /\ text[w][k] \in Call
      <4>1. text[w] \in Seq(Call) /\ written[w] \in Nat
        BY DEF TypeInv, WorkerTypes
      <4>2. k \in 1 .. Len(text[w])
        BY <2>4, <4>1, LenProperties DEF WriteCall
      <4> QED
        BY <2>0, <2>4, <4>1, <4>2, LenProperties, ElementOfSeq DEF WriteCall
    <3>2. k \in DOMAIN src[f]
      BY <2>4, <3>1 DEF WriteCall, TypeInv, WorkerTypes
    <3>3. src' = [src EXCEPT ![f][k] = text[w][k]]
      BY <2>4 DEF WriteCall
    <3> HIDE DEF f, k
    <3>4. /\ src' \in [Files -> Seq(Call)]
          /\ \A g \in Files : DOMAIN src'[g] = DOMAIN src[g]
      BY <3>1, <3>2, <3>3, ReplaceCall DEF TypeInv
    <3> QED
      BY <2>4, <3>1, <3>4, FileOfPath DEF WriteCall, TypeInv, WorkerTypes, PoolTypes
  <2>5. CASE Close(w)
    BY <2>0, <2>5 DEF Close, TypeInv, WorkerTypes, PoolTypes
  <2>6. CASE Return(w)
    BY <2>0, <2>6, EmptySeq DEF Return, Pool!Finish, TypeInv, WorkerTypes, PoolTypes
  <2>7. CASE ExitInWorker(w)
    BY <2>7, TearEffect, TypeLeave DEF ExitInWorker, TypeInv
  <2> QED
    BY <1>5, <2>1, <2>2, <2>3, <2>4, <2>5, <2>6, <2>7 DEF WorkerStep
<1>6. CASE Fault
  <2>1. ASSUME NEW w \in Workers, OpenFails(w) PROVE TypeInv'
    BY <2>1 DEF OpenFails, TypeInv, WorkerTypes, PoolTypes, Idle
  <2>2. ASSUME NEW w \in Workers, WriteFails(w) PROVE TypeInv'
    BY <2>2 DEF WriteFails, TypeInv, WorkerTypes, PoolTypes, Idle
  <2>3. CASE MapFileFails
    BY <2>3 DEF MapFileFails, TypeInv, WorkerTypes, PoolTypes
  <2>4. CASE HeaderFileFails
    BY <2>4, TypeLeave DEF HeaderFileFails, TypeInv
  <2>5. CASE Crash
    BY <2>5, TearEffect, TypeLeave DEF Crash, TypeInv
  <2> QED
    BY <1>6, <2>1, <2>2, <2>3, <2>4, <2>5 DEF Fault
<1>7. CASE UNCHANGED vars
  BY <1>7 DEF vars, TypeInv, WorkerTypes, PoolTypes
<1> QED
  BY <1>1, <1>2, <1>3, <1>4, <1>5, <1>6, <1>7 DEF Next

-----------------------------------------------------------------------------
(* What is written over a file.                                            *)

RightTag(call) == call.tag = TagOf[call.msg]

(* As long as nobody edited the file since it was read, what a worker has  *)
(* in memory are the messages on disk, each with its tag.                  *)
TextInv ==
  ~edited => \A w \in Workers : wpc[w] \in {"append", "write"} =>
    \A k \in DOMAIN text[w] : /\ text[w][k].msg = src[FileOf[job[w]]][k].msg
                              /\ RightTag(text[w][k])

(* A write changes wrong tags into right ones and nothing else.            *)
LEMMA WriteEffect ==
  ASSUME TypeInv, TextInv, ~edited, NEW w \in Workers, WriteCall(w)
  PROVE  LET f == FileOf[job[w]]
             k == written[w] + 1
         IN  /\ phase # "off" /\ f \in Files
             /\ k \in 1 .. Len(text[w]) /\ k \in DOMAIN src[f] /\ RightTag(src'[f][k])
             /\ \A g \in Files : DOMAIN src'[g] = DOMAIN src[g]
             /\ \A g \in Files : \A j \in DOMAIN src[g] :
                  /\ src'[g][j].msg = src[g][j].msg
                  /\ RightTag(src[g][j]) => src'[g][j].tag = src[g][j].tag
                  /\ g # f \/ j # k => src'[g][j] = src[g][j]
<1> DEFINE f == FileOf[job[w]]
           k == written[w] + 1
<1>1. /\ wpc[w] = "write" /\ phase # "off" /\ f \in Files
      /\ text[w] \in Seq(Call) /\ written[w] \in Nat
  BY FileOfPath DEF WriteCall, TypeInv, WorkerTypes, Idle
<1>2. k \in 1 .. Len(text[w]) /\ k \in DOMAIN text[w] /\ text[w][k] \in Call
  <2>1. k \in 1 .. Len(text[w])
    BY <1>1, LenProperties DEF WriteCall
  <2> QED
    BY <1>1, <2>1, LenProperties, ElementOfSeq
<1>3. k \in DOMAIN src[f]
  BY <1>1, <1>2 DEF TypeInv, WorkerTypes
<1>4. text[w][k].msg = src[f][k].msg /\ RightTag(text[w][k])
  BY <1>1, <1>2 DEF TextInv
<1>5. src' = [src EXCEPT ![f][k] = text[w][k]]
  BY DEF WriteCall
<1> HIDE DEF f, k
<1>6. /\ \A g \in Files : DOMAIN src'[g] = DOMAIN src[g]
      /\ \A g \in Files : \A j \in DOMAIN src[g] :
           src'[g][j] = IF g = f /\ j = k THEN text[w][k] ELSE src[g][j]
  BY <1>1, <1>2, <1>3, <1>5, ReplaceCall DEF TypeInv
<1>7. RightTag(src'[f][k])
  BY <1>1, <1>3, <1>4, <1>6
<1>8. \A g \in Files : \A j \in DOMAIN src[g] :
        /\ src'[g][j].msg = src[g][j].msg
        /\ RightTag(src[g][j]) => src'[g][j].tag = src[g][j].tag
  BY <1>4, <1>6 DEF RightTag
<1> QED
  BY <1>1, <1>2, <1>3, <1>6, <1>7, <1>8 DEF f, k

LEMMA TextLeave ==
  ASSUME NEW s, Leave(s)
  PROVE  TextInv'
  BY DEF TextInv, Leave, Idle

LEMMA TextNext ==
  ASSUME TypeInv, TextInv, [Next]_vars
  PROVE  TextInv'
<1> USE DEF disk, pool, worker, result, collect
<1>1. CASE Developer
  <2>1. ASSUME NEW f \in Files, NEW m \in Messages, AddLog(f, m) PROVE TextInv'
    BY <2>1 DEF AddLog, TypeInv, TextInv, Idle
  <2>2. ASSUME NEW f \in Files, NEW m \in Messages, NEW k \in DOMAIN src[f],
               ChangeMessage(f, k, m)
        PROVE  TextInv'
    <3>1. CASE phase = "off"
      BY <2>2, <3>1 DEF ChangeMessage, TypeInv, TextInv, Idle
    <3>2. CASE phase # "off"
      BY <2>2, <3>2 DEF ChangeMessage, TextInv
    <3> QED
      BY <3>1, <3>2
  <2> QED
    BY <1>1, <2>1, <2>2 DEF Developer
<1>2. CASE \E s \in RefusalStatuses : Refuse(s)
  BY <1>2 DEF Refuse, TextInv
<1>3. CASE Start
  BY <1>3 DEF Start, TypeInv, TextInv, Idle
<1>4. CASE MainThread
  <2>1. ASSUME NEW p \in Paths, AddJob(p) PROVE TextInv'
    BY <2>1 DEF AddJob, Pool!AddJob, TextInv
  <2>2. CASE AssignIDs
    BY <2>2 DEF AssignIDs, Pool!JoinAll, TextInv
  <2>3. CASE GenerateMapFile
    BY <2>3 DEF GenerateMapFile, TextInv
  <2>4. CASE GenerateHeaderFile
    BY <2>4, TextLeave DEF GenerateHeaderFile
  <2> QED
    BY <1>4, <2>1, <2>2, <2>3, <2>4 DEF MainThread
<1>5. ASSUME NEW w \in Workers, WorkerStep(w) PROVE TextInv'
  <2>0. /\ wpc \in [Workers -> {"idle", "open", "append", "write", "return"}]
        /\ job \in [Workers -> Paths \cup {None}]
        /\ text \in [Workers -> Seq(Call)]
    BY DEF TypeInv, WorkerTypes
  <2>1. CASE Take(w)
    BY <2>0, <2>1 DEF Take, Pool!Take, TextInv
  <2>2. CASE Load(w)
    <3> DEFINE calls == src[FileOf[job[w]]]
    <3>1. FileOf[job[w]] \in Files
      BY <2>2, FileOfPath DEF Load, TypeInv, WorkerTypes
    <3>2. /\ DOMAIN Retagged(calls) = DOMAIN calls
          /\ \A k \in DOMAIN calls : Retagged(calls)[k] =
               [msg |-> calls[k].msg, tag |-> TagOf[calls[k].msg]]
      BY <3>1, RetaggedType DEF TypeInv
    <3>3. /\ text' = [text EXCEPT ![w] = Retagged(calls)]
          /\ \A v \in Workers \ {w} : wpc'[v] = wpc[v]
          /\ UNCHANGED <<src, job, edited>>
      BY <2>0, <2>2 DEF Load
    <3> HIDE DEF calls
    <3>4. ASSUME ~edited', NEW v \in Workers, wpc'[v] \in {"append", "write"},
                 NEW k \in DOMAIN text'[v]
          PROVE  /\ text'[v][k].msg = src'[FileOf[job'[v]]][k].msg
                 /\ RightTag(text'[v][k])
      <4>1. CASE v = w
        <5>1. text'[w] = Retagged(calls) /\ k \in DOMAIN calls
          BY <2>0, <3>2, <3>3, <3>4, <4>1
        <5>2. text'[w][k] = [msg |-> calls[k].msg, tag |-> TagOf[calls[k].msg]]
          BY <3>2, <5>1
        <5>3. calls = src'[FileOf[job'[w]]]
          BY <3>3 DEF calls
        <5> QED
          BY <4>1, <5>2, <5>3 DEF RightTag
      <4>2. CASE v # w
        BY <2>0, <3>3, <3>4, <4>2 DEF TextInv
      <4> QED
        BY <4>1, <4>2
    <3> QED
      BY <3>4 DEF TextInv
  <2>3. CASE AppendToMasterHashMap(w)
    BY <2>0, <2>3 DEF AppendToMasterHashMap, TextInv
  <2>4. CASE WriteCall(w)
    <3>1. SUFFICES ASSUME ~edited PROVE TextInv'
      BY <2>4 DEF WriteCall, TextInv
    <3>2. \A g \in Files : \A j \in DOMAIN src[g] : src'[g][j].msg = src[g][j].msg
      BY <2>4, <3>1, WriteEffect
    <3>3. \A v \in Workers : wpc[v] \in {"append", "write"} =>
            FileOf[job[v]] \in Files /\ DOMAIN text[v] = DOMAIN src[FileOf[job[v]]]
      BY FileOfPath DEF TypeInv, WorkerTypes
    <3>4. UNCHANGED <<wpc, text, job, edited>>
      BY <2>4 DEF WriteCall
    <3> QED
      BY <3>1, <3>2, <3>3, <3>4 DEF TextInv
  <2>5. CASE Close(w)
    BY <2>0, <2>5 DEF Close, TextInv
  <2>6. CASE Return(w)
    BY <2>0, <2>6 DEF Return, Pool!Finish, TextInv
  <2>7. CASE ExitInWorker(w)
    BY <2>7, TextLeave DEF ExitInWorker
  <2> QED
    BY <1>5, <2>1, <2>2, <2>3, <2>4, <2>5, <2>6, <2>7 DEF WorkerStep
<1>6. CASE Fault
  <2>1. ASSUME NEW w \in Workers, OpenFails(w) PROVE TextInv'
    BY <2>1 DEF OpenFails, TypeInv, WorkerTypes, TextInv
  <2>2. ASSUME NEW w \in Workers, WriteFails(w) PROVE TextInv'
    BY <2>2 DEF WriteFails, TypeInv, WorkerTypes, TextInv
  <2>3. CASE MapFileFails
    BY <2>3 DEF MapFileFails, TextInv
  <2>4. CASE HeaderFileFails
    BY <2>4, TextLeave DEF HeaderFileFails
  <2>5. CASE Crash
    BY <2>5, TextLeave DEF Crash
  <2> QED
    BY <1>6, <2>1, <2>2, <2>3, <2>4, <2>5 DEF Fault
<1>7. CASE UNCHANGED vars
  BY <1>7 DEF vars, TextInv
<1> QED
  BY <1>1, <1>2, <1>3, <1>4, <1>5, <1>6, <1>7 DEF Next

LEMMA TextInit == Init => TextInv
  BY DEF Init, TextInv, Idle

-----------------------------------------------------------------------------
(* RightTagStays.                                                          *)

(* Without edits during a run nothing tells memory from disk.              *)
UneditedInv == TypeInv /\ TextInv /\ ~edited

LEMMA UneditedNext ==
  ASSUME "edit" \notin Faults, UneditedInv, [Next]_vars
  PROVE  UneditedInv'
<1>1. ~edited'
  <2> USE DEF disk, pool, worker, result, collect, UneditedInv
  <2>1. CASE Developer
    BY <2>1 DEF Developer, AddLog, ChangeMessage
  <2>2. CASE \E s \in RefusalStatuses : Refuse(s)
    BY <2>2 DEF Refuse
  <2>3. CASE Start
    BY <2>3 DEF Start
  <2>4. CASE MainThread
    BY <2>4 DEF MainThread, AddJob, AssignIDs, GenerateMapFile, GenerateHeaderFile
  <2>5. ASSUME NEW w \in Workers, WorkerStep(w) PROVE ~edited'
    BY <2>5 DEF WorkerStep, Take, Load, AppendToMasterHashMap, WriteCall, Close, Return,
                ExitInWorker
  <2>6. CASE Fault
    BY <2>6 DEF Fault, OpenFails, WriteFails, MapFileFails, HeaderFileFails, Crash
  <2>7. CASE UNCHANGED vars
    BY <2>7 DEF vars
  <2> QED
    BY <2>1, <2>2, <2>3, <2>4, <2>5, <2>6, <2>7 DEF Next
<1> QED
  BY <1>1, TypeNext, TextNext DEF UneditedInv

TagStays(f, k) ==
  RightTag(src[f][k]) /\ src'[f][k].msg = src[f][k].msg => src'[f][k].tag = src[f][k].tag

(* Only a tag that is about to change can be torn.                         *)
LEMMA TearStays ==
  ASSUME UneditedInv, NEW W \in SUBSET Writing, src' = Tear(W),
         NEW f \in Files, NEW k \in DOMAIN src[f]
  PROVE  TagStays(f, k)
<1>1. SUFFICES ASSUME RightTag(src[f][k])
               PROVE  ~\E w \in W : /\ FileOf[job[w]] = f
                                    /\ written[w] + 1 = k
                                    /\ text[w][k].tag # src[f][k].tag
  BY DEF Tear, TagStays
<1>2. SUFFICES ASSUME NEW w \in W, FileOf[job[w]] = f, written[w] + 1 = k
               PROVE  text[w][k].tag = src[f][k].tag
  OBVIOUS
<1>3. wpc[w] = "write" /\ w \in Workers
  BY DEF Writing
<1>4. k \in DOMAIN text[w]
  BY <1>2, <1>3 DEF UneditedInv, TypeInv, WorkerTypes
<1>5. text[w][k].msg = src[f][k].msg /\ RightTag(text[w][k])
  BY <1>2, <1>3, <1>4 DEF UneditedInv, TextInv
<1> QED
  BY <1>1, <1>5 DEF RightTag

LEMMA TagsStay ==
  ASSUME UneditedInv, [Next]_vars, NEW f \in Files, NEW k \in DOMAIN src[f]
  PROVE  TagStays(f, k)
<1>0. src[f] \in Seq(Call) /\ DOMAIN src[f] = 1 .. Len(src[f])
  BY LenProperties DEF UneditedInv, TypeInv
<1>1. CASE src' = src
  BY <1>1 DEF TagStays
<1>2. CASE \E g \in Files, m \in Messages : AddLog(g, m)
  <2>1. PICK g \in Files, m \in Messages : AddLog(g, m)
    BY <1>2
  <2> DEFINE c == [msg |-> m, tag |-> Placeholder]
  <2>2. c \in Call
    BY ProjectAssumption DEF Call
  <2>3. Append(src[f], c)[k] = src[f][k]
    BY <1>0, <2>2, AppendProperties
  <2>4. src' = [src EXCEPT ![g] = Append(@, c)] /\ src \in [Files -> Seq(Call)]
    BY <2>1 DEF AddLog, UneditedInv, TypeInv
  <2> HIDE DEF c
  <2>5. src'[f][k] = src[f][k]
    BY <2>3, <2>4
  <2> QED
    BY <2>5 DEF TagStays
<1>3. CASE \E g \in Files, m \in Messages : \E j \in DOMAIN src[g] : ChangeMessage(g, j, m)
  <2>0. PICK g \in Files, m \in Messages : \E j \in DOMAIN src[g] : ChangeMessage(g, j, m)
    BY <1>3
  <2>1. PICK j \in DOMAIN src[g] : ChangeMessage(g, j, m)
    BY <2>0
  <2> DEFINE c == [src[g][j] EXCEPT !.msg = m]
  <2>2. src[g][j] \in Call
    BY LenProperties DEF UneditedInv, TypeInv
  <2>3. c \in Call /\ c.tag = src[g][j].tag
    BY <2>2 DEF Call
  <2>4. src' = [src EXCEPT ![g][j] = c]
    BY <2>1 DEF ChangeMessage
  <2> HIDE DEF c
  <2>5. src'[f][k] = IF f = g /\ k = j THEN c ELSE src[f][k]
    BY <2>3, <2>4, ReplaceCall DEF UneditedInv, TypeInv
  <2> QED
    BY <2>3, <2>5 DEF TagStays
<1>4. CASE \E w \in Workers : WriteCall(w)
  BY <1>4, WriteEffect DEF UneditedInv, TagStays
<1>5. CASE \E W \in SUBSET Writing : src' = Tear(W)
  BY <1>5, TearStays
<1>6. \/ src' = src
      \/ \E g \in Files, m \in Messages : AddLog(g, m)
      \/ \E g \in Files, m \in Messages : \E j \in DOMAIN src[g] : ChangeMessage(g, j, m)
      \/ \E w \in Workers : WriteCall(w)
      \/ \E W \in SUBSET Writing : src' = Tear(W)
  <2> USE DEF disk
  <2>1. CASE Developer
    BY <2>1 DEF Developer
  <2>2. CASE \E s \in RefusalStatuses : Refuse(s)
    BY <2>2 DEF Refuse
  <2>3. CASE Start
    BY <2>3 DEF Start
  <2>4. CASE MainThread
    BY <2>4 DEF MainThread, AddJob, AssignIDs, GenerateMapFile, GenerateHeaderFile
  <2>5. ASSUME NEW w \in Workers, WorkerStep(w), ~WriteCall(w)
        PROVE  src' = src \/ \E W \in SUBSET Writing : src' = Tear(W)
    BY <2>5 DEF WorkerStep, Take, Load, AppendToMasterHashMap, Close, Return, ExitInWorker
  <2>6. CASE Fault
    BY <2>6 DEF Fault, OpenFails, WriteFails, MapFileFails, HeaderFileFails, Crash
  <2>7. CASE UNCHANGED vars
    BY <2>7 DEF vars
  <2> QED
    BY <2>1, <2>2, <2>3, <2>4, <2>5, <2>6, <2>7 DEF Next
<1> QED
  BY <1>1, <1>2, <1>3, <1>4, <1>5, <1>6

(* If nobody edits a file while a run is going, a tag that is right stays, *)
(* whatever paths name the file, whoever writes it and whatever fails.     *)
THEOREM RightTagsStay ==
  ASSUME "edit" \notin Faults
  PROVE  Spec => RightTagStays
<1>1. Init => UneditedInv
  BY TypeInit, TextInit DEF UneditedInv, Init
<1>2. UneditedInv /\ [Next]_vars => UneditedInv'
  BY UneditedNext
<1>3. UneditedInv /\ [Next]_vars =>
        [\A f \in Files : \A k \in DOMAIN src[f] :
           LET before == src[f][k]
               after  == src'[f][k]
           IN  before.tag = TagOf[before.msg] /\ after.msg = before.msg
                 => after.tag = before.tag]_vars
  BY TagsStay DEF TagStays, RightTag
<1> QED
  BY <1>1, <1>2, <1>3, PTL DEF Spec, RightTagStays

-----------------------------------------------------------------------------
(* CollectedAll.                                                           *)

(* A file is done: its messages are collected, its tags on disk.           *)
Complete(f) ==
  \A k \in DOMAIN src[f] : src[f][k].msg \in masterHashMap /\ RightTag(src[f][k])

(* A worker has collected the messages and written some of the tags.       *)
Half(w) ==
  LET f == FileOf[job[w]]
  IN  \A k \in DOMAIN src[f] : /\ src[f][k].msg \in masterHashMap
                               /\ k <= written[w] => RightTag(src[f][k])

FromSources == \A m \in masterHashMap : \E f \in Files : \E k \in DOMAIN src[f] : src[f][k].msg = m

Progress(w) ==
  /\ wpc[w] = "append" => written[w] = 0
  /\ wpc[w] = "write"  => Half(w)
  /\ wpc[w] = "return" => Complete(FileOf[job[w]])

CollectInv ==
  phase # "off" /\ errorCnt = 0 /\ ~edited =>
    /\ FromSources
    /\ \A w \in Workers : Progress(w)
    /\ \A p \in finished : p \in Paths => Complete(FileOf[p])
    /\ phase \in {"map", "header"} => finished = Paths

(* Messages stay, right tags stay, and nothing collected is lost.          *)
Grows ==
  /\ \A f \in Files : DOMAIN src'[f] = DOMAIN src[f]
  /\ \A f \in Files : \A k \in DOMAIN src[f] :
       /\ src'[f][k].msg = src[f][k].msg
       /\ RightTag(src[f][k]) => RightTag(src'[f][k])
  /\ masterHashMap \subseteq masterHashMap'

LEMMA StaysComplete ==
  ASSUME Grows, NEW f \in Files, Complete(f)
  PROVE  Complete(f)'
  BY DEF Grows, Complete, RightTag

LEMMA StaysInProgress ==
  ASSUME TypeInv, Grows, NEW w \in Workers, Progress(w),
         wpc'[w] = wpc[w], job'[w] = job[w], written'[w] = written[w]
  PROVE  Progress(w)'
<1>1. CASE wpc[w] \in {"idle", "open", "append"}
  BY <1>1 DEF Progress
<1>2. CASE wpc[w] \in {"write", "return"}
  <2>1. FileOf[job[w]] \in Files
    BY <1>2, FileOfPath DEF TypeInv, WorkerTypes
  <2> QED
    BY <1>2, <2>1, StaysComplete DEF Progress, Half, Grows, RightTag
<1> QED
  BY <1>1, <1>2 DEF TypeInv, WorkerTypes

LEMMA CollectSame ==
  ASSUME TypeInv, CollectInv, UNCHANGED <<src, masterHashMap, errorCnt, edited, finished>>,
         UNCHANGED <<wpc, job, written>>, phase # "off",
         phase' = phase \/ phase' = "off" \/ finished = Paths
  PROVE  CollectInv'
  BY DEF CollectInv, FromSources, Progress, Half, Complete, RightTag

(* What holds when worker w alone did something.                           *)
LEMMA CollectStep ==
  ASSUME TypeInv, CollectInv, Grows, UNCHANGED <<phase, errorCnt, edited>>,
         errorCnt = 0, ~edited, phase # "off",
         NEW w \in Workers,
         \A v \in Workers \ {w} : wpc'[v] = wpc[v] /\ job'[v] = job[v] /\ written'[v] = written[v],
         finished' = finished \/ (phase = "pool" \/ finished' \subseteq Paths),
         finished \subseteq finished',
         \A p \in finished' \ finished : p \in Paths => Complete(FileOf[p]),
         FromSources', Progress(w)'
  PROVE  CollectInv'
<1>1. \A v \in Workers : Progress(v)'
  <2> SUFFICES ASSUME NEW v \in Workers \ {w} PROVE Progress(v)'
    OBVIOUS
  <2> QED
    BY StaysInProgress DEF CollectInv
<1>2. \A p \in finished' : p \in Paths => Complete(FileOf[p])'
  BY FileOfPath, StaysComplete DEF CollectInv
<1>3. phase' \in {"map", "header"} => finished' = Paths
  BY DEF CollectInv
<1> QED
  BY <1>1, <1>2, <1>3 DEF CollectInv

LEMMA CollectWorker ==
  ASSUME "write" \notin Faults, TypeInv, TextInv, CollectInv, errorCnt = 0, ~edited,
         NEW w \in Workers, WorkerStep(w)
  PROVE  CollectInv'
<1> USE DEF disk, pool, worker, result, collect
<1>0. /\ wpc \in [Workers -> {"idle", "open", "append", "write", "return"}]
      /\ job \in [Workers -> Paths \cup {None}]
      /\ written \in [Workers -> Nat]
      /\ phase = "off" => wpc = Idle /\ queue = <<>>
      /\ wpc[w] # "idle" => job[w] \in Paths /\ FileOf[job[w]] \in Files
  BY FileOfPath DEF TypeInv, WorkerTypes
<1>1. wpc[w] # "idle" => phase # "off"
  BY <1>0 DEF Idle
<1>2. phase # "off" => FromSources /\ Progress(w)
  BY DEF CollectInv
<1>3. CASE Take(w)
  <2>1. phase # "off" /\ UNCHANGED <<src, masterHashMap, finished, phase, errorCnt, edited>>
    BY <1>0, <1>3 DEF Take, Pool!Take
  <2>2. /\ \A v \in Workers \ {w} : wpc'[v] = wpc[v] /\ job'[v] = job[v] /\ written'[v] = written[v]
        /\ wpc'[w] = "open"
    BY <1>0, <1>3 DEF Take, Pool!Take
  <2>3. Grows /\ FromSources'
    BY <1>2, <2>1 DEF Grows, FromSources, RightTag
  <2>4. Progress(w)'
    BY <2>2 DEF Progress
  <2> QED
    BY <2>1, <2>2, <2>3, <2>4, CollectStep
<1>4. CASE Load(w)
  <2>1. phase # "off" /\ UNCHANGED <<src, masterHashMap, finished, phase, errorCnt, edited, job>>
    BY <1>1, <1>4 DEF Load
  <2>2. /\ \A v \in Workers \ {w} : wpc'[v] = wpc[v] /\ job'[v] = job[v] /\ written'[v] = written[v]
        /\ wpc'[w] = IF src[FileOf[job[w]]] = <<>> THEN "return" ELSE "append"
        /\ written'[w] = 0
    BY <1>0, <1>4 DEF Load
  <2>3. Grows /\ FromSources'
    BY <1>2, <2>1 DEF Grows, FromSources, RightTag
  <2>4. src[FileOf[job[w]]] = <<>> => Complete(FileOf[job[w]])'
    BY <2>1 DEF Complete
  <2>5. Progress(w)'
    BY <2>1, <2>2, <2>4 DEF Progress
  <2> QED
    BY <2>1, <2>2, <2>3, <2>5, CollectStep
<1>5. CASE AppendToMasterHashMap(w)
  <2> DEFINE f == FileOf[job[w]]
  <2>1. /\ phase # "off" /\ wpc[w] = "append"
        /\ UNCHANGED <<src, finished, phase, errorCnt, edited, job, written>>
        /\ masterHashMap' = masterHashMap \cup MessagesIn(text[w])
    BY <1>1, <1>5 DEF AppendToMasterHashMap
  <2>2. /\ \A v \in Workers \ {w} : wpc'[v] = wpc[v] /\ job'[v] = job[v] /\ written'[v] = written[v]
        /\ wpc'[w] = "write"
    BY <1>0, <2>1, <1>5 DEF AppendToMasterHashMap
  <2>3. f \in Files /\ DOMAIN text[w] = DOMAIN src[f]
    BY <1>0, <2>1 DEF TypeInv, WorkerTypes
  <2>4. \A k \in DOMAIN src[f] : text[w][k].msg = src[f][k].msg
    BY <2>1, <2>3 DEF TextInv
  <2>5. MessagesIn(text[w]) = {src[f][k].msg : k \in DOMAIN src[f]}
    BY <2>3, <2>4 DEF MessagesIn
  <2>6. Grows /\ FromSources'
    BY <1>2, <2>1, <2>3, <2>5 DEF Grows, FromSources, RightTag
  <2>7. written[w] = 0
    BY <1>2, <2>1 DEF Progress
  <2>8. DOMAIN src[f] = 1 .. Len(src[f]) /\ Len(src[f]) \in Nat
    BY <2>3, LenProperties DEF TypeInv
  <2>9. Half(w)'
    BY <2>1, <2>5, <2>7, <2>8 DEF Half
  <2> QED
    BY <2>1, <2>2, <2>6, <2>9, CollectStep DEF Progress
<1>6. CASE WriteCall(w)
  <2> DEFINE f == FileOf[job[w]]
             k == written[w] + 1
  <2>1. /\ phase # "off" /\ f \in Files
        /\ k \in DOMAIN src[f] /\ RightTag(src'[f][k])
        /\ \A g \in Files : DOMAIN src'[g] = DOMAIN src[g]
        /\ \A g \in Files : \A j \in DOMAIN src[g] :
             /\ src'[g][j].msg = src[g][j].msg
             /\ RightTag(src[g][j]) => src'[g][j].tag = src[g][j].tag
    BY <1>6, WriteEffect
  <2>2. /\ wpc[w] = "write"
        /\ UNCHANGED <<wpc, job, masterHashMap, finished, phase, errorCnt, edited>>
        /\ \A v \in Workers \ {w} : written'[v] = written[v]
        /\ written'[w] = written[w] + 1
    BY <1>0, <1>6 DEF WriteCall
  <2>3. Grows /\ FromSources'
    BY <1>2, <2>1, <2>2 DEF Grows, FromSources, RightTag
  <2>4. Half(w)
    BY <1>2, <2>1, <2>2 DEF Progress
  <2>5. DOMAIN src[f] = 1 .. Len(src[f]) /\ Len(src[f]) \in Nat /\ written[w] \in Nat
    BY <1>0, <2>1, LenProperties DEF TypeInv
  <2>6. Half(w)'
    <3> SUFFICES ASSUME NEW j \in DOMAIN src[f]
                 PROVE  /\ src'[f][j].msg \in masterHashMap
                        /\ j <= written[w] + 1 => RightTag(src'[f][j])
      BY <2>1, <2>2 DEF Half
    <3>1. src'[f][j].msg \in masterHashMap
      BY <2>1, <2>4 DEF Half
    <3>2. CASE j = k
      BY <2>1, <3>1, <3>2
    <3>3. CASE j # k
      <4>1. j <= written[w] + 1 => j <= written[w]
        BY <2>5, <3>3
      <4> QED
        BY <2>1, <2>4, <3>1, <4>1 DEF Half, RightTag
    <3> QED
      BY <3>2, <3>3
  <2> QED
    BY <2>1, <2>2, <2>3, <2>6, CollectStep DEF Progress
<1>7. CASE Close(w)
  <2> DEFINE f == FileOf[job[w]]
  <2>1. /\ phase # "off" /\ wpc[w] = "write" /\ written[w] = Len(text[w])
        /\ UNCHANGED <<src, masterHashMap, finished, phase, errorCnt, edited, job, written>>
    BY <1>1, <1>7 DEF Close
  <2>2. /\ \A v \in Workers \ {w} : wpc'[v] = wpc[v] /\ job'[v] = job[v] /\ written'[v] = written[v]
        /\ wpc'[w] = "return"
    BY <1>0, <2>1, <1>7 DEF Close
  <2>3. Grows /\ FromSources'
    BY <1>2, <2>1 DEF Grows, FromSources, RightTag
  <2>4. \A k \in DOMAIN src[f] : k <= written[w]
    <3>1. DOMAIN src[f] = DOMAIN text[w] /\ text[w] \in Seq(Call)
      BY <2>1 DEF TypeInv, WorkerTypes
    <3>2. DOMAIN text[w] = 1 .. Len(text[w]) /\ Len(text[w]) \in Nat
      BY <3>1, LenProperties
    <3> QED
      BY <2>1, <3>1, <3>2
  <2>5. Complete(f)'
    BY <1>2, <2>1, <2>4 DEF Complete, Progress, Half, RightTag
  <2> QED
    BY <2>1, <2>2, <2>3, <2>5, CollectStep DEF Progress
<1>8. CASE Return(w)
  <2>1. /\ phase # "off" /\ wpc[w] = "return" /\ job[w] \in Paths
        /\ finished' = finished \cup {job[w]}
        /\ UNCHANGED <<src, masterHashMap, phase, errorCnt, edited>>
    BY <1>0, <1>1, <1>8 DEF Return, Pool!Finish
  <2>2. /\ \A v \in Workers \ {w} : wpc'[v] = wpc[v] /\ job'[v] = job[v] /\ written'[v] = written[v]
        /\ wpc'[w] = "idle"
    BY <1>0, <1>8 DEF Return, Pool!Finish
  <2>3. Grows /\ FromSources'
    BY <1>2, <2>1 DEF Grows, FromSources, RightTag
  <2>4. Complete(FileOf[job[w]])
    BY <1>2, <2>1 DEF Progress
  <2>5. phase = "pool" \/ finished' \subseteq Paths
    BY <2>1 DEF CollectInv, TypeInv
  <2>6. Progress(w)'
    BY <2>2 DEF Progress
  <2> QED
    BY <2>1, <2>2, <2>3, <2>4, <2>5, <2>6, CollectStep
<1>9. CASE ExitInWorker(w)
  BY <1>9 DEF ExitInWorker, Leave, CollectInv
<1> QED
  BY <1>3, <1>4, <1>5, <1>6, <1>7, <1>8, <1>9 DEF WorkerStep

LEMMA CollectNext ==
  ASSUME "write" \notin Faults, TypeInv, TextInv, CollectInv, [Next]_vars
  PROVE  CollectInv'
<1> USE DEF disk, pool, worker, result, collect
<1>1. CASE Developer
  <2>1. ASSUME NEW f \in Files, NEW m \in Messages, AddLog(f, m) PROVE CollectInv'
    BY <2>1 DEF AddLog, CollectInv
  <2>2. ASSUME NEW f \in Files, NEW m \in Messages, NEW k \in DOMAIN src[f],
               ChangeMessage(f, k, m)
        PROVE  CollectInv'
    BY <2>2 DEF ChangeMessage, CollectInv
  <2> QED
    BY <1>1, <2>1, <2>2 DEF Developer
<1>2. CASE \E s \in RefusalStatuses : Refuse(s)
  BY <1>2 DEF Refuse, CollectInv
<1>3. CASE Start
  <2>1. /\ masterHashMap' = {} /\ finished' = {} /\ phase' = "pool"
        /\ \A w \in Workers : wpc'[w] = "idle"
    BY <1>3 DEF Start, TypeInv, Idle
  <2> QED
    BY <2>1 DEF CollectInv, FromSources, Progress
<1>4. CASE MainThread
  <2>1. ASSUME NEW p \in Paths, AddJob(p) PROVE CollectInv'
    BY <2>1, CollectSame DEF AddJob, Pool!AddJob
  <2>2. CASE AssignIDs
    BY <2>2, CollectSame DEF AssignIDs, Pool!JoinAll
  <2>3. CASE GenerateMapFile
    <3>1. CASE errorCnt = 0 /\ ~edited
      BY <2>3, <3>1, CollectSame DEF GenerateMapFile, CollectInv
    <3>2. CASE ~(errorCnt = 0 /\ ~edited)
      BY <2>3, <3>2 DEF GenerateMapFile, CollectInv
    <3> QED
      BY <3>1, <3>2
  <2>4. CASE GenerateHeaderFile
    BY <2>4 DEF GenerateHeaderFile, Leave, CollectInv
  <2> QED
    BY <1>4, <2>1, <2>2, <2>3, <2>4 DEF MainThread
<1>5. ASSUME NEW w \in Workers, WorkerStep(w) PROVE CollectInv'
  <2>1. CASE errorCnt = 0 /\ ~edited
    BY <1>5, <2>1, CollectWorker
  <2>2. CASE ~(errorCnt = 0 /\ ~edited)
    <3>1. UNCHANGED <<errorCnt, edited>>
      BY <1>5 DEF WorkerStep, Take, Load, AppendToMasterHashMap, WriteCall, Close, Return,
                  ExitInWorker
    <3> QED
      BY <2>2, <3>1 DEF CollectInv
  <2> QED
    BY <2>1, <2>2
<1>6. CASE Fault
  <2>1. ASSUME NEW w \in Workers, OpenFails(w) PROVE CollectInv'
    BY <2>1 DEF OpenFails, TypeInv, CollectInv
  <2>2. ASSUME NEW w \in Workers, WriteFails(w) PROVE CollectInv'
    BY <2>2 DEF WriteFails
  <2>3. CASE MapFileFails
    <3>1. CASE errorCnt = 0 /\ ~edited
      BY <2>3, <3>1, CollectSame DEF MapFileFails, CollectInv
    <3>2. CASE ~(errorCnt = 0 /\ ~edited)
      BY <2>3, <3>2 DEF MapFileFails, CollectInv
    <3> QED
      BY <3>1, <3>2
  <2>4. CASE HeaderFileFails
    BY <2>4 DEF HeaderFileFails, Leave, CollectInv
  <2>5. CASE Crash
    BY <2>5 DEF Crash, Leave, CollectInv
  <2> QED
    BY <1>6, <2>1, <2>2, <2>3, <2>4, <2>5 DEF Fault
<1>7. CASE UNCHANGED vars
  BY <1>7 DEF vars, CollectInv, FromSources, Progress, Half, Complete, RightTag
<1> QED
  BY <1>1, <1>2, <1>3, <1>4, <1>5, <1>6, <1>7 DEF Next

LEMMA CollectedFromInv ==
  ASSUME TypeInv, CollectInv
  PROVE  CollectedAll
<1>1. SUFFICES ASSUME phase \in {"map", "header"}, errorCnt = 0, ~edited
               PROVE  /\ masterHashMap = {c.msg : c \in Calls}
                      /\ \A c \in Calls : c.tag = TagOf[c.msg]
  BY DEF CollectedAll
<1>2. FromSources /\ \A f \in Files : Complete(f)
  BY <1>1, ProjectAssumption DEF CollectInv
<1>3. \A c : c \in Calls <=> \E f \in Files : \E k \in DOMAIN src[f] : c = src[f][k]
  BY DEF Calls
<1> QED
  BY <1>2, <1>3 DEF FromSources, Complete, RightTag

(* If no write fails silently, the main thread finds in masterHashMap the  *)
(* messages of the project and no others, and all tags on disk, for any    *)
(* number of files, links and workers and whatever earlier runs left.      *)
THEOREM EverythingIsCollected ==
  ASSUME "write" \notin Faults
  PROVE  Spec => []CollectedAll
<1>1. Init => CollectInv
  BY DEF Init, CollectInv
<1>2. TypeInv /\ CollectInv => CollectedAll
  BY CollectedFromInv
<1>3. TypeInv /\ TextInv /\ CollectInv /\ [Next]_vars => (TypeInv /\ TextInv /\ CollectInv)'
  BY TypeNext, TextNext, CollectNext
<1> QED
  BY <1>1, <1>2, <1>3, TypeInit, TextInit, PTL DEF Spec

-----------------------------------------------------------------------------
(* CleanRunIsUsable.                                                       *)

(* The numbering is one of all messages that are collected, and the map on *)
(* disk is made from it.                                                   *)
NumberInv ==
  phase \in {"map", "header"} /\ errorCnt = 0 /\ ~edited =>
    /\ stagId \in [masterHashMap -> Nat]
    /\ \A m, n \in masterHashMap : stagId[m] = stagId[n] => m = n
    /\ phase = "header" => map = MapRows

AllInv == TypeInv /\ TextInv /\ CollectInv /\ NumberInv

LEMMA NumberSame ==
  ASSUME NumberInv, UNCHANGED <<phase, stagId, masterHashMap, map>>,
         errorCnt' = 0 /\ ~edited' => errorCnt = 0 /\ ~edited
  PROVE  NumberInv'
  BY DEF NumberInv, MapRows

(* A worker that came so late would find nothing new.                      *)
LEMMA NumberAppend ==
  ASSUME AllInv, NEW w \in Workers, AppendToMasterHashMap(w)
  PROVE  NumberInv'
<1>1. /\ UNCHANGED <<phase, stagId, map, errorCnt, edited>>
      /\ wpc[w] = "append" /\ masterHashMap' = masterHashMap \cup MessagesIn(text[w])
  BY DEF AppendToMasterHashMap, result, disk
<1>2. SUFFICES ASSUME phase \in {"map", "header"}, errorCnt = 0, ~edited PROVE NumberInv'
  BY <1>1 DEF NumberInv
<1>3. masterHashMap = {c.msg : c \in Calls}
  BY <1>2, CollectedFromInv DEF AllInv, CollectedAll
<1>4. FileOf[job[w]] \in Files /\ DOMAIN text[w] = DOMAIN src[FileOf[job[w]]]
  BY <1>1, FileOfPath DEF AllInv, TypeInv, WorkerTypes
<1>5. \A k \in DOMAIN text[w] : text[w][k].msg = src[FileOf[job[w]]][k].msg
  BY <1>1, <1>2 DEF AllInv, TextInv
<1>6. \A k \in DOMAIN text[w] : src[FileOf[job[w]]][k] \in Calls
  BY <1>4 DEF Calls
<1>7. MessagesIn(text[w]) \subseteq masterHashMap
  BY <1>3, <1>5, <1>6 DEF MessagesIn
<1>8. masterHashMap' = masterHashMap
  BY <1>1, <1>7
<1> QED
  BY <1>1, <1>8, NumberSame DEF AllInv

LEMMA NumberNext ==
  ASSUME {"write", "map", "header"} \cap Faults = {}, AllInv, [Next]_vars
  PROVE  NumberInv'
<1> USE DEF disk, pool, worker, result, collect
<1>0. NumberInv
  BY DEF AllInv
<1>1. CASE Developer
  <2>1. ASSUME NEW f \in Files, NEW m \in Messages, AddLog(f, m) PROVE NumberInv'
    BY <1>0, <2>1, NumberSame DEF AddLog
  <2>2. ASSUME NEW f \in Files, NEW m \in Messages, NEW k \in DOMAIN src[f],
               ChangeMessage(f, k, m)
        PROVE  NumberInv'
    BY <1>0, <2>2, NumberSame DEF ChangeMessage
  <2> QED
    BY <1>1, <2>1, <2>2 DEF Developer
<1>2. CASE \E s \in RefusalStatuses : Refuse(s)
  BY <1>0, <1>2, NumberSame DEF Refuse
<1>3. CASE Start
  BY <1>3 DEF Start, NumberInv
<1>4. CASE MainThread
  <2>1. ASSUME NEW p \in Paths, AddJob(p) PROVE NumberInv'
    BY <1>0, <2>1, NumberSame DEF AddJob
  <2>2. CASE AssignIDs
    <3>1. /\ stagId' \in Numberings(masterHashMap) /\ masterHashMap' = masterHashMap
          /\ phase' = "map"
      BY <2>2 DEF AssignIDs
    <3>2. /\ stagId' \in [masterHashMap -> 1 .. Cardinality(masterHashMap)]
          /\ \A m, n \in masterHashMap : stagId'[m] = stagId'[n] => m = n
      BY <3>1 DEF Numberings
    <3>3. stagId' \in [masterHashMap -> Nat]
      BY <3>2
    <3> QED
      BY <3>1, <3>2, <3>3 DEF NumberInv
  <2>3. CASE GenerateMapFile
    <3>1. /\ map' = MapRows /\ phase = "map"
          /\ UNCHANGED <<stagId, masterHashMap, errorCnt, edited>>
      BY <2>3 DEF GenerateMapFile
    <3>2. MapRows' = MapRows
      BY <3>1 DEF MapRows
    <3> QED
      BY <1>0, <3>1, <3>2 DEF NumberInv
  <2>4. CASE GenerateHeaderFile
    BY <2>4 DEF GenerateHeaderFile, Leave, NumberInv
  <2> QED
    BY <1>4, <2>1, <2>2, <2>3, <2>4 DEF MainThread
<1>5. ASSUME NEW w \in Workers, WorkerStep(w) PROVE NumberInv'
  <2>1. CASE AppendToMasterHashMap(w)
    BY <2>1, NumberAppend
  <2>2. CASE ExitInWorker(w)
    BY <2>2 DEF ExitInWorker, Leave, NumberInv
  <2>3. CASE Take(w) \/ Load(w) \/ WriteCall(w) \/ Close(w) \/ Return(w)
    BY <1>0, <2>3, NumberSame DEF Take, Load, WriteCall, Close, Return
  <2> QED
    BY <1>5, <2>1, <2>2, <2>3 DEF WorkerStep
<1>6. CASE Fault
  <2>1. ASSUME NEW w \in Workers, OpenFails(w) PROVE NumberInv'
    BY <2>1 DEF OpenFails, AllInv, TypeInv, NumberInv
  <2>2. CASE Crash
    BY <2>2 DEF Crash, Leave, NumberInv
  <2>3. (\E w \in Workers : OpenFails(w)) \/ Crash
    BY <1>6 DEF Fault, WriteFails, MapFileFails, HeaderFileFails
  <2> QED
    BY <2>1, <2>2, <2>3
<1>7. CASE UNCHANGED vars
  BY <1>0, <1>7, NumberSame DEF vars
<1> QED
  BY <1>1, <1>2, <1>3, <1>4, <1>5, <1>6, <1>7 DEF Next

(* Tag, header and map lead from each call to its message.                 *)
LEMMA CallIsUsable ==
  ASSUME AllInv, GenerateHeaderFile, errorCnt = 0, ~edited, NEW c \in Calls
  PROVE  Usable(c)'
<1>1. /\ phase = "header" /\ header' = HeaderLines /\ map' = map
  BY DEF GenerateHeaderFile
<1>2. /\ stagId \in [masterHashMap -> Nat] /\ map = MapRows
      /\ \A m, n \in masterHashMap : stagId[m] = stagId[n] => m = n
  BY <1>1 DEF AllInv, NumberInv
<1>3. c.msg \in masterHashMap /\ c.tag = TagOf[c.msg]
  BY <1>1, CollectedFromInv DEF AllInv, CollectedAll
<1>4. masterHashMap \subseteq Messages
  <2>1. \A f \in Files : \A k \in DOMAIN src[f] : src[f][k] \in Call
    BY LenProperties DEF AllInv, TypeInv
  <2>2. \A d \in Calls : d.msg \in Messages
    BY <2>1 DEF Calls, Call
  <2> QED
    BY <1>1, <2>2, CollectedFromInv DEF AllInv, CollectedAll
<1> DEFINE m == CHOOSE n \in masterHashMap : TagOf[n] = c.tag
           r == CHOOSE n \in masterHashMap : stagId[n] = stagId[c.msg]
<1>5. m = c.msg
  BY <1>3, <1>4, ProjectAssumption
<1>6. c.tag \in DOMAIN header' /\ header'[c.tag] = stagId[m]
  BY <1>1, <1>3 DEF HeaderLines
<1>7. r = c.msg
  BY <1>2, <1>3
<1>8. stagId[c.msg] \in DOMAIN map' /\ map'[stagId[c.msg]] = r
  BY <1>1, <1>2, <1>3 DEF MapRows
<1> QED
  BY <1>3, <1>5, <1>6, <1>7, <1>8 DEF Usable

LEMMA CleanRun ==
  ASSUME {"write", "map", "header"} \cap Faults = {}, AllInv, [Next]_vars,
         RunReturnsOK, errorCnt' = 0, ~edited
  PROVE  ProjectUsable'
<1> USE DEF disk, pool, worker, result, collect
<1>1. GenerateHeaderFile
  <2> USE DEF RunReturnsOK
  <2>1. CASE Developer
    BY <2>1 DEF Developer, AddLog, ChangeMessage
  <2>2. CASE \E s \in RefusalStatuses : Refuse(s)
    BY <2>2 DEF Refuse
  <2>3. CASE Start
    BY <2>3 DEF Start
  <2>4. CASE MainThread
    BY <2>4 DEF MainThread, AddJob, AssignIDs, GenerateMapFile
  <2>5. ASSUME NEW w \in Workers, WorkerStep(w) PROVE FALSE
    <3>1. CASE ExitInWorker(w)
      BY <3>1 DEF ExitInWorker, Leave
    <3>2. CASE ~ExitInWorker(w)
      BY <2>5, <3>2 DEF WorkerStep, Take, Load, AppendToMasterHashMap, WriteCall, Close, Return
    <3> QED
      BY <3>1, <3>2
  <2>6. CASE Fault
    BY <2>6 DEF Fault, OpenFails, WriteFails, MapFileFails, HeaderFileFails, Crash, Leave
  <2>7. CASE UNCHANGED vars
    BY <2>7 DEF vars
  <2> QED
    BY <2>1, <2>2, <2>3, <2>4, <2>5, <2>6, <2>7 DEF Next
<1>2. errorCnt = 0 /\ src' = src
  BY <1>1 DEF GenerateHeaderFile
<1>3. Calls' = Calls
  BY <1>2 DEF Calls
<1> QED
  BY <1>1, <1>2, <1>3, CallIsUsable DEF ProjectUsable

(* A run that counted no error and returns OK, when files can be written   *)
(* and nobody edits during it, leaves a project that can be built and      *)
(* decoded: after any crashes, refusals, edits and failed runs before it.  *)
THEOREM CleanRunsAreUsable ==
  ASSUME {"write", "map", "header"} \cap Faults = {}
  PROVE  Spec => CleanRunIsUsable
<1>1. Init => AllInv
  BY TypeInit, TextInit DEF Init, CollectInv, NumberInv, AllInv
<1>2. AllInv /\ [Next]_vars => AllInv'
  BY TypeNext, TextNext, CollectNext, NumberNext DEF AllInv
<1>3. AllInv /\ [Next]_vars =>
        [RunReturnsOK /\ errorCnt' = 0 /\ ~edited => ProjectUsable']_vars
  BY CleanRun
<1> QED
  BY <1>1, <1>2, <1>3, PTL DEF Spec, CleanRunIsUsable

=============================================================================
