--------------------- MODULE ProjectProcessor_refinement ----------------------
(***************************************************************************)
(* Proofs about ProjectProcessor for any project and any number of         *)
(* workers: when the main thread goes on, the workers are done, each step  *)
(* is then one of Project, and nothing grows over its bound.               *)
(***************************************************************************)
EXTENDS ProjectProcessor_proofs, FiniteSetTheorems

-----------------------------------------------------------------------------
(* Each path is in one place: still to be added, in the queue, with one    *)
(* worker, or finished.                                                    *)

InQueue(p) == \E i \in 1 .. Len(queue) : queue[i] = p
Held(p)    == \E w \in Workers : job[w] = p

OnceInv ==
  /\ \A w \in Workers : job[w] = None <=> wpc[w] = "idle"
  /\ \A v, w \in Workers : job[v] = job[w] /\ job[v] # None => v = w
  /\ \A i, j \in 1 .. Len(queue) : queue[i] = queue[j] => i = j
  /\ \A p \in Paths : InQueue(p) => ~Held(p)
  /\ \A p \in finished : ~InQueue(p) /\ ~Held(p) /\ p \notin pending
  /\ \A p \in pending : ~InQueue(p) /\ ~Held(p)
  /\ finished \subseteq Paths

(* So nobody is left when all paths are finished.                          *)
QuietInv == phase \in {"map", "header"} => finished = Paths

LEMMA Quiet ==
  ASSUME TypeInv, OnceInv, QuietInv, phase \in {"map", "header"}, NEW w \in Workers
  PROVE  wpc[w] = "idle"
  BY DEF TypeInv, WorkerTypes, OnceInv, QuietInv, Held

LEMMA OnceSame ==
  ASSUME OnceInv, UNCHANGED <<pending, queue, job, finished>>,
         \A w \in Workers : wpc'[w] = "idle" <=> wpc[w] = "idle"
  PROVE  OnceInv'
  BY DEF OnceInv, InQueue, Held

(* A run begins or ends: everything is still to be done.                   *)
LEMMA OnceReset ==
  ASSUME queue' = <<>>, finished' = {},
         \A w \in Workers : job'[w] = None /\ wpc'[w] = "idle",
         pending' = Paths
  PROVE  OnceInv'
  BY ProjectAssumption DEF OnceInv, InQueue, Held

LEMMA OnceLeave ==
  ASSUME NEW s, Leave(s)
  PROVE  OnceInv'
<1>1. \A w \in Workers : job'[w] = None /\ wpc'[w] = "idle"
  BY DEF Leave, Idle
<1> QED
  BY <1>1, OnceReset DEF Leave

LEMMA OnceAddJob ==
  ASSUME TypeInv, OnceInv, NEW p \in Paths, AddJob(p)
  PROVE  OnceInv'
<1>1. /\ p \in pending /\ pending' = pending \ {p} /\ queue' = Append(queue, p)
      /\ UNCHANGED <<job, finished, wpc>>
  BY DEF AddJob, Pool!AddJob, worker
<1>2. /\ queue \in Seq(Paths) /\ Len(queue) \in Nat /\ Len(queue') = Len(queue) + 1
      /\ \A i \in 1 .. Len(queue) : queue'[i] = queue[i]
      /\ queue'[Len(queue) + 1] = p
  BY <1>1, AppendProperties, LenProperties DEF TypeInv, PoolTypes
<1>3. \A q : InQueue(q)' <=> InQueue(q) \/ q = p
  BY <1>2 DEF InQueue
<1>4. \A i, j \in 1 .. Len(queue') : queue'[i] = queue'[j] => i = j
  <2> SUFFICES ASSUME NEW i \in 1 .. Len(queue'), NEW j \in 1 .. Len(queue'),
                      queue'[i] = queue'[j]
               PROVE  i = j
    OBVIOUS
  <2>1. \A k \in 1 .. Len(queue) : queue[k] # p
    BY <1>1 DEF OnceInv, InQueue
  <2> QED
    BY <1>2, <2>1 DEF OnceInv
<1>5. \A q : Held(q)' <=> Held(q)
  BY <1>1 DEF Held
<1> QED
  BY <1>1, <1>3, <1>4, <1>5 DEF OnceInv

LEMMA OnceTake ==
  ASSUME TypeInv, OnceInv, NEW w \in Workers, Take(w)
  PROVE  OnceInv'
<1>1. /\ queue # <<>> /\ queue' = Tail(queue) /\ job[w] = None /\ wpc[w] = "idle"
      /\ job' = [job EXCEPT ![w] = Head(queue)] /\ wpc' = [wpc EXCEPT ![w] = "open"]
      /\ UNCHANGED <<pending, finished>>
  BY DEF Take, Pool!Take
<1>2. /\ queue \in Seq(Paths) /\ Len(queue) \in Nat /\ Len(queue) >= 1
      /\ Head(queue) = queue[1]
      /\ Len(queue') = Len(queue) - 1
      /\ \A i \in 1 .. Len(queue') : queue'[i] = queue[i + 1]
  BY <1>1, HeadTailProperties, LenProperties DEF TypeInv, PoolTypes
<1>3. PICK p \in Paths : p = queue[1] /\ InQueue(p) /\ p # None
  BY <1>2, ElementOfSeq, ProjectAssumption DEF InQueue
<1>4. /\ \A q : InQueue(q)' => InQueue(q)
      /\ ~InQueue(p)'
      /\ \A i, j \in 1 .. Len(queue') : queue'[i] = queue'[j] => i = j
  <2>1. \A i \in 1 .. Len(queue') : i + 1 \in 1 .. Len(queue) /\ queue'[i] = queue[i + 1]
    BY <1>2
  <2>2. \A i, j \in 1 .. Len(queue) : queue[i] = queue[j] => i = j
    BY DEF OnceInv
  <2>3. \A q : InQueue(q)' => InQueue(q)
    BY <2>1 DEF InQueue
  <2>4. ASSUME NEW i \in 1 .. Len(queue'), queue'[i] = p PROVE FALSE
    <3>1. i + 1 = 1
      BY <1>2, <1>3, <2>1, <2>2, <2>4
    <3> QED
      BY <3>1
  <2>5. ASSUME NEW i \in 1 .. Len(queue'), NEW j \in 1 .. Len(queue'), queue'[i] = queue'[j]
        PROVE  i = j
    <3>1. i + 1 = j + 1
      BY <2>1, <2>2, <2>5
    <3> QED
      BY <3>1
  <2> QED
    BY <2>3, <2>4, <2>5 DEF InQueue
<1>5. /\ job'[w] = p /\ wpc'[w] = "open"
      /\ \A v \in Workers \ {w} : job'[v] = job[v] /\ wpc'[v] = wpc[v]
  BY <1>1, <1>2, <1>3 DEF TypeInv, WorkerTypes
<1>6. ~Held(p)
  BY <1>3 DEF OnceInv
<1>7. \A q \in Paths : Held(q)' <=> Held(q) \/ q = p
  BY <1>1, <1>5, ProjectAssumption DEF Held
<1>8. \A u, v \in Workers : job'[u] = job'[v] /\ job'[v] # None => u = v
  BY <1>5, <1>6 DEF OnceInv, Held
<1>9. pending \subseteq Paths /\ finished \subseteq Paths
  BY DEF TypeInv, PoolTypes, OnceInv
<1>10. \A v \in Workers : job'[v] = None <=> wpc'[v] = "idle"
  BY <1>3, <1>5 DEF OnceInv
<1>11. p \notin pending /\ p \notin finished
  BY <1>3 DEF OnceInv
<1>12. \A q \in Paths : InQueue(q)' => ~Held(q)'
  BY <1>4, <1>7 DEF OnceInv
<1>13. /\ \A q \in finished' : ~InQueue(q)' /\ ~Held(q)' /\ q \notin pending'
       /\ \A q \in pending' : ~InQueue(q)' /\ ~Held(q)'
  BY <1>1, <1>4, <1>7, <1>9, <1>11 DEF OnceInv
<1> QED
  BY <1>1, <1>4, <1>8, <1>9, <1>10, <1>12, <1>13 DEF OnceInv

LEMMA OnceReturn ==
  ASSUME TypeInv, OnceInv, NEW w \in Workers, Return(w)
  PROVE  OnceInv'
<1>1. /\ wpc[w] = "return" /\ job[w] # None /\ job[w] \in Paths
      /\ finished' = finished \cup {job[w]}
      /\ job' = [job EXCEPT ![w] = None] /\ wpc' = [wpc EXCEPT ![w] = "idle"]
      /\ UNCHANGED <<pending, queue>>
  BY DEF Return, Pool!Finish, TypeInv, WorkerTypes
<1>2. /\ job'[w] = None /\ wpc'[w] = "idle"
      /\ \A v \in Workers \ {w} : job'[v] = job[v] /\ wpc'[v] = wpc[v]
  BY <1>1 DEF TypeInv, WorkerTypes
<1>3. \A q \in Paths : Held(q)' <=> Held(q) /\ q # job[w]
  BY <1>1, <1>2, ProjectAssumption DEF Held, OnceInv
<1>4. \A q : InQueue(q)' <=> InQueue(q)
  BY <1>1 DEF InQueue
<1>5. pending \subseteq Paths /\ finished \subseteq Paths
  BY DEF TypeInv, PoolTypes, OnceInv
<1>6. Held(job[w])
  BY DEF Held
<1> QED
  BY <1>1, <1>2, <1>3, <1>4, <1>5, <1>6 DEF OnceInv

LEMMA OnceNext ==
  ASSUME TypeInv, OnceInv, [Next]_vars
  PROVE  OnceInv'
<1> USE DEF disk, pool, worker, result, collect
<1>1. CASE Developer
  BY <1>1, OnceSame DEF Developer, AddLog, ChangeMessage
<1>2. CASE \E s \in RefusalStatuses : Refuse(s)
  BY <1>2, OnceSame DEF Refuse
<1>3. CASE Start
  <2>1. \A w \in Workers : job'[w] = None /\ wpc'[w] = "idle"
    BY <1>3 DEF Start, TypeInv, Idle, OnceInv
  <2> QED
    BY <1>3, <2>1, OnceReset DEF Start
<1>4. CASE MainThread
  <2>1. ASSUME NEW p \in Paths, AddJob(p) PROVE OnceInv'
    BY <2>1, OnceAddJob
  <2>2. CASE AssignIDs
    BY <2>2, OnceSame DEF AssignIDs, Pool!JoinAll
  <2>3. CASE GenerateMapFile
    BY <2>3, OnceSame DEF GenerateMapFile
  <2>4. CASE GenerateHeaderFile
    BY <2>4, OnceLeave DEF GenerateHeaderFile
  <2> QED
    BY <1>4, <2>1, <2>2, <2>3, <2>4 DEF MainThread
<1>5. ASSUME NEW w \in Workers, WorkerStep(w) PROVE OnceInv'
  <2>1. CASE Take(w)
    BY <2>1, OnceTake
  <2>2. CASE Load(w) \/ AppendToMasterHashMap(w) \/ WriteCall(w) \/ Close(w)
    <3>1. UNCHANGED <<pending, queue, job, finished>>
      BY <2>2 DEF Load, AppendToMasterHashMap, WriteCall, Close
    <3>2. \A v \in Workers : wpc'[v] = "idle" <=> wpc[v] = "idle"
      BY <2>2 DEF Load, AppendToMasterHashMap, WriteCall, Close, TypeInv, WorkerTypes
    <3> QED
      BY <3>1, <3>2, OnceSame
  <2>3. CASE Return(w)
    BY <2>3, OnceReturn
  <2>4. CASE ExitInWorker(w)
    BY <2>4, OnceLeave DEF ExitInWorker
  <2> QED
    BY <1>5, <2>1, <2>2, <2>3, <2>4 DEF WorkerStep
<1>6. CASE Fault
  <2>1. ASSUME NEW w \in Workers, OpenFails(w) \/ WriteFails(w) PROVE OnceInv'
    <3>1. UNCHANGED <<pending, queue, job, finished>>
      BY <2>1 DEF OpenFails, WriteFails
    <3>2. \A v \in Workers : wpc'[v] = "idle" <=> wpc[v] = "idle"
      BY <2>1 DEF OpenFails, WriteFails, TypeInv, WorkerTypes
    <3> QED
      BY <3>1, <3>2, OnceSame
  <2>2. CASE MapFileFails
    BY <2>2, OnceSame DEF MapFileFails
  <2>3. CASE HeaderFileFails
    BY <2>3, OnceLeave DEF HeaderFileFails
  <2>4. CASE Crash
    BY <2>4, OnceLeave DEF Crash
  <2> QED
    BY <1>6, <2>1, <2>2, <2>3, <2>4 DEF Fault
<1>7. CASE UNCHANGED vars
  BY <1>7, OnceSame DEF vars
<1> QED
  BY <1>1, <1>2, <1>3, <1>4, <1>5, <1>6, <1>7 DEF Next

LEMMA OnceInit == Init => OnceInv
<1> SUFFICES ASSUME Init PROVE OnceInv
  OBVIOUS
<1>1. /\ pending = Paths /\ queue = <<>> /\ finished = {}
      /\ \A w \in Workers : job[w] = None /\ wpc[w] = "idle"
  BY DEF Init, Pool!Init, Idle
<1> QED
  BY <1>1, ProjectAssumption DEF OnceInv, InQueue, Held

(* What a step does to the phase and to the set of finished paths.         *)
LEMMA PhaseNext ==
  ASSUME TypeInv, [Next]_vars
  PROVE  \/ phase' = "off"
         \/ phase' = "pool"
         \/ AssignIDs
         \/ GenerateMapFile \/ MapFileFails
         \/ /\ phase' = phase /\ phase \in {"map", "header"} /\ finished \subseteq finished'
            /\ UNCHANGED stagId
            /\ UNCHANGED masterHashMap \/ \E w \in Workers : wpc[w] # "idle"
<1> USE DEF disk, pool, worker, result, collect
<1>1. CASE Developer
  BY <1>1 DEF Developer, AddLog, ChangeMessage, TypeInv
<1>2. CASE \E s \in RefusalStatuses : Refuse(s)
  BY <1>2 DEF Refuse
<1>3. CASE Start
  BY <1>3 DEF Start
<1>4. CASE MainThread
  BY <1>4 DEF MainThread, AddJob, GenerateHeaderFile, Leave
<1>5. ASSUME NEW w \in Workers, WorkerStep(w)
      PROVE  \/ phase' = "off" \/ phase' = "pool"
             \/ /\ phase' = phase /\ phase \in {"map", "header"} /\ finished \subseteq finished'
                /\ UNCHANGED stagId
                /\ UNCHANGED masterHashMap \/ \E v \in Workers : wpc[v] # "idle"
  <2>1. CASE ExitInWorker(w)
    BY <2>1 DEF ExitInWorker, Leave
  <2>2. CASE ~ExitInWorker(w)
    BY <1>5, <2>2 DEF WorkerStep, Take, Load, AppendToMasterHashMap, WriteCall, Close, Return,
         Pool!Take, Pool!Finish, TypeInv
  <2> QED
    BY <2>1, <2>2
<1>6. CASE Fault
  BY <1>6 DEF Fault, OpenFails, WriteFails, HeaderFileFails, Crash, Leave, TypeInv
<1>7. CASE UNCHANGED vars
  BY <1>7 DEF vars, TypeInv
<1> QED
  BY <1>1, <1>2, <1>3, <1>4, <1>5, <1>6, <1>7 DEF Next

(* The numbering of a run is one of all it collected.                      *)
NumberedInv == phase \in {"map", "header"} => stagId \in Numberings(masterHashMap)

LEMMA QuietNext ==
  ASSUME TypeInv, OnceInv, QuietInv, NumberedInv, [Next]_vars
  PROVE  QuietInv' /\ NumberedInv'
<1> USE DEF disk, pool, worker, result, collect
<1>1. OnceInv'
  BY OnceNext
<1>2. CASE phase' \in {"off", "pool"}
  BY <1>2 DEF QuietInv, NumberedInv
<1>3. CASE AssignIDs
  BY <1>3 DEF AssignIDs, Pool!JoinAll, QuietInv, NumberedInv
<1>4. CASE GenerateMapFile \/ MapFileFails
  BY <1>4 DEF GenerateMapFile, MapFileFails, QuietInv, NumberedInv
<1>5. CASE /\ phase' = phase /\ phase \in {"map", "header"} /\ finished \subseteq finished'
           /\ UNCHANGED stagId
           /\ UNCHANGED masterHashMap \/ \E w \in Workers : wpc[w] # "idle"
  <2>1. UNCHANGED masterHashMap
    BY <1>5, Quiet
  <2> QED
    BY <1>1, <1>5, <2>1 DEF QuietInv, NumberedInv, OnceInv
<1>6. \/ phase' \in {"off", "pool"} \/ AssignIDs \/ GenerateMapFile \/ MapFileFails
      \/ /\ phase' = phase /\ phase \in {"map", "header"} /\ finished \subseteq finished'
         /\ UNCHANGED stagId
         /\ UNCHANGED masterHashMap \/ \E w \in Workers : wpc[w] # "idle"
  BY PhaseNext
<1> QED
  BY <1>2, <1>3, <1>4, <1>5, <1>6

LEMMA QuietInit == Init => QuietInv /\ NumberedInv
  BY DEF Init, QuietInv, NumberedInv

-----------------------------------------------------------------------------
(* What is collected are messages, and without edits messages of the       *)
(* sources.                                                                *)

MessageInv ==
  /\ masterHashMap \subseteq Messages
  /\ phase = "off" => masterHashMap = {}

LEMMA CallOfSource ==
  ASSUME TypeInv, NEW f \in Files, NEW k \in DOMAIN src[f]
  PROVE  src[f][k] \in Call /\ src[f][k].msg \in Messages
<1>1. src[f][k] \in Call
  BY LenProperties DEF TypeInv
<1> QED
  BY <1>1 DEF Call

(* Only Start, Leave and AppendToMasterHashMap touch masterHashMap.        *)
LEMMA CollectSteps ==
  ASSUME TypeInv, MessageInv, [Next]_vars
  PROVE  \/ masterHashMap' = {}
         \/ masterHashMap' = masterHashMap /\ (phase' = "off" => phase = "off")
         \/ \E w \in Workers : AppendToMasterHashMap(w)
<1> USE DEF disk, pool, worker, result, collect
<1>1. CASE Developer
  BY <1>1 DEF Developer, AddLog, ChangeMessage
<1>2. CASE \E s \in RefusalStatuses : Refuse(s)
  BY <1>2 DEF Refuse
<1>3. CASE Start
  BY <1>3 DEF Start
<1>4. CASE MainThread
  BY <1>4 DEF MainThread, AddJob, AssignIDs, GenerateMapFile, GenerateHeaderFile, Leave
<1>5. ASSUME NEW w \in Workers, WorkerStep(w), ~AppendToMasterHashMap(w)
      PROVE  \/ masterHashMap' = {}
             \/ masterHashMap' = masterHashMap /\ (phase' = "off" => phase = "off")
  <2>1. CASE ExitInWorker(w)
    BY <2>1 DEF ExitInWorker, Leave
  <2>2. CASE ~ExitInWorker(w)
    BY <1>5, <2>2 DEF WorkerStep, Take, Load, WriteCall, Close, Return
  <2> QED
    BY <2>1, <2>2
<1>6. CASE Fault
  BY <1>6 DEF Fault, OpenFails, WriteFails, MapFileFails, HeaderFileFails, Crash, Leave
<1>7. CASE UNCHANGED vars
  BY <1>7 DEF vars
<1> QED
  BY <1>1, <1>2, <1>3, <1>4, <1>5, <1>6, <1>7 DEF Next

LEMMA MessageNext ==
  ASSUME TypeInv, MessageInv, [Next]_vars
  PROVE  MessageInv'
<1>1. ASSUME NEW w \in Workers, AppendToMasterHashMap(w) PROVE MessageInv'
  <2>1. /\ masterHashMap' = masterHashMap \cup MessagesIn(text[w])
        /\ phase' = phase /\ wpc[w] = "append"
    BY <1>1 DEF AppendToMasterHashMap
  <2>2. phase # "off" /\ text[w] \in Seq(Call)
    BY <2>1 DEF TypeInv, WorkerTypes, Idle
  <2>3. \A k \in DOMAIN text[w] : text[w][k] \in Call
    BY <2>2, LenProperties
  <2>4. MessagesIn(text[w]) \subseteq Messages
    BY <2>3 DEF MessagesIn, Call
  <2> QED
    BY <2>1, <2>2, <2>4 DEF MessageInv
<1> QED
  BY <1>1, CollectSteps DEF MessageInv

LEMMA MessageInit == Init => MessageInv
  BY DEF Init, MessageInv

LEMMA SourceNext ==
  ASSUME "edit" \notin Faults, UneditedInv, MessageInv, FromSources, [Next]_vars
  PROVE  FromSources'
<1> USE DEF disk, pool, worker, result, collect
<1>0. TypeInv /\ TextInv /\ ~edited
  BY DEF UneditedInv
<1>1. ASSUME NEW w \in Workers, AppendToMasterHashMap(w) PROVE FromSources'
  <2>1. /\ masterHashMap' = masterHashMap \cup MessagesIn(text[w])
        /\ src' = src /\ wpc[w] = "append"
    BY <1>1 DEF AppendToMasterHashMap
  <2>2. FileOf[job[w]] \in Files /\ DOMAIN text[w] = DOMAIN src[FileOf[job[w]]]
    BY <1>0, <2>1, FileOfPath DEF TypeInv, WorkerTypes
  <2>3. \A k \in DOMAIN text[w] : text[w][k].msg = src[FileOf[job[w]]][k].msg
    BY <1>0, <2>1 DEF TextInv
  <2> QED
    BY <2>1, <2>2, <2>3 DEF FromSources, MessagesIn
<1>2. ASSUME masterHashMap' = masterHashMap, phase' = "off" => phase = "off"
      PROVE  FromSources'
  <2>1. CASE phase = "off"
    BY <1>2, <2>1 DEF MessageInv, FromSources
  <2>2. CASE phase # "off" /\ src' = src
    BY <1>2, <2>2 DEF FromSources
  <2>3. ASSUME NEW w \in Workers, WriteCall(w) PROVE FromSources'
    BY <1>0, <1>2, <2>3, WriteEffect DEF FromSources
  <2>4. CASE phase # "off" /\ src' # src
    <3>1. phase' # "off"
      BY <1>2, <2>4
    <3>2. \E w \in Workers : WriteCall(w)
      <4>1. CASE Developer
        BY <2>4, <4>1 DEF Developer, AddLog, ChangeMessage
      <4>2. CASE (\E s \in RefusalStatuses : Refuse(s)) \/ Start \/ MainThread
        BY <2>4, <4>2 DEF Refuse, Start, MainThread, AddJob, AssignIDs, GenerateMapFile,
             GenerateHeaderFile
      <4>3. ASSUME NEW w \in Workers, WorkerStep(w) PROVE WriteCall(w)
        BY <2>4, <3>1, <4>3 DEF WorkerStep, Take, Load, AppendToMasterHashMap, Close, Return,
             ExitInWorker, Leave
      <4>4. CASE Fault
        BY <2>4, <3>1, <4>4 DEF Fault, OpenFails, WriteFails, MapFileFails, HeaderFileFails,
             Crash, Leave
      <4>5. CASE UNCHANGED vars
        BY <2>4, <4>5 DEF vars
      <4> QED
        BY <4>1, <4>2, <4>3, <4>4, <4>5 DEF Next
    <3> QED
      BY <2>3, <3>2
  <2> QED
    BY <2>1, <2>2, <2>4
<1>3. CASE masterHashMap' = {}
  BY <1>3 DEF FromSources
<1> QED
  BY <1>0, <1>1, <1>2, <1>3, CollectSteps

-----------------------------------------------------------------------------
(* ImplementsProject.                                                      *)

RefineInv ==
  UneditedInv /\ OnceInv /\ QuietInv /\ NumberedInv /\ MessageInv /\ FromSources

LEMMA RefineNext ==
  ASSUME "edit" \notin Faults, RefineInv, [Next]_vars
  PROVE  RefineInv'
<1> USE DEF RefineInv
<1>1. TypeInv
  BY DEF UneditedInv
<1> QED
  BY <1>1, UneditedNext, OnceNext, QuietNext, MessageNext, SourceNext

(* Files whose calls only got another tag, or lost theirs.                 *)
LEMMA SameFiles ==
  ASSUME TypeInv
  PROVE  src = [f \in Files |-> [k \in DOMAIN src[f] |-> src[f][k]]]
<1>1. \A f \in Files : src[f] = [k \in DOMAIN src[f] |-> src[f][k]]
  BY LenProperties DEF TypeInv
<1> QED
  BY <1>1 DEF TypeInv

LEMMA NoNumbering ==
  ASSUME phase \notin {"map", "header"}, phase' \notin {"map", "header"},
         UNCHANGED <<map, header>>
  PROVE  /\ \A f \in Files, m \in Messages :
              /\ Len(src[f]) < MaxCalls
              /\ src' = [src EXCEPT ![f] = Append(@, [msg |-> m, tag |-> Placeholder])]
              => Run!AddLog(f, m)
         /\ \A f \in Files, m \in Messages : \A k \in DOMAIN src[f] :
              src' = [src EXCEPT ![f][k].msg = m] => Run!ChangeMessage(f, k, m)
         /\ \A right, torn \in SUBSET Run!Places :
              src' = [f \in Files |-> [k \in DOMAIN src[f] |->
                        IF <<f, k>> \in torn THEN [src[f][k] EXCEPT !.tag = Torn]
                        ELSE IF <<f, k>> \in right
                             THEN [src[f][k] EXCEPT !.tag = TagOf[src[f][k].msg]]
                             ELSE src[f][k]]]
              => Run!Retag(right, torn)
  BY DEF Run!AddLog, Run!ChangeMessage, Run!Retag

(* A kill in the middle of writes.                                         *)
LEMMA TearRefines ==
  ASSUME TypeInv, NEW W, src' = Tear(W), UNCHANGED <<map, header>>,
         phase \notin {"map", "header"}, phase' \notin {"map", "header"}
  PROVE  Run!ProjectNext
<1> DEFINE torn(f, k) == \E w \in W : /\ FileOf[job[w]] = f
                                      /\ written[w] + 1 = k
                                      /\ text[w][k].tag # src[f][k].tag
           T == {pl \in Run!Places : torn(pl[1], pl[2])}
<1>1. \A f \in Files : \A k \in DOMAIN src[f] : <<f, k>> \in T <=> torn(f, k)
  BY DEF Run!Places
<1>2. T \in SUBSET Run!Places /\ {} \in SUBSET Run!Places
  OBVIOUS
<1>3. src' = [f \in Files |-> [k \in DOMAIN src[f] |->
                IF torn(f, k) THEN [src[f][k] EXCEPT !.tag = Torn] ELSE src[f][k]]]
  BY DEF Tear
<1> HIDE DEF torn, T
<1>4. src' = [f \in Files |-> [k \in DOMAIN src[f] |->
                IF <<f, k>> \in T THEN [src[f][k] EXCEPT !.tag = Torn]
                ELSE IF <<f, k>> \in {} THEN [src[f][k] EXCEPT !.tag = TagOf[src[f][k].msg]]
                ELSE src[f][k]]]
  BY <1>1, <1>3
<1>5. Run!Retag({}, T)
  BY <1>2, <1>4, NoNumbering
<1> QED
  BY <1>2, <1>5 DEF Run!ProjectNext

(* A worker writes the next call of its text.                              *)
LEMMA WriteRefines ==
  ASSUME RefineInv, NEW w \in Workers, WriteCall(w)
  PROVE  Run!ProjectNext
<1> DEFINE f == FileOf[job[w]]
           k == written[w] + 1
<1>0. TypeInv /\ TextInv /\ ~edited
  BY DEF RefineInv, UneditedInv
<1>1. /\ phase # "off" /\ f \in Files /\ k \in DOMAIN src[f] /\ k \in DOMAIN text[w]
      /\ wpc[w] = "write" /\ UNCHANGED <<map, header, phase>>
      /\ src' = [src EXCEPT ![f][k] = text[w][k]]
  <2>1. text[w] \in Seq(Call) /\ k \in 1 .. Len(text[w])
    BY <1>0, WriteEffect DEF TypeInv, WorkerTypes
  <2>2. k \in DOMAIN text[w]
    BY <2>1, LenProperties
  <2> QED
    BY <1>0, <2>2, WriteEffect DEF WriteCall
<1>2. phase \notin {"map", "header"}
  BY <1>0, <1>1, Quiet DEF RefineInv
<1>3. text[w][k].msg = src[f][k].msg /\ text[w][k].tag = TagOf[src[f][k].msg]
  BY <1>0, <1>1 DEF TextInv, RightTag
<1>4. text[w][k] = [src[f][k] EXCEPT !.tag = TagOf[src[f][k].msg]]
  <2>1. text[w][k] \in Call /\ src[f][k] \in Call
    BY <1>0, <1>1, CallOfSource, LenProperties DEF TypeInv, WorkerTypes
  <2> QED
    BY <1>3, <2>1 DEF Call
<1>5. {<<f, k>>} \in SUBSET Run!Places /\ {} \in SUBSET Run!Places
  BY <1>1 DEF Run!Places
<1> HIDE DEF f, k
<1>6. src' = [g \in Files |-> [j \in DOMAIN src[g] |->
                IF <<g, j>> \in {} THEN [src[g][j] EXCEPT !.tag = Torn]
                ELSE IF <<g, j>> \in {<<f, k>>}
                     THEN [src[g][j] EXCEPT !.tag = TagOf[src[g][j].msg]]
                     ELSE src[g][j]]]
  <2> DEFINE new(g, j) == IF g = f /\ j = k THEN text[w][k] ELSE src[g][j]
  <2>1. \A g \in Files : src[g] = [j \in DOMAIN src[g] |-> src[g][j]]
    BY <1>0, LenProperties DEF TypeInv
  <2>2. src = [g \in Files |-> src[g]]
    BY <1>0 DEF TypeInv
  <2>3. src' = [g \in Files |-> IF g = f THEN [src[f] EXCEPT ![k] = text[w][k]] ELSE src[g]]
    BY <1>1, <2>2
  <2>4. [src[f] EXCEPT ![k] = text[w][k]] = [j \in DOMAIN src[f] |-> new(f, j)]
    OBVIOUS
  <2>5. src' = [g \in Files |-> [j \in DOMAIN src[g] |-> new(g, j)]]
    <3>1. ASSUME NEW g \in Files, g # f
          PROVE  src[g] = [j \in DOMAIN src[g] |-> new(g, j)]
      <4>1. \A j \in DOMAIN src[g] : new(g, j) = src[g][j]
        BY <3>1
      <4> HIDE DEF new
      <4> QED
        BY <2>1, <4>1
    <3> HIDE DEF new
    <3> QED
      BY <2>3, <2>4, <3>1
  <2>6. \A g \in Files : \A j \in DOMAIN src[g] :
          new(g, j) = IF <<g, j>> \in {} THEN [src[g][j] EXCEPT !.tag = Torn]
                      ELSE IF <<g, j>> \in {<<f, k>>}
                           THEN [src[g][j] EXCEPT !.tag = TagOf[src[g][j].msg]]
                           ELSE src[g][j]
    BY <1>4
  <2> HIDE DEF new
  <2> QED
    BY <2>5, <2>6
<1>7. Run!Retag({<<f, k>>}, {})
  <2>1. phase' \notin {"map", "header"}
    BY <1>1, <1>2
  <2> QED
    BY <1>1, <1>2, <1>5, <1>6, <2>1, NoNumbering
<1> QED
  BY <1>5, <1>7 DEF Run!ProjectNext

(* The rows and lines of a run, as Project has them.                       *)
LEMMA NumberingOfRun ==
  ASSUME RefineInv, phase \in {"map", "header"}
  PROVE  /\ Run!project = <<src, map, header, stagId>> /\ stagId # None
         /\ DOMAIN stagId = masterHashMap
         /\ \A m \in masterHashMap : stagId[m] \in 1 .. Cardinality(masterHashMap)
         /\ \A m, n \in masterHashMap : stagId[m] = stagId[n] => m = n
         /\ masterHashMap \subseteq Messages
         /\ Cuts \subseteq Run!Sizes /\ Cardinality(masterHashMap) \in Cuts
<1>1. masterHashMap \subseteq Messages
  BY DEF RefineInv, MessageInv
<1>2. /\ IsFiniteSet(masterHashMap)
      /\ Cardinality(masterHashMap) \in Nat /\ Cardinality(Messages) \in Nat
      /\ Cardinality(masterHashMap) <= Cardinality(Messages)
  BY <1>1, FS_Subset, FS_CardinalityType, ProjectAssumption
<1>3. /\ stagId \in [masterHashMap -> 1 .. Cardinality(masterHashMap)]
      /\ \A m, n \in masterHashMap : stagId[m] = stagId[n] => m = n
  BY DEF RefineInv, NumberedInv, Numberings
<1>4. stagId \in [masterHashMap -> Nat]
  BY <1>2, <1>3
<1>5. stagId # None
  BY <1>1, <1>4, ProjectAssumption
<1>6. Cuts \subseteq Run!Sizes /\ Cardinality(masterHashMap) \in Cuts
  <2> DEFINE a == Cardinality(masterHashMap)
             b == Cardinality(Messages)
  <2>1. Cuts = 0 .. a
    BY DEF Cuts
  <2>2. Run!Sizes = 0 .. b
    BY DEF Run!Sizes, Run!Cardinality, Cardinality
  <2>3. a \in Nat /\ b \in Nat /\ a <= b
    BY <1>2
  <2>4. a \in Cuts <=> Cardinality(masterHashMap) \in Cuts
    OBVIOUS
  <2> HIDE DEF a, b
  <2>5. 0 .. a \subseteq 0 .. b /\ a \in 0 .. a
    BY <2>3
  <2> QED
    BY <2>1, <2>2, <2>4, <2>5
<1>7. Run!project = <<src, map, header, stagId>>
  BY DEF Run!project
<1> QED
  BY <1>1, <1>3, <1>5, <1>6, <1>7

LEMMA MapOfRun ==
  ASSUME RefineInv, phase \in {"map", "header"}
  PROVE  /\ \A n \in Cuts : FirstRows(n) = Run!Rows(n)
         /\ MapRows = Run!Rows(Cardinality(masterHashMap))
<1> DEFINE row(i) == CHOOSE m \in masterHashMap : stagId[m] = i
           all    == {stagId[m] : m \in masterHashMap}
<1>1. /\ DOMAIN stagId = masterHashMap
      /\ \A m \in masterHashMap : stagId[m] \in 1 .. Cardinality(masterHashMap)
  BY NumberingOfRun
<1>2. MapRows = [i \in all |-> row(i)]
  BY DEF MapRows
<1>3. \A n : Run!Rows(n) = [i \in all \cap 1 .. n |-> row(i)]
  BY <1>1 DEF Run!Rows
<1>4. all \cap 1 .. Cardinality(masterHashMap) = all
  BY <1>1
<1> HIDE DEF all, row
<1>5. ASSUME NEW n \in Cuts
      PROVE  FirstRows(n) = [i \in all \cap 1 .. n |-> row(i)]
  BY <1>2 DEF FirstRows
<1> QED
  BY <1>2, <1>3, <1>4, <1>5

LEMMA HeaderOfRun ==
  ASSUME RefineInv, phase \in {"map", "header"}
  PROVE  /\ \A n \in Cuts : FirstLines(n) = Run!Lines(n)
         /\ HeaderLines = Run!Lines(Cardinality(masterHashMap))
<1> DEFINE of(t) == CHOOSE m \in masterHashMap : TagOf[m] = t
<1>1. /\ DOMAIN stagId = masterHashMap /\ masterHashMap \subseteq Messages
      /\ \A m \in masterHashMap : stagId[m] \in 1 .. Cardinality(masterHashMap)
  BY NumberingOfRun
<1>2. HeaderLines = [t \in {TagOf[m] : m \in masterHashMap} |-> stagId[of(t)]]
  BY DEF HeaderLines
<1>3. \A n : Run!Lines(n) = [t \in {TagOf[m] : m \in {l \in masterHashMap : stagId[l] <= n}} |->
                               stagId[of(t)]]
  BY <1>1 DEF Run!Lines
<1>4. \A m \in masterHashMap : of(TagOf[m]) = m
  BY <1>1, ProjectAssumption
<1> HIDE DEF of
<1>5. ASSUME NEW n
      PROVE  {u \in DOMAIN HeaderLines : HeaderLines[u] <= n}
               = {TagOf[m] : m \in {l \in masterHashMap : stagId[l] <= n}}
  BY <1>2, <1>4
<1>6. ASSUME NEW n \in Cuts PROVE FirstLines(n) = Run!Lines(n)
  BY <1>2, <1>3, <1>5 DEF FirstLines
<1>7. {l \in masterHashMap : stagId[l] <= Cardinality(masterHashMap)} = masterHashMap
  BY <1>1
<1> QED
  BY <1>2, <1>3, <1>6, <1>7

(* The end of a process, with what is in the two files then.               *)
LEMMA LeaveRefines ==
  ASSUME RefineInv, NEW s, Leave(s), phase \in {"map", "header"}, src' = src,
         \/ UNCHANGED <<map, header>>
         \/ UNCHANGED header /\ \E n \in Cuts : map' = FirstRows(n)
         \/ UNCHANGED map /\ \E n \in Cuts : header' = FirstLines(n)
  PROVE  Run!ProjectNext
<1>1. phase' = "off"
  BY DEF Leave
<1>2. stagId # None /\ Cuts \subseteq Run!Sizes
  BY NumberingOfRun
<1>3. CASE UNCHANGED <<map, header>>
  <2>1. Run!End
    BY <1>1, <1>2, <1>3 DEF Run!End
  <2> QED
    BY <2>1 DEF Run!ProjectNext
<1>4. ASSUME UNCHANGED header, NEW n \in Cuts, map' = FirstRows(n) PROVE Run!ProjectNext
  <2>1. Run!WriteMap(n)
    BY <1>1, <1>2, <1>4, MapOfRun DEF Run!WriteMap
  <2> QED
    BY <1>2, <2>1 DEF Run!ProjectNext
<1>5. ASSUME UNCHANGED map, NEW n \in Cuts, header' = FirstLines(n) PROVE Run!ProjectNext
  <2>1. Run!WriteHeader(n)
    BY <1>1, <1>2, <1>5, HeaderOfRun DEF Run!WriteHeader
  <2> QED
    BY <1>2, <2>1 DEF Run!ProjectNext
<1> QED
  BY <1>3, <1>4, <1>5

(* A worker's exit, or a kill: the writing workers leave torn tags, which  *)
(* are none once the main thread writes its files.                         *)
LEMMA DeathRefines ==
  ASSUME RefineInv, NEW s, Leave(s), phase # "off",
         \E W \in SUBSET Writing : src' = Tear(W),
         \/ UNCHANGED <<map, header>>
         \/ phase = "map" /\ UNCHANGED header /\ \E k \in Cuts : map' = FirstRows(k)
         \/ phase = "header" /\ UNCHANGED map /\ \E k \in Cuts : header' = FirstLines(k)
  PROVE  Run!ProjectNext
<1>0. TypeInv
  BY DEF RefineInv, UneditedInv
<1>1. CASE phase \in {"map", "header"}
  <2>1. Writing = {}
    BY <1>0, <1>1, Quiet DEF Writing, RefineInv
  <2>2. Tear({}) = src
    <3>1. Tear({}) = [f \in Files |-> [k \in DOMAIN src[f] |-> src[f][k]]]
      BY DEF Tear
    <3> QED
      BY <1>0, <3>1, SameFiles
  <2>3. src' = src
    BY <2>1, <2>2
  <2> QED
    BY <1>1, <2>3, LeaveRefines
<1>2. CASE phase \notin {"map", "header"}
  <2>1. PICK W : src' = Tear(W)
    OBVIOUS
  <2>2. phase' \notin {"map", "header"} /\ UNCHANGED <<map, header>>
    BY <1>2 DEF Leave
  <2> QED
    BY <1>0, <1>2, <2>1, <2>2, TearRefines
<1> QED
  BY <1>1, <1>2

LEMMA AssignRefines ==
  ASSUME RefineInv, AssignIDs
  PROVE  Run!ProjectNext
<1>1. /\ phase = "pool" /\ phase' = "map" /\ stagId' \in Numberings(masterHashMap)
      /\ UNCHANGED <<src, map, header>>
  BY DEF AssignIDs, disk
<1>2. masterHashMap \subseteq Messages
  BY DEF RefineInv, MessageInv
<1>3. masterHashMap \subseteq UNION {Run!MessagesOf(src[f]) : f \in Files}
  BY DEF RefineInv, FromSources, Run!MessagesOf
<1>4. stagId' \in {f \in [masterHashMap -> 1 .. Cardinality(masterHashMap)] :
                    \A m, n \in masterHashMap : f[m] = f[n] => m = n}
  BY <1>1 DEF Numberings
<1>5. Run!Number(masterHashMap)
  <2>1. phase \notin {"map", "header"} /\ phase' \in {"map", "header"}
    BY <1>1
  <2> QED
    BY <1>1, <1>3, <1>4, <2>1 DEF Run!Number, Run!Cardinality, Cardinality
<1> QED
  BY <1>2, <1>5 DEF Run!ProjectNext

LEMMA RefineStep ==
  ASSUME "edit" \notin Faults, RefineInv, [Next]_vars
  PROVE  [Run!ProjectNext]_Run!project
<1> USE DEF disk, pool, worker, result, collect
<1>0. TypeInv
  BY DEF RefineInv, UneditedInv
<1>1. CASE Developer
  <2>1. ASSUME NEW f \in Files, NEW m \in Messages, AddLog(f, m)
        PROVE  Run!ProjectNext
    <3>1. Run!AddLog(f, m)
      BY <2>1, NoNumbering DEF AddLog
    <3> QED
      BY <3>1 DEF Run!ProjectNext, Run!Edit
  <2>2. ASSUME NEW f \in Files, NEW m \in Messages, NEW k \in DOMAIN src[f],
               ChangeMessage(f, k, m)
        PROVE  Run!ProjectNext
    <3>1. Run!ChangeMessage(f, k, m)
      BY <2>2, NoNumbering DEF ChangeMessage
    <3> QED
      BY <3>1 DEF Run!ProjectNext, Run!Edit
  <2> QED
    BY <1>1, <2>1, <2>2 DEF Developer
<1>2. CASE \E s \in RefusalStatuses : Refuse(s)
  BY <1>2 DEF Refuse, Run!project
<1>3. CASE Start
  BY <1>3 DEF Start, Run!project
<1>4. CASE MainThread
  <2>1. ASSUME NEW p \in Paths, AddJob(p) PROVE UNCHANGED Run!project
    BY <2>1 DEF AddJob, Run!project
  <2>2. CASE AssignIDs
    BY <2>2, AssignRefines
  <2>3. CASE GenerateMapFile
    <3> DEFINE n == Cardinality(masterHashMap)
    <3>1. /\ phase = "map" /\ phase' = "header" /\ map' = Run!Rows(n)
          /\ UNCHANGED <<src, header, stagId>> /\ stagId # None /\ n \in Run!Sizes
      BY <2>3, NumberingOfRun, MapOfRun DEF GenerateMapFile
    <3> HIDE DEF n
    <3>2. Run!WriteMap(n)
      BY <3>1 DEF Run!WriteMap
    <3> QED
      BY <3>1, <3>2 DEF Run!ProjectNext
  <2>4. CASE GenerateHeaderFile
    <3> DEFINE n == Cardinality(masterHashMap)
    <3>1. /\ phase = "header" /\ phase' = "off" /\ header' = Run!Lines(n)
          /\ UNCHANGED <<src, map>> /\ stagId # None /\ n \in Run!Sizes
      BY <2>4, NumberingOfRun, HeaderOfRun DEF GenerateHeaderFile, Leave
    <3> HIDE DEF n
    <3>2. Run!WriteHeader(n)
      BY <3>1 DEF Run!WriteHeader
    <3> QED
      BY <3>1, <3>2 DEF Run!ProjectNext
  <2> QED
    BY <1>4, <2>1, <2>2, <2>3, <2>4 DEF MainThread
<1>5. ASSUME NEW w \in Workers, WorkerStep(w) PROVE [Run!ProjectNext]_Run!project
  <2>1. CASE WriteCall(w)
    BY <2>1, WriteRefines
  <2>2. CASE ExitInWorker(w)
    <3>1. phase # "off" /\ Leave("exit") /\ UNCHANGED <<map, header>>
      BY <1>0, <2>2 DEF ExitInWorker, TypeInv, Idle
    <3> QED
      BY <2>2, <3>1, DeathRefines DEF ExitInWorker
  <2>3. CASE Take(w) \/ Load(w) \/ AppendToMasterHashMap(w) \/ Close(w) \/ Return(w)
    BY <2>3 DEF Take, Load, AppendToMasterHashMap, Close, Return, Run!project
  <2> QED
    BY <1>5, <2>1, <2>2, <2>3 DEF WorkerStep
<1>6. CASE Fault
  <2>1. CASE Crash
    BY <2>1, DeathRefines DEF Crash
  <2>2. CASE HeaderFileFails
    BY <2>2, LeaveRefines DEF HeaderFileFails
  <2>3. ASSUME NEW w \in Workers, OpenFails(w) \/ WriteFails(w) PROVE UNCHANGED Run!project
    BY <2>3 DEF OpenFails, WriteFails, Run!project
  <2>4. CASE MapFileFails
    BY <2>4 DEF MapFileFails, Run!project
  <2> QED
    BY <1>6, <2>1, <2>2, <2>3, <2>4 DEF Fault
<1>7. CASE UNCHANGED vars
  BY <1>7 DEF vars, Run!project
<1> QED
  BY <1>1, <1>2, <1>3, <1>4, <1>5, <1>6, <1>7 DEF Next

(* However many workers write however many links of a file, whichever file *)
(* cannot be opened or written and whenever the process is killed: a run   *)
(* changes tags and never a message, and what is in map and header comes   *)
(* from one numbering of messages that are in the sources.                 *)
THEOREM RunsImplementProject ==
  ASSUME "edit" \notin Faults
  PROVE  Spec => ImplementsProject
<1>1. Init => RefineInv
  <2>1. Init => ~edited /\ FromSources
    BY DEF Init, FromSources
  <2> QED
    BY <2>1, TypeInit, TextInit, OnceInit, QuietInit, MessageInit DEF RefineInv, UneditedInv
<1>2. RefineInv /\ [Next]_vars => RefineInv'
  BY RefineNext
<1>3. Init => Run!ProjectInit
  BY DEF Init, Run!ProjectInit, EmptyFile
<1>4. RefineInv /\ [Next]_vars => [Run!ProjectNext]_Run!project
  BY RefineStep
<1> QED
  BY <1>1, <1>2, <1>3, <1>4, PTL DEF Spec, ImplementsProject, Run!ProjectSpec

-----------------------------------------------------------------------------
(* The bounds in TypeOK.  An error is counted when a worker is done with a *)
(* path it could not open, and no path is handled twice: there are no more *)
(* errors than paths.                                                      *)

Handled == finished \cup {job[w] : w \in {v \in Workers : wpc[v] = "return"}}

FailInv ==
  /\ errorCnt \in 0 .. Cardinality(Paths)
  /\ phase # "off" => errorCnt <= Cardinality(Handled)

LEMMA SomePaths ==
  ASSUME NEW S \in SUBSET Paths
  PROVE  /\ IsFiniteSet(S)
         /\ Cardinality(S) \in Nat /\ Cardinality(Paths) \in Nat
         /\ Cardinality(S) <= Cardinality(Paths)
  BY FS_Subset, FS_CardinalityType, ProjectAssumption

LEMMA HandledPaths ==
  ASSUME TypeInv, TypeInv', OnceInv, OnceInv'
  PROVE  /\ Handled \in SUBSET Paths /\ Handled' \in SUBSET Paths
         /\ IsFiniteSet(Handled) /\ IsFiniteSet(Handled')
         /\ Cardinality(Handled) \in Nat /\ Cardinality(Handled') \in Nat
         /\ Cardinality(Paths) \in Nat
         /\ Cardinality(Handled') <= Cardinality(Paths)
<1>1. Handled \in SUBSET Paths
  BY DEF Handled, TypeInv, WorkerTypes, OnceInv
<1>2. Handled' \in SUBSET Paths
  BY DEF Handled, TypeInv, WorkerTypes, OnceInv
<1> QED
  BY <1>1, <1>2, SomePaths

(* A step that counts no error and forgets no handled path.                *)
LEMMA FailSame ==
  ASSUME TypeInv, TypeInv', OnceInv, OnceInv', FailInv,
         phase' # "off" => phase # "off" /\ Handled \subseteq Handled',
         errorCnt' = errorCnt
  PROVE  FailInv'
<1>1. CASE phase' = "off"
  BY <1>1 DEF FailInv
<1>2. CASE phase' # "off"
  <2>1. /\ IsFiniteSet(Handled') /\ Cardinality(Handled') \in Nat
        /\ Cardinality(Handled) \in Nat
    BY HandledPaths
  <2>2. Cardinality(Handled) <= Cardinality(Handled')
    BY <1>2, <2>1, FS_Subset
  <2> QED
    BY <1>2, <2>1, <2>2 DEF FailInv
<1> QED
  BY <1>1, <1>2

LEMMA FailOpen ==
  ASSUME TypeInv, TypeInv', OnceInv, OnceInv', FailInv, NEW w \in Workers, OpenFails(w)
  PROVE  FailInv'
<1> USE DEF worker, pool, collect, disk
<1>1. /\ wpc[w] = "open" /\ errorCnt' = errorCnt + 1
      /\ wpc' = [wpc EXCEPT ![w] = "return"] /\ UNCHANGED <<job, finished, phase>>
  BY DEF OpenFails
<1>2. /\ wpc'[w] = "return" /\ \A v \in Workers \ {w} : wpc'[v] = wpc[v]
  BY <1>1 DEF TypeInv, WorkerTypes
<1>3. Handled' = Handled \cup {job[w]}
  BY <1>1, <1>2 DEF Handled
<1>4. job[w] \notin Handled
  <2>1. job[w] # None /\ job[w] \in Paths
    BY <1>1 DEF OnceInv, TypeInv, WorkerTypes
  <2> QED
    BY <1>1, <2>1 DEF Handled, OnceInv, Held
<1>5. phase # "off"
  BY <1>1 DEF TypeInv, Idle
<1>6. Cardinality(Handled') = Cardinality(Handled) + 1
  BY <1>3, <1>4, HandledPaths, FS_AddElement
<1>7. /\ Cardinality(Handled) \in Nat /\ Cardinality(Handled') <= Cardinality(Paths)
      /\ Cardinality(Paths) \in Nat
  BY HandledPaths
<1>8. errorCnt <= Cardinality(Handled) /\ errorCnt \in Nat
  BY <1>5 DEF FailInv, TypeInv
<1> QED
  BY <1>1, <1>6, <1>7, <1>8 DEF FailInv

LEMMA FailNext ==
  ASSUME TypeInv, OnceInv, FailInv, [Next]_vars
  PROVE  FailInv'
<1> USE DEF disk, pool, worker, result, collect
<1>0. TypeInv' /\ OnceInv'
  BY TypeNext, OnceNext
<1>1. CASE Developer
  BY <1>0, <1>1, FailSame DEF Developer, AddLog, ChangeMessage, Handled
<1>2. CASE \E s \in RefusalStatuses : Refuse(s)
  BY <1>0, <1>2, FailSame DEF Refuse, Handled
<1>3. CASE Start
  <2>1. errorCnt' = 0 /\ Cardinality(Paths) \in Nat /\ Cardinality(Handled') \in Nat
    BY <1>0, <1>3, HandledPaths, Zenon DEF Start
  <2> QED
    BY <2>1 DEF FailInv
<1>4. CASE MainThread
  <2>1. UNCHANGED errorCnt /\ (phase' # "off" => phase # "off" /\ UNCHANGED <<job, wpc, finished>>)
    BY <1>4 DEF MainThread, AddJob, Pool!AddJob, AssignIDs, Pool!JoinAll, GenerateMapFile,
         GenerateHeaderFile, Leave
  <2> QED
    BY <1>0, <2>1, FailSame DEF Handled
<1>5. ASSUME NEW w \in Workers, WorkerStep(w) PROVE FailInv'
  <2>1. CASE Return(w)
    <3>1. /\ wpc[w] = "return" /\ finished' = finished \cup {job[w]}
          /\ job' = [job EXCEPT ![w] = None] /\ wpc' = [wpc EXCEPT ![w] = "idle"]
          /\ UNCHANGED <<phase, errorCnt>>
      BY <2>1 DEF Return, Pool!Finish
    <3>2. \A v \in Workers \ {w} : job'[v] = job[v] /\ wpc'[v] = wpc[v]
      BY <3>1 DEF TypeInv, WorkerTypes
    <3>3. Handled \subseteq Handled' /\ phase # "off"
      BY <3>1, <3>2 DEF Handled, TypeInv, Idle
    <3> QED
      BY <1>0, <3>1, <3>3, FailSame
  <2>2. CASE ExitInWorker(w)
    BY <1>0, <2>2, FailSame DEF ExitInWorker, Leave
  <2>3. CASE ~Return(w) /\ ~ExitInWorker(w)
    <3>1. /\ wpc[w] # "return" /\ UNCHANGED <<finished, phase, errorCnt>>
          /\ \A v \in Workers \ {w} : job'[v] = job[v] /\ wpc'[v] = wpc[v]
      BY <1>5, <2>3 DEF WorkerStep, Take, Load, AppendToMasterHashMap, WriteCall, Close,
           Pool!Take, TypeInv, WorkerTypes
    <3>2. phase' # "off" => phase # "off" /\ Handled \subseteq Handled'
      BY <3>1 DEF Handled
    <3> QED
      BY <1>0, <3>1, <3>2, FailSame
  <2> QED
    BY <2>1, <2>2, <2>3
<1>6. CASE Fault
  <2>1. ASSUME NEW w \in Workers, OpenFails(w) PROVE FailInv'
    BY <1>0, <2>1, FailOpen
  <2>2. ASSUME NEW w \in Workers, WriteFails(w) PROVE FailInv'
    <3>1. /\ wpc[w] # "return" /\ UNCHANGED <<finished, phase, errorCnt, job>>
          /\ \A v \in Workers \ {w} : wpc'[v] = wpc[v]
      BY <2>2 DEF WriteFails, TypeInv, WorkerTypes
    <3> QED
      BY <1>0, <3>1, FailSame DEF Handled
  <2>3. CASE MapFileFails \/ HeaderFileFails \/ Crash
    BY <1>0, <2>3, FailSame DEF MapFileFails, HeaderFileFails, Crash, Leave, Handled
  <2> QED
    BY <1>6, <2>1, <2>2, <2>3 DEF Fault
<1>7. CASE UNCHANGED vars
  BY <1>0, <1>7, FailSame DEF vars, Handled
<1> QED
  BY <1>1, <1>2, <1>3, <1>4, <1>5, <1>6, <1>7 DEF Next

(* Texts and files are as long as MaxCalls allows, and a worker writes no  *)
(* further than the end of its text.                                       *)
BoundInv ==
  /\ \A f \in Files : Len(src[f]) <= MaxCalls
  /\ \A w \in Workers : Len(text[w]) <= MaxCalls /\ written[w] <= Len(text[w])

LEMMA BoundSame ==
  ASSUME BoundInv, UNCHANGED <<text, written>>,
         \A f \in Files : Len(src'[f]) = Len(src[f])
  PROVE  BoundInv'
  BY DEF BoundInv

LEMMA BoundLeave ==
  ASSUME BoundInv, NEW s, Leave(s),
         \A f \in Files : Len(src'[f]) = Len(src[f])
  PROVE  BoundInv'
<1>1. \A w \in Workers : text'[w] = <<>> /\ written'[w] = 0
  BY DEF Leave
<1>2. \A w \in Workers : Len(text'[w]) = 0
  BY <1>1, EmptySeq
<1> QED
  BY <1>1, <1>2, ProjectAssumption DEF BoundInv

(* Files with the same calls are of the same length.                       *)
LEMMA SameLength ==
  ASSUME TypeInv, TypeInv', \A f \in Files : DOMAIN src'[f] = DOMAIN src[f]
  PROVE  \A f \in Files : Len(src'[f]) = Len(src[f])
<1> SUFFICES ASSUME NEW f \in Files PROVE Len(src'[f]) = Len(src[f])
  OBVIOUS
<1>1. /\ DOMAIN src[f] = 1 .. Len(src[f]) /\ Len(src[f]) \in Nat
      /\ DOMAIN src'[f] = 1 .. Len(src'[f]) /\ Len(src'[f]) \in Nat
  BY LenProperties DEF TypeInv
<1>2. 1 .. Len(src'[f]) = 1 .. Len(src[f])
  BY <1>1
<1> QED
  BY <1>1, <1>2

LEMMA BoundNext ==
  ASSUME TypeInv, BoundInv, [Next]_vars
  PROVE  BoundInv'
<1> USE DEF disk, pool, worker, result, collect
<1>0. TypeInv'
  BY TypeNext
<1>1. CASE Developer
  <2>1. ASSUME NEW f \in Files, NEW m \in Messages, AddLog(f, m) PROVE BoundInv'
    <3> DEFINE call == [msg |-> m, tag |-> Placeholder]
    <3>1. call \in Call /\ src[f] \in Seq(Call) /\ Len(src[f]) \in Nat /\ MaxCalls \in Nat
      BY ProjectAssumption, LenProperties DEF Call, TypeInv
    <3>2. Len(Append(src[f], call)) = Len(src[f]) + 1
      BY <3>1, AppendProperties
    <3>3. /\ Len(src[f]) < MaxCalls /\ src' = [src EXCEPT ![f] = Append(src[f], call)]
          /\ UNCHANGED <<text, written>>
      BY <2>1 DEF AddLog
    <3> HIDE DEF call
    <3>4. /\ src'[f] = Append(src[f], call) /\ \A g \in Files \ {f} : src'[g] = src[g]
      BY <3>3 DEF TypeInv
    <3>5. Len(src'[f]) <= MaxCalls
      BY <3>1, <3>2, <3>3, <3>4
    <3> QED
      BY <3>3, <3>4, <3>5 DEF BoundInv
  <2>2. ASSUME NEW f \in Files, NEW m \in Messages, NEW k \in DOMAIN src[f],
               ChangeMessage(f, k, m)
        PROVE  BoundInv'
    <3>1. src' = [src EXCEPT ![f][k].msg = m] /\ UNCHANGED <<text, written>>
      BY <2>2 DEF ChangeMessage
    <3>2. \A g \in Files : DOMAIN src'[g] = DOMAIN src[g]
      BY <3>1 DEF TypeInv
    <3> QED
      BY <1>0, <3>1, <3>2, SameLength, BoundSame
  <2> QED
    BY <1>1, <2>1, <2>2 DEF Developer
<1>2. CASE (\E s \in RefusalStatuses : Refuse(s)) \/ Start
  BY <1>2, BoundSame DEF Refuse, Start
<1>3. CASE MainThread
  <2>1. CASE GenerateHeaderFile
    BY <2>1, BoundLeave DEF GenerateHeaderFile
  <2>2. CASE ~GenerateHeaderFile
    BY <1>3, <2>2, BoundSame DEF MainThread, AddJob, AssignIDs, GenerateMapFile
  <2> QED
    BY <2>1, <2>2
<1>4. ASSUME NEW w \in Workers, WorkerStep(w) PROVE BoundInv'
  <2>1. CASE Load(w)
    <3> DEFINE calls == src[FileOf[job[w]]]
    <3>1. FileOf[job[w]] \in Files /\ calls \in Seq(Call)
      BY <2>1, FileOfPath DEF Load, TypeInv, WorkerTypes
    <3>2. Retagged(calls) \in Seq(Call) /\ DOMAIN Retagged(calls) = DOMAIN calls
      BY <3>1, RetaggedType
    <3>3. Len(Retagged(calls)) = Len(calls) /\ Len(calls) \in Nat
      BY <3>1, <3>2, LenProperties
    <3>4. Len(calls) <= MaxCalls
      BY <3>1 DEF BoundInv
    <3>5. /\ text' = [text EXCEPT ![w] = Retagged(calls)] /\ written' = [written EXCEPT ![w] = 0]
          /\ src' = src
      BY <2>1 DEF Load
    <3> HIDE DEF calls
    <3>6. /\ text'[w] = Retagged(calls) /\ written'[w] = 0
          /\ \A v \in Workers \ {w} : text'[v] = text[v] /\ written'[v] = written[v]
      BY <3>5 DEF TypeInv, WorkerTypes
    <3> QED
      BY <3>3, <3>4, <3>5, <3>6 DEF BoundInv
  <2>2. CASE WriteCall(w)
    <3>1. /\ written[w] < Len(text[w]) /\ written' = [written EXCEPT ![w] = written[w] + 1]
          /\ src' = [src EXCEPT ![FileOf[job[w]]][written[w] + 1] = text[w][written[w] + 1]]
          /\ UNCHANGED text
      BY <2>2 DEF WriteCall
    <3>2. written[w] \in Nat /\ Len(text[w]) \in Nat
      BY LenProperties DEF TypeInv, WorkerTypes
    <3>3. /\ written'[w] = written[w] + 1
          /\ \A v \in Workers \ {w} : written'[v] = written[v]
      BY <3>1 DEF TypeInv, WorkerTypes
    <3>4. \A f \in Files : DOMAIN src'[f] = DOMAIN src[f]
      BY <3>1 DEF TypeInv
    <3>5. \A f \in Files : Len(src'[f]) = Len(src[f])
      BY <1>0, <3>4, SameLength
    <3>6. written'[w] <= Len(text'[w])
      BY <3>1, <3>2, <3>3
    <3> QED
      BY <3>1, <3>3, <3>5, <3>6 DEF BoundInv
  <2>3. CASE Return(w)
    <3>1. /\ text' = [text EXCEPT ![w] = <<>>] /\ written' = [written EXCEPT ![w] = 0]
          /\ src' = src
      BY <2>3 DEF Return
    <3>2. /\ text'[w] = <<>> /\ written'[w] = 0 /\ Len(<<>>) = 0
          /\ \A v \in Workers \ {w} : text'[v] = text[v] /\ written'[v] = written[v]
      BY <3>1, EmptySeq DEF TypeInv, WorkerTypes
    <3> QED
      BY <3>1, <3>2, ProjectAssumption DEF BoundInv
  <2>4. CASE ExitInWorker(w)
    <3>1. \A f \in Files : DOMAIN src'[f] = DOMAIN src[f]
      BY <2>4, TearEffect DEF ExitInWorker, TypeInv
    <3> QED
      BY <1>0, <2>4, <3>1, SameLength, BoundLeave DEF ExitInWorker
  <2>5. CASE Take(w) \/ AppendToMasterHashMap(w) \/ Close(w)
    BY <2>5, BoundSame DEF Take, AppendToMasterHashMap, Close
  <2> QED
    BY <1>4, <2>1, <2>2, <2>3, <2>4, <2>5 DEF WorkerStep
<1>5. CASE Fault
  <2>1. ASSUME NEW w \in Workers, OpenFails(w) \/ WriteFails(w) PROVE BoundInv'
    BY <2>1, BoundSame DEF OpenFails, WriteFails
  <2>2. CASE MapFileFails
    BY <2>2, BoundSame DEF MapFileFails
  <2>3. CASE HeaderFileFails
    BY <2>3, BoundLeave DEF HeaderFileFails
  <2>4. CASE Crash
    <3>1. \A f \in Files : DOMAIN src'[f] = DOMAIN src[f]
      BY <2>4, TearEffect DEF Crash, TypeInv
    <3> QED
      BY <1>0, <2>4, <3>1, SameLength, BoundLeave DEF Crash
  <2> QED
    BY <1>5, <2>1, <2>2, <2>3, <2>4 DEF Fault
<1>6. CASE UNCHANGED vars
  BY <1>6, BoundSame DEF vars
<1> QED
  BY <1>1, <1>2, <1>3, <1>4, <1>5, <1>6 DEF Next

(* Map and header are made of the messages that were collected and of      *)
(* their numbers, also when the writing of one was cut off.                *)
FileInv ==
  /\ DOMAIN map \subseteq Nat /\ \A i \in DOMAIN map : map[i] \in Messages
  /\ DOMAIN header \subseteq Tags /\ \A t \in DOMAIN header : header[t] \in Nat
  /\ status \in {"none", "OK", "exit", "crash"} \cup RefusalStatuses

LEMMA RowTypes ==
  ASSUME MessageInv, NumberedInv, phase \in {"map", "header"}
  PROVE  /\ DOMAIN MapRows \subseteq Nat /\ \A i \in DOMAIN MapRows : MapRows[i] \in Messages
         /\ DOMAIN HeaderLines \subseteq Tags
         /\ \A t \in DOMAIN HeaderLines : HeaderLines[t] \in Nat
<1>1. masterHashMap \subseteq Messages /\ \A m \in masterHashMap : stagId[m] \in Nat
  <2>1. IsFiniteSet(masterHashMap) /\ Cardinality(masterHashMap) \in Nat
    BY FS_Subset, FS_CardinalityType, ProjectAssumption DEF MessageInv
  <2>2. \A m \in masterHashMap : stagId[m] \in 1 .. Cardinality(masterHashMap)
    BY DEF NumberedInv, Numberings
  <2> QED
    BY <2>1, <2>2 DEF MessageInv
<1>2. ASSUME NEW i \in DOMAIN MapRows PROVE i \in Nat /\ MapRows[i] \in Messages
  <2>1. PICK m \in masterHashMap : i = stagId[m]
    BY <1>2 DEF MapRows
  <2>2. (CHOOSE n \in masterHashMap : stagId[n] = i) \in masterHashMap
    BY <2>1
  <2> QED
    BY <1>1, <1>2, <2>1, <2>2 DEF MapRows
<1>3. ASSUME NEW t \in DOMAIN HeaderLines PROVE t \in Tags /\ HeaderLines[t] \in Nat
  <2>1. PICK m \in masterHashMap : t = TagOf[m]
    BY <1>3 DEF HeaderLines
  <2>2. (CHOOSE n \in masterHashMap : TagOf[n] = t) \in masterHashMap
    BY <2>1
  <2> QED
    BY <1>1, <1>3, <2>1, <2>2, ProjectAssumption DEF HeaderLines
<1> QED
  BY <1>2, <1>3

LEMMA FileNext ==
  ASSUME TypeInv, MessageInv, NumberedInv, FileInv, [Next]_vars
  PROVE  FileInv'
<1> USE DEF disk, pool, worker, result, collect
<1>1. CASE Developer
  BY <1>1 DEF Developer, AddLog, ChangeMessage, FileInv
<1>2. CASE \E s \in RefusalStatuses : Refuse(s)
  BY <1>2 DEF Refuse, FileInv
<1>3. CASE Start
  BY <1>3 DEF Start, FileInv
<1>4. CASE MainThread
  <2>1. CASE GenerateMapFile
    <3>1. phase = "map" /\ map' = MapRows /\ UNCHANGED <<header, status>>
      BY <2>1 DEF GenerateMapFile
    <3> QED
      BY <3>1, RowTypes DEF FileInv
  <2>2. CASE GenerateHeaderFile
    <3>1. phase = "header" /\ header' = HeaderLines /\ UNCHANGED map /\ status' = "OK"
      BY <2>2 DEF GenerateHeaderFile, Leave
    <3> QED
      BY <3>1, RowTypes DEF FileInv
  <2>3. CASE AssignIDs \/ \E p \in Paths : AddJob(p)
    BY <2>3 DEF AssignIDs, AddJob, FileInv
  <2> QED
    BY <1>4, <2>1, <2>2, <2>3 DEF MainThread
<1>5. ASSUME NEW w \in Workers, WorkerStep(w) PROVE FileInv'
  BY <1>5 DEF WorkerStep, Take, Load, AppendToMasterHashMap, WriteCall, Close, Return,
       ExitInWorker, Leave, FileInv
<1>6. CASE Fault
  <2>1. CASE Crash
    <3>1. CASE phase = "map" /\ UNCHANGED header /\ \E k \in Cuts : map' = FirstRows(k)
      <4>1. PICK k \in Cuts : map' = FirstRows(k)
        BY <3>1
      <4>2. DOMAIN map' \subseteq DOMAIN MapRows /\ \A i \in DOMAIN map' : map'[i] = MapRows[i]
        BY <4>1 DEF FirstRows
      <4>3. UNCHANGED header /\ status' = "crash"
        BY <2>1, <3>1 DEF Crash, Leave
      <4> QED
        BY <3>1, <4>2, <4>3, RowTypes DEF FileInv
    <3>2. CASE phase = "header" /\ UNCHANGED map /\ \E k \in Cuts : header' = FirstLines(k)
      <4>1. PICK k \in Cuts : header' = FirstLines(k)
        BY <3>2
      <4>2. /\ DOMAIN header' \subseteq DOMAIN HeaderLines
            /\ \A t \in DOMAIN header' : header'[t] = HeaderLines[t]
        BY <4>1 DEF FirstLines
      <4>3. UNCHANGED map /\ status' = "crash"
        BY <2>1, <3>2 DEF Crash, Leave
      <4> QED
        BY <3>2, <4>2, <4>3, RowTypes DEF FileInv
    <3>3. CASE UNCHANGED <<map, header>>
      BY <2>1, <3>3 DEF Crash, Leave, FileInv
    <3> QED
      BY <2>1, <3>1, <3>2, <3>3 DEF Crash
  <2>2. CASE ~Crash
    BY <1>6, <2>2 DEF Fault, OpenFails, WriteFails, MapFileFails, HeaderFileFails, Leave, FileInv
  <2> QED
    BY <2>1, <2>2
<1>7. CASE UNCHANGED vars
  BY <1>7 DEF vars, FileInv
<1> QED
  BY <1>1, <1>2, <1>3, <1>4, <1>5, <1>6, <1>7 DEF Next

RunInv ==
  TypeInv /\ OnceInv /\ QuietInv /\ NumberedInv /\ MessageInv /\ FailInv /\ BoundInv /\ FileInv

LEMMA RunInvInit == Init => RunInv
<1> SUFFICES ASSUME Init PROVE RunInv
  OBVIOUS
<1>1. FailInv
  <2>1. Cardinality(Paths) \in Nat
    BY FS_CardinalityType, ProjectAssumption
  <2> QED
    BY <2>1 DEF Init, FailInv
<1>2. BoundInv
  BY EmptySeq, ProjectAssumption DEF Init, BoundInv
<1>3. FileInv
  BY DEF Init, FileInv, EmptyFile
<1> QED
  BY <1>1, <1>2, <1>3, TypeInit, OnceInit, QuietInit, MessageInit DEF RunInv

LEMMA ShortSeq ==
  ASSUME NEW S, NEW s \in Seq(S), NEW n \in Nat, Len(s) <= n
  PROVE  s \in SeqsUpTo(S, n)
<1>1. Len(s) \in 0 .. n /\ s \in [1 .. Len(s) -> S]
  BY LenProperties
<1> QED
  BY <1>1 DEF SeqsUpTo

LEMMA RunInvTypeOK ==
  ASSUME RunInv
  PROVE  TypeOK
<1> USE DEF RunInv
<1>1. src \in [Files -> SeqsUpTo(Call, MaxCalls)]
  <2>1. \A f \in Files : src[f] \in SeqsUpTo(Call, MaxCalls)
    BY ShortSeq, ProjectAssumption DEF TypeInv, BoundInv
  <2> QED
    BY <2>1 DEF TypeInv
<1>2. text \in [Workers -> SeqsUpTo(Call, MaxCalls)]
  <2>1. \A w \in Workers : text[w] \in SeqsUpTo(Call, MaxCalls)
    BY ShortSeq, ProjectAssumption DEF TypeInv, WorkerTypes, BoundInv
  <2> QED
    BY <2>1 DEF TypeInv, WorkerTypes
<1>3. written \in [Workers -> 0 .. MaxCalls]
  <2>1. \A w \in Workers : written[w] \in 0 .. MaxCalls
    <3> SUFFICES ASSUME NEW w \in Workers PROVE written[w] \in 0 .. MaxCalls
      OBVIOUS
    <3>1. written[w] \in Nat /\ Len(text[w]) \in Nat /\ MaxCalls \in Nat
      BY LenProperties, ProjectAssumption DEF TypeInv, WorkerTypes
    <3>2. written[w] <= Len(text[w]) /\ Len(text[w]) <= MaxCalls
      BY DEF BoundInv
    <3> QED
      BY <3>1, <3>2
  <2> QED
    BY <2>1 DEF TypeInv, WorkerTypes
<1>4. /\ phase \in {"off", "pool", "map", "header"} /\ edited \in BOOLEAN
      /\ wpc \in [Workers -> {"idle", "open", "append", "write", "return"}]
  BY DEF TypeInv, WorkerTypes
<1>5. errorCnt \in 0 .. Cardinality(Paths) /\ masterHashMap \subseteq Messages
  BY DEF FailInv, MessageInv
<1> QED
  BY <1>1, <1>2, <1>3, <1>4, <1>5 DEF TypeOK, FileInv

(* Every state of a run, with any fault and any edit, is one of TypeOK:    *)
(* in particular a run counts at most one error per path, the map has only *)
(* messages and the header only numbers, wherever the process was killed.  *)
THEOREM RunTypeCorrect == Spec => []TypeOK
<1>1. RunInv /\ [Next]_vars => RunInv'
  BY TypeNext, OnceNext, QuietNext, MessageNext, FailNext, BoundNext, FileNext DEF RunInv
<1> QED
  BY <1>1, RunInvInit, RunInvTypeOK, PTL DEF Spec

=============================================================================
