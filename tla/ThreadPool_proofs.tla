------------------------- MODULE ThreadPool_proofs --------------------------
(***************************************************************************)
(* Proofs about ThreadPool for any number of workers and any set of jobs.  *)
(* The safety properties follow from the inductive invariant IndInv; the   *)
(* refinement of JobPool follows from IndInv step by step.                 *)
(***************************************************************************)
EXTENDS ThreadPool, FiniteSetTheorems, SequenceTheorems, TLAPS

-----------------------------------------------------------------------------
(* The inductive invariant.                                                *)

(* qMutex is held exactly where the code holds its guard objects.          *)
LockInv ==
  /\ \A w \in Workers : qMutex = w <=> pc[w] = "inQueue"
  /\ qMutex = Main <=> mpc \in {"setFlag", "emplace", "notify", "unlock"}

(* A worker holds a job from GetJob's return to the end of the call.       *)
JobInv == \A w \in Workers : job[w] # None <=> pc[w] \in {"chain", "run"}

(* terminate is stored after the last AddJob and never reset.              *)
TermInv ==
  /\ terminate <=> mpc \in {"join", "joined"}
  /\ terminate => pending = {}
  /\ \A w \in Workers : pc[w] = "whileFlag" => terminate

Done == {w \in Workers : pc[w] = "done"}

ExitInv ==
  /\ exitCnt = Cardinality(Done)
  /\ mpc = "joined" => Done = Workers

IndInv ==
  /\ TypeOK
  /\ LockInv
  /\ JobInv
  /\ TermInv
  /\ ExitInv
  /\ FlagCoversQueue
  /\ NoEarlyExit
  /\ JobConservation

-----------------------------------------------------------------------------
(* What Append and Tail do to the set of queued jobs.                      *)

LEMMA AppendElements ==
  ASSUME NEW S, NEW q \in Seq(S), NEW j \in S,
         \A i \in DOMAIN q : q[i] # j,
         \A i, k \in DOMAIN q : q[i] = q[k] => i = k
  PROVE  LET r == Append(q, j)
         IN  /\ {r[i] : i \in DOMAIN r} = {q[i] : i \in DOMAIN q} \cup {j}
             /\ \A i, k \in DOMAIN r : r[i] = r[k] => i = k
<1> DEFINE r == Append(q, j)
<1>1. DOMAIN q = 1 .. Len(q) /\ Len(q) \in Nat
  BY LenProperties
<1>2. /\ DOMAIN r = 1 .. Len(q) + 1
      /\ \A i \in 1 .. Len(q) : r[i] = q[i]
      /\ r[Len(q) + 1] = j
  BY AppendProperties, LenProperties
<1> HIDE DEF r
<1>3. DOMAIN r = DOMAIN q \cup {Len(q) + 1}
  BY <1>1, <1>2
<1>4. {r[i] : i \in DOMAIN r} = {q[i] : i \in DOMAIN q} \cup {j}
  BY <1>1, <1>2, <1>3
<1>5. \A i, k \in DOMAIN r : r[i] = r[k] => i = k
  BY <1>1, <1>2, <1>3
<1> QED
  BY <1>4, <1>5 DEF r

LEMMA TailElements ==
  ASSUME NEW S, NEW q \in Seq(S), q # <<>>,
         \A i, k \in DOMAIN q : q[i] = q[k] => i = k
  PROVE  LET r == Tail(q)
         IN  /\ {q[i] : i \in DOMAIN q} = {r[i] : i \in DOMAIN r} \cup {Head(q)}
             /\ Head(q) \notin {r[i] : i \in DOMAIN r}
             /\ \A i, k \in DOMAIN r : r[i] = r[k] => i = k
<1> DEFINE r == Tail(q)
<1>1. /\ DOMAIN q = 1 .. Len(q)
      /\ Len(q) \in Nat \ {0}
      /\ Head(q) = q[1]
  BY LenProperties, EmptySeq
<1>2. /\ DOMAIN r = 1 .. Len(q) - 1
      /\ \A i \in DOMAIN r : r[i] = q[i + 1]
  BY HeadTailProperties, LenProperties, <1>1
<1> HIDE DEF r
<1>3. \A i \in DOMAIN q \ {1} : i - 1 \in DOMAIN r /\ r[i - 1] = q[i]
  BY <1>1, <1>2
<1>4. \A i \in DOMAIN r : i + 1 \in DOMAIN q \ {1}
  BY <1>1, <1>2
<1>5. {q[i] : i \in DOMAIN q} = {r[i] : i \in DOMAIN r} \cup {Head(q)}
  <2>1. ASSUME NEW i \in DOMAIN q
        PROVE  q[i] \in {r[k] : k \in DOMAIN r} \cup {Head(q)}
    BY <1>1, <1>3
  <2>2. ASSUME NEW i \in DOMAIN r
        PROVE  r[i] \in {q[k] : k \in DOMAIN q}
    BY <1>2, <1>4
  <2>3. Head(q) \in {q[k] : k \in DOMAIN q}
    BY <1>1
  <2> QED
    BY <2>1, <2>2, <2>3
<1>6. Head(q) \notin {r[i] : i \in DOMAIN r}
  BY <1>1, <1>2, <1>4
<1>7. \A i, k \in DOMAIN r : r[i] = r[k] => i = k
  BY <1>1, <1>2, <1>4
<1> QED
  BY <1>5, <1>6, <1>7 DEF r

-----------------------------------------------------------------------------
(* Notifications only move sleeping workers to the head of wait.           *)

LEMMA NotifyOneEffect ==
  ASSUME TypeOK, NEW p \in [Workers -> WorkerPC], NotifyOne(p),
         \A w \in Waiting : p[w] = "wait"
  PROVE  /\ pc' \in [Workers -> WorkerPC]
         /\ \A w \in Workers : pc'[w] = p[w] \/ (p[w] = "wait" /\ pc'[w] = "lock")
  BY DEF NotifyOne, Waiting, TypeOK, WorkerPC

LEMMA NotifyAllEffect ==
  ASSUME TypeOK, NotifyAll
  PROVE  /\ pc' \in [Workers -> WorkerPC]
         /\ \A w \in Workers : pc'[w] = pc[w] \/ (pc[w] = "wait" /\ pc'[w] = "lock")
  BY DEF NotifyAll, TypeOK, WorkerPC

LEMMA ChainEffect ==
  ASSUME TypeOK, NEW w \in Workers, ChainNotify(w)
  PROVE  /\ pc' \in [Workers -> WorkerPC]
         /\ pc[w] = "chain" /\ pc'[w] = "run"
         /\ \A v \in Workers \ {w} :
              pc'[v] = pc[v] \/ (pc[v] = "wait" /\ pc'[v] = "lock")
<1> DEFINE running == [pc EXCEPT ![w] = "run"]
<1>1. pc[w] = "chain" /\ running \in [Workers -> WorkerPC]
  BY DEF ChainNotify, TypeOK, WorkerPC
<1>2. \A v \in Waiting : running[v] = "wait"
  BY <1>1 DEF Waiting, TypeOK
<1>3. CASE queueNonEmpty
  <2>1. NotifyOne(running)
    BY <1>3 DEF ChainNotify
  <2> QED
    BY <1>1, <1>2, <2>1, NotifyOneEffect DEF TypeOK
<1>4. CASE ~queueNonEmpty
  BY <1>1, <1>4 DEF ChainNotify, TypeOK
<1> QED
  BY <1>3, <1>4

LEMMA AddNotifyEffect ==
  ASSUME TypeOK, AddNotify
  PROVE  /\ pc' \in [Workers -> WorkerPC]
         /\ \A w \in Workers : pc'[w] = pc[w] \/ (pc[w] = "wait" /\ pc'[w] = "lock")
  BY NotifyOneEffect DEF AddNotify, TypeOK, Waiting

-----------------------------------------------------------------------------
(* Every variable keeps its type.                                          *)

LEMMA TypeInit == Init => TypeOK
<1> SUFFICES ASSUME Init PROVE TypeOK
  OBVIOUS
<1>1. queue \in Seq(Jobs)
  BY EmptySeq DEF Init
<1> QED
  BY <1>1, PoolAssumption DEF Init, TypeOK, WorkerPC, MainPC

LEMMA TypeStep == TypeOK /\ JobInv /\ [Next]_vars => TypeOK'
<1> SUFFICES ASSUME TypeOK, JobInv, [Next]_vars PROVE TypeOK'
  OBVIOUS
<1> USE DEF TypeOK, WorkerPC, MainPC, flags, counts, client, GoTo
<1>1. CASE AddLock
  BY <1>1 DEF AddLock
<1>2. CASE AddSetFlag
  BY <1>2 DEF AddSetFlag
<1>3. ASSUME NEW j \in pending, AddEmplace(j) PROVE TypeOK'
  <2>1. queue' \in Seq(Jobs)
    BY <1>3, AppendProperties DEF AddEmplace
  <2> QED
    BY <1>3, <2>1 DEF AddEmplace
<1>4. CASE AddNotify
  BY <1>4, AddNotifyEffect DEF AddNotify
<1>5. CASE AddUnlock
  BY <1>5 DEF AddUnlock
<1>6. CASE JoinTerminate
  BY <1>6 DEF JoinTerminate
<1>7. CASE JoinNotify
  BY <1>7, NotifyAllEffect DEF JoinNotify
<1>8. CASE JoinReturn
  BY <1>8 DEF JoinReturn
<1>9. ASSUME NEW w \in Workers, LoopTerminate(w) PROVE TypeOK'
  BY <1>9 DEF LoopTerminate
<1>10. ASSUME NEW w \in Workers, LoopFlag(w) PROVE TypeOK'
  BY <1>10 DEF LoopFlag
<1>11. ASSUME NEW w \in Workers, LockCv(w) PROVE TypeOK'
  BY <1>11 DEF LockCv
<1>12. ASSUME NEW w \in Workers, EvalPredicate(w) PROVE TypeOK'
  BY <1>12 DEF EvalPredicate
<1>13. ASSUME NEW w \in Workers, Block(w) PROVE TypeOK'
  BY <1>13 DEF Block
<1>14. ASSUME NEW w \in Workers, UnlockCv(w) PROVE TypeOK'
  BY <1>14 DEF UnlockCv
<1>15. ASSUME NEW w \in Workers, SpuriousWake(w) PROVE TypeOK'
  BY <1>15 DEF SpuriousWake
<1>16. ASSUME NEW w \in Workers, TryLock(w) PROVE TypeOK'
  BY <1>16 DEF TryLock
<1>17. ASSUME NEW w \in Workers, FindEmpty(w) PROVE TypeOK'
  BY <1>17 DEF FindEmpty
<1>18. ASSUME NEW w \in Workers, PopFront(w) PROVE TypeOK'
  <2>1. Head(queue) \in Jobs /\ queue' \in Seq(Jobs)
    BY <1>18, HeadTailProperties DEF PopFront
  <2> QED
    BY <1>18, <2>1 DEF PopFront
<1>19. ASSUME NEW w \in Workers, ChainNotify(w) PROVE TypeOK'
  BY <1>19, ChainEffect DEF ChainNotify
<1>20. ASSUME NEW w \in Workers, RunJob(w) PROVE TypeOK'
  <2>1. job[w] \in Jobs
    BY <1>20 DEF RunJob, JobInv
  <2> QED
    BY <1>20, <2>1 DEF RunJob
<1>21. ASSUME NEW w \in Workers, Until(w) PROVE TypeOK'
  BY <1>21 DEF Until
<1>22. ASSUME NEW w \in Workers, Exit(w) PROVE TypeOK'
  BY <1>22 DEF Exit
<1>23. CASE UNCHANGED vars
  BY <1>23 DEF vars
<1> QED
  BY <1>1, <1>2, <1>3, <1>4, <1>5, <1>6, <1>7, <1>8, <1>9, <1>10, <1>11, <1>12,
     <1>13, <1>14, <1>15, <1>16, <1>17, <1>18, <1>19, <1>20, <1>21, <1>22, <1>23
     DEF Next, MainStep, WorkerStep

-----------------------------------------------------------------------------
(* The control part of the invariant: who holds qMutex, who holds a job,   *)
(* what terminate and queueNonEmpty say, and which workers may leave.      *)

ControlInv == LockInv /\ JobInv /\ TermInv /\ FlagCoversQueue /\ NoEarlyExit

LEMMA ControlStep ==
  ASSUME TypeOK, ControlInv, [Next]_vars
  PROVE  ControlInv'
<1> USE PoolAssumption
    DEF TypeOK, WorkerPC, MainPC, flags, counts, client, GoTo,
        ControlInv, LockInv, JobInv, TermInv, FlagCoversQueue, NoEarlyExit
<1>1. CASE AddLock
  BY <1>1 DEF AddLock
<1>2. CASE AddSetFlag
  BY <1>2 DEF AddSetFlag
<1>3. ASSUME NEW j \in pending, AddEmplace(j) PROVE ControlInv'
  BY <1>3, AppendProperties DEF AddEmplace
<1>4. CASE AddNotify
  BY <1>4, AddNotifyEffect DEF AddNotify
<1>5. CASE AddUnlock
  BY <1>5 DEF AddUnlock
<1>6. CASE JoinTerminate
  BY <1>6 DEF JoinTerminate
<1>7. CASE JoinNotify
  BY <1>7, NotifyAllEffect DEF JoinNotify
<1>8. CASE JoinReturn
  BY <1>8 DEF JoinReturn
<1>9. ASSUME NEW w \in Workers, LoopTerminate(w) PROVE ControlInv'
  BY <1>9 DEF LoopTerminate
<1>10. ASSUME NEW w \in Workers, LoopFlag(w) PROVE ControlInv'
  BY <1>10 DEF LoopFlag
<1>11. ASSUME NEW w \in Workers, LockCv(w) PROVE ControlInv'
  BY <1>11 DEF LockCv
<1>12. ASSUME NEW w \in Workers, EvalPredicate(w) PROVE ControlInv'
  BY <1>12 DEF EvalPredicate
<1>13. ASSUME NEW w \in Workers, Block(w) PROVE ControlInv'
  BY <1>13 DEF Block
<1>14. ASSUME NEW w \in Workers, UnlockCv(w) PROVE ControlInv'
  BY <1>14 DEF UnlockCv
<1>15. ASSUME NEW w \in Workers, SpuriousWake(w) PROVE ControlInv'
  BY <1>15 DEF SpuriousWake
<1>16. ASSUME NEW w \in Workers, TryLock(w) PROVE ControlInv'
  BY <1>16 DEF TryLock
<1>17. ASSUME NEW w \in Workers, FindEmpty(w) PROVE ControlInv'
  BY <1>17 DEF FindEmpty
<1>18. ASSUME NEW w \in Workers, PopFront(w) PROVE ControlInv'
  BY <1>18 DEF PopFront
<1>19. ASSUME NEW w \in Workers, ChainNotify(w) PROVE ControlInv'
  BY <1>19, ChainEffect DEF ChainNotify
<1>20. ASSUME NEW w \in Workers, RunJob(w) PROVE ControlInv'
  BY <1>20 DEF RunJob
<1>21. ASSUME NEW w \in Workers, Until(w) PROVE ControlInv'
  BY <1>21 DEF Until
<1>22. ASSUME NEW w \in Workers, Exit(w) PROVE ControlInv'
  BY <1>22 DEF Exit
<1>23. CASE UNCHANGED vars
  BY <1>23 DEF vars
<1> QED
  BY <1>1, <1>2, <1>3, <1>4, <1>5, <1>6, <1>7, <1>8, <1>9, <1>10, <1>11,
     <1>12, <1>13, <1>14, <1>15, <1>16, <1>17, <1>18, <1>19, <1>20, <1>21,
     <1>22, <1>23
     DEF Next, MainStep, WorkerStep

-----------------------------------------------------------------------------
(* exitCnt counts the workers that left.  Only Exit changes either side.   *)

LEMMA DoneFinite == IsFiniteSet(Done) /\ Cardinality(Done) \in Nat
  BY PoolAssumption, FS_Subset, FS_CardinalityType DEF Done

(* A step that moves no worker into or out of "done".                      *)
LEMMA SameDone ==
  ASSUME ExitInv, UNCHANGED <<exitCnt, mpc>>,
         \A w \in Workers : pc[w] = "done" <=> pc'[w] = "done"
  PROVE  ExitInv'
<1>1. Done' = Done
  BY DEF Done
<1> QED
  BY <1>1 DEF ExitInv

LEMMA SameDoneMain ==
  ASSUME ExitInv, UNCHANGED <<exitCnt, pc>>, mpc' # "joined"
  PROVE  ExitInv'
<1>1. Done' = Done
  BY DEF Done
<1> QED
  BY <1>1 DEF ExitInv

(* The counter can only reach the number of workers when all have left.    *)
LEMMA CountAll ==
  ASSUME ExitInv, exitCnt >= Cardinality(Workers)
  PROVE  Done = Workers
<1>1. Done \subseteq Workers
  BY DEF Done
<1>2. Cardinality(Done) <= Cardinality(Workers)
  BY <1>1, PoolAssumption, FS_Subset
<1>3. Cardinality(Workers) \in Nat
  BY PoolAssumption, FS_CardinalityType
<1>4. Cardinality(Done) = Cardinality(Workers)
  BY <1>2, <1>3, DoneFinite DEF ExitInv
<1> QED
  BY <1>1, <1>4, PoolAssumption, FS_Subset

LEMMA ExitStep ==
  ASSUME TypeOK, ExitInv, [Next]_vars
  PROVE  ExitInv'
<1> USE DEF TypeOK, WorkerPC, MainPC, flags, counts, client, GoTo
<1>1. CASE AddLock
  BY <1>1, SameDoneMain DEF AddLock
<1>2. CASE AddSetFlag
  BY <1>2, SameDoneMain DEF AddSetFlag
<1>3. ASSUME NEW j \in pending, AddEmplace(j) PROVE ExitInv'
  BY <1>3, SameDoneMain DEF AddEmplace
<1>4. CASE AddNotify
  <2>1. Done' = Done
    BY <1>4, AddNotifyEffect DEF Done
  <2> QED
    BY <1>4, <2>1 DEF AddNotify, ExitInv
<1>5. CASE AddUnlock
  BY <1>5, SameDoneMain DEF AddUnlock
<1>6. CASE JoinTerminate
  BY <1>6, SameDoneMain DEF JoinTerminate
<1>7. CASE JoinNotify
  BY <1>7, SameDone, NotifyAllEffect DEF JoinNotify
<1>8. CASE JoinReturn
  <2>1. Done' = Done
    BY <1>8 DEF JoinReturn, Done
  <2> QED
    BY <1>8, <2>1, CountAll DEF JoinReturn, ExitInv
<1>9. ASSUME NEW w \in Workers, LoopTerminate(w) PROVE ExitInv'
  BY <1>9, SameDone DEF LoopTerminate
<1>10. ASSUME NEW w \in Workers, LoopFlag(w) PROVE ExitInv'
  BY <1>10, SameDone DEF LoopFlag
<1>11. ASSUME NEW w \in Workers, LockCv(w) PROVE ExitInv'
  BY <1>11, SameDone DEF LockCv
<1>12. ASSUME NEW w \in Workers, EvalPredicate(w) PROVE ExitInv'
  BY <1>12, SameDone DEF EvalPredicate
<1>13. ASSUME NEW w \in Workers, Block(w) PROVE ExitInv'
  BY <1>13, SameDone DEF Block
<1>14. ASSUME NEW w \in Workers, UnlockCv(w) PROVE ExitInv'
  BY <1>14, SameDone DEF UnlockCv
<1>15. ASSUME NEW w \in Workers, SpuriousWake(w) PROVE ExitInv'
  BY <1>15, SameDone DEF SpuriousWake
<1>16. ASSUME NEW w \in Workers, TryLock(w) PROVE ExitInv'
  BY <1>16, SameDone DEF TryLock
<1>17. ASSUME NEW w \in Workers, FindEmpty(w) PROVE ExitInv'
  BY <1>17, SameDone DEF FindEmpty
<1>18. ASSUME NEW w \in Workers, PopFront(w) PROVE ExitInv'
  BY <1>18, SameDone DEF PopFront
<1>19. ASSUME NEW w \in Workers, ChainNotify(w) PROVE ExitInv'
  BY <1>19, SameDone, ChainEffect DEF ChainNotify
<1>20. ASSUME NEW w \in Workers, RunJob(w) PROVE ExitInv'
  BY <1>20, SameDone DEF RunJob
<1>21. ASSUME NEW w \in Workers, Until(w) PROVE ExitInv'
  BY <1>21, SameDone DEF Until
<1>22. ASSUME NEW w \in Workers, Exit(w) PROVE ExitInv'
  <2>1. Done' = Done \cup {w} /\ w \notin Done
    BY <1>22 DEF Exit, Done
  <2>2. Cardinality(Done') = Cardinality(Done) + 1
    BY <2>1, DoneFinite, FS_AddElement
  <2>3. mpc' = "joined" => Done' = Workers
    BY <1>22, <2>1 DEF Exit, ExitInv
  <2> QED
    BY <1>22, <2>2, <2>3 DEF Exit, ExitInv
<1>23. CASE UNCHANGED vars
  BY <1>23, SameDone DEF vars
<1> QED
  BY <1>1, <1>2, <1>3, <1>4, <1>5, <1>6, <1>7, <1>8, <1>9, <1>10, <1>11,
     <1>12, <1>13, <1>14, <1>15, <1>16, <1>17, <1>18, <1>19, <1>20, <1>21,
     <1>22, <1>23
     DEF Next, MainStep, WorkerStep

-----------------------------------------------------------------------------
(* No job is lost or handed out twice.                                     *)

LEMMA HeldTake ==
  ASSUME TypeOK, NEW w \in Workers, NEW j \in Jobs, job[w] = None,
         job' = [job EXCEPT ![w] = j]
  PROVE  Held' = Held \cup {j}
<1>1. \A v \in Workers : job'[v] = IF v = w THEN j ELSE job[v]
  BY DEF TypeOK
<1>2. j # None
  BY PoolAssumption
<1> QED
  BY <1>1, <1>2 DEF Held

LEMMA HeldDrop ==
  ASSUME TypeOK, NEW w \in Workers, job[w] # None,
         job' = [job EXCEPT ![w] = None],
         \A u, v \in Workers : job[u] = job[v] /\ job[u] # None => u = v
  PROVE  Held' = Held \ {job[w]}
<1>1. \A v \in Workers : job'[v] = IF v = w THEN None ELSE job[v]
  BY DEF TypeOK
<1>2. \A v \in Workers \ {w} : job[v] # job[w]
  OBVIOUS
<1> QED
  BY <1>1, <1>2 DEF Held

(* The steps that leave the jobs where they are.                           *)
LEMMA SameJobs ==
  ASSUME JobConservation, UNCHANGED <<pending, queue, job, finished>>
  PROVE  JobConservation'
<1>1. Queued' = Queued /\ Held' = Held
  BY DEF Queued, Held
<1> QED
  BY <1>1 DEF JobConservation

LEMMA EmplaceKeepsJobs ==
  ASSUME TypeOK, JobConservation, NEW j \in pending, AddEmplace(j)
  PROVE  JobConservation'
<1>1. j \in Jobs /\ \A i \in DOMAIN queue : queue[i] # j
  BY DEF JobConservation, Queued, TypeOK
<1>2. /\ Queued' = Queued \cup {j}
      /\ \A i, k \in DOMAIN queue' : queue'[i] = queue'[k] => i = k
  BY <1>1, AppendElements DEF AddEmplace, Queued, TypeOK, JobConservation
<1>3. Held' = Held
  BY DEF AddEmplace, Held
<1>4. pending' = pending \ {j} /\ UNCHANGED <<job, finished>>
  BY DEF AddEmplace
<1> QED
  BY <1>1, <1>2, <1>3, <1>4 DEF JobConservation

LEMMA PopKeepsJobs ==
  ASSUME TypeOK, JobInv, JobConservation, NEW w \in Workers, PopFront(w)
  PROVE  JobConservation'
<1> DEFINE j == Head(queue)
<1>1. queue \in Seq(Jobs) /\ queue # <<>> /\ queue' = Tail(queue)
  BY DEF PopFront, TypeOK
<1>2. j \in Jobs
  BY <1>1, HeadTailProperties
<1>3. /\ Queued = Queued' \cup {j}
      /\ j \notin Queued'
      /\ \A i, k \in DOMAIN queue' : queue'[i] = queue'[k] => i = k
  <2>1. \A i, k \in DOMAIN queue : queue[i] = queue[k] => i = k
    BY DEF JobConservation
  <2> QED
    BY <1>1, <2>1, TailElements DEF Queued
<1>4. job[w] = None /\ job' = [job EXCEPT ![w] = j]
  BY DEF PopFront, JobInv
<1> HIDE DEF j
<1>5. Held' = Held \cup {j}
  BY <1>2, <1>4, HeldTake
<1>6. UNCHANGED <<pending, finished>>
  BY DEF PopFront, client
<1>7. \A u, v \in Workers : job'[u] = job'[v] /\ job'[u] # None => u = v
  <2>1. \A v \in Workers : job[v] # j
    BY <1>2, <1>3, PoolAssumption DEF JobConservation, Held
  <2> QED
    BY <1>4, <2>1 DEF JobConservation, TypeOK
<1> QED
  BY <1>2, <1>3, <1>5, <1>6, <1>7 DEF JobConservation

LEMMA RunKeepsJobs ==
  ASSUME TypeOK, JobInv, JobConservation, NEW w \in Workers, RunJob(w)
  PROVE  JobConservation'
<1>1. job[w] # None /\ job' = [job EXCEPT ![w] = None]
  BY DEF RunJob, JobInv
<1>2. job[w] \in Held /\ job[w] \in Jobs
  BY <1>1 DEF Held, TypeOK
<1>3. Held' = Held \ {job[w]}
  BY <1>1, HeldDrop DEF JobConservation
<1>4. Queued' = Queued /\ finished' = finished \cup {job[w]} /\ pending' = pending
  BY DEF RunJob, Queued, client
<1>5. \A u, v \in Workers : job'[u] = job'[v] /\ job'[u] # None => u = v
  BY <1>1 DEF JobConservation, TypeOK
<1>6. queue' = queue
  BY DEF RunJob
<1> QED
  BY <1>2, <1>3, <1>4, <1>5, <1>6 DEF JobConservation

LEMMA ConservationStep ==
  ASSUME TypeOK, JobInv, JobConservation, [Next]_vars
  PROVE  JobConservation'
<1>1. ASSUME NEW j \in pending, AddEmplace(j) PROVE JobConservation'
  BY <1>1, EmplaceKeepsJobs
<1>2. ASSUME NEW w \in Workers, PopFront(w) PROVE JobConservation'
  BY <1>2, PopKeepsJobs
<1>3. ASSUME NEW w \in Workers, RunJob(w) PROVE JobConservation'
  BY <1>3, RunKeepsJobs
<1>4. CASE \/ AddLock \/ AddSetFlag \/ AddNotify \/ AddUnlock
           \/ JoinTerminate \/ JoinNotify \/ JoinReturn \/ UNCHANGED vars
  BY <1>4, SameJobs
     DEF AddLock, AddSetFlag, AddNotify, AddUnlock, JoinTerminate,
         JoinNotify, JoinReturn, client, vars
<1>5. ASSUME NEW w \in Workers,
             \/ LoopTerminate(w) \/ LoopFlag(w) \/ LockCv(w)
             \/ EvalPredicate(w) \/ Block(w) \/ UnlockCv(w)
             \/ SpuriousWake(w) \/ TryLock(w) \/ FindEmpty(w)
             \/ ChainNotify(w) \/ Until(w) \/ Exit(w)
      PROVE  JobConservation'
  BY <1>5, SameJobs
     DEF LoopTerminate, LoopFlag, LockCv, EvalPredicate, Block, UnlockCv,
         SpuriousWake, TryLock, FindEmpty, ChainNotify, Until, Exit, client
<1> QED
  BY <1>1, <1>2, <1>3, <1>4, <1>5 DEF Next, MainStep, WorkerStep

-----------------------------------------------------------------------------
(* The inductive invariant holds, and with it the safety properties.       *)

LEMMA IndInit == Init => IndInv
<1> SUFFICES ASSUME Init PROVE IndInv
  OBVIOUS
<1>1. TypeOK
  BY TypeInit
<1>2. LockInv /\ JobInv /\ TermInv /\ FlagCoversQueue /\ NoEarlyExit
  BY PoolAssumption
     DEF Init, LockInv, JobInv, TermInv, FlagCoversQueue, NoEarlyExit
<1>3. Done = {} /\ ExitInv
  BY FS_EmptySet DEF Init, Done, ExitInv
<1>4. Queued = {} /\ Held = {}
  BY DEF Init, Queued, Held
<1>5. JobConservation
  BY <1>4 DEF Init, JobConservation
<1> QED
  BY <1>1, <1>2, <1>3, <1>5 DEF IndInv

LEMMA IndStep == IndInv /\ [Next]_vars => IndInv'
<1> SUFFICES ASSUME IndInv, [Next]_vars PROVE IndInv'
  OBVIOUS
<1>1. TypeOK'
  BY TypeStep DEF IndInv
<1>2. ControlInv'
  BY ControlStep DEF IndInv, ControlInv
<1>3. ExitInv'
  BY ExitStep DEF IndInv
<1>4. JobConservation'
  BY ConservationStep DEF IndInv
<1> QED
  BY <1>1, <1>2, <1>3, <1>4 DEF IndInv, ControlInv

(* When every worker has left, nothing is pending, queued or held.         *)
LEMMA DoneMeansExecuted ==
  ASSUME IndInv, Done = Workers
  PROVE  /\ finished = Jobs
         /\ \A w \in Workers : pc[w] = "done"
<1>1. \A w \in Workers : pc[w] = "done"
  BY DEF Done
<1>2. pending = {} /\ queue = <<>>
  BY <1>1, PoolAssumption DEF IndInv, NoEarlyExit
<1>3. Queued = {}
  BY <1>2 DEF Queued
<1>4. Held = {}
  BY <1>1 DEF Held, IndInv, JobInv
<1>5. pending \cup Queued \cup Held \cup finished = Jobs
  BY DEF IndInv, JobConservation
<1> QED
  BY <1>1, <1>2, <1>3, <1>4, <1>5

LEMMA IndInvMeans ==
  IndInv => TypeOK /\ JobConservation /\ FlagCoversQueue /\ NoEarlyExit /\ JoinMeansDone
  BY DoneMeansExecuted DEF IndInv, ExitInv, JoinMeansDone

LEMMA Inductive == Spec => []IndInv
  BY IndInit, IndStep, PTL DEF Spec

(* The variables keep their types: WorkerWrapper never reads a job that    *)
(* GetJob did not return.                                                  *)
THEOREM TypeCorrect == Spec => []TypeOK
  BY Inductive, IndInvMeans, PTL

(* AddJob and GetJob lose no job and hand none out twice, for any number   *)
(* of workers (-j) and any set of files.                                   *)
THEOREM NoJobLostOrRepeated == Spec => []JobConservation
  BY Inductive, IndInvMeans, PTL

(* A false queueNonEmpty, read without qMutex, can be trusted.             *)
THEOREM FlagIsSound == Spec => []FlagCoversQueue
  BY Inductive, IndInvMeans, PTL

(* No worker leaves WorkerWrapper's loop while a job can still appear.     *)
THEOREM WorkersStayForTheLastJob == Spec => []NoEarlyExit
  BY Inductive, IndInvMeans, PTL

(* JoinAll returns only after every job was executed and every worker left,*)
(* so ProcessProject reads a complete masterHashMap without a lock.        *)
THEOREM JoinIsComplete == Spec => []JoinMeansDone
  BY Inductive, IndInvMeans, PTL

-----------------------------------------------------------------------------
(* Refinement of JobPool.                                                  *)

LEMMA RefinesInit == Init => Pool!Init
  BY DEF Init, Pool!Init

LEMMA RefinesStep == IndInv /\ [Next]_vars => [Pool!Next]_Pool!vars
<1> SUFFICES ASSUME IndInv, [Next]_vars PROVE [Pool!Next]_Pool!vars
  OBVIOUS
<1>1. ASSUME NEW j \in pending, AddEmplace(j) PROVE Pool!Next
  <2>1. j \in Jobs
    BY DEF IndInv, TypeOK
  <2>2. Pool!AddJob(j)
    BY <1>1 DEF AddEmplace, Pool!AddJob
  <2> QED
    BY <2>1, <2>2 DEF Pool!Next
<1>2. ASSUME NEW w \in Workers, PopFront(w) PROVE Pool!Next
  <2>1. Pool!Take(w)
    BY <1>2 DEF PopFront, client, IndInv, JobInv, Pool!Take
  <2> QED
    BY <2>1 DEF Pool!Next
<1>3. ASSUME NEW w \in Workers, RunJob(w) PROVE Pool!Next
  <2>1. job[w] # None
    BY <1>3 DEF RunJob, IndInv, JobInv
  <2>2. job[w] \notin finished
    BY <2>1 DEF IndInv, JobConservation, Held
  <2>3. Pool!Finish(w)
    BY <1>3, <2>1, <2>2 DEF RunJob, client, Pool!Finish
  <2> QED
    BY <2>3 DEF Pool!Next
<1>4. CASE JoinReturn
  <2>1. finished = Jobs
    BY <1>4, CountAll, DoneMeansExecuted DEF JoinReturn, IndInv
  <2>2. Pool!JoinAll
    BY <1>4, <2>1 DEF JoinReturn, Pool!JoinAll
  <2> QED
    BY <2>2 DEF Pool!Next
<1>5. CASE \/ AddLock \/ AddSetFlag \/ AddNotify \/ AddUnlock
           \/ JoinTerminate \/ JoinNotify \/ UNCHANGED vars
  BY <1>5
     DEF AddLock, AddSetFlag, AddNotify, AddUnlock, JoinTerminate, JoinNotify,
         client, vars, Pool!vars
<1>6. ASSUME NEW w \in Workers,
             \/ LoopTerminate(w) \/ LoopFlag(w) \/ LockCv(w)
             \/ EvalPredicate(w) \/ Block(w) \/ UnlockCv(w)
             \/ SpuriousWake(w) \/ TryLock(w) \/ FindEmpty(w)
             \/ ChainNotify(w) \/ Until(w) \/ Exit(w)
      PROVE  UNCHANGED Pool!vars
  BY <1>6
     DEF LoopTerminate, LoopFlag, LockCv, EvalPredicate, Block, UnlockCv,
         SpuriousWake, TryLock, FindEmpty, ChainNotify, Until, Exit, client,
         Pool!vars
<1> QED
  BY <1>1, <1>2, <1>3, <1>4, <1>5, <1>6 DEF Next, MainStep, WorkerStep

(* The mutexes, the flags, the condition variable and the exit counter     *)
(* implement the four atomic operations of JobPool.                        *)
THEOREM PoolRefinement == Spec => ImplementsJobPool
  BY RefinesInit, RefinesStep, Inductive, PTL DEF Spec, ImplementsJobPool, Pool!Spec

=============================================================================
