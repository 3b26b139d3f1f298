----------------------------- MODULE ThreadPool -----------------------------
(***************************************************************************)
(* ProjectProcessor/src/ThreadPool.h: the worker threads, the job queue,   *)
(* the two mutexes, the condition variable and the atomics of              *)
(* ThreadPool<JobType>, with the one client it has: the thread that adds   *)
(* every job and then calls JoinAll (ProjectProcessor::ProcessProject).    *)
(*                                                                         *)
(* Every lock operation, atomic access, wait and notify that another       *)
(* thread can observe is a step of its own.  A job is whatever the worker  *)
(* function is called with; each is added once.                            *)
(***************************************************************************)
EXTENDS Naturals, Sequences, FiniteSets

CONSTANTS Workers,  \* the threads of `pool`
          Jobs,     \* the jobs the client adds
          Main,     \* the thread that owns the pool
          None      \* no job held, or no thread holding a mutex

ASSUME PoolAssumption ==
  /\ IsFiniteSet(Workers) /\ Workers # {}
  /\ Main \notin Workers
  /\ None \notin Workers \cup Jobs \cup {Main}

VARIABLES
  terminate,      \* atomic<bool> terminate
  queueNonEmpty,  \* atomic<bool> queueNonEmpty
  queue,          \* queue<JobType> queue
  qMutex,         \* owner of qMutex
  cvMutex,        \* owner of cvMutex
  exitCnt,        \* atomic<unsigned> exitCnt
  errorCnt,       \* atomic<unsigned long long> errorCnt
  pc,             \* where each worker is in WorkerWrapper
  job,            \* the job each worker took from the queue
  mpc,            \* where the owning thread is
  pending,        \* jobs the owning thread has still to emplace
  finished        \* jobs the worker function was called with and left

vars == <<terminate, queueNonEmpty, queue, qMutex, cvMutex, exitCnt, errorCnt,
          pc, job, mpc, pending, finished>>

flags  == <<terminate, queueNonEmpty>>
counts == <<exitCnt, errorCnt>>
client == <<mpc, pending>>

WorkerPC == {"while", "whileFlag", "lock", "pred", "block", "wait", "unlock",
             "tryLock", "inQueue", "chain", "run", "until", "exit", "done"}
MainPC   == {"add", "setFlag", "emplace", "notify", "unlock", "join", "joined"}

(* The constructor: terminate{false}, queueNonEmpty{true} over a queue     *)
(* that is empty, every worker at the head of its loop.  errorCnt has no   *)
(* initializer of its own; C++20 value-initializes the atomic.             *)
Init ==
  /\ terminate = FALSE
  /\ queueNonEmpty = TRUE
  /\ queue = <<>>
  /\ qMutex = None
  /\ cvMutex = None
  /\ exitCnt = 0
  /\ errorCnt = 0
  /\ pc = [w \in Workers |-> "while"]
  /\ job = [w \in Workers |-> None]
  /\ mpc = "add"
  /\ pending = Jobs
  /\ finished = {}

-----------------------------------------------------------------------------
(* Condition variable.  A notify with nobody waiting is lost.  A notified  *)
(* thread has to take cvMutex again before it evaluates the predicate.     *)

Waiting == {w \in Workers : pc[w] = "wait"}

NotifyOne(p) ==
  \/ Waiting = {} /\ pc' = p
  \/ \E v \in Waiting : pc' = [p EXCEPT ![v] = "lock"]

NotifyAll == pc' = [w \in Workers |-> IF pc[w] = "wait" THEN "lock" ELSE pc[w]]

GoTo(w, label) == pc' = [pc EXCEPT ![w] = label]

-----------------------------------------------------------------------------
(* WorkerWrapper: the outer loop and the wait.                             *)

(* Mutation: the loop condition is !terminate alone.                       *)
LoopTerminate_NoFlag(w) ==
  /\ pc[w] = "while"
  /\ GoTo(w, IF terminate THEN "exit" ELSE "lock")
  /\ UNCHANGED <<flags, queue, qMutex, cvMutex, counts, job, client, finished>>

(* while (!terminate || queueNonEmpty): two loads, in this order.          *)
LoopTerminate(w) ==
  /\ pc[w] = "while"
  /\ GoTo(w, IF terminate THEN "whileFlag" ELSE "lock")
  /\ UNCHANGED <<flags, queue, qMutex, cvMutex, counts, job, client, finished>>

LoopFlag(w) ==
  /\ pc[w] = "whileFlag"
  /\ GoTo(w, IF queueNonEmpty THEN "lock" ELSE "exit")
  /\ UNCHANGED <<flags, queue, qMutex, cvMutex, counts, job, client, finished>>

LockCv(w) ==
  /\ pc[w] = "lock"
  /\ cvMutex = None
  /\ cvMutex' = w
  /\ GoTo(w, "pred")
  /\ UNCHANGED <<flags, queue, qMutex, counts, job, client, finished>>

(* The predicate of condVar.wait, evaluated with cvMutex held.  The second *)
(* load happens only when the first was false and terminate is never       *)
(* reset, so one step at the time of the first load loses no outcome.      *)
EvalPredicate(w) ==
  /\ pc[w] = "pred"
  /\ GoTo(w, IF queueNonEmpty \/ terminate THEN "unlock" ELSE "block")
  /\ UNCHANGED <<flags, queue, qMutex, cvMutex, counts, job, client, finished>>

(* wait releases cvMutex and joins the waiters in one step.                *)
Block(w) ==
  /\ pc[w] = "block"
  /\ cvMutex' = None
  /\ GoTo(w, "wait")
  /\ UNCHANGED <<flags, queue, qMutex, counts, job, client, finished>>

SpuriousWake(w) ==
  /\ pc[w] = "wait"
  /\ GoTo(w, "lock")
  /\ UNCHANGED <<flags, queue, qMutex, cvMutex, counts, job, client, finished>>

UnlockCv(w) ==
  /\ pc[w] = "unlock"
  /\ cvMutex' = None
  /\ GoTo(w, "tryLock")
  /\ UNCHANGED <<flags, queue, qMutex, counts, job, client, finished>>

-----------------------------------------------------------------------------
(* GetJob, and the do-while around it.                                     *)

(* Mutation: the nullopt of a failed try_lock is not tested.               *)
TryLock_Unchecked(w) ==
  /\ pc[w] = "tryLock"
  /\ IF qMutex = None THEN qMutex' = w /\ GoTo(w, "inQueue")
                      ELSE GoTo(w, "chain") /\ UNCHANGED qMutex
  /\ UNCHANGED <<flags, queue, cvMutex, counts, job, client, finished>>

TryLock(w) ==
  /\ pc[w] = "tryLock"
  /\ \/ /\ qMutex = None
        /\ qMutex' = w
        /\ GoTo(w, "inQueue")
     \/ /\ qMutex # None            \* nullopt; `continue` tests the condition
        /\ GoTo(w, "until")
        /\ UNCHANGED qMutex
  /\ UNCHANGED <<flags, queue, cvMutex, counts, job, client, finished>>

(* The body under qMutex; the lock is released when GetJob returns.        *)
FindEmpty(w) ==
  /\ pc[w] = "inQueue"
  /\ queue = <<>>
  /\ queueNonEmpty' = FALSE
  /\ qMutex' = None
  /\ GoTo(w, "until")
  /\ UNCHANGED <<terminate, queue, cvMutex, counts, job, client, finished>>

(* Mutation: front() is copied and not popped.                             *)
PopFront_NoPop(w) ==
  /\ pc[w] = "inQueue"
  /\ queue # <<>>
  /\ job' = [job EXCEPT ![w] = Head(queue)]
  /\ qMutex' = None
  /\ GoTo(w, "chain")
  /\ UNCHANGED <<flags, queue, cvMutex, counts, client, finished>>

(* Mutation: the newest job is taken (a stack).                            *)
PopFront_Newest(w) ==
  /\ pc[w] = "inQueue"
  /\ queue # <<>>
  /\ queue' = SubSeq(queue, 1, Len(queue) - 1)
  /\ job' = [job EXCEPT ![w] = queue[Len(queue)]]
  /\ qMutex' = None
  /\ GoTo(w, "chain")
  /\ UNCHANGED <<flags, cvMutex, counts, client, finished>>

PopFront(w) ==
  /\ pc[w] = "inQueue"
  /\ queue # <<>>
  /\ queue' = Tail(queue)
  /\ job' = [job EXCEPT ![w] = Head(queue)]
  /\ qMutex' = None
  /\ GoTo(w, "chain")
  /\ UNCHANGED <<flags, cvMutex, counts, client, finished>>

(* if (queueNonEmpty) condVar.notify_one()                                 *)
ChainNotify(w) ==
  LET running == [pc EXCEPT ![w] = "run"]
  IN  /\ pc[w] = "chain"
      /\ IF queueNonEmpty THEN NotifyOne(running) ELSE pc' = running
      /\ UNCHANGED <<flags, queue, qMutex, cvMutex, counts, job, client, finished>>

(* fn(job.value(), args...), which returns or throws; a throw is counted   *)
(* and the worker goes on.                                                 *)
RunJob(w) ==
  /\ pc[w] = "run"
  /\ errorCnt' \in {errorCnt, errorCnt + 1}
  /\ finished' = finished \cup {job[w]}
  /\ job' = [job EXCEPT ![w] = None]
  /\ GoTo(w, "until")
  /\ UNCHANGED <<flags, queue, qMutex, cvMutex, exitCnt, client>>

Until(w) ==
  /\ pc[w] = "until"
  /\ GoTo(w, IF queueNonEmpty THEN "tryLock" ELSE "while")
  /\ UNCHANGED <<flags, queue, qMutex, cvMutex, counts, job, client, finished>>

Exit(w) ==
  /\ pc[w] = "exit"
  /\ exitCnt' = exitCnt + 1
  /\ GoTo(w, "done")
  /\ UNCHANGED <<flags, queue, qMutex, cvMutex, errorCnt, job, client, finished>>

WorkerStep(w) ==
  \/ LoopTerminate(w) \/ LoopFlag(w) \/ LockCv(w) \/ EvalPredicate(w)
  \/ Block(w) \/ UnlockCv(w) \/ TryLock(w) \/ FindEmpty(w) \/ PopFront(w)
  \/ ChainNotify(w) \/ RunJob(w) \/ Until(w) \/ Exit(w)

-----------------------------------------------------------------------------
(* The owning thread: AddJob for every job, then JoinAll (called by        *)
(* ProcessProject, and by the destructor when terminate is not set yet).   *)

AddLock ==
  /\ mpc = "add"
  /\ pending # {}
  /\ qMutex = None
  /\ qMutex' = Main
  /\ mpc' = "setFlag"
  /\ UNCHANGED <<flags, queue, cvMutex, counts, pc, job, pending, finished>>

(* Mutation: queueNonEmpty is not stored.                                  *)
AddSetFlag_NoStore ==
  /\ mpc = "setFlag"
  /\ mpc' = "emplace"
  /\ UNCHANGED <<flags, queue, qMutex, cvMutex, counts, pc, job, pending, finished>>

AddSetFlag ==
  /\ mpc = "setFlag"
  /\ queueNonEmpty' = TRUE
  /\ mpc' = "emplace"
  /\ UNCHANGED <<terminate, queue, qMutex, cvMutex, counts, pc, job, pending, finished>>

AddEmplace(j) ==
  /\ mpc = "emplace"
  /\ queue' = Append(queue, j)
  /\ pending' = pending \ {j}
  /\ mpc' = "notify"
  /\ UNCHANGED <<flags, qMutex, cvMutex, counts, pc, job, finished>>

(* notify_one is called with qMutex held, not cvMutex: a worker between    *)
(* its predicate and its wait misses it.                                   *)
AddNotify ==
  /\ mpc = "notify"
  /\ NotifyOne(pc)
  /\ mpc' = "unlock"
  /\ UNCHANGED <<flags, queue, qMutex, cvMutex, counts, job, pending, finished>>

AddUnlock ==
  /\ mpc = "unlock"
  /\ qMutex' = None
  /\ mpc' = "add"
  /\ UNCHANGED <<flags, queue, cvMutex, counts, pc, job, pending, finished>>

JoinTerminate ==
  /\ mpc = "add"
  /\ pending = {}
  /\ terminate' = TRUE
  /\ mpc' = "join"
  /\ UNCHANGED <<queueNonEmpty, queue, qMutex, cvMutex, counts, pc, job, pending, finished>>

(* Mutation: JoinAll spins without notifying.                              *)
JoinNotify_Never ==
  /\ mpc = "join"
  /\ exitCnt < Cardinality(Workers)
  /\ UNCHANGED vars

(* while (exitCnt < pool.size()) notify_all                                *)
JoinNotify ==
  /\ mpc = "join"
  /\ exitCnt < Cardinality(Workers)
  /\ NotifyAll
  /\ UNCHANGED <<flags, queue, qMutex, cvMutex, counts, job, client, finished>>

(* Mutation: the wait ends one worker early.                               *)
JoinReturn_OffByOne ==
  /\ mpc = "join"
  /\ exitCnt + 1 >= Cardinality(Workers)
  /\ mpc' = "joined"
  /\ UNCHANGED <<flags, queue, qMutex, cvMutex, counts, pc, job, pending, finished>>

(* The counter is the last thing a worker touches; join() then returns.    *)
JoinReturn ==
  /\ mpc = "join"
  /\ exitCnt >= Cardinality(Workers)
  /\ mpc' = "joined"
  /\ UNCHANGED <<flags, queue, qMutex, cvMutex, counts, pc, job, pending, finished>>

MainStep ==
  \/ AddLock \/ AddSetFlag \/ (\E j \in pending : AddEmplace(j))
  \/ AddNotify \/ AddUnlock \/ JoinTerminate \/ JoinNotify \/ JoinReturn

Next ==
  \/ MainStep
  \/ \E w \in Workers : WorkerStep(w) \/ SpuriousWake(w)

Spec == Init /\ [][Next]_vars

(* Every runnable thread is scheduled; nothing forces a spurious wakeup,   *)
(* and nothing is assumed about who wins a contended mutex.                *)
Fairness == WF_vars(MainStep) /\ \A w \in Workers : WF_vars(WorkerStep(w))

FairSpec == Spec /\ Fairness

-----------------------------------------------------------------------------
TypeOK ==
  /\ terminate \in BOOLEAN
  /\ queueNonEmpty \in BOOLEAN
  /\ queue \in Seq(Jobs)
  /\ qMutex \in Workers \cup {Main, None}
  /\ cvMutex \in Workers \cup {None}
  /\ exitCnt \in Nat
  /\ errorCnt \in Nat
  /\ pc \in [Workers -> WorkerPC]
  /\ job \in [Workers -> Jobs \cup {None}]
  /\ mpc \in MainPC
  /\ pending \in SUBSET Jobs
  /\ finished \in SUBSET Jobs

Queued == {queue[i] : i \in DOMAIN queue}
Held   == {job[w] : w \in Workers} \ {None}

(* No job is lost and none is executed twice, however the workers and the  *)
(* client interleave in GetJob and AddJob: a job is in exactly one of the  *)
(* client's hands, the queue (at one place), one worker's hands, and done. *)
JobConservation ==
  /\ pending \cup Queued \cup Held \cup finished = Jobs
  /\ pending \cap (Queued \cup Held \cup finished) = {}
  /\ Queued \cap (Held \cup finished) = {}
  /\ Held \cap finished = {}
  /\ \A i, k \in DOMAIN queue : queue[i] = queue[k] => i = k
  /\ \A v, w \in Workers : job[v] = job[w] /\ job[v] # None => v = w

(* queueNonEmpty is a cache of the queue's state that workers read without *)
(* qMutex: it may be true over an empty queue, never false over a queue    *)
(* that holds a job or is about to.                                        *)
FlagCoversQueue == queue # <<>> \/ mpc = "emplace" => queueNonEmpty

(* A worker leaves its loop (terminate seen, then queueNonEmpty seen       *)
(* false) only when no job is left to take, not even one being added.      *)
NoEarlyExit ==
  \A w \in Workers :
    pc[w] \in {"exit", "done"} => terminate /\ pending = {} /\ queue = <<>>

(* When JoinAll returns, every job was executed and no worker runs: what   *)
(* ProcessProject reads next (masterHashMap) is complete and not shared.   *)
JoinMeansDone ==
  mpc = "joined" => finished = Jobs /\ \A w \in Workers : pc[w] = "done"

(* JoinAll returns, in spite of the notifications AddJob can lose.         *)
JoinReturns == <>(mpc = "joined")

(* Every step of the threads is a step of the abstract pool or none.       *)
Pool == INSTANCE JobPool WITH joined <- mpc = "joined"
ImplementsJobPool == Pool!Spec

=============================================================================
