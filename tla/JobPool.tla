------------------------------ MODULE JobPool -------------------------------
(***************************************************************************)
(* What ThreadPool (ProjectProcessor/src/ThreadPool.h) promises the code   *)
(* that uses it: jobs wait in the order they were added, each is handed to *)
(* one worker and executed once, and JoinAll returns only when none is     *)
(* left.  No mutex, flag or condition variable appears here.  ThreadPool   *)
(* implements this module, and ProjectProcessor is built on it.            *)
(***************************************************************************)
EXTENDS Sequences

CONSTANTS Workers, Jobs, None

VARIABLES pending,   \* jobs not added yet
          queue,     \* jobs added and not taken
          job,       \* the job each worker executes, or None
          finished,  \* jobs executed
          joined     \* JoinAll has returned

vars == <<pending, queue, job, finished, joined>>

Init ==
  /\ pending = Jobs
  /\ queue = <<>>
  /\ job = [w \in Workers |-> None]
  /\ finished = {}
  /\ joined = FALSE

AddJob(j) ==
  /\ j \in pending
  /\ pending' = pending \ {j}
  /\ queue' = Append(queue, j)
  /\ UNCHANGED <<job, finished, joined>>

Take(w) ==
  /\ queue # <<>>
  /\ job[w] = None
  /\ job' = [job EXCEPT ![w] = Head(queue)]
  /\ queue' = Tail(queue)
  /\ UNCHANGED <<pending, finished, joined>>

Finish(w) ==
  /\ job[w] # None
  /\ job[w] \notin finished
  /\ finished' = finished \cup {job[w]}
  /\ job' = [job EXCEPT ![w] = None]
  /\ UNCHANGED <<pending, queue, joined>>

JoinAll ==
  /\ finished = Jobs
  /\ ~joined
  /\ joined' = TRUE
  /\ UNCHANGED <<pending, queue, job, finished>>

Next ==
  \/ \E j \in Jobs : AddJob(j)
  \/ \E w \in Workers : Take(w) \/ Finish(w)
  \/ JoinAll

Spec == Init /\ [][Next]_vars

=============================================================================
