------------------------------ MODULE JobQueue ------------------------------
(***************************************************************************)
(* internal/queue/queue.go: the priority queue guarded by a mutex and the  *)
(* condition variable notEmpty, and the WorkerPool whose goroutines loop   *)
(* over Dequeue and the handler.  Everything done under q.mu is one        *)
(* action; between two actions the mutex is free.  notEmpty.Wait releases  *)
(* the mutex and suspends in one action, and a signalled goroutine has to  *)
(* win the mutex again before it re-tests the queue, so that another       *)
(* worker may empty the queue in between.                                  *)
(*                                                                         *)
(* The heap is the set of its elements: container/heap returns one that    *)
(* nothing in the heap precedes (Best).  A job may be enqueued again after *)
(* its handler returned: that is how api.go retries, with the same         *)
(* Priority and EnqueuedAt.                                                *)
(***************************************************************************)
EXTENDS Integers, FiniteSets

CONSTANTS Jobs,
          Prio,            \* Job.Priority
          Stamp,           \* Job.EnqueuedAt
          Sessions,
          SessionOf,       \* Job.SessionID
          Capacity,        \* NewQueue(capacity)
          Workers,         \* the goroutines WorkerPool.Start creates
          NoJob

ASSUME JobQueueAssumption ==
    /\ IsFiniteSet(Jobs)
    /\ IsFiniteSet(Workers)
    /\ Prio \in [Jobs -> Int]
    /\ Stamp \in [Jobs -> Int]
    /\ SessionOf \in [Jobs -> Sessions]
    /\ Capacity \in Nat
    /\ NoJob \notin Jobs

VARIABLES pq,              \* Queue.pq
          pc,              \* where each worker goroutine is
          job,             \* the job a busy worker passed to its handler
          stopped          \* WorkerPool.stopCh is closed

vars == <<pq, pc, job, stopped>>

\* "loop": at the select; "lock": called Dequeue, wants q.mu; "asleep": in
\* notEmpty.Wait; "woken": signalled, wants q.mu; "busy": in the handler.
Places == {"loop", "lock", "asleep", "woken", "busy", "exited"}

At(place) == {w \in Workers : pc[w] = place}

Held == {job[w] : w \in At("busy")}

-----------------------------------------------------------------------------
\* jobPQ.Less
Before(j, k) == \/ Prio[j] > Prio[k]
                \/ Prio[j] = Prio[k] /\ Stamp[j] < Stamp[k]

\* Seeded error: first in, first out across the tiers.
BestFifo(q) == {j \in q : \A k \in q : Stamp[j] <= Stamp[k]}

\* heap.Pop
Best(q) == {j \in q : \A k \in q : ~Before(k, j)}

\* PositionForSession: the session's earliest enqueued job, wherever its
\* priority puts it ...
Found(s) == {j \in pq : /\ SessionOf[j] = s
                        /\ \A k \in pq : SessionOf[k] = s => Stamp[j] <= Stamp[k]}

\* Seeded error: the rank is counted by arrival alone.
PositionFifo(s) == IF Found(s) = {} THEN 0
                   ELSE LET found == CHOOSE j \in Found(s) : TRUE
                        IN  1 + Cardinality({k \in pq : Stamp[k] < Stamp[found]})

\* Seeded error: the job found is counted as in front of itself.
PositionOfItself(s) == IF Found(s) = {} THEN 0
                       ELSE LET found == CHOOSE j \in Found(s) : TRUE
                            IN  1 + Cardinality({k \in pq : ~Before(found, k)})

\* ... and its rank among the jobs in the queue, 0 when it has none.
Position(s) == IF Found(s) = {} THEN 0
               ELSE LET found == CHOOSE j \in Found(s) : TRUE
                    IN  1 + Cardinality({k \in pq : Before(k, found)})

-----------------------------------------------------------------------------
Init == /\ pq = {}
        /\ pc = [w \in Workers |-> "loop"]
        /\ job = [w \in Workers |-> NoJob]
        /\ stopped = FALSE

\* Seeded error: a signal only when the queue was empty.
SignalFirst == IF pq # {} \/ At("asleep") = {} THEN UNCHANGED pc
               ELSE \E w \in At("asleep") : pc' = [pc EXCEPT ![w] = "woken"]

\* notEmpty.Signal: one of the waiting goroutines wakes, if there is any.
Signal == IF At("asleep") = {} THEN UNCHANGED pc
          ELSE \E w \in At("asleep") : pc' = [pc EXCEPT ![w] = "woken"]

\* Seeded error: one job beyond the capacity.
EnqueueOneMore(j) == /\ j \notin pq \cup Held
                     /\ Cardinality(pq) <= Capacity
                     /\ pq' = pq \cup {j}
                     /\ Signal
                     /\ UNCHANGED <<job, stopped>>

\* Enqueue returning true.
Enqueue(j) == /\ j \notin pq \cup Held
              /\ Cardinality(pq) < Capacity
              /\ pq' = pq \cup {j}
              /\ Signal
              /\ UNCHANGED <<job, stopped>>

\* The select of WorkerPool.Start: once stopCh is closed its case is ready,
\* and default is only taken when no case is.
Loop(w) == /\ pc[w] = "loop"
           /\ pc' = [pc EXCEPT ![w] = IF stopped THEN "exited" ELSE "lock"]
           /\ UNCHANGED <<pq, job, stopped>>

\* Dequeue finding the queue empty, at first or again after a wake-up.
Sleep(w) == /\ pc[w] \in {"lock", "woken"}
            /\ pq = {}
            /\ pc' = [pc EXCEPT ![w] = "asleep"]
            /\ UNCHANGED <<pq, job, stopped>>

\* Seeded error: the head of the heap is read and not popped.
TakePeek(w) == /\ pc[w] \in {"lock", "woken"}
               /\ \E j \in Best(pq) : job' = [job EXCEPT ![w] = j]
               /\ pc' = [pc EXCEPT ![w] = "busy"]
               /\ UNCHANGED <<pq, stopped>>

\* Dequeue popping the heap; the handler is called with the job.
Take(w) == /\ pc[w] \in {"lock", "woken"}
           /\ \E j \in Best(pq) :
                /\ pq' = pq \ {j}
                /\ job' = [job EXCEPT ![w] = j]
           /\ pc' = [pc EXCEPT ![w] = "busy"]
           /\ UNCHANGED stopped

\* Seeded error: the worker keeps its last job.
FinishKeeps(w) == /\ pc[w] = "busy"
                  /\ pc' = [pc EXCEPT ![w] = "loop"]
                  /\ UNCHANGED <<pq, job, stopped>>

\* The handler returns.
Finish(w) == /\ pc[w] = "busy"
             /\ pc' = [pc EXCEPT ![w] = "loop"]
             /\ job' = [job EXCEPT ![w] = NoJob]
             /\ UNCHANGED <<pq, stopped>>

\* WorkerPool.Stop closing stopCh.  (Its wg.Wait returns when every worker
\* is "exited"; a worker asleep in Dequeue is not woken by the close.)
Stop == /\ ~stopped
        /\ stopped' = TRUE
        /\ UNCHANGED <<pq, pc, job>>

Dequeue(w) == Sleep(w) \/ Take(w)

Next == \/ \E j \in Jobs : Enqueue(j)
        \/ \E w \in Workers : Loop(w) \/ Dequeue(w) \/ Finish(w)
        \/ Stop

SafeSpec == Init /\ [][Next]_vars

\* The Go scheduler runs every runnable goroutine and sync.Mutex starves
\* none of them, and a handler returns because the tools it runs are killed
\* at their timeouts.  Nothing obliges a handler to enqueue or to stop.
Fairness == \A w \in Workers : /\ WF_vars(Loop(w))
                               /\ WF_vars(Dequeue(w))
                               /\ WF_vars(Finish(w))

Spec == SafeSpec /\ Fairness

-----------------------------------------------------------------------------
\* Types, with the capacity of the queue and a job in hand exactly when busy.
TypeOK == /\ pq \subseteq Jobs
          /\ pc \in [Workers -> Places]
          /\ job \in [Workers -> Jobs \cup {NoJob}]
          /\ stopped \in BOOLEAN
          /\ \A w \in Workers : pc[w] = "busy" <=> job[w] # NoJob

\* No wake-up is lost (queue.go:77, 83-85): as long as a worker sleeps, every
\* job in the queue has a signalled worker of its own on its way to it.
NoLostWakeup == At("asleep") # {} => Cardinality(pq) <= Cardinality(At("woken"))

\* A job is in one place only: Dequeue hands it to a single worker, and what
\* is queued is in nobody's hands (queue.go:81-89).
OneOwner == /\ pq \cap Held = {}
            /\ \A v, w \in At("busy") : job[v] = job[w] => v = w

\* The rank PositionForSession reports is a place in the line: none exactly for
\* a session without a queued job, else one up to the length of the queue, and
\* the first only of a job that the heap may return next (queue.go:94-122).
RankIsPlace ==
    \A s \in Sessions :
       /\ Position(s) \in 0 .. Cardinality(pq)
       /\ Position(s) = 0 <=> \A j \in pq : SessionOf[j] # s
       /\ Position(s) = 1 => Found(s) \cap Best(pq) # {}

\* That rank moves as one: whenever a worker
\* takes a job, every other session whose earliest job stays in the queue
\* moves up by exactly one if the job taken preceded it, and otherwise the
\* job taken was the session's own or one that the heap orders alike
\* (queue.go:94-122 against queue.go:37-43).
PositionAdvances ==
    [][(\E w \in Workers : Take(w)) =>
         \A s \in Sessions :
            (Found(s) # {} /\ Found(s)' = Found(s)) =>
               \/ Position(s)' = Position(s) - 1
               \/ Found(s) \cap Best(pq) # {}]_vars

\* No busy-waiting starvation at the top: a job that nothing can precede is
\* taken, however many others come and go, unless the pool is stopped.
TopJobServed ==
    \A j \in Jobs : (\A k \in Jobs : ~Before(k, j)) =>
                       ((j \in pq) ~> (j \notin pq \/ stopped))

\* The queue and its workers implement the pool the handlers rely on.
Pool == INSTANCE WorkPool WITH pending <- pq, held <- Held, closed <- stopped
ImplementsPool == Pool!Spec
=============================================================================
