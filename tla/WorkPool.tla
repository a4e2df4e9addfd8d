------------------------------ MODULE WorkPool ------------------------------
(***************************************************************************)
(* What the job queue and its worker pool promise to the HTTP handlers     *)
(* (internal/queue/queue.go, seen from its callers in                      *)
(* internal/handlers/api.go): a bounded set of accepted jobs, each handed  *)
(* to exactly one handler, never more handlers at once than workers, and a *)
(* job that no other accepted job precedes is the one handed out.  Mutex,  *)
(* condition variable, wake-ups and worker goroutines are invisible here;  *)
(* JobQueue implements this module.                                        *)
(***************************************************************************)
EXTENDS Integers, FiniteSets

CONSTANTS Jobs,            \* the jobs the handlers may submit
          Prio,            \* [Jobs -> Int]: Job.Priority
          Stamp,           \* [Jobs -> Int]: Job.EnqueuedAt, kept when a job is retried
          Capacity,        \* NewQueue(capacity)
          Workers          \* the goroutines of the pool

VARIABLES pending,         \* accepted jobs no worker has
          held,            \* jobs in the hands of a handler
          closed           \* the pool was told to stop

poolVars == <<pending, held, closed>>

\* jobPQ.Less: the higher priority first, then the earlier EnqueuedAt.
Before(j, k) == \/ Prio[j] > Prio[k]
                \/ Prio[j] = Prio[k] /\ Stamp[j] < Stamp[k]

\* The elements of q that heap.Pop may return: nothing in q precedes them.
Best(q) == {j \in q : \A k \in q : ~Before(k, j)}

Init == pending = {} /\ held = {} /\ closed = FALSE

\* A submission is accepted only below the capacity; a refused one changes nothing.
Put(j) == /\ j \notin pending \cup held
          /\ Cardinality(pending) < Capacity
          /\ pending' = pending \cup {j}
          /\ UNCHANGED <<held, closed>>

\* Jobs may still be handed out after the pool was told to stop: a worker
\* that is already past its test of stopCh takes one more.
Grab(j) == /\ j \in Best(pending)
           /\ Cardinality(held) < Cardinality(Workers)
           /\ pending' = pending \ {j}
           /\ held' = held \cup {j}
           /\ UNCHANGED closed

\* Grab and Done of a handler that returns at once, seen as one step.
Serve(j) == /\ j \in Best(pending)
            /\ Cardinality(held) < Cardinality(Workers)
            /\ pending' = pending \ {j}
            /\ UNCHANGED <<held, closed>>

Done(j) == /\ j \in held
           /\ held' = held \ {j}
           /\ UNCHANGED <<pending, closed>>

Close == ~closed /\ closed' = TRUE /\ UNCHANGED <<pending, held>>

Next == \/ \E j \in Jobs : Put(j) \/ Grab(j) \/ Serve(j) \/ Done(j)
        \/ Close

SafeSpec == Init /\ [][Next]_poolVars

\* While it is open the pool keeps handing out jobs, and handlers return.
Spec == /\ SafeSpec
        /\ WF_poolVars(~closed /\ \E j \in Jobs : Grab(j))
        /\ \A j \in Jobs : WF_poolVars(Done(j))

=============================================================================
