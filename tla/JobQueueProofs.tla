--------------------------- MODULE JobQueueProofs ---------------------------
(***************************************************************************)
(* Proofs about JobQueue, for every set of jobs and workers, every         *)
(* capacity and every assignment of priorities: the type invariant, that a *)
(* job has one owner, that no wake-up is lost, that a nonempty heap has a  *)
(* job to return, that the ranks reported to clients are places in the     *)
(* line and move as such, and that the queue with its mutex, condition     *)
(* variable and goroutines implements WorkPool.                            *)
(***************************************************************************)
EXTENDS JobQueue, FiniteSetTheorems, WellFoundedInduction, TLAPS

\* The type invariant: a job in hand exactly in the busy workers.
THEOREM TypeCorrect == SafeSpec => []TypeOK
<1>1. Init => TypeOK
  BY JobQueueAssumption DEF Init, TypeOK, Places
<1>2. TypeOK /\ [Next]_vars => TypeOK'
  <2> SUFFICES ASSUME TypeOK, [Next]_vars PROVE TypeOK'
    OBVIOUS
  <2> USE JobQueueAssumption DEF TypeOK, Places
  <2>1. ASSUME NEW j \in Jobs, Enqueue(j) PROVE TypeOK'
    <3>1. \/ UNCHANGED pc
          \/ \E w \in At("asleep") : pc' = [pc EXCEPT ![w] = "woken"]
      BY <2>1 DEF Enqueue, Signal
    <3>2. CASE UNCHANGED pc
      BY <2>1, <3>2 DEF Enqueue
    <3>3. ASSUME NEW w \in At("asleep"), pc' = [pc EXCEPT ![w] = "woken"] PROVE TypeOK'
      BY <2>1, <3>3 DEF Enqueue, At
    <3> QED BY <3>1, <3>2, <3>3
  <2>2. ASSUME NEW w \in Workers, Loop(w) PROVE TypeOK'
    BY <2>2 DEF Loop
  <2>3. ASSUME NEW w \in Workers, Sleep(w) PROVE TypeOK'
    BY <2>3 DEF Sleep
  <2>4. ASSUME NEW w \in Workers, Take(w) PROVE TypeOK'
    BY <2>4 DEF Take, Best
  <2>5. ASSUME NEW w \in Workers, Finish(w) PROVE TypeOK'
    BY <2>5 DEF Finish
  <2>6. CASE Stop
    BY <2>6 DEF Stop
  <2>7. CASE UNCHANGED vars
    BY <2>7 DEF vars
  <2> QED BY <2>1, <2>2, <2>3, <2>4, <2>5, <2>6, <2>7 DEF Next, Dequeue
<1> QED BY <1>1, <1>2, PTL DEF SafeSpec

-----------------------------------------------------------------------------
\* What is queued is in nobody's hands, and nobody shares a job.
THEOREM Ownership == SafeSpec => []OneOwner
<1>1. Init => OneOwner
  BY DEF Init, OneOwner, Held, At
<1>2. TypeOK /\ OneOwner /\ [Next]_vars => OneOwner'
  <2> SUFFICES ASSUME TypeOK, OneOwner, [Next]_vars PROVE OneOwner'
    OBVIOUS
  <2> USE JobQueueAssumption DEF OneOwner, Held, At
  <2>1. ASSUME NEW j \in Jobs, Enqueue(j) PROVE OneOwner'
    <3>1. \A w \in Workers : pc'[w] = "busy" <=> pc[w] = "busy"
      BY <2>1 DEF Enqueue, Signal, TypeOK
    <3>2. j \notin Held /\ pq' = pq \cup {j} /\ job' = job
      BY <2>1 DEF Enqueue
    <3> QED BY <3>1, <3>2
  <2>2. ASSUME NEW w \in Workers, Loop(w) PROVE OneOwner'
    BY <2>2 DEF Loop, TypeOK
  <2>3. ASSUME NEW w \in Workers, Sleep(w) PROVE OneOwner'
    BY <2>3 DEF Sleep, TypeOK
  <2>4. ASSUME NEW w \in Workers, Take(w) PROVE OneOwner'
    BY <2>4 DEF Take, Best, TypeOK
  <2>5. ASSUME NEW w \in Workers, Finish(w) PROVE OneOwner'
    BY <2>5 DEF Finish, TypeOK
  <2>6. CASE Stop
    BY <2>6 DEF Stop
  <2>7. CASE UNCHANGED vars
    BY <2>7 DEF vars
  <2> QED BY <2>1, <2>2, <2>3, <2>4, <2>5, <2>6, <2>7 DEF Next, Dequeue
<1> QED BY <1>1, <1>2, TypeCorrect, PTL DEF SafeSpec

-----------------------------------------------------------------------------
\* Sets of workers and of queued jobs are finite.
LEMMA FiniteParts ==
  ASSUME TypeOK
  PROVE  /\ IsFiniteSet(pq) /\ Cardinality(pq) \in Nat
         /\ \A p : IsFiniteSet(At(p)) /\ Cardinality(At(p)) \in Nat
<1>1. IsFiniteSet(pq)
  BY JobQueueAssumption, FS_Subset DEF TypeOK
<1>2. ASSUME NEW p PROVE IsFiniteSet(At(p))
  BY JobQueueAssumption, FS_Subset DEF At
<1> QED BY <1>1, <1>2, FS_CardinalityType

\* No wake-up is lost: each queued job has its own signalled worker whenever
\* another worker still sleeps, so that work and sleepers never wait for one
\* another.
THEOREM WakeupsKept == SafeSpec => []NoLostWakeup
<1>1. Init => NoLostWakeup
  BY DEF Init, NoLostWakeup, At
<1>2. TypeOK /\ NoLostWakeup /\ TypeOK' /\ [Next]_vars => NoLostWakeup'
  <2> SUFFICES ASSUME TypeOK, TypeOK', NoLostWakeup, [Next]_vars, At("asleep")' # {}
               PROVE  Cardinality(pq)' <= Cardinality(At("woken"))'
    BY DEF NoLostWakeup
  <2> DEFINE W == At("woken")
  <2>0. /\ IsFiniteSet(pq) /\ Cardinality(pq) \in Nat
        /\ IsFiniteSet(W) /\ Cardinality(W) \in Nat
        /\ pc \in [Workers -> Places]
    BY FiniteParts DEF TypeOK
  <2>1. ASSUME NEW j \in Jobs, Enqueue(j)
        PROVE  Cardinality(pq)' <= Cardinality(W)'
    <3>1. At("asleep") # {}
      BY <2>1, <2>0 DEF Enqueue, Signal, At
    <3>2. PICK w \in At("asleep") : pc' = [pc EXCEPT ![w] = "woken"]
      BY <2>1, <3>1 DEF Enqueue, Signal
    <3>3. w \notin W /\ W' = W \cup {w}
      BY <3>2, <2>0 DEF At
    <3>4. Cardinality(W') = Cardinality(W) + 1
      BY <3>3, <2>0, FS_AddElement
    <3>5. pq' = pq \cup {j} /\ j \notin pq
      BY <2>1 DEF Enqueue
    <3>6. Cardinality(pq') = Cardinality(pq) + 1
      BY <3>5, <2>0, FS_AddElement
    <3>7. Cardinality(pq) <= Cardinality(W)
      BY <3>1 DEF NoLostWakeup
    <3> QED BY <3>4, <3>6, <3>7, <2>0
  <2>2. ASSUME NEW w \in Workers, Loop(w)
        PROVE  Cardinality(pq)' <= Cardinality(W)'
    <3>1. At("asleep") = At("asleep")' /\ W = W' /\ pq' = pq
      BY <2>2, <2>0 DEF Loop, At
    <3> QED BY <3>1 DEF NoLostWakeup
  <2>3. ASSUME NEW w \in Workers, Sleep(w)
        PROVE  Cardinality(pq)' <= Cardinality(W)'
    <3>1. pq' = {} /\ Cardinality(pq') = 0
      BY <2>3, FS_EmptySet DEF Sleep
    <3>2. Cardinality(W)' \in Nat
      <4>1. IsFiniteSet(W')
        BY JobQueueAssumption, FS_Subset DEF At
      <4> QED BY <4>1, FS_CardinalityType
    <3> QED BY <3>1, <3>2
  <2>4. ASSUME NEW w \in Workers, Take(w)
        PROVE  Cardinality(pq)' <= Cardinality(W)'
    <3>1. PICK j \in pq : pq' = pq \ {j}
      BY <2>4 DEF Take, Best
    <3>2. Cardinality(pq') = Cardinality(pq) - 1
      BY <3>1, <2>0, FS_RemoveElement
    <3>3. At("asleep")' = At("asleep") /\ W' = W \ {w}
      BY <2>4, <2>0 DEF Take, At
    <3>4. Cardinality(W') >= Cardinality(W) - 1
      BY <3>3, <2>0, FS_RemoveElement
    <3>5. Cardinality(pq) <= Cardinality(W)
      BY <3>3 DEF NoLostWakeup
    <3>6. Cardinality(W') \in Int
      BY <3>3, <2>0, FS_RemoveElement
    <3> QED BY <3>2, <3>4, <3>5, <3>6, <2>0
  <2>5. ASSUME NEW w \in Workers, Finish(w)
        PROVE  Cardinality(pq)' <= Cardinality(W)'
    <3>1. At("asleep") = At("asleep")' /\ W = W' /\ pq' = pq
      BY <2>5, <2>0 DEF Finish, At
    <3> QED BY <3>1 DEF NoLostWakeup
  <2>6. CASE Stop \/ UNCHANGED vars
    <3>1. At("asleep") = At("asleep")' /\ W = W' /\ pq' = pq
      BY <2>6 DEF Stop, vars, At
    <3> QED BY <3>1 DEF NoLostWakeup
  <2> QED BY <2>1, <2>2, <2>3, <2>4, <2>5, <2>6 DEF Next, Dequeue
<1> QED BY <1>1, <1>2, TypeCorrect, PTL DEF SafeSpec

-----------------------------------------------------------------------------
(* The order of the heap, and the ranks *)

\* What precedes j in q, by a relation R between jobs.
Ahead(q, R, j) == {k \in q : <<k, j>> \in R}

\* In a finite set something has nothing ahead of it: what has the least ahead,
\* by inclusion.
LEMMA SomethingFirst ==
  ASSUME NEW q, IsFiniteSet(q), q # {}, NEW R,
         \A j \in q : <<j, j>> \notin R,
         \A j, k, l \in q : <<j, k>> \in R /\ <<k, l>> \in R => <<j, l>> \in R
  PROVE  \E j \in q : \A k \in q : <<k, j>> \notin R
<1> DEFINE T == {Ahead(q, R, j) : j \in q}
<1>1. T \subseteq FiniteSubsetsOf(q) /\ T # {}
  <2>1. \A j : Ahead(q, R, j) \in SUBSET q
    BY DEF Ahead
  <2> QED BY <2>1, FS_FiniteSubsetsOfFinite
<1>2. PICK A \in T : \A B \in T : <<B, A>> \notin StrictSubsetOrdering(q)
  <2>1. IsWellFoundedOn(StrictSubsetOrdering(q), FiniteSubsetsOf(q))
    BY FS_StrictSubsetOrderingWellFounded
  <2> HIDE DEF T
  <2> QED BY <1>1, <2>1, WFMin
<1>3. PICK j \in q : A = Ahead(q, R, j)
  BY <1>2
<1>4. ASSUME NEW k \in q, <<k, j>> \in R PROVE FALSE
  <2>1. Ahead(q, R, k) \subseteq A /\ Ahead(q, R, k) # A
    BY <1>3, <1>4 DEF Ahead
  <2>2. Ahead(q, R, k) \in SUBSET q /\ A \in SUBSET q
    BY <1>3 DEF Ahead
  <2> QED BY <1>2, <2>1, <2>2 DEF StrictSubsetOrdering
<1> QED BY <1>4

\* Less is a strict weak order: what two jobs have in between is ordered
\* against one of them.
LEMMA BeforeOrder ==
  ASSUME NEW j \in Jobs, NEW k \in Jobs, NEW l \in Jobs
  PROVE  /\ ~Before(j, j)
         /\ Before(j, k) /\ Before(k, l) => Before(j, l)
         /\ Before(j, k) => Before(j, l) \/ Before(l, k)
BY JobQueueAssumption DEF Before

\* heap.Pop on a nonempty heap always has a job to return.
LEMMA HeapServes ==
  ASSUME NEW q \in SUBSET Jobs, q # {}
  PROVE  Best(q) # {}
<1> DEFINE R == {p \in q \X q : Before(p[1], p[2])}
<1>1. IsFiniteSet(q)
  BY JobQueueAssumption, FS_Subset
<1>2. \A j \in q : <<j, j>> \notin R
  BY BeforeOrder
<1>3. \A j, k, l \in q : <<j, k>> \in R /\ <<k, l>> \in R => <<j, l>> \in R
  BY BeforeOrder
<1>4. \A k, j \in q : Before(k, j) => <<k, j>> \in R
  OBVIOUS
<1> HIDE DEF R
<1>5. PICK j \in q : \A k \in q : <<k, j>> \notin R
  BY <1>1, <1>2, <1>3, SomethingFirst
<1> QED BY <1>4, <1>5 DEF Best

\* A session with a job in the queue has an earliest one.
LEMMA FoundSome ==
  ASSUME TypeOK, NEW s, NEW i \in pq, SessionOf[i] = s
  PROVE  Found(s) # {}
<1> DEFINE q == {j \in pq : SessionOf[j] = s}
           R == {p \in q \X q : Stamp[p[1]] < Stamp[p[2]]}
<1>0. \A j \in q : j \in Jobs /\ Stamp[j] \in Int
  BY JobQueueAssumption DEF TypeOK
<1>1. IsFiniteSet(q) /\ q # {}
  BY FiniteParts, FS_Subset
<1>2. \A j \in q : <<j, j>> \notin R
  BY <1>0
<1>3. \A j, k, l \in q : <<j, k>> \in R /\ <<k, l>> \in R => <<j, l>> \in R
  BY <1>0
<1>4. \A k, j \in q : Stamp[k] < Stamp[j] => <<k, j>> \in R
  OBVIOUS
<1> HIDE DEF R
<1>5. PICK j \in q : \A k \in q : <<k, j>> \notin R
  BY <1>1, <1>2, <1>3, SomethingFirst
<1>6. ASSUME NEW k \in q PROVE Stamp[j] <= Stamp[k]
  <2>1. ~(Stamp[k] < Stamp[j])
    BY <1>4, <1>5
  <2> QED BY <1>0, <2>1
<1> QED BY <1>6 DEF Found

\* The queued jobs that precede f.
InFrontOf(f) == {k \in pq : Before(k, f)}

\* The rank of a session is that of one of its earliest jobs.
LEMMA RankOfFound ==
  ASSUME TypeOK, NEW s, Found(s) # {}, NEW f, f = CHOOSE j \in Found(s) : TRUE
  PROVE  /\ f \in Found(s) /\ f \in pq /\ f \in Jobs
         /\ IsFiniteSet(InFrontOf(f)) /\ Cardinality(InFrontOf(f)) \in Nat
         /\ Position(s) = 1 + Cardinality(InFrontOf(f))
<1>1. f \in Found(s)
  OBVIOUS
<1>2. f \in pq /\ f \in Jobs
  BY <1>1 DEF Found, TypeOK
<1>3. InFrontOf(f) \in SUBSET pq
  BY DEF InFrontOf
<1>4. IsFiniteSet(InFrontOf(f)) /\ Cardinality(InFrontOf(f)) \in Nat
  BY <1>3, FiniteParts, FS_Subset, FS_CardinalityType
<1>5. Position(s) = 1 + Cardinality(InFrontOf(f))
  BY DEF Position, InFrontOf
<1> QED BY <1>1, <1>2, <1>4, <1>5

\* PositionForSession: no rank without a job, never more than the queue is
\* long, and first only what nothing precedes.
THEOREM RanksArePlaces == SafeSpec => []RankIsPlace
<1>1. TypeOK => RankIsPlace
  <2> SUFFICES ASSUME TypeOK, NEW s \in Sessions
               PROVE  /\ Position(s) \in 0 .. Cardinality(pq)
                      /\ Position(s) = 0 <=> \A j \in pq : SessionOf[j] # s
                      /\ Position(s) = 1 => Found(s) \cap Best(pq) # {}
    BY DEF RankIsPlace
  <2>1. CASE Found(s) = {}
    BY <2>1, FoundSome, FiniteParts DEF Position
  <2>2. CASE Found(s) # {}
    <3> DEFINE f == CHOOSE j \in Found(s) : TRUE
    <3>1. /\ f \in Found(s) /\ f \in pq /\ f \in Jobs
          /\ IsFiniteSet(InFrontOf(f)) /\ Cardinality(InFrontOf(f)) \in Nat
          /\ Position(s) = 1 + Cardinality(InFrontOf(f))
      BY <2>2, RankOfFound
    <3> HIDE DEF f
    <3>2. SessionOf[f] = s
      BY <3>1 DEF Found
    <3>3. Cardinality(InFrontOf(f)) < Cardinality(pq)
      <4>1. InFrontOf(f) \in SUBSET pq /\ InFrontOf(f) # pq
        BY <3>1, BeforeOrder DEF InFrontOf
      <4>2. /\ Cardinality(InFrontOf(f)) <= Cardinality(pq)
            /\ Cardinality(InFrontOf(f)) # Cardinality(pq)
        BY <4>1, FiniteParts, FS_Subset
      <4> QED BY <3>1, <4>2, FiniteParts
    <3>4. Cardinality(InFrontOf(f)) = 0 => f \in Best(pq)
      <4>1. Cardinality(InFrontOf(f)) = 0 => InFrontOf(f) = {}
        BY <3>1, FS_EmptySet
      <4> QED BY <3>1, <4>1 DEF InFrontOf, Best
    <3> QED BY <3>1, <3>2, <3>3, <3>4, FiniteParts
  <2> QED BY <2>1, <2>2
<1> QED BY <1>1, TypeCorrect, PTL

\* A rank drops by exactly one when a job in front is taken, and stays only
\* when the session's own job might as well have been.
THEOREM RanksAdvance == SafeSpec => PositionAdvances
<1> DEFINE Moves ==
      (\E w \in Workers : Take(w)) =>
         \A s \in Sessions :
            (Found(s) # {} /\ Found(s)' = Found(s)) =>
               \/ Position(s)' = Position(s) - 1
               \/ Found(s) \cap Best(pq) # {}
<1>1. TypeOK /\ TypeOK' /\ [Next]_vars => Moves
  <2> SUFFICES ASSUME TypeOK, TypeOK', NEW w \in Workers, Take(w),
                      NEW s \in Sessions, Found(s) # {}, Found(s)' = Found(s),
                      Found(s) \cap Best(pq) = {}
               PROVE  Position(s)' = Position(s) - 1
    OBVIOUS
  <2>1. PICK t \in Best(pq) : pq' = pq \ {t}
    BY DEF Take
  <2> DEFINE f == CHOOSE j \in Found(s) : TRUE
  <2>2. /\ f \in Found(s) /\ f \in pq /\ f \in Jobs
        /\ IsFiniteSet(InFrontOf(f)) /\ Cardinality(InFrontOf(f)) \in Nat
        /\ Position(s) = 1 + Cardinality(InFrontOf(f))
    BY RankOfFound
  <2>3. f = CHOOSE j \in Found(s)' : TRUE
    OBVIOUS
  <2>4. Position(s)' = 1 + Cardinality({k \in pq' : Before(k, f)})
    BY <2>3 DEF Position
  <2> HIDE DEF f
  <2>5. t \in pq /\ t \in Jobs /\ pq \in SUBSET Jobs
    BY <2>1 DEF Best, TypeOK
  <2>6. Before(t, f)
    <3>1. f \notin Best(pq)
      BY <2>2
    <3>2. PICK k \in pq : Before(k, f)
      BY <2>2, <3>1 DEF Best
    <3>3. Before(k, t) \/ Before(t, f)
      BY <2>2, <2>5, <3>2, BeforeOrder
    <3> QED BY <2>1, <3>2, <3>3 DEF Best
  <2>7. {k \in pq' : Before(k, f)} = InFrontOf(f) \ {t} /\ t \in InFrontOf(f)
    BY <2>1, <2>5, <2>6 DEF InFrontOf
  <2>8. Cardinality(InFrontOf(f) \ {t}) = Cardinality(InFrontOf(f)) - 1
    BY <2>2, <2>7, FS_RemoveElement
  <2>9. Position(s)' = 1 + Cardinality(InFrontOf(f) \ {t})
    BY <2>4, <2>7
  <2> QED BY <2>2, <2>8, <2>9
<1>2. TypeOK /\ TypeOK' /\ [Next]_vars => [Moves]_vars
  BY <1>1
<1> QED BY <1>2, TypeCorrect, PTL DEF SafeSpec, PositionAdvances

-----------------------------------------------------------------------------
\* No more jobs in hand than busy workers.
LEMMA HeldBound ==
  ASSUME TypeOK
  PROVE  IsFiniteSet(Held) /\ Cardinality(Held) <= Cardinality(At("busy"))
<1> DEFINE f == [w \in At("busy") |-> job[w]]
<1>1. f \in Surjection(At("busy"), Held)
  BY DEF Surjection, Held
<1> QED BY <1>1, FiniteParts, FS_Surjection

\* The pool counts its jobs as the queue does.
LEMMA SameCount == \A S : Pool!Cardinality(S) = Cardinality(S)
BY DEF Pool!Cardinality, Cardinality

\* Every step of the queue, its condition variable and its workers is a step
\* of the abstract pool or leaves the pool as it is: a job is handed out only
\* when a worker is free for it, only if no accepted job precedes it, and a
\* worker returning gives up its own job and no other's.
THEOREM PoolImplemented == SafeSpec => Pool!SafeSpec
<1>1. Init => Pool!Init
  BY DEF Init, Pool!Init, Held, At
<1>2. TypeOK /\ OneOwner /\ [Next]_vars => [Pool!Next]_(Pool!poolVars)
  <2> SUFFICES ASSUME TypeOK, OneOwner, [Next]_vars
               PROVE  Pool!Next \/ UNCHANGED Pool!poolVars
    OBVIOUS
  <2>0. pc \in [Workers -> Places] /\ job \in [Workers -> Jobs \cup {NoJob}]
    BY DEF TypeOK
  <2>1. ASSUME NEW j \in Jobs, Enqueue(j) PROVE Pool!Put(j)
    <3>1. \A w \in Workers : pc'[w] = "busy" <=> pc[w] = "busy"
      BY <2>0, <2>1 DEF Enqueue, Signal, At
    <3>2. Held' = Held
      BY <2>1, <3>1 DEF Enqueue, Held, At
    <3> QED BY <2>1, <3>2, SameCount DEF Enqueue, Pool!Put
  <2>2. ASSUME NEW w \in Workers, Loop(w) PROVE UNCHANGED Pool!poolVars
    <3>1. Held' = Held
      BY <2>0, <2>2 DEF Loop, Held, At
    <3> QED BY <2>2, <3>1 DEF Loop, Pool!poolVars
  <2>3. ASSUME NEW w \in Workers, Sleep(w) PROVE UNCHANGED Pool!poolVars
    <3>1. Held' = Held
      BY <2>0, <2>3 DEF Sleep, Held, At
    <3> QED BY <2>3, <3>1 DEF Sleep, Pool!poolVars
  <2>4. ASSUME NEW w \in Workers, Take(w) PROVE \E j \in Jobs : Pool!Grab(j)
    <3>1. PICK j \in Best(pq) : pq' = pq \ {j} /\ job' = [job EXCEPT ![w] = j]
      BY <2>4 DEF Take
    <3>2. j \in Jobs /\ j \in Pool!Best(pq)
      BY <3>1 DEF Best, Pool!Best, Before, Pool!Before, TypeOK
    <3>3. Held' = Held \cup {j}
      BY <2>0, <2>4, <3>1 DEF Take, Held, At
    <3>4. Cardinality(Held) < Cardinality(Workers)
      <4>1. At("busy") \in SUBSET Workers /\ At("busy") # Workers
        BY <2>4 DEF Take, At
      <4>2. Cardinality(At("busy")) < Cardinality(Workers)
        <5>1. /\ Cardinality(At("busy")) <= Cardinality(Workers)
              /\ Cardinality(Workers) # Cardinality(At("busy"))
          BY <4>1, JobQueueAssumption, FS_Subset
        <5>2. Cardinality(At("busy")) \in Nat /\ Cardinality(Workers) \in Nat
          BY FiniteParts, JobQueueAssumption, FS_CardinalityType
        <5> QED BY <5>1, <5>2
      <4>3. /\ Cardinality(Held) <= Cardinality(At("busy"))
            /\ Cardinality(Held) \in Nat /\ Cardinality(At("busy")) \in Nat
            /\ Cardinality(Workers) \in Nat
        BY HeldBound, FiniteParts, JobQueueAssumption, FS_CardinalityType
      <4> QED BY <4>2, <4>3
    <3>5. UNCHANGED stopped
      BY <2>4 DEF Take
    <3> QED BY <3>1, <3>2, <3>3, <3>4, <3>5, SameCount DEF Pool!Grab
  <2>5. ASSUME NEW w \in Workers, Finish(w) PROVE \E j \in Jobs : Pool!Done(j)
    <3>1. job[w] \in Jobs /\ w \in At("busy") /\ job[w] \in Held
      BY <2>5 DEF Finish, TypeOK, Held, At
    <3>2. Held' = Held \ {job[w]}
      <4>1. At("busy")' = At("busy") \ {w}
        BY <2>0, <2>5 DEF Finish, At
      <4>2. \A v \in At("busy") \ {w} : job'[v] = job[v] /\ job[v] # job[w]
        BY <2>0, <2>5, <3>1 DEF Finish, OneOwner, At
      <4> QED BY <3>1, <4>1, <4>2 DEF Held
    <3> QED BY <2>5, <3>1, <3>2 DEF Finish, Pool!Done
  <2>6. CASE Stop
    <3>1. Held' = Held
      BY <2>6 DEF Stop, Held, At
    <3> QED BY <2>6, <3>1 DEF Stop, Pool!Next, Pool!Close
  <2>7. CASE UNCHANGED vars
    BY <2>7 DEF vars, Pool!poolVars, Held, At
  <2> QED BY <2>1, <2>2, <2>3, <2>4, <2>5, <2>6, <2>7 DEF Next, Dequeue, Pool!Next
<1> QED BY <1>1, <1>2, TypeCorrect, Ownership, PTL DEF SafeSpec, Pool!SafeSpec
=============================================================================
