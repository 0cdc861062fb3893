----------------------------- MODULE PoolProofs -----------------------------
(***************************************************************************)
(* Proofs about Pool, for every number of tasks, submitters and workers,   *)
(* every depth, deadline, reserve and minimal budget, in both modes.       *)
(***************************************************************************)
EXTENDS Pool, FiniteSetTheorems, WellFoundedInduction, TLAPS

-----------------------------------------------------------------------------
(* Operators.                                                              *)

\* A non-empty set of tasks has an oldest member, and Oldest returns it: the
\* head of p.q exists and precedes the rest.
LEMMA OldestIsFirst ==
  ASSUME TypeOK, NEW S, S \subseteq Tasks, S # {}
  PROVE  Oldest(S) \in S /\ \A u \in S : ticket[Oldest(S)] <= ticket[u]
<1> DEFINE N == {ticket[t] : t \in S}
<1>1. N \subseteq Nat /\ N # {}
  BY DEF TypeOK
<1>2. PICK n \in N : \A m \in N : ~(<<m, n>> \in OpToRel(<, Nat))
  BY <1>1, NatLessThanWellFounded, WFMin
<1>3. \A m \in N : ~(m < n)
  BY <1>1, <1>2, Zenon DEF OpToRel
<1>4. \A m \in N : n <= m
  BY <1>1, <1>3
<1>5. \E t \in S : \A u \in S : ticket[t] <= ticket[u]
  BY <1>4
<1> QED
  BY <1>5 DEF Oldest

\* The task pop takes and the one replyDead answers next are tasks.
LEMMA HeadOfQueue ==
  ASSUME TypeOK, q # Dead
  PROVE  /\ Oldest(q \ Dead) \in q \ Dead
         /\ Oldest(q \ Dead) \in Tasks
         /\ \A u \in q \ Dead : ticket[Oldest(q \ Dead)] <= ticket[u]
<1>1. q \ Dead # {} /\ q \ Dead \subseteq Tasks
  BY DEF TypeOK, Dead
<1> QED
  BY <1>1, OldestIsFirst

\* The task replyDead answers next is one of those the goroutine took.
LEMMA HeadOfHeld ==
  ASSUME TypeOK, NEW g \in Goroutines, held[g] # {}
  PROVE  Oldest(held[g]) \in held[g] /\ Oldest(held[g]) \in Tasks
<1>1. held[g] \subseteq Tasks
  BY DEF TypeOK
<1> QED
  BY <1>1, OldestIsFirst

\* fillLocked is a percentage.
LEMMA FillRange ==
  ASSUME TypeOK
  PROVE  Fill \in 0..100
<1> DEFINE n == Cardinality(q)
<1>1. n \in Nat
  BY PoolAssumption, FS_Subset, FS_CardinalityType DEF TypeOK
<1>2. ASSUME NEW k \in Nat, NEW d \in Nat \ {0}, k < d
      PROVE  (k * 100) \div d \in 0..100
  BY <1>2
<1> QED
  BY <1>1, <1>2, PoolAssumption DEF Fill, QueueFull

-----------------------------------------------------------------------------
(* Typing.                                                                 *)

\* What a goroutine carries and holds follows from where it is.  TypeOK alone is
\* not inductive: Enqueue appends cur[s], which is a task only at the places
\* from which it is reached.
SubmitterCoupled(s) ==
  /\ pc[s] = "idle" <=> cur[s] = NoTask
  /\ pc[s] \notin {"enter", "waiting"} => held[s] = {}
  /\ s \in waiters => pc[s] = "waiting" /\ held[s] = {}

\* The same of a worker.
WorkerCoupled(w) ==
  /\ pc[w] \in {"budget", "evaluate"} <=> cur[w] # NoTask
  /\ pc[w] \in {"evaluate", "exited"} => held[w] = {}
  /\ w \in waiters => pc[w] = "pop" /\ held[w] = {}

\* The same of all of them.
Coupled ==
  /\ \A s \in Submitters : SubmitterCoupled(s)
  /\ \A w \in Workers : WorkerCoupled(w)
  /\ cur[Sweeper] = NoTask
  /\ pc[Sweeper] = "exited" => held[Sweeper] = {}

\* The inductive invariant behind TypeOK.
TypeInv == TypeOK /\ Coupled

\* New establishes the types.
LEMMA TypeInit == Init => TypeInv
  BY PoolAssumption DEF Init, TypeOK, Goroutines, NotYet, Outcomes,
     TimerStates, SubmitterPC, WorkerPC, SweeperPC, Lives,
     TypeInv, Coupled, SubmitterCoupled, WorkerCoupled

\* Every critical section and every answer keeps the types.
LEMMA TypeStep == TypeInv /\ [Next]_vars => TypeOK'
<1> SUFFICES ASSUME TypeInv, [Next]_vars
             PROVE  TypeOK'
  OBVIOUS
<1> USE PoolAssumption DEF TypeOK, Goroutines, Goto, Broadcast, Signal, Answer,
      TakeExpired, clockVars, queueVars, goVars, inputVars, replyVars,
      AtEnter, AtLoop, AtPop, AtSweep, TypeInv, Coupled, SubmitterCoupled,
      WorkerCoupled
<1>1. ASSUME NEW s \in Submitters, NEW t \in Tasks, NEW d \in Deadlines,
             Submit(s, t, d)
      PROVE  TypeOK'
  BY <1>1 DEF Submit, SubmitterPC
<1>2. ASSUME NEW s \in Submitters, SubmitterStep(s)
      PROVE  TypeOK'
  <2>1. CASE SubmitCollect(s)
    BY <2>1 DEF SubmitCollect, SubmitterPC, Dead
  <2>2. CASE SubmitClosed(s)
    BY <2>2 DEF SubmitClosed, SubmitterPC
  <2>3. CASE SubmitRoom(s)
    BY <2>3, FillRange DEF SubmitRoom, SetFill, Enqueue, SubmitterPC
  <2>4. CASE SubmitDrop(s)
    BY <2>4, FillRange DEF SubmitDrop, SetFill, SubmitterPC
  <2>5. CASE SubmitLate(s)
    BY <2>5, FillRange DEF SubmitLate, SetFill, SubmitterPC
  <2>6. CASE SubmitWait(s)
    BY <2>6, FillRange DEF SubmitWait, SetFill, WaitTurn, SubmitterPC, Dead,
       TimerStates
  <2>7. CASE WaitMore(s)
    BY <2>7 DEF WaitMore, WaitTurn, Dead
  <2>8. CASE WaitClosed(s)
    BY <2>8 DEF WaitClosed, StopTimer, TimerStates, SubmitterPC
  <2>9. CASE WaitRoom(s)
    BY <2>9 DEF WaitRoom, StopTimer, Enqueue, TimerStates, SubmitterPC
  <2>10. CASE WaitTimedOut(s)
    BY <2>10 DEF WaitTimedOut, StopTimer, TimerStates, SubmitterPC
  <2>11. CASE SubmitRefuse(s)
    BY <2>11 DEF SubmitRefuse, SubmitterPC, Outcomes
  <2> QED
    BY <1>2, <2>1, <2>2, <2>3, <2>4, <2>5, <2>6, <2>7, <2>8, <2>9, <2>10,
       <2>11 DEF SubmitterStep
<1>3. ASSUME NEW t \in Tasks, TimerStart(t) \/ TimerFire(t)
      PROVE  TypeOK'
  BY <1>3 DEF TimerStart, TimerFire, TimerStates
<1>4. ASSUME NEW g \in Goroutines, ReplyDead(g)
      PROVE  TypeOK'
  <2>1. Oldest(held[g]) \in Tasks
    BY <1>4, HeadOfHeld DEF ReplyDead, TypeInv
  <2> QED
    BY <1>4, <2>1 DEF ReplyDead, Outcomes
<1>5. ASSUME NEW w \in Workers, WorkerStep(w) \/ Finish(w)
      PROVE  TypeOK'
  <2>1. CASE PopTask(w)
    <3>1. Oldest(q \ Dead) \in Tasks
      BY <2>1, HeadOfQueue DEF PopTask, TypeInv
    <3> QED
      BY <2>1, <3>1 DEF PopTask, WorkerPC, Dead
  <2>2. CASE PopClosed(w)
    BY <2>2 DEF PopClosed, WorkerPC, Dead
  <2>3. CASE PopDead(w)
    BY <2>3 DEF PopDead, Dead
  <2>4. CASE PopWait(w)
    BY <2>4 DEF PopWait
  <2>5. CASE Overdue(w)
    BY <2>5 DEF Overdue, WorkerPC, Outcomes
  <2>6. CASE Evaluate(w)
    BY <2>6 DEF Evaluate, WorkerPC
  <2>7. CASE Leave(w)
    BY <2>7 DEF Leave, WorkerPC
  <2>8. CASE Finish(w)
    BY <2>8 DEF Finish, WorkerPC, Outcomes
  <2> QED
    BY <1>5, <2>1, <2>2, <2>3, <2>4, <2>5, <2>6, <2>7, <2>8
       DEF WorkerStep, PopStep
<1>6. CASE Sweep
  BY <1>6 DEF Sweep, Dead
<1>7. CASE SweepStop
  BY <1>7 DEF SweepStop, SweeperPC
<1>8. CASE CloseStop \/ CloseLocked \/ CloseReturn
  BY <1>8 DEF CloseStop, CloseLocked, CloseReturn, Lives
<1>9. CASE Tick
  BY <1>9 DEF Tick
<1>10. CASE UNCHANGED vars
  BY <1>10 DEF vars
<1> QED
  BY <1>1, <1>2, <1>3, <1>4, <1>5, <1>6, <1>7, <1>8, <1>9, <1>10
     DEF Next, Quiet

\* A goroutine carries a task exactly where the code has one in hand.
LEMMA CoupledStep == TypeInv /\ [Next]_vars => Coupled'
<1> SUFFICES ASSUME TypeInv, [Next]_vars
             PROVE  Coupled'
  OBVIOUS
<1> DEFINE PCs == SubmitterPC \cup WorkerPC \cup SweeperPC
<1>a. /\ pc \in [Goroutines -> PCs]
      /\ cur \in [Goroutines -> Tasks \cup {NoTask}]
      /\ held \in [Goroutines -> SUBSET Tasks]
      /\ waiters \subseteq Submitters \cup Workers
      /\ Coupled
  BY DEF TypeInv, TypeOK
<1>b. /\ Submitters \cap Workers = {}
      /\ Sweeper \notin Submitters \cup Workers
      /\ NoTask \notin Tasks
  BY PoolAssumption
<1> HIDE DEF PCs
<1> USE <1>a, <1>b DEF Goroutines, Goto, Broadcast, Signal, Answer,
      TakeExpired, clockVars, queueVars, goVars, inputVars, replyVars,
      AtEnter, AtLoop, AtPop, AtSweep, Coupled, SubmitterCoupled,
      WorkerCoupled
<1>1. ASSUME NEW s \in Submitters, NEW t \in Tasks, NEW d \in Deadlines,
             Submit(s, t, d)
      PROVE  Coupled'
  BY <1>1 DEF Submit, SubmitterPC
<1>2. ASSUME NEW s \in Submitters, SubmitterStep(s)
      PROVE  Coupled'
  <2>1. CASE SubmitCollect(s)
    BY <2>1 DEF SubmitCollect, SubmitterPC, Dead
  <2>2. CASE SubmitClosed(s)
    BY <2>2 DEF SubmitClosed, SubmitterPC
  <2>3. CASE SubmitRoom(s)
    BY <2>3 DEF SubmitRoom, SetFill, Enqueue, SubmitterPC
  <2>4. CASE SubmitDrop(s)
    BY <2>4 DEF SubmitDrop, SetFill, SubmitterPC
  <2>5. CASE SubmitLate(s)
    BY <2>5 DEF SubmitLate, SetFill, SubmitterPC
  <2>6. CASE SubmitWait(s)
    BY <2>6 DEF SubmitWait, SetFill, WaitTurn, SubmitterPC, Dead,
       TimerStates
  <2>7. CASE WaitMore(s)
    BY <2>7 DEF WaitMore, WaitTurn, Dead
  <2>8. CASE WaitClosed(s)
    BY <2>8 DEF WaitClosed, StopTimer, TimerStates, SubmitterPC
  <2>9. CASE WaitRoom(s)
    BY <2>9 DEF WaitRoom, StopTimer, Enqueue, TimerStates, SubmitterPC
  <2>10. CASE WaitTimedOut(s)
    BY <2>10 DEF WaitTimedOut, StopTimer, TimerStates, SubmitterPC
  <2>11. CASE SubmitRefuse(s)
    BY <2>11 DEF SubmitRefuse, SubmitterPC, Outcomes
  <2> QED
    BY <1>2, <2>1, <2>2, <2>3, <2>4, <2>5, <2>6, <2>7, <2>8, <2>9, <2>10,
       <2>11 DEF SubmitterStep
<1>3. ASSUME NEW t \in Tasks, TimerStart(t) \/ TimerFire(t)
      PROVE  Coupled'
  BY <1>3 DEF TimerStart, TimerFire, TimerStates
<1>4. ASSUME NEW g \in Goroutines, ReplyDead(g)
      PROVE  Coupled'
  <2>1. Oldest(held[g]) \in Tasks
    BY <1>4, HeadOfHeld DEF ReplyDead, TypeInv
  <2> QED
    BY <1>4, <2>1 DEF ReplyDead, Outcomes
<1>5. ASSUME NEW w \in Workers, WorkerStep(w) \/ Finish(w)
      PROVE  Coupled'
  <2>1. CASE PopTask(w)
    <3>1. Oldest(q \ Dead) \in Tasks
      BY <2>1, HeadOfQueue DEF PopTask, TypeInv
    <3> QED
      BY <2>1, <3>1 DEF PopTask, WorkerPC, Dead
  <2>2. CASE PopClosed(w)
    BY <2>2 DEF PopClosed, WorkerPC, Dead
  <2>3. CASE PopDead(w)
    BY <2>3 DEF PopDead, Dead
  <2>4. CASE PopWait(w)
    BY <2>4 DEF PopWait
  <2>5. CASE Overdue(w)
    BY <2>5 DEF Overdue, WorkerPC, Outcomes
  <2>6. CASE Evaluate(w)
    BY <2>6 DEF Evaluate, WorkerPC
  <2>7. CASE Leave(w)
    BY <2>7 DEF Leave, WorkerPC
  <2>8. CASE Finish(w)
    BY <2>8 DEF Finish, WorkerPC, Outcomes
  <2> QED
    BY <1>5, <2>1, <2>2, <2>3, <2>4, <2>5, <2>6, <2>7, <2>8
       DEF WorkerStep, PopStep
<1>6. CASE Sweep
  BY <1>6 DEF Sweep, Dead
<1>7. CASE SweepStop
  BY <1>7 DEF SweepStop, SweeperPC
<1>8. CASE CloseStop \/ CloseLocked \/ CloseReturn
  BY <1>8 DEF CloseStop, CloseLocked, CloseReturn, Lives
<1>9. CASE Tick
  BY <1>9 DEF Tick
<1>10. CASE UNCHANGED vars
  BY <1>10 DEF vars
<1> QED
  BY <1>1, <1>2, <1>3, <1>4, <1>5, <1>6, <1>7, <1>8, <1>9, <1>10
     DEF Next, Quiet

\* The variables keep their types; in particular t.Fill, which overload rules
\* compare with a percentage, stays a percentage.
THEOREM Typing == Spec => []TypeOK
  <1>1. Spec => []TypeInv
  BY TypeInit, TypeStep, CoupledStep, PTL DEF Spec, TypeInv
<1>2. TypeInv => TypeOK
  BY DEF TypeInv
<1> QED
  BY <1>1, <1>2, PTL

-----------------------------------------------------------------------------
(* Ownership.                                                              *)

\* No step loses a task, hands it to two goroutines or answers it twice.
LEMMA OwnershipStep == TypeInv /\ Ownership /\ [Next]_vars => Ownership'
<1> SUFFICES ASSUME TypeInv, Ownership, [Next]_vars, NEW u \in Tasks
             PROVE  OwnedOnce(u)'
  BY DEF Ownership
<1>a. /\ cur \in [Goroutines -> Tasks \cup {NoTask}]
      /\ held \in [Goroutines -> SUBSET Tasks]
      /\ replies \in [Tasks -> Nat]
      /\ enqueued \in [Tasks -> Nat \cup {NotYet}]
      /\ now \in Nat
      /\ Coupled
      /\ OwnedOnce(u)
      /\ NoTask \notin Tasks
  BY PoolAssumption DEF TypeInv, TypeOK, Ownership
<1> USE <1>a DEF Goroutines, OwnedOnce, Carried, HeldDead, Arrived,
      AtEnter, AtLoop, AtPop, AtSweep, Coupled, SubmitterCoupled, WorkerCoupled
<1>0. Dead \subseteq q
  BY DEF Dead
<1>1. ASSUME NEW s \in Submitters, NEW t \in Tasks, NEW d \in Deadlines,
             Submit(s, t, d)
      PROVE  OwnedOnce(u)'
  BY <1>1 DEF Submit, queueVars, replyVars, NotYet
<1>2. ASSUME NEW g \in Goroutines, held[g] = {}, TakeExpired(g),
             UNCHANGED <<cur, inputVars, replyVars>>
      PROVE  OwnedOnce(u)'
  BY <1>0, <1>2 DEF TakeExpired, inputVars, replyVars
<1>3. ASSUME NEW s \in Submitters, cur[s] \in Tasks, Enqueue(s),
             UNCHANGED <<held, inputVars, replyVars>>
      PROVE  OwnedOnce(u)'
  BY <1>3 DEF Enqueue, inputVars, replyVars
<1>4. ASSUME NEW g \in Goroutines, NEW how, cur[g] \in Tasks, Answer(cur[g], how),
             cur' = [cur EXCEPT ![g] = NoTask],
             UNCHANGED <<q, held, inputVars>>
      PROVE  OwnedOnce(u)'
  BY <1>4 DEF Answer, inputVars
<1>5. ASSUME UNCHANGED <<q, cur, held, inputVars, replyVars>>
      PROVE  OwnedOnce(u)'
  BY <1>5 DEF inputVars, replyVars
<1>6. ASSUME NEW g \in Goroutines, ReplyDead(g)
      PROVE  OwnedOnce(u)'
  <2>1. Oldest(held[g]) \in held[g] /\ Oldest(held[g]) \in Tasks
    BY <1>6, HeadOfHeld DEF ReplyDead, TypeInv
  <2> QED
    BY <1>6, <2>1 DEF ReplyDead, Answer, queueVars, inputVars
<1>7. ASSUME NEW w \in Workers, PopTask(w)
      PROVE  OwnedOnce(u)'
  <2>1. Oldest(q \ Dead) \in q \ Dead /\ Oldest(q \ Dead) \in Tasks
    BY <1>7, HeadOfQueue DEF PopTask, TypeInv
  <2> QED
    BY <1>0, <1>7, <2>1 DEF PopTask, inputVars, replyVars
<1> HIDE DEF OwnedOnce
<1>8. ASSUME NEW s \in Submitters, SubmitterStep(s)
      PROVE  OwnedOnce(u)'
  <2>0. s \in Goroutines /\ (pc[s] # "idle" => cur[s] \in Tasks)
    OBVIOUS
  <2>1. CASE SubmitCollect(s)
    BY <1>2, <2>0, <2>1 DEF SubmitCollect
  <2>2. CASE SubmitClosed(s) \/ SubmitDrop(s) \/ SubmitLate(s)
    BY <1>5, <2>2 DEF SubmitClosed, SubmitDrop, SubmitLate, queueVars
  <2>3. CASE SubmitRoom(s)
    BY <1>3, <2>0, <2>3 DEF SubmitRoom
  <2>4. CASE SubmitWait(s) \/ WaitMore(s)
    BY <1>2, <1>5, <2>0, <2>4 DEF SubmitWait, WaitMore, WaitTurn
  <2>5. CASE WaitClosed(s) \/ WaitTimedOut(s)
    BY <1>5, <2>5 DEF WaitClosed, WaitTimedOut, queueVars
  <2>6. CASE WaitRoom(s)
    BY <1>3, <2>0, <2>6 DEF WaitRoom
  <2>7. CASE SubmitRefuse(s)
    BY <1>4, <2>0, <2>7 DEF SubmitRefuse, queueVars
  <2> QED
    BY <1>8, <2>1, <2>2, <2>3, <2>4, <2>5, <2>6, <2>7 DEF SubmitterStep
<1>9. ASSUME NEW w \in Workers, WorkerStep(w) \/ Finish(w)
      PROVE  OwnedOnce(u)'
  <2>0. w \in Goroutines /\ (pc[w] \in {"budget", "evaluate"} => cur[w] \in Tasks)
    OBVIOUS
  <2>1. CASE PopClosed(w) \/ PopDead(w)
    BY <1>2, <2>0, <2>1 DEF PopClosed, PopDead
  <2>2. CASE PopWait(w) \/ Evaluate(w) \/ Leave(w)
    BY <1>5, <2>2 DEF PopWait, Evaluate, Leave, queueVars, goVars
  <2>3. CASE Overdue(w) \/ Finish(w)
    BY <1>4, <2>0, <2>3 DEF Overdue, Finish, queueVars
  <2> QED
    BY <1>7, <1>9, <2>1, <2>2, <2>3 DEF WorkerStep, PopStep
<1>10. CASE Sweep
  BY <1>2, <1>10 DEF Sweep
<1>11. CASE \/ SweepStop \/ CloseStop \/ CloseLocked \/ CloseReturn \/ Tick
            \/ \E t \in Tasks : TimerStart(t) \/ TimerFire(t)
            \/ UNCHANGED vars
  BY <1>5, <1>11 DEF SweepStop, CloseStop, CloseLocked, CloseReturn, Tick,
     TimerStart, TimerFire, vars, queueVars, goVars
<1> QED
  BY <1>1, <1>6, <1>8, <1>9, <1>10, <1>11 DEF Next, Quiet

\* The inductive invariant behind Ownership.
OwnershipInv == TypeInv /\ Ownership

\* Types, coupling and ownership hold together.
LEMMA OwnershipInvariant == Spec => []OwnershipInv
<1>1. Init => OwnershipInv
  <2>1. Init => Ownership
    BY PoolAssumption DEF Init, Ownership, OwnedOnce, Arrived, Carried,
       HeldDead, NotYet
  <2> QED
    BY <2>1, TypeInit DEF OwnershipInv
<1>2. OwnershipInv /\ [Next]_vars => OwnershipInv'
  BY TypeStep, CoupledStep, OwnershipStep DEF OwnershipInv, TypeInv
<1> QED
  BY <1>1, <1>2, PTL DEF Spec

\* No task is lost and none is answered twice.
THEOREM TasksAreOwned == Spec => []Ownership
<1>1. OwnershipInv => Ownership
  BY DEF OwnershipInv
<1> QED
  BY <1>1, OwnershipInvariant, PTL

-----------------------------------------------------------------------------
(* The bound of the queue and the wake-ups.                                *)

\* The queue is a finite set of tasks.
LEMMA QueueFinite ==
  ASSUME TypeOK
  PROVE  /\ IsFiniteSet(q) /\ Cardinality(q) \in Nat
         /\ \A S \in SUBSET q : IsFiniteSet(S) /\ Cardinality(S) <= Cardinality(q)
                                /\ Cardinality(S) \in Nat
<1>1. IsFiniteSet(q)
  BY PoolAssumption, FS_Subset DEF TypeOK
<1> QED
  BY <1>1, FS_Subset, FS_CardinalityType

\* Enqueue adds one task, which is not queued yet.
LEMMA EnqueueGrows ==
  ASSUME TypeInv, Ownership, NEW s \in Submitters, pc[s] # "idle", Enqueue(s)
  PROVE  Cardinality(q') = Cardinality(q) + 1
<1>1. cur[s] \in Tasks /\ s \in Goroutines
  BY DEF TypeInv, TypeOK, Coupled, SubmitterCoupled, Goroutines
<1>2. cur[s] \notin q
  BY <1>1 DEF Ownership, OwnedOnce, Carried
<1> QED
  BY <1>2, QueueFinite, FS_AddElement DEF Enqueue, TypeInv

\* Every step either appends one task when there is room or only removes tasks.
LEMMA QueueChange ==
  ASSUME TypeInv, [Next]_vars
  PROVE  \/ q' \subseteq q
         \/ \E s \in Submitters :
              pc[s] # "idle" /\ Enqueue(s) /\ ~QueueFull /\ ~Closed /\ life' = life
<1> USE DEF TakeExpired, WaitTurn, queueVars, goVars, clockVars
<1>1. ASSUME NEW s \in Submitters, SubmitterStep(s)
      PROVE  \/ q' \subseteq q
             \/ pc[s] # "idle" /\ Enqueue(s) /\ ~QueueFull /\ ~Closed /\ life' = life
  BY <1>1 DEF SubmitterStep, SubmitCollect, SubmitClosed, SubmitRoom, SubmitDrop,
     SubmitLate, SubmitWait, WaitMore, WaitClosed, WaitRoom, WaitTimedOut,
     SubmitRefuse, AtEnter, AtLoop
<1>2. ASSUME NEW w \in Workers, WorkerStep(w) \/ Finish(w)
      PROVE  q' \subseteq q
  BY <1>2 DEF WorkerStep, PopStep, PopTask, PopClosed, PopDead, PopWait, Overdue,
     Evaluate, Finish, Leave
<1>3. CASE \/ \E s \in Submitters, t \in Tasks, d \in Deadlines : Submit(s, t, d)
           \/ \E t \in Tasks : TimerStart(t) \/ TimerFire(t)
           \/ \E g \in Goroutines : ReplyDead(g)
           \/ Sweep \/ SweepStop \/ CloseStop \/ CloseLocked \/ CloseReturn
           \/ Tick \/ UNCHANGED vars
  BY <1>3 DEF Submit, TimerStart, TimerFire, ReplyDead, Sweep, SweepStop,
     CloseStop, CloseLocked, CloseReturn, Tick, vars
<1> QED
  BY <1>1, <1>2, <1>3 DEF Next, Quiet

\* Only an append under the lock lets the queue grow, and it saw room.
LEMMA DepthStep == OwnershipInv /\ DepthBound /\ [Next]_vars => DepthBound'
<1> SUFFICES ASSUME OwnershipInv, DepthBound, [Next]_vars
             PROVE  DepthBound'
  OBVIOUS
<1>1. CASE q' \subseteq q
  BY <1>1, QueueFinite, PoolAssumption DEF OwnershipInv, TypeInv, DepthBound
<1>2. ASSUME NEW s \in Submitters, pc[s] # "idle", Enqueue(s), ~QueueFull
      PROVE  DepthBound'
  BY <1>2, EnqueueGrows, QueueFinite, PoolAssumption
     DEF OwnershipInv, TypeInv, DepthBound, QueueFull
<1> QED
  BY <1>1, <1>2, QueueChange DEF OwnershipInv

\* The queue never exceeds its depth.
THEOREM QueueIsBounded == Spec => []DepthBound
<1>1. Init => DepthBound
  BY FS_EmptySet, PoolAssumption DEF Init, DepthBound
<1> QED
  BY <1>1, OwnershipInvariant, DepthStep, PTL DEF Spec

\* Once Close has taken the lock, tasks only leave the queue.
THEOREM ClosedQueueShrinks == Spec => NothingQueuedOnceClosed
<1>1. TypeInv /\ [Next]_vars => [Closed => q' \subseteq q]_vars
  BY QueueChange
<1>2. OwnershipInv => TypeInv
  BY DEF OwnershipInv
<1> QED
  BY <1>1, <1>2, OwnershipInvariant, PTL DEF Spec, NothingQueuedOnceClosed

\* Where the steps of the goroutines leave the sleepers and the ready workers.
\* An awake goroutine's move disturbs neither.
LEMMA WakeupStep == OwnershipInv /\ NoLostWakeup /\ [Next]_vars => NoLostWakeup'
<1> SUFFICES ASSUME OwnershipInv, NoLostWakeup, [Next]_vars
             PROVE  NoLostWakeup'
  OBVIOUS
<1>a. /\ pc \in [Goroutines -> SubmitterPC \cup WorkerPC \cup SweeperPC]
      /\ cur \in [Goroutines -> Tasks \cup {NoTask}]
      /\ timer \in [Tasks -> TimerStates]
      /\ waiters \subseteq Submitters \cup Workers
      /\ TypeOK /\ TypeInv /\ Coupled /\ Ownership
      /\ Submitters \cap Workers = {} /\ Sweeper \notin Submitters \cup Workers
      /\ Depth \in Nat \ {0} /\ Cardinality(q) \in Nat
  BY PoolAssumption, QueueFinite DEF OwnershipInv, TypeInv, TypeOK
<1>b. IsFiniteSet(Workers) /\ Ready \subseteq Workers /\ IsFiniteSet(Ready)
      /\ Cardinality(Ready) \in Nat
  BY PoolAssumption, FS_Subset, FS_CardinalityType DEF Ready
<1>c. ASSUME Ready \subseteq Ready'
      PROVE  Cardinality(Ready) <= Cardinality(Ready') /\ Cardinality(Ready') \in Nat
  <2>1. Ready' \subseteq Workers
    BY DEF Ready
  <2>2. IsFiniteSet(Ready')
    BY <1>b, <2>1, FS_Subset
  <2> QED
    BY <1>c, <2>2, FS_Subset, FS_CardinalityType
<1> USE DEF Goroutines
<1>1. ASSUME Broadcast
      PROVE  NoLostWakeup'
  BY <1>1 DEF Broadcast, NoLostWakeup
\* A step of awake goroutines that leaves the queue alone.
<1>2. ASSUME UNCHANGED <<q, waiters, life>>,
             \A g \in waiters : pc'[g] = pc[g] /\ cur'[g] = cur[g],
             \A w \in Workers : pc[w] = "pop" => pc'[w] = "pop",
             \A t \in Tasks : timer'[t] = "fired" => timer[t] = "fired",
             \A s \in waiters \cap Submitters : cur[s] \in Tasks
      PROVE  NoLostWakeup'
  <2>1. Ready \subseteq Ready'
    BY <1>2 DEF Ready
  <2> QED
    BY <1>2, <2>1, <1>a, <1>b, <1>c DEF NoLostWakeup, Closed, QueueFull, TimedOut
<1>3. \A s \in waiters \cap Submitters : cur[s] \in Tasks /\ pc[s] = "waiting"
  BY <1>a DEF Coupled, SubmitterCoupled
<1>4. ASSUME NEW s \in Submitters, pc[s] # "idle", Enqueue(s), ~QueueFull,
             life' = life
      PROVE  NoLostWakeup'
  <2>1. waiters \cap Submitters = {}
    BY <1>4 DEF NoLostWakeup
  <2>2. waiters \subseteq Workers
    BY <1>a, <2>1
  <2>3. ASSUME NEW g \in waiters, waiters' = waiters \ {g}
        PROVE  NoLostWakeup'
    <3>1. g \in Workers /\ pc[g] = "pop"
      BY <1>a, <2>2, <2>3 DEF Coupled, WorkerCoupled
    <3>2. pc' = [pc EXCEPT ![s] = "idle"] /\ g # s
      BY <1>a, <1>4, <3>1 DEF Enqueue
    <3>3. Ready' = Ready \cup {g} /\ g \notin Ready
      BY <1>a, <2>3, <3>1, <3>2 DEF Ready
    <3>4. Cardinality(Ready') = Cardinality(Ready) + 1
      BY <1>b, <3>3, FS_AddElement
    <3>5. Cardinality(q') = Cardinality(q) + 1
      BY <1>a, <1>4, EnqueueGrows
    <3>6. Cardinality(q) <= Cardinality(Ready) /\ ~Closed
      BY <2>3, <3>1 DEF NoLostWakeup
    <3>7. \A w \in waiters' : pc'[w] = "pop"
      BY <1>a, <2>2, <2>3, <3>2 DEF Coupled, WorkerCoupled
    <3> QED
      BY <1>a, <1>b, <1>4, <2>2, <2>3, <3>4, <3>5, <3>6, <3>7
         DEF NoLostWakeup, Closed
  <2> QED
    BY <1>1, <1>4, <2>3 DEF Enqueue, Signal, Broadcast
\* A goroutine goes to sleep.
<1>5. ASSUME NEW s \in Submitters, UNCHANGED <<q, cur, life>>,
             waiters' = waiters \cup {s}, pc' = [pc EXCEPT ![s] = "waiting"],
             ~Closed, QueueFull, cur[s] \in Tasks, timer'[cur[s]] # "fired",
             \A t \in Tasks : timer'[t] = "fired" => timer[t] = "fired"
      PROVE  NoLostWakeup'
  <2>1. Ready' = Ready
    BY <1>a, <1>5 DEF Ready
  <2> QED
    BY <1>a, <1>3, <1>5, <2>1 DEF NoLostWakeup, Closed, QueueFull, TimedOut
<1>6. ASSUME NEW w \in Workers, PopWait(w)
      PROVE  NoLostWakeup'
  <2>1. Cardinality(q') = 0
    BY <1>6, FS_EmptySet DEF PopWait
  <2>2. waiters \cap Submitters = {}
    BY <1>a, <1>6, FS_EmptySet DEF PopWait, NoLostWakeup, QueueFull
  <2>3. Ready' \subseteq Workers
    BY DEF Ready
  <2>4. Cardinality(Ready') \in Nat
    BY <1>b, <2>3, FS_Subset, FS_CardinalityType
  <2> QED
    BY <1>a, <1>6, <2>1, <2>2, <2>4
       DEF PopWait, AtPop, NoLostWakeup, Closed, clockVars, goVars
<1>7. ASSUME NEW s \in Submitters, SubmitterStep(s)
      PROVE  NoLostWakeup'
  <2>0. s \notin waiters \/ pc[s] = "waiting"
    BY <1>3
  <2>1. CASE SubmitCollect(s)
    BY <1>a, <1>1, <1>2, <1>3, <2>0, <2>1 DEF SubmitCollect, TakeExpired, Goto, clockVars
  <2>2. CASE SubmitClosed(s) \/ SubmitDrop(s) \/ SubmitLate(s)
    BY <1>a, <1>2, <1>3, <2>0, <2>2 DEF SubmitClosed, SubmitDrop, SubmitLate,
       AtEnter, Goto, clockVars, queueVars
  <2>3. CASE SubmitRoom(s)
    BY <1>4, <2>3 DEF SubmitRoom, AtEnter, clockVars
  <2>4. CASE SubmitWait(s)
    BY <1>a, <1>1, <1>5, <2>4 DEF SubmitWait, AtEnter, WaitTurn, TakeExpired, Goto,
       Coupled, SubmitterCoupled, clockVars
  <2>5. CASE WaitMore(s)
    BY <1>a, <1>1, <1>5, <2>5 DEF WaitMore, AtLoop, WaitTurn, TakeExpired, TimedOut,
       Coupled, SubmitterCoupled, clockVars
  <2>6. CASE WaitClosed(s) \/ WaitTimedOut(s)
    BY <1>a, <1>2, <1>3, <2>6 DEF WaitClosed, WaitTimedOut, AtLoop, Goto, StopTimer,
       clockVars, queueVars
  <2>7. CASE WaitRoom(s)
    BY <1>4, <2>7 DEF WaitRoom, AtLoop, clockVars
  <2>8. CASE SubmitRefuse(s)
    BY <1>a, <1>2, <1>3, <2>0, <2>8 DEF SubmitRefuse, Goto, clockVars, queueVars
  <2> QED
    BY <1>7, <2>1, <2>2, <2>3, <2>4, <2>5, <2>6, <2>7, <2>8 DEF SubmitterStep
<1>8. ASSUME NEW w \in Workers, WorkerStep(w) \/ Finish(w)
      PROVE  NoLostWakeup'
  <2>0. w \in waiters => pc[w] = "pop"
    BY <1>a DEF Coupled, WorkerCoupled
  <2>1. CASE PopTask(w)
    BY <1>1, <2>1 DEF PopTask
  <2>2. CASE PopClosed(w)
    BY <1>1, <2>2 DEF PopClosed, TakeExpired, NoLostWakeup, Broadcast
  <2>3. CASE PopDead(w)
    BY <1>1, <2>3 DEF PopDead, TakeExpired
  <2>4. CASE Overdue(w) \/ Evaluate(w) \/ Leave(w) \/ Finish(w)
    BY <1>a, <1>2, <1>3, <2>0, <2>4 DEF Overdue, Evaluate, Leave, Finish, Goto,
       clockVars, queueVars
  <2> QED
    BY <1>6, <1>8, <2>1, <2>2, <2>3, <2>4 DEF WorkerStep, PopStep
<1>9. ASSUME NEW s \in Submitters, NEW t \in Tasks, NEW d \in Deadlines,
             Submit(s, t, d)
      PROVE  NoLostWakeup'
  BY <1>a, <1>2, <1>3, <1>9 DEF Submit, Goto, clockVars, queueVars
<1>10. CASE \E t \in Tasks : TimerStart(t) \/ TimerFire(t)
  BY <1>a, <1>1, <1>2, <1>3, <1>10 DEF TimerStart, TimerFire, clockVars, queueVars,
     goVars
<1>11. CASE \E g \in Goroutines : ReplyDead(g)
  BY <1>2, <1>3, <1>11 DEF ReplyDead, clockVars, queueVars
<1>12. CASE Sweep \/ CloseLocked
  BY <1>1, <1>12 DEF Sweep, TakeExpired, CloseLocked
<1>13. CASE SweepStop
  BY <1>a, <1>2, <1>3, <1>13 DEF SweepStop, AtSweep, Goto, clockVars, queueVars
<1>14. CASE CloseStop \/ CloseReturn
  <2>1. Ready' = Ready
    BY <1>14 DEF CloseStop, CloseReturn, Ready, queueVars, goVars
  <2> QED
    BY <1>14, <2>1 DEF CloseStop, CloseReturn, NoLostWakeup, Closed, QueueFull,
       TimedOut, queueVars, goVars
<1>15. CASE Tick \/ UNCHANGED vars
  BY <1>2, <1>3, <1>15 DEF Tick, vars, clockVars, queueVars, goVars
<1> QED
  BY <1>7, <1>8, <1>9, <1>10, <1>11, <1>12, <1>13, <1>14, <1>15 DEF Next, Quiet

\* No goroutine sleeps on the shared condition variable through the event it
\* waits for, whatever the number of submitters and workers and whichever waiter
\* Signal chooses.
THEOREM WakeupsAreNotLost == Spec => []NoLostWakeup
<1>1. Init => NoLostWakeup
  BY DEF Init, NoLostWakeup
<1> QED
  BY <1>1, OwnershipInvariant, WakeupStep, PTL DEF Spec

-----------------------------------------------------------------------------
(* Order.                                                                  *)

\* A task has a ticket from the append on, tickets are handed out in order, and
\* the order of the queue is strict.
Ticketed ==
  /\ \A t \in Tasks : ticket[t] <= Accepted
  /\ \A t \in Tasks : ~Arrived(t) => ticket[t] = 0
  /\ \A s \in Submitters : cur[s] # NoTask => ticket[cur[s]] = 0
  /\ \A w \in Workers : cur[w] # NoTask => ticket[cur[w]] > 0
  /\ \A t \in q : ticket[t] > 0
  /\ \A g \in Goroutines : \A t \in held[g] : ticket[t] > 0
  /\ \A t, u \in q : ticket[t] = ticket[u] => t = u

\* The inductive invariant behind Fifo.
OrderInv == Ticketed /\ Fifo

\* Appends give out growing tickets and pop takes the smallest.
LEMMA OrderStep == OwnershipInv /\ OrderInv /\ [Next]_vars => OrderInv'
<1> SUFFICES ASSUME OwnershipInv, OrderInv, [Next]_vars
             PROVE  OrderInv'
  OBVIOUS
<1>a. /\ cur \in [Goroutines -> Tasks \cup {NoTask}]
      /\ held \in [Goroutines -> SUBSET Tasks]
      /\ ticket \in [Tasks -> Nat]
      /\ enqueued \in [Tasks -> Nat \cup {NotYet}]
      /\ q \subseteq Tasks /\ Accepted \in Nat /\ now \in Nat
      /\ TypeOK /\ Coupled /\ Ownership
      /\ Submitters \cap Workers = {} /\ Sweeper \notin Submitters \cup Workers
      /\ NoTask \notin Tasks
  BY PoolAssumption DEF OwnershipInv, TypeInv, TypeOK
<1>b. Dead \subseteq q
  BY DEF Dead
<1> USE DEF Goroutines, OrderInv
<1>1. ASSUME UNCHANGED <<enqueued, ticket, Accepted>>, q' \subseteq q,
             \A g \in Goroutines : cur'[g] \in {cur[g], NoTask},
             \A g \in Goroutines : held'[g] \subseteq held[g] \cup q
      PROVE  OrderInv'
  BY <1>a, <1>1 DEF Ticketed, Fifo, Arrived
<1>2. ASSUME NEW g \in Goroutines, TakeExpired(g),
             UNCHANGED <<enqueued, ticket, Accepted, cur>>
      PROVE  OrderInv'
  BY <1>1, <1>2, <1>a, <1>b DEF TakeExpired
<1>3. ASSUME NEW s \in Submitters, NEW t \in Tasks, NEW d \in Deadlines,
             Submit(s, t, d)
      PROVE  OrderInv'
  BY <1>a, <1>3 DEF Submit, Ticketed, Fifo, Arrived, NotYet, queueVars
<1>4. ASSUME NEW s \in Submitters, pc[s] # "idle", Enqueue(s),
             UNCHANGED <<enqueued, held>>
      PROVE  OrderInv'
  <2> DEFINE c == cur[s]
  <2>1. c \in Tasks
    BY <1>a, <1>4 DEF Coupled, SubmitterCoupled
  <2>2. /\ c \notin q /\ Arrived(c)
        /\ \A g \in Goroutines : c \notin held[g] /\ (cur[g] = c => g = s)
    BY <1>a, <2>1 DEF Ownership, OwnedOnce, Carried, HeldDead
  <2>3. /\ q' = q \cup {c} /\ Accepted' = Accepted + 1
        /\ ticket' = [ticket EXCEPT ![c] = Accepted + 1]
        /\ cur' = [cur EXCEPT ![s] = NoTask]
    BY <1>4 DEF Enqueue
  <2> HIDE DEF c
  <2>4. Ticketed'
    BY <1>a, <1>4, <2>1, <2>2, <2>3 DEF Ticketed, Arrived
  <2>5. Fifo'
    BY <1>a, <1>4, <2>1, <2>2, <2>3 DEF Ticketed, Fifo
  <2> QED
    BY <2>4, <2>5
<1>5. ASSUME NEW w \in Workers, PopTask(w)
      PROVE  OrderInv'
  <2> DEFINE t == Oldest(q \ Dead)
  <2>1. t \in q \ Dead /\ \A u \in q \ Dead : ticket[t] <= ticket[u]
    BY <1>5, <1>a, HeadOfQueue DEF PopTask
  <2> HIDE DEF t
  <2>2. \A u \in (q \ Dead) \ {t} : ticket[t] < ticket[u]
    BY <1>a, <2>1 DEF Ticketed
  <2> USE DEF t
  <2>3. /\ q' = (q \ Dead) \ {t} /\ cur' = [cur EXCEPT ![w] = t]
        /\ held' = [held EXCEPT ![w] = Dead]
        /\ UNCHANGED <<ticket, Accepted, enqueued>>
    BY <1>5 DEF PopTask, inputVars
  <2> HIDE DEF t
  <2> QED
    BY <1>a, <1>b, <2>1, <2>2, <2>3 DEF Ticketed, Fifo, Arrived
<1>6. ASSUME NEW s \in Submitters, SubmitterStep(s)
      PROVE  OrderInv'
  <2>1. CASE SubmitCollect(s) \/ SubmitWait(s) \/ WaitMore(s)
    BY <1>1, <1>2, <2>1 DEF SubmitCollect, SubmitWait, WaitMore, WaitTurn, inputVars
  <2>2. CASE \/ SubmitClosed(s) \/ SubmitDrop(s) \/ SubmitLate(s)
             \/ WaitClosed(s) \/ WaitTimedOut(s)
    BY <1>1, <2>2 DEF SubmitClosed, SubmitDrop, SubmitLate, WaitClosed,
       WaitTimedOut, inputVars, queueVars
  <2>3. CASE SubmitRoom(s) \/ WaitRoom(s)
    BY <1>4, <2>3 DEF SubmitRoom, WaitRoom, AtEnter, AtLoop, inputVars
  <2>4. CASE SubmitRefuse(s)
    BY <1>a, <1>1, <2>4 DEF SubmitRefuse, inputVars, queueVars
  <2> QED
    BY <1>6, <2>1, <2>2, <2>3, <2>4 DEF SubmitterStep
<1>7. ASSUME NEW w \in Workers, WorkerStep(w) \/ Finish(w)
      PROVE  OrderInv'
  <2>1. CASE PopClosed(w) \/ PopDead(w)
    BY <1>2, <2>1 DEF PopClosed, PopDead, inputVars
  <2>2. CASE PopWait(w) \/ Evaluate(w) \/ Leave(w)
    BY <1>1, <2>2 DEF PopWait, Evaluate, Leave, inputVars, queueVars, goVars
  <2>3. CASE Overdue(w) \/ Finish(w)
    BY <1>a, <1>1, <2>3 DEF Overdue, Finish, inputVars, queueVars
  <2> QED
    BY <1>5, <1>7, <2>1, <2>2, <2>3 DEF WorkerStep, PopStep
<1>8. CASE \E g \in Goroutines : ReplyDead(g)
  BY <1>a, <1>1, <1>8 DEF ReplyDead, inputVars, queueVars
<1>9. CASE Sweep
  BY <1>2, <1>9 DEF Sweep, inputVars
<1>10. CASE \/ SweepStop \/ CloseStop \/ CloseLocked \/ CloseReturn \/ Tick
            \/ \E t \in Tasks : TimerStart(t) \/ TimerFire(t)
            \/ UNCHANGED vars
  BY <1>1, <1>10 DEF SweepStop, CloseStop, CloseLocked, CloseReturn, Tick,
     TimerStart, TimerFire, vars, inputVars, queueVars, goVars
<1> QED
  BY <1>3, <1>6, <1>7, <1>8, <1>9, <1>10 DEF Next, Quiet

\* The order of the queue holds in every reachable state.
LEMMA OrderInvariant == Spec => []OrderInv
<1>1. Init => OrderInv
  BY PoolAssumption DEF Init, OrderInv, Ticketed, Fifo, Goroutines
<1> QED
  BY <1>1, OwnershipInvariant, OrderStep, PTL DEF Spec

\* The pool hands tasks to its workers in the order of their appends.
THEOREM TasksAreServedInOrder == Spec => []Fifo
<1>1. OrderInv => Fifo
  BY DEF OrderInv
<1> QED
  BY <1>1, OrderInvariant, PTL

-----------------------------------------------------------------------------
(* Shutdown.                                                               *)

\* A worker leaves only when the closed queue is empty, and Close returns only
\* when all of them have left.
DrainInv ==
  /\ \A w \in Workers : pc[w] \in {"leave", "exited"} => Closed /\ q = {}
  /\ life = "returned" => \A g \in Workers \cup {Sweeper} : pc[g] = "exited"

\* A worker leaves only a closed pool whose queue it has emptied.
LEMMA DrainStep == TypeInv /\ DrainInv /\ [Next]_vars => DrainInv'
<1> SUFFICES ASSUME TypeInv, DrainInv, [Next]_vars
             PROVE  DrainInv'
  OBVIOUS
<1>a. /\ pc \in [Goroutines -> SubmitterPC \cup WorkerPC \cup SweeperPC]
      /\ life \in Lives
      /\ Submitters \cap Workers = {} /\ Sweeper \notin Submitters \cup Workers
  BY PoolAssumption DEF TypeInv, TypeOK
<1> USE DEF Goroutines
<1>1. Closed => q' \subseteq q
  BY QueueChange
\* A step of a goroutine that is not about to leave, and that is not Close's.
<1>2. ASSUME NEW g \in Goroutines, NEW l \in SubmitterPC \cup WorkerPC \cup SweeperPC,
             pc' = [pc EXCEPT ![g] = l], pc[g] # "exited", life' = life,
             g \in Workers => l \notin {"leave", "exited"}
      PROVE  DrainInv'
  BY <1>a, <1>1, <1>2 DEF DrainInv, Closed
<1>3. ASSUME UNCHANGED <<pc, life>>
      PROVE  DrainInv'
  BY <1>1, <1>3 DEF DrainInv, Closed
<1>4. ASSUME NEW s \in Submitters, NEW t \in Tasks, NEW d \in Deadlines,
             Submit(s, t, d)
      PROVE  DrainInv'
  BY <1>a, <1>2, <1>4 DEF Submit, Goto, clockVars, SubmitterPC
<1>5. ASSUME NEW s \in Submitters, SubmitterStep(s)
      PROVE  DrainInv'
  <2>1. pc[s] # "exited"
    BY DEF TypeInv, TypeOK, SubmitterPC
  <2>2. CASE \E l \in SubmitterPC : pc' = [pc EXCEPT ![s] = l] /\ life' = life
    BY <1>a, <1>2, <2>1, <2>2
  <2>3. CASE UNCHANGED <<pc, life>>
    BY <1>3, <2>3
  <2> QED
    BY <1>5, <2>2, <2>3 DEF SubmitterStep, SubmitCollect, SubmitClosed, SubmitRoom,
       SubmitDrop, SubmitLate, SubmitWait, WaitMore, WaitClosed, WaitRoom,
       WaitTimedOut, SubmitRefuse, Enqueue, Goto, clockVars, SubmitterPC
<1>6. ASSUME NEW w \in Workers, WorkerStep(w) \/ Finish(w)
      PROVE  DrainInv'
  <2>1. CASE PopTask(w)
    BY <1>a, <1>2, <2>1 DEF PopTask, AtPop, Goto, WorkerPC, clockVars
  <2>2. CASE PopClosed(w)
    <3>1. q' = {} /\ Closed' /\ life' = life
      BY <2>2 DEF PopClosed, TakeExpired, Closed, clockVars
    <3> QED
      BY <1>a, <2>2, <3>1 DEF PopClosed, AtPop, Goto, DrainInv
  <2>3. CASE PopDead(w) \/ PopWait(w)
    BY <1>3, <2>3 DEF PopDead, PopWait, clockVars, goVars
  <2>4. CASE Overdue(w) \/ Evaluate(w) \/ Finish(w)
    BY <1>a, <1>2, <2>4 DEF Overdue, Evaluate, Finish, Goto, WorkerPC, clockVars
  <2>5. CASE Leave(w)
    BY <1>a, <1>1, <2>5 DEF Leave, Goto, DrainInv, Closed, clockVars, queueVars
  <2> QED
    BY <1>6, <2>1, <2>2, <2>3, <2>4, <2>5 DEF WorkerStep, PopStep
<1>7. CASE SweepStop
  BY <1>a, <1>2, <1>7 DEF SweepStop, AtSweep, Goto, SweeperPC, clockVars
<1>8. CASE CloseStop \/ CloseLocked \/ CloseReturn
  BY <1>a, <1>8 DEF CloseStop, CloseLocked, CloseReturn, DrainInv, Closed,
     queueVars, goVars
<1>9. CASE \/ Sweep \/ Tick \/ UNCHANGED vars
           \/ \E t \in Tasks : TimerStart(t) \/ TimerFire(t)
           \/ \E g \in Goroutines : ReplyDead(g)
  BY <1>3, <1>9 DEF Sweep, Tick, TimerStart, TimerFire, ReplyDead, vars, clockVars,
     goVars
<1> QED
  BY <1>4, <1>5, <1>6, <1>7, <1>8, <1>9 DEF Next, Quiet

\* When Close returns, only submitters still hold tasks.
THEOREM CloseDrains == Spec => []DrainedOnReturn
<1>1. Init => DrainInv
  BY PoolAssumption DEF Init, DrainInv, Goroutines
<1>2. OwnershipInv => TypeInv
  BY DEF OwnershipInv
<1>3. TypeInv /\ DrainInv => DrainedOnReturn
  BY PoolAssumption DEF TypeInv, Coupled, WorkerCoupled, DrainInv, DrainedOnReturn
<1> QED
  BY <1>1, <1>2, <1>3, OwnershipInvariant, DrainStep, PTL DEF Spec

-----------------------------------------------------------------------------
(* The counters.                                                           *)

\* A task that has not been answered has no outcome, so an answer moves exactly
\* one task into the set its counter counts.
CountInv ==
  /\ Accounting
  /\ \A t \in Tasks : replies[t] = 0 => outcome[t] = "none"

\* A set of tasks that gains one task has one more.
LEMMA OneMore ==
  ASSUME NEW S, S \subseteq Tasks, NEW t \in Tasks, t \notin S
  PROVE  Cardinality(S \cup {t}) = Cardinality(S) + 1
<1>1. IsFiniteSet(S)
  BY PoolAssumption, FS_Subset
<1> QED
  BY <1>1, FS_AddElement

\* An answer to a task that has none moves the counter of its kind.
LEMMA AnswerCounts ==
  ASSUME TypeOK, CountInv, NEW t \in Tasks, replies[t] = 0,
         NEW how \in {"evaluated", "deadline", "limit"}, Answer(t, how),
         UNCHANGED <<ticket, Accepted>>, how = "evaluated" => ticket[t] > 0
  PROVE  CountInv'
<1> DEFINE Of(o) == {u \in Tasks : outcome[u] = o}
           Then(o) == {u \in Tasks : outcome'[u] = o}
<1>1. /\ outcome \in [Tasks -> Outcomes] /\ outcome[t] = "none"
      /\ replies \in [Tasks -> Nat]
      /\ outcome' = [outcome EXCEPT ![t] = how]
      /\ replies' = [replies EXCEPT ![t] = @ + 1]
  BY DEF TypeOK, CountInv, Answer
<1>2. ASSUME NEW o \in {"deadline", "limit"}
      PROVE  Cardinality(Then(o)) = Cardinality(Of(o)) + (IF how = o THEN 1 ELSE 0)
  <2>1. Of(o) \subseteq Tasks /\ t \notin Of(o)
    BY <1>1
  <2>2. CASE how = o
    <3>1. Then(o) = Of(o) \cup {t}
      BY <1>1, <2>2
    <3> QED
      BY <2>1, <2>2, <3>1, OneMore
  <2>3. CASE how # o
    <3>1. Then(o) = Of(o)
      BY <1>1, <2>3
    <3>2. Cardinality(Of(o)) \in Nat
      BY <2>1, PoolAssumption, FS_Subset, FS_CardinalityType
    <3> QED
      BY <2>3, <3>1, <3>2
  <2> QED
    BY <2>2, <2>3
<1>3. Shed' = Cardinality(Then("limit")) /\ Expired' = Cardinality(Then("deadline"))
  <2>1. Shed = Cardinality(Of("limit")) /\ Expired = Cardinality(Of("deadline"))
    BY DEF CountInv, Accounting
  <2>2. /\ Cardinality(Then("limit")) = Shed + (IF how = "limit" THEN 1 ELSE 0)
        /\ Cardinality(Then("deadline")) = Expired + (IF how = "deadline" THEN 1 ELSE 0)
    BY <1>2, <2>1
  <2>3. /\ Expired' = IF how = "deadline" THEN Expired + 1 ELSE Expired
        /\ Shed' = IF how = "limit" THEN Shed + 1 ELSE Shed
        /\ Shed \in Nat /\ Expired \in Nat
    BY DEF Answer, TypeOK
  <2> HIDE DEF Of, Then
  <2> QED
    BY <2>2, <2>3
<1>4. /\ Accepted' = Cardinality({u \in Tasks : ticket'[u] > 0})
      /\ \A u \in Tasks : outcome'[u] = "evaluated" => ticket'[u] > 0
      /\ \A u \in Tasks : replies'[u] = 0 => outcome'[u] = "none"
  BY <1>1 DEF CountInv, Accounting
<1> QED
  BY <1>3, <1>4 DEF CountInv, Accounting

\* An append moves Accepted and gives the task its ticket.
LEMMA EnqueueCounts ==
  ASSUME OwnershipInv, OrderInv, CountInv, NEW s \in Submitters, pc[s] # "idle",
         Enqueue(s), UNCHANGED replyVars
  PROVE  CountInv'
<1> DEFINE c == cur[s]
           Had == {t \in Tasks : ticket[t] > 0}
<1>1. c \in Tasks /\ ticket \in [Tasks -> Nat] /\ Accepted \in Nat
  BY DEF OwnershipInv, TypeInv, TypeOK, Coupled, SubmitterCoupled, Goroutines
<1>2. ticket[c] = 0
  BY <1>1, PoolAssumption DEF OrderInv, Ticketed
<1>3. ticket' = [ticket EXCEPT ![c] = Accepted + 1] /\ Accepted' = Accepted + 1
  BY DEF Enqueue
<1> HIDE DEF c
<1>4. {t \in Tasks : ticket'[t] > 0} = Had \cup {c} /\ c \notin Had
  BY <1>1, <1>2, <1>3
<1>5. Cardinality(Had \cup {c}) = Cardinality(Had) + 1
  BY <1>1, <1>4, OneMore
<1>6. \A t \in Tasks : ticket[t] > 0 => ticket'[t] > 0
  BY <1>1, <1>3
<1>7. Accepted' = Cardinality({t \in Tasks : ticket'[t] > 0})
  BY <1>3, <1>4, <1>5 DEF CountInv, Accounting
<1> QED
  BY <1>6, <1>7 DEF CountInv, Accounting, replyVars

\* Every answer and every append is counted once.
LEMMA CountStep ==
  OwnershipInv /\ OrderInv /\ CountInv /\ [Next]_vars => CountInv'
<1> SUFFICES ASSUME OwnershipInv, OrderInv, CountInv, [Next]_vars
             PROVE  CountInv'
  OBVIOUS
<1>a. /\ cur \in [Goroutines -> Tasks \cup {NoTask}]
      /\ held \in [Goroutines -> SUBSET Tasks]
      /\ TypeOK /\ Coupled /\ Ownership /\ NoTask \notin Tasks
      /\ replies \in [Tasks -> Nat]
  BY PoolAssumption DEF OwnershipInv, TypeInv, TypeOK
<1> USE DEF Goroutines
<1>1. ASSUME UNCHANGED <<ticket, Accepted, replyVars>>
      PROVE  CountInv'
  BY <1>1 DEF CountInv, Accounting, replyVars
<1>2. ASSUME NEW g \in Goroutines, cur[g] \in Tasks, UNCHANGED queueVars,
             NEW how \in {"evaluated", "deadline", "limit"}, Answer(cur[g], how),
             how = "evaluated" => g \in Workers
      PROVE  CountInv'
  <2>1. replies[cur[g]] = 0
    BY <1>a, <1>2 DEF Ownership, OwnedOnce, Carried
  <2>2. g \in Workers => ticket[cur[g]] > 0
    BY <1>a, <1>2 DEF OrderInv, Ticketed
  <2> QED
    BY <1>a, <1>2, <2>1, <2>2, AnswerCounts DEF queueVars
<1>3. ASSUME NEW s \in Submitters, NEW t \in Tasks, NEW d \in Deadlines,
             Submit(s, t, d)
      PROVE  CountInv'
  BY <1>1, <1>3 DEF Submit, queueVars
<1>4. ASSUME NEW s \in Submitters, SubmitterStep(s)
      PROVE  CountInv'
  <2>1. CASE SubmitCollect(s) \/ SubmitWait(s) \/ WaitMore(s)
    BY <1>1, <2>1 DEF SubmitCollect, SubmitWait, WaitMore
  <2>2. CASE \/ SubmitClosed(s) \/ SubmitDrop(s) \/ SubmitLate(s)
             \/ WaitClosed(s) \/ WaitTimedOut(s)
    BY <1>1, <2>2 DEF SubmitClosed, SubmitDrop, SubmitLate, WaitClosed,
       WaitTimedOut, queueVars
  <2>3. CASE SubmitRoom(s) \/ WaitRoom(s)
    BY <2>3, EnqueueCounts DEF SubmitRoom, WaitRoom, AtEnter, AtLoop
  <2>4. CASE SubmitRefuse(s)
    <3>1. cur[s] \in Tasks
      BY <1>a, <2>4 DEF SubmitRefuse, Coupled, SubmitterCoupled
    <3> QED
      BY <1>2, <2>4, <3>1 DEF SubmitRefuse
  <2> QED
    BY <1>4, <2>1, <2>2, <2>3, <2>4 DEF SubmitterStep
<1>5. ASSUME NEW w \in Workers, WorkerStep(w) \/ Finish(w)
      PROVE  CountInv'
  <2>1. CASE PopTask(w) \/ PopClosed(w) \/ PopDead(w) \/ PopWait(w)
    BY <1>1, <2>1 DEF PopTask, PopClosed, PopDead, PopWait
  <2>2. CASE Evaluate(w) \/ Leave(w)
    BY <1>1, <2>2 DEF Evaluate, Leave, queueVars
  <2>3. CASE Overdue(w) \/ Finish(w)
    <3>1. cur[w] \in Tasks
      BY <1>a, <2>3 DEF Overdue, Finish, Coupled, WorkerCoupled
    <3> QED
      BY <1>2, <2>3, <3>1 DEF Overdue, Finish
  <2> QED
    BY <1>5, <2>1, <2>2, <2>3 DEF WorkerStep, PopStep
<1>6. ASSUME NEW g \in Goroutines, ReplyDead(g)
      PROVE  CountInv'
  <2>1. Oldest(held[g]) \in held[g] /\ Oldest(held[g]) \in Tasks
    BY <1>a, <1>6, HeadOfHeld DEF ReplyDead
  <2>2. replies[Oldest(held[g])] = 0
    BY <1>a, <2>1 DEF Ownership, OwnedOnce, HeldDead
  <2>3. Answer(Oldest(held[g]), "deadline") /\ UNCHANGED <<ticket, Accepted>>
    BY <1>6 DEF ReplyDead, queueVars
  <2> QED
    BY <1>a, <2>1, <2>2, <2>3, AnswerCounts
<1>7. CASE \/ Sweep \/ SweepStop \/ CloseStop \/ CloseLocked \/ CloseReturn \/ Tick
           \/ \E t \in Tasks : TimerStart(t) \/ TimerFire(t)
           \/ UNCHANGED vars
  BY <1>1, <1>7 DEF Sweep, SweepStop, CloseStop, CloseLocked, CloseReturn, Tick,
     TimerStart, TimerFire, vars, queueVars
<1> QED
  BY <1>3, <1>4, <1>5, <1>6, <1>7 DEF Next, Quiet

\* The counters of the heartbeat are exact: what submitters, workers and the sweeper
\* count under the lock and outside it adds up to the tasks themselves.
THEOREM CountersAreExact == Spec => []Accounting
<1>1. Init => CountInv
  <2> SUFFICES ASSUME Init
               PROVE  CountInv
    OBVIOUS
  <2>1. /\ {t \in Tasks : outcome[t] = "limit"} = {}
        /\ {t \in Tasks : outcome[t] = "deadline"} = {}
        /\ {t \in Tasks : ticket[t] > 0} = {}
    BY DEF Init
  <2> QED
    BY <2>1, FS_EmptySet DEF Init, CountInv, Accounting
<1>2. CountInv => Accounting
  BY DEF CountInv
<1> QED
  BY <1>1, <1>2, OwnershipInvariant, OrderInvariant, CountStep, PTL DEF Spec

=============================================================================
