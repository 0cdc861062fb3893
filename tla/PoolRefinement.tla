--------------------------- MODULE PoolRefinement ---------------------------
(***************************************************************************)
(* The pool implements ReplyOnce: goroutines, the shared condition         *)
(* variable, timers and the clock are invisible to the submitter, which    *)
(* sees each task offered, accepted at most once and answered once.        *)
(***************************************************************************)
EXTENDS PoolProofs

\* Only a pool that may shed sends a submitter to shedLimit.
ShedOnlyInDrop == \A s \in Submitters : pc[s] = "shed" => Full = "drop"

\* shedLimit is only reached in drop mode.
LEMMA ShedStep == TypeInv /\ ShedOnlyInDrop /\ [Next]_vars => ShedOnlyInDrop'
<1> SUFFICES ASSUME TypeInv, ShedOnlyInDrop, [Next]_vars,
                    NEW r \in Submitters, pc'[r] = "shed"
             PROVE  Full = "drop"
  BY DEF ShedOnlyInDrop
<1>a. /\ pc \in [Goroutines -> SubmitterPC \cup WorkerPC \cup SweeperPC]
      /\ Submitters \cap Workers = {} /\ Sweeper \notin Submitters \cup Workers
  BY PoolAssumption DEF TypeInv, TypeOK
<1> USE DEF Goroutines
<1>1. CASE pc[r] = "shed"
  BY <1>1 DEF ShedOnlyInDrop
<1>2. ASSUME pc[r] # "shed", NEW g \in Goroutines, NEW l, pc' = [pc EXCEPT ![g] = l]
      PROVE  g = r /\ l = "shed"
  BY <1>a, <1>2
<1>3. ASSUME NEW s \in Submitters, NEW t \in Tasks, NEW d \in Deadlines,
             Submit(s, t, d)
      PROVE  Full = "drop"
  BY <1>1, <1>2, <1>3 DEF Submit, Goto
<1>4. ASSUME NEW s \in Submitters, SubmitterStep(s)
      PROVE  Full = "drop"
  BY <1>1, <1>2, <1>4 DEF SubmitterStep, SubmitCollect, SubmitClosed, SubmitRoom,
     SubmitDrop, SubmitLate, SubmitWait, WaitMore, WaitClosed, WaitRoom,
     WaitTimedOut, SubmitRefuse, Enqueue, Goto
<1>5. ASSUME NEW w \in Workers, WorkerStep(w) \/ Finish(w)
      PROVE  Full = "drop"
  BY <1>a, <1>1, <1>2, <1>5 DEF WorkerStep, PopStep, PopTask, PopClosed, PopDead,
     PopWait, Overdue, Evaluate, Finish, Leave, Goto, goVars
<1>6. CASE SweepStop
  BY <1>a, <1>1, <1>2, <1>6 DEF SweepStop, Goto
<1>7. CASE \/ Sweep \/ Tick \/ CloseStop \/ CloseLocked \/ CloseReturn
           \/ \E t \in Tasks : TimerStart(t) \/ TimerFire(t)
           \/ \E g \in Goroutines : ReplyDead(g)
           \/ UNCHANGED vars
  BY <1>1, <1>7 DEF Sweep, Tick, CloseStop, CloseLocked, CloseReturn, TimerStart,
     TimerFire, ReplyDead, vars, goVars
<1> QED
  BY <1>3, <1>4, <1>5, <1>6, <1>7 DEF Next, Quiet

-----------------------------------------------------------------------------
\* What the steps of the pool rely on to be steps of ReplyOnce.
RefineInv == OwnershipInv /\ OrderInv /\ ShedOnlyInDrop

\* What the refinement needs to know of the reachable states.
LEMMA RefineInvariant == Spec => []RefineInv
<1>1. Init => ShedOnlyInDrop
  BY PoolAssumption DEF Init, ShedOnlyInDrop, Goroutines
<1>2. OwnershipInv => TypeInv
  BY DEF OwnershipInv
<1>3. OwnershipInv /\ OrderInv /\ ShedOnlyInDrop => RefineInv
  BY DEF RefineInv
<1> QED
  BY <1>1, <1>2, <1>3, ShedStep, OwnershipInvariant, OrderInvariant, PTL DEF Spec

\* Each step of the pool is a step of the contract or leaves it alone.
LEMMA PromiseStep ==
  RefineInv /\ [Next]_vars => [Promise!Next]_<<status, Closed>>
<1> SUFFICES ASSUME RefineInv, [Next]_vars
             PROVE  Promise!Next \/ UNCHANGED <<status, Closed>>
  BY DEF Promise!promiseVars
<1>a. /\ cur \in [Goroutines -> Tasks \cup {NoTask}]
      /\ held \in [Goroutines -> SUBSET Tasks]
      /\ ticket \in [Tasks -> Nat] /\ Accepted \in Nat
      /\ replies \in [Tasks -> Nat]
      /\ enqueued \in [Tasks -> Nat \cup {NotYet}]
      /\ outcome \in [Tasks -> Outcomes]
      /\ now \in Nat /\ life \in Lives
      /\ TypeOK /\ TypeInv /\ Coupled /\ Ownership /\ Ticketed /\ ShedOnlyInDrop
      /\ NoTask \notin Tasks /\ q \subseteq Tasks
      /\ Sweeper \notin Submitters \cup Workers
  BY PoolAssumption DEF RefineInv, OwnershipInv, OrderInv, TypeInv, TypeOK
<1> USE DEF Goroutines
<1>b. \A t \in Tasks : replies[t] \in Nat /\ (Arrived(t) \/ ~Arrived(t))
  BY <1>a
\* A step that changes the status of one task.
<1>c. ASSUME NEW t \in Tasks, NEW new, StatusOf(t)' = new,
             \A u \in Tasks \ {t} : StatusOf(u)' = StatusOf(u)
      PROVE  status' = [status EXCEPT ![t] = new]
  BY <1>c DEF status
<1>d. \A u \in Tasks : UNCHANGED <<enqueued[u], replies[u], outcome[u], ticket[u]>>
                        => StatusOf(u)' = StatusOf(u)
  BY DEF StatusOf, Arrived
\* Steps the contract does not see.
<1>1. ASSUME UNCHANGED <<enqueued, replies, outcome, ticket>>, Closed' = Closed
      PROVE  UNCHANGED <<status, Closed>>
  BY <1>1, <1>d DEF status
\* An answer to a task that has not been answered.
<1>2. ASSUME NEW t \in Tasks, NEW how \in {"evaluated", "deadline", "limit"},
             replies[t] = 0, Arrived(t), Answer(t, how),
             UNCHANGED <<enqueued, ticket, life>>
      PROVE  /\ status[t] = IF ticket[t] = 0 THEN "offered" ELSE "accepted"
             /\ status' = [status EXCEPT ![t] = how] /\ Closed' = Closed
  <2>1. \A u \in Tasks \ {t} : StatusOf(u)' = StatusOf(u)
    BY <1>a, <1>d, <1>2 DEF Answer
  <2>2. Arrived(t)' /\ replies'[t] = 1 /\ outcome'[t] = how
    BY <1>a, <1>2 DEF Answer, Arrived
  <2>3. StatusOf(t)' = how
    BY <2>2 DEF StatusOf
  <2>4. StatusOf(t) = IF ticket[t] = 0 THEN "offered" ELSE "accepted"
    BY <1>2 DEF StatusOf
  <2> QED
    BY <1>2, <1>c, <2>1, <2>3, <2>4 DEF status, Closed
<1>3. ASSUME NEW s \in Submitters, NEW t \in Tasks, NEW d \in Deadlines,
             Submit(s, t, d)
      PROVE  Promise!Next
  <2>1. replies[t] = 0 /\ ticket[t] = 0
    BY <1>a, <1>3 DEF Submit, Ownership, OwnedOnce, Ticketed
  <2>2. status[t] = "new" /\ status' = [status EXCEPT ![t] = "offered"]
    <3>1. \A u \in Tasks \ {t} : StatusOf(u)' = StatusOf(u)
      BY <1>a, <1>d, <1>3 DEF Submit, queueVars, replyVars
    <3>2. Arrived(t)' /\ replies'[t] = 0 /\ ticket'[t] = 0
      BY <1>a, <1>3, <2>1 DEF Submit, Arrived, NotYet, queueVars, replyVars
    <3>3. StatusOf(t)' = "offered"
      BY <3>2 DEF StatusOf
    <3>4. StatusOf(t) = "new"
      BY <1>3 DEF Submit, StatusOf
    <3> QED
      BY <1>c, <3>1, <3>3, <3>4 DEF status
  <2>3. Closed' = Closed
    BY <1>3 DEF Submit, Closed, clockVars
  <2> QED
    BY <2>2, <2>3 DEF Promise!Next, Promise!Offer, Promise!Move
<1>4. ASSUME NEW s \in Submitters, pc[s] # "idle", Enqueue(s), ~Closed,
             UNCHANGED <<life, inputVars, replyVars>>
      PROVE  Promise!Next
  <2>1. PICK c \in Tasks : cur[s] = c
    BY <1>a, <1>4 DEF Coupled, SubmitterCoupled
  <2>2. replies[c] = 0 /\ Arrived(c) /\ ticket[c] = 0
    BY <1>a, <2>1 DEF Ownership, OwnedOnce, Carried, Ticketed
  <2>3. status[c] = "offered" /\ status' = [status EXCEPT ![c] = "accepted"]
    <3>1. \A u \in Tasks \ {c} : StatusOf(u)' = StatusOf(u)
      BY <1>a, <1>d, <1>4, <2>1 DEF Enqueue, inputVars, replyVars
    <3>2. Arrived(c)' /\ replies'[c] = 0 /\ ticket'[c] # 0
      BY <1>a, <1>4, <2>1, <2>2 DEF Enqueue, Arrived, inputVars, replyVars
    <3>3. StatusOf(c)' = "accepted"
      BY <3>2 DEF StatusOf
    <3>4. StatusOf(c) = "offered"
      BY <2>2 DEF StatusOf
    <3> QED
      BY <1>c, <2>1, <3>1, <3>3, <3>4 DEF status
  <2>4. Closed' = Closed
    BY <1>4 DEF Closed
  <2> QED
    BY <1>4, <2>3, <2>4 DEF Promise!Next, Promise!Accept, Promise!Move
<1>5. ASSUME NEW s \in Submitters, SubmitRefuse(s)
      PROVE  Promise!Next
  <2>1. PICK c \in Tasks : cur[s] = c
    BY <1>a, <1>5 DEF SubmitRefuse, Coupled, SubmitterCoupled
  <2>2. replies[c] = 0 /\ Arrived(c) /\ ticket[c] = 0
    BY <1>a, <2>1 DEF Ownership, OwnedOnce, Carried, Ticketed
  <2> DEFINE how == IF pc[s] = "expire" THEN "deadline" ELSE "limit"
  <2>3. /\ status[c] = "offered" /\ status' = [status EXCEPT ![c] = how]
        /\ Closed' = Closed
    BY <1>2, <1>5, <2>1, <2>2 DEF SubmitRefuse, inputVars, queueVars, clockVars
  <2>4. how = "deadline" \/ (how = "limit" /\ Full = "drop")
    BY <1>a, <1>5 DEF SubmitRefuse, ShedOnlyInDrop
  <2> QED
    BY <2>3, <2>4 DEF Promise!Next, Promise!Refuse, Promise!Move
<1>6. ASSUME NEW t \in Tasks, NEW how \in {"evaluated", "deadline"},
             replies[t] = 0, Arrived(t), ticket[t] > 0, Answer(t, how),
             UNCHANGED <<enqueued, ticket, life>>
      PROVE  Promise!Next
  <2>1. /\ status[t] = "accepted" /\ status' = [status EXCEPT ![t] = how]
        /\ Closed' = Closed
    BY <1>a, <1>2, <1>6
  <2> QED
    BY <2>1 DEF Promise!Next, Promise!Settle, Promise!Move
<1>7. ASSUME NEW g \in Goroutines, ReplyDead(g)
      PROVE  Promise!Next
  <2>1. Oldest(held[g]) \in held[g] /\ Oldest(held[g]) \in Tasks
    BY <1>a, <1>7, HeadOfHeld DEF ReplyDead
  <2>2. /\ replies[Oldest(held[g])] = 0 /\ Arrived(Oldest(held[g]))
        /\ ticket[Oldest(held[g])] > 0
    BY <1>a, <2>1 DEF Ownership, OwnedOnce, HeldDead, Ticketed
  <2> QED
    BY <1>6, <1>7, <2>1, <2>2 DEF ReplyDead, inputVars, queueVars, clockVars
<1>8. ASSUME NEW w \in Workers, Overdue(w) \/ Finish(w)
      PROVE  Promise!Next
  <2>1. cur[w] \in Tasks
    BY <1>a, <1>8 DEF Overdue, Finish, Coupled, WorkerCoupled
  <2>2. replies[cur[w]] = 0 /\ Arrived(cur[w]) /\ ticket[cur[w]] > 0
    BY <1>a, <2>1 DEF Ownership, OwnedOnce, Carried, Ticketed
  <2> QED
    BY <1>6, <1>8, <2>1, <2>2 DEF Overdue, Finish, inputVars, queueVars, clockVars
<1>9. CASE CloseLocked
  <2>1. status' = status
    BY <1>9, <1>d DEF CloseLocked, status, inputVars, replyVars
  <2> QED
    BY <1>9, <2>1 DEF CloseLocked, Closed, Promise!Next, Promise!Close
<1>10. ASSUME NEW s \in Submitters, SubmitterStep(s)
       PROVE  Promise!Next \/ UNCHANGED <<status, Closed>>
  <2>1. CASE SubmitRoom(s) \/ WaitRoom(s)
    BY <1>4, <2>1 DEF SubmitRoom, WaitRoom, AtEnter, AtLoop, clockVars
  <2>2. CASE \/ SubmitCollect(s) \/ SubmitClosed(s) \/ SubmitDrop(s) \/ SubmitLate(s)
             \/ SubmitWait(s) \/ WaitMore(s) \/ WaitClosed(s) \/ WaitTimedOut(s)
    BY <1>1, <2>2 DEF SubmitCollect, SubmitClosed, SubmitDrop, SubmitLate, SubmitWait,
       WaitMore, WaitClosed, WaitTimedOut, Closed, clockVars, queueVars, inputVars,
       replyVars
  <2> QED
    BY <1>5, <1>10, <2>1, <2>2 DEF SubmitterStep
<1>11. ASSUME NEW w \in Workers, PopStep(w) \/ Evaluate(w) \/ Leave(w)
       PROVE  UNCHANGED <<status, Closed>>
  BY <1>1, <1>11 DEF PopStep, PopTask, PopClosed, PopDead, PopWait, Evaluate, Leave,
     Closed, clockVars, queueVars, inputVars, replyVars
<1>12. CASE \/ Sweep \/ SweepStop \/ CloseStop \/ CloseReturn \/ Tick
            \/ \E t \in Tasks : TimerStart(t) \/ TimerFire(t)
            \/ UNCHANGED vars
  BY <1>1, <1>12 DEF Sweep, SweepStop, CloseStop, CloseReturn, Tick, TimerStart,
     TimerFire, vars, Closed, clockVars, queueVars, inputVars, replyVars
<1> QED
  BY <1>3, <1>7, <1>8, <1>9, <1>10, <1>11, <1>12 DEF Next, Quiet, WorkerStep

\* The pool keeps the promise of ReplyOnce: whatever the interleaving, a task is
\* accepted at most once and not after Close, accepted tasks are evaluated or
\* expire, the others expire or are shed where the mode allows it, and the first
\* answer is the last.
THEOREM PoolKeepsPromise == Spec => ImplementsPromise
<1>1. Init => Promise!Init
  BY DEF Init, Promise!Init, status, StatusOf, Arrived, Closed
<1> QED
  BY <1>1, PromiseStep, RefineInvariant, PTL
     DEF Spec, ImplementsPromise, Promise!Spec, Promise!promiseVars

=============================================================================
