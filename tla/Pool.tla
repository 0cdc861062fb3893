-------------------------------- MODULE Pool --------------------------------
(***************************************************************************)
(* The work queue of the inspector, internal/queue/queue.go.               *)
(*                                                                         *)
(* A Pool is a bounded FIFO of tasks, a fixed set of worker goroutines, a  *)
(* sweeper that answers the tasks whose budget ran out while they were     *)
(* queued, and the goroutines that call Submit (the NATS callback).  One   *)
(* mutex guards the queue and one condition variable is shared by the      *)
(* workers, which wait for a task, and by the submitters, which in "wait"  *)
(* mode wait for room.                                                     *)
(*                                                                         *)
(* A critical section of p.mu is one step.  What a goroutine does between  *)
(* two critical sections (answer a task, evaluate one) is a step of its    *)
(* own, so all the interleavings of the code are interleavings here.       *)
(*                                                                         *)
(* The slice p.q is the set q of the queued tasks: append gives a task the *)
(* next ticket and the head of the slice is the queued task with the       *)
(* smallest one.  Time is the clock now, in units of the sweep period.     *)
(***************************************************************************)
EXTENDS Integers, FiniteSets

CONSTANTS
  Tasks,       \* the tasks that will be submitted, each once
  Submitters,  \* goroutines that call Submit
  Workers,     \* goroutines started by New
  Sweeper,     \* the goroutine that runs sweep
  NoTask,      \* a goroutine's task variable when it holds none
  Depth,       \* p.depth
  Full,        \* p.full: "drop" or "wait"
  Deadlines,   \* the values of Req.DeadlineMS
  Reserve,     \* p.reserve
  MinBudget,   \* p.minBudget
  MaxTime      \* bound on the clock

Goroutines == Submitters \cup Workers \cup {Sweeper}

ASSUME PoolAssumption ==
  /\ IsFiniteSet(Tasks) /\ NoTask \notin Tasks
  /\ IsFiniteSet(Workers) /\ Workers # {}
  /\ Submitters \cap Workers = {}
  /\ Sweeper \notin Submitters \cup Workers
  /\ Depth \in Nat \ {0}
  /\ Full \in {"drop", "wait"}
  /\ Deadlines \subseteq Nat
  /\ Reserve \in Nat /\ MinBudget \in Nat /\ MaxTime \in Nat

VARIABLES
  now,       \* the clock
  life,      \* progress of Close: "open", "stopping", "closed", "returned"
  q,         \* p.q
  waiters,   \* goroutines blocked in p.cond.Wait
  pc,        \* where each goroutine is
  cur,       \* the task a submitter or a worker is carrying
  held,      \* the tasks takeExpiredLocked gave a goroutine to answer
  enqueued,  \* t.enqueued, NotYet until Submit is called
  deadline,  \* t.Req.DeadlineMS
  fill,      \* t.Fill
  ticket,    \* position of the task in the order of the appends, 0 before
  timer,     \* the AfterFunc of submitWaitLocked for a task
  replies,   \* how often the handler answered the task
  outcome,   \* what the last answer was
  Accepted, Shed, Expired   \* the counters of the heartbeat

clockVars == <<now, life>>
queueVars == <<q, waiters, ticket, Accepted>>
goVars    == <<pc, cur, held>>
inputVars == <<enqueued, deadline>>
replyVars == <<replies, outcome, Shed, Expired>>
vars == <<clockVars, queueVars, goVars, inputVars, fill, timer, replyVars>>

NotYet == -1
Outcomes == {"none", "evaluated", "deadline", "limit"}
TimerStates == {"none", "armed", "running", "fired", "stopped"}
SubmitterPC == {"idle", "collect", "enter", "waiting", "expire", "shed"}
WorkerPC == {"pop", "budget", "evaluate", "leave", "exited"}
SweeperPC == {"sweep", "exited"}
Lives == {"open", "stopping", "closed", "returned"}

\* The variables of the pool keep their types: the fill that Submit records, which
\* overload rules compare with a percentage, is a percentage.
TypeOK ==
  /\ now \in 0..MaxTime
  /\ life \in Lives
  /\ q \in SUBSET Tasks
  /\ waiters \in SUBSET (Submitters \cup Workers)
  /\ pc \in [Goroutines -> SubmitterPC \cup WorkerPC \cup SweeperPC]
  /\ \A s \in Submitters : pc[s] \in SubmitterPC
  /\ \A w \in Workers : pc[w] \in WorkerPC
  /\ pc[Sweeper] \in SweeperPC
  /\ cur \in [Goroutines -> Tasks \cup {NoTask}]
  /\ held \in [Goroutines -> SUBSET Tasks]
  /\ enqueued \in [Tasks -> Nat \cup {NotYet}]
  /\ deadline \in [Tasks -> Nat]
  /\ fill \in [Tasks -> 0..100]
  /\ ticket \in [Tasks -> Nat]
  /\ timer \in [Tasks -> TimerStates]
  /\ replies \in [Tasks -> Nat]
  /\ outcome \in [Tasks -> Outcomes]
  /\ Accepted \in Nat /\ Shed \in Nat /\ Expired \in Nat

Init ==
  /\ now = 0
  /\ life = "open"
  /\ q = {}
  /\ waiters = {}
  /\ pc = [g \in Goroutines |-> IF g \in Submitters THEN "idle"
                                ELSE IF g \in Workers THEN "pop" ELSE "sweep"]
  /\ cur = [g \in Goroutines |-> NoTask]
  /\ held = [g \in Goroutines |-> {}]
  /\ enqueued = [t \in Tasks |-> NotYet]
  /\ deadline = [t \in Tasks |-> 0]
  /\ fill = [t \in Tasks |-> 0]
  /\ ticket = [t \in Tasks |-> 0]
  /\ timer = [t \in Tasks |-> "none"]
  /\ replies = [t \in Tasks |-> 0]
  /\ outcome = [t \in Tasks |-> "none"]
  /\ Accepted = 0 /\ Shed = 0 /\ Expired = 0

-----------------------------------------------------------------------------
(* Helpers of the critical sections.                                       *)

Stopped == life # "open"
Closed == life \in {"closed", "returned"}

Arrived(t) == enqueued[t] # NotYet

\* leftAt: what remains of the deadline once the wait and the reserve are paid.
Left(t) == deadline[t] - (now - enqueued[t]) - Reserve

Spent(t) == Left(t) < MinBudget

Dead == {t \in q : Spent(t)}

QueueFull == Cardinality(q) >= Depth

\* Mutation of Fill: the task itself is counted before there is room for it.
FillWithTask == ((Cardinality(q) + 1) * 100) \div Depth

Fill == IF QueueFull THEN 100 ELSE (Cardinality(q) * 100) \div Depth

\* Mutation of Oldest: the queue is served from its end.
Newest(S) == CHOOSE t \in S : \A u \in S : ticket[t] >= ticket[u]

\* The first of a non-empty set of tasks in the order of their appends.
Oldest(S) == CHOOSE t \in S : \A u \in S : ticket[t] <= ticket[u]

Broadcast == waiters' = {}

\* Signal wakes one waiter; which one is left to the runtime.
Signal == IF waiters = {} THEN waiters' = waiters
          ELSE \E g \in waiters : waiters' = waiters \ {g}

\* Mutation of TakeExpired: the spent tasks leave the queue and nobody has them.
TakeExpiredForgets(g) ==
  /\ q' = q \ Dead
  /\ UNCHANGED held
  /\ IF Dead = {} THEN waiters' = waiters ELSE Broadcast

\* takeExpiredLocked: the spent tasks leave the queue and become g's to answer.
TakeExpired(g) ==
  /\ q' = q \ Dead
  /\ held' = [held EXCEPT ![g] = Dead]
  /\ IF Dead = {} THEN waiters' = waiters ELSE Broadcast

\* enqueueLocked, and the return from Submit.
Enqueue(s) ==
  /\ q' = q \cup {cur[s]}
  /\ Accepted' = Accepted + 1
  /\ ticket' = [ticket EXCEPT ![cur[s]] = Accepted + 1]
  /\ Signal
  /\ cur' = [cur EXCEPT ![s] = NoTask]
  /\ pc' = [pc EXCEPT ![s] = "idle"]

\* Mutation of Answer: a task shed for want of room is counted as expired too.
AnswerCountsTwice(t, how) ==
  /\ replies' = [replies EXCEPT ![t] = @ + 1]
  /\ outcome' = [outcome EXCEPT ![t] = how]
  /\ Expired' = IF how # "evaluated" THEN Expired + 1 ELSE Expired
  /\ Shed' = IF how = "limit" THEN Shed + 1 ELSE Shed

\* The handler answers t; the counters move with it.
Answer(t, how) ==
  /\ replies' = [replies EXCEPT ![t] = @ + 1]
  /\ outcome' = [outcome EXCEPT ![t] = how]
  /\ Expired' = IF how = "deadline" THEN Expired + 1 ELSE Expired
  /\ Shed' = IF how = "limit" THEN Shed + 1 ELSE Shed

Goto(g, label) == pc' = [pc EXCEPT ![g] = label]

\* timer.Stop prevents a callback that has not started and no other.
StopTimer(t) ==
  timer' = [timer EXCEPT ![t] = IF @ = "armed" THEN "stopped" ELSE @]

-----------------------------------------------------------------------------
(* Submit.                                                                 *)

\* Entry: the task is stamped, and refused at once when its budget is too small.
Submit(s, t, d) ==
  /\ pc[s] = "idle"
  /\ ~Arrived(t)
  /\ now + d <= MaxTime   \* bound: the clock reaches every deadline
  /\ enqueued' = [enqueued EXCEPT ![t] = now]
  /\ deadline' = [deadline EXCEPT ![t] = d]
  /\ cur' = [cur EXCEPT ![s] = t]
  /\ Goto(s, IF d - Reserve < MinBudget THEN "expire" ELSE "collect")
  /\ UNCHANGED <<clockVars, queueVars, held, fill, timer, replyVars>>

\* p.replyDead(p.collectExpired()): the critical section; ReplyDead follows.
SubmitCollect(s) ==
  /\ pc[s] = "collect"
  /\ TakeExpired(s)
  /\ Goto(s, "enter")
  /\ UNCHANGED <<clockVars, ticket, Accepted, cur, inputVars, fill, timer, replyVars>>

AtEnter(s) == pc[s] = "enter" /\ held[s] = {}

SubmitClosed(s) ==
  /\ AtEnter(s) /\ Closed
  /\ Goto(s, "expire")
  /\ UNCHANGED <<clockVars, queueVars, cur, held, inputVars, fill, timer, replyVars>>

SetFill(s) == fill' = [fill EXCEPT ![cur[s]] = Fill]

SubmitRoom(s) ==
  /\ AtEnter(s) /\ ~Closed /\ ~QueueFull
  /\ SetFill(s)
  /\ Enqueue(s)
  /\ UNCHANGED <<clockVars, held, inputVars, timer, replyVars>>

\* Full and not "wait": the task is shed once the lock is released.
SubmitDrop(s) ==
  /\ AtEnter(s) /\ ~Closed /\ QueueFull /\ Full = "drop"
  /\ SetFill(s)
  /\ Goto(s, "shed")
  /\ UNCHANGED <<clockVars, queueVars, cur, held, inputVars, timer, replyVars>>

\* submitWaitLocked returns at once when the budget went while Submit collected.
SubmitLate(s) ==
  /\ AtEnter(s) /\ ~Closed /\ QueueFull /\ Full = "wait"
  /\ Spent(cur[s])
  /\ SetFill(s)
  /\ Goto(s, "expire")
  /\ UNCHANGED <<clockVars, queueVars, cur, held, inputVars, timer, replyVars>>

\* One turn of the wait loop while the queue is full: answer the dead and come
\* back, or block on the condition variable.
WaitTurn(s) ==
  IF Dead # {} THEN TakeExpired(s)
  ELSE waiters' = waiters \cup {s} /\ UNCHANGED <<q, held>>

SubmitWait(s) ==
  /\ AtEnter(s) /\ ~Closed /\ QueueFull /\ Full = "wait"
  /\ ~Spent(cur[s])
  /\ SetFill(s)
  /\ timer' = [timer EXCEPT ![cur[s]] = "armed"]
  /\ WaitTurn(s)
  /\ Goto(s, "waiting")
  /\ UNCHANGED <<clockVars, ticket, Accepted, cur, inputVars, replyVars>>

\* The loop condition is evaluated: after a wake-up or after the dead are answered.
AtLoop(s) == pc[s] = "waiting" /\ s \notin waiters /\ held[s] = {}

TimedOut(s) == timer[cur[s]] = "fired"

WaitMore(s) ==
  /\ AtLoop(s) /\ QueueFull /\ ~TimedOut(s) /\ ~Closed
  /\ WaitTurn(s)
  /\ UNCHANGED <<clockVars, ticket, Accepted, pc, cur, inputVars, fill, timer, replyVars>>

WaitClosed(s) ==
  /\ AtLoop(s) /\ Closed
  /\ StopTimer(cur[s])
  /\ Goto(s, "expire")
  /\ UNCHANGED <<clockVars, queueVars, cur, held, inputVars, fill, replyVars>>

\* Mutations of WaitRoom: the queue, or closed, is not looked at after a wake-up.
WaitRoomUnchecked(s) ==
  /\ AtLoop(s) /\ ~Closed
  /\ StopTimer(cur[s])
  /\ Enqueue(s)
  /\ UNCHANGED <<clockVars, held, inputVars, fill, replyVars>>

WaitRoomAfterClose(s) ==
  /\ AtLoop(s) /\ ~QueueFull
  /\ StopTimer(cur[s])
  /\ Enqueue(s)
  /\ UNCHANGED <<clockVars, held, inputVars, fill, replyVars>>

WaitRoom(s) ==
  /\ AtLoop(s) /\ ~Closed /\ ~QueueFull
  /\ StopTimer(cur[s])
  /\ Enqueue(s)
  /\ UNCHANGED <<clockVars, held, inputVars, fill, replyVars>>

WaitTimedOut(s) ==
  /\ AtLoop(s) /\ ~Closed /\ QueueFull /\ TimedOut(s)
  /\ StopTimer(cur[s])
  /\ Goto(s, "expire")
  /\ UNCHANGED <<clockVars, queueVars, cur, held, inputVars, fill, replyVars>>

\* expire or shedLimit on the submitter's own task, and the return from Submit.
SubmitRefuse(s) ==
  /\ pc[s] \in {"expire", "shed"}
  /\ Answer(cur[s], IF pc[s] = "expire" THEN "deadline" ELSE "limit")
  /\ cur' = [cur EXCEPT ![s] = NoTask]
  /\ Goto(s, "idle")
  /\ UNCHANGED <<clockVars, queueVars, held, inputVars, fill, timer>>

-----------------------------------------------------------------------------
(* The timer of submitWaitLocked: it starts once left has elapsed, then    *)
(* takes the lock.  A started callback outlives timer.Stop.                *)

TimerStart(t) ==
  /\ timer[t] = "armed" /\ Left(t) <= 0
  /\ timer' = [timer EXCEPT ![t] = "running"]
  /\ UNCHANGED <<clockVars, queueVars, goVars, inputVars, fill, replyVars>>

TimerFire(t) ==
  /\ timer[t] = "running"
  /\ timer' = [timer EXCEPT ![t] = "fired"]
  /\ Broadcast
  /\ UNCHANGED <<clockVars, q, ticket, Accepted, goVars, inputVars, fill, replyVars>>

-----------------------------------------------------------------------------
(* replyDead: the goroutine answers the tasks it took, oldest first, before *)
(* it does anything else.                                                   *)

ReplyDead(g) ==
  /\ held[g] # {}
  /\ LET t == Oldest(held[g]) IN
       /\ Answer(t, "deadline")
       /\ held' = [held EXCEPT ![g] = @ \ {t}]
  /\ UNCHANGED <<clockVars, queueVars, pc, cur, inputVars, fill, timer>>

-----------------------------------------------------------------------------
(* work and pop.                                                           *)

AtPop(w) == pc[w] = "pop" /\ w \notin waiters /\ held[w] = {}

\* Mutation of PopTask: one waiter is woken, which may be a worker.
PopTaskSignals(w) ==
  /\ AtPop(w) /\ q # Dead
  /\ LET t == Oldest(q \ Dead) IN
       /\ q' = (q \ Dead) \ {t}
       /\ cur' = [cur EXCEPT ![w] = t]
  /\ held' = [held EXCEPT ![w] = Dead]
  /\ Signal
  /\ Goto(w, "budget")
  /\ UNCHANGED <<clockVars, ticket, Accepted, inputVars, fill, timer, replyVars>>

\* pop finds a task: it takes the spent ones too and wakes everyone.
PopTask(w) ==
  /\ AtPop(w) /\ q # Dead
  /\ LET t == Oldest(q \ Dead) IN
       /\ q' = (q \ Dead) \ {t}
       /\ cur' = [cur EXCEPT ![w] = t]
  /\ held' = [held EXCEPT ![w] = Dead]
  /\ Broadcast
  /\ Goto(w, "budget")
  /\ UNCHANGED <<clockVars, ticket, Accepted, inputVars, fill, timer, replyVars>>

\* Mutation of PopClosed: a closed pool is left with what it still holds.
PopClosedAtOnce(w) ==
  /\ AtPop(w) /\ Closed
  /\ Goto(w, "leave")
  /\ UNCHANGED <<clockVars, queueVars, cur, held, inputVars, fill, timer, replyVars>>

\* No live task: leave when closed, return the dead when there are any.
PopClosed(w) ==
  /\ AtPop(w) /\ q = Dead /\ Closed
  /\ TakeExpired(w)
  /\ Goto(w, "leave")
  /\ UNCHANGED <<clockVars, ticket, Accepted, cur, inputVars, fill, timer, replyVars>>

PopDead(w) ==
  /\ AtPop(w) /\ q = Dead /\ ~Closed /\ Dead # {}
  /\ TakeExpired(w)
  /\ UNCHANGED <<clockVars, ticket, Accepted, pc, cur, inputVars, fill, timer, replyVars>>

PopWait(w) ==
  /\ AtPop(w) /\ q = {} /\ ~Closed
  /\ waiters' = waiters \cup {w}
  /\ UNCHANGED <<clockVars, q, ticket, Accepted, goVars, inputVars, fill, timer, replyVars>>

\* Mutation of Overdue: an expired task is evaluated after it was answered.
OverdueGoesOn(w) ==
  /\ pc[w] = "budget" /\ held[w] = {} /\ Spent(cur[w])
  /\ Answer(cur[w], "deadline")
  /\ Goto(w, "evaluate")
  /\ UNCHANGED <<clockVars, queueVars, cur, held, inputVars, fill, timer>>

\* budget is checked again after the dead have been answered.
Overdue(w) ==
  /\ pc[w] = "budget" /\ held[w] = {} /\ Spent(cur[w])
  /\ Answer(cur[w], "deadline")
  /\ cur' = [cur EXCEPT ![w] = NoTask]
  /\ Goto(w, "pop")
  /\ UNCHANGED <<clockVars, queueVars, held, inputVars, fill, timer>>

Evaluate(w) ==
  /\ pc[w] = "budget" /\ held[w] = {} /\ ~Spent(cur[w])
  /\ Goto(w, "evaluate")
  /\ UNCHANGED <<clockVars, queueVars, cur, held, inputVars, fill, timer, replyVars>>

Finish(w) ==
  /\ pc[w] = "evaluate"
  /\ Answer(cur[w], "evaluated")
  /\ cur' = [cur EXCEPT ![w] = NoTask]
  /\ Goto(w, "pop")
  /\ UNCHANGED <<clockVars, queueVars, held, inputVars, fill, timer>>

Leave(w) ==
  /\ pc[w] = "leave" /\ held[w] = {}
  /\ Goto(w, "exited")
  /\ UNCHANGED <<clockVars, queueVars, cur, held, inputVars, fill, timer, replyVars>>

-----------------------------------------------------------------------------
(* sweep and Close.                                                        *)

AtSweep == pc[Sweeper] = "sweep" /\ held[Sweeper] = {}

Sweep ==
  /\ AtSweep /\ Dead # {}
  /\ TakeExpired(Sweeper)
  /\ UNCHANGED <<clockVars, ticket, Accepted, pc, cur, inputVars, fill, timer, replyVars>>

\* Mutation of SweepStop: the sweeper leaves when it finds nothing.
SweepStopEarly ==
  /\ AtSweep /\ Dead = {}
  /\ Goto(Sweeper, "exited")
  /\ UNCHANGED <<clockVars, queueVars, cur, held, inputVars, fill, timer, replyVars>>

SweepStop ==
  /\ AtSweep /\ Stopped
  /\ Goto(Sweeper, "exited")
  /\ UNCHANGED <<clockVars, queueVars, cur, held, inputVars, fill, timer, replyVars>>

CloseStop ==
  /\ life = "open" /\ life' = "stopping"
  /\ UNCHANGED <<now, queueVars, goVars, inputVars, fill, timer, replyVars>>

\* Mutation of CloseLocked: nobody is told.
CloseLockedSilently ==
  /\ life = "stopping" /\ life' = "closed"
  /\ UNCHANGED <<now, queueVars, goVars, inputVars, fill, timer, replyVars>>

CloseLocked ==
  /\ life = "stopping" /\ life' = "closed"
  /\ Broadcast
  /\ UNCHANGED <<now, q, ticket, Accepted, goVars, inputVars, fill, timer, replyVars>>

\* wg.Wait: the workers and the sweeper, not the submitters.
CloseReturn ==
  /\ life = "closed" /\ life' = "returned"
  /\ \A g \in Workers \cup {Sweeper} : pc[g] = "exited"
  /\ UNCHANGED <<now, queueVars, goVars, inputVars, fill, timer, replyVars>>

Tick ==
  /\ now < MaxTime /\ now' = now + 1
  /\ UNCHANGED <<life, queueVars, goVars, inputVars, fill, timer, replyVars>>

\* Nothing is left to do: the only state in which the pool may stand still.
Quiet ==
  /\ life = "returned"
  /\ \A t \in Tasks : Arrived(t) => replies[t] > 0
  /\ UNCHANGED vars

SubmitterStep(s) ==
  \/ SubmitCollect(s) \/ SubmitClosed(s) \/ SubmitRoom(s) \/ SubmitDrop(s)
  \/ SubmitLate(s) \/ SubmitWait(s) \/ WaitMore(s) \/ WaitClosed(s)
  \/ WaitRoom(s) \/ WaitTimedOut(s) \/ SubmitRefuse(s)

PopStep(w) == PopTask(w) \/ PopClosed(w) \/ PopDead(w) \/ PopWait(w)

WorkerStep(w) == PopStep(w) \/ Overdue(w) \/ Evaluate(w) \/ Leave(w)

Next ==
  \/ \E s \in Submitters, t \in Tasks, d \in Deadlines : Submit(s, t, d)
  \/ \E s \in Submitters : SubmitterStep(s)
  \/ \E t \in Tasks : TimerStart(t) \/ TimerFire(t)
  \/ \E g \in Goroutines : ReplyDead(g)
  \/ \E w \in Workers : WorkerStep(w) \/ Finish(w)
  \/ Sweep \/ SweepStop
  \/ CloseStop \/ CloseLocked \/ CloseReturn
  \/ Tick \/ Quiet

Spec == Init /\ [][Next]_vars

\* Every goroutine the Go scheduler runs takes its next step; the clock and the
\* timers advance.  Nothing makes a caller submit or the process shut down, and
\* nothing here makes a handler return.
SchedulerFairness ==
  /\ \A s \in Submitters : WF_vars(SubmitterStep(s))
  /\ \A t \in Tasks : WF_vars(TimerStart(t)) /\ WF_vars(TimerFire(t))
  /\ \A g \in Goroutines : WF_vars(ReplyDead(g))
  /\ \A w \in Workers : WF_vars(WorkerStep(w))
  /\ WF_vars(Sweep) /\ WF_vars(SweepStop)
  /\ WF_vars(CloseLocked) /\ WF_vars(CloseReturn)
  /\ WF_vars(Tick)

FairSpec == Spec /\ SchedulerFairness

\* Handlers return: every call they make is bounded by the task's budget.
HandlersReturn == \A w \in Workers : WF_vars(Finish(w))

-----------------------------------------------------------------------------
(* Safety.                                                                 *)

Carried(t) == \E g \in Goroutines : cur[g] = t
HeldDead(t) == \E g \in Goroutines : t \in held[g]

OwnedOnce(t) ==
  /\ replies[t] \in {0, 1}
  /\ Arrived(t) /\ replies[t] = 0 => t \in q \/ Carried(t) \/ HeldDead(t)
  /\ ~Arrived(t) \/ replies[t] = 1 => t \notin q /\ ~Carried(t) /\ ~HeldDead(t)
  /\ ~Arrived(t) => replies[t] = 0
  /\ t \in q => ~Carried(t) /\ ~HeldDead(t)
  /\ Carried(t) => ~HeldDead(t)
  /\ \A g, h \in Goroutines : cur[g] = t /\ cur[h] = t => g = h
  /\ \A g, h \in Goroutines : t \in held[g] /\ t \in held[h] => g = h

\* A submitted task is in exactly one place: queued, in the hands of one
\* goroutine as its current task or as a dead task to answer, or answered, and
\* it is answered once.  Tasks pass between the slice, the dead lists of
\* takeExpiredLocked and the workers; none is lost or answered twice.
Ownership == \A t \in Tasks : OwnedOnce(t)

\* The queue never grows past its depth, although a waiting submitter enqueues
\* long after it saw the queue full.
DepthBound == Cardinality(q) <= Depth

\* Workers that are about to look at the queue.
Ready == {w \in Workers : pc[w] = "pop" /\ w \notin waiters}

\* Nobody sleeps through what it waits for.  One condition variable serves both
\* kinds of waiter and enqueueLocked wakes only one of them: a submitter sleeps
\* only while the queue is full and its timer has not fired, and while a worker
\* sleeps every queued task has a worker awake to pop it.  After Close nobody
\* sleeps.
NoLostWakeup ==
  /\ waiters # {} => ~Closed
  /\ \A s \in waiters \cap Submitters :
       pc[s] = "waiting" /\ QueueFull /\ ~TimedOut(s)
  /\ \A w \in waiters \cap Workers :
       pc[w] = "pop" /\ Cardinality(q) <= Cardinality(Ready)

\* Tasks reach the workers in the order in which they were queued: whatever a
\* worker carries was appended before everything still in the queue.
Fifo ==
  \A w \in Workers, t \in q : cur[w] # NoTask => ticket[cur[w]] < ticket[t]

\* The counters of the heartbeat account for every answer: Shed and Expired
\* together are the tasks answered without evaluation, Accepted the tasks that
\* were ever queued, and only those are evaluated.
Accounting ==
  /\ Shed = Cardinality({t \in Tasks : outcome[t] = "limit"})
  /\ Expired = Cardinality({t \in Tasks : outcome[t] = "deadline"})
  /\ Accepted = Cardinality({t \in Tasks : ticket[t] > 0})
  /\ \A t \in Tasks : outcome[t] = "evaluated" => ticket[t] > 0

\* When Close returns no task is left in the queue or with a worker or the
\* sweeper, although tasks were submitted while it ran: what is unanswered is in
\* the hands of a submitter, which Close does not wait for.
DrainedOnReturn ==
  life = "returned" =>
    /\ q = {}
    /\ \A g \in Workers \cup {Sweeper} : cur[g] = NoTask /\ held[g] = {}

\* After Close has taken the lock nothing enters the queue: a submitter that
\* passed its checks earlier, or slept waiting for room, does not enqueue.
NothingQueuedOnceClosed == [][Closed => q' \subseteq q]_vars

-----------------------------------------------------------------------------
(* Liveness.                                                               *)

\* If handlers return, every submitted task is answered, also one that waits for
\* room, is queued behind others or is submitted while Close runs.
EveryTaskAnswered ==
  HandlersReturn => \A t \in Tasks : Arrived(t) ~> replies[t] = 1

\* If handlers return, so does Close: no worker sleeps through the shutdown.
CloseReturns == HandlersReturn => (Stopped ~> life = "returned")

\* While the pool is open, handlers that never return cannot keep a task
\* unanswered: the sweeper, the submitters or the timer answer all but the tasks
\* the hung handlers hold.
HungHandlersBlockNobody ==
  \A t \in Tasks :
    Arrived(t) ~> \/ replies[t] = 1
                  \/ Stopped
                  \/ \E w \in Workers : cur[w] = t /\ pc[w] = "evaluate"

-----------------------------------------------------------------------------
(* What the pool promises its caller.                                      *)

StatusOf(t) ==
  CASE ~Arrived(t) -> "new"
    [] Arrived(t) /\ replies[t] > 0 -> outcome[t]
    [] Arrived(t) /\ replies[t] = 0 ->
         IF ticket[t] = 0 THEN "offered" ELSE "accepted"

status == [t \in Tasks |-> StatusOf(t)]

Promise == INSTANCE ReplyOnce WITH closed <- Closed, mayShed <- (Full = "drop")

\* The pool implements the contract of ReplyOnce.
ImplementsPromise == Promise!Spec

=============================================================================
