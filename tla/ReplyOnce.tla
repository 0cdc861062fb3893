----------------------------- MODULE ReplyOnce -----------------------------
(***************************************************************************)
(* What queue.Pool promises to the code that submits tasks and to the      *)
(* peer that waits for the replies, without goroutines, locks or time:     *)
(* a task offered to the pool is accepted at most once and never after the *)
(* pool is closed; an accepted task is evaluated or expires; a task that   *)
(* is not accepted expires or, when the pool may shed, is refused for      *)
(* want of room; and the first answer is the last.                         *)
(***************************************************************************)
EXTENDS Naturals

CONSTANTS Tasks,
          mayShed   \* the pool refuses tasks for want of room

VARIABLES status,   \* the state of each task
          closed    \* the pool has been closed

promiseVars == <<status, closed>>

Statuses == {"new", "offered", "accepted", "evaluated", "deadline", "limit"}

Init == status = [t \in Tasks |-> "new"] /\ closed = FALSE

Move(t, from, to) ==
  /\ status[t] = from
  /\ status' = [status EXCEPT ![t] = to]
  /\ UNCHANGED closed

Offer(t) == Move(t, "new", "offered")

Accept(t) == ~closed /\ Move(t, "offered", "accepted")

Refuse(t) ==
  \/ Move(t, "offered", "deadline")
  \/ mayShed /\ Move(t, "offered", "limit")

Settle(t) ==
  \/ Move(t, "accepted", "evaluated")
  \/ Move(t, "accepted", "deadline")

Close == ~closed /\ closed' = TRUE /\ UNCHANGED status

Next ==
  \/ Close
  \/ \E t \in Tasks : Offer(t) \/ Accept(t) \/ Refuse(t) \/ Settle(t)

Spec == Init /\ [][Next]_promiseVars

=============================================================================
