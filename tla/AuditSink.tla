----------------------------- MODULE AuditSink ------------------------------
(***************************************************************************)
(* The audit sink, internal/audit/sink.go: the goroutines that send        *)
(* replies add one event each, one loop publishes them in batches.         *)
(*                                                                         *)
(* Events are numbered in the order in which Add appended them.  Since     *)
(* s.pending only grows at its end and shrinks at its front it is always   *)
(* the interval head+1..added.  A critical section of s.mu is one step.    *)
(***************************************************************************)
EXTENDS Integers, FiniteSets, FiniteSetsExt

CONSTANTS
  Adders,      \* goroutines that call Add: workers, sweeper, NATS callback
  Kinds,       \* the events there may be: pairs of audit subject and length
  MaxItems,    \* maxItems: events in a batch, and the count that wakes the loop
  MaxSize,     \* maxSize: the size that wakes the loop
  MaxPending,  \* maxPending: events kept before the oldest are dropped
  MaxEvents    \* bound on the calls of Add

ASSUME SinkAssumption ==
  /\ MaxItems \in Nat \ {0} /\ MaxPending \in Nat \ {0} /\ MaxSize \in Nat \ {0}
  /\ MaxEvents \in Nat /\ \A k \in Kinds : k[2] \in Nat
  /\ IsFiniteSet(Adders)

VARIABLES
  added,     \* events appended so far
  head,      \* events that have left s.pending at its front
  subject,   \* the subject of each event
  bytes,     \* the length of each event
  size,      \* s.size
  dropped,   \* s.dropped
  wake,      \* number of tokens in the channel s.wake, of capacity 1
  adder,     \* where each adder is: "idle" or about to "kick"
  loop,      \* the loop: in "select", in "flush", or "exited"
  last,      \* the flush under way is the one after <-s.stop
  batch,     \* events taken by flush and not sent yet
  sent,      \* events published
  failed,    \* events whose publish returned an error
  closing,   \* Close: "open", "stopped" (s.stop is closed), "returned"
  mark       \* events appended when Close was called

addVars  == <<added, subject, bytes>>
sinkVars == <<head, size, dropped>>
loopVars == <<loop, last, batch>>
outVars  == <<sent, failed>>
vars == <<addVars, sinkVars, wake, adder, loopVars, outVars, closing, mark>>

Events == 1..MaxEvents
Subjects == {k[1] : k \in Kinds}
Bodies == {k[2] : k \in Kinds}

\* The variables of the sink keep their types: s.wake never holds more than its
\* one token.
TypeOK ==
  /\ added \in 0..MaxEvents /\ head \in 0..added
  /\ subject \in [1..added -> Subjects]
  /\ bytes \in [1..added -> Bodies]
  /\ size \in Nat /\ dropped \in Nat
  /\ wake \in {0, 1}
  /\ adder \in [Adders -> {"idle", "kick"}]
  /\ loop \in {"select", "flush", "exited"} /\ last \in BOOLEAN
  /\ batch \subseteq Events /\ sent \subseteq Events /\ failed \subseteq Events
  /\ closing \in {"open", "stopped", "returned"}
  /\ mark \in 0..added

Init ==
  /\ added = 0 /\ head = 0 /\ subject = << >> /\ bytes = << >>
  /\ size = 0 /\ dropped = 0 /\ wake = 0
  /\ adder = [a \in Adders |-> "idle"]
  /\ loop = "select" /\ last = FALSE /\ batch = {}
  /\ sent = {} /\ failed = {}
  /\ closing = "open" /\ mark = 0

-----------------------------------------------------------------------------
Pending == (head + 1)..added

\* The loop of sizeOf from event lo on: the sum after each event, two bytes of
\* separators for every one.
Sums(lo, b) ==
  LET sum[e \in Nat] == IF e < lo THEN 0 ELSE sum[e - 1] + b[e] + 2
  IN  sum

\* sizeOf of the events lo..hi.
SizeOf(lo, hi, b) == Sums(lo, b)[hi]

\* How many of the oldest events go when event number next is appended.
Cut(next) == IF next - head > MaxPending THEN next - head - MaxPending ELSE 0

\* Append one event; past maxPending the oldest go and the size is recomputed.
\* The caller kicks the loop when the batch is full.
Add(a, s, n) ==
  LET next == added + 1
      b == [e \in 1..next |-> IF e = next THEN n ELSE bytes[e]]
  IN
  /\ adder[a] = "idle" /\ added < MaxEvents
  /\ added' = next
  /\ subject' = [e \in 1..next |-> IF e = next THEN s ELSE subject[e]]
  /\ bytes' = b
  /\ dropped' = dropped + Cut(next)
  /\ head' = head + Cut(next)
  /\ size' = IF Cut(next) > 0 THEN SizeOf(head' + 1, next, b) ELSE size + n + 2
  /\ adder' = [adder EXCEPT ![a] =
                 IF next - head' >= MaxItems \/ size' >= MaxSize THEN "kick"
                 ELSE "idle"]
  /\ UNCHANGED <<wake, loopVars, outVars, closing, mark>>

\* Mutations of Kick: every kick leaves a token; a kick finds nobody at a channel
\* without a buffer.
KickCounts(a) ==
  /\ adder[a] = "kick"
  /\ wake' = wake + 1
  /\ adder' = [adder EXCEPT ![a] = "idle"]
  /\ UNCHANGED <<addVars, sinkVars, loopVars, outVars, closing, mark>>

KickDropped(a) ==
  /\ adder[a] = "kick"
  /\ adder' = [adder EXCEPT ![a] = "idle"]
  /\ UNCHANGED <<addVars, sinkVars, wake, loopVars, outVars, closing, mark>>

\* A send that does not block: a token already in the channel is enough.
Kick(a) ==
  /\ adder[a] = "kick"
  /\ wake' = 1
  /\ adder' = [adder EXCEPT ![a] = "idle"]
  /\ UNCHANGED <<addVars, sinkVars, loopVars, outVars, closing, mark>>

-----------------------------------------------------------------------------
(* The loop.  select takes any of the channels that are ready.             *)

\* Mutation of SelectStop: the loop leaves without a last flush.
SelectStopExits ==
  /\ loop = "select" /\ closing # "open"
  /\ loop' = "exited" /\ last' = TRUE
  /\ UNCHANGED <<addVars, sinkVars, wake, adder, batch, outVars, closing, mark>>

SelectStop ==
  /\ loop = "select" /\ closing # "open"
  /\ loop' = "flush" /\ last' = TRUE
  /\ UNCHANGED <<addVars, sinkVars, wake, adder, batch, outVars, closing, mark>>

SelectWake ==
  /\ loop = "select" /\ wake = 1
  /\ wake' = 0 /\ loop' = "flush"
  /\ UNCHANGED <<addVars, sinkVars, adder, last, batch, outVars, closing, mark>>

SelectTick ==
  /\ loop = "select"
  /\ loop' = "flush"
  /\ UNCHANGED <<addVars, sinkVars, wake, adder, last, batch, outVars, closing, mark>>

\* Mutation of FlushTake: the size is not brought up to date.
FlushTakeOldSize ==
  LET n == IF added - head > MaxItems THEN MaxItems ELSE added - head IN
  /\ loop = "flush" /\ batch = {} /\ added > head
  /\ batch' = (head + 1)..(head + n)
  /\ head' = head + n
  /\ UNCHANGED <<addVars, size, dropped, wake, adder, loop, last, outVars, closing, mark>>

\* One turn of flush: take at most maxItems events from the front.
FlushTake ==
  LET n == IF added - head > MaxItems THEN MaxItems ELSE added - head IN
  /\ loop = "flush" /\ batch = {} /\ added > head
  /\ batch' = (head + 1)..(head + n)
  /\ head' = head + n
  /\ size' = SizeOf(head' + 1, added, bytes)
  /\ UNCHANGED <<addVars, dropped, wake, adder, loop, last, outVars, closing, mark>>

\* Mutation of Group: the batch is published from its end.
GroupFromEnd == {Max(batch)}

\* One message of publish: the subjects follow one another in the order of
\* their first event, so the next one is that of the first event left.
Group == {e \in batch : subject[e] = subject[Min(batch)]}

SendOK ==
  /\ loop = "flush" /\ batch # {}
  /\ sent' = sent \cup Group
  /\ batch' = batch \ Group
  /\ UNCHANGED <<addVars, sinkVars, wake, adder, loop, last, failed, closing, mark>>

\* Mutation of SendError: a failed message is tried again.
SendErrorRetries ==
  /\ loop = "flush" /\ batch # {}
  /\ failed' = failed \cup Group
  /\ UNCHANGED <<addVars, sinkVars, wake, adder, loop, last, batch, sent, closing, mark>>

\* Publish failed: the events of this subject are logged and lost.
SendError ==
  /\ loop = "flush" /\ batch # {}
  /\ failed' = failed \cup Group
  /\ batch' = batch \ Group
  /\ UNCHANGED <<addVars, sinkVars, wake, adder, loop, last, sent, closing, mark>>

\* Mutation of FlushEnd: the loop forgets that it was to stop.
FlushEndStays ==
  /\ loop = "flush" /\ batch = {} /\ added = head
  /\ loop' = "select"
  /\ UNCHANGED <<addVars, sinkVars, wake, adder, last, batch, outVars, closing, mark>>

\* Nothing is pending: back to select, or out when this was the last flush.
FlushEnd ==
  /\ loop = "flush" /\ batch = {} /\ added = head
  /\ loop' = IF last THEN "exited" ELSE "select"
  /\ UNCHANGED <<addVars, sinkVars, wake, adder, last, batch, outVars, closing, mark>>

-----------------------------------------------------------------------------
CloseStop ==
  /\ closing = "open" /\ closing' = "stopped" /\ mark' = added
  /\ UNCHANGED <<addVars, sinkVars, wake, adder, loopVars, outVars>>

CloseDone ==
  /\ closing = "stopped" /\ loop = "exited" /\ closing' = "returned"
  /\ UNCHANGED <<addVars, sinkVars, wake, adder, loopVars, outVars, mark>>

\* The process is gone; adders that are late add to a sink nobody reads.
Quiet ==
  /\ closing = "returned" /\ added = MaxEvents
  /\ \A a \in Adders : adder[a] = "idle"
  /\ UNCHANGED vars

LoopStep ==
  SelectStop \/ SelectWake \/ SelectTick \/ FlushTake \/ SendOK \/ SendError \/ FlushEnd

Next ==
  \/ \E a \in Adders, k \in Kinds : Add(a, k[1], k[2])
  \/ \E a \in Adders : Kick(a)
  \/ LoopStep \/ CloseStop \/ CloseDone \/ Quiet

Spec == Init /\ [][Next]_vars

\* The loop goroutine runs and its ticker ticks; a select whose stop channel is
\* ready takes it sooner or later.
FairSpec == Spec /\ WF_vars(LoopStep) /\ SF_vars(SelectStop) /\ WF_vars(CloseDone)

-----------------------------------------------------------------------------
Dropped == (1..head) \ (batch \cup sent \cup failed)

\* Every event added is in one place: pending, in the batch being sent, sent,
\* failed, or dropped, and s.dropped counts the dropped ones.  Appends, drops
\* and flushes interleave.
EventsAccountedFor ==
  /\ batch \cup sent \cup failed \subseteq 1..head
  /\ batch \cap (sent \cup failed) = {} /\ sent \cap failed = {}
  /\ Cardinality(Dropped) = dropped

\* s.pending never exceeds maxPending, a batch never exceeds maxItems, and s.size,
\* kept up by increments and by recomputation after a cut and a flush, is the size
\* of s.pending.
BoundedAndExact ==
  /\ added - head <= MaxPending /\ Cardinality(batch) <= MaxItems
  /\ size = SizeOf(head + 1, added, bytes)

\* A batch that is full never waits for the ticker: the loop is awake, a token is
\* in s.wake or an adder is about to put one there.  The kick does not block, so
\* it may find the channel full.
FullBatchIsSeen ==
  (added - head >= MaxItems \/ size >= MaxSize) =>
    \/ wake = 1 \/ loop # "select"
    \/ \E a \in Adders : adder[a] = "kick"

\* When Close returns, every event added before it was called has left the sink.
FlushedOnClose ==
  closing = "returned" => head >= mark /\ batch = {}

\* The events of a subject are published in the order in which they were added.
PublishedInOrder ==
  [][\A e \in sent' \ sent, d \in sent : subject'[d] = subject'[e] => d < e]_vars

\* The goroutines that send replies add no more events from some time on.
AddersStop == <>[][FALSE]_added

\* No event stays in the sink for ever while the loop runs, whether or not others keep
\* coming: again and again nothing is pending, or the front of s.pending is taken by
\* flush or dropped.  Close does not wait for ever once the adders have stopped; the
\* last flush goes on as long as it finds an event pending, so adders that never leave
\* s.pending empty keep Close waiting (sink.go loop, flush, Close).
SinkProgress ==
  /\ []<>(Pending = {} \/ loop = "exited") \/ []<><<TRUE>>_head
  /\ AddersStop => []<>(closing # "stopped")

=============================================================================
