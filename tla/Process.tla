------------------------------ MODULE Process -------------------------------
(***************************************************************************)
(* The process from start to exit: run in cmd/inspector/main.go.           *)
(*                                                                         *)
(* Four parties: the main goroutine, which starts the parts one by one and *)
(* stops them after a signal; the goroutine of the NATS subscription,      *)
(* which calls receive for one buffered message at a time; the pool; and   *)
(* the loop of the audit sink.  The pool appears by what ReplyOnce         *)
(* promises and Pool keeps: it accepts a message or has it answered by the *)
(* goroutine that submits it, it answers what it has accepted, and Close   *)
(* returns when it holds nothing.  The sink appears by what AuditSink      *)
(* keeps: events leave it in batches, Close returns when the last flush    *)
(* finds nothing pending, and nobody reads the sink afterwards.            *)
(***************************************************************************)
EXTENDS Config

CONSTANTS
  MaxMessages,\* bound on the messages, numbered as they arrive
  Starts      \* pairs of an environment and an inspector.conf: lines, Unset or Junk

ASSUME ProcessAssumption ==
  /\ MaxMessages \in Nat
  /\ \A s \in Starts : s = <<s[1], s[2]>> /\ IsEnv(s[1]) /\ IsConf(s[2])

Messages == 1..MaxMessages
NoMessage == 0   \* the subscription goroutine is idle

VARIABLES
  env, conf,  \* what the process is started with
  cfg,        \* the set of one configuration, or of none before Load
  pc,         \* where run is
  sub,        \* the subscription: "none", "on", "draining", "gone"
  limit,      \* its pending limit: Unset stands for the client's default
  buffer,     \* messages the client holds for the callback, in order
  cb,         \* the message receive is working on
  held,       \* the messages the pool has accepted and not finished
  closed,     \* the pool is closed
  sink,       \* the audit sink: "none", "open", "closing", "closed"
  conn,       \* the connection: "none", "open", "closed"
  place,      \* where each message ended or is
  by,         \* who answers it: "none", "callback" or "pool"
  reply,      \* its reply: "none", "sent", "failed"
  event       \* its audit event: "none", "pending", "sent"

partVars == <<sub, limit, closed, sink, conn>>
messageVars == <<buffer, cb, held, place, by, reply, event>>
vars == <<env, conf, cfg, pc, partVars, messageVars>>

Serving == {"watch", "serve", "close", "closing", "flush", "flushing", "unwind"}
Stages == {"load", "profiles", "store", "connect", "geo", "parts", "subscribe", "limits",
           "exited", "failed"} \cup Serving

The == CHOOSE c \in cfg : TRUE

\* The variables keep their types; the callback and the buffer hold what the
\* client has delivered.
TypeOK ==
  /\ <<env, conf>> \in Starts /\ cfg \subseteq {Resolve(env, File(conf))}
  /\ pc \in Stages
  /\ sub \in {"none", "on", "draining", "gone"} /\ conn \in {"none", "open", "closed"}
  /\ limit = Unset \/ limit \in Nat
  /\ buffer \in Seq(Messages) /\ cb \in Messages \cup {NoMessage} /\ held \subseteq Messages
  /\ closed \in BOOLEAN /\ sink \in {"none", "open", "closing", "closed"}
  /\ place \in [Messages -> {"new", "dropped", "ignored", "buffer", "callback", "pool", "done"}]
  /\ by \in [Messages -> {"none", "callback", "pool"}]
  /\ reply \in [Messages -> {"none", "sent", "failed"}]
  /\ event \in [Messages -> {"none", "pending", "sent"}]
  /\ ToSet(buffer) = {m \in Messages : place[m] = "buffer"}
  /\ {cb} \ {NoMessage} = {m \in Messages : place[m] = "callback"}
  /\ held = {m \in Messages : place[m] = "pool"}

Init ==
  /\ \E s \in Starts : env = s[1] /\ conf = s[2]
  /\ cfg = {} /\ pc = "load"
  /\ sub = "none" /\ limit = Unset /\ closed = FALSE /\ sink = "none" /\ conn = "none"
  /\ buffer = << >> /\ cb = NoMessage /\ held = {}
  /\ place = [m \in Messages |-> "new"] /\ by = [m \in Messages |-> "none"]
  /\ reply = [m \in Messages |-> "none"] /\ event = [m \in Messages |-> "none"]

-----------------------------------------------------------------------------
(* The main goroutine: start.                                              *)

LoadConfig ==
  /\ pc = "load"
  /\ cfg' = Load(env, conf)
  /\ pc' = IF cfg' = {} THEN "failed" ELSE "profiles"
  /\ UNCHANGED <<env, conf, partVars, messageVars>>

\* A step of the start that only succeeds or ends it.
Attempt(from, to) ==
  /\ pc = from /\ pc' \in {to, "failed"}
  /\ UNCHANGED <<env, conf, cfg, partVars, messageVars>>

\* LoadProfiles, then Bootstrap, which falls back to what is loaded.
LoadStore == Attempt("profiles", "store")

\* bodyLoader: without a URL there is no store; with one it must parse and the
\* store must answer the ping.
BodyLoader ==
  \/ Attempt("store", "connect")
  \/ /\ pc = "store" /\ The.redis = Unset /\ pc' = "connect"
     /\ UNCHANGED <<env, conf, cfg, partVars, messageVars>>

\* The first connection must succeed; audit.Ensure is only logged when it fails.
Connect ==
  /\ pc = "connect"
  /\ \/ pc' = "geo" /\ conn' = "open"
     \/ pc' = "failed" /\ UNCHANGED conn
  /\ UNCHANGED <<env, conf, cfg, sub, limit, closed, sink, messageVars>>

\* The deferred functions close the connection when a later step fails.
FailConnected == pc' = "failed" /\ conn' = "closed"

GeoResolver ==
  /\ pc = "geo"
  /\ (pc' = "parts" /\ UNCHANGED conn) \/ FailConnected
  /\ UNCHANGED <<env, conf, cfg, sub, limit, closed, sink, messageVars>>

\* NewSink and queue.New start their goroutines.
NewParts ==
  /\ pc = "parts" /\ pc' = "subscribe"
  /\ sink' = "open"
  /\ UNCHANGED <<env, conf, cfg, sub, limit, closed, conn, messageVars>>

QueueSubscribe ==
  /\ pc = "subscribe"
  /\ \/ pc' = "limits" /\ sub' = "on" /\ UNCHANGED conn
     \/ FailConnected /\ UNCHANGED sub
  /\ UNCHANGED <<env, conf, cfg, limit, closed, sink, messageVars>>

\* The buffer is bounded only now: messages may have come already.
SetPendingLimits ==
  /\ pc = "limits"
  /\ \/ /\ pc' = "watch" /\ limit' = The.depth + The.workers + 2
        /\ UNCHANGED <<sub, conn>>
     \/ FailConnected /\ sub' = "gone" /\ UNCHANGED limit
  /\ UNCHANGED <<env, conf, cfg, closed, sink, messageVars>>

\* The watchers of the profiles and the heartbeat; desired.Watch may fail and is
\* then done without.
StartWatchers ==
  /\ pc = "watch" /\ pc' = "serve"
  /\ UNCHANGED <<env, conf, cfg, partVars, messageVars>>

-----------------------------------------------------------------------------
(* The main goroutine: shutdown.                                           *)

Move(from, to) == pc = from /\ pc' = to /\ UNCHANGED <<env, conf, cfg, messageVars>>

\* waitForSignal, stop() for the watchers, and sub.Drain, which only begins to
\* drain: the server is told, the callback goes on with the buffer.  An error is
\* logged and the subscription stays.
Signal ==
  /\ Move("serve", "close")
  /\ sub' \in {"on", "draining"}
  /\ UNCHANGED <<limit, closed, sink, conn>>

ClosePool ==
  /\ Move("close", "closing") /\ closed' = TRUE
  /\ UNCHANGED <<sub, limit, sink, conn>>

\* Mutation of PoolClosed: the shutdown waits for the drain as well.
PoolClosedDrained ==
  /\ held = {} /\ buffer = << >> /\ cb = NoMessage
  /\ Move("closing", "flush") /\ UNCHANGED partVars

\* Close returns when the workers have finished what the pool held.
PoolClosed == held = {} /\ Move("closing", "flush") /\ UNCHANGED partVars

\* sink.Close stops the loop, which flushes once more.
CloseSink ==
  /\ Move("flush", "flushing") /\ sink' = "closing"
  /\ UNCHANGED <<sub, limit, closed, conn>>

\* The last flush ends when it finds nothing pending: the callback may have added
\* events until then.  What it adds later stays.
SinkClosed ==
  /\ \A m \in Messages : event[m] # "pending"
  /\ Move("flushing", "unwind") /\ sink' = "closed"
  /\ UNCHANGED <<sub, limit, closed, conn>>

\* The deferred functions: heartbeat, watchers and resolver stop, the connection
\* closes, and the process is gone with its goroutines.
Unwind ==
  /\ Move("unwind", "exited")
  /\ conn' = "closed" /\ sub' = "gone"
  /\ UNCHANGED <<limit, closed, sink>>

-----------------------------------------------------------------------------
(* The client and the subscription goroutine.                              *)

Alive == pc \notin {"exited", "failed"}
Pending == Len(buffer) + (IF cb = NoMessage THEN 0 ELSE 1)

\* The client buffers a message, or drops it when the limit is reached: one in
\* the callback still counts.
Arrive(m) ==
  /\ Alive /\ place[m] = "new" /\ (m > 1 => place[m - 1] # "new")
  /\ sub \in {"on", "draining"} /\ conn = "open"
  /\ IF limit = Unset \/ Pending < limit
       THEN buffer' = Append(buffer, m) /\ place' = [place EXCEPT ![m] = "buffer"]
       ELSE UNCHANGED buffer /\ place' = [place EXCEPT ![m] = "dropped"]
  /\ UNCHANGED <<env, conf, cfg, pc, partVars, cb, held, by, reply, event>>

\* The server has heard of the drain: nothing new comes.
Unsubscribed ==
  /\ Alive /\ sub = "draining" /\ sub' = "gone"
  /\ UNCHANGED <<env, conf, cfg, pc, limit, closed, sink, conn, messageVars>>

Take ==
  /\ Alive /\ cb = NoMessage /\ buffer # << >>
  /\ cb' = Head(buffer) /\ buffer' = Tail(buffer)
  /\ place' = [place EXCEPT ![cb'] = "callback"]
  /\ UNCHANGED <<env, conf, cfg, pc, partVars, held, by, reply, event>>

\* A message the callback is working on and has not decided about.
Undecided == Alive /\ cb # NoMessage /\ by[cb] = "none"

\* A message to release needs no reply.
Ignore ==
  /\ Undecided /\ cb' = NoMessage
  /\ place' = [place EXCEPT ![cb] = "ignored"]
  /\ UNCHANGED <<env, conf, cfg, pc, partVars, buffer, held, by, reply, event>>

\* Mutation of Accept: the callback keeps a message it has handed over.
AcceptKeeps ==
  /\ Undecided /\ ~closed
  /\ held' = held \cup {cb} /\ by' = [by EXCEPT ![cb] = "pool"]
  /\ place' = [place EXCEPT ![cb] = "pool"]
  /\ UNCHANGED <<env, conf, cfg, pc, partVars, buffer, cb, reply, event>>

\* Submit has room: the pool answers.  How much it can hold is no fixed number: tasks
\* that expired have left the queue and are still to be answered.
Accept ==
  /\ Undecided /\ ~closed
  /\ held' = held \cup {cb} /\ by' = [by EXCEPT ![cb] = "pool"]
  /\ place' = [place EXCEPT ![cb] = "pool"] /\ cb' = NoMessage
  /\ UNCHANGED <<env, conf, cfg, pc, partVars, buffer, reply, event>>

AnswerHere ==
  /\ by' = [by EXCEPT ![cb] = "callback"]
  /\ UNCHANGED <<env, conf, cfg, pc, partVars, buffer, cb, held, place, reply, event>>

\* receive refuses a malformed message, a version or a phase.
Refuse == Undecided /\ AnswerHere

\* Submit has its caller answer: at a full queue, at once when it sheds and at the
\* deadline when it waits, and always once the pool is closed.
TurnAway ==
  /\ Undecided
  /\ closed \/ Cardinality(held) >= The.depth
  /\ AnswerHere

-----------------------------------------------------------------------------
(* send: the reply is published, then the event is added.                  *)

Publish(m) ==
  /\ Alive /\ by[m] # "none" /\ reply[m] = "none"
  /\ reply' = [reply EXCEPT ![m] = IF conn = "open" THEN "sent" ELSE "failed"]
  /\ UNCHANGED <<env, conf, cfg, pc, partVars, buffer, cb, held, place, by, event>>

\* Mutation of AddEvent: the worker is done before the event is added.
AddEventLate(m) ==
  /\ Alive /\ reply[m] # "none" /\ event[m] = "none"
  /\ \/ /\ place[m] \in {"pool", "callback"} /\ UNCHANGED event
        /\ place' = [place EXCEPT ![m] = "done"]
        /\ held' = held \ {m} /\ cb' = IF cb = m THEN NoMessage ELSE cb
     \/ /\ place[m] = "done" /\ event' = [event EXCEPT ![m] = "pending"]
        /\ UNCHANGED <<place, held, cb>>
  /\ UNCHANGED <<env, conf, cfg, pc, partVars, buffer, by, reply>>

\* With the event added the handler returns to the callback or to the worker.  A
\* reply that has no event (no audit subject, no request parsed, a panic) goes the
\* same way and leaves nothing behind: the messages of the model all have one.
AddEvent(m) ==
  /\ Alive /\ reply[m] # "none" /\ event[m] = "none"
  /\ event' = [event EXCEPT ![m] = "pending"]
  /\ place' = [place EXCEPT ![m] = "done"]
  /\ held' = held \ {m} /\ cb' = IF cb = m THEN NoMessage ELSE cb
  /\ UNCHANGED <<env, conf, cfg, pc, partVars, buffer, by, reply>>

\* The loop of the sink publishes a batch.
Flush ==
  /\ Alive /\ sink \in {"open", "closing"} /\ \E m \in Messages : event[m] = "pending"
  /\ event' = [m \in Messages |-> IF event[m] = "pending" THEN "sent" ELSE event[m]]
  /\ UNCHANGED <<env, conf, cfg, pc, partVars, buffer, cb, held, place, by, reply>>

-----------------------------------------------------------------------------
MainStep ==
  \/ LoadConfig \/ LoadStore \/ BodyLoader \/ Connect \/ GeoResolver \/ NewParts
  \/ QueueSubscribe \/ SetPendingLimits \/ StartWatchers
  \/ ClosePool \/ PoolClosed \/ CloseSink \/ SinkClosed \/ Unwind

Answer == \E m \in held : Publish(m) \/ AddEvent(m)

Callback ==
  Take \/ Ignore \/ Accept \/ Refuse \/ TurnAway
  \/ \E m \in {cb} \ {NoMessage} : Publish(m) \/ AddEvent(m)

Next ==
  \/ MainStep \/ Signal
  \/ \E m \in Messages : Arrive(m)
  \/ Unsubscribed \/ Callback \/ Answer \/ Flush

Spec == Init /\ [][Next]_vars

\* The main goroutine goes on, handlers return, so that a message the pool holds is
\* answered (Pool's EveryTaskAnswered), and the loop of the sink takes what is
\* pending (AuditSink's SinkProgress).
FairSpec == Spec /\ WF_vars(MainStep) /\ WF_vars(Answer) /\ WF_vars(Flush)

-----------------------------------------------------------------------------
\* The value of the last line of the conf that sets key outside the block.
InFile(key) ==
  LET at == IF conf \in {Unset, Junk} THEN {}
            ELSE {i \in DOMAIN conf : conf[i].kind = "set" /\ conf[i].key = key}
  IN IF at = {} THEN Unset ELSE conf[CHOOSE i \in at : \A j \in at : j <= i].value

\* Whatever mixture of environment, conf file and defaults it is started with, a
\* process that serves runs a pool within the assumptions Pool is verified under,
\* with the environment's value, else the file's, else the default.
RunsAsConfigured ==
  pc \in Serving =>
    /\ The.workers \in Nat \ {0} /\ The.depth \in Nat \ {0}
    /\ The.full \in QueueModes /\ {The.reserve, The.minBudget} \subseteq Nat
    /\ The.depth = (IF env.depth # Unset THEN env.depth
                    ELSE IF InFile("queue_max") # Unset THEN InFile("queue_max") ELSE 256)
    /\ The.full = (IF env.full # Unset THEN env.full
                   ELSE IF InFile("queue_full") # Unset THEN InFile("queue_full") ELSE "drop")

\* At exit every message the pool accepted has been answered over the open
\* connection and its audit event has left the sink, although the drain of the
\* subscription is not waited for: only messages still in the client's buffer, in
\* the callback, or answered by the callback after the sink was closed, lose a
\* reply or an event.
SettledBeforeExit ==
  /\ pc \in {"flush", "flushing", "unwind", "exited"} => held = {}
  /\ pc = "exited" => \A m \in Messages :
       /\ by[m] = "pool" => reply[m] = "sent" /\ event[m] = "sent"
       /\ reply[m] = "none" =>
            place[m] \in {"new", "dropped", "ignored", "buffer", "callback"}
       /\ reply[m] = "sent" /\ event[m] # "sent" => by[m] = "callback"

\* No more messages reach the client from some time on: the server has heard of the
\* drain, or nobody asks.
MessagesStop == <>[][FALSE]_{m \in Messages : place[m] = "new"}

\* After a signal the process exits once messages stop coming, although the callback
\* goes on answering its buffer and may never get to its end: neither the pool nor
\* the sink waits for it.  Messages that kept coming, after a Drain that failed, would
\* give the last flush of the sink an event at every turn.
ProcessExits == MessagesStop => ((pc = "close") ~> (pc = "exited"))

=============================================================================
