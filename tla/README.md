# TLA+ verification of placitum-json

The program is an inspector of a web application firewall. It receives messages
over NATS, looks the profile of the route up, fetches the parts of the message
(headers, body, arguments) from a store, validates JSON documents against the
contracts of the profile and answers `allow`, `deny`, `score` or `error`. This
directory holds TLA+ modules that model it, the TLC configurations that check
them on small instances, and TLAPS proofs of every safety property they check.
`PROJECT.json` lists the components, the runs, the mutants, the source lines of
each definition, the findings, the hazards and the theorems.

## 1. Inventory

| Component | State it keeps | Operations | Must be right |
|---|---|---|---|
| Work queue, `internal/queue/queue.go` | slice of tasks, one mutex, one condition variable, closed flag, counters; a timer per waiting submitter | `Submit`, `submitWaitLocked`, `pop`/`work`, `sweep`, `Close` | every task answered once, bounded, in order, no lost wake-up, clean shutdown |
| Audit sink, `internal/audit/sink.go` | pending events, their size, drop counter, wake channel of capacity 1 | `Add`, the loop (stop, wake, ticker), `flush`, `Close` | nothing lost uncounted, bounds, order per subject, flushed on close |
| Profile store, `internal/config/profiles.go` | directory in use, atomic snapshot with its fingerprint | `LoadProfiles`, `ReloadFrom`, `Reload`, `Watch` | a snapshot is one generation, valid, with a default; edits come into force |
| Rollout, `internal/desired` | trees `live`, `.prev`, `.next`, the applied entry | `Watch`, `Apply`, `Bootstrap` | disk, heartbeat and handlers agree; a failed rollout changes nothing; restart recovers |
| Message handler, `cmd/inspector/handler.go`, `lists.go` | none between messages | `receive`, `evaluate`, `inspect`, `shed`, `writeLists`, `send`, `recoverInto` | exactly one reply; one profile decides; faults are not verdicts |
| Checks, `internal/validate` | none | `Run`, `bodyState` | the phases' order, faults, limits |
| Decision, asks, overload: `internal/decide`, `internal/overload` | none | `From`, `Fire`, `FireOverload`, `EvaluatePrior`, `ScaleScore` | observe is a dry run, scores stay scores |
| Body loader and store client, `internal/body` | connection | `Load`, `LoadMany`, `finish`, `decrypt` | a document other than the captured one is not checked in its place |
| Wire protocol, `internal/protocol` | none | `Parse`, replies | malformed messages are answered |
| Profile configuration, `internal/config/profile.go` | none | `defaults`, `ParseProfile`, `Validate`, `Sources`, matching of bindings | what it lets in, the handler can run |
| Contracts, `internal/schema` | compiled schemas | `Compile`, choice of binding, operation, media type, status | a document passes only by the schema the profile names for the call |
| Process configuration, `internal/config/config.go`, `file.go` | none | `Load`, `parseQueueFile`, `validate` | environment over file over defaults, and only values the parts can work with |
| Start and shutdown, `cmd/inspector/main.go` | the subscription and its buffer, the connection, the parts | `run` | what was accepted is answered and audited before the exit, and there is an exit |
| Health probe, `cmd/probe` and `profiles/_probe` | none | one message | the reserved profile answers deny |
| Audit event, `internal/audit/audit.go` | none | `Build`, `Ensure` | |

How they interact. The NATS callback runs `receive`, which calls `Submit`; a
worker, the sweeper or the submitter itself calls `evaluate` with the task (with
a reason when the task is shed). `evaluate` reads the snapshot of the profile
store, loads, checks, decides, writes lists to the bus, publishes the reply and
hands one event to the audit sink. `desired.Watch` and `Store.Watch` replace the
snapshot under it, and both work on the same directory tree. The shutdown begins
to drain the subscription and, without waiting for that, closes the pool, then the
sink, then the connection.

What is hard. Two kinds of waiter on one condition variable with `Signal`; dead
tasks handed out under the lock and answered outside it; a timer that outlives
`Stop`; `Close` racing `Submit`; handlers that hang; an audit size kept in two
ways; a kick that may be dropped; a hot reload reading a tree file by file while
a rollout renames it; a fingerprint taken after the content; crashes between
renames; a store that is reloaded while a message is judged; a part the store
does not give up; a panic on any path; a subscription that is still being drained
while the parts behind it are closed; profiles whose validity rests on rules spread
over one long function and relied on silently elsewhere.

## 2. Modules

| Module | Models | Composes |
|---|---|---|
| `Pool` | the work queue | |
| `ReplyOnce` | what the queue promises, without goroutines, locks or time | implemented by `Pool` |
| `PoolProofs`, `PoolRefinement` | the proofs about the queue | extend `Pool` |
| `AuditSink` | the audit sink | |
| `Generations` | profile store, hot reload, rollout, restart | store + rollout + operator |
| `Config` | environment, `inspector.conf`, `Load`, as operators | |
| `Process` | `run` from start to exit | extends `Config`; pool and sink by their promises |
| `Profiles` | defaults, validation and bindings of a profile, as operators | |
| `Contracts` | compiling a profile's documents and checking a message by them, as operators | extends `Profiles` |
| `Decide` | loading, checks, policy, asks, overload, as operators | extends `Contracts` |
| `Inspect` | one message through the handler | extends `Decide`; queue and store as environment |
| `AuditSinkProofs`, `GenerationsProofs`, `ProcessProofs`, `InspectProofs` | the proofs about the others | extend `AuditSink`, `Generations`, `Process`, `Inspect` |
| `MCPool`, `MCAuditSink`, `MCGenerations`, `MCProcess`, `MCInspect` | small instances | |

Definitions named "Mutation of X" are faulty variants of X. No specification uses
them; each is put in X's place to see that the property named beside it in
`PROJECT.json` notices.

### Pool

A critical section of `p.mu` is one action; what a goroutine does between two of
them is another, so every interleaving of the code is one here. `pc[g]` says where
goroutine `g` is, `cur[g]` is the task it carries and `held[g]` the dead tasks
`takeExpiredLocked` gave it. The slice is the set `q` together with `ticket`, the
number of a task in the order of the appends; the head of the slice is `Oldest(q)`.
`waiters` is the notify list of the condition variable: `Broadcast` empties it and
`Signal` removes any one member (Go promises no order that the properties could
use). A waiting submitter's timer goes through `armed`, `running` (the callback has
started and waits for the lock) and `fired`; `timer.Stop` only stops an armed one.
The clock advances by ticks; budgets are compared as `leftAt` does. `MaxTime` bounds
the clock, and `Submit` is only called with deadlines the clock can still reach.
The sweeper's ticker is an action that is always enabled while something is dead.

### AuditSink

Events are numbered by their append, so `s.pending` is the interval `head+1..added`.
`Add` is one critical section and the kick that may follow it another step. `select`
is a choice among the ready channels, the ticker is always ready. `flush` takes a
batch, publishes it subject by subject, each publish succeeding or failing, and goes
on until nothing is pending: with events that never stop the last flush need not end,
and `SinkProgress` has the premise that they do (`AddersStop`). `SizeOf` is the loop of
`sizeOf`. `MaxEvents` bounds the calls of `Add`. An event whose message names no audit
subject returns early from `Add` and is left out.

### Generations

A tree is a function from profile names to files or `NoDir`; a file is its
generation and the number of the write that made it, so two writes of the same name
differ as size and modification time do, and the fingerprint of a tree is the tree.
The files of one profile are one file. `Bad` says which profiles do not load by
themselves (`Contracts!Loads` is the detail); `commonLimits` and the `_probe` that
the image lends to a tree without one (`Complete`) are modelled, and the fingerprint
covers the directory without what was lent.

Apply's renames and `ReloadFrom`'s two halves (point, then read) are separate steps;
the removal of a rejected tree goes file by file, since a hot reload can read it
meanwhile; `Reload` compares, lists, reads file by file, takes the fingerprint and
stores. Any call may fail, at most `MaxFaults` times: a write, a rename, the rename
that brings the parked tree back (it also fails where a directory is in its way, be it
empty: `os.Rename` refuses an existing one), and the removals whose errors Apply passes over (of
an old `.next`, over which the new files are then written, and of a rejected tree).
A crash at any step loses memory and keeps the disk; a process that is stopped in
the middle of `Apply` ends the same way, because `stop()` is not waited for. `Start`
is `LoadProfiles`, which must succeed, then `Bootstrap`, and a watcher that begins
with the last entry of the bucket. Values of the key that are deletions or that
`Parse` refuses are `Ignored`. `lastGood` and `stray` are history variables; `stray`
remembers that a parked tree was left parked or a removal was cut short, the two
cases the properties are stated up to.

### Config and Process

`Config` reads an environment (each variable unset, junk or its value) and a conf
file (a sequence of classified lines) as `Load` does. Variables that are parsed and
checked in the same way stand for each other: the heartbeat for the timeout of the
network directory, the reserve for the other integers, and the log level is left out.

`Process` is `run`: one action per step of the start, each of which may fail, the
signal, and one action per step of the shutdown. The subscription buffers messages up
to its limit, which is set only after the subscription exists, and its goroutine works
on one at a time. The pool is a set of accepted messages (it may turn one away when it
holds at least the queue's depth), the sink a state and one event per message: what
`Pool` and `AuditSink` show about them is what is used here. `Publish` and `AddEvent`
are separate, as in `send`. Closing the sink takes two steps, `CloseSink` and
`SinkClosed`, between which the last flush works off what is pending while the callback
may add more; it ends when nothing is pending.
`Drain` begins to drain and is not waited for. A message without an audit event goes
the same way as one with it, so all messages of the model have one. `MaxMessages`
bounds the messages.

### Profiles and Contracts

A profile is a record with the sections and rules the YAML has, decoded over
`defaults`; a tree of profiles gives for each name a profile and the documents beside
it. `Validate` keeps every condition of the code in the code's order of nesting.
Names, codes, markers and methods are constants, the sets their regular expressions
accept. A path is a sequence of pieces, so that being a prefix means what
`strings.HasPrefix` means, across segment boundaries too.

`Contracts` builds a contract or refuses the snapshot, and answers for a message. What
the validators would say is part of the message: the schemas its document conforms to,
the parts of the call an OpenAPI validator accepts, and the parts it misses when the
call does not bring them. Everything around them is the code's: which binding wins
(the discriminators of a frame are pointers with a value, and the message has the set
it satisfies), how a base path loses its last slash and is cut off, when an operation, a media type or a status counts as
described, and how findings add up to one outcome.

### Decide and Inspect

A document is its class (`json`, `big`, `deep`, `garbage`, `blank`, `empty`). `Load`
and `finish` say what a locator and the store's answer give: the store may return the
captured document, nothing, something that does not parse, or another document; the
digest or the seal tells them apart. A seal may be one that cannot be opened at all (an
unknown algorithm or key, a bad nonce); `main` passes no keys, so in the runs none can.
A blob of headers that is lost or is no list of pairs is read as no headers; another
list of pairs in its place is used. `ScaleScore` is a set of results because the float product of the code may fall
on either side of an exact half; everywhere else the set has one member.

`Inspect` follows one message: `Refuse`, `IgnoreRelease` and `Submit` are the ends of
`receive`; `Shed` and `Lookup` are the queue's answer (the queue itself is `Pool`);
`LoadParts`, `RunChecks` and `Judge` are `inspect` between its early returns;
`WriteList` is one turn of `writeLists`: the write is published, its publication fails
and is only logged (`lost`), the network directory fails (`geoDown`), or knows nothing of
the address. `Panic` is `recoverInto`, deferred in `receive` and in `evaluate`: any step
before the reply is published may end in it. A deny of a section without a response of
its own names `json_invalid` (`denyResponseOf`); `LoadedProfileRuns` says it never has to. `Reload` replaces
the snapshot at any step by that of another tree, and leaves it when that tree does
not load. Left out: log lines, the details of the audit event, the echoed version. The
publisher of lists is present; without a network directory every networked write
fails, which the failure branch covers. A loaded profile that is not off always has
its contract, since `Compile` leaves out only profiles that are off.

## 3. Runs

Passing runs (all states of the instance):

| Run | Question | Bounds and why they are enough |
|---|---|---|
| `pool_drop` | full queue sheds: `TypeOK`, `Ownership`, `Fifo`, `Accounting`, `DrainedOnReturn`, `ImplementsPromise` | 3 tasks, depth 2, 2 workers: the queue fills, a task is shed, and two workers race; deadline 1 is refused at the door, deadline 3 expires in the queue |
| `pool_wait` | full queue waits: `DepthBound`, `NoLostWakeup`, `NothingQueuedOnceClosed` | 2 submitters, depth 1, 3 tasks, 2 workers: both kinds of waiter sleep at once and a signal can go to the wrong one |
| `pool_live` | `EveryTaskAnswered`, `CloseReturns`, `HungHandlersBlockNobody` | one worker busy, one task queued, one waiting; no symmetry, as liveness requires |
| `audit` | `TypeOK`, `EventsAccountedFor`, `BoundedAndExact`, `FullBatchIsSeen`, `FlushedOnClose`, `PublishedInOrder`, `SinkProgress` | 5 events, 2 adders, short events on one subject and long ones on another, limit 3, batches of 2: four events can come while a batch is in hand, so that one is dropped during the flush; split and mixed batches, kicks by count and by size, events before, during and after the last flush |
| `rollout` | `TypeOK`, `ServedIsWhole`, `HeartbeatIsTrue`, `LastGoodKept`, `LastGenerationServed` | 3 puts out of 2 good generations, one with other limits, one that does not validate and a deletion; 2 failing calls, 1 crash, no hot reload: a generation can be applied over one that was applied over a failed one, with a fault on the way and on the way back |
| `reload` | `ServedIsUsable` | 2 puts with hot reload, an edit that may break the bootstrap `_probe`, 1 failing call and 1 crash |
| `shutdown` | `TypeOK`, `RunsAsConfigured`, `SettledBeforeExit`, `ProcessExits` | 3 starts that serve (settings from the environment, from the file, from the defaults) and 39 that must not; 5 messages, some of which come while pool and sink are being closed, one more than the smallest buffer holds |
| `inspect` | `TypeOK`, `AnsweredOnce`, `FaultIsAnError`, `CapturedBodyIsJudged`, `ObserveIsADryRun`, `OneProfileDecides`, `ScoresStayScores`, `ListWritesSettled`, `LoadedProfileRuns`, `CheckedBodyConforms`, `ProbeIsDenied` | 8 trees, 5 of which must not load; every phase, 9 kinds of body, calls that differ in method, path, type, status and conformity, 4 lists of prior asks, one reload. One message at a time: the handler keeps no state between messages |

Tasks, workers and submitters are symmetric in the runs that check only safety.
`ServedIsWhole`, `HeartbeatIsTrue` and `LastGoodKept` are stated up to what `stray`
records, the first two for a process without hot reload: the runs `mixed` and `reload`
say what remains true with it. Deadlock is checked in the pool, the sink and the handler.
`Generations` turns it off, because its watchers may rightly wait for ever for
something to do, and `Process`, because it ends.

Runs that exhibit a disagreement between the code and its documentation:

| Run | Says | The code |
|---|---|---|
| `mixed` | INSTALL.md:80, "A generation replaces the directory as a whole." (`WholeGeneration`) | a hot reload that races a rollout reads one profile before the swap and one after it, or finds one gone, and serves that |
| `stale` | hot reload makes an edit effective (`ReloadCatchesUp`; INSTALL.md:32, README.md:29) | `read` takes the fingerprint after the content: an edit in between is never read |
| `missing_profile` | README.md:54, INSTALL.md:78: a missing profile means a denial (`MissingProfileIsDenied`) | the reply is `error` with `JSON_UNKNOWN_PROFILE` |
| `no_store` | INSTALL.md:76-77: without a store the policy decides (`PolicyDecidesWithoutStore`) | a located body is a fault, answered `error` before the policy is asked |

## 4. Fairness

`Pool!SchedulerFairness` is weak fairness of every goroutine's next step, of the
timers and of the clock: the Go scheduler runs runnable goroutines, and the mutex is
handed on (a starving Go mutex goes to its oldest waiter). Weak fairness suffices
because a step that waits for the lock stays enabled until it is taken, or another
step of the same goroutine is. `EveryTaskAnswered` and `CloseReturns` have the premise `HandlersReturn`, as every
call a handler makes carries the task's budget as its deadline;
`HungHandlersBlockNobody` does without it. Nothing is assumed of callers: `Submit` and `CloseStop` may never happen. In
`AuditSink` the loop runs and its ticker ticks; strong fairness of `SelectStop`
is Go's uniform choice among ready channels. Adders are not made to add, and the second
half of `SinkProgress` (`Close` returns) is stated for behaviours in which they add
finitely often: `flush` goes on as long as something is pending. In `Generations` both watchers
run, and a process that died is started again (the supervisor of the container);
neither the controller, the operator nor crashes are made to act. In `Process` the
main goroutine goes on (`MainStep`), a message the pool holds is answered
(`Answer`, which is `EveryTaskAnswered` of `Pool`) and the sink sends what it holds
(`Flush`, the first half of `SinkProgress`); nothing is assumed of the subscription's
goroutine, of the client or of the signal. `ProcessExits` has the premise that messages
stop (`MessagesStop`), as they do once the subscription is drained, for the sake of the
sink's last flush. `Inspect` has no liveness
property.

## 5. Proofs

Every safety property that a run checks is also a theorem, for every value of the
constants: any number of tasks, workers and submitters, of events and adders, any
profiles and manifests, any conf file, any tree of profiles and any message, and any
number of edits, faults, crashes and reloads. The runs show the same on a small
instance, and see each property fail on a mutant of the code.

| Module | Theorems |
|---|---|
| `PoolProofs` | `Typing`, `TasksAreOwned`, `QueueIsBounded`, `ClosedQueueShrinks`, `WakeupsAreNotLost`, `TasksAreServedInOrder`, `CountersAreExact`, `CloseDrains` |
| `PoolRefinement` | `PoolKeepsPromise`: `Pool` implements `ReplyOnce` |
| `AuditSinkProofs` | `SinkTyping`, `EventsAreAccountedFor`, `PendingIsBoundedAndSized`, `FullBatchesAreSeen`, `CloseFlushes`, `SubjectsStayInOrder` |
| `ProcessProofs` | `ProcessTyping`, `ServesAsConfigured`, `ExitIsSettled` |
| `GenerationsProofs` | `GenerationsTyping`, `WhatIsServedIsUsable`, `LastGoodStays`, `HeartbeatTellsTheTruth`, `WhatIsServedIsWhole` |
| `InspectProofs` | `HandlerTyping`, `RepliesOnce`, `FaultsAreErrors`, `WhatWasCapturedIsJudged`, `ObservingIsADryRun`, `OneProfileSpeaks`, `ScoresAreScaled`, `WritesAreSettled`, `LoadedProfilesRun`, `CheckedBodiesConform`, `ProbesAreDenied` |

### Assumptions

Each module states what its constants are and no more; TLC evaluates the assumptions
in every run of the module.

- `PoolAssumption`: finite sets of tasks and workers, at least one worker, distinct
  goroutines, a positive depth, one of the two modes, natural numbers for times. That
  the process builds such a pool is `RunsAsConfigured`.
- `SinkAssumption`: positive limits, natural lengths, finitely many adders.
- `ProcessAssumption`: the values of an environment are integers where they are set
  and parse (`IsEnv`), and a conf file is a sequence of lines of any length (`IsConf`).
- `GenerationsAssumption`: a manifest names `default`, which `Parse` insists on; the
  image's profiles are all there and load; an operator's edit of the bootstrap tree
  replaces a profile, and may break it or change its limits.
- `ProfilesAssumption`: the empty string is not a name (`nameRe`).
- `InspectAssumption`: one tree loads, since the process would not have started
  otherwise; the profiles have the fields of the Go struct (`IsProfile`), the
  operations of a description are keyed by path and method (`IsDocument`), and a message has
  its locators and integer deltas (`IsMessage`). Nothing is said of what is in them:
  that is left to `Validate`, `Parse` and the checks.

Three theorems have hypotheses of their own. `HeartbeatTellsTheTruth` and
`WhatIsServedIsWhole` are about a process without hot reload, that is with
`WAF_JSON_RELOAD_EVERY` set to 0. The default is one second (`config.go:128`), so they,
and the properties `ServedIsWhole` and `HeartbeatIsTrue` of the run `rollout`, do not
cover a deployment with the defaults: there they are false, the run `mixed` shows how,
and `ServedIsUsable` is what remains. `WhatIsServedIsWhole` also leaves the bootstrap
tree alone (`Bases = {Base}`), as `profiles/` of the image is. `ProbesAreDenied` is about
the profile `_probe` as it is shipped and the message `cmd/probe` sends
(`ProbeShipped`); `MCInspect` has TLC evaluate that hypothesis on its trees and
messages.

### The arguments

`Pool`.

- `Typing`. `TypeOK` alone is not inductive: an action that answers `cur[g]` or
  orders the members of `held[g]` needs them to be tasks. `TypeInv` adds `Coupled`, which
  ties `pc[g]` to whether `g` carries a task. `OldestIsFirst` (by well-foundedness of
  the naturals) and `FillRange` are the lemmas about operators.
- `TasksAreOwned`. `Ownership` is inductive relative to `TypeInv`; its clauses are
  mutual, which is why it is stated as one: a task leaves one place in the step in
  which it enters another.
- `QueueIsBounded`, `ClosedQueueShrinks`. `QueueChange` says that a step either
  shrinks the queue or is an enqueue under the guards; both follow.
- `WakeupsAreNotLost`. `NoLostWakeup` is inductive relative to `OwnershipInv`. The
  point is the count: while a worker sleeps there are at most as many queued tasks as
  workers awake at `pop`. `Signal` keeps it because a sleeping submitter means a full
  queue, in which case nobody enqueues; so whenever `enqueueLocked` signals, only
  workers can be asleep.
- `TasksAreServedInOrder`. `OrderInv` adds `Ticketed`: tickets of queued tasks are
  distinct and at most `Accepted`, so a new ticket is larger than all others.
- `CountersAreExact`. `CountInv`, relative to ownership and order: a step that counts
  gives an outcome or a ticket to one task that had none.
- `CloseDrains`. `DrainInv` says that an exited worker of a closed pool leaves an
  empty queue behind; by the argument of `ClosedQueueShrinks` it stays empty.
- `PoolKeepsPromise`. `Pool` implements `ReplyOnce` under the mapping `status`.
  `RefineInv` is ownership, order (a task that was accepted has a ticket) and
  `ShedOnlyInDrop` (a submitter about to shed implies drop mode).

`AuditSink`. `SinkInv` is the properties themselves with `Coupled` (where the loop is,
what it holds and how far `Close` has come) and `Ordered` (of a subject, what is out is
older than what is left in the batch). The size is the one that needs lemmas: `SizeOf`
is a loop, written as the recursive function `Sums`, and `SumsUnfold` shows that this
function satisfies its own recursion, `SizeOfAgrees` that it looks at the pending events
only. The induction over data is done by hand: the smallest event for which the
statement failed leads to a contradiction.

`Process`. `ProcessInv` ties the parts that exist to how far `run` has come
(`PartsInv`), the settings to `Load` (`ConfigInv`), a message's place to its reply and
event (`MessageInv`), and what is closed to what is empty (`DrainInv`). For
`ServesAsConfigured` the parser is followed over a conf file of any length
(`FileSays`): after n lines a setting is that of the last line that gave it, because a
second one is refused.

`Generations`. `Shape` (which trees exist at which step of `Apply`) is the type
invariant's strengthening. `UsableInv` says of the hot reload's scan in progress that
what it has read is not broken, and of what it has finished that it may be put in force:
the validation comes before the store, whatever was renamed meanwhile. `DiskInv`
follows the renames: what is brought in is exactly its manifest (`JobInv`), the last good
generation is parked while the trees are swapped and live otherwise (`LastInv`), and no
tree is a mixture (`WholeInv`). `HeartbeatInv` and `GoodInv` carry this over to what
is in force. Trying to prove `ServedIsUsable` showed that its clause about `_probe` was
too strong for two edits: with the bootstrap `_probe` broken a generation without one
comes into force, and a second edit that repairs it does not bring it back. The clause
now speaks of a bootstrap `_probe` nobody has replaced.

`Inspect`. `HandlerInv` has five parts: what has been said when (`ControlInv`), what
each step may rely on (`StageInv`: the profile taken, the parts fetched, the checks
made), that a decision is the word of that profile and the reply says it
(`JudgedInv`), that without a decision nobody is blocked (`SilentInv`), and where an
outcome that fired is (`ListInv`). `Reload` can only change `cur`, and none of the
parts depends on it once `inspect` has taken its snapshot: that is `OneProfileSpeaks`. The
other theorems combine `JudgedInv` with lemmas about the operators:

- `FaultsAreErrors`, `WhatWasCapturedIsJudged`, `CheckedBodiesConform`: what `Load` can
  return for a locator (`LoadCases`, `CapturedOrFailed`), how the checks of each phase
  end (`RequestRun`, `ResponseRun`, `FrameRun`), which binding wins (`PickedSchema`).
  That the error of the store is given for nothing else needs an invariant of its own,
  `StoreInv`, which follows the reply from the checks to the subject.
- `WritesAreSettled`: `ListInv`, and that without a failing directory the reply is the
  one drafted from the decision (`VerdictStands`), whose score is in range.
- `ObservingIsADryRun`: `From` with mode `observe` remembers what `enforce` would have
  decided, scaled the same way (`FireEffective`).
- `ScoresAreScaled`: the asks of the prior inspectors are a sum over a finite set
  (`SumIsInt`, by the smallest set for which it would fail), clamped, and the scaled
  score is bounded by `ScaleBounds`.
- `LoadedProfilesRun`: a profile of a snapshot has passed `Validate`
  (`LoadedIsValidated`), so its rules, documents and outcomes are what the checks, the
  decision and the asks need (`OutcomesHaveRules`, `BoundDocuments`,
  `OutcomesValidated`). `AskedInv` follows the asks into the reply.
- `ProbesAreDenied`: `ProbeInv` says that a probe which is not shed reaches a
  decision; that decision is the deny of `unknown_operation` (`ProbeSentence`).

### Only model-checked

`EveryTaskAnswered`, `CloseReturns`, `HungHandlersBlockNobody`, `SinkProgress`,
`LastGenerationServed` and `ProcessExits` are liveness properties under fairness, which
is outside the prover. The four properties of the violation runs are false of the code.
The theorems are about the specifications without fairness, and so hold with it.

For the provers' sake some definitions have a form of their own: `SizeOf` and
`parseQueueFile` are recursive functions instead of loops; `NextBan` and `Bound` speak
of indices (the smallest index is the first entry of the list); the arms of a `CASE`
exclude each other; `None` names the empty string; and a record such as `Given` or
`Decision` is built by one operator, field by field.

## 6. Not modelled, and the plan

Not modelled: wording and layout of messages, findings and logs, and where the log is
shipped; the audit record's fields; the probe program; the JSON Schema and OpenAPI
validators themselves (libraries), with the compilation of a schema's text; YAML and
JSON decoding, sizes and durations; Redis and NATS clients beyond what they return. A
panic after a reply is published, in `audit.Add`, is not modelled; it would be answered
a second time.

What the code does in these cases is modelled, but no text says what it should do, so
no property does either: an overload outcome at 100 percent never fires in wait mode,
where nothing is shed for want of room; arguments that were not captured are checked
as empty, so a required parameter is a mismatch before `args_unavailable` is reached;
bindings of frames satisfy "schema.source is required" (`profile.go:928`) even when
frames are disabled, and every request of such a profile is then an unknown operation;
asks of an overload ride on a deny, on which other asks are refused; headers that the
store loses are no fault, so that a required header is then a mismatch on the client's
account and the policy judges it (`handler.go:354-357`), and a response without its
headers has no type and passes unchecked under `only_types` (`validate.go:149`). The
comments of `FaultIsAnError`, `CapturedBodyIsJudged` and `CheckedBodyConforms` name the
two cases of lost headers.

Next, in this order:

1. A refinement that shows the pool and the sink of `Process` to be `ReplyOnce` and an
   abstract sink, in place of the argument given above.
2. An abstract specification of the rollout (one generation in force, replaced as a
   whole) that `Generations` implements without hot reload.
3. Theorems about steps rather than states: that a reply, once sent, is final, and that
   a generation in force is only left for another one.
