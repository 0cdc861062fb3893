------------------------------ MODULE Inspect -------------------------------
(***************************************************************************)
(* One message through cmd/inspector/handler.go, from the NATS callback to *)
(* the reply: receive, the verdict of the queue (a worker's turn or a      *)
(* shed), inspect with its early returns, the list writes and the send.    *)
(*                                                                         *)
(* The queue between receive and evaluate is module Pool; here it is the   *)
(* choice of a shed reason and of the fill that Submit saw.  The store of  *)
(* profiles may be reloaded at any moment (module Generations), so the     *)
(* snapshot in force can change between any two steps; a tree that does    *)
(* not load (modules Profiles and Contracts) leaves the one in force.      *)
(***************************************************************************)
EXTENDS Decide

CONSTANTS
  Messages,   \* the messages that may arrive
  Trees,      \* the trees of profiles that may be on disk, by name
  Fills,      \* queue fill, in percent, that Submit may record
  MaxReloads  \* bound on the reloads while the message is handled

Phases   == {"request", "response", "frame"}
Parts    == {"headers", "body", "args"}

\* Where the bytes of a part are: an address is there, half there or missing.
Locator ==
  [kind: {"none", "unavailable", "located", "mixed"}, content: Contents,
   truncated: BOOLEAN, enc: {"none", "sealed", "foreign"}, sha: {"none", "whole", "processed"}]

\* A message of any kind names its parts, and the asks it brings are numbers.
IsMessage(m) ==
  /\ m.store \in [Parts -> Locator]
  /\ IsList(m.prior) /\ \A i \in DOMAIN m.prior : m.prior[i].delta \in Int

ASSUME InspectAssumption ==
  /\ \E t \in DOMAIN Trees : Loads(Trees[t])
  /\ \A t \in DOMAIN Trees : \A n \in DOMAIN Trees[t] :
       /\ IsProfile(Trees[t][n].profile)
       /\ \A f \in DOMAIN Trees[t][n].files : IsDocument(Trees[t][n].files[f])
  /\ \A m \in Messages : IsMessage(m)
  /\ Fills \subseteq 0..100
  /\ MaxReloads \in Nat

VARIABLES
  cur,      \* the tree whose snapshot is in force
  reloads,  \* reloads so far
  msg,      \* the message
  pc,       \* the step of the handler
  shed,     \* the shed reason the queue gave, or None
  fill,     \* Task.Fill
  view,     \* the tree of the snapshot inspect took, or None
  ask,      \* what the prior inspectors asked for
  got,      \* the loaded parts
  out,      \* the outcome of the checks
  dec,      \* the decision, scores scaled
  reply,    \* the reply under construction
  fired,    \* outcomes of the profile that fired, by index
  bans,     \* fired list writes still to be made
  lists,    \* list writes made
  lost,     \* list writes whose publication failed
  geoDown,  \* a list write failed for want of the network directory
  sent,     \* replies published for this message
  audited   \* replies handed to the audit sink

judgeVars == <<view, ask, got, out, dec>>
fireVars  == <<fired, bans, lists, lost, geoDown>>
queueVars == <<shed, fill>>
vars == <<cur, reloads, msg, pc, queueVars, judgeVars, reply, fireVars, sent, audited>>

\* What store.Current() may return: the snapshots, named after their trees.
Snapshot == [t \in {u \in DOMAIN Trees : Loads(Trees[u])} |-> Loaded(Trees[t])]

Reasons  == {"JSON_QUEUE_LIMIT", "JSON_DEADLINE_EXCEEDED"}
Verdicts == {"allow", "deny", "score", "error"}

NoDecision == Decision(None, 0, None, None, 0)

Reply(verdict, code, score, asks) ==
  [verdict |-> verdict, code |-> code, score |-> score, asks |-> asks, response |-> None]

NoReply          == Reply(None, None, 0, {})
ErrorReply(code) == Reply("error", code, 0, {})
plain(code)      == Reply("allow", code, 0, {})

Init ==
  /\ cur \in DOMAIN Snapshot /\ reloads = 0
  /\ msg \in Messages /\ pc = "receive"
  /\ shed = None /\ fill = 0
  /\ view = None /\ ask = [skip |-> FALSE, percent |-> 0]
  /\ got = [part \in Parts |-> NoBody] /\ out = NoStop /\ dec = NoDecision
  /\ reply = NoReply
  /\ fired = {} /\ bans = {} /\ lists = {} /\ lost = {} /\ geoDown = FALSE
  /\ sent = <<>> /\ audited = <<>>

-----------------------------------------------------------------------------
(* Publishing a reply: send.  Without a reply subject nothing happens;     *)
(* without the request (a fallback reply) there is nothing to audit.       *)

send(r, audit) ==
  /\ sent' = IF msg.subject THEN Append(sent, r) ELSE sent
  /\ audited' = IF msg.subject /\ audit THEN Append(audited, r) ELSE audited

\* The reply is built and the handler goes on to send it.
Answered(r) == reply' = r /\ pc' = "send"

-----------------------------------------------------------------------------
(* receive: protocol.Parse and the early replies.                          *)

\* Parse refuses an address that is half there, and a phase it does not know.
LocatorValid(loc) == loc.kind # "mixed"

Parse(m) ==
  /\ m.json /\ m.phase \in Phases
  /\ m.release \/ (\A part \in Parts : LocatorValid(m.store[part]))

\* The reply receive sends itself; None when the message goes on.
Refusal(m) ==
  CASE ~Parse(m)                   -> "JSON_MALFORMED_REQUEST"
    [] Parse(m) /\ ~m.supported    -> "JSON_UNSUPPORTED_VERSION"
    [] OTHER -> IF ~m.release /\ m.phase \notin Phases THEN "JSON_PHASE_NOT_SUPPORTED" ELSE None

\* Mutation of Refuse: the handler goes on after the reply.
RefuseGoesOn ==
  /\ pc = "receive" /\ Refusal(msg) # None
  /\ send(ErrorReply(Refusal(msg)), Parse(msg))
  /\ Answered(ErrorReply(Refusal(msg)))
  /\ UNCHANGED <<cur, reloads, msg, queueVars, judgeVars, fireVars>>

Refuse ==
  /\ pc = "receive" /\ Refusal(msg) # None
  /\ send(ErrorReply(Refusal(msg)), Parse(msg))
  /\ pc' = "done"
  /\ UNCHANGED <<cur, reloads, msg, queueVars, judgeVars, reply, fireVars>>

\* A release is only logged.
IgnoreRelease ==
  /\ pc = "receive" /\ Refusal(msg) = None /\ msg.release
  /\ pc' = "done"
  /\ UNCHANGED <<cur, reloads, msg, queueVars, judgeVars, reply, fireVars, sent, audited>>

Submit ==
  /\ pc = "receive" /\ Refusal(msg) = None /\ ~msg.release
  /\ fill' \in Fills
  /\ pc' = "queued"
  /\ UNCHANGED <<cur, reloads, msg, shed, judgeVars, reply, fireVars, sent, audited>>

-----------------------------------------------------------------------------
(* evaluate: what the queue made of the task.                              *)

\* Snapshot.Profile: the empty name is the default profile.
Named(m)    == IF m.profile = None THEN "default" ELSE m.profile
Known(t, m) == Named(m) \in DOMAIN Snapshot[t]

ProfileIn(t) == Snapshot[t][Named(msg)]

\* The profile that inspect took, and the section of it that speaks.
Profile == ProfileIn(view)
Section == SectionOf(Profile, msg)

\* overloadOnShed looks at the profile in force when the task is shed, and
\* only the limit of the queue is an overload.
OverloadOnShed(why) ==
  IF why = "JSON_QUEUE_LIMIT" /\ msg.phase = "request"
     /\ Known(cur, msg) /\ ProfileIn(cur).mode # "off"
    THEN FireOverload(ProfileIn(cur).request.outcomes, fill, TRUE, msg.addr)
    ELSE {}

AsksOf(outcomes, f) == {i \in f : Asks(outcomes[i])}
BansOf(outcomes, f) == {i \in f : ~Asks(outcomes[i])}

\* The shed reply keeps its asks even when a list write fails.
Shed ==
  /\ pc = "queued"
  /\ shed' \in Reasons
  /\ view' = IF Known(cur, msg) THEN cur ELSE None
  /\ fired' = OverloadOnShed(shed')
  /\ LET outcomes == IF fired' = {} THEN <<>> ELSE ProfileIn(cur).request.outcomes IN
     /\ reply' = Reply("error", shed', 0, AsksOf(outcomes, fired'))
     /\ bans' = BansOf(outcomes, fired')
  /\ pc' = "lists"
  /\ UNCHANGED <<cur, reloads, msg, fill, ask, got, out, dec, lists, lost, geoDown, sent, audited>>

\* One switch turns both directions of the frames on.
PhaseEnabled(p, m) == Enabled(p, SectionName(m))

\* inspect takes one snapshot and one profile from it, and keeps to them.
Lookup ==
  /\ pc = "queued"
  /\ LET p == ProfileIn(cur)
         a == EvaluatePrior(msg.prior, p.prior)
     IN  \/ /\ ~Known(cur, msg)
            /\ Answered(ErrorReply("JSON_UNKNOWN_PROFILE"))
            /\ UNCHANGED <<view, ask>>
         \/ /\ Known(cur, msg)
            /\ view' = cur
            /\ ask' = IF p.mode # "off" /\ PhaseEnabled(p, msg) THEN a ELSE ask
            /\ CASE p.mode = "off"        -> Answered(plain("JSON_PROFILE_OFF"))
                 [] p.mode # "off" /\ ~PhaseEnabled(p, msg) -> Answered(plain("JSON_PHASE_DISABLED"))
                 [] OTHER ->
                      IF a.skip THEN Answered(plain("JSON_SKIPPED"))
                      ELSE pc' = "load" /\ reply' = reply
  /\ UNCHANGED <<cur, reloads, msg, queueVars, got, out, dec, fireVars, sent, audited>>

-----------------------------------------------------------------------------
(* inspect proper: load, check, decide, fire.                              *)

\* A frame has no headers of its own, and only a request has arguments.
Wanted(m, part) ==
  IF (part = "headers" /\ m.phase = "frame") \/ (part = "args" /\ m.phase # "request")
    THEN [m.store[part] EXCEPT !.kind = "none"]
    ELSE m.store[part]

\* The store returns what was captured, nothing, or something else.
Raws(loc) == IF loc.kind = "located" THEN {loc.content, Miss, "garbage", "other"} ELSE {Miss}

LoadParts ==
  /\ pc = "load"
  /\ LET locs == [part \in Parts |-> Wanted(msg, part)] IN
     \E h \in Raws(locs.headers), b \in Raws(locs.body), a \in Raws(locs.args) :
        got' = LoadMany(locs, [headers |-> h, body |-> b, args |-> a])
  /\ pc' = "validate"
  /\ UNCHANGED <<cur, reloads, msg, queueVars, view, ask, out, dec, reply, fireVars, sent, audited>>

\* A fault is answered before any policy is asked.
RunChecks ==
  /\ pc = "validate"
  /\ out' = Run(Profile, msg, got)
  /\ IF out'.fault THEN Answered(ErrorReply("JSON_STORE_UNAVAILABLE"))
                   ELSE pc' = "decide" /\ reply' = reply
  /\ UNCHANGED <<cur, reloads, msg, queueVars, view, ask, got, dec, fireVars, sent, audited>>

\* The decision with its scores scaled by what the prior inspectors asked.
Scaled(d, percent) ==
  {Decision(d.verdict, s, d.code, d.would, w) :
     s \in IF d.verdict = "score" THEN ScaleScore(d.score, percent) ELSE {d.score},
     w \in IF d.would = "score" THEN ScaleScore(d.wouldScore, percent) ELSE {d.wouldScore}}

\* The response a deny names when its section has none.
defaultDenyResponse == "json_invalid"

denyResponseOf(name) == IF name = None THEN defaultDenyResponse ELSE name

\* A score out of 0..100 cannot be answered; a deny names the response to give.
ReplyOf(d, asks, denyResponse) ==
  IF d.verdict = "score" /\ d.score \notin 0..100
    THEN Reply("error", "JSON_INTERNAL_ERROR", 0, asks)
    ELSE [Reply(d.verdict, d.code, d.score, asks) EXCEPT
            !.response = IF d.verdict = "deny" THEN denyResponseOf(denyResponse) ELSE None]

\* Mutation of Judge: the policy is that of the profile in force by now.
JudgeByCurrent ==
  /\ pc = "decide"
  /\ LET p   == IF Known(cur, msg) THEN ProfileIn(cur) ELSE Profile
         sec == SectionOf(p, msg) IN
     /\ dec' \in Scaled(From(p.mode, SectionName(msg), sec.rules, out.outcome), ask.percent)
     /\ fired' = {} /\ bans' = {}
     /\ reply' = ReplyOf(dec', {}, sec.deny)
  /\ pc' = "lists"
  /\ UNCHANGED <<cur, reloads, msg, queueVars, view, ask, got, out, lists, lost, geoDown, sent, audited>>

Judge ==
  /\ pc = "decide"
  /\ LET sec == Section IN
     /\ dec' \in Scaled(From(Profile.mode, SectionName(msg), sec.rules, out.outcome), ask.percent)
     /\ fired' = Fire(sec.outcomes, dec', msg.addr) \cup
                 (IF msg.phase = "request"
                    THEN FireOverload(sec.outcomes, fill, FALSE, msg.addr) ELSE {})
     /\ reply' = ReplyOf(dec', AsksOf(sec.outcomes, fired'), sec.deny)
     /\ bans' = BansOf(sec.outcomes, fired')
  /\ pc' = "lists"
  /\ UNCHANGED <<cur, reloads, msg, queueVars, view, ask, got, out, lists, lost, geoDown, sent, audited>>

-----------------------------------------------------------------------------
(* writeLists: one write after the other, those of the verdict before      *)
(* those of the overload; a write by subnet or system needs the network    *)
(* directory, and one that fails does not stop the next.                   *)

Networked(o) == o.write \in {"net", "net_all", "asn"}

NextBan ==
  LET late == {i \in bans : Section.outcomes[i].on = "overload"}
  IN  Min(IF late # bans THEN bans \ late ELSE bans)

\* Mutation of WriteList: the first write that fails is the last.
WriteListStops ==
  /\ pc = "lists" /\ bans # {}
  /\ \/ lists' = lists \cup {NextBan} /\ bans' = bans \ {NextBan} /\ UNCHANGED <<lost, geoDown>>
     \/ /\ Networked(Section.outcomes[NextBan])
        /\ geoDown' = TRUE /\ bans' = {} /\ UNCHANGED <<lists, lost>>
     \/ lost' = lost \cup {NextBan} /\ bans' = {} /\ UNCHANGED <<lists, geoDown>>
  /\ UNCHANGED <<cur, reloads, msg, pc, queueVars, judgeVars, reply, fired, sent, audited>>

WriteList ==
  /\ pc = "lists" /\ bans # {}
  /\ bans' = bans \ {NextBan}
  /\ \/ lists' = lists \cup {NextBan} /\ UNCHANGED <<lost, geoDown>>
     \/ \* AddMany fails: logged, and passed over
        lost' = lost \cup {NextBan} /\ UNCHANGED <<lists, geoDown>>
     \/ \* the directory does not answer
        /\ Networked(Section.outcomes[NextBan])
        /\ geoDown' = TRUE /\ UNCHANGED <<lists, lost>>
     \/ \* the directory knows nothing about the address
        /\ Networked(Section.outcomes[NextBan])
        /\ UNCHANGED <<lists, lost, geoDown>>
  /\ UNCHANGED <<cur, reloads, msg, pc, queueVars, judgeVars, reply, fired, sent, audited>>

\* A verdict whose list writes could not be resolved becomes an error.
AfterLists(r, down) == IF down /\ shed = None THEN ErrorReply("JSON_GEO_UNAVAILABLE") ELSE r

ListsDone ==
  /\ pc = "lists" /\ bans = {}
  /\ Answered(AfterLists(reply, geoDown))
  /\ UNCHANGED <<cur, reloads, msg, queueVars, judgeVars, fireVars, sent, audited>>

Send ==
  /\ pc = "send"
  /\ send(reply, TRUE)
  /\ pc' = "done"
  /\ UNCHANGED <<cur, reloads, msg, queueVars, judgeVars, reply, fireVars>>

\* recoverInto, deferred in receive and in evaluate: a panic before the reply is
\* published becomes a fallback reply.  One that came after it, in audit.Add, would
\* be answered a second time: the model has none there.
Panic ==
  /\ pc # "done"
  /\ send(ErrorReply("JSON_INTERNAL_ERROR"), FALSE)
  /\ pc' = "done"
  /\ UNCHANGED <<cur, reloads, msg, queueVars, judgeVars, reply, fireVars>>

\* store.Reload or a new generation, whenever.
Reload ==
  /\ pc # "done" /\ reloads < MaxReloads
  /\ \E t \in DOMAIN Trees : cur' = IF t \in DOMAIN Snapshot THEN t ELSE cur
  /\ reloads' = reloads + 1
  /\ UNCHANGED <<msg, pc, queueVars, judgeVars, reply, fireVars, sent, audited>>

Quiet == pc = "done" /\ UNCHANGED vars

Next ==
  \/ Refuse \/ IgnoreRelease \/ Submit
  \/ Shed \/ Lookup
  \/ LoadParts \/ RunChecks \/ Judge
  \/ WriteList \/ ListsDone \/ Send
  \/ Panic \/ Reload \/ Quiet

Spec == Init /\ [][Next]_vars
-----------------------------------------------------------------------------
(* Properties.                                                             *)

\* What a decision is about: an outcome of the checks, or that it was observed.
DecisionCodes ==
  {None, "JSON_OBSERVE", "truncated", "too_large", "too_deep", "unparsable", "body_unavailable",
   "args_unavailable", "mismatch", "unknown_operation", "content_type", "status", "opcode"}

\* What a reply is about: a decision, an early return or an error.
ReplyCodes ==
  DecisionCodes \cup Reasons \cup
  {"JSON_MALFORMED_REQUEST", "JSON_UNSUPPORTED_VERSION", "JSON_PHASE_NOT_SUPPORTED",
   "JSON_UNKNOWN_PROFILE", "JSON_PROFILE_OFF", "JSON_PHASE_DISABLED", "JSON_SKIPPED",
   "JSON_STORE_UNAVAILABLE", "JSON_GEO_UNAVAILABLE", "JSON_INTERNAL_ERROR"}

\* The responses that the profiles name for a deny.
DenyResponses ==
  UNION {{SectionNamed(Snapshot[t][n], s).deny : n \in DOMAIN Snapshot[t], s \in Sections} :
           t \in DOMAIN Snapshot}

Decisions ==
  [verdict: Verdicts \cup {None}, score: 0..100, code: DecisionCodes,
   would: Verdicts \cup {None}, wouldScore: 0..100]

Replies == [verdict: Verdicts \cup {None}, code: ReplyCodes, score: 0..100, asks: SUBSET Nat,
            response: DenyResponses \cup {None, defaultDenyResponse}]

\* The variables of the handler keep their types.
TypeOK ==
  /\ cur \in DOMAIN Snapshot /\ reloads \in 0..MaxReloads
  /\ pc \in {"receive", "queued", "load", "validate", "decide", "lists", "send", "done"}
  /\ shed \in Reasons \cup {None} /\ fill \in Fills \cup {0}
  /\ view = None \/ (view \in DOMAIN Snapshot /\ Known(view, msg))
  /\ ask.skip \in BOOLEAN /\ ask.percent \in PercentMin..PercentMax
  /\ got \in [Parts -> Body] /\ out.fault \in BOOLEAN
  /\ dec \in Decisions /\ reply \in Replies
  /\ bans \subseteq fired /\ lists \cup lost \subseteq fired /\ geoDown \in BOOLEAN
  /\ sent \in Seq(Replies) /\ audited \in Seq(Replies)

Done     == pc = "done" /\ sent # <<>>
Answer   == sent[1]
Panicked == Done /\ Parse(msg) /\ audited = <<>>
RuleOf(outcome) == RuleFor(SectionName(msg), Section.rules, outcome)

\* Judged: the reply comes from the checks and the policy, not from an early
\* return, a shed or a panic.
Judged == Done /\ ~Panicked /\ dec # NoDecision

\* Whatever path a message takes through receive, the queue, the early returns
\* of inspect, a failing list write or a panic, it is answered exactly once
\* (handler.go: receive, evaluate, recoverInto); a message that names no reply
\* subject is not, nor is a release, but for a panic over it.  The audit tells of no
\* other reply.
AnsweredOnce ==
  /\ Len(sent) <= 1
  /\ pc = "done" /\ ~(msg.release /\ Panicked) =>
       (sent # <<>> <=> (msg.subject /\ (Refusal(msg) # None \/ ~msg.release)))
  /\ audited # <<>> => audited = sent

\* A body, or arguments, that a check needs and the store does not give up are an
\* error of the inspector, which no policy may turn into a verdict on the client,
\* and that error is given for nothing else (validate.go bodyState and requestPhase,
\* handler.go 203-212).  A binary frame is refused by its opcode, and a body that
\* stops the check is judged before the arguments.  The headers are the exception:
\* a blob the store loses is read as no headers at all, and the policy judges the
\* call without them (handler.go headers).
FaultIsAnError ==
  /\ Judged =>
       /\ got.body.fault => ~Section.body \/ (msg.phase = "frame" /\ msg.binary)
       /\ got.args.fault /\ msg.phase = "request" /\ Section.query /\ msg.argsSize =>
            Section.body /\ out.outcome \in
              {"truncated", "too_large", "too_deep", "unparsable", "body_unavailable"}
  /\ Done /\ Answer.code = "JSON_STORE_UNAVAILABLE" =>
       \/ got.body.fault /\ Section.body
       \/ got.args.fault /\ msg.phase = "request" /\ Section.query /\ msg.argsSize

\* The rule a captured document has to be judged by.
RuleOfContent(c) ==
  CASE c = "big" -> "truncated" [] c = "deep" -> "invalid" [] c = "garbage" -> "unparsable"

\* A captured body that is over the limits or does not parse is never let pass,
\* whatever the store returns in its place, unless the profile says so: its rule
\* allows, the type of the response is not checked, or it only observes.  The type
\* is the one in the headers as they were loaded: a response whose headers the store
\* has lost has none, and passes unchecked where only_types is given.  The digest in
\* the message, or the seal, is what ties document and capture together (body.go
\* finish); a truncated capture without a digest of its own is outside this.
CapturedBodyIsJudged ==
  LET loc == msg.store.body IN
  Judged /\ Answer.verdict = "allow" /\ Profile.mode = "enforce" /\ Section.body
    /\ loc.kind = "located" /\ loc.content \in {"big", "deep", "garbage"} /\ ~loc.truncated
    /\ (Digested(loc) \/ loc.enc # "none")
  => \/ Section.rules[RuleOfContent(loc.content)].action = "allow"
     \/ msg.phase = "response" /\ ~TypeAllowed(Section, msg, got)
     \/ msg.phase = "frame" /\ msg.binary /\ RuleOf("opcode").action = "allow"

\* An observing profile blocks nobody and still fires exactly the asks and the
\* list writes that the same profile would fire if it enforced (decide.go From
\* and Fire, handler.go effective).
ObserveIsADryRun ==
  Judged /\ Profile.mode = "observe" =>
    /\ Answer.verdict \in {"allow", "error"}
    /\ \E d \in Scaled(From("enforce", SectionName(msg), Section.rules, out.outcome), ask.percent) :
         fired = Fire(Section.outcomes, d, msg.addr) \cup
                 (IF msg.phase = "request"
                    THEN FireOverload(Section.outcomes, fill, FALSE, msg.addr) ELSE {})

\* A verdict against the client is the word of one profile of one snapshot,
\* though the store may be reloaded at any step: the mode and the rule are those
\* of the profile whose checks produced the outcome (handler.go inspect).
OneProfileDecides ==
  Done /\ Answer.verdict \in {"deny", "score"} =>
    /\ Profile.mode = "enforce"
    /\ RuleOf(out.outcome).action = Answer.verdict
    /\ out.outcome \in {"truncated", "too_large", "too_deep", "unparsable",
                        "body_unavailable", "opcode"} => Section.body

\* The asks of prior inspectors move a score within 0..100 and in the direction
\* they ask for, and never turn it into another verdict (prior.go ScaleScore,
\* protocol.go WithScore).
ScoresStayScores ==
  Judged /\ dec.verdict = "score" /\ ~geoDown =>
    /\ Answer.verdict = "score" /\ Answer.score \in 0..100
    /\ LET asked == RuleOf(out.outcome).score IN
       /\ ask.percent >= 0 => Answer.score >= asked
       /\ ask.percent <= 0 => Answer.score <= asked

\* A list write that fails does not cost the others their turn: each is published,
\* or its own publication failed, and only those by network may be passed over.  When
\* the network directory fails, the verdict is withdrawn with its asks; the reply to
\* a shed request is an error already and keeps them.  A publication that fails
\* withdraws nothing: the verdict and its asks stand (lists.go writeLists,
\* handler.go inspect and overloadOnShed).
ListWritesSettled ==
  Done /\ ~Panicked =>
    /\ \A i \in fired : \/ Asks(Section.outcomes[i]) \/ Networked(Section.outcomes[i])
                         \/ i \in lists \cup lost
    /\ dec # NoDecision /\ ~geoDown => Answer.verdict = dec.verdict
    /\ geoDown /\ shed = None => Answer.verdict = "error" /\ Answer.asks = {}
    /\ ~geoDown \/ shed # None => \A i \in fired : Asks(Section.outcomes[i]) => i \in Answer.asks

\* What Validate lets in, the handler can run: every outcome of the checks has a
\* rule of its own section with an action that is known (From would allow what
\* has none), a deny names the response of its section, never the one of last
\* resort, a call that a binding covers
\* finds its schema compiled, and the asks of a reply are ones the proxy can
\* follow: on an axis their verb takes, to one inspector where they switch one,
\* and with a deny only those for the record or of an overload (profile.go
\* Validate, Sources, validateOutcomeAsk; decide.go From and ask).
LoadedProfileRuns ==
  /\ Judged /\ out.outcome # "ok" =>
       /\ policy(out.outcome) \in Rules(SectionName(msg))
       /\ Section.rules[policy(out.outcome)].action \in Actions
  /\ Judged /\ Answer.verdict = "deny" => Section.deny # None /\ Answer.response = Section.deny
  /\ Judged /\ out.outcome = "unknown_operation" /\ Profile.kind = "jsonschema" =>
       IF msg.phase = "frame"
         THEN \A i \in DOMAIN Profile.frame.bindings :
                ~(FrameMatches(Profile.frame.bindings[i], msg, Direction(msg))
                  /\ discriminates(msg, Profile.frame.bindings[i]))
         ELSE \A i \in DOMAIN Profile.bindings : ~Matches(Profile.bindings[i], msg)
  /\ Done /\ ~Panicked => \A i \in Answer.asks :
       LET o == Section.outcomes[i] IN
       /\ Axis(o) \in outcomeVerbs[o.do]
       /\ controlVerb(o.do) => o.to \notin {None, "*"}
       /\ Answer.verdict = "deny" => recordVerb(o.do) \/ o.on = "overload"

\* The bindings that may speak for this message, and those that do.
Bindings == IF msg.phase = "frame" THEN Profile.frame.bindings ELSE Profile.bindings

Bound ==
  {i \in DOMAIN Bindings :
     IF msg.phase = "frame"
       THEN FrameMatches(Bindings[i], msg, Direction(msg)) /\ discriminates(msg, Bindings[i])
       ELSE Matches(Bindings[i], msg)}

\* A response that the description of its operation says nothing about.
Undescribed ==
  \A op \in Route(Profile, msg) : \A r \in responseFor(op, msg.status) :
    ~r.declares \/ ~Described(r.types, ContentType(msg, got))

\* A document passes the checks only if the one that was captured conforms to
\* the schema that the first of the profile's bindings for the call names, to
\* the main schema when none does, or to the operation: not if the store gives
\* another in its place, nor if the profile has been replaced since.  Left out
\* is what the profile leaves out: a type of response it does not check, and a
\* response its description says nothing about, both by the headers as they were
\* loaded, so that lost ones leave a response unchecked (schema: pick, pickFrame,
\* Request, Response; validate.go; body.go finish).
CheckedBodyConforms ==
  LET loc == msg.store.body IN
  Judged /\ out.outcome \in {"ok", "args_unavailable"} /\ Section.body
    /\ loc.kind = "located" /\ loc.content \in {"json", "blank"} /\ Digested(loc)
  => \/ msg.phase = "response" /\ ~TypeAllowed(Section, msg, got)
     \/ Profile.kind = "openapi" /\ ("body" \in msg.fits \/ (msg.phase = "response" /\ Undescribed))
     \/ /\ Profile.kind = "jsonschema" /\ loc.content = "json"
        /\ \/ Bound = {} /\ Profile.source \in msg.conforms
           \/ \E i \in Bound : Bindings[i].schema \in msg.conforms /\ (\A k \in Bound : i <= k)

\* profiles/_probe as it is shipped: no main schema, and a deny for what is not bound.
ProbeProfile(p) ==
  /\ p.mode = "enforce" /\ p.kind = "jsonschema" /\ p.source = None /\ p.prior = <<>>
  /\ p.request.enabled /\ p.request.body /\ p.request.outcomes = <<>>
  /\ p.request.rules["unknown_operation"].action = "deny"

\* The request of cmd/probe brings no body and no arguments.
ProbeMessage(m) == m.phase = "request" /\ m.store.body.kind = "none" /\ ~m.argsSize

\* Every snapshot has the profile, and the probe calls a path it does not bind.
ProbeShipped ==
  /\ \A t \in DOMAIN Snapshot : "_probe" \in DOMAIN Snapshot[t] /\ ProbeProfile(Snapshot[t]["_probe"])
  /\ \A m \in Messages : m.profile = "_probe" =>
       /\ ProbeMessage(m)
       /\ \A t \in DOMAIN Snapshot : \A i \in DOMAIN Snapshot[t]["_probe"].bindings :
            ~Matches(Snapshot[t]["_probe"].bindings[i], m)

\* profiles/_probe: "A reserved name: a message with it must get deny."  The probe
\* calls a path no binding covers, and hears it from a worker that has judged it
\* by the loaded profile, whatever generation is in force (cmd/probe, profile.go
\* defaults, jsonschema.go pick); only a shed or a panic answers otherwise.
ProbeIsDenied ==
  Done /\ ~Panicked /\ Refusal(msg) = None /\ shed = None /\ msg.profile = "_probe" =>
    Answer.verdict = "deny"

\* README.md: a route whose profile is missing is denied.
MissingProfileIsDenied ==
  Done /\ ~Panicked /\ Refusal(msg) = None /\ shed = None /\ (\A t \in DOMAIN Snapshot : ~Known(t, msg)) =>
    Answer.verdict = "deny"

\* INSTALL.md: without a store every body is unavailable, and the policy decides.
PolicyDecidesWithoutStore ==
  Done /\ ~Panicked /\ ~StoreConfigured /\ got.body.unavailable /\ Section.body
    /\ ~(msg.phase = "frame" /\ msg.binary) /\ Profile.mode = "enforce" =>
    Answer.verdict = RuleOf("body_unavailable").action
=============================================================================
