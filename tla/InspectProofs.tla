--------------------------- MODULE InspectProofs ----------------------------
(***************************************************************************)
(* Proofs about module Inspect, for every tree of profiles, every message, *)
(* every fill of the queue and any number of reloads.                      *)
(***************************************************************************)
EXTENDS Inspect, FiniteSetTheorems, WellFoundedInduction, TLAPS

(***************************************************************************)
(* The inductive invariant, part by part.                                  *)
(***************************************************************************)

\* The steps of the handler, and those before anything is decided.
Steps == {"receive", "queued", "load", "validate", "decide", "lists", "send", "done"}
Early == {"receive", "queued", "load", "validate", "decide"}

\* The message is one that is answered at all.
Answerable == msg.subject /\ (Refusal(msg) # None \/ ~msg.release)

\* Nothing is said before the last step, and at most one thing in it; a message
\* that is refused goes no further than receive, and only a panic answers a release.
ControlInv ==
  /\ pc \in Steps
  /\ pc \notin {"receive", "done"} => Refusal(msg) = None /\ ~msg.release
  /\ pc # "done" => sent = <<>> /\ audited = <<>>
  /\ pc = "done" /\ Answerable => sent = <<sent[1]>> /\ audited \in {<<>>, sent}
  /\ pc = "done" /\ ~Answerable =>
       /\ audited = <<>>
       /\ sent = <<>> \/ (sent = <<sent[1]>> /\ msg.release /\ Refusal(msg) = None)

\* The snapshot that inspect took, its profile, and the section that speaks.
Taken ==
  /\ view \in DOMAIN Snapshot /\ Known(view, msg)
  /\ Profile.mode # "off" /\ PhaseEnabled(Profile, msg)

\* Every part is what its locator loads to.
Fetched ==
  /\ got = [part \in Parts |-> got[part]]
  /\ \A part \in Parts : \E raw \in Raws(Wanted(msg, part)) :
       got[part] = Load(Wanted(msg, part), raw)

\* The outcome is that of the checks, and the checks could be made.
Checked == out = Run(Profile, msg, got) /\ ~out.fault

\* Nothing is decided, and nothing fired.
Unspoken ==
  /\ dec = NoDecision /\ shed = None
  /\ fired = {} /\ bans = {} /\ lists = {} /\ lost = {} /\ geoDown = FALSE

\* What each step of inspect may rely on.
StageInv ==
  /\ pc \in Early \/ Refusal(msg) # None \/ msg.release => Unspoken
  /\ pc \in {"load", "validate", "decide"} => Taken
  /\ pc \in {"validate", "decide"} => Fetched
  /\ pc = "decide" => Checked

\* The outcomes that a decision fires.
FiredBy(d) ==
  Fire(Section.outcomes, d, msg.addr) \cup
  (IF msg.phase = "request" THEN FireOverload(Section.outcomes, fill, FALSE, msg.addr) ELSE {})

\* The reply that the decision makes, before the lists are written.
Drafted == ReplyOf(dec, AsksOf(Section.outcomes, fired), Section.deny)

\* The reply is out, and it is not that of a panic.
Told == Done /\ audited # <<>>

\* The decision is that of the profile the checks were made by, and fired its outcomes.
Sentence ==
  /\ Taken /\ Fetched /\ Checked /\ shed = None
  /\ dec \in Scaled(From(Profile.mode, SectionName(msg), Section.rules, out.outcome), ask.percent)
  /\ fired = FiredBy(dec)

\* A decision is made by the profile that inspect took, and the reply says it.
JudgedInv ==
  dec # NoDecision =>
    /\ Sentence
    /\ pc = "lists" => reply = Drafted
    /\ pc = "send" => reply = AfterLists(Drafted, geoDown)
    /\ Told => sent[1] = AfterLists(Drafted, geoDown)

\* Without a decision nobody is blocked, and a panic says nothing of the client.
SilentInv ==
  /\ dec = NoDecision /\ pc \in {"lists", "send"} => reply.verdict \in {"allow", "error"}
  /\ dec = NoDecision /\ Done => sent[1].verdict \in {"allow", "error"}
  /\ Done /\ audited = <<>> => sent[1].verdict = "error"

\* A reply says what the list writes came to.
Honest(r) ==
  /\ geoDown /\ shed = None => r.verdict = "error" /\ r.asks = {}
  /\ ~geoDown \/ shed # None => \A i \in fired : Asks(Section.outcomes[i]) => i \in r.asks

\* An outcome that fired is an ask of the reply, or a write that is still to be
\* made, has been made, was lost, or could not be for want of the network directory.
ListInv ==
  /\ pc \in {"lists", "send"} \/ Told =>
       \A i \in fired : \/ Asks(Section.outcomes[i]) \/ Networked(Section.outcomes[i])
                        \/ i \in lists \cup lost \cup bans
  /\ pc = "send" \/ Told => bans = {}
  /\ pc = "lists" => \A i \in fired : Asks(Section.outcomes[i]) => i \in reply.asks
  /\ pc = "send" => Honest(reply)
  /\ Told => Honest(sent[1])

\* The handler of one message, whatever is reloaded meanwhile.
HandlerInv ==
  /\ cur \in DOMAIN Snapshot /\ msg \in Messages
  /\ ControlInv /\ StageInv /\ JudgedInv /\ SilentInv /\ ListInv

-----------------------------------------------------------------------------
\* The empty string is none of the words that mean something.
LEMMA NoneIsNothing ==
  /\ None \notin Actions /\ None \notin Verdicts /\ None \notin Reasons
  /\ None # "score" /\ None # "observe"
  /\ None # "JSON_MALFORMED_REQUEST" /\ None # "JSON_UNSUPPORTED_VERSION"
BY Zenon DEF None, Actions, Verdicts, Reasons

\* A message that goes on has been parsed.
LEMMA ParsedOrRefused ==
  ASSUME NEW m, ~Parse(m)
  PROVE  Refusal(m) # None
<1>1. Refusal(m) = "JSON_MALFORMED_REQUEST"
  BY DEF Refusal
<1> QED
  BY <1>1, NoneIsNothing

-----------------------------------------------------------------------------
(* AnsweredOnce.                                                           *)

\* A reply appended to none is the only one.
LEMMA OneReply ==
  ASSUME NEW r
  PROVE  /\ Append(<<>>, r) = <<r>>
         /\ <<r>>[1] = r
         /\ Len(<<r>>) = 1
         /\ <<r>> # <<>>
<1>1. << >> \in Seq({r})
  OBVIOUS
<1> QED
  BY <1>1

\* What send does in the step that ends the handling of a message.
LEMMA SendOnce ==
  ASSUME ControlInv, pc # "done", NEW r, NEW audit, send(r, audit), pc' = "done", msg' = msg,
         Refusal(msg) # None \/ ~msg.release
  PROVE  ControlInv'
<1>1. sent = <<>> /\ audited = <<>>
  BY DEF ControlInv
<1>2. Answerable' <=> msg.subject
  BY DEF Answerable
<1>3. CASE msg.subject
  <2>1. sent' = <<r>> /\ audited' = IF audit THEN <<r>> ELSE <<>>
    BY <1>1, <1>3, OneReply DEF send
  <2> QED
    BY <2>1, <1>2, <1>3, OneReply DEF ControlInv, Steps
<1>4. CASE ~msg.subject
  <2>1. sent' = <<>> /\ audited' = <<>>
    BY <1>1, <1>4 DEF send
  <2> QED
    BY <2>1, <1>2, <1>4 DEF ControlInv, Steps
<1> QED
  BY <1>3, <1>4

\* The one reply to a message that panics is not audited.
LEMMA PanicOnce ==
  ASSUME ControlInv, Panic
  PROVE  ControlInv'
<1> DEFINE r == ErrorReply("JSON_INTERNAL_ERROR")
<1>1. sent = <<>> /\ audited = <<>> /\ pc' = "done" /\ msg' = msg
  BY DEF ControlInv, Panic
<1>2. sent' = (IF msg.subject THEN <<r>> ELSE <<>>) /\ audited' = <<>>
  BY <1>1, OneReply DEF Panic, send
<1> HIDE DEF r
<1>3. Answerable' <=> msg.subject /\ (Refusal(msg) # None \/ ~msg.release)
  BY <1>1 DEF Answerable
<1>4. CASE msg.subject
  <2>1. sent' = <<sent'[1]>>
    BY <1>2, <1>4, OneReply
  <2> QED
    BY <1>1, <1>2, <1>3, <1>4, <2>1 DEF ControlInv, Steps
<1>5. CASE ~msg.subject
  BY <1>1, <1>2, <1>3, <1>5 DEF ControlInv, Steps
<1> QED
  BY <1>4, <1>5

\* Every step keeps to what may have been said when.
LEMMA ControlKept ==
  ASSUME ControlInv, [Next]_vars
  PROVE  ControlInv'
<1>1. CASE Refuse
  BY <1>1, SendOnce DEF Refuse
<1>2. CASE IgnoreRelease
  <2>1. /\ pc = "receive" /\ Refusal(msg) = None /\ msg.release /\ pc' = "done" /\ msg' = msg
        /\ sent' = sent /\ audited' = audited
    BY <1>2 DEF IgnoreRelease
  <2> QED
    BY <2>1 DEF ControlInv, Answerable, Steps
<1>3. CASE Submit
  <2>1. /\ Refusal(msg) = None /\ ~msg.release /\ pc' = "queued" /\ msg' = msg /\ pc = "receive"
        /\ sent' = sent /\ audited' = audited
    BY <1>3 DEF Submit
  <2> QED
    BY <2>1 DEF ControlInv, Steps
<1>4. CASE Shed \/ Lookup \/ LoadParts \/ RunChecks \/ Judge \/ WriteList \/ ListsDone
  <2>1. /\ pc \notin {"receive", "done"} /\ pc' \in Steps \ {"receive", "done"} /\ msg' = msg
        /\ sent' = sent /\ audited' = audited
    <3>1. CASE Shed
      BY <3>1 DEF Shed, Steps
    <3>2. CASE Lookup
      BY <3>2 DEF Lookup, Steps, Answered
    <3>3. CASE LoadParts
      BY <3>3 DEF LoadParts, Steps
    <3>4. CASE RunChecks
      BY <3>4 DEF RunChecks, Steps, Answered
    <3>5. CASE Judge
      BY <3>5 DEF Judge, Steps
    <3>6. CASE WriteList
      BY <3>6 DEF WriteList, Steps
    <3>7. CASE ListsDone
      BY <3>7 DEF ListsDone, Steps, Answered
    <3> QED
      BY <1>4, <3>1, <3>2, <3>3, <3>4, <3>5, <3>6, <3>7
  <2> QED
    BY <2>1 DEF ControlInv
<1>5. CASE Send
  BY <1>5, SendOnce DEF Send, ControlInv
<1>6. CASE Panic
  BY <1>6, PanicOnce
<1>7. CASE Reload \/ Quiet \/ UNCHANGED vars
  <2>1. pc' = pc /\ msg' = msg /\ sent' = sent /\ audited' = audited
    BY <1>7 DEF Reload, Quiet, vars
  <2> QED
    BY <2>1 DEF ControlInv, Answerable
<1> QED
  BY <1>1, <1>2, <1>3, <1>4, <1>5, <1>6, <1>7 DEF Next

\* Nothing has been said when a message arrives.
LEMMA ControlInit ==
  ASSUME Init
  PROVE  ControlInv
<1>1. pc = "receive" /\ sent = <<>> /\ audited = <<>>
  BY Zenon DEF Init
<1> QED
  BY <1>1 DEF ControlInv, Steps

\* Whatever path a message takes, it is answered once (handler.go).
THEOREM RepliesOnce == Spec => []AnsweredOnce
<1>1. Init => ControlInv
  BY ControlInit
<1>2. ControlInv /\ [Next]_vars => ControlInv'
  BY ControlKept
<1>3. ControlInv => AnsweredOnce
  <2> SUFFICES ASSUME ControlInv PROVE AnsweredOnce
    OBVIOUS
  <2>1. CASE sent = <<>> /\ audited = <<>>
    <3>1. Len(<<>>) <= 1
      OBVIOUS
    <3>2. pc = "done" => ~Answerable
      BY <2>1, OneReply DEF ControlInv
    <3>3. pc = "done" => ~(msg.subject /\ (Refusal(msg) # None \/ ~msg.release))
      BY <3>2 DEF Answerable
    <3> QED
      BY <2>1, <3>1, <3>3, Zenon DEF AnsweredOnce
  <2>2. CASE pc = "done" /\ Answerable
    <3>1. Len(sent) = 1 /\ sent # <<>> /\ audited \in {<<>>, sent}
      BY <2>2, OneReply DEF ControlInv
    <3>2. Len(sent) <= 1
      BY <3>1
    <3>3. msg.subject /\ (Refusal(msg) # None \/ ~msg.release)
      BY <2>2 DEF Answerable
    <3> QED
      BY <3>1, <3>2, <3>3, Zenon DEF AnsweredOnce
  <2>3. CASE pc = "done" /\ ~Answerable /\ sent # <<>>
    <3>1. sent = <<sent[1]>> /\ audited = <<>> /\ msg.release /\ Refusal(msg) = None
      BY <2>3 DEF ControlInv
    <3>2. PICK r : sent = <<r>>
      BY <3>1
    <3>3. Len(sent) = 1
      BY <3>2, OneReply, Zenon
    <3>4. Len(sent) <= 1
      BY <3>3
    <3>5. Panicked
      BY <2>3, <3>1, ParsedOrRefused DEF Panicked, Done
    <3> QED
      BY <3>1, <3>4, <3>5, Zenon DEF AnsweredOnce
  <2> QED
    BY <2>1, <2>2, <2>3 DEF ControlInv
<1> QED
  BY <1>1, <1>2, <1>3, PTL DEF Spec

-----------------------------------------------------------------------------
(* What a decision is.                                                     *)

\* A rule that is found does something that is known.
LEMMA RuleActs ==
  ASSUME NEW section, NEW rules, NEW outcome
  PROVE  RuleFor(section, rules, outcome).action \in Actions
<1>1. Allow.action = "allow" /\ "allow" \in Actions
  BY DEF Allow, Rule, Actions
<1> QED
  BY <1>1 DEF RuleFor

\* The three ways to decide: nothing is wrong, the rule speaks, or it would have.
LEMMA FromCases ==
  ASSUME NEW mode, NEW section, NEW rules, NEW outcome
  PROVE  LET rule  == RuleFor(section, rules, outcome)
             score == IF rule.action = "score" THEN rule.score ELSE 0
             d     == From(mode, section, rules, outcome)
         IN  \/ outcome = "ok" /\ d = Decision("allow", 0, None, None, 0)
             \/ /\ outcome # "ok" /\ (mode # "observe" \/ rule.action = "allow")
                /\ d = Decision(rule.action, score, outcome, None, 0)
             \/ /\ outcome # "ok" /\ mode = "observe" /\ rule.action # "allow"
                /\ d = Decision("allow", 0, "JSON_OBSERVE", rule.action, score)
BY DEF From

\* A score is scaled, the rest of the decision stays.
LEMMA ScaledIs ==
  ASSUME NEW v, NEW s, NEW c, NEW w, NEW ws, NEW percent,
         NEW d \in Scaled(Decision(v, s, c, w, ws), percent)
  PROVE  \E x, y :
           /\ d = Decision(v, x, c, w, y)
           /\ v = "score" => x \in ScaleScore(s, percent)
           /\ v # "score" => x = s
           /\ w = "score" => y \in ScaleScore(ws, percent)
           /\ w # "score" => y = ws
<1> DEFINE D == Decision(v, s, c, w, ws)
<1>1. D.verdict = v /\ D.score = s /\ D.code = c /\ D.would = w /\ D.wouldScore = ws
  BY DEF Decision
<1>2. d \in Scaled(D, percent)
  OBVIOUS
<1> HIDE DEF D
<1>3. PICK x \in (IF v = "score" THEN ScaleScore(s, percent) ELSE {s}),
           y \in (IF w = "score" THEN ScaleScore(ws, percent) ELSE {ws}) :
           d = Decision(v, x, c, w, y)
  BY <1>1, <1>2 DEF Scaled
<1> QED
  BY <1>3

\* The same, field by field.
LEMMA ScaledFields ==
  ASSUME NEW v, NEW s, NEW c, NEW w, NEW ws, NEW percent,
         NEW d \in Scaled(Decision(v, s, c, w, ws), percent)
  PROVE  /\ d.verdict = v /\ d.would = w /\ d.code = c
         /\ v = "score" => d.score \in ScaleScore(s, percent)
         /\ v # "score" => d.score = s
<1>1. PICK x, y :
        /\ d = Decision(v, x, c, w, y)
        /\ v = "score" => x \in ScaleScore(s, percent)
        /\ v # "score" => x = s
  BY ScaledIs
<1>2. d.verdict = v /\ d.would = w /\ d.code = c /\ d.score = x
  BY <1>1 DEF Decision
<1> QED
  BY <1>1, <1>2

\* A verdict is always given.
LEMMA Decided ==
  ASSUME NEW mode, NEW section, NEW rules, NEW outcome, NEW percent,
         NEW d \in Scaled(From(mode, section, rules, outcome), percent)
  PROVE  d.verdict \in Actions /\ d # NoDecision
<1>1. NoDecision.verdict = None /\ None \notin Actions /\ "allow" \in Actions
  BY NoneIsNothing DEF NoDecision, Decision, Actions
<1>2. d.verdict \in Actions
  <2> DEFINE rule  == RuleFor(section, rules, outcome)
             score == IF rule.action = "score" THEN rule.score ELSE 0
             F     == From(mode, section, rules, outcome)
  <2>1. rule.action \in Actions
    BY RuleActs
  <2>2. \/ F = Decision("allow", 0, None, None, 0)
        \/ F = Decision(rule.action, score, outcome, None, 0)
        \/ F = Decision("allow", 0, "JSON_OBSERVE", rule.action, score)
    BY FromCases
  <2>3. d \in Scaled(F, percent)
    OBVIOUS
  <2> HIDE DEF rule, score, F
  <2>4. CASE F = Decision("allow", 0, None, None, 0)
    BY <2>3, <2>4, <1>1, ScaledFields
  <2>5. CASE F = Decision(rule.action, score, outcome, None, 0)
    BY <2>3, <2>5, <2>1, ScaledFields
  <2>6. CASE F = Decision("allow", 0, "JSON_OBSERVE", rule.action, score)
    BY <2>3, <2>6, <1>1, ScaledFields
  <2> QED
    BY <2>2, <2>4, <2>5, <2>6
<1> QED
  BY <1>1, <1>2

-----------------------------------------------------------------------------
(* The snapshot that was taken, and what of it stays.                      *)

\* The profile depends on nothing but what inspect took and the message.
LEMMA SameSection ==
  ASSUME view' = view, msg' = msg
  PROVE  /\ Profile' = Profile /\ Section' = Section
         /\ Taken' <=> Taken
BY DEF Profile, Section, ProfileIn, Taken, Known

\* ... and the checks on no more than the parts besides.
LEMMA SameChecks ==
  ASSUME view' = view, msg' = msg, got' = got
  PROVE  (Fetched' <=> Fetched) /\ (out' = out => (Checked' <=> Checked))
BY SameSection DEF Fetched, Checked

\* Nothing is decided and nothing fired as long as those variables stay.
LEMMA SameSilence ==
  ASSUME Unspoken, dec' = dec, shed' = shed, fireVars' = fireVars
  PROVE  Unspoken'
BY DEF Unspoken, fireVars

\* A profile that is on and whose phase is enabled is loaded by.
LEMMA LookupTakes ==
  ASSUME Lookup, pc' = "load", cur \in DOMAIN Snapshot
  PROVE  Taken'
<1>1. /\ Known(cur, msg) /\ view' = cur /\ msg' = msg
      /\ ProfileIn(cur).mode # "off" /\ PhaseEnabled(ProfileIn(cur), msg)
  BY DEF Lookup, Answered
<1> QED
  BY <1>1 DEF Taken, Profile, Known, ProfileIn

\* What is loaded is what the locators of the message say.
LEMMA LoadFetches ==
  ASSUME LoadParts
  PROVE  Fetched'
<1> DEFINE locs == [part \in Parts |-> Wanted(msg, part)]
<1>1. PICK h \in Raws(locs.headers), b \in Raws(locs.body), a \in Raws(locs.args) :
        got' = LoadMany(locs, [headers |-> h, body |-> b, args |-> a])
  BY DEF LoadParts
<1>2. DOMAIN locs = Parts /\ \A part \in Parts : locs[part] = Wanted(msg, part)
  OBVIOUS
<1>3. msg' = msg
  BY DEF LoadParts
<1> DEFINE raws == [headers |-> h, body |-> b, args |-> a]
<1>4. \A part \in Parts : raws[part] \in Raws(Wanted(msg, part))
  BY <1>1 DEF Parts
<1>5. got' = [part \in Parts |-> Load(Wanted(msg, part), raws[part])]
  BY <1>1, <1>2 DEF LoadMany
<1> HIDE DEF raws
<1> QED
  BY <1>3, <1>4, <1>5 DEF Fetched

\* Checks that could be made are decided upon.
LEMMA ChecksHold ==
  ASSUME RunChecks, pc' = "decide"
  PROVE  Checked'
<1>1. /\ out' = Run(Profile, msg, got) /\ view' = view /\ msg' = msg /\ got' = got
  BY DEF RunChecks
<1>2. ~out'.fault
  BY DEF RunChecks, Answered
<1> QED
  BY <1>1, <1>2, SameSection DEF Checked

\* Every step leaves the next what that one relies on.
LEMMA StageKept ==
  ASSUME ControlInv, StageInv, cur \in DOMAIN Snapshot, [Next]_vars
  PROVE  StageInv'
<1>1. pc \notin {"receive", "done"} => Refusal(msg) = None /\ ~msg.release
  BY DEF ControlInv
<1>2. CASE Refuse \/ IgnoreRelease \/ Submit \/ (Panic /\ pc = "receive")
  <2>1. /\ pc = "receive" /\ pc' \in {"queued", "done"} /\ msg' = msg
        /\ dec' = dec /\ shed' = shed /\ fireVars' = fireVars
    BY <1>2 DEF Refuse, IgnoreRelease, Submit, Panic, judgeVars, queueVars, fireVars
  <2>2. Unspoken'
    BY <2>1, SameSilence DEF StageInv, Early
  <2> QED
    BY <2>1, <2>2 DEF StageInv
<1>3. CASE Shed \/ Judge \/ WriteList \/ ListsDone \/ Send \/ (Panic /\ pc # "receive")
  <2>1. /\ pc \notin {"receive", "done"} /\ pc' \in {"lists", "send", "done"} /\ msg' = msg
    BY <1>3 DEF Shed, Judge, WriteList, ListsDone, Send, Panic, Answered
  <2> QED
    BY <1>1, <2>1 DEF StageInv, Early
<1>4. CASE Lookup
  <2>1. /\ pc = "queued" /\ pc' \in {"send", "load"} /\ msg' = msg
        /\ dec' = dec /\ shed' = shed /\ fireVars' = fireVars
    BY <1>4 DEF Lookup, queueVars, fireVars, Answered
  <2>2. Unspoken'
    BY <2>1, SameSilence DEF StageInv, Early
  <2>3. pc' = "load" => Taken'
    BY <1>4, LookupTakes
  <2> QED
    BY <2>1, <2>2, <2>3 DEF StageInv
<1>5. CASE LoadParts
  <2>1. /\ pc = "load" /\ pc' = "validate" /\ msg' = msg /\ view' = view
        /\ dec' = dec /\ shed' = shed /\ fireVars' = fireVars
    BY <1>5 DEF LoadParts, queueVars, fireVars
  <2>2. Unspoken'
    BY <2>1, SameSilence DEF StageInv, Early
  <2>3. Taken' /\ Fetched'
    BY <1>5, <2>1, SameSection, LoadFetches DEF StageInv
  <2> QED
    BY <2>1, <2>2, <2>3 DEF StageInv
<1>6. CASE RunChecks
  <2>1. /\ pc = "validate" /\ pc' \in {"send", "decide"} /\ msg' = msg /\ view' = view
        /\ got' = got /\ dec' = dec /\ shed' = shed /\ fireVars' = fireVars
    BY <1>6 DEF RunChecks, queueVars, fireVars, Answered
  <2>2. Unspoken'
    BY <2>1, SameSilence DEF StageInv, Early
  <2>3. Taken' /\ Fetched'
    BY <2>1, SameSection, SameChecks DEF StageInv
  <2>4. pc' = "decide" => Checked'
    BY <1>6, ChecksHold
  <2> QED
    BY <2>1, <2>2, <2>3, <2>4 DEF StageInv
<1>7. CASE Reload \/ Quiet \/ UNCHANGED vars
  <2>1. /\ pc' = pc /\ msg' = msg /\ view' = view /\ got' = got /\ out' = out
        /\ dec' = dec /\ shed' = shed /\ fireVars' = fireVars
    BY <1>7 DEF Reload, Quiet, vars, judgeVars, queueVars, fireVars
  <2>2. Unspoken => Unspoken'
    BY <2>1, SameSilence
  <2>3. (Taken' <=> Taken) /\ (Fetched' <=> Fetched) /\ (Checked' <=> Checked)
    BY <2>1, SameSection, SameChecks
  <2> QED
    BY <2>1, <2>2, <2>3 DEF StageInv
<1> QED
  BY <1>2, <1>3, <1>4, <1>5, <1>6, <1>7 DEF Next

\* A sentence stands, and so does the reply drafted from it.
LEMMA SameSentence ==
  ASSUME judgeVars' = judgeVars, msg' = msg, queueVars' = queueVars, fired' = fired
  PROVE  /\ Sentence' <=> Sentence
         /\ Drafted' = Drafted
         /\ geoDown' = geoDown => AfterLists(Drafted, geoDown)' = AfterLists(Drafted, geoDown)
<1>1. /\ view' = view /\ ask' = ask /\ got' = got /\ out' = out /\ dec' = dec
      /\ shed' = shed /\ fill' = fill
  BY DEF judgeVars, queueVars
<1>2. Profile' = Profile /\ Section' = Section /\ (Taken' <=> Taken)
  BY <1>1, SameSection
<1>3. (Fetched' <=> Fetched) /\ (Checked' <=> Checked)
  BY <1>1, SameChecks
<1>4. FiredBy(dec)' = FiredBy(dec)
  BY <1>1, <1>2 DEF FiredBy
<1>5. Drafted' = Drafted
  BY <1>1, <1>2 DEF Drafted
<1>6. geoDown' = geoDown => AfterLists(Drafted, geoDown)' = AfterLists(Drafted, geoDown)
  BY <1>1, <1>5 DEF AfterLists
<1> QED
  BY <1>1, <1>2, <1>3, <1>4, <1>5, <1>6 DEF Sentence

\* What Send and Panic put out is the one reply there is.
LEMMA SentReply ==
  ASSUME ControlInv, pc # "done", NEW r, NEW audit \in BOOLEAN, send(r, audit)
  PROVE  /\ sent' # <<>> => sent' = <<r>> /\ sent'[1] = r
         /\ ~audit => audited' = <<>>
         /\ audit /\ sent' # <<>> => audited' # <<>>
<1>1. sent = <<>> /\ audited = <<>>
  BY DEF ControlInv
<1>2. CASE msg.subject
  BY <1>1, <1>2, OneReply DEF send
<1>3. CASE ~msg.subject
  BY <1>1, <1>3 DEF send
<1> QED
  BY <1>2, <1>3

\* Every step keeps the reply to the decision and the decision to the profile.
LEMMA JudgedKept ==
  ASSUME ControlInv, StageInv, JudgedInv, [Next]_vars
  PROVE  JudgedInv'
<1>1. pc \in Early => dec = NoDecision
  BY DEF StageInv, Unspoken
<1>2. CASE Refuse \/ IgnoreRelease \/ Submit \/ Shed \/ Lookup \/ LoadParts \/ RunChecks
  <2>1. pc \in Early /\ dec' = dec
    <3>1. CASE Refuse \/ IgnoreRelease \/ Submit
      BY <3>1 DEF Refuse, IgnoreRelease, Submit, Early, judgeVars
    <3>2. CASE Shed \/ Lookup
      BY <3>2 DEF Shed, Lookup, Early
    <3>3. CASE LoadParts \/ RunChecks
      BY <3>3 DEF LoadParts, RunChecks, Early
    <3> QED
      BY <1>2, <3>1, <3>2, <3>3
  <2> QED
    BY <1>1, <2>1 DEF JudgedInv, NoDecision, Decision
<1>3. CASE Judge
  <2>1. /\ pc = "decide" /\ pc' = "lists" /\ msg' = msg /\ view' = view /\ ask' = ask
        /\ got' = got /\ out' = out /\ shed' = shed /\ fill' = fill
    BY <1>3 DEF Judge, queueVars
  <2>2. /\ dec' \in Scaled(From(Profile.mode, SectionName(msg), Section.rules, out.outcome), ask.percent)
        /\ fired' = Fire(Section.outcomes, dec', msg.addr) \cup
                 (IF msg.phase = "request"
                    THEN FireOverload(Section.outcomes, fill, FALSE, msg.addr) ELSE {})
        /\ reply' = ReplyOf(dec', AsksOf(Section.outcomes, fired'), Section.deny)
    BY <1>3 DEF Judge
  <2>3. Taken /\ Fetched /\ Checked /\ shed = None
    BY <2>1 DEF StageInv, Early, Unspoken
  <2>4. Profile' = Profile /\ Section' = Section /\ Taken' /\ Fetched' /\ Checked'
    BY <2>1, <2>3, SameSection, SameChecks
  <2>5. fired' = FiredBy(dec)'
    BY <2>1, <2>2, <2>4 DEF FiredBy
  <2>6. Sentence'
    BY <2>1, <2>2, <2>3, <2>4, <2>5 DEF Sentence
  <2>7. reply' = Drafted'
    BY <2>2, <2>4 DEF Drafted
  <2> QED
    BY <2>1, <2>6, <2>7 DEF JudgedInv, Told, Done
<1>4. CASE WriteList
  <2>1. /\ pc = "lists" /\ pc' = pc /\ judgeVars' = judgeVars /\ msg' = msg
        /\ queueVars' = queueVars /\ fired' = fired /\ reply' = reply
    BY <1>4 DEF WriteList
  <2>2. dec' = dec
    BY <2>1 DEF judgeVars
  <2>3. (Sentence' <=> Sentence) /\ Drafted' = Drafted
    BY <2>1, SameSentence
  <2> QED
    BY <2>1, <2>2, <2>3 DEF JudgedInv, Told, Done, NoDecision, Decision
<1>5. CASE ListsDone
  <2>1. /\ pc = "lists" /\ pc' = "send" /\ judgeVars' = judgeVars /\ msg' = msg /\ geoDown' = geoDown
        /\ queueVars' = queueVars /\ fired' = fired /\ reply' = AfterLists(reply, geoDown)
    BY <1>5 DEF ListsDone, Answered, fireVars
  <2>2. dec' = dec
    BY <2>1 DEF judgeVars
  <2>3. (Sentence' <=> Sentence) /\ AfterLists(Drafted, geoDown)' = AfterLists(Drafted, geoDown)
    BY <2>1, SameSentence
  <2> QED
    BY <2>1, <2>2, <2>3 DEF JudgedInv, Told, Done, NoDecision, Decision
<1>6. CASE Send \/ Panic
  <2>1. /\ pc # "done" /\ pc' = "done" /\ judgeVars' = judgeVars /\ msg' = msg /\ geoDown' = geoDown
        /\ queueVars' = queueVars /\ fired' = fired
    BY <1>6 DEF Send, Panic, fireVars
  <2>2. dec' = dec
    BY <2>1 DEF judgeVars
  <2>3. (Sentence' <=> Sentence) /\ AfterLists(Drafted, geoDown)' = AfterLists(Drafted, geoDown)
    BY <2>1, SameSentence
  <2>4. Told' => pc = "send" /\ sent'[1] = reply
    <3>1. CASE Send
      BY <3>1, <2>1, SentReply DEF Send, Told, Done
    <3>2. CASE Panic
      BY <3>2, <2>1, SentReply DEF Panic, Told
    <3> QED
      BY <1>6, <3>1, <3>2
  <2> QED
    BY <2>1, <2>2, <2>3, <2>4 DEF JudgedInv, NoDecision, Decision
<1>7. CASE Reload \/ Quiet \/ UNCHANGED vars
  <2>1. /\ pc' = pc /\ msg' = msg /\ judgeVars' = judgeVars /\ queueVars' = queueVars
        /\ fired' = fired /\ geoDown' = geoDown /\ reply' = reply
        /\ sent' = sent /\ audited' = audited
    BY <1>7 DEF Reload, Quiet, vars, fireVars
  <2>2. dec' = dec
    BY <2>1 DEF judgeVars
  <2>3. /\ Sentence' <=> Sentence
        /\ Drafted' = Drafted
        /\ AfterLists(Drafted, geoDown)' = AfterLists(Drafted, geoDown)
    BY <2>1, SameSentence
  <2> QED
    BY <2>1, <2>2, <2>3 DEF JudgedInv, Told, Done, NoDecision, Decision
<1> QED
  BY <1>2, <1>3, <1>4, <1>5, <1>6, <1>7 DEF Next

-----------------------------------------------------------------------------
(* Replies that no policy made.                                            *)

\* The fields of a reply.
LEMMA ReplyFields ==
  ASSUME NEW v, NEW c, NEW sc, NEW a
  PROVE  /\ Reply(v, c, sc, a).verdict = v /\ Reply(v, c, sc, a).asks = a
         /\ Reply(v, c, sc, a).score = sc /\ Reply(v, c, sc, a).code = c
BY DEF Reply

\* An error and an early return ask for nothing.
LEMMA ErrorFields ==
  ASSUME NEW c
  PROVE  /\ ErrorReply(c).verdict = "error" /\ ErrorReply(c).asks = {}
         /\ plain(c).verdict = "allow"
BY ReplyFields DEF ErrorReply, plain

\* The reply of a decision: an error if its score is none, and its asks in any case.
LEMMA ReplyOfFields ==
  ASSUME NEW d, NEW a, NEW response
  PROVE  LET r == ReplyOf(d, a, response) IN
         /\ r.asks = a
         /\ r.code \in {d.code, "JSON_INTERNAL_ERROR"}
         /\ d.verdict = "score" /\ d.score \notin 0..100 => r.verdict = "error"
         /\ ~(d.verdict = "score" /\ d.score \notin 0..100) =>
              /\ r.verdict = d.verdict /\ r.score = d.score
              /\ d.verdict = "deny" => r.response = denyResponseOf(response)
<1>1. CASE d.verdict = "score" /\ d.score \notin 0..100
  BY <1>1, ReplyFields DEF ReplyOf
<1>2. CASE ~(d.verdict = "score" /\ d.score \notin 0..100)
  <2> DEFINE q == IF d.verdict = "deny" THEN denyResponseOf(response) ELSE None
  <2>1. ReplyOf(d, a, response) = [Reply(d.verdict, d.code, d.score, a) EXCEPT !.response = q]
    BY <1>2 DEF ReplyOf
  <2>2. d.verdict = "deny" => q = denyResponseOf(response)
    OBVIOUS
  <2> HIDE DEF q
  <2> QED
    BY <1>2, <2>1, <2>2 DEF Reply
<1> QED
  BY <1>1, <1>2

\* No step blocks a client without a decision.
LEMMA SilentKept ==
  ASSUME ControlInv, StageInv, SilentInv, [Next]_vars
  PROVE  SilentInv'
<1>1. CASE Refuse
  <2>1. pc = "receive" /\ pc' = "done" /\ send(ErrorReply(Refusal(msg)), Parse(msg))
    BY <1>1 DEF Refuse
  <2>2. sent = <<>> /\ (sent' = <<>> \/ sent' = Append(<<>>, ErrorReply(Refusal(msg))))
    BY <2>1 DEF ControlInv, send
  <2>3. sent' # <<>> => sent'[1].verdict = "error"
    BY <2>2, OneReply, ErrorFields
  <2> QED
    BY <2>1, <2>3 DEF SilentInv, Done
<1>2. CASE IgnoreRelease \/ Submit
  <2>1. pc = "receive" /\ sent' = sent /\ pc' \in {"queued", "done"}
    BY <1>2 DEF IgnoreRelease, Submit
  <2> QED
    BY <2>1 DEF SilentInv, Done, ControlInv
<1>3. CASE Shed
  <2>1. pc' = "lists" /\ reply'.verdict = "error"
    BY <1>3, ReplyFields DEF Shed
  <2> QED
    BY <2>1 DEF SilentInv, Done
<1>4. CASE Lookup
  <2>1. pc' \in {"load", "send"} /\ (pc' = "send" => reply'.verdict \in {"allow", "error"})
    BY <1>4, ErrorFields DEF Lookup, Answered
  <2> QED
    BY <2>1 DEF SilentInv, Done
<1>5. CASE LoadParts
  BY <1>5 DEF LoadParts, SilentInv, Done
<1>6. CASE RunChecks
  <2>1. pc' \in {"decide", "send"} /\ (pc' = "send" => reply'.verdict = "error")
    BY <1>6, ErrorFields DEF RunChecks, Answered
  <2> QED
    BY <2>1 DEF SilentInv, Done
<1>7. CASE Judge
  <2>1. pc' = "lists" /\ dec' # NoDecision
    BY <1>7, Decided DEF Judge
  <2> QED
    BY <2>1 DEF SilentInv, Done, NoDecision, Decision
<1>8. CASE WriteList \/ ListsDone
  <2>1. /\ pc = "lists" /\ pc' \in {"lists", "send"} /\ dec' = dec
        /\ reply' = reply \/ reply' = ErrorReply("JSON_GEO_UNAVAILABLE")
    BY <1>8 DEF WriteList, ListsDone, Answered, AfterLists, judgeVars
  <2> QED
    BY <2>1, ErrorFields DEF SilentInv, Done, NoDecision, Decision
<1>9. CASE Send
  <2>1. pc = "send" /\ pc' = "done" /\ dec' = dec
    BY <1>9 DEF Send, judgeVars
  <2>2. sent' # <<>> => sent'[1] = reply /\ audited' # <<>>
    BY <1>9, <2>1, SentReply DEF Send
  <2> QED
    BY <2>1, <2>2 DEF SilentInv, Done, NoDecision, Decision
<1>10. CASE Panic
  <2>1. pc # "done" /\ pc' = "done" /\ dec' = dec
    BY <1>10 DEF Panic, judgeVars
  <2>2. sent' # <<>> => sent'[1] = ErrorReply("JSON_INTERNAL_ERROR")
    BY <1>10, <2>1, SentReply DEF Panic
  <2> QED
    BY <2>1, <2>2, ErrorFields DEF SilentInv, Done
<1>11. CASE Reload \/ Quiet \/ UNCHANGED vars
  <2>1. /\ pc' = pc /\ dec' = dec /\ reply' = reply /\ sent' = sent /\ audited' = audited
    BY <1>11 DEF Reload, Quiet, vars, judgeVars
  <2> QED
    BY <2>1 DEF SilentInv, Done, NoDecision, Decision
<1> QED
  BY <1>1, <1>2, <1>3, <1>4, <1>5, <1>6, <1>7, <1>8, <1>9, <1>10, <1>11 DEF Next

-----------------------------------------------------------------------------
(* List writes.                                                            *)

\* Nothing fired, so nothing is owed.
LEMMA NothingOwed ==
  ASSUME Unspoken
  PROVE  ListInv
BY DEF Unspoken, ListInv, Honest

\* The section of a request is its own.
LEMMA RequestSection ==
  ASSUME NEW p, NEW m, m.phase = "request"
  PROVE  SectionOf(p, m) = p.request
<1>1. SectionName(m) = "request"
  BY DEF SectionName
<1> QED
  BY <1>1 DEF SectionOf, SectionNamed

\* The outcomes of a shed are those of the profile the handler then names.
LEMMA ShedOwes ==
  ASSUME Shed
  PROVE  ListInv'
<1>1. pc' = "lists" /\ msg' = msg
  BY DEF Shed
<1> DEFINE outcomes == IF fired' = {} THEN <<>> ELSE ProfileIn(cur).request.outcomes
<1>2. reply'.asks = AsksOf(outcomes, fired') /\ bans' = BansOf(outcomes, fired')
  BY ReplyFields DEF Shed
<1>3. \A i \in fired' : outcomes[i] = Section'.outcomes[i]
  <2> SUFFICES ASSUME NEW i \in fired' PROVE outcomes[i] = Section'.outcomes[i]
    OBVIOUS
  <2>1. fired' = OverloadOnShed(shed') /\ view' = IF Known(cur, msg) THEN cur ELSE None
    BY DEF Shed
  <2>2. msg.phase = "request" /\ Known(cur, msg)
    BY <2>1 DEF OverloadOnShed
  <2>3. view' = cur
    BY <2>1, <2>2
  <2>4. Section' = SectionOf(ProfileIn(cur), msg)
    BY <1>1, <2>3 DEF Section, Profile, ProfileIn
  <2>5. Section' = ProfileIn(cur).request
    BY <2>2, <2>4, RequestSection
  <2> QED
    BY <2>5
<1> HIDE DEF outcomes
<1>4. \A i \in fired' : \/ Asks(Section'.outcomes[i]) \/ Networked(Section'.outcomes[i])
                       \/ i \in lists' \cup lost' \cup bans'
  BY <1>2, <1>3 DEF BansOf
<1>5. \A i \in fired' : Asks(Section'.outcomes[i]) => i \in reply'.asks
  BY <1>2, <1>3 DEF AsksOf
<1> QED
  BY <1>1, <1>4, <1>5 DEF ListInv, Told, Done

\* The outcomes of a decision are asked for in the reply, or are to be written.
LEMMA JudgeOwes ==
  ASSUME Judge
  PROVE  ListInv'
<1>1. pc' = "lists" /\ Section' = Section
  BY SameSection DEF Judge
<1>2. /\ reply' = ReplyOf(dec', AsksOf(Section.outcomes, fired'), Section.deny)
      /\ bans' = BansOf(Section.outcomes, fired')
  BY DEF Judge
<1>3. reply'.asks = AsksOf(Section.outcomes, fired')
  BY <1>2, ReplyOfFields
<1>4. \A i \in fired' : \/ Asks(Section'.outcomes[i]) \/ Networked(Section'.outcomes[i])
                       \/ i \in lists' \cup lost' \cup bans'
  BY <1>1, <1>2, <1>3 DEF BansOf
<1>5. \A i \in fired' : Asks(Section'.outcomes[i]) => i \in reply'.asks
  BY <1>1, <1>2, <1>3 DEF AsksOf
<1> QED
  BY <1>1, <1>4, <1>5 DEF ListInv, Told, Done

\* Every step leaves an outcome that fired with the reply or with its write.
LEMMA ListKept ==
  ASSUME ControlInv, StageInv, ListInv, [Next]_vars
  PROVE  ListInv'
<1>1. CASE Refuse \/ IgnoreRelease \/ Submit \/ Lookup \/ LoadParts \/ RunChecks
  <2>1. pc \in Early /\ dec' = dec /\ shed' = shed /\ fireVars' = fireVars
    <3>1. CASE Refuse \/ IgnoreRelease \/ Submit
      BY <3>1 DEF Refuse, IgnoreRelease, Submit, Early, judgeVars, queueVars
    <3>2. CASE Lookup \/ LoadParts \/ RunChecks
      BY <3>2 DEF Lookup, LoadParts, RunChecks, Early, queueVars
    <3> QED
      BY <1>1, <3>1, <3>2
  <2>2. Unspoken'
    BY <2>1, SameSilence DEF StageInv
  <2> QED
    BY <2>2, NothingOwed DEF Unspoken, ListInv, Honest
<1>2. CASE Shed
  BY <1>2, ShedOwes
<1>3. CASE Judge
  BY <1>3, JudgeOwes
<1>4. CASE WriteList
  <2>1. /\ pc = "lists" /\ pc' = "lists" /\ msg' = msg /\ view' = view /\ fired' = fired /\ reply' = reply
        /\ bans' = bans \ {NextBan}
    BY <1>4 DEF WriteList, judgeVars
  <2>2. /\ lists \cup lost \subseteq lists' \cup lost'
        /\ NextBan \in lists' \cup lost' \/ Networked(Section.outcomes[NextBan])
    BY <1>4 DEF WriteList
  <2>3. Section' = Section
    BY <2>1, SameSection
  <2>4. \A i \in fired : \/ Asks(Section.outcomes[i]) \/ Networked(Section.outcomes[i])
                         \/ i \in lists' \cup lost' \cup bans'
    BY <2>1, <2>2 DEF ListInv
  <2>5. \A i \in fired : Asks(Section.outcomes[i]) => i \in reply.asks
    BY <2>1 DEF ListInv
  <2> QED
    BY <2>1, <2>3, <2>4, <2>5 DEF ListInv, Told, Done
<1>5. CASE ListsDone
  <2>1. /\ pc = "lists" /\ pc' = "send" /\ msg' = msg /\ view' = view /\ fired' = fired
        /\ lists' = lists /\ lost' = lost
        /\ bans' = bans /\ geoDown' = geoDown /\ shed' = shed /\ reply' = AfterLists(reply, geoDown)
        /\ bans = {}
    BY <1>5 DEF ListsDone, Answered, judgeVars, fireVars, queueVars
  <2>2. Section' = Section
    BY <2>1, SameSection
  <2>3. Honest(AfterLists(reply, geoDown))
    <3>1. CASE geoDown /\ shed = None
      BY <3>1, ErrorFields DEF AfterLists, Honest
    <3>2. CASE ~(geoDown /\ shed = None)
      BY <2>1, <3>2 DEF AfterLists, Honest, ListInv
    <3> QED
      BY <3>1, <3>2
  <2>4. Honest(reply)'
    BY <2>1, <2>2, <2>3 DEF Honest
  <2> QED
    BY <2>1, <2>2, <2>4 DEF ListInv, Told, Done
<1>6. CASE Send \/ Panic
  <2>1. /\ pc # "done" /\ pc' = "done" /\ msg' = msg /\ view' = view /\ fired' = fired
        /\ lists' = lists /\ lost' = lost
        /\ bans' = bans /\ geoDown' = geoDown /\ shed' = shed
    BY <1>6 DEF Send, Panic, judgeVars, fireVars, queueVars
  <2>2. Section' = Section
    BY <2>1, SameSection
  <2>3. Told' => pc = "send" /\ sent'[1] = reply
    <3>1. CASE Send
      BY <3>1, <2>1, SentReply DEF Send, Told, Done
    <3>2. CASE Panic
      BY <3>2, <2>1, SentReply DEF Panic, Told
    <3> QED
      BY <1>6, <3>1, <3>2
  <2>4. pc = "send" => Honest(reply)'
    <3> DEFINE r == reply
    <3>1. pc = "send" => Honest(r)
      BY DEF ListInv
    <3> QED
      BY <2>1, <2>2, <3>1, <1>6 DEF Honest, Send, Panic
  <2>5. Told' => Honest(sent[1])'
    BY <2>1, <2>2, <2>3, <2>4, <1>6 DEF Honest, Send, Panic
  <2> QED
    BY <2>1, <2>2, <2>3, <2>5 DEF ListInv
<1>7. CASE Reload \/ Quiet \/ UNCHANGED vars
  <2>1. /\ pc' = pc /\ msg' = msg /\ view' = view /\ fired' = fired
        /\ lists' = lists /\ lost' = lost
        /\ bans' = bans /\ geoDown' = geoDown /\ shed' = shed /\ reply' = reply
        /\ sent' = sent /\ audited' = audited
    BY <1>7 DEF Reload, Quiet, vars, judgeVars, fireVars, queueVars
  <2>2. Section' = Section
    BY <2>1, SameSection
  <2> QED
    BY <2>1, <2>2 DEF ListInv, Honest, Told, Done
<1> QED
  BY <1>1, <1>2, <1>3, <1>4, <1>5, <1>6, <1>7 DEF Next

-----------------------------------------------------------------------------
(* The invariant.                                                          *)

\* Only a reload changes the snapshot in force, and to one that loads.
LEMMA CurrentKept ==
  ASSUME cur \in DOMAIN Snapshot, [Next]_vars
  PROVE  cur' \in DOMAIN Snapshot /\ msg' = msg
<1>1. CASE Refuse \/ IgnoreRelease \/ Submit \/ Shed \/ Lookup \/ LoadParts \/ RunChecks
  BY <1>1 DEF Refuse, IgnoreRelease, Submit, Shed, Lookup, LoadParts, RunChecks
<1>2. CASE Judge \/ WriteList \/ ListsDone \/ Send \/ Panic \/ Quiet \/ UNCHANGED vars
  BY <1>2 DEF Judge, WriteList, ListsDone, Send, Panic, Quiet, vars
<1>3. CASE Reload
  BY <1>3 DEF Reload
<1> QED
  BY <1>1, <1>2, <1>3 DEF Next

\* A message has just arrived.
LEMMA HandlerInit ==
  ASSUME Init
  PROVE  HandlerInv
<1>1. /\ cur \in DOMAIN Snapshot /\ msg \in Messages /\ pc = "receive" /\ shed = None /\ dec = NoDecision
      /\ fired = {} /\ bans = {} /\ lists = {} /\ lost = {} /\ geoDown = FALSE
  BY Zenon DEF Init
<1>2. Unspoken
  BY <1>1 DEF Unspoken
<1>3. StageInv /\ ListInv
  BY <1>1, <1>2, NothingOwed DEF StageInv
<1>4. JudgedInv
  BY <1>1 DEF JudgedInv
<1>5. SilentInv
  BY <1>1 DEF SilentInv, Done
<1> QED
  BY <1>1, <1>3, <1>4, <1>5, ControlInit DEF HandlerInv

\* The invariant is inductive.
LEMMA HandlerIsInvariant == Spec => []HandlerInv
<1>1. Init => HandlerInv
  BY HandlerInit
<1>2. HandlerInv /\ [Next]_vars => HandlerInv'
  <2> SUFFICES ASSUME HandlerInv, [Next]_vars PROVE HandlerInv'
    OBVIOUS
  <2>1. /\ cur \in DOMAIN Snapshot /\ msg \in Messages
        /\ ControlInv /\ StageInv /\ JudgedInv /\ SilentInv /\ ListInv
    BY DEF HandlerInv
  <2>2. cur' \in DOMAIN Snapshot /\ msg' \in Messages
    BY <2>1, CurrentKept
  <2>3. ControlInv' /\ StageInv'
    BY <2>1, ControlKept, StageKept
  <2>4. JudgedInv' /\ SilentInv' /\ ListInv'
    BY <2>1, JudgedKept, SilentKept, ListKept
  <2> QED
    BY <2>2, <2>3, <2>4 DEF HandlerInv
<1> QED
  BY <1>1, <1>2, PTL DEF Spec

-----------------------------------------------------------------------------
(* What a profile that was loaded says.                                    *)

\* A loaded profile is the one that was validated, with its documents.
LEMMA LoadedIsValidated ==
  ASSUME NEW t \in DOMAIN Snapshot, NEW n \in DOMAIN Snapshot[t]
  PROVE  LET p == Snapshot[t][n]
             q == ParseProfile(Trees[t][n].profile)
         IN  /\ Validate(q)
             /\ p.mode = q.mode /\ p.kind = q.kind /\ p.prior = q.prior
             /\ p.request = q.request /\ p.response = q.response /\ p.frame = q.frame
             /\ p.source = q.source /\ p.bindings = q.bindings
             /\ p.mode # "off" => p.docs = [k \in Sources(q) |-> Trees[t][n].files[k]]
<1> DEFINE f == Trees[t][n].profile
           q == ParseProfile(f)
<1>1. t \in DOMAIN Trees /\ Loads(Trees[t]) /\ Snapshot[t] = Loaded(Trees[t])
  BY DEF Snapshot
<1>2. n \in DOMAIN Trees[t] /\ Snapshot[t][n] = attachDocuments(q, Trees[t][n].files)
  BY <1>1 DEF Loaded
<1>3. Validate(q)
  BY <1>1, <1>2 DEF Loads
<1>4. DOMAIN q = DOMAIN f
  BY DEF ParseProfile
<1>5. {"mode", "kind", "prior", "request", "response", "frame", "source", "bindings", "docs"}
        \subseteq DOMAIN q
  BY <1>1, <1>2, <1>4, InspectAssumption DEF IsProfile
<1> HIDE DEF q
<1> DEFINE docs == [k \in Sources(q) |-> Trees[t][n].files[k]]
<1>6. \/ q.mode = "off" /\ Snapshot[t][n] = q
      \/ q.mode # "off" /\ Snapshot[t][n] = [q EXCEPT !.docs = docs]
  BY <1>2 DEF attachDocuments
<1> HIDE DEF docs
<1>7. LET p == Snapshot[t][n] IN
      /\ p.mode = q.mode /\ p.kind = q.kind /\ p.prior = q.prior
      /\ p.request = q.request /\ p.response = q.response /\ p.frame = q.frame
      /\ p.source = q.source /\ p.bindings = q.bindings
      /\ p.mode # "off" => p.docs = docs
  <2>1. CASE q.mode = "off" /\ Snapshot[t][n] = q
    BY <2>1
  <2>2. CASE q.mode # "off" /\ Snapshot[t][n] = [q EXCEPT !.docs = docs]
    BY <2>2, <1>5
  <2> QED
    BY <1>6, <2>1, <2>2
<1> QED
  BY <1>3, <1>7 DEF q, docs

\* Its lists are those of the YAML.
LEMMA LoadedLists ==
  ASSUME NEW t \in DOMAIN Snapshot, NEW n \in DOMAIN Snapshot[t]
  PROVE  LET p == Snapshot[t][n] IN
         /\ IsList(p.prior) /\ IsList(p.bindings) /\ IsList(p.frame.bindings)
         /\ \A s \in {p.request, p.response, p.frame.c2s, p.frame.s2c} : IsList(s.outcomes)
<1> DEFINE f == Trees[t][n].profile
           q == ParseProfile(f)
           p == Snapshot[t][n]
<1>1. t \in DOMAIN Trees /\ Snapshot[t] = Loaded(Trees[t])
  BY DEF Snapshot
<1>2. n \in DOMAIN Trees[t]
  BY <1>1 DEF Loaded
<1>3. IsProfile(f)
  BY <1>1, <1>2, InspectAssumption
<1>4. /\ q.prior = f.prior /\ q.bindings = f.bindings /\ q.request = f.request /\ q.response = f.response
      /\ q.frame.c2s = f.frame.c2s /\ q.frame.s2c = f.frame.s2c
      /\ DOMAIN q.frame.bindings = DOMAIN f.frame.bindings
  <2> HIDE DEF f
  <2>1. PICK bs : DOMAIN bs = DOMAIN f.frame.bindings /\ q = [f EXCEPT !.frame.bindings = bs]
    BY DEF ParseProfile
  <2> HIDE DEF q
  <2>2. /\ {"prior", "bindings", "request", "response", "frame"} \subseteq DOMAIN f
        /\ {"c2s", "s2c", "bindings"} \subseteq DOMAIN f.frame
    BY <1>3 DEF IsProfile
  <2>3. q.frame = [f.frame EXCEPT !.bindings = bs]
    BY <2>1, <2>2
  <2> QED
    BY <2>1, <2>2, <2>3
<1> HIDE DEF f
<1>5. /\ p.prior = q.prior /\ p.bindings = q.bindings /\ p.frame = q.frame
      /\ p.request = q.request /\ p.response = q.response
  BY LoadedIsValidated DEF f
<1> HIDE DEF p, q
<1>6. /\ IsList(p.prior) /\ IsList(p.bindings) /\ IsList(p.frame.bindings)
      /\ \A s \in {p.request, p.response, p.frame.c2s, p.frame.s2c} : IsList(s.outcomes)
  BY <1>3, <1>4, <1>5 DEF IsProfile, IsList
<1> QED
  BY <1>6 DEF p

\* A profile that is taken enforces or observes.
LEMMA TakenMode ==
  ASSUME Taken
  PROVE  Profile.mode \in {"enforce", "observe"}
<1>1. view \in DOMAIN Snapshot /\ Named(msg) \in DOMAIN Snapshot[view] /\ Profile.mode # "off"
  BY DEF Taken, Known
<1>2. Profile = Snapshot[view][Named(msg)]
  BY DEF Profile, ProfileIn
<1>3. Profile.mode \in {"enforce", "observe", "off"}
  BY <1>1, <1>2, LoadedIsValidated DEF Validate
<1> QED
  BY <1>1, <1>3

-----------------------------------------------------------------------------
(* What the checks come to.                                                *)

\* The outcomes of a body that stops the check.
Stops == {"truncated", "too_large", "too_deep", "unparsable", "body_unavailable"}

\* A contract answers for what it checks, never for a body that stops the check.
LEMMA ContractResults ==
  ASSUME NEW p, NEW m, NEW g, NEW sec, NEW direction, NEW data
  PROVE  /\ Request(p, m, g) \in Results
         /\ Response(p, m, g) \in Results
         /\ Frame(p, sec, m, direction, data) \in Results
<1>1. \A x, y : finishResult(x, y) \in Results
  BY DEF finishResult, Results
<1>2. \A x, sch, d : bySchema(x, sch, m, d) \in Results
  BY DEF bySchema, Results
<1>3. Request(p, m, g) \in Results
  BY <1>1, <1>2 DEF Request, Results
<1>4. Response(p, m, g) \in Results
  BY <1>1, <1>2 DEF Response, Results
<1>5. Frame(p, sec, m, direction, data) \in Results
  BY DEF Frame, Results
<1> QED
  BY <1>3, <1>4, <1>5

\* A body stops the check in one of its ways, and only as one that is not there can
\* it be a fault.
LEMMA StopCases ==
  ASSUME NEW b
  PROVE  LET stop == bodyState(b) IN
         /\ stop # NoStop => stop.outcome \in Stops
         /\ stop.fault => b.unavailable /\ b.fault
         /\ b.unavailable => stop = Outcome("body_unavailable", b.fault)
BY DEF bodyState, Outcome, NoStop, Stops

\* The fields of an outcome.
LEMMA OutcomeFields ==
  ASSUME NEW o, NEW f
  PROVE  Outcome(o, f).outcome = o /\ Outcome(o, f).fault = f
BY DEF Outcome

\* The checks by phase.
LEMMA RequestRun ==
  ASSUME NEW p, NEW m, NEW g, m.phase = "request"
  PROVE  LET sec      == SectionOf(p, m)
             stop     == bodyState(g.body)
             deferred == sec.query /\ m.argsSize /\ (g.args.unavailable \/ ~m.needArgs)
             res      == Request(p, m, g)
         IN  /\ sec = p.request
             /\ sec.body /\ stop # NoStop => Run(p, m, g) = stop
             /\ ~(sec.body /\ stop # NoStop) =>
                  Run(p, m, g) = Outcome(IF res = "ok" /\ deferred THEN "args_unavailable" ELSE res,
                                         deferred /\ g.args.fault)
<1>1. SectionOf(p, m) = p.request
  BY RequestSection
<1>2. Run(p, m, g) = requestPhase(p, m, g)
  BY DEF Run
<1> QED
  BY <1>1, <1>2 DEF requestPhase

\* How the check of a response ends.
LEMMA ResponseRun ==
  ASSUME NEW p, NEW m, NEW g, m.phase = "response"
  PROVE  LET sec   == SectionOf(p, m)
             stop  == bodyState(g.body)
             other == g.body.data # "empty" /\ ~TypeAllowed(sec, m, g)
         IN  /\ sec = p.response
             /\ other => Run(p, m, g) = Outcome("ok", FALSE)
             /\ ~other /\ sec.body /\ stop # NoStop => Run(p, m, g) = stop
             /\ ~other /\ ~(sec.body /\ stop # NoStop) =>
                  Run(p, m, g) = Outcome(Response(p, m, g), FALSE)
<1>1. SectionOf(p, m) = p.response
  <2>1. SectionName(m) = "response"
    BY DEF SectionName
  <2> QED
    BY <2>1 DEF SectionOf, SectionNamed
<1>2. Run(p, m, g) = responsePhase(p, m, g)
  BY DEF Run
<1> QED
  BY <1>1, <1>2 DEF responsePhase

\* How the check of a frame ends.
LEMMA FrameRun ==
  ASSUME NEW p, NEW m, NEW g, m.phase = "frame"
  PROVE  LET sec  == SectionOf(p, m)
             stop == bodyState(g.body)
         IN  /\ ~sec.body => Run(p, m, g) = Outcome("ok", FALSE)
             /\ sec.body /\ m.binary => Run(p, m, g) = Outcome("opcode", FALSE)
             /\ sec.body /\ ~m.binary /\ stop # NoStop => Run(p, m, g) = stop
             /\ sec.body /\ ~m.binary /\ stop = NoStop =>
                  Run(p, m, g) = Outcome(Frame(p, sec, m, Direction(m), g.body.data), FALSE)
<1>1. Run(p, m, g) = framePhase(p, m, g)
  BY DEF Run
<1> QED
  BY <1>1 DEF framePhase

\* Only a section that checks bodies is stopped by one.
LEMMA StoppedByBody ==
  ASSUME NEW p, NEW m, NEW g, m.phase \in Phases,
         Run(p, m, g).outcome \in Stops \cup {"opcode"}
  PROVE  SectionOf(p, m).body
<1>1. \A x \in Results : x \notin Stops \cup {"opcode"}
  BY DEF Results, Stops
<1>2. "ok" \in Results /\ "args_unavailable" \notin Stops \cup {"opcode"}
  BY DEF Results, Stops
<1> SUFFICES ASSUME ~SectionOf(p, m).body PROVE FALSE
  OBVIOUS
<1>3. CASE m.phase = "request"
  <2>1. PICK f : \/ Run(p, m, g) = Outcome("args_unavailable", f)
                 \/ Run(p, m, g) = Outcome(Request(p, m, g), f)
    BY <1>3, RequestRun
  <2> QED
    BY <2>1, <1>1, <1>2, OutcomeFields, ContractResults
<1>4. CASE m.phase = "response"
  <2>1. PICK f : \/ Run(p, m, g) = Outcome("ok", f)
                 \/ Run(p, m, g) = Outcome(Response(p, m, g), f)
    BY <1>4, ResponseRun
  <2> QED
    BY <2>1, <1>1, <1>2, OutcomeFields, ContractResults
<1>5. CASE m.phase = "frame"
  <2>1. PICK f : Run(p, m, g) = Outcome("ok", f)
    BY <1>5, FrameRun
  <2> QED
    BY <2>1, <1>1, <1>2, OutcomeFields
<1> QED
  BY <1>3, <1>4, <1>5 DEF Phases

-----------------------------------------------------------------------------
(* The reply to a judged message.                                          *)

\* What a decision that was made tells of the message and of the reply.
LEMMA WhatWasJudged ==
  ASSUME HandlerInv, dec # NoDecision
  PROVE  /\ Sentence /\ Parse(msg) /\ msg.phase \in Phases /\ ~msg.release
         /\ Done /\ ~Panicked => sent[1] = AfterLists(Drafted, geoDown)
<1>1. Refusal(msg) = None /\ ~msg.release
  BY DEF HandlerInv, StageInv, Unspoken
<1>2. Parse(msg) /\ msg.phase \in Phases
  BY <1>1, ParsedOrRefused DEF Parse
<1>3. Sentence /\ (Told => sent[1] = AfterLists(Drafted, geoDown))
  BY DEF HandlerInv, JudgedInv
<1> QED
  BY <1>1, <1>2, <1>3 DEF Told, Panicked

\* The verdict of a reply is an error, or that of the decision.
LEMMA VerdictOfReply ==
  /\ AfterLists(Drafted, geoDown).verdict \in {"error", dec.verdict}
  /\ Drafted.verdict \in {"error", dec.verdict}
<1>1. Drafted.verdict \in {"error", dec.verdict}
  BY ReplyOfFields DEF Drafted
<1> QED
  BY <1>1, ErrorFields DEF AfterLists

\* A verdict against the client is the word of one profile of one snapshot
\* (handler.go inspect, decide.go From).
THEOREM OneProfileSpeaks == Spec => []OneProfileDecides
<1>1. HandlerInv => OneProfileDecides
  <2> SUFFICES ASSUME HandlerInv, Done, Answer.verdict \in {"deny", "score"}
               PROVE  /\ Profile.mode = "enforce"
                      /\ RuleOf(out.outcome).action = Answer.verdict
                      /\ out.outcome \in Stops \cup {"opcode"} => Section.body
    BY DEF OneProfileDecides, Stops
  <2>1. dec # NoDecision /\ audited # <<>>
    BY DEF HandlerInv, SilentInv, Answer
  <2>2. Sentence /\ msg.phase \in Phases /\ sent[1] = AfterLists(Drafted, geoDown)
    BY <2>1, WhatWasJudged DEF Panicked
  <2>3. dec.verdict = Answer.verdict
    BY <2>2, VerdictOfReply DEF Answer
  <2> DEFINE rule  == RuleOf(out.outcome)
             score == IF rule.action = "score" THEN rule.score ELSE 0
             F     == From(Profile.mode, SectionName(msg), Section.rules, out.outcome)
  <2>4. Taken /\ Checked /\ dec \in Scaled(F, ask.percent)
    BY <2>2 DEF Sentence
  <2>5. Profile.mode # "observe" /\ rule.action = dec.verdict
    <3>1. \/ F = Decision("allow", 0, None, None, 0)
          \/ /\ Profile.mode # "observe" \/ rule.action = "allow"
             /\ F = Decision(rule.action, score, out.outcome, None, 0)
          \/ F = Decision("allow", 0, "JSON_OBSERVE", rule.action, score)
      BY FromCases DEF RuleOf
    <3> HIDE DEF rule, score, F
    <3>2. CASE F = Decision("allow", 0, None, None, 0)
      BY <3>2, <2>3, <2>4, ScaledFields
    <3>3. CASE F = Decision("allow", 0, "JSON_OBSERVE", rule.action, score)
      BY <3>3, <2>3, <2>4, ScaledFields
    <3>4. CASE /\ Profile.mode # "observe" \/ rule.action = "allow"
               /\ F = Decision(rule.action, score, out.outcome, None, 0)
      BY <3>4, <2>3, <2>4, ScaledFields
    <3> QED
      BY <3>1, <3>2, <3>3, <3>4
  <2>6. Profile.mode = "enforce"
    BY <2>4, <2>5, TakenMode
  <2>7. out.outcome \in Stops \cup {"opcode"} => Section.body
    BY <2>2, <2>4, StoppedByBody DEF Checked, Section
  <2> QED
    BY <2>3, <2>5, <2>6, <2>7
<1> QED
  BY <1>1, HandlerIsInvariant, PTL

-----------------------------------------------------------------------------
(* Observing.                                                              *)

\* Whatever scaling may give is a decision scaled.
LEMMA ScaledHas ==
  ASSUME NEW v, NEW s, NEW c, NEW w, NEW ws, NEW percent, NEW x, NEW y,
         v = "score" => x \in ScaleScore(s, percent),
         v # "score" => x = s,
         w = "score" => y \in ScaleScore(ws, percent),
         w # "score" => y = ws
  PROVE  Decision(v, x, c, w, y) \in Scaled(Decision(v, s, c, w, ws), percent)
<1> DEFINE D == Decision(v, s, c, w, ws)
<1>1. D.verdict = v /\ D.score = s /\ D.code = c /\ D.would = w /\ D.wouldScore = ws
  BY DEF Decision
<1> HIDE DEF D
<1>2. /\ x \in IF v = "score" THEN ScaleScore(s, percent) ELSE {s}
      /\ y \in IF w = "score" THEN ScaleScore(ws, percent) ELSE {ws}
  OBVIOUS
<1>3. Decision(v, x, c, w, y) \in Scaled(D, percent)
  BY <1>1, <1>2 DEF Scaled
<1> QED
  BY <1>3 DEF D

\* Observing fires what enforcing would have fired.
LEMMA FireEffective ==
  ASSUME NEW outcomes, NEW addr, NEW v, NEW w, NEW s, NEW ws, NEW c, NEW k, w # None
  PROVE  Fire(outcomes, Decision(v, s, c, w, ws), addr) =
         Fire(outcomes, Decision(w, ws, k, None, 0), addr)
<1> DEFINE D == Decision(v, s, c, w, ws)
           E == Decision(w, ws, k, None, 0)
<1>1. D.would = w /\ D.wouldScore = ws /\ E.would = None /\ E.verdict = w /\ E.score = ws
  BY DEF Decision
<1> HIDE DEF D, E
<1>2. Fire(outcomes, D, addr) = Fire(outcomes, E, addr)
  BY <1>1 DEF Fire
<1> QED
  BY <1>2 DEF D, E

\* An observing profile blocks nobody and fires what it would fire if it enforced
\* (decide.go From and Fire).
THEOREM ObservingIsADryRun == Spec => []ObserveIsADryRun
<1>1. HandlerInv => ObserveIsADryRun
  <2> DEFINE G == From("enforce", SectionName(msg), Section.rules, out.outcome)
  <2> SUFFICES ASSUME HandlerInv, Judged, Profile.mode = "observe"
               PROVE  /\ Answer.verdict \in {"allow", "error"}
                      /\ \E d \in Scaled(G, ask.percent) : fired = FiredBy(d)
    BY DEF ObserveIsADryRun, FiredBy
  <2>1. Sentence /\ sent[1] = AfterLists(Drafted, geoDown)
    BY WhatWasJudged DEF Judged
  <2> DEFINE rule  == RuleOf(out.outcome)
             score == IF rule.action = "score" THEN rule.score ELSE 0
             F     == From(Profile.mode, SectionName(msg), Section.rules, out.outcome)
  <2>2. dec \in Scaled(F, ask.percent) /\ fired = FiredBy(dec)
    BY <2>1 DEF Sentence
  <2>3. rule.action # None
    BY RuleActs, NoneIsNothing DEF RuleOf
  <2>4. \/ /\ F = Decision("allow", 0, None, None, 0)
           /\ G = F
        \/ /\ rule.action = "allow" /\ F = Decision(rule.action, score, out.outcome, None, 0)
           /\ G = F
        \/ /\ F = Decision("allow", 0, "JSON_OBSERVE", rule.action, score)
           /\ G = Decision(rule.action, score, out.outcome, None, 0)
    <3> DEFINE R == RuleFor(SectionName(msg), Section.rules, out.outcome)
    <3>1. rule = R
      BY DEF RuleOf
    <3> HIDE DEF rule, R
    <3> QED
      BY <3>1, FromCases DEF R
  <2> HIDE DEF rule, score, F, G
  <2>5. CASE F = Decision("allow", 0, None, None, 0) /\ G = F
    <3>1. dec.verdict = "allow"
      BY <2>2, <2>5, ScaledFields
    <3> QED
      BY <2>1, <2>2, <2>5, <3>1, VerdictOfReply DEF Answer
  <2>6. CASE /\ rule.action = "allow" /\ F = Decision(rule.action, score, out.outcome, None, 0)
             /\ G = F
    <3>1. dec.verdict = "allow"
      BY <2>2, <2>6, ScaledFields
    <3> QED
      BY <2>1, <2>2, <2>6, <3>1, VerdictOfReply DEF Answer
  <2>7. CASE /\ F = Decision("allow", 0, "JSON_OBSERVE", rule.action, score)
             /\ G = Decision(rule.action, score, out.outcome, None, 0)
    <3>1. dec.verdict = "allow"
      BY <2>2, <2>7, ScaledFields
    <3>2. PICK x, y :
            /\ dec = Decision("allow", x, "JSON_OBSERVE", rule.action, y)
            /\ rule.action = "score" => y \in ScaleScore(score, ask.percent)
            /\ rule.action # "score" => y = score
      BY <2>2, <2>7, ScaledIs
    <3> DEFINE d == Decision(rule.action, y, out.outcome, None, 0)
    <3>3. d \in Scaled(G, ask.percent)
      BY <2>7, <3>2, ScaledHas, NoneIsNothing
    <3>4. Fire(Section.outcomes, dec, msg.addr) = Fire(Section.outcomes, d, msg.addr)
      BY <2>3, <3>2, FireEffective
    <3> HIDE DEF d
    <3>5. fired = FiredBy(d)
      BY <2>2, <3>4 DEF FiredBy
    <3> QED
      BY <2>1, <3>1, <3>3, <3>5, VerdictOfReply DEF Answer
  <2> QED
    BY <2>4, <2>5, <2>6, <2>7
<1> QED
  BY <1>1, HandlerIsInvariant, PTL

-----------------------------------------------------------------------------
(* Faults.                                                                 *)

\* The store's answers.
LEMMA RawContents ==
  ASSUME NEW loc \in Locator, NEW raw \in Raws(loc), raw # Miss
  PROVE  raw \in Contents
<1>1. loc.content \in Contents
  BY DEF Locator
<1> QED
  BY <1>1 DEF Raws, Contents

\* What a part can load to.
LEMMA LoadCases ==
  ASSUME NEW loc \in Locator, loc.kind # "mixed", NEW raw \in Raws(loc)
  PROVE  \/ loc.kind = "none" /\ Load(loc, raw) = NoBody
         \/ loc.kind = "unavailable" /\ Load(loc, raw) = Withheld
         \/ loc.kind = "located" /\ Load(loc, raw) = Failed
         \/ /\ loc.kind = "located" /\ raw \in Contents
            /\ (Digested(loc) \/ loc.enc # "none") => raw = loc.content
            /\ Load(loc, raw) = Given(raw, loc.truncated)
<1>1. loc.kind \in {"none", "unavailable", "located"}
  BY DEF Locator
<1>2. CASE loc.kind = "none"
  BY <1>2 DEF Load
<1>3. CASE loc.kind = "unavailable"
  BY <1>3 DEF Load
<1>4. CASE loc.kind = "located"
  <2>1. Load(loc, raw) = IF StoreConfigured /\ raw # Miss THEN finish(loc, raw) ELSE Failed
    BY <1>4 DEF Load
  <2>2. raw # Miss => raw \in Contents
    BY RawContents
  <2> QED
    BY <1>4, <2>1, <2>2 DEF finish, decrypts
<1> QED
  BY <1>1, <1>2, <1>3, <1>4

\* A part that could not be fetched is not there, and has no bytes.
LEMMA PartShape ==
  ASSUME NEW loc \in Locator, loc.kind # "mixed", NEW raw \in Raws(loc)
  PROVE  LET b == Load(loc, raw) IN
         b \in Body /\ (b.fault => b.unavailable) /\ (b.unavailable => b.data = "empty")
<1>1. NoBody \in Body /\ ~NoBody.fault /\ ~NoBody.unavailable
  BY DEF NoBody, Given, Body, Contents
<1>2. Withheld \in Body /\ ~Withheld.fault /\ Withheld.data = "empty"
  BY DEF Withheld, NoBody, Given, Body, Contents
<1>3. Failed \in Body /\ Failed.unavailable /\ Failed.data = "empty"
  BY DEF Failed, Withheld, NoBody, Given, Body, Contents
<1>4. ASSUME raw \in Contents
      PROVE  /\ Given(raw, loc.truncated) \in Body /\ ~Given(raw, loc.truncated).fault
             /\ ~Given(raw, loc.truncated).unavailable
  BY <1>4 DEF Given, Body, Locator
<1> QED
  BY <1>1, <1>2, <1>3, <1>4, LoadCases

\* The locators of a message that is evaluated.
LEMMA WantedLocators ==
  ASSUME msg \in Messages, Parse(msg), ~msg.release, NEW part \in Parts
  PROVE  Wanted(msg, part) \in Locator /\ Wanted(msg, part).kind # "mixed"
<1>1. msg.store[part] \in Locator /\ msg.store[part].kind # "mixed"
  BY InspectAssumption DEF Parse, LocatorValid, IsMessage
<1>2. [msg.store[part] EXCEPT !.kind = "none"] \in Locator
  BY <1>1 DEF Locator
<1>3. [msg.store[part] EXCEPT !.kind = "none"].kind = "none"
  BY <1>1 DEF Locator
<1> QED
  BY <1>1, <1>2, <1>3 DEF Wanted

\* Every part that was fetched is a body of one of these shapes.
LEMMA FetchedShape ==
  ASSUME msg \in Messages, Parse(msg), ~msg.release, Fetched, NEW part \in Parts
  PROVE  /\ got[part] \in Body /\ (got[part].fault => got[part].unavailable)
         /\ got[part].unavailable => got[part].data = "empty"
<1>1. PICK raw \in Raws(Wanted(msg, part)) : got[part] = Load(Wanted(msg, part), raw)
  BY DEF Fetched
<1> QED
  BY <1>1, WantedLocators, PartShape

\* What is judged is not for want of a body or of arguments that a check needs.
LEMMA FaultsNotJudged ==
  ASSUME HandlerInv, Judged
  PROVE  /\ got.body.fault => ~Section.body \/ (msg.phase = "frame" /\ msg.binary)
         /\ got.args.fault /\ msg.phase = "request" /\ Section.query /\ msg.argsSize =>
              Section.body /\ out.outcome \in Stops
<1>1. /\ Sentence /\ Parse(msg) /\ msg.phase \in Phases /\ ~msg.release /\ msg \in Messages
      /\ Fetched /\ Checked
  BY WhatWasJudged DEF Judged, HandlerInv, Sentence
<1>2. /\ got.body.fault => got.body.unavailable /\ got.body.data = "empty"
      /\ got.args.fault => got.args.unavailable
  BY <1>1, FetchedShape DEF Parts
<1>3. out = Run(Profile, msg, got) /\ ~out.fault /\ Section = SectionOf(Profile, msg)
  BY <1>1 DEF Checked, Section
<1> DEFINE stop == bodyState(got.body)
<1>4. got.body.fault => stop = Outcome("body_unavailable", got.body.fault)
  BY <1>2, StopCases
<1>5. got.body.fault => stop # NoStop /\ stop.fault
  BY <1>4 DEF NoStop, Outcome
<1>6. stop # NoStop => stop.outcome \in Stops
  BY StopCases
<1> HIDE DEF stop
<1>7. CASE msg.phase = "request"
  <2>1. Section.body /\ stop # NoStop => out = stop
    BY <1>7, <1>3, RequestRun DEF stop
  <2>2. ~(Section.body /\ stop # NoStop) /\ Section.query /\ msg.argsSize /\ got.args.fault
          => out.fault
    <3> SUFFICES ASSUME ~(Section.body /\ stop # NoStop), Section.query, msg.argsSize, got.args.fault
                 PROVE  out.fault
      OBVIOUS
    <3> DEFINE late == /\ Section.query /\ msg.argsSize /\ (got.args.unavailable \/ ~msg.needArgs)
                       /\ got.args.fault
    <3>1. late = TRUE
      BY <1>2
    <3>2. \E x : Run(Profile, msg, got) = Outcome(x, late)
      BY <1>7, <1>3, RequestRun DEF stop
    <3> HIDE DEF late
    <3> QED
      BY <1>3, <3>1, <3>2 DEF Outcome
  <2> QED
    BY <1>2, <1>3, <1>5, <1>6, <1>7, <2>1, <2>2
<1>8. CASE msg.phase = "response"
  <2>1. got.body.fault /\ Section.body => out = stop
    BY <1>8, <1>2, <1>3, <1>5, ResponseRun DEF stop
  <2> QED
    BY <1>3, <1>5, <1>8, <2>1
<1>9. CASE msg.phase = "frame"
  <2>1. got.body.fault /\ Section.body /\ ~msg.binary => out = stop
    BY <1>9, <1>3, <1>5, FrameRun DEF stop
  <2> QED
    BY <1>3, <1>5, <1>9, <2>1
<1> QED
  BY <1>1, <1>7, <1>8, <1>9 DEF Phases

-----------------------------------------------------------------------------
(* The sum of the asks.  The fold over the deliveries has a solution, since *)
(* there are finitely many of them, and it is a number: both are shown by   *)
(* taking the smallest set of deliveries for which it would fail.           *)

\* A set of sizes that is not empty has a smallest one.
LEMMA SmallestOf ==
  ASSUME NEW T, T \subseteq Nat, T # {}
  PROVE  \E n \in T : \A m \in T : n <= m
<1>1. PICK n \in T : \A m \in T : ~(<<m, n>> \in OpToRel(<, Nat))
  BY NatLessThanWellFounded, WFMin
<1>2. \A m \in T : ~(m < n)
  BY <1>1, Zenon DEF OpToRel
<1> QED
  BY <1>2

\* One step of the fold: h has the sums of the smaller sets.
SumStep(prior, h, s) ==
  IF s = {} THEN 0
  ELSE prior[(CHOOSE x \in s : TRUE)[1]].delta + h[s \ {CHOOSE x \in s : TRUE}]

\* The subsets of S with at most n elements, and a table of their sums.
Small(S, n) == {s \in SUBSET S : Cardinality(s) <= n}
Sums(prior, S, h, n) == h = [s \in Small(S, n) |-> SumStep(prior, h, s)]

\* A set without the element that is chosen from it is smaller.
LEMMA OneLess ==
  ASSUME NEW S, IsFiniteSet(S), NEW s \in SUBSET S, s # {}
  PROVE  LET r == s \ {CHOOSE x \in s : TRUE} IN
         /\ r \in SUBSET S /\ IsFiniteSet(s)
         /\ Cardinality(s) \in Nat /\ Cardinality(r) = Cardinality(s) - 1
<1>1. IsFiniteSet(s) /\ Cardinality(s) \in Nat
  BY FS_Subset, FS_CardinalityType
<1>2. (CHOOSE x \in s : TRUE) \in s
  OBVIOUS
<1> QED
  BY <1>1, <1>2, FS_RemoveElement

\* There is a table of the sums up to every size.
LEMMA SumsExist ==
  ASSUME NEW prior, NEW S, IsFiniteSet(S), NEW n \in Nat
  PROVE  \E h : Sums(prior, S, h, n)
<1> DEFINE T == {k \in Nat : ~\E h : Sums(prior, S, h, k)}
<1> SUFFICES ASSUME T # {} PROVE FALSE
  OBVIOUS
<1>1. PICK k \in T : \A m \in T : k <= m
  BY SmallestOf
<1>2. \A s \in SUBSET S : s # {} => Cardinality(s) # 0
  <2>1. \A s \in SUBSET S : IsFiniteSet(s)
    BY FS_Subset
  <2> QED
    BY <2>1, FS_EmptySet
<1>3. ASSUME NEW g, \A s \in Small(S, k) : s # {} =>
               LET r == s \ {CHOOSE x \in s : TRUE} IN g[r] = SumStep(prior, g, r) /\ r \in Small(S, k)
      PROVE  FALSE
  <2> DEFINE h == [s \in Small(S, k) |-> SumStep(prior, g, s)]
  <2>1. \A s \in Small(S, k) : s # {} =>
          h[s \ {CHOOSE x \in s : TRUE}] = g[s \ {CHOOSE x \in s : TRUE}]
    BY <1>3
  <2>2. ASSUME NEW s \in Small(S, k) PROVE SumStep(prior, g, s) = SumStep(prior, h, s)
    <3> HIDE DEF h
    <3>1. CASE s = {}
      BY <3>1 DEF SumStep
    <3>2. CASE s # {}
      <4> DEFINE y == CHOOSE x \in s : TRUE
                 r == s \ {y}
      <4>1. h[r] = g[r]
        BY <2>1, <3>2
      <4>2. \A f : SumStep(prior, f, s) = prior[y[1]].delta + f[r]
        BY <3>2, Zenon DEF SumStep
      <4> QED
        BY <4>1, <4>2
    <3> QED
      BY <3>1, <3>2
  <2>3. Sums(prior, S, h, k)
    BY <2>2 DEF Sums
  <2> QED
    BY <2>3
<1>4. CASE k = 0
  <2>1. \A s \in Small(S, k) : s = {}
    <3> SUFFICES ASSUME NEW s \in SUBSET S, Cardinality(s) <= 0, s # {} PROVE FALSE
      BY <1>4 DEF Small
    <3>1. Cardinality(s) \in Nat /\ Cardinality(s) # 0
      BY <1>2, OneLess
    <3> QED
      BY <3>1
  <2> QED
    BY <2>1, <1>3
<1>5. CASE k # 0
  <2>1. k - 1 \in Nat /\ ~(k <= k - 1)
    BY <1>5
  <2>2. PICK g : Sums(prior, S, g, k - 1)
    BY <2>1, <1>1
  <2>3. ASSUME NEW s \in Small(S, k), s # {}
        PROVE  LET r == s \ {CHOOSE x \in s : TRUE} IN r \in Small(S, k - 1) /\ r \in Small(S, k)
    BY <2>3, OneLess DEF Small
  <2>4. \A r \in Small(S, k - 1) : g[r] = SumStep(prior, g, r)
    BY <2>2 DEF Sums
  <2> QED
    BY <2>3, <2>4, <1>3
<1> QED
  BY <1>4, <1>5

\* The fold is a table of all sums.
LEMMA SumUnfolds ==
  ASSUME NEW prior, NEW S, IsFiniteSet(S)
  PROVE  \E h : /\ h = [s \in SUBSET S |-> SumStep(prior, h, s)]
                /\ TotalDelta(prior, S) = h[S]
<1>1. Cardinality(S) \in Nat
  BY FS_CardinalityType
<1>2. Small(S, Cardinality(S)) = SUBSET S
  BY FS_Subset DEF Small
<1>3. \E h : h = [s \in SUBSET S |-> SumStep(prior, h, s)]
  <2>1. PICK h : Sums(prior, S, h, Cardinality(S))
    BY <1>1, SumsExist
  <2> QED
    BY <2>1, <1>2 DEF Sums
<1> DEFINE h == CHOOSE h : h = [s \in SUBSET S |-> SumStep(prior, h, s)]
<1>4. h = [s \in SUBSET S |-> SumStep(prior, h, s)]
  BY <1>3
<1>5. TotalDelta(prior, S) = h[S]
  BY DEF TotalDelta, MapThenSumSet, MapThenFoldSet, SumStep
<1> HIDE DEF h
<1> QED
  BY <1>4, <1>5

\* The asks for a threshold add up to a number.
LEMMA SumIsInt ==
  ASSUME NEW prior, NEW S, IsFiniteSet(S), \A d \in S : prior[d[1]].delta \in Int
  PROVE  TotalDelta(prior, S) \in Int
<1>1. PICK h : /\ h = [s \in SUBSET S |-> SumStep(prior, h, s)]
               /\ TotalDelta(prior, S) = h[S]
  BY SumUnfolds
<1> DEFINE T == {k \in Nat : \E s \in SUBSET S : Cardinality(s) = k /\ h[s] \notin Int}
<1>2. T = {}
  <2> SUFFICES ASSUME T # {} PROVE FALSE
    OBVIOUS
  <2>1. PICK k \in T : \A m \in T : k <= m
    BY SmallestOf
  <2>2. PICK s \in SUBSET S : Cardinality(s) = k /\ h[s] \notin Int
    BY <2>1
  <2>3. h[s] = SumStep(prior, h, s)
    BY <1>1
  <2>4. s # {}
    BY <2>2, <2>3 DEF SumStep
  <2> DEFINE x == CHOOSE x \in s : TRUE
             r == s \ {x}
  <2>5. x \in S /\ prior[x[1]].delta \in Int
    BY <2>4
  <2>6. r \in SUBSET S /\ Cardinality(r) = k - 1 /\ k \in Nat
    BY <2>2, <2>4, OneLess
  <2>7. IsFiniteSet(r) /\ Cardinality(r) \in Nat
    BY <2>6, FS_Subset, FS_CardinalityType
  <2>8. h[r] \in Int
    BY <2>1, <2>6, <2>7
  <2>9. h[s] = prior[x[1]].delta + h[r]
    BY <2>3, <2>4 DEF SumStep
  <2> QED
    BY <2>2, <2>5, <2>8, <2>9
<1>3. S \in SUBSET S /\ Cardinality(S) \in Nat
  BY FS_CardinalityType
<1> QED
  BY <1>1, <1>2, <1>3

-----------------------------------------------------------------------------
(* Scores.                                                                 *)

\* The percentage that the asks move a score by.
AskInv == ask.skip \in BOOLEAN /\ ask.percent \in PercentMin..PercentMax

\* There are as many deliveries as there are asks and rules for them.
LEMMA AskedPercent ==
  ASSUME NEW prior, NEW rules, IsList(prior), IsList(rules),
         \A i \in DOMAIN prior : prior[i].delta \in Int
  PROVE  LET a == EvaluatePrior(prior, rules) IN
         a.skip \in BOOLEAN /\ a.percent \in PercentMin..PercentMax
<1> DEFINE S == Deliveries(prior, rules, "threshold")
<1>1. IsFiniteSet((DOMAIN prior) \X (DOMAIN rules))
  BY FS_Product DEF IsList
<1>2. IsFiniteSet(S) /\ \A d \in S : prior[d[1]].delta \in Int
  BY <1>1, FS_Subset DEF Deliveries
<1> HIDE DEF S
<1>3. TotalDelta(prior, S) \in Int
  BY <1>2, SumIsInt
<1>4. Clamp(TotalDelta(prior, S), PercentMin, PercentMax) \in PercentMin..PercentMax
  BY <1>3 DEF Clamp, PercentMin, PercentMax
<1> QED
  BY <1>4 DEF EvaluatePrior, S

\* A scaled score is a score, and moves the way it is asked to.
LEMMA ScaleBounds ==
  ASSUME NEW score \in 0..100, NEW percent \in PercentMin..PercentMax,
         NEW x \in ScaleScore(score, percent)
  PROVE  /\ x \in 0..100
         /\ percent >= 0 => x >= score
         /\ percent <= 0 => x <= score
<1>1. percent \in -100..900
  BY DEF PercentMin, PercentMax
<1>2. CASE percent = 0 \/ score <= 0
  BY <1>2, <1>1 DEF ScaleScore
<1>3. CASE ~(percent = 0 \/ score <= 0)
  <2> DEFINE product == score * (100 + percent)
             up      == (product + 50) \div 100
             move    == score * percent
  <2>1. /\ product \in Int /\ move \in Int /\ product = 100 * score + move
        /\ percent >= 0 => move >= 0
        /\ percent <= 0 => move <= 0
        /\ product >= 0
    BY <1>1
  <2>2. \/ x = Clamp(up, 0, 100)
        \/ product % 100 = 50 /\ x = Clamp(up - 1, 0, 100)
    BY <1>3 DEF ScaleScore
  <2> HIDE DEF product, move
  <2>3. /\ up \in Int /\ up >= 0
        /\ percent >= 0 => up >= score
        /\ percent <= 0 => up <= score
        /\ product % 100 = 50 /\ percent >= 0 => up - 1 >= score
    BY <2>1, <1>1
  <2> HIDE DEF up
  <2> QED
    BY <2>1, <2>2, <2>3, <1>1 DEF Clamp
<1> QED
  BY <1>2, <1>3

\* The asks of the prior inspectors are evaluated once, by the profile taken.
LEMMA AskIsKept == Spec => []AskInv
<1>1. Init => AskInv
  <2>1. Init => \E f \in BOOLEAN : ask = [skip |-> f, percent |-> 0]
    BY Zenon DEF Init
  <2> QED
    BY <2>1 DEF AskInv, PercentMin, PercentMax
<1>2. HandlerInv /\ AskInv /\ [Next]_vars => AskInv'
  <2> SUFFICES ASSUME HandlerInv, AskInv, [Next]_vars PROVE AskInv'
    OBVIOUS
  <2>1. CASE Refuse \/ IgnoreRelease \/ Submit \/ Shed \/ LoadParts \/ RunChecks
    <3>1. ask' = ask
      BY <2>1 DEF Refuse, IgnoreRelease, Submit, Shed, LoadParts, RunChecks, judgeVars
    <3> QED
      BY <3>1 DEF AskInv
  <2>2. CASE Judge \/ WriteList \/ ListsDone \/ Send \/ Panic \/ Reload \/ Quiet \/ UNCHANGED vars
    <3>1. ask' = ask
      BY <2>2 DEF Judge, WriteList, ListsDone, Send, Panic, Reload, Quiet, vars, judgeVars
    <3> QED
      BY <3>1 DEF AskInv
  <2>3. CASE Lookup
    <3> DEFINE p == ProfileIn(cur)
    <3>1. \/ ask' = ask
          \/ Known(cur, msg) /\ ask' = EvaluatePrior(msg.prior, p.prior)
      BY <2>3 DEF Lookup
    <3>2. ASSUME Known(cur, msg) PROVE IsList(p.prior)
      BY <3>2, LoadedLists DEF Known, ProfileIn, HandlerInv
    <3>3. IsList(msg.prior) /\ \A i \in DOMAIN msg.prior : msg.prior[i].delta \in Int
      BY InspectAssumption DEF HandlerInv, IsMessage
    <3> HIDE DEF p
    <3> QED
      BY <3>1, <3>2, <3>3, AskedPercent DEF AskInv
  <2> QED
    BY <2>1, <2>2, <2>3 DEF Next
<1> QED
  BY <1>1, <1>2, HandlerIsInvariant, PTL DEF Spec

\* The section that speaks is one of the profile's.
LEMMA NamesASection ==
  ASSUME NEW m, m.phase \in Phases
  PROVE  /\ SectionName(m) \in Sections
         /\ m.phase = "request" => SectionName(m) = "request"
         /\ m.phase = "response" => SectionName(m) = "response"
         /\ m.phase = "frame" => SectionName(m) \in Directions
BY DEF SectionName, Sections, Phases, Directions

\* Every section of a profile that is loaded is the one that was validated.
LEMMA SectionValidated ==
  ASSUME Taken
  PROVE  \E q : /\ Validate(q) /\ q.mode # "off"
                /\ \A s \in Sections : /\ SectionNamed(Profile, s) = SectionNamed(q, s)
                                       /\ Enabled(Profile, s) => Enabled(q, s)
<1> DEFINE q == ParseProfile(Trees[view][Named(msg)].profile)
<1>1. view \in DOMAIN Snapshot /\ Named(msg) \in DOMAIN Snapshot[view] /\ Profile.mode # "off"
  BY DEF Taken, Known
<1>2. Profile = Snapshot[view][Named(msg)]
  BY DEF Profile, ProfileIn
<1>3. /\ Validate(q) /\ Profile.mode = q.mode
      /\ Profile.request = q.request /\ Profile.response = q.response /\ Profile.frame = q.frame
  BY <1>1, <1>2, LoadedIsValidated
<1> HIDE DEF q
<1>4. \A s \in Sections : SectionNamed(Profile, s) = SectionNamed(q, s)
  BY <1>3 DEF SectionNamed
<1>5. \A s \in Sections : Enabled(Profile, s) => Enabled(q, s)
  BY <1>3, <1>4 DEF Enabled
<1> QED
  BY <1>1, <1>3, <1>4, <1>5

\* The rules of the section that speaks are ones a decision can follow.
LEMMA RulesValid ==
  ASSUME Taken, msg.phase \in Phases
  PROVE  validateRules(SectionName(msg), Section)
<1>1. PICK q : /\ Validate(q) /\ q.mode # "off"
               /\ \A s \in Sections : /\ SectionNamed(Profile, s) = SectionNamed(q, s)
                                      /\ Enabled(Profile, s) => Enabled(q, s)
  BY SectionValidated
<1>2. SectionName(msg) \in Sections /\ Enabled(Profile, SectionName(msg))
  BY NamesASection DEF Taken, PhaseEnabled
<1>3. validateRules(SectionName(msg), SectionNamed(q, SectionName(msg)))
  BY <1>1, <1>2 DEF Validate
<1> QED
  BY <1>1, <1>2, <1>3 DEF Section, SectionOf

\* The score of a decision, and the rule it came from.
LEMMA ScoreOfRule ==
  ASSUME NEW mode, NEW outcome, NEW percent, dec.verdict = "score",
         dec \in Scaled(From(mode, SectionName(msg), Section.rules, outcome), percent)
  PROVE  /\ RuleOf(outcome).action = "score"
         /\ dec.score \in ScaleScore(RuleOf(outcome).score, percent)
<1> DEFINE rule  == RuleOf(outcome)
           score == IF rule.action = "score" THEN rule.score ELSE 0
           F     == From(mode, SectionName(msg), Section.rules, outcome)
<1>1. \/ F = Decision("allow", 0, None, None, 0)
      \/ F = Decision(rule.action, score, outcome, None, 0)
      \/ F = Decision("allow", 0, "JSON_OBSERVE", rule.action, score)
  BY FromCases DEF RuleOf
<1>2. dec \in Scaled(F, percent)
  OBVIOUS
<1>3. rule.action = "score" => score = rule.score
  OBVIOUS
<1> HIDE DEF rule, score, F
<1>4. CASE F = Decision("allow", 0, None, None, 0)
  BY <1>2, <1>4, ScaledFields
<1>5. CASE F = Decision("allow", 0, "JSON_OBSERVE", rule.action, score)
  BY <1>2, <1>5, ScaledFields
<1>6. CASE F = Decision(rule.action, score, outcome, None, 0)
  <2>1. rule.action = "score" /\ dec.score \in ScaleScore(score, percent)
    BY <1>2, <1>6, ScaledFields
  <2> QED
    BY <2>1, <1>3 DEF rule
<1> QED
  BY <1>1, <1>4, <1>5, <1>6

\* The asks of prior inspectors move a score within its range, in the direction they
\* ask for, and never make another verdict of it (prior.go ScaleScore).
THEOREM ScoresAreScaled == Spec => []ScoresStayScores
<1>1. HandlerInv /\ AskInv => ScoresStayScores
  <2> DEFINE rule == RuleOf(out.outcome)
  <2> SUFFICES ASSUME HandlerInv, AskInv, Judged, dec.verdict = "score", ~geoDown
               PROVE  /\ Answer.verdict = "score" /\ Answer.score \in 0..100
                      /\ ask.percent >= 0 => Answer.score >= rule.score
                      /\ ask.percent <= 0 => Answer.score <= rule.score
    BY DEF ScoresStayScores
  <2>1. Sentence /\ msg.phase \in Phases /\ sent[1] = Drafted
    BY WhatWasJudged DEF Judged, AfterLists
  <2>2. Taken /\ dec \in Scaled(From(Profile.mode, SectionName(msg), Section.rules, out.outcome), ask.percent)
    BY <2>1 DEF Sentence
  <2>3. rule.action = "score" /\ dec.score \in ScaleScore(rule.score, ask.percent)
    BY <2>2, ScoreOfRule
  <2>4. rule.score \in 0..100
    <3>1. Allow.score = 0
      BY DEF Allow, Rule
    <3>2. \A k \in Rules(SectionName(msg)) : Section.rules[k].score \in 0..100
      BY <2>1, <2>2, RulesValid DEF validateRules
    <3> QED
      BY <3>1, <3>2 DEF RuleOf, RuleFor
  <2> HIDE DEF rule
  <2>5. /\ dec.score \in 0..100
        /\ ask.percent >= 0 => dec.score >= rule.score
        /\ ask.percent <= 0 => dec.score <= rule.score
    BY <2>3, <2>4, ScaleBounds DEF AskInv
  <2>6. Answer.verdict = dec.verdict /\ Answer.score = dec.score
    BY <2>1, <2>5, ReplyOfFields DEF Drafted, Answer
  <2> QED
    BY <2>5, <2>6
<1> QED
  BY <1>1, AskIsKept, HandlerIsInvariant, PTL

-----------------------------------------------------------------------------
(* What the policy says of a document that was captured.                   *)

\* A rule that the section has is the one that is followed.
LEMMA RuleFound ==
  ASSUME Taken, msg.phase \in Phases, NEW outcome, policy(outcome) \in Rules(SectionName(msg))
  PROVE  /\ RuleOf(outcome) = Section.rules[policy(outcome)]
         /\ Section.rules[policy(outcome)].action \in Actions
<1>1. Section.rules[policy(outcome)].action \in Actions
  BY RulesValid DEF validateRules
<1> QED
  BY <1>1 DEF RuleOf, RuleFor

\* Every section has a rule for a body that stops the check.
LEMMA StopsHaveRules ==
  ASSUME NEW section \in Sections, NEW outcome \in Stops
  PROVE  /\ policy(outcome) \in Rules(section)
         /\ outcome = "too_large" => policy(outcome) = "truncated"
         /\ outcome = "too_deep" => policy(outcome) = "invalid"
         /\ outcome = "unparsable" => policy(outcome) = "unparsable"
<1>1. /\ outcome \in {"truncated", "too_large"} => policy(outcome) = "truncated"
      /\ outcome = "too_deep" => policy(outcome) = "invalid"
      /\ outcome = "unparsable" => policy(outcome) = "unparsable"
      /\ outcome = "body_unavailable" => policy(outcome) = "unavailable"
  BY DEF policy
<1>2. {"invalid", "unparsable", "truncated", "unavailable"} \subseteq Rules(section)
  BY DEF Rules, RequestRules, ResponseRules, FrameRules
<1> QED
  BY <1>1, <1>2 DEF Stops

\* A profile that enforces decides by its rule.
LEMMA EnforcedRule ==
  ASSUME HandlerInv, Judged, Profile.mode # "observe", out.outcome # "ok"
  PROVE  /\ dec.verdict = RuleOf(out.outcome).action
         /\ Answer.verdict \in {"error", RuleOf(out.outcome).action}
<1>1. Sentence /\ sent[1] = AfterLists(Drafted, geoDown)
  BY WhatWasJudged DEF Judged
<1> DEFINE rule  == RuleOf(out.outcome)
           score == IF rule.action = "score" THEN rule.score ELSE 0
           F     == From(Profile.mode, SectionName(msg), Section.rules, out.outcome)
<1>2. F = Decision(rule.action, score, out.outcome, None, 0)
  BY FromCases DEF RuleOf
<1>3. dec \in Scaled(F, ask.percent)
  BY <1>1 DEF Sentence
<1> HIDE DEF rule, score, F
<1>4. dec.verdict = rule.action
  BY <1>2, <1>3, ScaledFields
<1> QED
  BY <1>1, <1>4, VerdictOfReply DEF Answer, rule

\* A document that is over the limits or does not parse stops the check.
LEMMA GivenStops ==
  ASSUME NEW content \in {"big", "deep", "garbage"}, NEW truncated, ~truncated
  PROVE  LET stop == bodyState(Given(content, truncated)) IN
         /\ stop # NoStop /\ stop.outcome \in Stops
         /\ policy(stop.outcome) = RuleOfContent(content)
<1> DEFINE b == Given(content, truncated)
<1>1. ~b.unavailable /\ ~b.truncated /\ b.data = content
  BY DEF Given
<1> HIDE DEF b
<1>2. PICK f : /\ content = "big" => bodyState(b) = Outcome("too_large", f)
               /\ content = "deep" => bodyState(b) = Outcome("too_deep", f)
               /\ content = "garbage" => bodyState(b) = Outcome("unparsable", f)
  BY <1>1 DEF bodyState
<1>3. /\ content = "big" => bodyState(b).outcome = "too_large"
      /\ content = "deep" => bodyState(b).outcome = "too_deep"
      /\ content = "garbage" => bodyState(b).outcome = "unparsable"
  BY <1>2, OutcomeFields
<1>4. NoStop.outcome = "none"
  BY OutcomeFields DEF NoStop
<1>5. policy(bodyState(b).outcome) = RuleOfContent(content)
  BY <1>3 DEF policy, RuleOfContent
<1>6. bodyState(b) # NoStop /\ bodyState(b).outcome \in Stops
  BY <1>3, <1>4 DEF Stops
<1> QED
  BY <1>5, <1>6 DEF b

\* The body of a message is what was captured, or it was not to be had.
LEMMA CapturedOrFailed ==
  ASSUME msg \in Messages, Parse(msg), ~msg.release, Fetched,
         msg.store.body.kind = "located", Digested(msg.store.body) \/ msg.store.body.enc # "none"
  PROVE  \/ got.body = Failed
         \/ got.body = Given(msg.store.body.content, msg.store.body.truncated)
<1> DEFINE loc == msg.store.body
<1>1. Wanted(msg, "body") = loc
  BY DEF Wanted
<1>2. "body" \in Parts
  BY DEF Parts
<1>3. loc \in Locator /\ loc.kind # "mixed"
  BY <1>1, <1>2, WantedLocators
<1>4. PICK raw \in Raws(loc) : got.body = Load(loc, raw)
  BY <1>1, <1>2 DEF Fetched
<1> HIDE DEF loc
<1>5. loc.kind = "located" /\ (Digested(loc) \/ loc.enc # "none")
  BY DEF loc
<1> QED
  BY <1>3, <1>4, <1>5, LoadCases DEF loc

\* A body that could not be fetched is a fault.
LEMMA FailedIsFault == Failed.fault /\ Failed.unavailable
BY DEF Failed, Withheld, NoBody, Given

\* The checks of a section that checks bodies, of a message whose body stops them.
LEMMA StoppedRun ==
  ASSUME NEW p, NEW m, NEW g, m.phase \in Phases, SectionOf(p, m).body, bodyState(g.body) # NoStop
  PROVE  \/ Run(p, m, g) = bodyState(g.body)
         \/ m.phase = "response" /\ ~TypeAllowed(SectionOf(p, m), m, g)
         \/ m.phase = "frame" /\ m.binary /\ Run(p, m, g).outcome = "opcode"
<1>1. CASE m.phase = "request"
  BY <1>1, RequestRun
<1>2. CASE m.phase = "response"
  BY <1>2, ResponseRun
<1>3. CASE m.phase = "frame"
  <2>1. m.binary => \E f : Run(p, m, g) = Outcome("opcode", f)
    BY <1>3, FrameRun
  <2>2. m.binary => Run(p, m, g).outcome = "opcode"
    BY <2>1, OutcomeFields
  <2>3. ~m.binary => Run(p, m, g) = bodyState(g.body)
    BY <1>3, FrameRun
  <2> QED
    BY <1>3, <2>2, <2>3
<1> QED
  BY <1>1, <1>2, <1>3 DEF Phases

\* A captured body that is over the limits or does not parse is never let pass,
\* whatever the store returns for it (body.go finish, validate.go).
THEOREM WhatWasCapturedIsJudged == Spec => []CapturedBodyIsJudged
<1>1. HandlerInv => CapturedBodyIsJudged
  <2> DEFINE loc == msg.store.body
  <2> SUFFICES ASSUME HandlerInv, Judged, Answer.verdict = "allow",
                      Profile.mode = "enforce", Section.body,
                      loc.kind = "located", loc.content \in {"big", "deep", "garbage"}, ~loc.truncated,
                      Digested(loc) \/ loc.enc # "none"
               PROVE  \/ Section.rules[RuleOfContent(loc.content)].action = "allow"
                      \/ msg.phase = "response" /\ ~TypeAllowed(Section, msg, got)
                      \/ msg.phase = "frame" /\ msg.binary /\ RuleOf("opcode").action = "allow"
    BY DEF CapturedBodyIsJudged
  <2>1. /\ Sentence /\ Parse(msg) /\ msg.phase \in Phases /\ ~msg.release /\ msg \in Messages
        /\ Taken /\ Fetched /\ Checked
    BY WhatWasJudged DEF Judged, HandlerInv, Sentence
  <2>2. out = Run(Profile, msg, got) /\ Section = SectionOf(Profile, msg)
    BY <2>1 DEF Checked, Section
  <2>3. got.body = Failed \/ got.body = Given(loc.content, loc.truncated)
    BY <2>1, CapturedOrFailed
  <2>4. out.outcome # "ok" => RuleOf(out.outcome).action = "allow"
    <3>1. RuleOf(out.outcome).action \in Actions /\ "error" \notin Actions
      BY RuleActs DEF RuleOf, Actions
    <3> QED
      BY <3>1, EnforcedRule
  <2>5. CASE got.body = Failed
    <3>1. msg.phase = "frame" /\ msg.binary
      BY <2>5, FailedIsFault, FaultsNotJudged
    <3>2. PICK f : out = Outcome("opcode", f)
      BY <2>2, <3>1, FrameRun
    <3>3. out.outcome = "opcode"
      BY <3>2, OutcomeFields
    <3> QED
      BY <2>4, <3>1, <3>3
  <2>6. CASE got.body = Given(loc.content, loc.truncated)
    <3> DEFINE stop == bodyState(got.body)
    <3>1. stop # NoStop /\ stop.outcome \in Stops /\ policy(stop.outcome) = RuleOfContent(loc.content)
      BY <2>6, GivenStops
    <3>2. \/ out = stop
          \/ msg.phase = "response" /\ ~TypeAllowed(Section, msg, got)
          \/ msg.phase = "frame" /\ msg.binary /\ out.outcome = "opcode"
      BY <2>1, <2>2, <3>1, StoppedRun
    <3> HIDE DEF stop
    <3>3. CASE out = stop
      <4>1. SectionName(msg) \in Sections
        BY <2>1, NamesASection
      <4>2. policy(out.outcome) \in Rules(SectionName(msg)) /\ out.outcome # "ok"
        BY <3>1, <3>3, <4>1, StopsHaveRules DEF Stops
      <4>3. RuleOf(out.outcome) = Section.rules[policy(out.outcome)]
        BY <2>1, <4>2, RuleFound
      <4> QED
        BY <2>4, <3>1, <3>3, <4>2, <4>3
    <3> QED
      BY <2>4, <3>2, <3>3
  <2> QED
    BY <2>3, <2>5, <2>6
<1> QED
  BY <1>1, HandlerIsInvariant, PTL

-----------------------------------------------------------------------------
(* The asks of a reply.                                                    *)

\* Asks are outcomes that fired, of the section that speaks for the message.
Spoken(asks) ==
  asks # {} =>
    /\ view \in DOMAIN Snapshot /\ Known(view, msg) /\ msg.phase \in Phases
    /\ \A i \in asks : i \in fired /\ i \in DOMAIN Section.outcomes /\ Asks(Section.outcomes[i])

\* A reply that is built or sent asks for nothing else.
AskedInv ==
  /\ pc \in {"lists", "send"} => Spoken(reply.asks)
  /\ Done => Spoken(sent[1].asks)

\* A reply may ask for nothing.
LEMMA NoAsks == Spoken({})
BY DEF Spoken

\* The asks of a shed are those of the profile in force.
LEMMA ShedSpeaks ==
  ASSUME Shed, cur \in DOMAIN Snapshot
  PROVE  Spoken(reply.asks)'
<1>1. msg' = msg /\ fired' = OverloadOnShed(shed') /\ view' = IF Known(cur, msg) THEN cur ELSE None
  BY DEF Shed
<1> DEFINE outcomes == IF fired' = {} THEN <<>> ELSE ProfileIn(cur).request.outcomes
<1>2. reply'.asks = AsksOf(outcomes, fired')
  BY ReplyFields DEF Shed
<1>3. CASE fired' = {}
  BY <1>2, <1>3 DEF AsksOf, Spoken
<1>4. CASE fired' # {}
  <2>1. /\ msg.phase = "request" /\ Known(cur, msg)
        /\ fired' = FireOverload(ProfileIn(cur).request.outcomes, fill, TRUE, msg.addr)
    BY <1>1, <1>4 DEF OverloadOnShed
  <2>2. view' = cur
    BY <1>1, <2>1
  <2>3. Section' = SectionOf(ProfileIn(cur), msg)
    BY <1>1, <2>2 DEF Section, Profile, ProfileIn
  <2>4. Section' = ProfileIn(cur).request
    BY <2>1, <2>3, RequestSection
  <2>5. \A i \in reply'.asks : i \in fired' /\ Asks(Section'.outcomes[i])
    BY <1>2, <1>4, <2>4 DEF AsksOf
  <2>6. fired' \subseteq DOMAIN Section'.outcomes
    BY <2>1, <2>4 DEF FireOverload
  <2> QED
    BY <1>1, <2>1, <2>2, <2>5, <2>6 DEF Spoken, Known, Phases
<1> QED
  BY <1>3, <1>4

\* The outcomes that a decision fires are among those of the section.
LEMMA FiredAreOutcomes ==
  ASSUME NEW d
  PROVE  FiredBy(d) \subseteq DOMAIN Section.outcomes
BY DEF FiredBy, Fire, FireOverload

\* The asks of a decision are those of the profile that was taken.
LEMMA JudgeSpeaks ==
  ASSUME Judge, ControlInv, StageInv
  PROVE  Spoken(reply.asks)'
<1>1. pc = "decide" /\ view' = view /\ msg' = msg
  BY DEF Judge
<1>2. Section' = Section /\ Taken /\ msg.phase \in Phases
  BY <1>1, SameSection, ParsedOrRefused DEF StageInv, ControlInv, Parse
<1>3. reply' = ReplyOf(dec', AsksOf(Section.outcomes, fired'), Section.deny) /\ fired' = FiredBy(dec')
  BY DEF Judge, FiredBy
<1>4. reply'.asks = AsksOf(Section.outcomes, fired')
  BY <1>3, ReplyOfFields
<1>5. \A i \in reply'.asks : i \in fired' /\ Asks(Section.outcomes[i])
  BY <1>4 DEF AsksOf
<1>6. fired' \subseteq DOMAIN Section.outcomes
  BY <1>3, FiredAreOutcomes
<1> QED
  BY <1>1, <1>2, <1>5, <1>6 DEF Spoken, Known, Taken

\* Every step keeps the asks of the reply to what fired.
LEMMA AskedKept ==
  ASSUME HandlerInv, AskedInv, [Next]_vars
  PROVE  AskedInv'
<1>0. ControlInv /\ StageInv /\ cur \in DOMAIN Snapshot
  BY DEF HandlerInv
<1>1. CASE Refuse \/ Send \/ Panic
  <2>1. pc # "done" /\ pc' = "done" /\ view' = view /\ msg' = msg /\ fired' = fired
    BY <1>1 DEF Refuse, Send, Panic, judgeVars, fireVars
  <2>2. sent' # <<>> => sent'[1].asks = {} \/ (pc = "send" /\ sent'[1].asks = reply.asks)
    <3>1. CASE Refuse
      <4>1. \E audit \in BOOLEAN : send(ErrorReply(Refusal(msg)), audit)
        BY <3>1 DEF Refuse, Parse
      <4> QED
        BY <1>0, <2>1, <4>1, SentReply, ErrorFields
    <3>2. CASE Send
      <4>1. pc = "send" /\ \E audit \in BOOLEAN : send(reply, audit)
        BY <3>2 DEF Send
      <4> QED
        BY <1>0, <2>1, <4>1, SentReply
    <3>3. CASE Panic
      <4>1. \E audit \in BOOLEAN : send(ErrorReply("JSON_INTERNAL_ERROR"), audit)
        BY <3>3 DEF Panic
      <4> QED
        BY <1>0, <2>1, <4>1, SentReply, ErrorFields
    <3> QED
      BY <1>1, <3>1, <3>2, <3>3
  <2>3. sent' # <<>> => Spoken(sent'[1].asks)
    BY <2>2, NoAsks DEF AskedInv
  <2>4. sent' # <<>> => Spoken(sent[1].asks)'
    <3>1. Section' = Section
      BY <2>1, SameSection
    <3> QED
      BY <2>1, <2>3, <3>1 DEF Spoken, Known
  <2> QED
    BY <2>1, <2>4 DEF AskedInv, Done
<1>2. CASE IgnoreRelease \/ Submit \/ LoadParts
  <2>1. pc' \notin {"lists", "send"} /\ sent' = sent /\ pc # "done"
    BY <1>2 DEF IgnoreRelease, Submit, LoadParts
  <2> QED
    BY <1>0, <2>1 DEF AskedInv, Done, ControlInv
<1>3. CASE Shed
  <2>1. pc' = "lists"
    BY <1>3 DEF Shed
  <2> QED
    BY <1>0, <1>3, <2>1, ShedSpeaks DEF AskedInv, Done
<1>4. CASE Lookup \/ RunChecks
  <2>1. pc' \in {"load", "decide", "send"} /\ (pc' = "send" => reply'.asks = {})
    <3>1. \A c : plain(c).asks = {} /\ ErrorReply(c).asks = {}
      BY ReplyFields DEF plain, ErrorReply
    <3>2. CASE Lookup
      BY <3>1, <3>2 DEF Lookup, Answered
    <3>3. CASE RunChecks
      BY <3>1, <3>3 DEF RunChecks, Answered
    <3> QED
      BY <1>4, <3>2, <3>3
  <2> QED
    BY <2>1 DEF AskedInv, Spoken, Done
<1>5. CASE Judge
  <2>1. pc' = "lists"
    BY <1>5 DEF Judge
  <2> QED
    BY <1>0, <1>5, <2>1, JudgeSpeaks DEF AskedInv, Done
<1>6. CASE WriteList \/ ListsDone
  <2>1. /\ pc = "lists" /\ pc' \in {"lists", "send"} /\ view' = view /\ msg' = msg /\ fired' = fired
        /\ reply' = reply \/ reply' = ErrorReply("JSON_GEO_UNAVAILABLE")
    BY <1>6 DEF WriteList, ListsDone, Answered, AfterLists, judgeVars, fireVars
  <2>2. Spoken(reply'.asks)
    BY <2>1, NoAsks, ErrorFields DEF AskedInv
  <2>3. Section' = Section
    BY <2>1, SameSection
  <2>4. Spoken(reply.asks)'
    BY <2>1, <2>2, <2>3 DEF Spoken, Known
  <2> QED
    BY <2>1, <2>4 DEF AskedInv, Done
<1>7. CASE Reload \/ Quiet \/ UNCHANGED vars
  <2>1. /\ pc' = pc /\ view' = view /\ msg' = msg /\ fired' = fired /\ reply' = reply /\ sent' = sent
    BY <1>7 DEF Reload, Quiet, vars, judgeVars, fireVars
  <2>2. Section' = Section
    BY <2>1, SameSection
  <2> QED
    BY <2>1, <2>2 DEF AskedInv, Done, Spoken, Known
<1> QED
  BY <1>1, <1>2, <1>3, <1>4, <1>5, <1>6, <1>7 DEF Next

\* The asks of every reply have fired.
LEMMA AskedIsInvariant == Spec => []AskedInv
<1>1. Init => AskedInv
  <2>1. Init => pc = "receive"
    BY Zenon DEF Init
  <2> QED
    BY <2>1 DEF AskedInv, Done
<1>2. HandlerInv /\ AskedInv /\ [Next]_vars => AskedInv'
  BY AskedKept
<1> QED
  BY <1>1, <1>2, HandlerIsInvariant, PTL DEF Spec

-----------------------------------------------------------------------------
(* A profile that loads is one the handler can run.                        *)

\* Each phase has results of its own.
LEMMA PhaseResults ==
  ASSUME NEW p, NEW m, NEW g, NEW sec, NEW direction, NEW data
  PROVE  /\ Request(p, m, g) \in {"ok", "mismatch", "unknown_operation", "content_type"}
         /\ Frame(p, sec, m, direction, data) \in {"ok", "mismatch", "unknown_operation"}
<1>1. \A x, y : finishResult(x, y) \in {"ok", "mismatch", "content_type"}
  BY DEF finishResult
<1>2. \A x, sch, d : bySchema(x, sch, m, d) \in {"ok", "mismatch", "unknown_operation"}
  BY DEF bySchema
<1>3. Request(p, m, g) \in {"ok", "mismatch", "unknown_operation", "content_type"}
  BY <1>1, <1>2 DEF Request
<1>4. Frame(p, sec, m, direction, data) \in {"ok", "mismatch", "unknown_operation"}
  BY DEF Frame
<1> QED
  BY <1>3, <1>4

\* What the checks of each phase can come to.
LEMMA RunOutcomes ==
  ASSUME NEW p, NEW m, NEW g, m.phase \in Phases
  PROVE  LET o == Run(p, m, g).outcome IN
         \/ o \in Stops \cup {"ok", "mismatch", "unknown_operation"}
         \/ m.phase = "request" /\ o \in {"content_type", "args_unavailable"}
         \/ m.phase = "response" /\ o \in {"content_type", "status"}
         \/ m.phase = "frame" /\ o = "opcode"
<1> DEFINE stop == bodyState(g.body)
<1>1. stop # NoStop => stop.outcome \in Stops
  BY StopCases
<1>2. CASE m.phase = "request"
  <2>1. PICK f : \/ stop # NoStop /\ Run(p, m, g) = stop
                 \/ Run(p, m, g) = Outcome("args_unavailable", f)
                 \/ Run(p, m, g) = Outcome(Request(p, m, g), f)
    BY <1>2, RequestRun
  <2> HIDE DEF stop
  <2> QED
    BY <1>1, <1>2, <2>1, OutcomeFields, PhaseResults
<1>3. CASE m.phase = "response"
  <2>1. PICK f : \/ stop # NoStop /\ Run(p, m, g) = stop
                 \/ Run(p, m, g) = Outcome("ok", f)
                 \/ Run(p, m, g) = Outcome(Response(p, m, g), f)
    BY <1>3, ResponseRun
  <2> HIDE DEF stop
  <2>2. Response(p, m, g) \in Results
    BY ContractResults
  <2> QED
    BY <1>1, <1>3, <2>1, <2>2, OutcomeFields DEF Results
<1>4. CASE m.phase = "frame"
  <2>1. PICK f, sec, direction, data :
                 \/ stop # NoStop /\ Run(p, m, g) = stop
                 \/ Run(p, m, g) = Outcome("ok", f)
                 \/ Run(p, m, g) = Outcome("opcode", f)
                 \/ Run(p, m, g) = Outcome(Frame(p, sec, m, direction, data), f)
    <3>1. \/ stop # NoStop /\ Run(p, m, g) = stop
          \/ Run(p, m, g) = Outcome("ok", FALSE)
          \/ Run(p, m, g) = Outcome("opcode", FALSE)
          \/ Run(p, m, g) = Outcome(Frame(p, SectionOf(p, m), m, Direction(m), g.body.data), FALSE)
      BY <1>4, FrameRun
    <3> QED
      BY <3>1
  <2> HIDE DEF stop
  <2> QED
    BY <1>1, <1>4, <2>1, OutcomeFields, PhaseResults
<1> QED
  BY <1>2, <1>3, <1>4 DEF Phases

\* Every outcome of the checks has a rule in the section that is asked.
LEMMA OutcomesHaveRules ==
  ASSUME NEW p, NEW m, NEW g, m.phase \in Phases, Run(p, m, g).outcome # "ok"
  PROVE  policy(Run(p, m, g).outcome) \in Rules(SectionName(m))
<1> DEFINE o == Run(p, m, g).outcome
<1>1. \/ o \in Stops \cup {"mismatch", "unknown_operation"}
      \/ m.phase = "request" /\ o \in {"content_type", "args_unavailable"}
      \/ m.phase = "response" /\ o \in {"content_type", "status"}
      \/ m.phase = "frame" /\ o = "opcode"
  BY RunOutcomes
<1> HIDE DEF o
<1>2. SectionName(m) \in Sections
  BY NamesASection
<1>3. {"invalid", "unknown_operation", "unavailable"} \subseteq Rules(SectionName(m))
  BY <1>2 DEF Rules, RequestRules, ResponseRules, FrameRules
<1>4. CASE o \in Stops
  BY <1>2, <1>4, StopsHaveRules DEF o
<1>5. CASE o \in {"mismatch", "unknown_operation", "args_unavailable"}
  <2>1. policy(o) \in {"invalid", "unknown_operation", "unavailable"}
    BY <1>5 DEF policy
  <2> QED
    BY <1>3, <2>1 DEF o
<1>6. CASE m.phase \in {"request", "response"} /\ o = "content_type"
  <2>1. policy(o) = "content_type" /\ SectionName(m) \in {"request", "response"}
    BY <1>6, NamesASection DEF policy
  <2> QED
    BY <2>1 DEF Rules, RequestRules, ResponseRules, o
<1>7. CASE m.phase = "response" /\ o = "status"
  <2>1. policy(o) = "status" /\ SectionName(m) = "response"
    BY <1>7, NamesASection DEF policy
  <2> QED
    BY <2>1 DEF Rules, ResponseRules, o
<1>8. CASE m.phase = "frame" /\ o = "opcode"
  <2>1. policy(o) = "opcode" /\ SectionName(m) \in Directions
    BY <1>8, NamesASection DEF policy
  <2> QED
    BY <2>1 DEF Rules, FrameRules, Directions, o
<1> QED
  BY <1>1, <1>4, <1>5, <1>6, <1>7, <1>8

\* The first binding that matches is one of those that match.
LEMMA FirstHit ==
  ASSUME NEW s, IsList(s), NEW hits, hits \subseteq DOMAIN s, hits # {}
  PROVE  Min(hits) \in hits /\ \A i \in hits : Min(hits) <= i
<1>1. hits \subseteq Nat
  <2>1. Cardinality(DOMAIN s) \in Nat
    BY FS_CardinalityType DEF IsList
  <2> QED
    BY <2>1 DEF IsList
<1>2. \E n \in hits : \A m \in hits : n <= m
  BY <1>1, SmallestOf
<1> QED
  BY <1>2 DEF Min

\* The schema that a binding names is one of the documents.
LEMMA BoundDocuments ==
  ASSUME Taken
  PROVE  /\ \A i \in DOMAIN Profile.bindings :
              /\ Profile.bindings[i].schema \in DOMAIN Profile.docs
              /\ Profile.bindings[i].schema # None
         /\ Profile.frame.enabled => \A i \in DOMAIN Profile.frame.bindings :
              /\ Profile.frame.bindings[i].schema \in DOMAIN Profile.docs
              /\ Profile.frame.bindings[i].schema # None
<1> DEFINE q == ParseProfile(Trees[view][Named(msg)].profile)
<1>1. view \in DOMAIN Snapshot /\ Named(msg) \in DOMAIN Snapshot[view] /\ Profile.mode # "off"
  BY DEF Taken, Known
<1>2. Profile = Snapshot[view][Named(msg)]
  BY DEF Profile, ProfileIn
<1>3. /\ Validate(q) /\ q.mode # "off" /\ Profile.bindings = q.bindings /\ Profile.frame = q.frame
      /\ DOMAIN Profile.docs = Sources(q)
  BY <1>1, <1>2, LoadedIsValidated
<1> HIDE DEF q
<1>4. validateBindings(q) /\ validateFrame(q)
  BY <1>3 DEF Validate
<1>5. \A i \in DOMAIN q.bindings : q.bindings[i].schema \in Names
  BY <1>4 DEF validateBindings, validBinding
<1>6. q.frame.enabled => \A i \in DOMAIN q.frame.bindings : q.frame.bindings[i].schema \in Names
  BY <1>4 DEF validateFrame, validBinding
<1>7. \A n \in Names : n # None
  BY ProfilesAssumption
<1>8. \A i \in DOMAIN q.bindings : q.bindings[i].schema \in Sources(q)
  BY <1>5, <1>7 DEF Sources
<1>9. q.frame.enabled => \A i \in DOMAIN q.frame.bindings : q.frame.bindings[i].schema \in Sources(q)
  BY <1>6, <1>7 DEF Sources
<1> QED
  BY <1>3, <1>5, <1>6, <1>7, <1>8, <1>9

\* The lists of a profile that was taken.
LEMMA TakenLists ==
  ASSUME view \in DOMAIN Snapshot, Known(view, msg), msg.phase \in Phases
  PROVE  /\ IsList(Profile.bindings) /\ IsList(Profile.frame.bindings)
         /\ IsList(Section.outcomes) /\ Section.deny \in DenyResponses
<1>1. Named(msg) \in DOMAIN Snapshot[view] /\ Profile = Snapshot[view][Named(msg)]
  BY DEF Known, Profile, ProfileIn
<1>2. /\ IsList(Profile.bindings) /\ IsList(Profile.frame.bindings)
      /\ \A s \in {Profile.request, Profile.response, Profile.frame.c2s, Profile.frame.s2c} :
           IsList(s.outcomes)
  BY <1>1, LoadedLists
<1>3. Section \in {Profile.request, Profile.response, Profile.frame.c2s, Profile.frame.s2c}
  BY NamesASection DEF Section, SectionOf, SectionNamed, Sections
<1>4. Section.deny \in DenyResponses
  BY <1>1, NamesASection DEF Section, SectionOf, DenyResponses
<1> QED
  BY <1>2, <1>3, <1>4

\* A call that a binding covers finds the schema of the first one that does.
LEMMA PickBound ==
  ASSUME Taken, msg.phase \in Phases, NEW i \in DOMAIN Profile.bindings,
         Matches(Profile.bindings[i], msg)
  PROVE  pick(Profile, msg) # None
<1> DEFINE hits == {k \in DOMAIN Profile.bindings : Matches(Profile.bindings[k], msg)}
<1>1. IsList(Profile.bindings)
  BY TakenLists DEF Taken
<1>2. Min(hits) \in hits
  BY <1>1, FirstHit
<1>3. pick(Profile, msg) = byName(Profile, Profile.bindings[Min(hits)].schema)
  BY DEF pick
<1>4. Min(hits) \in DOMAIN Profile.bindings
  BY <1>2
<1> HIDE DEF hits
<1> QED
  BY <1>3, <1>4, BoundDocuments DEF byName

\* ... and so does a frame.
LEMMA PickFrameBound ==
  ASSUME Taken, msg.phase = "frame", NEW i \in DOMAIN Profile.frame.bindings,
         FrameMatches(Profile.frame.bindings[i], msg, Direction(msg)),
         discriminates(msg, Profile.frame.bindings[i])
  PROVE  pickFrame(Profile, msg, Direction(msg)) # None
<1> DEFINE hits == {k \in DOMAIN Profile.frame.bindings :
                      FrameMatches(Profile.frame.bindings[k], msg, Direction(msg))
                      /\ discriminates(msg, Profile.frame.bindings[k])}
<1>1. IsList(Profile.frame.bindings)
  BY TakenLists DEF Taken, Phases
<1>2. Min(hits) \in hits
  BY <1>1, FirstHit
<1>3. pickFrame(Profile, msg, Direction(msg)) =
      byName(Profile, Profile.frame.bindings[Min(hits)].schema)
  BY DEF pickFrame
<1>4. Min(hits) \in DOMAIN Profile.frame.bindings
  BY <1>2
<1>5. Profile.frame.enabled
  BY NamesASection DEF Taken, PhaseEnabled, Enabled, Phases
<1> HIDE DEF hits
<1> QED
  BY <1>3, <1>4, <1>5, BoundDocuments DEF byName

\* A call by JSON schema is unknown only when no schema is picked for it.
LEMMA UnknownIsUnbound ==
  ASSUME NEW p, NEW m, NEW g, m.phase \in Phases, p.kind = "jsonschema",
         Run(p, m, g).outcome = "unknown_operation"
  PROVE  IF m.phase = "frame" THEN pickFrame(p, m, Direction(m)) = None ELSE pick(p, m) = None
<1> DEFINE stop == bodyState(g.body)
<1>1. stop # NoStop => stop.outcome # "unknown_operation"
  BY StopCases DEF Stops
<1>2. \A sec, sch, d : bySchema(sec, sch, m, d) = "unknown_operation" => sch = None
  BY DEF bySchema
<1>3. CASE m.phase = "request"
  <2>1. PICK f : \/ stop # NoStop /\ Run(p, m, g) = stop
                 \/ Run(p, m, g) = Outcome("args_unavailable", f)
                 \/ Run(p, m, g) = Outcome(Request(p, m, g), f)
    BY <1>3, RequestRun
  <2> HIDE DEF stop
  <2>2. Request(p, m, g) = "unknown_operation"
    BY <1>1, <2>1, OutcomeFields
  <2>3. Request(p, m, g) = bySchema(p.request, pick(p, m), m, g.body.data)
    BY DEF Request
  <2> QED
    BY <1>2, <1>3, <2>2, <2>3
<1>4. CASE m.phase = "response"
  <2>1. PICK f : \/ stop # NoStop /\ Run(p, m, g) = stop
                 \/ Run(p, m, g) = Outcome("ok", f)
                 \/ Run(p, m, g) = Outcome(Response(p, m, g), f)
    BY <1>4, ResponseRun
  <2> HIDE DEF stop
  <2>2. Response(p, m, g) = "unknown_operation"
    BY <1>1, <2>1, OutcomeFields
  <2>3. Response(p, m, g) = bySchema(p.response, pick(p, m), m, g.body.data)
    BY DEF Response
  <2> QED
    BY <1>2, <1>4, <2>2, <2>3
<1>5. CASE m.phase = "frame"
  <2> DEFINE sec == SectionOf(p, m)
             d   == g.body.data
  <2>1. PICK f : \/ stop # NoStop /\ Run(p, m, g) = stop
                 \/ Run(p, m, g) = Outcome("ok", f)
                 \/ Run(p, m, g) = Outcome("opcode", f)
                 \/ Run(p, m, g) = Outcome(Frame(p, sec, m, Direction(m), d), f)
    BY <1>5, FrameRun
  <2> HIDE DEF stop, sec, d
  <2>2. Frame(p, sec, m, Direction(m), d) = "unknown_operation"
    BY <1>1, <2>1, OutcomeFields
  <2>3. pickFrame(p, m, Direction(m)) = None
    BY <2>2 DEF Frame
  <2> QED
    BY <1>5, <2>3
<1> QED
  BY <1>3, <1>4, <1>5 DEF Phases

\* An ask that is validated is on an axis its verb takes.
LEMMA AxisTaken ==
  ASSUME NEW o, validateOutcomeAsk(o)
  PROVE  Axis(o) \in outcomeVerbs[o.do]
<1>1. /\ o.do \in DOMAIN outcomeVerbs /\ o.apply \in outcomeVerbs[o.do] \cup {None}
      /\ o.apply = None => Cardinality(outcomeVerbs[o.do]) = 1 \/ auditVerb(o.do)
  BY DEF validateOutcomeAsk
<1>2. auditVerb(o.do) => "request" \in outcomeVerbs[o.do]
  BY <1>1 DEF auditVerb, outcomeVerbs
<1>3. CASE o.apply # None
  BY <1>1, <1>3 DEF Axis
<1>4. CASE o.apply = None /\ auditVerb(o.do)
  BY <1>2, <1>4 DEF Axis
<1>5. CASE o.apply = None /\ ~auditVerb(o.do)
  <2>1. Cardinality(outcomeVerbs[o.do]) = 1
    BY <1>1, <1>5
  <2>2. outcomeVerbs[o.do] # {}
    BY <2>1, FS_EmptySet
  <2> QED
    BY <1>5, <2>1, <2>2 DEF Axis
<1> QED
  BY <1>3, <1>4, <1>5

\* The outcomes of every section are validated, in a profile that is off too.
LEMMA OutcomesValidated ==
  ASSUME view \in DOMAIN Snapshot, Known(view, msg), msg.phase \in Phases,
         NEW i \in DOMAIN Section.outcomes
  PROVE  validateOutcome(SectionName(msg), Section.outcomes[i])
<1> DEFINE q == ParseProfile(Trees[view][Named(msg)].profile)
           s == SectionName(msg)
<1>1. Named(msg) \in DOMAIN Snapshot[view] /\ Profile = Snapshot[view][Named(msg)]
  BY DEF Known, Profile, ProfileIn
<1>2. /\ Validate(q)
      /\ Profile.request = q.request /\ Profile.response = q.response /\ Profile.frame = q.frame
  BY <1>1, LoadedIsValidated
<1> HIDE DEF q
<1>3. s \in Sections
  BY NamesASection
<1>4. Section = SectionNamed(q, s)
  BY <1>2, <1>3 DEF Section, SectionOf, SectionNamed
<1>5. \A k \in DOMAIN SectionNamed(q, s).outcomes :
        validateOutcome(s, SectionNamed(q, s).outcomes[k])
  BY <1>2, <1>3 DEF Validate
<1> QED
  BY <1>4, <1>5

\* A deny comes from a rule that denies, and would not have been anything else.
LEMMA DenyOfRule ==
  ASSUME NEW mode, NEW outcome, NEW percent, dec.verdict = "deny",
         dec \in Scaled(From(mode, SectionName(msg), Section.rules, outcome), percent)
  PROVE  RuleOf(outcome).action = "deny" /\ dec.would = None
<1> DEFINE rule  == RuleOf(outcome)
           score == IF rule.action = "score" THEN rule.score ELSE 0
           F     == From(mode, SectionName(msg), Section.rules, outcome)
<1>1. \/ F = Decision("allow", 0, None, None, 0)
      \/ F = Decision(rule.action, score, outcome, None, 0)
      \/ F = Decision("allow", 0, "JSON_OBSERVE", rule.action, score)
  BY FromCases DEF RuleOf
<1>2. dec \in Scaled(F, percent)
  OBVIOUS
<1> HIDE DEF rule, score, F
<1>3. CASE F = Decision("allow", 0, None, None, 0)
  BY <1>2, <1>3, ScaledFields
<1>4. CASE F = Decision("allow", 0, "JSON_OBSERVE", rule.action, score)
  BY <1>2, <1>4, ScaledFields
<1>5. CASE F = Decision(rule.action, score, outcome, None, 0)
  <2>1. rule.action = "deny" /\ dec.would = None
    BY <1>2, <1>5, ScaledFields
  <2> QED
    BY <2>1 DEF rule
<1> QED
  BY <1>1, <1>3, <1>4, <1>5

\* What a deny fires is an outcome of a deny, or of an overload.
LEMMA FiredByDeny ==
  ASSUME NEW d, d.verdict = "deny", d.would = None, NEW i \in FiredBy(d)
  PROVE  Section.outcomes[i].on \in {"deny", "overload"}
<1>1. CASE i \in Fire(Section.outcomes, d, msg.addr)
  <2>1. OutcomeMatches(Section.outcomes[i], "deny", d.score)
    BY <1>1 DEF Fire
  <2>2. \A o, score : OutcomeMatches(o, "deny", score) => o.on = "deny"
    BY DEF OutcomeMatches
  <2> QED
    BY <2>1, <2>2
<1>2. CASE i \in FireOverload(Section.outcomes, fill, FALSE, msg.addr)
  BY <1>2 DEF FireOverload
<1> QED
  BY <1>1, <1>2 DEF FiredBy

\* What Validate lets in, the handler can run (profile.go Validate, decide.go From).
THEOREM LoadedProfilesRun == Spec => []LoadedProfileRuns
<1>1. HandlerInv /\ AskedInv => LoadedProfileRuns
  <2> SUFFICES ASSUME HandlerInv, AskedInv PROVE LoadedProfileRuns
    OBVIOUS
  <2>1. ASSUME Judged
        PROVE  /\ Sentence /\ Taken /\ msg.phase \in Phases /\ sent[1] = AfterLists(Drafted, geoDown)
               /\ out = Run(Profile, msg, got)
               /\ dec \in Scaled(From(Profile.mode, SectionName(msg), Section.rules, out.outcome),
                                 ask.percent)
    BY <2>1, WhatWasJudged DEF Judged, Sentence, Checked
  <2>2. ASSUME Judged, out.outcome # "ok"
        PROVE  /\ policy(out.outcome) \in Rules(SectionName(msg))
               /\ Section.rules[policy(out.outcome)].action \in Actions
    <3>1. policy(out.outcome) \in Rules(SectionName(msg))
      BY <2>1, <2>2, OutcomesHaveRules
    <3> QED
      BY <2>1, <2>2, <3>1, RuleFound
  <2>3. ASSUME Judged, Answer.verdict = "deny"
        PROVE  Section.deny # None /\ Answer.response = Section.deny
    <3>1. Answer = AfterLists(Drafted, geoDown) /\ Answer = Drafted /\ dec.verdict = "deny"
      BY <2>1, <2>3, VerdictOfReply, ErrorFields DEF Answer, AfterLists
    <3>2. Answer.response = denyResponseOf(Section.deny)
      BY <3>1, ReplyOfFields DEF Drafted
    <3>3. RuleOf(out.outcome).action = "deny"
      BY <2>1, <2>3, <3>1, DenyOfRule
    <3>4. \E k \in Rules(SectionName(msg)) : Section.rules[k].action = "deny"
      BY <3>3 DEF RuleOf, RuleFor, Allow, Rule
    <3>5. validateRules(SectionName(msg), Section)
      BY <2>1, <2>3, RulesValid
    <3>6. Section.deny # None
      BY <3>4, <3>5 DEF validateRules
    <3> QED
      BY <3>2, <3>6 DEF denyResponseOf
  <2>4. ASSUME Judged, out.outcome = "unknown_operation", Profile.kind = "jsonschema"
        PROVE  IF msg.phase = "frame"
                 THEN \A i \in DOMAIN Profile.frame.bindings :
                        ~(FrameMatches(Profile.frame.bindings[i], msg, Direction(msg))
                          /\ discriminates(msg, Profile.frame.bindings[i]))
                 ELSE \A i \in DOMAIN Profile.bindings : ~Matches(Profile.bindings[i], msg)
    <3>1. IF msg.phase = "frame" THEN pickFrame(Profile, msg, Direction(msg)) = None
                                 ELSE pick(Profile, msg) = None
      BY <2>1, <2>4, UnknownIsUnbound
    <3>2. msg.phase # "frame" =>
            \A i \in DOMAIN Profile.bindings : ~Matches(Profile.bindings[i], msg)
      BY <2>1, <2>4, <3>1, PickBound
    <3>3. msg.phase = "frame" =>
            \A i \in DOMAIN Profile.frame.bindings :
              ~(FrameMatches(Profile.frame.bindings[i], msg, Direction(msg))
                /\ discriminates(msg, Profile.frame.bindings[i]))
      BY <2>1, <2>4, <3>1, PickFrameBound
    <3> QED
      BY <3>2, <3>3
  <2>5. ASSUME Done, ~Panicked, NEW i \in Answer.asks
        PROVE  LET o == Section.outcomes[i] IN
               /\ Axis(o) \in outcomeVerbs[o.do]
               /\ controlVerb(o.do) => o.to \notin {None, "*"}
               /\ Answer.verdict = "deny" => recordVerb(o.do) \/ o.on = "overload"
    <3> DEFINE o == Section.outcomes[i]
    <3>1. Spoken(sent[1].asks)
      BY <2>5 DEF AskedInv
    <3>2. /\ view \in DOMAIN Snapshot /\ Known(view, msg) /\ msg.phase \in Phases
          /\ i \in fired /\ i \in DOMAIN Section.outcomes /\ Asks(o)
      BY <2>5, <3>1 DEF Spoken, Answer
    <3>3. validateOutcome(SectionName(msg), o)
      BY <3>2, OutcomesValidated
    <3>4. validateOutcomeAsk(o)
      BY <3>2, <3>3 DEF validateOutcome
    <3>5. Answer.verdict = "deny" => o.on \in {"deny", "overload"}
      <4> SUFFICES ASSUME Answer.verdict = "deny" PROVE o.on \in {"deny", "overload"}
        OBVIOUS
      <4>1. dec # NoDecision
        BY <2>5 DEF HandlerInv, SilentInv, Answer
      <4>2. Judged
        BY <2>5, <4>1 DEF Judged
      <4>3. dec.verdict = "deny"
        BY <2>1, <4>2, VerdictOfReply DEF Answer
      <4>4. dec.would = None
        BY <2>1, <4>2, <4>3, DenyOfRule
      <4>5. fired = FiredBy(dec)
        BY <2>1, <4>2 DEF Sentence
      <4> QED
        BY <3>2, <4>3, <4>4, <4>5, FiredByDeny
    <3> HIDE DEF o
    <3>6. /\ controlVerb(o.do) => o.to \notin {None, "*"}
          /\ o.on = "deny" => recordVerb(o.do)
      BY <3>4 DEF validateOutcomeAsk
    <3>7. Axis(o) \in outcomeVerbs[o.do]
      BY <3>4, AxisTaken
    <3> QED
      BY <3>5, <3>6, <3>7 DEF o
  <2> QED
    BY <2>2, <2>3, <2>4, <2>5 DEF LoadedProfileRuns
<1> QED
  BY <1>1, HandlerIsInvariant, AskedIsInvariant, PTL

-----------------------------------------------------------------------------
(* Types.                                                                  *)

\* What is not yet in the invariant of the handler.
TypeInv ==
  /\ reloads \in 0..MaxReloads
  /\ shed \in Reasons \cup {None} /\ fill \in Fills \cup {0}
  /\ view = None \/ (view \in DOMAIN Snapshot /\ Known(view, msg))
  /\ got \in [Parts -> Body] /\ out.fault \in BOOLEAN
  /\ reply \in Replies
  /\ fired \subseteq Nat /\ bans \subseteq fired /\ lists \subseteq fired /\ lost \subseteq fired
  /\ geoDown \in BOOLEAN
  /\ sent \in Seq(Replies) /\ audited \in Seq(Replies)

\* What follows of the types from the stage a message is at.
StageTypes ==
  /\ dec \in Decisions
  /\ pc \in {"lists", "send"} => reply.asks \subseteq Nat
  /\ pc = "validate" => got \in [Parts -> Body]
  /\ pc = "decide" => Section.deny \in DenyResponses

\* A list is numbered.
LEMMA ListIsNumbered ==
  ASSUME NEW s, IsList(s)
  PROVE  DOMAIN s \subseteq Nat
<1>1. Cardinality(DOMAIN s) \in Nat
  BY FS_CardinalityType DEF IsList
<1> QED
  BY <1>1 DEF IsList

\* A decision has the fields of one.
LEMMA DecisionFields ==
  ASSUME NEW v \in Verdicts \cup {None}, NEW x \in 0..100, NEW c \in DecisionCodes,
         NEW w \in Verdicts \cup {None}, NEW y \in 0..100
  PROVE  Decision(v, x, c, w, y) \in Decisions
BY DEF Decision, Decisions

\* The decision is one, whatever the rule and the asks.
LEMMA DecisionTyped ==
  ASSUME HandlerInv, AskInv
  PROVE  dec \in Decisions
<1>1. CASE dec = NoDecision
  <2>1. None \in DecisionCodes /\ None \in Verdicts \cup {None} /\ 0 \in 0..100
    BY DEF DecisionCodes
  <2> QED
    BY <1>1, <2>1, DecisionFields DEF NoDecision
<1>2. CASE dec # NoDecision
  <2> DEFINE rule  == RuleOf(out.outcome)
             score == IF rule.action = "score" THEN rule.score ELSE 0
             F     == From(Profile.mode, SectionName(msg), Section.rules, out.outcome)
  <2>1. Sentence /\ msg.phase \in Phases
    BY <1>2, WhatWasJudged
  <2>2. Taken /\ out = Run(Profile, msg, got) /\ dec \in Scaled(F, ask.percent)
    BY <2>1 DEF Sentence, Checked
  <2>3. out.outcome # "ok" => out.outcome \in DecisionCodes
    BY <2>1, <2>2, RunOutcomes DEF DecisionCodes, Stops
  <2>4. rule.action \in Verdicts
    BY RuleActs DEF RuleOf, Actions, Verdicts
  <2>5. score \in 0..100
    <3>1. Allow.score = 0
      BY DEF Allow, Rule
    <3>2. \A k \in Rules(SectionName(msg)) : Section.rules[k].score \in 0..100
      BY <2>1, <2>2, RulesValid DEF validateRules
    <3> QED
      BY <3>1, <3>2 DEF RuleOf, RuleFor
  <2>6. rule.action # "score" => score = 0
    OBVIOUS
  <2>7. \/ F = Decision("allow", 0, None, None, 0)
        \/ out.outcome # "ok" /\ F = Decision(rule.action, score, out.outcome, None, 0)
        \/ F = Decision("allow", 0, "JSON_OBSERVE", rule.action, score)
    BY FromCases DEF RuleOf
  <2> HIDE DEF rule, score, F
  <2>8. \A z \in ScaleScore(score, ask.percent) : z \in 0..100
    BY <2>5, ScaleBounds DEF AskInv
  <2>9. /\ "allow" \in Verdicts /\ 0 \in 0..100 /\ None # "score"
        /\ None \in DecisionCodes /\ "JSON_OBSERVE" \in DecisionCodes
    BY NoneIsNothing DEF Verdicts, DecisionCodes
  <2>10. CASE F = Decision("allow", 0, None, None, 0)
    <3>1. dec = Decision("allow", 0, None, None, 0)
      BY <2>2, <2>9, <2>10, ScaledIs
    <3> QED
      BY <3>1, <2>9, DecisionFields
  <2>11. CASE out.outcome # "ok" /\ F = Decision(rule.action, score, out.outcome, None, 0)
    <3>1. PICK x, y : /\ dec = Decision(rule.action, x, out.outcome, None, y)
                      /\ rule.action = "score" => x \in ScaleScore(score, ask.percent)
                      /\ rule.action # "score" => x = score
                      /\ None # "score" => y = 0
      BY <2>2, <2>11, ScaledIs
    <3>2. x \in 0..100 /\ y \in 0..100
      BY <3>1, <2>5, <2>8, <2>9
    <3> QED
      BY <3>1, <3>2, <2>3, <2>4, <2>11, DecisionFields
  <2>12. CASE F = Decision("allow", 0, "JSON_OBSERVE", rule.action, score)
    <3>1. PICK x, y : /\ dec = Decision("allow", x, "JSON_OBSERVE", rule.action, y)
                      /\ x = 0
                      /\ rule.action = "score" => y \in ScaleScore(score, ask.percent)
                      /\ rule.action # "score" => y = score
      BY <2>2, <2>12, ScaledIs
    <3>2. x \in 0..100 /\ y \in 0..100
      BY <3>1, <2>5, <2>8, <2>9
    <3> QED
      BY <3>1, <3>2, <2>4, <2>9, DecisionFields
  <2> QED
    BY <2>7, <2>10, <2>11, <2>12
<1> QED
  BY <1>1, <1>2

\* The stage a message is at says these types.
LEMMA StageIsTyped == Spec => []StageTypes
<1>1. HandlerInv /\ AskInv /\ AskedInv => StageTypes
  <2> SUFFICES ASSUME HandlerInv, AskInv, AskedInv PROVE StageTypes
    OBVIOUS
  <2>1. dec \in Decisions
    BY DecisionTyped
  <2>2. ASSUME pc \in {"lists", "send"} PROVE reply.asks \subseteq Nat
    <3>1. Spoken(reply.asks)
      BY <2>2 DEF AskedInv
    <3>2. CASE reply.asks = {}
      BY <3>2
    <3>3. CASE reply.asks # {}
      <4>1. /\ view \in DOMAIN Snapshot /\ Known(view, msg) /\ msg.phase \in Phases
            /\ reply.asks \subseteq DOMAIN Section.outcomes
        BY <3>1, <3>3 DEF Spoken
      <4>2. IsList(Section.outcomes)
        BY <4>1, TakenLists
      <4> QED
        BY <4>1, <4>2, ListIsNumbered
    <3> QED
      BY <3>2, <3>3
  <2>3. pc \in {"validate", "decide"} => msg \in Messages /\ Parse(msg) /\ ~msg.release /\ Fetched
    BY ParsedOrRefused DEF HandlerInv, ControlInv, StageInv
  <2>4. ASSUME pc = "validate" PROVE got \in [Parts -> Body]
    <3>1. got = [part \in Parts |-> got[part]] /\ \A part \in Parts : got[part] \in Body
      BY <2>3, <2>4, FetchedShape DEF Fetched
    <3> QED
      BY <3>1
  <2>5. ASSUME pc = "decide" PROVE Section.deny \in DenyResponses
    <3>1. view \in DOMAIN Snapshot /\ Known(view, msg)
      BY <2>5 DEF HandlerInv, StageInv, Taken
    <3> QED
      BY <2>3, <2>5, <3>1, TakenLists DEF Parse
  <2> QED
    BY <2>1, <2>2, <2>4, <2>5 DEF StageTypes
<1> QED
  BY <1>1, HandlerIsInvariant, AskIsKept, AskedIsInvariant, PTL

\* The replies that no decision makes are replies.
LEMMA PlainReplies ==
  /\ \A c \in ReplyCodes : ErrorReply(c) \in Replies /\ plain(c) \in Replies
  /\ NoReply \in Replies
<1>1. \A v \in Verdicts \cup {None}, c \in ReplyCodes : Reply(v, c, 0, {}) \in Replies
  BY DEF Reply, Replies
<1>2. "error" \in Verdicts /\ "allow" \in Verdicts /\ None \in ReplyCodes
  BY DEF Verdicts, ReplyCodes, DecisionCodes
<1> QED
  BY <1>1, <1>2 DEF ErrorReply, plain, NoReply

\* So is the reply of a decision.
LEMMA ReplyOfTyped ==
  ASSUME NEW d \in Decisions, NEW a \in SUBSET Nat, NEW deny \in DenyResponses
  PROVE  ReplyOf(d, a, deny) \in Replies
<1> DEFINE q == IF d.verdict = "deny" THEN denyResponseOf(deny) ELSE None
<1>1. /\ d.verdict \in Verdicts \cup {None} /\ d.score \in 0..100 /\ d.code \in DecisionCodes
  BY DEF Decisions
<1>2. ReplyOf(d, a, deny) = [Reply(d.verdict, d.code, d.score, a) EXCEPT !.response = q]
  BY <1>1 DEF ReplyOf
<1>3. q \in DenyResponses \cup {None, defaultDenyResponse}
  BY DEF denyResponseOf
<1> HIDE DEF q
<1>4. d.code \in ReplyCodes
  BY <1>1 DEF ReplyCodes
<1> QED
  BY <1>1, <1>2, <1>3, <1>4 DEF Reply, Replies

\* What is published is a sequence of replies.
LEMMA SentTyped ==
  ASSUME sent \in Seq(Replies), audited \in Seq(Replies), NEW r \in Replies, NEW audit, send(r, audit)
  PROVE  sent' \in Seq(Replies) /\ audited' \in Seq(Replies)
<1>1. Append(sent, r) \in Seq(Replies) /\ Append(audited, r) \in Seq(Replies)
  OBVIOUS
<1> QED
  BY <1>1 DEF send

\* The checks say whether there was a fault.
LEMMA FaultIsBoolean ==
  ASSUME NEW p, NEW m, NEW g \in [Parts -> Body], m.phase \in Phases
  PROVE  Run(p, m, g).fault \in BOOLEAN
<1> DEFINE stop == bodyState(g.body)
<1>1. g.body \in Body /\ g.args \in Body
  BY DEF Parts
<1>2. g.body.fault \in BOOLEAN
  BY <1>1 DEF Body
<1>3. \E o : \E f \in BOOLEAN : stop = Outcome(o, f)
  <2> DEFINE b == g.body
  <2> HIDE DEF b
  <2>1. \E o : \E f \in BOOLEAN : bodyState(b) = Outcome(o, f)
    BY <1>2 DEF bodyState, NoStop, b
  <2> QED
    BY <2>1 DEF b
<1>4. \E o : \E f \in BOOLEAN : Run(p, m, g) = Outcome(o, f)
  <2> HIDE DEF stop
  <2>1. CASE m.phase = "request"
    <3> DEFINE late == /\ SectionOf(p, m).query /\ m.argsSize /\ (g.args.unavailable \/ ~m.needArgs)
                       /\ g.args.fault
    <3>1. late \in BOOLEAN
      OBVIOUS
    <3>2. Run(p, m, g) = stop \/ \E o : Run(p, m, g) = Outcome(o, late)
      BY <2>1, RequestRun DEF stop
    <3> HIDE DEF late
    <3> QED
      BY <1>3, <3>1, <3>2
  <2>2. CASE m.phase = "response"
    <3>1. \/ Run(p, m, g) = stop \/ Run(p, m, g) = Outcome("ok", FALSE)
          \/ Run(p, m, g) = Outcome(Response(p, m, g), FALSE)
      BY <2>2, ResponseRun DEF stop
    <3> QED
      BY <1>3, <3>1
  <2>3. CASE m.phase = "frame"
    <3>1. \/ Run(p, m, g) = stop \/ Run(p, m, g) = Outcome("ok", FALSE)
          \/ Run(p, m, g) = Outcome("opcode", FALSE)
          \/ Run(p, m, g) = Outcome(Frame(p, SectionOf(p, m), m, Direction(m), g.body.data), FALSE)
      BY <2>3, FrameRun DEF stop
    <3> QED
      BY <1>3, <3>1
  <2> QED
    BY <2>1, <2>2, <2>3 DEF Phases
<1> QED
  BY <1>4, OutcomeFields

\* The next write is one of those to be made.
LEMMA NextBanIsOne ==
  ASSUME bans # {}, bans \subseteq Nat
  PROVE  NextBan \in bans
<1> DEFINE late == {i \in bans : Section.outcomes[i].on = "overload"}
           S    == IF late # bans THEN bans \ late ELSE bans
<1>1. S \subseteq bans /\ S # {} /\ NextBan = Min(S)
  BY DEF NextBan
<1> HIDE DEF S
<1>2. \E n \in S : \A m \in S : n <= m
  BY <1>1, SmallestOf
<1> QED
  BY <1>1, <1>2 DEF Min

\* The replies of the handler's own are about something that is known.
LEMMA OwnCodes ==
  /\ {"JSON_UNKNOWN_PROFILE", "JSON_PROFILE_OFF", "JSON_PHASE_DISABLED", "JSON_SKIPPED",
      "JSON_STORE_UNAVAILABLE", "JSON_GEO_UNAVAILABLE", "JSON_INTERNAL_ERROR"} \subseteq ReplyCodes
  /\ \A m : Refusal(m) \in ReplyCodes
<1>1. \A m : Refusal(m) \in {"JSON_MALFORMED_REQUEST", "JSON_UNSUPPORTED_VERSION",
                             "JSON_PHASE_NOT_SUPPORTED", None}
  BY DEF Refusal
<1> QED
  BY <1>1 DEF ReplyCodes, DecisionCodes

\* The outcomes that fire have numbers.
LEMMA FiredAreNumbers ==
  ASSUME view \in DOMAIN Snapshot, Known(view, msg), msg.phase \in Phases, NEW d
  PROVE  FiredBy(d) \subseteq Nat
<1>1. DOMAIN Section.outcomes \subseteq Nat
  BY TakenLists, ListIsNumbered
<1> QED
  BY <1>1, FiredAreOutcomes

\* The snapshot that was taken stays.
LEMMA SameView ==
  ASSUME view = None \/ (view \in DOMAIN Snapshot /\ Known(view, msg)), view' = view, msg' = msg
  PROVE  (view = None \/ (view \in DOMAIN Snapshot /\ Known(view, msg)))'
BY DEF Known

\* The steps that publish a reply keep the types.
LEMMA SendTypes ==
  ASSUME TypeInv, Refuse \/ Send \/ Panic
  PROVE  TypeInv'
<1>1. /\ reloads' = reloads /\ shed' = shed /\ fill' = fill /\ view' = view /\ msg' = msg /\ got' = got
      /\ out' = out /\ reply' = reply /\ fired' = fired /\ bans' = bans /\ lists' = lists
      /\ lost' = lost /\ geoDown' = geoDown
  BY DEF Refuse, Send, Panic, judgeVars, fireVars, queueVars
<1>2. \E r \in Replies : \E audit : send(r, audit)
  <2>1. CASE Refuse
    BY <2>1, PlainReplies, OwnCodes DEF Refuse
  <2>2. CASE Send
    BY <2>2 DEF Send, TypeInv
  <2>3. CASE Panic
    BY <2>3, PlainReplies, OwnCodes DEF Panic
  <2> QED
    BY <2>1, <2>2, <2>3
<1>3. sent' \in Seq(Replies) /\ audited' \in Seq(Replies)
  BY <1>2, SentTyped DEF TypeInv
<1> QED
  BY <1>1, <1>3, SameView DEF TypeInv

\* A shed keeps the types.
LEMMA ShedTypes ==
  ASSUME TypeInv, Shed, cur \in DOMAIN Snapshot, lists = {}, lost = {}, StageTypes'
  PROVE  TypeInv'
<1>1. /\ reloads' = reloads /\ fill' = fill /\ msg' = msg /\ got' = got /\ out' = out /\ lists' = lists
      /\ lost' = lost /\ geoDown' = geoDown /\ sent' = sent /\ audited' = audited /\ pc' = "lists"
      /\ shed' \in Reasons /\ view' = IF Known(cur, msg) THEN cur ELSE None
      /\ fired' = OverloadOnShed(shed')
  BY DEF Shed
<1> DEFINE outcomes == IF fired' = {} THEN <<>> ELSE ProfileIn(cur).request.outcomes
           asks     == AsksOf(outcomes, fired')
<1>2. reply' = Reply("error", shed', 0, asks) /\ bans' = BansOf(outcomes, fired')
  BY DEF Shed
<1>3. bans' \subseteq fired'
  BY <1>2 DEF BansOf
<1> HIDE DEF outcomes, asks
<1>4. asks \subseteq Nat
  BY <1>1, <1>2, ReplyFields DEF StageTypes
<1>5. reply' \in Replies
  <2>1. "error" \in Verdicts /\ shed' \in ReplyCodes /\ 0 \in 0..100
    BY <1>1 DEF Verdicts, ReplyCodes
  <2> QED
    BY <1>2, <1>4, <2>1 DEF Reply, Replies
<1>6. fired' \subseteq Nat
  <2>1. CASE fired' = {}
    BY <2>1
  <2>2. CASE fired' # {}
    <3>1. /\ Known(cur, msg)
          /\ fired' = FireOverload(ProfileIn(cur).request.outcomes, fill, TRUE, msg.addr)
      BY <1>1, <2>2 DEF OverloadOnShed
    <3>2. fired' \subseteq DOMAIN ProfileIn(cur).request.outcomes
      BY <3>1 DEF FireOverload
    <3>3. IsList(ProfileIn(cur).request.outcomes)
      BY <3>1, LoadedLists DEF Known, ProfileIn
    <3> QED
      BY <3>2, <3>3, ListIsNumbered
  <2> QED
    BY <2>1, <2>2
<1>7. lists' \subseteq fired' /\ lost' \subseteq fired'
  BY <1>1
<1>8. (view = None \/ (view \in DOMAIN Snapshot /\ Known(view, msg)))'
  BY <1>1 DEF Known
<1> QED
  BY <1>1, <1>3, <1>5, <1>6, <1>7, <1>8 DEF TypeInv

\* A decision keeps the types.
LEMMA JudgeTypes ==
  ASSUME TypeInv, Judge, HandlerInv, StageTypes, StageTypes'
  PROVE  TypeInv'
<1>1. /\ reloads' = reloads /\ shed' = shed /\ fill' = fill /\ view' = view /\ msg' = msg /\ got' = got
      /\ out' = out /\ lists' = lists /\ lost' = lost /\ geoDown' = geoDown /\ sent' = sent /\ audited' = audited
      /\ pc = "decide" /\ pc' = "lists"
  BY DEF Judge, queueVars
<1> DEFINE asks == AsksOf(Section.outcomes, fired')
<1>2. /\ fired' = FiredBy(dec') /\ bans' = BansOf(Section.outcomes, fired')
      /\ reply' = ReplyOf(dec', asks, Section.deny)
  BY DEF Judge, FiredBy
<1>3. bans' \subseteq fired'
  BY <1>2 DEF BansOf
<1> HIDE DEF asks
<1>4. dec' \in Decisions /\ asks \subseteq Nat /\ Section.deny \in DenyResponses
  BY <1>1, <1>2, ReplyOfFields DEF StageTypes
<1>5. reply' \in Replies
  BY <1>2, <1>4, ReplyOfTyped
<1>6. Taken /\ msg.phase \in Phases /\ lists = {} /\ lost = {}
  BY <1>1, ParsedOrRefused DEF HandlerInv, ControlInv, StageInv, Parse, Unspoken, Early
<1>7. fired' \subseteq Nat
  BY <1>2, <1>6, FiredAreNumbers DEF Taken
<1> QED
  BY <1>1, <1>3, <1>5, <1>6, <1>7, SameView DEF TypeInv

\* Every step keeps the types.
LEMMA TypesKept ==
  ASSUME HandlerInv, StageTypes, StageTypes', TypeInv, [Next]_vars
  PROVE  TypeInv'
<1>0. cur \in DOMAIN Snapshot /\ (pc \in Early => lists = {} /\ lost = {})
  BY DEF HandlerInv, StageInv, Unspoken
<1>1. CASE Refuse \/ Send \/ Panic
  BY <1>1, SendTypes
<1>2. CASE IgnoreRelease \/ Submit
  <2>1. /\ reloads' = reloads /\ shed' = shed /\ fill' \in Fills \cup {fill} /\ view' = view /\ msg' = msg
        /\ got' = got /\ out' = out /\ reply' = reply /\ fired' = fired /\ bans' = bans /\ lists' = lists
        /\ lost' = lost /\ geoDown' = geoDown /\ sent' = sent /\ audited' = audited
    BY <1>2 DEF IgnoreRelease, Submit, judgeVars, fireVars, queueVars
  <2> QED
    BY <2>1, SameView DEF TypeInv
<1>3. CASE Shed
  <2>1. lists = {} /\ lost = {}
    BY <1>0, <1>3 DEF Shed, Early
  <2> QED
    BY <1>0, <1>3, <2>1, ShedTypes
<1>4. CASE Lookup
  <2>1. /\ reloads' = reloads /\ shed' = shed /\ fill' = fill /\ msg' = msg
        /\ got' = got /\ out' = out /\ fired' = fired /\ bans' = bans /\ lists' = lists
        /\ lost' = lost /\ geoDown' = geoDown /\ sent' = sent /\ audited' = audited
        /\ view' = view \/ (Known(cur, msg) /\ view' = cur)
    BY <1>4 DEF Lookup, fireVars, queueVars
  <2>2. \/ reply' = reply \/ reply' = ErrorReply("JSON_UNKNOWN_PROFILE")
        \/ \E c \in {"JSON_PROFILE_OFF", "JSON_PHASE_DISABLED", "JSON_SKIPPED"} : reply' = plain(c)
    BY <1>4 DEF Lookup, Answered
  <2>3. reply' \in Replies
    BY <2>2, PlainReplies, OwnCodes DEF TypeInv
  <2>4. (view = None \/ (view \in DOMAIN Snapshot /\ Known(view, msg)))'
    BY <1>0, <2>1 DEF TypeInv, Known
  <2> QED
    BY <2>1, <2>3, <2>4 DEF TypeInv
<1>5. CASE LoadParts
  <2>1. /\ reloads' = reloads /\ shed' = shed /\ fill' = fill /\ view' = view /\ msg' = msg
        /\ out' = out /\ reply' = reply /\ fired' = fired /\ bans' = bans /\ lists' = lists
        /\ lost' = lost /\ geoDown' = geoDown /\ sent' = sent /\ audited' = audited /\ pc' = "validate"
    BY <1>5 DEF LoadParts, fireVars, queueVars
  <2>2. got' \in [Parts -> Body]
    BY <2>1 DEF StageTypes
  <2> QED
    BY <2>1, <2>2, SameView DEF TypeInv
<1>6. CASE RunChecks
  <2>1. /\ reloads' = reloads /\ shed' = shed /\ fill' = fill /\ view' = view /\ msg' = msg
        /\ got' = got /\ fired' = fired /\ bans' = bans /\ lists' = lists
        /\ lost' = lost /\ geoDown' = geoDown /\ sent' = sent /\ audited' = audited /\ pc = "validate"
        /\ out' = Run(Profile, msg, got)
    BY <1>6 DEF RunChecks, fireVars, queueVars
  <2>2. reply' = reply \/ reply' = ErrorReply("JSON_STORE_UNAVAILABLE")
    BY <1>6 DEF RunChecks, Answered
  <2>3. reply' \in Replies
    BY <2>2, PlainReplies, OwnCodes DEF TypeInv
  <2>4. msg.phase \in Phases
    BY <2>1, ParsedOrRefused DEF HandlerInv, ControlInv, Parse
  <2>5. out'.fault \in BOOLEAN
    BY <2>1, <2>4, FaultIsBoolean DEF TypeInv
  <2> QED
    BY <2>1, <2>3, <2>5, SameView DEF TypeInv
<1>7. CASE Judge
  BY <1>7, JudgeTypes
<1>8. CASE WriteList
  <2>1. /\ reloads' = reloads /\ shed' = shed /\ fill' = fill /\ view' = view /\ msg' = msg
        /\ got' = got /\ out' = out /\ reply' = reply /\ fired' = fired /\ sent' = sent
        /\ audited' = audited /\ bans' = bans \ {NextBan} /\ bans # {}
    BY <1>8 DEF WriteList, judgeVars, queueVars
  <2>2. lists' \in {lists, lists \cup {NextBan}} /\ lost' \in {lost, lost \cup {NextBan}}
    BY <1>8 DEF WriteList
  <2>3. geoDown' = geoDown \/ geoDown' \in BOOLEAN
    BY <1>8 DEF WriteList
  <2>4. NextBan \in fired
    BY <2>1, NextBanIsOne DEF TypeInv
  <2>5. bans' \subseteq fired /\ lists' \subseteq fired /\ lost' \subseteq fired
    BY <2>1, <2>2, <2>4 DEF TypeInv
  <2> QED
    BY <2>1, <2>3, <2>5, SameView DEF TypeInv
<1>9. CASE ListsDone
  <2>1. /\ reloads' = reloads /\ shed' = shed /\ fill' = fill /\ view' = view /\ msg' = msg
        /\ got' = got /\ out' = out /\ fired' = fired /\ bans' = bans /\ lists' = lists
        /\ lost' = lost /\ geoDown' = geoDown /\ sent' = sent /\ audited' = audited
        /\ reply' = AfterLists(reply, geoDown)
    BY <1>9 DEF ListsDone, Answered, judgeVars, fireVars, queueVars
  <2>2. reply' \in Replies
    BY <2>1, PlainReplies, OwnCodes DEF AfterLists, TypeInv
  <2> QED
    BY <2>1, <2>2, SameView DEF TypeInv
<1>10. CASE Reload \/ Quiet \/ UNCHANGED vars
  <2>1. /\ shed' = shed /\ fill' = fill /\ view' = view /\ msg' = msg
        /\ got' = got /\ out' = out /\ reply' = reply /\ fired' = fired /\ bans' = bans /\ lists' = lists
        /\ lost' = lost /\ geoDown' = geoDown /\ sent' = sent /\ audited' = audited
        /\ reloads' = reloads \/ (reloads < MaxReloads /\ reloads' = reloads + 1)
    BY <1>10 DEF Reload, Quiet, vars, judgeVars, fireVars, queueVars
  <2>2. reloads' \in 0..MaxReloads
    BY <2>1, InspectAssumption DEF TypeInv
  <2> QED
    BY <2>1, <2>2, SameView DEF TypeInv
<1> QED
  BY <1>1, <1>2, <1>3, <1>4, <1>5, <1>6, <1>7, <1>8, <1>9, <1>10 DEF Next

\* The types hold when a message has just arrived.
LEMMA TypesInit ==
  ASSUME Init
  PROVE  TypeInv
<1>1. /\ reloads = 0 /\ shed = None /\ fill = 0 /\ view = None /\ got = [part \in Parts |-> NoBody]
      /\ out = NoStop /\ reply = NoReply /\ fired = {} /\ bans = {} /\ lists = {}
      /\ lost = {} /\ geoDown \in BOOLEAN /\ sent = <<>> /\ audited = <<>>
  BY Zenon DEF Init
<1>2. NoBody \in Body /\ \E f \in BOOLEAN : NoStop = Outcome("none", f)
  BY DEF NoBody, Given, Body, Contents, NoStop
<1>3. got \in [Parts -> Body] /\ out.fault \in BOOLEAN
  BY <1>1, <1>2, OutcomeFields
<1>4. reloads \in 0..MaxReloads /\ sent \in Seq(Replies) /\ audited \in Seq(Replies)
  BY <1>1, InspectAssumption
<1>5. reply \in Replies
  BY <1>1, PlainReplies
<1> QED
  BY <1>1, <1>3, <1>4, <1>5 DEF TypeInv

\* The variables of the handler keep their types; a decision is one of the policy's,
\* and a reply names only what a loaded profile or the handler itself may say.
THEOREM HandlerTyping == Spec => []TypeOK
<1>1. Init => TypeInv
  BY TypesInit
<1>2. HandlerInv /\ StageTypes /\ StageTypes' /\ TypeInv /\ [Next]_vars => TypeInv'
  BY TypesKept
<1>3. HandlerInv /\ AskInv /\ StageTypes /\ TypeInv => TypeOK
  BY DEF HandlerInv, ControlInv, Steps, AskInv, StageTypes, TypeInv, TypeOK
<1> QED
  BY <1>1, <1>2, <1>3, HandlerIsInvariant, AskIsKept, StageIsTyped, PTL DEF Spec

-----------------------------------------------------------------------------
(* List writes that fail.                                                  *)

\* The reply to a message that was judged says the verdict, unless the network
\* directory failed.
LEMMA VerdictStands ==
  ASSUME HandlerInv, StageTypes, Done, ~Panicked, dec # NoDecision, ~geoDown
  PROVE  Answer.verdict = dec.verdict
<1>1. Answer = Drafted
  BY WhatWasJudged DEF Answer, AfterLists
<1>2. dec.score \in 0..100
  BY DEF StageTypes, Decisions
<1> QED
  BY <1>1, <1>2, ReplyOfFields DEF Drafted

\* A list write that fails does not cost the others their turn; the network directory
\* that fails withdraws the verdict, a publication that fails does not (lists.go
\* writeLists, handler.go).
THEOREM WritesAreSettled == Spec => []ListWritesSettled
<1>1. HandlerInv /\ StageTypes => ListWritesSettled
  <2> SUFFICES ASSUME HandlerInv, StageTypes, Done, ~Panicked PROVE ListWritesSettled
    BY DEF ListWritesSettled
  <2>1. CASE Parse(msg)
    <3>1. Told
      BY <2>1 DEF Told, Panicked
    <3>2. Honest(sent[1]) /\ bans = {}
      BY <3>1 DEF HandlerInv, ListInv
    <3>3. \A i \in fired : \/ Asks(Section.outcomes[i]) \/ Networked(Section.outcomes[i])
                           \/ i \in lists \cup lost
      BY <3>1, <3>2 DEF HandlerInv, ListInv
    <3>4. dec # NoDecision /\ ~geoDown => Answer.verdict = dec.verdict
      BY VerdictStands
    <3> QED
      BY <3>2, <3>3, <3>4 DEF ListWritesSettled, Honest, Answer
  <2>2. CASE ~Parse(msg)
    <3>1. Unspoken
      BY <2>2, ParsedOrRefused DEF HandlerInv, StageInv
    <3> QED
      BY <3>1 DEF Unspoken, ListWritesSettled
  <2> QED
    BY <2>1, <2>2
<1> QED
  BY <1>1, HandlerIsInvariant, StageIsTyped, PTL

-----------------------------------------------------------------------------
(* Faults of the store.                                                    *)

\* A check needs a part that the store did not give up.
StoreFails ==
  \/ got.body.fault /\ Section.body
  \/ got.args.fault /\ msg.phase = "request" /\ Section.query /\ msg.argsSize

\* Whoever hears that the store is not there hears it because of that.
StoreInv ==
  /\ pc \in {"lists", "send"} /\ reply.code = "JSON_STORE_UNAVAILABLE" => StoreFails
  /\ Done /\ sent[1].code = "JSON_STORE_UNAVAILABLE" => StoreFails

\* The checks end in a fault only for the body, or for the arguments they put off.
LEMMA FaultOfRun ==
  ASSUME NEW p, NEW m, NEW g, m.phase \in Phases, Run(p, m, g).fault
  PROVE  \/ g.body.fault /\ SectionOf(p, m).body
         \/ /\ g.args.fault /\ m.phase = "request"
            /\ SectionOf(p, m).query /\ m.argsSize
<1> DEFINE stop == bodyState(g.body)
           R    == Run(p, m, g)
           sec  == SectionOf(p, m)
<1>1. stop.fault => g.body.fault
  BY StopCases
<1>2. CASE m.phase = "request"
  <2> DEFINE late == sec.query /\ m.argsSize /\ (g.args.unavailable \/ ~m.needArgs) /\ g.args.fault
  <2>1. (sec.body /\ R = stop) \/ \E x : R = Outcome(x, late)
    BY <1>2, RequestRun
  <2> HIDE DEF stop, R, sec
  <2>2. (sec.body /\ R = stop) \/ R.fault = late
    BY <2>1, OutcomeFields
  <2> QED
    BY <1>1, <1>2, <2>2 DEF R, sec
<1>3. CASE m.phase = "response"
  <2>1. \/ sec.body /\ R = stop
        \/ \E x : R = Outcome(x, FALSE)
    BY <1>3, ResponseRun
  <2> QED
    BY <1>1, <2>1, OutcomeFields
<1>4. CASE m.phase = "frame"
  <2>1. \/ sec.body /\ R = stop
        \/ \E x : R = Outcome(x, FALSE)
    BY <1>4, FrameRun
  <2> QED
    BY <1>1, <2>1, OutcomeFields
<1> QED
  BY <1>2, <1>3, <1>4 DEF Phases

\* The other replies are about something else.
LEMMA OtherCodes ==
  /\ "JSON_STORE_UNAVAILABLE" \notin DecisionCodes
  /\ "JSON_STORE_UNAVAILABLE" \notin Reasons
  /\ \A m : Refusal(m) # "JSON_STORE_UNAVAILABLE"
<1>1. None # "JSON_STORE_UNAVAILABLE"
  BY Zenon DEF None
<1>2. \A m : Refusal(m) \in {"JSON_MALFORMED_REQUEST", "JSON_UNSUPPORTED_VERSION",
                             "JSON_PHASE_NOT_SUPPORTED", None}
  BY DEF Refusal
<1> QED
  BY <1>1, <1>2 DEF DecisionCodes, Reasons

\* What fails for the store stays so.
LEMMA SameFailure ==
  ASSUME view' = view, msg' = msg, got' = got
  PROVE  StoreFails' = StoreFails
<1>1. Section' = Section
  BY SameSection
<1> QED
  BY <1>1 DEF StoreFails

\* The codes of the replies that no decision makes.
LEMMA PlainCodes ==
  ASSUME NEW c
  PROVE  ErrorReply(c).code = c /\ plain(c).code = c
BY ReplyFields DEF ErrorReply, plain

\* A reply that is published says what was built.
LEMMA StoreSent ==
  ASSUME NEW r, NEW audit, send(r, audit), sent = <<>>, pc' = "done",
         r.code = "JSON_STORE_UNAVAILABLE" => StoreFails'
  PROVE  StoreInv'
<1>1. sent' = <<>> \/ sent' = Append(<<>>, r)
  BY DEF send
<1>2. sent' # <<>> => sent'[1] = r
  BY <1>1, OneReply
<1> QED
  BY <1>2 DEF StoreInv, Done

\* Every step keeps it.
LEMMA StoreKept ==
  ASSUME HandlerInv, StageTypes', StoreInv, [Next]_vars
  PROVE  StoreInv'
<1> USE OtherCodes
<1>0. ControlInv
  BY DEF HandlerInv
<1>1. CASE Refuse
  <2>1. pc = "receive" /\ pc' = "done" /\ send(ErrorReply(Refusal(msg)), Parse(msg))
    BY <1>1 DEF Refuse
  <2>2. sent = <<>>
    BY <1>0, <2>1 DEF ControlInv
  <2> QED
    BY <2>1, <2>2, PlainCodes, StoreSent
<1>2. CASE Panic
  <2>1. pc # "done" /\ pc' = "done" /\ send(ErrorReply("JSON_INTERNAL_ERROR"), FALSE)
    BY <1>2 DEF Panic
  <2>2. sent = <<>>
    BY <1>0, <2>1 DEF ControlInv
  <2> QED
    BY <2>1, <2>2, PlainCodes, StoreSent
<1>3. CASE Send
  <2>1. /\ pc = "send" /\ pc' = "done" /\ send(reply, TRUE)
        /\ view' = view /\ msg' = msg /\ got' = got
    BY <1>3 DEF Send, judgeVars
  <2>2. sent = <<>>
    BY <1>0, <2>1 DEF ControlInv
  <2>3. reply.code = "JSON_STORE_UNAVAILABLE" => StoreFails'
    BY <2>1, SameFailure DEF StoreInv
  <2> QED
    BY <2>1, <2>2, <2>3, StoreSent
<1>4. CASE IgnoreRelease \/ Submit \/ LoadParts
  <2>1. pc \notin {"done"} /\ pc' \notin {"lists", "send"} /\ sent' = sent
    BY <1>4 DEF IgnoreRelease, Submit, LoadParts
  <2>2. sent' = <<>>
    BY <1>0, <2>1 DEF ControlInv
  <2> QED
    BY <2>1, <2>2 DEF StoreInv, Done
<1>5. CASE Shed
  <2>1. pc' = "lists" /\ shed' \in Reasons /\ \E a : reply' = Reply("error", shed', 0, a)
    BY <1>5 DEF Shed
  <2>2. reply'.code \in Reasons
    BY <2>1, ReplyFields
  <2> QED
    BY <2>1, <2>2 DEF StoreInv, Done
<1>6. CASE Lookup
  <2>1. \/ pc' = "load"
        \/ pc' = "send" /\ \E c \in {"JSON_UNKNOWN_PROFILE", "JSON_PROFILE_OFF",
                                     "JSON_PHASE_DISABLED", "JSON_SKIPPED"} :
                             reply' = ErrorReply(c) \/ reply' = plain(c)
    BY <1>6 DEF Lookup, Answered
  <2> QED
    BY <2>1, PlainCodes DEF StoreInv, Done
<1>7. CASE RunChecks
  <2>1. /\ pc = "validate" /\ out' = Run(Profile, msg, got)
        /\ view' = view /\ msg' = msg /\ got' = got
        /\ pc' = "decide" \/ (out'.fault /\ pc' = "send")
    BY <1>7 DEF RunChecks, Answered
  <2>2. msg.phase \in Phases
    BY <1>0, <2>1, ParsedOrRefused DEF ControlInv, Parse
  <2>3. out'.fault => StoreFails
    BY <2>1, <2>2, FaultOfRun DEF StoreFails, Section
  <2> QED
    BY <2>1, <2>3, SameFailure DEF StoreInv, Done
<1>8. CASE Judge
  <2>1. pc' = "lists" /\ \E a, q : reply' = ReplyOf(dec', a, q)
    BY <1>8 DEF Judge
  <2>2. dec'.code \in DecisionCodes
    BY DEF StageTypes, Decisions
  <2>3. reply'.code \in {dec'.code, "JSON_INTERNAL_ERROR"}
    BY <2>1, ReplyOfFields
  <2> QED
    BY <2>1, <2>2, <2>3 DEF StoreInv, Done
<1>9. CASE WriteList
  <2>1. /\ pc = "lists" /\ pc' = pc /\ reply' = reply
        /\ view' = view /\ msg' = msg /\ got' = got
    BY <1>9 DEF WriteList, judgeVars
  <2> QED
    BY <2>1, SameFailure DEF StoreInv, Done
<1>10. CASE ListsDone
  <2>1. /\ pc = "lists" /\ pc' = "send" /\ reply' = AfterLists(reply, geoDown)
        /\ view' = view /\ msg' = msg /\ got' = got
    BY <1>10 DEF ListsDone, Answered, judgeVars
  <2>2. reply' = reply \/ reply'.code = "JSON_GEO_UNAVAILABLE"
    BY <2>1, PlainCodes DEF AfterLists
  <2> QED
    BY <2>1, <2>2, SameFailure DEF StoreInv, Done
<1>11. CASE Reload \/ Quiet \/ UNCHANGED vars
  <2>1. /\ pc' = pc /\ reply' = reply /\ sent' = sent
        /\ view' = view /\ msg' = msg /\ got' = got
    BY <1>11 DEF Reload, Quiet, vars, judgeVars
  <2> QED
    BY <2>1, SameFailure DEF StoreInv, Done
<1> QED
  BY <1>1, <1>2, <1>3, <1>4, <1>5, <1>6, <1>7, <1>8, <1>9, <1>10, <1>11 DEF Next

\* A body, or arguments, that a check needs and the store does not give up are an
\* error of the inspector, never a verdict, and that error has no other cause
\* (validate.go, handler.go).  Lost headers are no fault: they are judged as none.
THEOREM FaultsAreErrors == Spec => []FaultIsAnError
<1>1. Init => StoreInv
  <2> SUFFICES ASSUME Init PROVE StoreInv
    OBVIOUS
  <2>1. pc = "receive"
    BY Zenon DEF Init
  <2> QED
    BY <2>1 DEF StoreInv, Done
<1>2. HandlerInv /\ StageTypes' /\ StoreInv /\ [Next]_vars => StoreInv'
  BY StoreKept
<1>3. HandlerInv /\ StoreInv => FaultIsAnError
  <2> SUFFICES ASSUME HandlerInv, StoreInv PROVE FaultIsAnError
    OBVIOUS
  <2>1. Judged =>
          /\ got.body.fault => ~Section.body \/ (msg.phase = "frame" /\ msg.binary)
          /\ got.args.fault /\ msg.phase = "request" /\ Section.query /\ msg.argsSize =>
               Section.body /\ out.outcome \in Stops
    BY FaultsNotJudged
  <2>2. Done /\ Answer.code = "JSON_STORE_UNAVAILABLE" => StoreFails
    BY DEF StoreInv, Answer
  <2> QED
    BY <2>1, <2>2 DEF FaultIsAnError, StoreFails, Stops
<1> QED
  BY <1>1, <1>2, <1>3, HandlerIsInvariant, StageIsTyped, PTL DEF Spec

-----------------------------------------------------------------------------
(* A document that passes the checks.                                      *)

\* The schema that is picked is that of the first binding that speaks for the
\* message, or the main one.
LEMMA PickedSchema ==
  ASSUME Taken, msg.phase \in Phases,
         NEW sch, sch # None,
         sch = IF msg.phase = "frame" THEN pickFrame(Profile, msg, Direction(msg))
                                      ELSE pick(Profile, msg)
  PROVE  \/ Bound = {} /\ sch = Profile.source
         \/ \E i \in Bound : Bindings[i].schema = sch /\ \A k \in Bound : i <= k
<1>1. IsList(Bindings)
  BY TakenLists DEF Bindings, Taken
<1>2. sch = byName(Profile, IF Bound = {} THEN Profile.source ELSE Bindings[Min(Bound)].schema)
  <2>1. CASE msg.phase = "frame"
    <3>1. Bindings = Profile.frame.bindings
      BY <2>1 DEF Bindings
    <3>2. Bound = {i \in DOMAIN Profile.frame.bindings :
                     FrameMatches(Profile.frame.bindings[i], msg, Direction(msg))
                     /\ discriminates(msg, Profile.frame.bindings[i])}
      BY <2>1, <3>1 DEF Bound
    <3> QED
      BY <2>1, <3>1, <3>2 DEF pickFrame
  <2>2. CASE msg.phase # "frame"
    <3>1. Bindings = Profile.bindings
      BY <2>2 DEF Bindings
    <3>2. Bound = {i \in DOMAIN Profile.bindings : Matches(Profile.bindings[i], msg)}
      BY <2>2, <3>1 DEF Bound
    <3> QED
      BY <2>2, <3>1, <3>2 DEF pick
  <2> QED
    BY <2>1, <2>2
<1>3. sch = IF Bound = {} THEN Profile.source ELSE Bindings[Min(Bound)].schema
  BY <1>2 DEF byName
<1>4. Bound \subseteq DOMAIN Bindings
  BY DEF Bound
<1>5. Bound # {} => Min(Bound) \in Bound /\ \A k \in Bound : Min(Bound) <= k
  BY <1>1, <1>4, FirstHit
<1> QED
  BY <1>3, <1>5

\* A schema says yes to the document that was captured.
LEMMA SchemaConforms ==
  ASSUME NEW sec, NEW sch, NEW m, NEW data \in {"json", "blank"}, sec.body,
         bySchema(sec, sch, m, data) = "ok"
  PROVE  sch # None /\ data = "json" /\ sch \in m.conforms
BY DEF bySchema, SchemaAccepts

\* ... and to one that came in a frame.
LEMMA FrameConforms ==
  ASSUME NEW p, NEW sec, NEW m, NEW direction, NEW data \in {"json", "blank"}, sec.body,
         Frame(p, sec, m, direction, data) = "ok"
  PROVE  LET sch == pickFrame(p, m, direction) IN
         sch # None /\ data = "json" /\ sch \in m.conforms
BY DEF Frame, SchemaAccepts

\* An operation that finds nothing wrong has found the body to fit.
LEMMA OperationConforms ==
  ASSUME NEW p, NEW m, NEW g, p.kind # "jsonschema", p.request.body,
         g.body.data \in {"json", "blank"}, Request(p, m, g) = "ok"
  PROVE  "body" \in m.fits
<1> DEFINE sec     == p.request
           ops     == Route(p, m)
           body    == requestBody(CHOOSE op \in ops : TRUE, m, g)
           query   == Fit(m, "query", g.args.data)
           headers == Fit(m, "headers", HeadersRead(g))
           wrong   == {part \in {"path", "query", "headers", "body"} :
                         CASE part = "path"    -> sec.path /\ "path" \notin m.fits
                           [] part = "query"   -> sec.query /\ ~query
                           [] part = "headers" -> sec.headers /\ ~headers
                           [] part = "body"    -> sec.body /\ body.found}
<1>1. ops # {} /\ finishResult(Cardinality(wrong), sec.body /\ body.undescribed) = "ok"
  BY DEF Request
<1>2. \A n, u : finishResult(n, u) = "ok" => n = 0
  BY DEF finishResult
<1>3. Cardinality(wrong) = 0
  BY <1>1, <1>2
<1>4. IsFiniteSet({"path", "query", "headers", "body"})
  <2>1. IsFiniteSet({"path"} \cup {"query"}) /\ IsFiniteSet({"headers"} \cup {"body"})
    BY FS_Singleton, FS_Union
  <2>2. IsFiniteSet(({"path"} \cup {"query"}) \cup ({"headers"} \cup {"body"}))
    BY <2>1, FS_Union
  <2>3. ({"path"} \cup {"query"}) \cup ({"headers"} \cup {"body"}) = {"path", "query", "headers", "body"}
    OBVIOUS
  <2> QED
    BY <2>2, <2>3
<1>5. wrong = {}
  BY <1>3, <1>4, FS_Subset, FS_EmptySet
<1>6. ~body.found
  BY <1>5
<1> HIDE DEF body, wrong, query, headers
<1>7. PICK op : body = requestBody(op, m, g)
  BY DEF body
<1>8. Fit(m, "body", g.body.data)
  BY <1>6, <1>7 DEF requestBody
<1> QED
  BY <1>8 DEF Fit

\* There is one operation for a call.
LEMMA OneRoute ==
  ASSUME Taken, Profile.source \in DOMAIN Profile.docs,
         NEW a \in Route(Profile, msg), NEW b \in Route(Profile, msg)
  PROVE  a = b
<1> DEFINE f == Trees[view][Named(msg)].profile
           q == ParseProfile(f)
           files == Trees[view][Named(msg)].files
<1>1. view \in DOMAIN Snapshot /\ Named(msg) \in DOMAIN Snapshot[view] /\ Profile.mode # "off"
  BY DEF Taken, Known
<1>2. Profile = Snapshot[view][Named(msg)]
  BY DEF Profile, ProfileIn
<1>3. Profile.docs = [k \in Sources(q) |-> files[k]]
  BY <1>1, <1>2, LoadedIsValidated
<1>4. /\ view \in DOMAIN Trees /\ Named(msg) \in DOMAIN Trees[view]
      /\ Attachable(q, files) /\ q.mode # "off"
  <2>1. view \in DOMAIN Trees /\ Loads(Trees[view]) /\ Snapshot[view] = Loaded(Trees[view])
    BY <1>1 DEF Snapshot
  <2>2. Named(msg) \in DOMAIN Trees[view]
    BY <1>1, <2>1 DEF Loaded
  <2>3. Attachable(q, files)
    BY <2>1, <2>2 DEF Loads
  <2>4. q.mode # "off"
    BY <1>1, <1>2, LoadedIsValidated
  <2> QED
    BY <2>1, <2>2, <2>3, <2>4
<1>5. \A k \in DOMAIN files : IsDocument(files[k])
  BY <1>4, InspectAssumption
<1> HIDE DEF q, files
<1>6. Profile.docs[Profile.source] = files[Profile.source] /\ Profile.source \in DOMAIN files
  BY <1>3, <1>4 DEF Attachable
<1>7. IsDocument(Profile.docs[Profile.source])
  BY <1>5, <1>6
<1> QED
  BY <1>7 DEF Route, IsDocument

\* A description that was compiled is there.
LEMMA DescriptionIsThere ==
  ASSUME Taken, Profile.kind = "openapi"
  PROVE  Profile.source \in DOMAIN Profile.docs
<1>1. /\ view \in DOMAIN Snapshot /\ Named(msg) \in DOMAIN Snapshot[view] /\ Profile.mode # "off"
      /\ Profile = Snapshot[view][Named(msg)]
  BY DEF Taken, Known, Profile, ProfileIn
<1>2. Compile(Snapshot[view])
  BY <1>1 DEF Snapshot, Loads
<1> QED
  BY <1>1, <1>2 DEF Compile, build, buildOpenAPI

\* A profile that was taken speaks by one of the two kinds of contract.
LEMMA TakenKind ==
  ASSUME Taken
  PROVE  /\ Profile.kind \in {"openapi", "jsonschema"}
         /\ Profile.frame.enabled => Profile.kind = "jsonschema"
<1> DEFINE q == ParseProfile(Trees[view][Named(msg)].profile)
<1>1. /\ view \in DOMAIN Snapshot /\ Named(msg) \in DOMAIN Snapshot[view] /\ Profile.mode # "off"
      /\ Profile = Snapshot[view][Named(msg)]
  BY DEF Taken, Known, Profile, ProfileIn
<1>2. Validate(q) /\ q.mode # "off" /\ Profile.kind = q.kind /\ Profile.frame = q.frame
  BY <1>1, LoadedIsValidated
<1> HIDE DEF q
<1> QED
  BY <1>2 DEF Validate, validateFrame

\* A response that nothing is wrong with fits, or the description is silent about it.
LEMMA ResponseConforms ==
  ASSUME Taken, Profile.kind = "openapi", Profile.response.body,
         got.body.data \in {"json", "blank"}, Response(Profile, msg, got) = "ok"
  PROVE  "body" \in msg.fits \/ Undescribed
<1> DEFINE ops      == Route(Profile, msg)
           op       == CHOOSE x \in ops : TRUE
           declared == responseFor(op, msg.status)
           r        == CHOOSE d \in declared : TRUE
           named    == r.declares /\ Described(r.types, ContentType(msg, got))
           data     == got.body.data
           sec      == Profile.response
<1>1. /\ ops # {}
      /\ (IF declared = {} THEN (IF sec.status THEN "status" ELSE "ok")
          ELSE IF sec.ctype /\ data # "empty" /\ r.declares /\ ~named
            THEN finishResult(1, TRUE)
          ELSE IF ~sec.body \/ data = "empty" \/ ~named THEN "ok"
          ELSE finishResult(IF Fit(msg, "body", data) THEN 0 ELSE 1, FALSE)) = "ok"
  BY DEF Response
<1>2. op \in ops /\ \A x \in ops : x = op
  BY <1>1, OneRoute, DescriptionIsThere
<1>3. \A d \in declared : d = r
  BY DEF responseFor
<1> HIDE DEF declared, r, op
<1>4. declared = {} \/ ~named \/ Fit(msg, "body", data)
  BY <1>1 DEF finishResult
<1>5. CASE declared = {} \/ ~named
  <2>1. \A x \in ops : responseFor(x, msg.status) = declared
    BY <1>2 DEF declared
  <2> HIDE DEF ops
  <2>2. \A x \in ops : \A d \in responseFor(x, msg.status) :
          ~d.declares \/ ~Described(d.types, ContentType(msg, got))
    BY <1>3, <1>5, <2>1
  <2> QED
    BY <2>2 DEF Undescribed, ops
<1>6. CASE Fit(msg, "body", data)
  BY <1>6 DEF Fit
<1> QED
  BY <1>4, <1>5, <1>6

\* A document within the limits, that was given in full, stops nothing.
LEMMA GivenPasses ==
  ASSUME NEW content \in {"json", "blank"}, NEW truncated
  PROVE  LET b == Given(content, truncated) IN
         /\ b.data = content
         /\ ~truncated => bodyState(b) = NoStop
         /\ truncated => bodyState(b) # NoStop /\ bodyState(b).outcome = "truncated"
<1> DEFINE b == Given(content, truncated)
<1>1. b.data = content /\ ~b.unavailable /\ b.truncated = truncated
  BY DEF Given
<1> HIDE DEF b
<1>2. ~truncated => bodyState(b) = NoStop
  BY <1>1 DEF bodyState
<1>3. truncated => \E f : bodyState(b) = Outcome("truncated", f)
  BY <1>1 DEF bodyState
<1>4. NoStop.outcome = "none"
  BY OutcomeFields DEF NoStop
<1>5. truncated => bodyState(b) # NoStop /\ bodyState(b).outcome = "truncated"
  BY <1>3, <1>4, OutcomeFields
<1> QED
  BY <1>1, <1>2, <1>5 DEF b

\* A document passes the checks only if the one that was captured conforms to the
\* schema the first binding names, the main schema or the operation (schema: pick,
\* pickFrame, Request, Response; body.go finish).
THEOREM CheckedBodiesConform == Spec => []CheckedBodyConforms
<1>1. HandlerInv => CheckedBodyConforms
  <2> DEFINE loc     == msg.store.body
             conform == /\ Profile.kind = "jsonschema" /\ loc.content = "json"
                        /\ \/ Bound = {} /\ Profile.source \in msg.conforms
                           \/ \E i \in Bound : /\ Bindings[i].schema \in msg.conforms
                                               /\ \A k \in Bound : i <= k
  <2> SUFFICES ASSUME HandlerInv, Judged, out.outcome \in {"ok", "args_unavailable"},
                      Section.body, loc.kind = "located", loc.content \in {"json", "blank"},
                      Digested(loc)
               PROVE  \/ msg.phase = "response" /\ ~TypeAllowed(Section, msg, got)
                      \/ /\ Profile.kind = "openapi"
                         /\ "body" \in msg.fits \/ (msg.phase = "response" /\ Undescribed)
                      \/ conform
    BY DEF CheckedBodyConforms
  <2>1. /\ Sentence /\ Parse(msg) /\ msg.phase \in Phases /\ ~msg.release /\ msg \in Messages
        /\ Taken /\ Fetched /\ Checked
    BY WhatWasJudged DEF Judged, HandlerInv, Sentence
  <2>2. out = Run(Profile, msg, got) /\ Section = SectionOf(Profile, msg)
    BY <2>1 DEF Checked, Section
  <2>3. got.body = Failed \/ got.body = Given(loc.content, loc.truncated)
    BY <2>1, CapturedOrFailed
  <2>4. msg.phase = "frame" => ~msg.binary
    <3> SUFFICES ASSUME msg.phase = "frame", msg.binary PROVE FALSE
      OBVIOUS
    <3>1. PICK f : out = Outcome("opcode", f)
      BY <2>2, FrameRun
    <3> QED
      BY <3>1, OutcomeFields
  <2>5. got.body = Given(loc.content, loc.truncated)
    BY <2>3, <2>4, FailedIsFault, FaultsNotJudged
  <2> DEFINE stop == bodyState(got.body)
  <2>6. /\ got.body.data = loc.content
        /\ ~loc.truncated => stop = NoStop
        /\ loc.truncated => stop # NoStop /\ stop.outcome = "truncated"
    BY <2>5, GivenPasses
  <2>7. CASE loc.truncated
    <3>1. out.outcome # "truncated" /\ out.outcome # "opcode"
      OBVIOUS
    <3>2. out # stop
      BY <2>6, <2>7, <3>1
    <3> QED
      BY <2>1, <2>2, <2>6, <2>7, <3>1, <3>2, StoppedRun
  <2>8. CASE ~loc.truncated
    <3>1. stop = NoStop
      BY <2>6, <2>8
    <3> HIDE DEF stop
    <3>2. ASSUME NEW sch, sch # None, sch \in msg.conforms, loc.content = "json",
                 Profile.kind = "jsonschema",
                 sch = IF msg.phase = "frame" THEN pickFrame(Profile, msg, Direction(msg))
                                              ELSE pick(Profile, msg)
          PROVE  conform
      BY <3>2, <2>1, PickedSchema
    <3>3. CASE msg.phase = "request"
      <4>1. Section = Profile.request
        BY <2>2, <3>3, RequestSection
      <4>2. PICK f : \/ Request(Profile, msg, got) = "ok" /\ out = Outcome("args_unavailable", f)
                     \/ out = Outcome(Request(Profile, msg, got), f)
        BY <2>2, <3>1, <3>3, RequestRun DEF stop
      <4>3. Request(Profile, msg, got) = "ok"
        BY <4>2, OutcomeFields, PhaseResults
      <4>4. CASE Profile.kind = "jsonschema"
        <5>1. bySchema(Section, pick(Profile, msg), msg, loc.content) = "ok"
          BY <2>6, <4>1, <4>3, <4>4 DEF Request
        <5> QED
          BY <3>2, <3>3, <4>4, <5>1, SchemaConforms
      <4>5. CASE Profile.kind = "openapi"
        BY <2>6, <4>1, <4>3, <4>5, OperationConforms
      <4> QED
        BY <2>1, <4>4, <4>5, TakenKind
    <3>4. CASE msg.phase = "response"
      <4>1. Section = Profile.response
        BY <2>2, <3>4, ResponseRun
      <4>2. CASE ~TypeAllowed(Section, msg, got)
        BY <3>4, <4>2
      <4>3. CASE TypeAllowed(Section, msg, got)
        <5>1. PICK f : out = Outcome(Response(Profile, msg, got), f)
          BY <2>2, <3>1, <3>4, <4>3, ResponseRun DEF stop
        <5>2. Response(Profile, msg, got) = "ok"
          <6>1. Response(Profile, msg, got) \in Results
            BY ContractResults
          <6> QED
            BY <5>1, <6>1, OutcomeFields DEF Results
        <5>3. CASE Profile.kind = "jsonschema"
          <6>1. bySchema(Section, pick(Profile, msg), msg, loc.content) = "ok"
            BY <2>6, <4>1, <5>2, <5>3 DEF Response
          <6> QED
            BY <3>2, <3>4, <5>3, <6>1, SchemaConforms
        <5>4. CASE Profile.kind = "openapi"
          BY <2>1, <2>6, <3>4, <4>1, <5>2, <5>4, ResponseConforms
        <5> QED
          BY <2>1, <5>3, <5>4, TakenKind
      <4> QED
        BY <4>2, <4>3
    <3>5. CASE msg.phase = "frame"
      <4>1. PICK f : out = Outcome(Frame(Profile, Section, msg, Direction(msg), loc.content), f)
        BY <2>2, <2>4, <2>6, <3>1, <3>5, FrameRun DEF stop
      <4>2. Frame(Profile, Section, msg, Direction(msg), loc.content) = "ok"
        BY <4>1, OutcomeFields, PhaseResults
      <4>3. Profile.kind = "jsonschema"
        <5>1. Profile.frame.enabled
          BY <2>1, <3>5, NamesASection DEF Taken, PhaseEnabled, Enabled
        <5> QED
          BY <2>1, <5>1, TakenKind
      <4> QED
        BY <3>2, <3>5, <4>2, <4>3, FrameConforms
    <3> QED
      BY <2>1, <3>3, <3>4, <3>5 DEF Phases
  <2> QED
    BY <2>7, <2>8
<1> QED
  BY <1>1, HandlerIsInvariant, PTL

-----------------------------------------------------------------------------
(* The health probe.                                                       *)

\* A message of the probe is being handled.
Probing == msg.profile = "_probe" /\ Refusal(msg) = None

\* Unless it is shed, the probe is judged, and no list is written for it.
ProbeInv ==
  Probing /\ shed = None =>
    /\ pc \in {"lists", "send"} \/ Told => dec # NoDecision
    /\ geoDown = FALSE

\* The name of the probe's profile is not empty.
LEMMA ProbeIsNamed ==
  ASSUME NEW m, m.profile = "_probe"
  PROVE  Named(m) = "_probe"
<1>1. None # "_probe"
  BY Zenon DEF None
<1> QED
  BY <1>1 DEF Named

\* Every snapshot has the profile of the probe.
LEMMA ProbeIsKnown ==
  ASSUME ProbeShipped, msg \in Messages, msg.profile = "_probe", NEW t \in DOMAIN Snapshot
  PROVE  /\ Known(t, msg) /\ ProbeProfile(ProfileIn(t)) /\ ProbeMessage(msg)
         /\ \A i \in DOMAIN ProfileIn(t).bindings : ~Matches(ProfileIn(t).bindings[i], msg)
BY ProbeIsNamed DEF Known, ProfileIn, ProbeShipped

\* The probe goes on to the checks.
LEMMA ProbeIsTaken ==
  ASSUME ProbeShipped, msg \in Messages, msg.profile = "_probe", cur \in DOMAIN Snapshot, Lookup
  PROVE  pc' = "load"
<1> DEFINE p == ProfileIn(cur)
           a == EvaluatePrior(msg.prior, p.prior)
<1>1. Known(cur, msg) /\ ProbeProfile(p) /\ ProbeMessage(msg)
  BY ProbeIsKnown
<1>2. p.mode # "off" /\ p.request.enabled /\ p.prior = <<>>
  BY <1>1 DEF ProbeProfile
<1>3. PhaseEnabled(p, msg)
  <2>1. SectionName(msg) = "request"
    BY <1>1 DEF ProbeMessage, SectionName
  <2> QED
    BY <1>2, <2>1 DEF PhaseEnabled, Enabled, SectionNamed, Directions
<1>4. ~a.skip
  <2>1. Deliveries(msg.prior, p.prior, "skip") = {}
    BY <1>2 DEF Deliveries
  <2> QED
    BY <2>1 DEF EvaluatePrior
<1> HIDE DEF a
<1> QED
  BY <1>1, <1>2, <1>3, <1>4 DEF Lookup, Answered, a

\* The checks find that its call is not described.
LEMMA ProbeIsUnknown ==
  ASSUME ProbeShipped, HandlerInv, Probing, Taken, Fetched
  PROVE  /\ Run(Profile, msg, got).outcome = "unknown_operation" /\ ~Run(Profile, msg, got).fault
         /\ Profile.mode = "enforce" /\ Section = Profile.request /\ ProbeProfile(Profile)
<1>1. msg \in Messages /\ view \in DOMAIN Snapshot /\ msg.profile = "_probe"
  BY DEF HandlerInv, Taken, Probing
<1>2. /\ ProbeProfile(Profile) /\ ProbeMessage(msg)
      /\ \A i \in DOMAIN Profile.bindings : ~Matches(Profile.bindings[i], msg)
  BY <1>1, ProbeIsKnown DEF Profile
<1>3. msg.phase = "request" /\ Section = Profile.request /\ Section = SectionOf(Profile, msg)
  BY <1>2, RequestSection DEF ProbeMessage, Section
<1>4. got.body = NoBody
  <2>1. "body" \in Parts /\ Wanted(msg, "body") = msg.store.body
    BY DEF Parts, Wanted
  <2>2. PICK raw : got.body = Load(msg.store.body, raw)
    BY <2>1 DEF Fetched
  <2> QED
    BY <1>2, <2>2 DEF Load, ProbeMessage
<1>5. got.body.data = "empty" /\ bodyState(got.body) = NoStop
  <2> DEFINE b == got.body
  <2>1. ~b.unavailable /\ ~b.truncated /\ b.data = "empty"
    BY <1>4 DEF NoBody, Given
  <2> HIDE DEF b
  <2>2. bodyState(b) = NoStop
    BY <2>1 DEF bodyState
  <2> QED
    BY <2>1, <2>2 DEF b
<1>6. pick(Profile, msg) = None
  BY <1>2 DEF pick, byName, ProbeProfile
<1>7. Request(Profile, msg, got) = "unknown_operation"
  <2>1. Request(Profile, msg, got) = bySchema(Profile.request, pick(Profile, msg), msg, got.body.data)
    BY <1>2 DEF Request, ProbeProfile
  <2> QED
    BY <1>2, <1>6, <2>1 DEF bySchema, ProbeProfile
<1>8. PICK late : Run(Profile, msg, got) = Outcome("unknown_operation", late) /\ ~late
  <2> DEFINE late == /\ Section.query /\ msg.argsSize /\ (got.args.unavailable \/ ~msg.needArgs)
                     /\ got.args.fault
  <2>1. ~late
    BY <1>2 DEF ProbeMessage
  <2>2. Run(Profile, msg, got) = Outcome("unknown_operation", late)
    BY <1>3, <1>5, <1>7, RequestRun
  <2> HIDE DEF late
  <2> QED
    BY <2>1, <2>2
<1>9. Run(Profile, msg, got).outcome = "unknown_operation" /\ ~Run(Profile, msg, got).fault
  BY <1>8, OutcomeFields
<1> QED
  BY <1>2, <1>3, <1>9 DEF ProbeProfile

\* The decision on the probe is to deny it, and fires nothing.
LEMMA ProbeSentence ==
  ASSUME ProbeShipped, HandlerInv, Probing, dec # NoDecision
  PROVE  dec.verdict = "deny" /\ fired = {}
<1>1. Sentence /\ Parse(msg) /\ msg.phase \in Phases
  BY WhatWasJudged
<1>2. Taken /\ Fetched /\ out = Run(Profile, msg, got)
  BY <1>1 DEF Sentence, Checked
<1>3. /\ out.outcome = "unknown_operation" /\ Profile.mode = "enforce" /\ Section = Profile.request
      /\ ProbeProfile(Profile)
  BY <1>2, ProbeIsUnknown
<1>4. RuleOf(out.outcome).action = "deny"
  <2>1. SectionName(msg) = "request" /\ policy("unknown_operation") = "unknown_operation"
    BY <1>2, ProbeIsKnown DEF HandlerInv, Probing, Taken, ProbeMessage, SectionName, policy
  <2>2. "unknown_operation" \in Rules("request")
    BY DEF Rules, RequestRules
  <2> QED
    BY <1>3, <2>1, <2>2 DEF RuleOf, RuleFor, ProbeProfile, Actions
<1>5. dec.verdict = "deny"
  <2> DEFINE rule  == RuleOf(out.outcome)
             score == IF rule.action = "score" THEN rule.score ELSE 0
             F     == From(Profile.mode, SectionName(msg), Section.rules, out.outcome)
  <2>1. F = Decision(rule.action, score, out.outcome, None, 0)
    BY <1>3, FromCases DEF RuleOf
  <2>2. dec \in Scaled(F, ask.percent)
    BY <1>1 DEF Sentence
  <2> HIDE DEF rule, score, F
  <2> QED
    BY <1>4, <2>1, <2>2, ScaledFields DEF rule
<1>6. fired = {}
  <2>1. fired \subseteq DOMAIN Section.outcomes
    BY <1>1, FiredAreOutcomes DEF Sentence
  <2>2. DOMAIN Section.outcomes = {}
    BY <1>3 DEF ProbeProfile
  <2> QED
    BY <2>1, <2>2
<1> QED
  BY <1>5, <1>6

\* What the probe is due stays so in a step that changes none of it.
LEMMA ProbeSteady ==
  ASSUME ProbeInv, msg' = msg, shed' = shed, dec' = dec, geoDown' = geoDown,
         pc' \in {"lists", "send"} \/ Told' => dec # NoDecision \/ pc \in {"lists", "send"} \/ Told
  PROVE  ProbeInv'
BY DEF ProbeInv, Probing

\* Nothing has been told before the last step.
LEMMA NotTold ==
  ASSUME pc' # "done" \/ audited' = <<>>
  PROVE  ~Told'
BY DEF Told, Done

\* Every step of the handler keeps to what the probe is due.
LEMMA ProbeKept ==
  ASSUME ProbeShipped, HandlerInv, bans \subseteq fired, ProbeInv, [Next]_vars
  PROVE  ProbeInv'
<1>1. CASE Refuse
  <2>1. Refusal(msg) # None /\ msg' = msg
    BY <1>1 DEF Refuse
  <2> QED
    BY <2>1 DEF ProbeInv, Probing
<1>2. CASE IgnoreRelease
  <2>1. /\ pc = "receive" /\ pc' = "done" /\ audited' = audited /\ msg' = msg /\ shed' = shed
        /\ dec' = dec /\ geoDown' = geoDown
    BY <1>2 DEF IgnoreRelease, queueVars, judgeVars, fireVars
  <2>2. audited' = <<>>
    BY <2>1 DEF HandlerInv, ControlInv
  <2> QED
    BY <2>1, <2>2, NotTold, ProbeSteady
<1>3. CASE Submit
  <2>1. pc' = "queued" /\ msg' = msg /\ shed' = shed /\ dec' = dec /\ geoDown' = geoDown
    BY <1>3 DEF Submit, judgeVars, fireVars
  <2> QED
    BY <2>1, NotTold, ProbeSteady
<1>4. CASE Shed
  <2>1. shed' \in Reasons
    BY <1>4 DEF Shed
  <2>2. shed' # None
    BY <2>1, NoneIsNothing
  <2> QED
    BY <2>2 DEF ProbeInv
<1>5. CASE Lookup
  <2>1. /\ msg' = msg /\ shed' = shed /\ dec' = dec /\ geoDown' = geoDown
    BY <1>5 DEF Lookup, queueVars, fireVars
  <2>2. CASE msg.profile = "_probe"
    <3>1. pc' = "load"
      BY <1>5, <2>2, ProbeIsTaken DEF HandlerInv
    <3> QED
      BY <2>1, <3>1, NotTold, ProbeSteady
  <2>3. CASE msg.profile # "_probe"
    BY <2>1, <2>3 DEF ProbeInv, Probing
  <2> QED
    BY <2>2, <2>3
<1>6. CASE LoadParts
  <2>1. pc' = "validate" /\ msg' = msg /\ shed' = shed /\ dec' = dec /\ geoDown' = geoDown
    BY <1>6 DEF LoadParts, queueVars, fireVars
  <2> QED
    BY <2>1, NotTold, ProbeSteady
<1>7. CASE RunChecks
  <2>1. /\ msg' = msg /\ shed' = shed /\ dec' = dec /\ geoDown' = geoDown
        /\ pc = "validate" /\ out' = Run(Profile, msg, got)
        /\ ~out'.fault => pc' = "decide"
    BY <1>7 DEF RunChecks, queueVars, fireVars
  <2>2. CASE Probing
    <3>1. Taken /\ Fetched
      BY <2>1 DEF HandlerInv, StageInv
    <3>2. ~out'.fault
      BY <2>1, <2>2, <3>1, ProbeIsUnknown
    <3> QED
      BY <2>1, <3>2, NotTold, ProbeSteady
  <2>3. CASE ~Probing
    BY <2>1, <2>3 DEF ProbeInv, Probing
  <2> QED
    BY <2>2, <2>3
<1>8. CASE Judge
  <2>1. /\ msg' = msg /\ shed' = shed /\ geoDown' = geoDown
        /\ dec' \in Scaled(From(Profile.mode, SectionName(msg), Section.rules, out.outcome), ask.percent)
    BY <1>8 DEF Judge, queueVars
  <2>2. dec' # NoDecision
    BY <2>1, Decided
  <2> QED
    BY <2>1, <2>2 DEF ProbeInv, Probing
<1>9. CASE WriteList
  <2>1. pc = "lists" /\ bans # {} /\ msg' = msg /\ shed' = shed
    BY <1>9 DEF WriteList, queueVars
  <2>2. ~(Probing /\ shed = None)
    <3> SUFFICES ASSUME Probing, shed = None PROVE FALSE
      OBVIOUS
    <3>1. dec # NoDecision
      BY <2>1 DEF ProbeInv
    <3>2. fired = {}
      BY <3>1, ProbeSentence
    <3> QED
      BY <2>1, <3>2
  <2> QED
    BY <2>1, <2>2 DEF ProbeInv, Probing
<1>10. CASE ListsDone
  <2>1. pc = "lists" /\ msg' = msg /\ shed' = shed /\ dec' = dec /\ geoDown' = geoDown
    BY <1>10 DEF ListsDone, queueVars, judgeVars, fireVars
  <2> QED
    BY <2>1, ProbeSteady
<1>11. CASE Send
  <2>1. pc = "send" /\ msg' = msg /\ shed' = shed /\ dec' = dec /\ geoDown' = geoDown
    BY <1>11 DEF Send, queueVars, judgeVars, fireVars
  <2> QED
    BY <2>1, ProbeSteady
<1>12. CASE Panic
  <2>1. /\ pc # "done" /\ pc' = "done" /\ msg' = msg /\ shed' = shed /\ dec' = dec
        /\ geoDown' = geoDown /\ audited' = audited
    BY <1>12 DEF Panic, send, queueVars, judgeVars, fireVars
  <2>2. audited' = <<>>
    BY <2>1 DEF HandlerInv, ControlInv
  <2> QED
    BY <2>1, <2>2, NotTold, ProbeSteady
<1>13. CASE Reload \/ Quiet \/ UNCHANGED vars
  <2>1. /\ msg' = msg /\ shed' = shed /\ dec' = dec /\ geoDown' = geoDown /\ pc' = pc
        /\ sent' = sent /\ audited' = audited
    BY <1>13 DEF Reload, Quiet, vars, queueVars, judgeVars, fireVars
  <2>2. Told' <=> Told
    BY <2>1 DEF Told, Done
  <2> QED
    BY <2>1, <2>2, ProbeSteady
<1> QED
  BY <1>1, <1>2, <1>3, <1>4, <1>5, <1>6, <1>7, <1>8, <1>9, <1>10, <1>11, <1>12, <1>13 DEF Next

\* A message for the reserved profile _probe is denied, whatever generation is
\* in force and however often it is reloaded meanwhile, unless it is shed or its
\* evaluation panics, as long as every generation has the profile as it is shipped.
THEOREM ProbesAreDenied ==
  ASSUME ProbeShipped
  PROVE  Spec => []ProbeIsDenied
<1>1. Init => ProbeInv
  <2> SUFFICES ASSUME Init PROVE ProbeInv
    OBVIOUS
  <2>1. pc = "receive" /\ geoDown = FALSE
    BY Zenon DEF Init
  <2> QED
    BY <2>1 DEF ProbeInv, Told, Done
<1>2. HandlerInv /\ TypeOK /\ ProbeInv /\ [Next]_vars => ProbeInv'
  BY ProbeKept DEF TypeOK
<1>3. HandlerInv /\ ProbeInv => ProbeIsDenied
  <2> SUFFICES ASSUME HandlerInv, ProbeInv, Done, ~Panicked, Refusal(msg) = None, shed = None,
                      msg.profile = "_probe"
               PROVE  Answer.verdict = "deny"
    BY DEF ProbeIsDenied
  <2>1. Parse(msg)
    BY ParsedOrRefused
  <2>2. Told
    BY <2>1 DEF Panicked, Told
  <2>3. dec # NoDecision /\ geoDown = FALSE
    BY <2>2 DEF ProbeInv, Probing
  <2>4. sent[1] = Drafted
    BY <2>2, <2>3 DEF HandlerInv, JudgedInv, AfterLists
  <2>5. dec.verdict = "deny"
    BY <2>3, ProbeSentence DEF Probing
  <2> QED
    BY <2>4, <2>5, ReplyOfFields DEF Drafted, Answer
<1> QED
  BY <1>1, <1>2, <1>3, HandlerIsInvariant, HandlerTyping, PTL DEF Spec
=============================================================================
