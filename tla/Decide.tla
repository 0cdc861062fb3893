------------------------------- MODULE Decide -------------------------------
(***************************************************************************)
(* The pure part of an inspection: what a locator loads to                 *)
(* (internal/body), what the checks make of it (internal/validate), what   *)
(* the profile's policy decides (internal/decide), and which outcomes of   *)
(* the profile fire (internal/overload).                                   *)
(*                                                                         *)
(* A document is its class: "json" is within the limits and parses,        *)
(* "big" is over limits.max_body, "deep" over limits.max_depth, "garbage"  *)
(* does not parse, "blank" is only whitespace, "empty" has no bytes, and   *)
(* "other" is a document that parses and is not the one captured.          *)
(***************************************************************************)
EXTENDS Contracts

CONSTANTS
  StoreConfigured,  \* REDIS_URL names a store, so Loader.store is not nil
  HasKeys           \* a secret source is configured, so Loader.keys is not nil

ASSUME DecideAssumption == StoreConfigured \in BOOLEAN /\ HasKeys \in BOOLEAN

Contents == {"empty", "blank", "json", "other", "big", "deep", "garbage"}
Miss     == "miss"       \* the store has no value, or does not answer

-----------------------------------------------------------------------------
(* internal/body: what a part of the message loads to.                     *)

Body == [data: Contents, truncated: BOOLEAN, unavailable: BOOLEAN, fault: BOOLEAN]

\* What was fetched, as finish returns it.
Given(data, truncated) ==
  [data |-> data, truncated |-> truncated, unavailable |-> FALSE, fault |-> FALSE]

NoBody   == Given("empty", FALSE)
Withheld == [NoBody EXCEPT !.unavailable = TRUE]   \* the module captured nothing
Failed   == [Withheld EXCEPT !.fault = TRUE]       \* the inspector could not fetch it

\* finish compares no digest when the message brings none, and the digest of the
\* whole document says nothing about a prefix of it.
Digested(loc) == loc.sha = "processed" \/ (loc.sha = "whole" /\ ~loc.truncated)

\* loc.content is what the module captured, raw what the store returned for it.
\* decrypt: a sealed value opens with the key if it was not altered; one that is
\* sealed in a way unknown here (algorithm, key id, nonce) never does.
decrypts(loc, raw) == loc.enc = "sealed" /\ HasKeys /\ raw = loc.content

\* Mutation of finish: the digest is computed and not compared.
finishUncompared(loc, raw) ==
  IF loc.enc # "none" /\ ~decrypts(loc, raw) THEN Failed ELSE Given(raw, loc.truncated)

finish(loc, raw) ==
  IF \/ loc.enc # "none" /\ ~decrypts(loc, raw)
     \/ Digested(loc) /\ raw # loc.content
    THEN Failed
    ELSE Given(raw, loc.truncated)

Load(loc, raw) ==
  CASE loc.kind = "none"        -> NoBody
    [] loc.kind = "unavailable" -> Withheld
    [] loc.kind = "located"     ->
         IF StoreConfigured /\ raw # Miss THEN finish(loc, raw) ELSE Failed

\* One MGET or several GETs: a failing batch is a miss for each of its keys.
LoadMany(locs, raws) == [part \in DOMAIN locs |-> Load(locs[part], raws[part])]

-----------------------------------------------------------------------------
(* internal/validate: the outcome of the checks.                           *)

Outcome(outcome, fault) == [outcome |-> outcome, fault |-> fault]

NoStop == Outcome("none", FALSE)

\* Mutation of bodyState: a body the store lost is one the module did not capture.
bodyStateNoFault(b) ==
  CASE b.unavailable       -> Outcome("body_unavailable", FALSE)
    [] ~b.unavailable /\ b.truncated -> Outcome("truncated", FALSE)
    [] OTHER ->
         CASE b.data = "big"     -> Outcome("too_large", FALSE)
           [] b.data = "deep"    -> Outcome("too_deep", FALSE)
           [] b.data = "garbage" -> Outcome("unparsable", FALSE)
           [] OTHER              -> NoStop

\* The body stops the check before the contract is consulted.
bodyState(b) ==
  CASE b.unavailable       -> Outcome("body_unavailable", b.fault)
    [] ~b.unavailable /\ b.truncated -> Outcome("truncated", FALSE)
    [] OTHER ->
         CASE b.data = "big"     -> Outcome("too_large", FALSE)
           [] b.data = "deep"    -> Outcome("too_deep", FALSE)
           [] b.data = "garbage" -> Outcome("unparsable", FALSE)
           [] OTHER              -> NoStop

Direction(m) == IF m.direction = None THEN "c2s" ELSE m.direction

\* A direction that is not s2c is judged as c2s.
SectionName(m) ==
  IF m.phase = "frame" THEN (IF Direction(m) = "s2c" THEN "s2c" ELSE "c2s") ELSE m.phase

\* The section of the profile that speaks for this message.
SectionOf(p, m) == SectionNamed(p, SectionName(m))

\* The content type is one of only_types; without headers it is the empty string.
TypeAllowed(sec, m, got) == sec.onlyTypes = {} \/ ContentType(m, got) \in sec.onlyTypes

requestPhase(p, m, got) ==
  LET sec      == p.request
      stop     == bodyState(got.body)
      deferred == sec.query /\ m.argsSize /\ (got.args.unavailable \/ ~m.needArgs)
      res      == Request(p, m, got)
  IN  IF sec.body /\ stop # NoStop
        THEN stop
        ELSE Outcome(IF res = "ok" /\ deferred THEN "args_unavailable" ELSE res,
                     deferred /\ got.args.fault)

responsePhase(p, m, got) ==
  LET sec  == p.response
      stop == bodyState(got.body)
  IN  CASE got.body.data # "empty" /\ ~TypeAllowed(sec, m, got) -> Outcome("ok", FALSE)
        [] OTHER -> IF sec.body /\ stop # NoStop THEN stop
                    ELSE Outcome(Response(p, m, got), FALSE)

framePhase(p, m, got) ==
  LET sec  == SectionOf(p, m)
      stop == bodyState(got.body)
  IN  CASE ~sec.body              -> Outcome("ok", FALSE)
        [] sec.body /\ m.binary   -> Outcome("opcode", FALSE)
        [] sec.body /\ ~m.binary  ->
             IF stop # NoStop THEN stop
             ELSE Outcome(Frame(p, sec, m, Direction(m), got.body.data), FALSE)

\* validate.Run
Run(p, m, got) ==
  CASE m.phase = "response" -> responsePhase(p, m, got)
    [] m.phase = "frame"    -> framePhase(p, m, got)
    [] OTHER                -> requestPhase(p, m, got)

-----------------------------------------------------------------------------
(* internal/decide: verdicts.                                              *)

\* The rule of the policy each outcome is judged by.
policy(outcome) ==
  CASE outcome \in {"mismatch", "too_deep"}                  -> "invalid"
    [] outcome \in {"truncated", "too_large"}                -> "truncated"
    [] outcome \in {"body_unavailable", "args_unavailable"}  -> "unavailable"
    [] OTHER -> outcome   \* unparsable, unknown_operation, content_type, status, opcode

Allow == Rule("allow", 0)

\* A section without such a rule allows, and so does an action nobody knows.
RuleFor(section, rules, outcome) ==
  IF policy(outcome) \in Rules(section) /\ rules[policy(outcome)].action \in Actions
    THEN rules[policy(outcome)] ELSE Allow

Decision(verdict, score, code, would, wouldScore) ==
  [verdict |-> verdict, score |-> score, code |-> code,
   would |-> would, wouldScore |-> wouldScore]

\* Mutation of From: observing forgets what it would have decided.
FromForgetful(mode, section, rules, outcome) ==
  LET rule  == RuleFor(section, rules, outcome)
      score == IF rule.action = "score" THEN rule.score ELSE 0
  IN  CASE outcome = "ok" -> Decision("allow", 0, None, None, 0)
        [] outcome # "ok" /\ mode # "observe" -> Decision(rule.action, score, outcome, None, 0)
        [] outcome # "ok" /\ mode = "observe" -> Decision("allow", 0, "JSON_OBSERVE", None, 0)

From(mode, section, rules, outcome) ==
  LET rule  == RuleFor(section, rules, outcome)
      score == IF rule.action = "score" THEN rule.score ELSE 0
  IN  CASE outcome = "ok" -> Decision("allow", 0, None, None, 0)
        [] outcome # "ok" /\ (mode # "observe" \/ rule.action = "allow") ->
             Decision(rule.action, score, outcome, None, 0)
        [] outcome # "ok" /\ mode = "observe" /\ rule.action # "allow" ->
             Decision("allow", 0, "JSON_OBSERVE", rule.action, score)

-----------------------------------------------------------------------------
(* Asks of the inspectors before this one.                                 *)

PercentMin == -100
PercentMax == 900

Clamp(n, lo, hi) == IF n < lo THEN lo ELSE IF n > hi THEN hi ELSE n

\* An empty Apply or Codes of a rule accepts every axis and every code.
Accepted(rule, act) ==
  /\ rule.from = act.from
  /\ act.do \in rule.accept
  /\ rule.apply = {} \/ act.apply \in rule.apply
  /\ rule.codes = {} \/ act.code \in rule.codes

\* Every action is delivered to every rule that accepts it.
Deliveries(prior, rules, do) ==
  {d \in (DOMAIN prior) \X (DOMAIN rules) :
     prior[d[1]].do = do /\ Accepted(rules[d[2]], prior[d[1]])}

\* What the deliveries ask for in all.
TotalDelta(prior, deliveries) == MapThenSumSet(LAMBDA d : prior[d[1]].delta, deliveries)

\* Mutation of EvaluatePrior: the sum of the asks is not clamped.
EvaluatePriorUnclamped(prior, rules) ==
  [skip    |-> Deliveries(prior, rules, "skip") # {},
   percent |-> TotalDelta(prior, Deliveries(prior, rules, "threshold"))]

EvaluatePrior(prior, rules) ==
  [skip    |-> Deliveries(prior, rules, "skip") # {},
   percent |-> Clamp(TotalDelta(prior, Deliveries(prior, rules, "threshold")),
                     PercentMin, PercentMax)]

\* Mutation of ScaleScore: the scaled score is not capped at 100.
ScaleScoreUncapped(score, percent) ==
  IF percent = 0 \/ score <= 0 THEN {IF score < 0 THEN 0 ELSE score}
  ELSE {(score * (100 + percent) + 50) \div 100}

\* math.Round of a float product: a value halfway between two scores may come
\* out as either, since the product can fall just short of the half.
ScaleScore(score, percent) ==
  IF percent = 0 \/ score <= 0 THEN {IF score < 0 THEN 0 ELSE score}
  ELSE LET product == score * (100 + percent)
           up      == (product + 50) \div 100
       IN  {Clamp(up, 0, 100)} \cup
           (IF product % 100 = 50 THEN {Clamp(up - 1, 0, 100)} ELSE {})

-----------------------------------------------------------------------------
(* The outcomes of a section that fire, by their indices.                  *)

OutcomeMatches(o, verdict, score) ==
  CASE o.on \in {"allow", "deny"} -> verdict = o.on
    [] o.on = "score" -> /\ verdict = "score"
                         /\ \E at \in o.at :
                              CASE o.eq             -> score = at
                                [] ~o.eq /\ o.below -> score < at
                                [] OTHER            -> score >= at
    [] OTHER -> FALSE

\* A list write needs an address, an ask does not.
Fireable(o, addr) == Asks(o) \/ addr

\* Observe mode fires what enforcement would have fired.
Fire(outcomes, dec, addr) ==
  LET verdict == IF dec.would = None THEN dec.verdict ELSE dec.would
      score   == IF dec.would = None THEN dec.score ELSE dec.wouldScore
  IN  {i \in DOMAIN outcomes :
         OutcomeMatches(outcomes[i], verdict, score) /\ Fireable(outcomes[i], addr)}

\* overload.At: an outcome that names no fill waits for a shed request.
At(o) == IF o.at = {} THEN AtMax ELSE CHOOSE at \in o.at : TRUE

\* overload.Fires: an outcome at 100 percent fires on a shed request only.
Fires(at, fill, shed) == shed \/ (at < AtMax /\ fill >= at)

FireOverload(outcomes, fill, shed, addr) ==
  {i \in DOMAIN outcomes :
     /\ outcomes[i].on = "overload"
     /\ Fires(At(outcomes[i]), fill, shed)
     /\ Fireable(outcomes[i], addr)}
=============================================================================
