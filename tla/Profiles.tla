------------------------------ MODULE Profiles ------------------------------
(***************************************************************************)
(* A profile as internal/config reads it: the defaults its YAML is decoded *)
(* over, what Validate refuses, the documents that are attached to it and  *)
(* the bindings that pick a schema for a call (profile.go, profiles.go).   *)
(*                                                                         *)
(* An optional integer is a set of at most one, an optional object is left *)
(* out of the domain of a function, and a path is a sequence of pieces, so *)
(* that a path is a prefix of another exactly when its string is.          *)
(***************************************************************************)
EXTENDS Integers, FiniteSetsExt, SequencesExt

CONSTANTS
  Names,    \* what nameRe accepts: schemas, datasets, counters, groups
  Codes,    \* what codeRe accepts
  Markers,  \* what CheckMarker accepts
  Methods,  \* what methodRe accepts
  Slashed   \* the pieces of a path that begin with a slash

\* The empty string: what a field holds that is not given.
None == ""

\* nameRe wants a first letter or digit.
ASSUME ProfilesAssumption == None \notin Names

Sections   == {"request", "response", "c2s", "s2c"}
Directions == {"c2s", "s2c"}

\* strings.HasPrefix(path, "/")
Rooted(path) == path # <<>> /\ Head(path) \in Slashed

-----------------------------------------------------------------------------
(* Outcomes: what a profile asks for or writes when it has decided.        *)

NoOutcome ==
  [on |-> None, at |-> {}, below |-> FALSE, eq |-> FALSE, code |-> None,
   list |-> None, write |-> None, ttl |-> 0,
   do |-> None, apply |-> None, to |-> None, phase |-> None, delta |-> {}, value |-> {},
   counter |-> None, marker |-> None, group |-> None, set |-> None, when |-> <<>>, objects |-> <<>>]

Asks(o) == o.do # None

\* The axes each verb takes; a record is written for the request by default.
outcomeVerbs ==
  [do \in {"challenge", "threshold", "skip", "mutate", "mark", "score", "active", "passive",
           "off", "vote", "audit", "archive", "reauth", "note"} |->
     CASE do \in {"active", "passive", "off", "vote"} -> {"request", "conn"}
       [] do \in {"audit", "archive"} -> {"request", "response"}
       [] do = "reauth" -> {"session"}
       [] do = "note" -> {"request", "ip", "asn", "session"}
       [] OTHER -> {"request"}]

auditVerb(do)   == do \in {"audit", "archive"}
recordVerb(do)  == auditVerb(do) \/ do \in {"mark", "score"}
controlVerb(do) == do \in {"active", "passive", "off", "vote"}

Axis(o) ==
  CASE o.apply # None                    -> o.apply
    [] o.apply = None /\ auditVerb(o.do) -> "request"
    [] OTHER -> IF Cardinality(outcomeVerbs[o.do]) = 1
                  THEN CHOOSE axis \in outcomeVerbs[o.do] : TRUE ELSE None

checkPhaseAsk(o) ==
  o.phase # None =>
    /\ controlVerb(o.do) /\ o.phase \in {"request", "response", "frame"}
    /\ Axis(o) = "conn" => o.phase = "frame"

CheckArchiveWhen(words) ==
  /\ \A i \in DOMAIN words : words[i] \in {"allow", "deny"}
  /\ \A i, j \in DOMAIN words : words[i] = words[j] => i = j

CheckObjectSpec(spec) ==
  /\ spec.set \in {None, "on", "off"} /\ spec.limit >= 0
  /\ spec.source \in {None, "store", "original"}

\* audit and archive: what is recorded, and only when recording is turned on.
validRecord(o) ==
  /\ o.set \in {"on", "off"}
  /\ o.set = "off" => o.ttl = 0 /\ o.when = <<>> /\ DOMAIN o.objects = {}
  /\ o.do = "audit" => o.ttl = 0 /\ o.when = <<>>
  /\ CheckArchiveWhen(o.when)
  /\ ~(o.apply = "response" /\ "args" \in DOMAIN o.objects)
  /\ \A part \in DOMAIN o.objects : CheckObjectSpec(o.objects[part])

validateOutcomeAsk(o) ==
  /\ o.on = "deny" => recordVerb(o.do)
  /\ o.do \in DOMAIN outcomeVerbs /\ o.apply \in outcomeVerbs[o.do] \cup {None}
  /\ o.apply = None => Cardinality(outcomeVerbs[o.do]) = 1 \/ auditVerb(o.do)
  /\ o.delta \subseteq -100..900 /\ o.value \subseteq -100..100
  /\ o.do = "threshold" => o.delta \notin {{}, {0}}
  /\ o.do \in {"note", "score"} => o.value \notin {{}, {0}}
  /\ recordVerb(o.do) => o.to \in {None, "*"}
  /\ controlVerb(o.do) => o.to \notin {None, "*"}
  /\ checkPhaseAsk(o)
  /\ o.counter # None => o.do = "note" /\ o.counter \in Names
  /\ IF o.do = "mutate" THEN o.group \in Names /\ o.set \in {"on", "off"} ELSE o.group = None
  /\ IF o.do = "mark" THEN o.marker \in Markers ELSE o.marker = None
  /\ IF auditVerb(o.do) THEN validRecord(o)
     ELSE o.when = <<>> /\ DOMAIN o.objects = {} /\ (o.do # "mutate" => o.set = None)

AtMin == 25
AtMax == 100

\* overload.Check
Check(at) == at \subseteq AtMin..AtMax

validateOutcome(section, o) ==
  /\ o.code \in Codes \cup {None}
  /\ CASE o.on \in {"deny", "allow"} -> o.at = {} /\ ~o.below /\ ~o.eq
       [] o.on = "score"    -> o.at # {} /\ o.at \subseteq 0..100 /\ ~(o.below /\ o.eq)
       [] o.on = "overload" -> section = "request" /\ Check(o.at) /\ ~o.below /\ ~o.eq
       [] OTHER             -> FALSE
  /\ IF Asks(o) THEN o.list = None /\ validateOutcomeAsk(o)
     ELSE o.list \in Names /\ o.write \in {None, "addr", "net", "net_all", "asn"} /\ o.ttl > 0

-----------------------------------------------------------------------------
(* Rules: the policy of a section, by outcome.                             *)

RequestRules  == {"invalid", "unparsable", "truncated", "unknown_operation",
                  "content_type", "unavailable"}
ResponseRules == RequestRules \cup {"status"}
FrameRules    == (RequestRules \ {"content_type"}) \cup {"opcode"}

\* The rules that are validated, and that a decision finds.
Rules(section) ==
  CASE section = "request" -> RequestRules [] section = "response" -> ResponseRules
    [] OTHER -> FrameRules

Actions == {"deny", "score", "allow"}

validateRules(section, s) ==
  /\ \A k \in Rules(section) : s.rules[k].action \in Actions /\ s.rules[k].score \in 0..100
  /\ (\E k \in Rules(section) : s.rules[k].action = "deny") => s.deny # None

-----------------------------------------------------------------------------
(* defaults: what a profile's YAML is decoded over.                        *)

Rule(action, score) == [action |-> action, score |-> score]

defaults ==
  LET rules(names, denied, scored, score) ==
        [k \in names |-> Rule(IF k \in denied THEN "deny" ELSE IF k \in scored THEN "score"
                              ELSE "allow", score)]
      broken == {"invalid", "unparsable", "truncated"}
  IN [mode |-> "enforce", kind |-> "openapi", source |-> None, basePath |-> <<>>,
      prior |-> <<>>, bindings |-> <<>>, docs |-> <<>>, values |-> "off",
      limits |-> [body |-> 1, depth |-> 64, errors |-> 20, cache |-> 4096],
      request |-> [enabled |-> TRUE, body |-> TRUE, query |-> TRUE, path |-> TRUE,
                   headers |-> FALSE, deny |-> "json_invalid", outcomes |-> <<>>,
                   rules |-> rules(RequestRules, broken, {}, 70)],
      response |-> [enabled |-> TRUE, body |-> TRUE, status |-> TRUE, ctype |-> TRUE,
                    onlyTypes |-> {"json"}, deny |-> "json_response_invalid",
                    outcomes |-> <<>>,
                    rules |-> rules(ResponseRules, {}, {"invalid", "status"}, 40)],
      frame |-> [enabled |-> FALSE, bindings |-> <<>>,
                 c2s |-> [body |-> TRUE, deny |-> "ws_policy", outcomes |-> <<>>,
                          rules |-> rules(FrameRules, FrameRules \ {"unavailable"}, {}, 70)],
                 s2c |-> [body |-> TRUE, deny |-> "ws_policy", outcomes |-> <<>>,
                          rules |-> rules(FrameRules, {}, {"invalid"}, 40)]]]

\* A list of a profile: numbered from 1.
IsList(s) == IsFiniteSet(DOMAIN s) /\ DOMAIN s = 1..Cardinality(DOMAIN s)

\* The fields of a profile are always there, whatever its YAML says of them.
IsProfile(p) ==
  /\ DOMAIN p = {"mode", "kind", "source", "basePath", "prior", "bindings", "docs", "values",
                 "limits", "request", "response", "frame"}
  /\ DOMAIN p.frame = {"enabled", "bindings", "c2s", "s2c"}
  /\ IsList(p.prior) /\ IsList(p.bindings) /\ IsList(p.frame.bindings)
  /\ \A s \in {p.request, p.response, p.frame.c2s, p.frame.s2c} : IsList(s.outcomes)

\* A binding of frames is by prefix and for both directions unless it says so.
ParseProfile(p) ==
  [p EXCEPT !.frame.bindings = [i \in DOMAIN @ |->
     [@[i] EXCEPT !.match     = IF @ = None THEN "prefix" ELSE @,
                  !.direction = IF @ = None THEN "any" ELSE @]]]

-----------------------------------------------------------------------------
(* Validate.                                                               *)

\* Only a named inspector may ask for less, and only for this request.
validatePrior(r) ==
  /\ r.from \notin {None, "*"}
  /\ r.accept # {} /\ r.accept \subseteq {"threshold", "skip"}
  /\ r.apply \subseteq {"request"}

validBinding(b) == b.schema \in Names /\ Rooted(b.path) /\ b.match \in {"exact", "prefix"}

validateBindings(p) ==
  p.bindings # <<>> =>
    /\ p.kind # "openapi"
    /\ \A i \in DOMAIN p.bindings :
         validBinding(p.bindings[i]) /\ p.bindings[i].methods \subseteq Methods

\* A discriminator is the value it looks for, behind a pointer that is a path.
validateFrame(p) ==
  p.frame.enabled =>
    /\ p.kind = "jsonschema"
    /\ p.frame.bindings # <<>> \/ p.source # None
    /\ \A i \in DOMAIN p.frame.bindings :
         LET b == p.frame.bindings[i] IN
         /\ validBinding(b) /\ b.direction \in Directions \cup {"any"}
         /\ \A d \in b.discriminator : Rooted(d.pointer) /\ d.value # None

SectionNamed(p, section) ==
  CASE section = "request" -> p.request [] section = "response" -> p.response
    [] OTHER -> p.frame[section]

Enabled(p, section) ==
  IF section \in Directions THEN p.frame.enabled ELSE SectionNamed(p, section).enabled

\* The outcomes and the asks are checked even in a profile that is off.
Validate(p) ==
  /\ p.mode \in {"enforce", "observe", "off"}
  /\ \A i \in DOMAIN p.prior : validatePrior(p.prior[i])
  /\ \A s \in Sections : \A i \in DOMAIN SectionNamed(p, s).outcomes :
       validateOutcome(s, SectionNamed(p, s).outcomes[i])
  /\ p.mode # "off" =>
       /\ p.kind \in {"openapi", "jsonschema"}
       /\ p.source = None => p.bindings # <<>> \/ p.frame.bindings # <<>>
       /\ p.source \in Names \cup {None}
       /\ p.basePath = <<>> \/ Rooted(p.basePath)
       /\ \E s \in Sections : Enabled(p, s)
       /\ \A s \in Sections : Enabled(p, s) => validateRules(s, SectionNamed(p, s))
       /\ validateBindings(p) /\ validateFrame(p)
       /\ p.values \in {"off", "hash"}
       /\ p.limits.body > 0 /\ p.limits.depth > 0
       /\ p.limits.errors >= 0 /\ p.limits.cache >= 0

-----------------------------------------------------------------------------
(* The documents a profile names, and the bindings.                        *)

\* Mutation of Sources: the schemas of the frames are forgotten.
SourcesNoFrames(p) ==
  ({p.source} \cup {p.bindings[i].schema : i \in DOMAIN p.bindings}) \ {None}

Sources(p) ==
  ({p.source} \cup {p.bindings[i].schema : i \in DOMAIN p.bindings}
   \cup {p.frame.bindings[i].schema : i \in DOMAIN p.frame.bindings}) \ {None}

\* Every document named is there and has content.
Attachable(p, files) ==
  p.mode = "off" \/ (\A n \in Sources(p) : n \in DOMAIN files /\ files[n].kind # "empty")

attachDocuments(p, files) ==
  IF p.mode = "off" THEN p ELSE [p EXCEPT !.docs = [n \in Sources(p) |-> files[n]]]

onPath(b, path) ==
  /\ b.match = "exact" => b.path = path
  /\ b.match = "prefix" => IsPrefix(b.path, path)

\* Methods are compared without case: a method stands for its spellings.
Matches(b, m) == (b.methods = {} \/ m.method \in b.methods) /\ onPath(b, m.path)

FrameMatches(b, m, direction) ==
  /\ b.direction \in {"any", None, direction}
  /\ b.subprotocol \in {None, m.subprotocol}
  /\ onPath(b, m.path)
=============================================================================
