----------------------------- MODULE MCInspect ------------------------------
(***************************************************************************)
(* Inspect on a small instance: trees of profiles by JSON schema and by    *)
(* OpenAPI, enforcing, observing and off, beside trees that must not load, *)
(* and messages of every phase that differ in what the checks tell apart.  *)
(***************************************************************************)
EXTENDS Inspect

MCNames   == {"item", "order", "event", "spec", "probe", "banned"}
MCSlashed == {"/", "/orders", "/api", "/ws", "/_probe/valid", "/healthcheck", "/kind"}
MCCovers  == {<<"application/*", "json">>}

\* Documents beside the profiles.
Schema == [kind |-> "schema", operations |-> {}]
Text(declares, types) == [declares |-> declares, types |-> types]
Orders ==
  [kind |-> "openapi", operations |->
     {[path |-> <<"/orders">>, method |-> "POST", body |-> "required", types |-> {"application/*"},
       responses |-> ("200" :> Text(TRUE, {"json"}) @@ "2xx" :> Text(FALSE, {}))],
      [path |-> <<"/orders">>, method |-> "GET", body |-> "none", types |-> {},
       responses |-> ("2XX" :> Text(TRUE, {"*/*"}) @@ "default" :> Text(FALSE, {}))]}]

Files == [item |-> Schema, order |-> Schema, event |-> Schema, spec |-> Orders, probe |-> Schema]
Entry(p) == [profile |-> p, files |-> Files]

On(on)        == [NoOutcome EXCEPT !.on = on]
Ban(o, write) == [o EXCEPT !.list = "banned", !.write = write, !.ttl = 60]
Ask(o, do, apply, to) == [o EXCEPT !.do = do, !.apply = apply, !.to = to]

DenyOutcomes  == << Ban(On("deny"), "net"), Ban([On("overload") EXCEPT !.at = {50}], ""),
                    Ban(On("deny"), "addr"), Ask(On("allow"), "off", "conn", "bot"),
                    [Ask(On("deny"), "archive", "", "") EXCEPT !.set = "on", !.ttl = 5] >>
ScoreOutcomes == << Ask([On("score") EXCEPT !.at = {50}], "challenge", "", ""),
                    Ban([On("score") EXCEPT !.at = {50}, !.below = TRUE], "asn"),
                    Ban([On("score") EXCEPT !.at = {60}, !.eq = TRUE], "") >>
Overloaded    == << [Ask(On("overload"), "note", "ip", "") EXCEPT !.value = {10}] >>

Scored == [k \in RequestRules |->
             CASE k = "invalid" -> Rule("score", 60) [] k = "truncated" -> Rule("allow", 0)
               [] OTHER -> Rule("score", 25)]
Denied == [k \in RequestRules |-> Rule("deny", 0)]
All(names, rule) == [k \in names |-> rule]

Bind(methods, path, match, schema) ==
  [methods |-> methods, path |-> path, match |-> match, schema |-> schema]
BindFrame(direction, values, schema) ==
  [path |-> <<"/ws">>, match |-> "", direction |-> direction, subprotocol |-> "",
   discriminator |-> {[pointer |-> <<"/kind">>, value |-> v] : v \in values}, schema |-> schema]

Prior == << [from |-> "geo", accept |-> {"skip"}, apply |-> {"request"}, codes |-> {}],
            [from |-> "geo", accept |-> {"threshold"}, apply |-> {}, codes |-> {}],
            [from |-> "bot", accept |-> {"threshold"}, apply |-> {}, codes |-> {"SEEN"}] >>

\* profiles/_probe and profiles/default of the image.
Probe == [defaults EXCEPT !.kind = "jsonschema",
            !.request.rules["unknown_operation"].action = "deny", !.response.enabled = FALSE,
            !.bindings = << Bind({}, <<"/_probe/valid">>, "prefix", "probe") >>]
Off == [defaults EXCEPT !.mode = "off"]

\* By JSON schema, strict about requests and frames.
Shop == [defaults EXCEPT !.kind = "jsonschema", !.prior = Prior,
           !.request.rules = Denied, !.request.outcomes = DenyOutcomes,
           !.bindings = << Bind({"POST"}, <<"/orders">>, "exact", "order"),
                           Bind({}, <<"/orders">>, "prefix", "item") >>,
           !.response.outcomes = ScoreOutcomes,
           !.frame.enabled = TRUE, !.frame.c2s.outcomes = << Ban(On("deny"), "net") >>,
           !.frame.bindings = << BindFrame("c2s", {"event"}, "event"), BindFrame("", {}, "item") >>]

\* By an OpenAPI description, strict about responses.
Specified == [defaults EXCEPT !.source = "spec", !.basePath = <<"/api">>, !.prior = Prior,
            !.request.rules = Scored, !.request.outcomes = ScoreOutcomes \o Overloaded,
            !.request.headers = TRUE, !.response.onlyTypes = {}, !.response.ctype = FALSE,
            !.response.rules = All(ResponseRules, Rule("deny", 0)),
            !.response.outcomes = << Ban(On("deny"), "addr") >>]

Watch == [defaults EXCEPT !.kind = "jsonschema", !.mode = "observe", !.source = "item", !.prior = Prior,
            !.request.rules = Scored, !.request.outcomes = ScoreOutcomes \o Overloaded,
            !.response.enabled = FALSE, !.frame.enabled = TRUE]

Tree(default, shop) == [n \in {"default", "shop", "_probe"} |->
  Entry(CASE n = "default" -> default [] n = "shop" -> shop [] OTHER -> Probe)]

Bad == [Shop EXCEPT !.request.outcomes = << Ask(On("allow"), "off", "", "bot") >>]

\* The last five do not load: an ask without its axis, a rule nobody knows, a
\* schema that is not there, a description nobody names, limits of its own.
MCTrees ==
  [schema   |-> Tree(Off, Shop),
   openapi  |-> Tree([Specified EXCEPT !.response.ctype = TRUE, !.basePath = <<"/api", "/">>], Specified),
   observe  |-> [n \in {"default", "_probe"} |-> Entry(IF n = "default" THEN Watch ELSE Probe)],
   axis     |-> Tree(Off, Bad),
   rule     |-> Tree(Off, [Shop EXCEPT !.frame.c2s.rules["opcode"].action = "drop"]),
   document |-> Tree(Off, [Shop EXCEPT !.frame.bindings = << BindFrame("", {}, "banned") >>]),
   unnamed  |-> Tree(Off, [defaults EXCEPT !.frame.bindings = << BindFrame("", {}, "item") >>]),
   limits   |-> Tree(Off, [Shop EXCEPT !.limits.depth = 8])]

Loc(kind, content, truncated, enc, sha) ==
  [kind |-> kind, content |-> content, truncated |-> truncated, enc |-> enc, sha |-> sha]

NoLoc == Loc("none", "empty", FALSE, "none", "none")
Held  == Loc("located", "json", FALSE, "none", "whole")
Loose == Loc("located", "json", FALSE, "none", "none")
Bodies ==
  { NoLoc, Loc("unavailable", "empty", FALSE, "none", "none"), Held,
    Loc("located", "garbage", FALSE, "sealed", "none"), Loc("located", "blank", FALSE, "none", "whole"),
    Loc("located", "big", TRUE, "none", "whole"), Loc("located", "big", FALSE, "none", "whole"),
    Loc("located", "deep", FALSE, "none", "processed"), Loc("located", "garbage", FALSE, "none", "whole") }

Act(from, do, delta) == [from |-> from, do |-> do, apply |-> "request", code |-> "SEEN", delta |-> delta]
Priors ==
  { <<>>, << Act("geo", "skip", 0) >>, << Act("geo", "threshold", 900), Act("bot", "threshold", 50) >>,
    << Act("geo", "threshold", -10), Act("bot", "threshold", -20), Act("geo", "archive", 0) >> }

Status(code, class, lower) == [code |-> code, class |-> class, lower |-> lower]

\* A plain request for the shop's profile.
Plain ==
  [json |-> TRUE, supported |-> TRUE, release |-> FALSE, phase |-> "request", direction |-> "",
   binary |-> FALSE, subprotocol |-> "", profile |-> "shop", subject |-> TRUE, addr |-> TRUE,
   method |-> "POST", path |-> <<"/orders">>, ctype |-> "json", swapped |-> "json", status |-> Status("200", "2XX", "2xx"),
   conforms |-> {"order", "item"}, fits |-> {"path", "query", "headers", "body"}, demanded |-> {},
   marks |-> {}, argsSize |-> FALSE, needArgs |-> TRUE, prior |-> <<>>,
   store |-> [headers |-> NoLoc, body |-> NoLoc, args |-> NoLoc]]

WithStore(m, h, b, a) == [m EXCEPT !.store = [headers |-> h, body |-> b, args |-> a]]

Odd ==
  { [Plain EXCEPT !.json = FALSE], [Plain EXCEPT !.phase = "other"], [Plain EXCEPT !.supported = FALSE],
    [Plain EXCEPT !.release = TRUE], [Plain EXCEPT !.subject = FALSE], [Plain EXCEPT !.profile = "ghost"],
    [Plain EXCEPT !.profile = ""],
    [Plain EXCEPT !.profile = "_probe", !.method = "GET", !.path = <<"/healthcheck">>],
    WithStore(Plain, Loc("mixed", "empty", FALSE, "none", "none"), NoLoc, NoLoc) }

Requests ==
  { WithStore([Plain EXCEPT !.profile = n, !.prior = p, !.argsSize = (a # NoLoc), !.addr = (p # <<>>)],
              NoLoc, b, a) :
      n \in {"", "shop"}, p \in Priors, b \in Bodies, a \in {NoLoc, Held} }

\* What the contracts tell apart.
Calls ==
  { WithStore([Plain EXCEPT !.method = m, !.path = p, !.ctype = t, !.conforms = c, !.fits = f,
                            !.demanded = d], Held, b, NoLoc) :
      m \in {"GET", "POST"}, t \in {"json", "text"}, c \in {{"item"}, {"order"}},
      p \in {<<"/orders">>, <<"/orders", "X">>, <<"/api", "/orders">>, <<"/ws">>},
      f \in {{"path", "query", "headers", "body"}, {"query", "headers"}},
      d \in {{}, {"query", "headers"}}, b \in {NoLoc, Held} }

Responses ==
  { WithStore([Plain EXCEPT !.phase = "response", !.ctype = t, !.path = p, !.method = m, !.status = s,
                            !.profile = n, !.fits = f, !.conforms = f], Held, b, NoLoc) :
      t \in {"json", "text"}, p \in {<<"/orders">>, <<"/api", "/orders">>}, m \in {"GET", "POST"},
      s \in {Status("200", "2XX", "2xx"), Status("404", "4XX", "4xx")}, f \in {{}, {"body", "item", "order"}},
      n \in {"", "shop"}, b \in Bodies }

Mark(pointer) == [pointer |-> <<pointer>>, value |-> "event"]

Frames ==
  { WithStore([Plain EXCEPT !.phase = "frame", !.direction = d, !.binary = i, !.profile = n, !.path = p,
                            !.marks = k, !.conforms = {"event"}],
              Held, b, NoLoc) :
      d \in {"", "s2c"}, i \in BOOLEAN, n \in {"", "shop"}, b \in Bodies,
      p \in {<<"/ws">>, <<"/orders">>}, k \in {{}, {Mark("/kind")}, {Mark("/type")}} }

\* Headers without a digest, so that others may come in their place.
Exchanged ==
  { WithStore([Plain EXCEPT !.phase = f, !.path = p, !.ctype = t[1], !.swapped = t[2], !.fits = {"body"}],
              Loose, b, NoLoc) :
      f \in {"request", "response"}, p \in {<<"/orders">>, <<"/api", "/orders">>},
      t \in {<<"json", "text">>, <<"text", "json">>},
      b \in {Held, Loc("located", "big", FALSE, "none", "whole")} }

MCMessages == Odd \cup Requests \cup Calls \cup Responses \cup Frames \cup Exchanged
OddMessages == Odd
MCFills == {0, 60}

ASSUME MCProbeShipped == ProbeShipped
=============================================================================
