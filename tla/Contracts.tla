----------------------------- MODULE Contracts ------------------------------
(***************************************************************************)
(* internal/schema: a contract is compiled from the documents of a         *)
(* profile, and answers for a message which of its checks fails.           *)
(*                                                                         *)
(* The libraries are external.  A document of a profile is a JSON schema   *)
(* or an OpenAPI description, the set of its operations; whether the       *)
(* message's document validates against a schema is m.conforms, which of   *)
(* its parts the OpenAPI validators accept is m.fits, and which parts they *)
(* miss in a call that does not bring them is m.demanded.                  *)
(***************************************************************************)
EXTENDS Profiles

CONSTANT Covers   \* pairs of a media range, such as application/*, and a type in it

Results == {"ok", "mismatch", "unknown_operation", "content_type", "status"}

\* The operations of a description are keyed by their path and their method.
IsDocument(doc) ==
  \A a, b \in doc.operations : a.path = b.path /\ a.method = b.method => a = b

-----------------------------------------------------------------------------
(* Compile: one profile that does not build fails the whole snapshot.      *)

buildOpenAPI(p) ==
  /\ p.source \in DOMAIN p.docs
  /\ p.docs[p.source].kind = "openapi" /\ p.docs[p.source].operations # {}

buildJSONSchema(p) ==
  /\ \A n \in DOMAIN p.docs : p.docs[n].kind # "broken"
  /\ p.source \in DOMAIN p.docs \/ p.bindings # <<>> \/ p.frame.bindings # <<>>

build(p) == IF p.kind = "openapi" THEN buildOpenAPI(p) ELSE buildJSONSchema(p)

Compile(snap) == \A n \in DOMAIN snap : snap[n].mode = "off" \/ build(snap[n])

\* load: a tree gives for every name of a profile what its YAML says and the
\* documents beside it.
Loaded(tree) ==
  [n \in DOMAIN tree |-> attachDocuments(ParseProfile(tree[n].profile), tree[n].files)]

Loads(tree) ==
  LET parsed(n) == ParseProfile(tree[n].profile) IN
  /\ "default" \in DOMAIN tree
  /\ \A n \in DOMAIN tree : Validate(parsed(n)) /\ Attachable(parsed(n), tree[n].files)
  /\ \A n, k \in DOMAIN tree : parsed(n).limits = parsed(k).limits
  /\ Compile(Loaded(tree))

-----------------------------------------------------------------------------
(* JSON schema: a binding picks the schema, the main one is the fallback.  *)

\* byName: None is the schema of a name that has no document.
byName(p, n) == IF n \in DOMAIN p.docs THEN n ELSE None

\* Mutation of pick: the last binding that matches wins.
pickLast(p, m) ==
  LET hits == {i \in DOMAIN p.bindings : Matches(p.bindings[i], m)}
  IN  byName(p, IF hits = {} THEN p.source ELSE p.bindings[Max(hits)].schema)

\* Mutation of pick: without a main schema a call that is not bound is checked
\* against the first one.
pickAny(p, m) ==
  LET hits == {i \in DOMAIN p.bindings : Matches(p.bindings[i], m)}
  IN  byName(p, IF hits # {} THEN p.bindings[Min(hits)].schema
                ELSE IF p.source = None /\ p.bindings # <<>> THEN p.bindings[1].schema ELSE p.source)

\* The first binding that matches wins; None when no schema is bound.
pick(p, m) ==
  LET hits == {i \in DOMAIN p.bindings : Matches(p.bindings[i], m)}
  IN  byName(p, IF hits = {} THEN p.source ELSE p.bindings[Min(hits)].schema)

\* m.marks are the scalars of the document, each with the pointer that leads to it.
discriminates(m, b) == b.discriminator \subseteq m.marks

pickFrame(p, m, direction) ==
  LET hits == {i \in DOMAIN p.frame.bindings :
                 FrameMatches(p.frame.bindings[i], m, direction)
                 /\ discriminates(m, p.frame.bindings[i])}
  IN  byName(p, IF hits = {} THEN p.source ELSE p.frame.bindings[Min(hits)].schema)

\* Decode finds no value in blanks; a document that is not the message's own
\* may be anything, and is taken to conform.
SchemaAccepts(n, m, data) == data = "other" \/ (data = "json" /\ n \in m.conforms)

bySchema(sec, sch, m, data) ==
  CASE ~sec.body                -> "ok"
    [] sec.body /\ sch = None     -> "unknown_operation"
    [] sec.body /\ sch # None     ->
         IF data = "empty" \/ SchemaAccepts(sch, m, data) THEN "ok" ELSE "mismatch"

\* Frame decodes the message before it looks for its schema.
Frame(p, sec, m, direction, data) ==
  LET sch == pickFrame(p, m, direction) IN
  CASE ~sec.body \/ data = "empty"         -> "ok"
    [] sec.body /\ data = "blank"          -> "mismatch"
    [] OTHER -> CASE sch = None                      -> "unknown_operation"
                  [] sch # None /\ SchemaAccepts(sch, m, data) -> "ok"
                  [] OTHER                         -> "mismatch"

-----------------------------------------------------------------------------
(* OpenAPI: the operation of the call, then one validator after the other. *)

\* build: the base path of a contract has no slash at its end.
trimmed(base) ==
  IF base # <<>> /\ base[Len(base)] = "/" THEN SubSeq(base, 1, Len(base) - 1) ELSE base

\* The base path goes only at a boundary of segments.
stripBase(path, base) ==
  LET rest == SubSeq(path, Len(base) + 1, Len(path)) IN
  CASE base = <<>> \/ ~IsPrefix(base, path)        -> path
    [] base # <<>> /\ rest = <<>> /\ path = base   -> <<"/">>
    [] OTHER -> IF Rooted(rest) THEN rest ELSE path

\* FindRoute, and the operation of the method on it: one or none.
Route(p, m) ==
  {op \in p.docs[p.source].operations :
     op.path = stripBase(m.path, trimmed(p.basePath)) /\ op.method = m.method}

\* The headers yield nothing unless the blob is an array of pairs; one that came in
\* the place of another is read like it.
HeadersRead(got) == IF got.headers.data \in {"json", "other"} THEN got.headers.data ELSE "empty"

\* m.swapped is the content type that another blob of headers brings.
ContentType(m, got) ==
  CASE HeadersRead(got) = "json"  -> m.ctype
    [] HeadersRead(got) = "other" -> m.swapped
    [] OTHER                      -> None

\* mediaTypeFor: the type itself, its range, or any.
Described(content, ct) == \E r \in content : r \in {ct, "*/*"} \/ <<r, ct>> \in Covers

\* A part that was replaced in the store may be anything, and is taken to fit.
Fit(m, part, data) ==
  CASE data \in {"json", "blank"} -> part \in m.fits
    [] data = "empty"             -> part \notin m.demanded
    [] OTHER                      -> data = "other"

\* requestBody: what it finds, and whether the description is silent about it.
requestBody(op, m, got) ==
  LET data == got.body.data IN
  CASE data = "empty" -> [found |-> op.body = "required", undescribed |-> FALSE]
    [] data # "empty" /\ (op.body = "none" \/ ~Described(op.types, ContentType(m, got))) ->
         [found |-> TRUE, undescribed |-> TRUE]
    [] OTHER -> [found |-> ~Fit(m, "body", data), undescribed |-> FALSE]

\* finish: an undescribed body is its own outcome only when nothing else is wrong.
finishResult(findings, undescribed) ==
  CASE findings = 0                                    -> "ok"
    [] findings # 0 /\ undescribed /\ findings = 1     -> "content_type"
    [] OTHER                                           -> "mismatch"

Request(p, m, got) ==
  LET sec  == p.request
      ops  == Route(p, m)
      body == requestBody(CHOOSE op \in ops : TRUE, m, got)
      query   == Fit(m, "query", got.args.data)
      headers == Fit(m, "headers", HeadersRead(got))
      wrong == {part \in {"path", "query", "headers", "body"} :
                  CASE part = "path"    -> sec.path /\ "path" \notin m.fits
                    [] part = "query"   -> sec.query /\ ~query
                    [] part = "headers" -> sec.headers /\ ~headers
                    [] part = "body"    -> sec.body /\ body.found}
  IN  IF p.kind = "jsonschema" THEN bySchema(sec, pick(p, m), m, got.body.data)
      ELSE IF ops = {} THEN "unknown_operation"
      ELSE finishResult(Cardinality(wrong), sec.body /\ body.undescribed)

\* The exact code, then its class in either case, then the default.
responseFor(op, status) ==
  LET keys == <<status.code, status.class, status.lower, "default">>
      hits == {i \in DOMAIN keys : keys[i] \in DOMAIN op.responses}
  IN  IF hits = {} THEN {} ELSE {op.responses[keys[Min(hits)]]}

\* A response that declares no content, or not this type, has nothing to check.
Response(p, m, got) ==
  LET sec      == p.response
      data     == got.body.data
      ops      == Route(p, m)
      declared == responseFor(CHOOSE op \in ops : TRUE, m.status)
      r        == CHOOSE d \in declared : TRUE
      named    == r.declares /\ Described(r.types, ContentType(m, got))
  IN  CASE p.kind = "jsonschema" -> bySchema(sec, pick(p, m), m, data)
        [] p.kind # "jsonschema" /\ ops = {} -> "unknown_operation"
        [] OTHER ->
             IF declared = {} THEN (IF sec.status THEN "status" ELSE "ok")
             ELSE IF sec.ctype /\ data # "empty" /\ r.declares /\ ~named
               THEN finishResult(1, TRUE)
             ELSE IF ~sec.body \/ data = "empty" \/ ~named THEN "ok"
             ELSE finishResult(IF Fit(m, "body", data) THEN 0 ELSE 1, FALSE)
=============================================================================
