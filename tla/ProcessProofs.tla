--------------------------- MODULE ProcessProofs ----------------------------
(***************************************************************************)
(* The process settles what it accepted before it exits, and it serves     *)
(* only with the configuration it was given: for any number of messages    *)
(* and any environments and conf files.                                    *)
(***************************************************************************)
EXTENDS Process, SequenceTheorems, WellFoundedInduction, TLAPS

-----------------------------------------------------------------------------
(* inspector.conf.  A statement about the state after every line is shown  *)
(* by taking the first line it would fail for.                             *)

\* A set of line numbers that is not empty has a first one.
LEMMA FirstOf ==
  ASSUME NEW T, T \subseteq Nat, T # {}
  PROVE  \E n \in T : \A m \in T : n <= m
<1>1. PICK n \in T : \A m \in T : ~(<<m, n>> \in OpToRel(<, Nat))
  BY NatLessThanWellFounded, WFMin
<1>2. \A m \in T : ~(m < n)
  BY <1>1, Zenon DEF OpToRel
<1> QED
  BY <1>2

\* The states of the parser up to line n, as a finite table.
Table(g, lines, n) ==
  g = [k \in 0..n |-> IF k = 0 THEN Opening ELSE Line(g[k - 1], lines[k])]

\* There is a table up to every line.
LEMMA TableExists ==
  ASSUME NEW lines, NEW n \in Nat
  PROVE  \E g : Table(g, lines, n)
<1> DEFINE T == {k \in Nat : ~\E g : Table(g, lines, k)}
<1> SUFFICES ASSUME T # {} PROVE FALSE
  OBVIOUS
<1>1. PICK k \in T : \A m \in T : k <= m
  BY FirstOf
<1>2. CASE k = 0
  <2> DEFINE g == [e \in 0..0 |-> Opening]
  <2>1. Table(g, lines, 0)
    BY DEF Table
  <2> QED
    BY <1>1, <1>2, <2>1
<1>3. CASE k # 0
  <2>1. k - 1 \in Nat /\ k - 1 \notin T
    BY <1>1, <1>3
  <2>2. PICK g : Table(g, lines, k - 1)
    BY <2>1
  <2> DEFINE h == [e \in 0..k |-> IF e = k THEN Line(g[k - 1], lines[k]) ELSE g[e]]
  <2>3. ASSUME NEW e \in 0..k
        PROVE  h[e] = IF e = 0 THEN Opening ELSE Line(h[e - 1], lines[e])
    <3>1. CASE e = k
      BY <3>1, <1>3
    <3>2. CASE e # k
      <4>1. e \in 0..(k - 1) /\ h[e] = g[e]
        BY <3>2
      <4>2. g[e] = IF e = 0 THEN Opening ELSE Line(g[e - 1], lines[e])
        BY <4>1, <2>2 DEF Table
      <4>3. e # 0 => h[e - 1] = g[e - 1]
        BY <4>1
      <4> QED
        BY <4>1, <4>2, <4>3
    <3> QED
      BY <3>1, <3>2
  <2>4. Table(h, lines, k)
    BY <2>3 DEF Table
  <2> QED
    BY <1>1, <2>4
<1> QED
  BY <1>2, <1>3

\* Two tables agree where both are defined.
LEMMA TablesAgree ==
  ASSUME NEW lines, NEW g, NEW h, NEW m \in Nat, NEW n \in Nat,
         Table(g, lines, m), Table(h, lines, n),
         NEW k \in Nat, k <= m, k <= n
  PROVE  g[k] = h[k]
<1> DEFINE T == {e \in 0..k : g[e] # h[e]}
<1> SUFFICES ASSUME T # {} PROVE FALSE
  OBVIOUS
<1>0. T \subseteq Nat
  OBVIOUS
<1>1. PICK e \in T : \A d \in T : e <= d
  BY <1>0, FirstOf
<1>2. e \in 0..m /\ e \in 0..n
  BY <1>1
<1>3. /\ g[e] = IF e = 0 THEN Opening ELSE Line(g[e - 1], lines[e])
      /\ h[e] = IF e = 0 THEN Opening ELSE Line(h[e - 1], lines[e])
  BY <1>2 DEF Table
<1>4. CASE e # 0
  <2>1. e - 1 \in 0..k /\ e - 1 \notin T
    BY <1>1, <1>4
  <2> QED
    BY <1>1, <1>3, <1>4, <2>1
<1> QED
  BY <1>1, <1>3, <1>4

\* The recursion of After has a solution: the state after no line is Opening, and
\* each line takes the state after the one before it.
LEMMA AfterUnfold ==
  ASSUME NEW lines
  PROVE  /\ After(lines)[0] = Opening
         /\ \A n \in Nat \ {0} : After(lines)[n] = Line(After(lines)[n - 1], lines[n])
<1> DEFINE G == [n \in Nat |-> CHOOSE g : Table(g, lines, n)]
           f == [e \in Nat |-> G[e][e]]
<1>1. \A n \in Nat : Table(G[n], lines, n)
  BY TableExists
<1> HIDE DEF G
<1>2. ASSUME NEW e \in Nat
      PROVE  f[e] = IF e = 0 THEN Opening ELSE Line(f[e - 1], lines[e])
  <2>0. e \in 0..e
    OBVIOUS
  <2>1. G[e][e] = IF e = 0 THEN Opening ELSE Line(G[e][e - 1], lines[e])
    BY <1>1, <2>0 DEF Table
  <2>2. CASE e # 0
    <3>1. e - 1 \in Nat /\ e - 1 <= e /\ e - 1 <= e - 1
      BY <2>2
    <3>2. Table(G[e], lines, e) /\ Table(G[e - 1], lines, e - 1)
      BY <1>1, <3>1
    <3>3. G[e][e - 1] = G[e - 1][e - 1]
      BY <3>1, <3>2, TablesAgree
    <3> QED
      BY <2>1, <2>2, <3>1, <3>3
  <2> QED
    BY <2>1, <2>2
<1>3. f = [e \in Nat |-> IF e = 0 THEN Opening ELSE Line(f[e - 1], lines[e])]
  BY <1>2
<1> HIDE DEF f
<1>4. \E s : s = [e \in Nat |-> IF e = 0 THEN Opening ELSE Line(s[e - 1], lines[e])]
  BY <1>3
<1>5. After(lines) =
        [e \in Nat |-> IF e = 0 THEN Opening ELSE Line(After(lines)[e - 1], lines[e])]
  BY <1>4, Zenon DEF After
<1> QED
  BY <1>5

\* The lines that set key, and what the last of them says.
SetBy(lines, n, key) == {i \in 1..n : lines[i].kind = "set" /\ lines[i].key = key}

\* What the last line that sets key says, among the first n.
LastSet(lines, n, key) ==
  LET at == SetBy(lines, n, key) IN
  IF at = {} THEN Unset ELSE lines[CHOOSE i \in at : \A j \in at : j <= i].value

\* One line more either sets key, and then it is the last, or leaves what was set.
LEMMA LastSetNext ==
  ASSUME NEW lines, NEW n \in Nat \ {0}, NEW key
  PROVE  LastSet(lines, n, key) =
           IF lines[n].kind = "set" /\ lines[n].key = key THEN lines[n].value
           ELSE LastSet(lines, n - 1, key)
<1> DEFINE at == SetBy(lines, n, key)
<1>1. CASE lines[n].kind = "set" /\ lines[n].key = key
  <2>1. n \in at /\ \A j \in at : j <= n /\ j \in Nat
    BY <1>1 DEF SetBy
  <2>2. (CHOOSE i \in at : \A j \in at : j <= i) = n
    <3> DEFINE c == CHOOSE i \in at : \A j \in at : j <= i
    <3>1. c \in at /\ \A j \in at : j <= c
      BY <2>1
    <3> HIDE DEF c
    <3>2. c = n
      BY <2>1, <3>1
    <3> QED
      BY <3>2 DEF c
  <2> QED
    BY <1>1, <2>1, <2>2 DEF LastSet
<1>2. CASE ~(lines[n].kind = "set" /\ lines[n].key = key)
  <2>1. SetBy(lines, n, key) = SetBy(lines, n - 1, key)
    BY <1>2 DEF SetBy
  <2> QED
    BY <1>2, <2>1 DEF LastSet
<1> QED
  BY <1>1, <1>2

\* The parser's state is a record, and says whether it has refused the file.
Shaped(acc) ==
  /\ DOMAIN acc = {"ok", "block", "seen", "max", "full", "expand", "url", "internal"}
  /\ acc.ok \in BOOLEAN

\* A line that sets key.
Sets(line, key) == line.kind = "set" /\ line.key = key

\* What a line does to a field of the file it is allowed to set, unless it refuses.
Follows(r, acc, line) ==
  r.ok =>
    /\ acc.ok
    /\ r.max = IF Sets(line, "queue_max") THEN line.value ELSE acc.max
    /\ r.full = IF Sets(line, "queue_full") THEN line.value ELSE acc.full

\* A directive outside the block sets what it names.
LEMMA DirectiveStep ==
  ASSUME NEW acc, NEW line, Shaped(acc), line.kind = "set"
  PROVE  LET r == Directive(acc, line) IN Shaped(r) /\ Follows(r, acc, line)
<1> DEFINE v == line.value
<1>1. CASE line.key = "queue_max" /\ v # Junk
  <2>1. CASE v >= 1
    <3>1. Directive(acc, line) = [acc EXCEPT !.max = v]
      BY <1>1, <2>1 DEF Directive
    <3> QED
      BY <1>1, <3>1 DEF Shaped, Follows, Sets
  <2>2. CASE ~(v >= 1)
    <3>1. Directive(acc, line) = Refused(acc)
      BY <1>1, <2>2 DEF Directive
    <3> QED
      BY <3>1 DEF Shaped, Follows, Refused
  <2> QED
    BY <2>1, <2>2
<1>2. CASE line.key = "queue_full" /\ v \in QueueModes
  <2>1. Directive(acc, line) = [acc EXCEPT !.full = v]
    BY <1>2 DEF Directive
  <2> QED
    BY <1>2, <2>1 DEF Shaped, Follows, Sets
<1>3. CASE line.key = "queue_expand" /\ v \in ExpandModes
  <2>1. Directive(acc, line) = [acc EXCEPT !.expand = v]
    BY <1>3 DEF Directive
  <2> QED
    BY <1>3, <2>1 DEF Shaped, Follows, Sets
<1>4. CASE ~(\/ line.key = "queue_max" /\ v # Junk
             \/ line.key = "queue_full" /\ v \in QueueModes
             \/ line.key = "queue_expand" /\ v \in ExpandModes)
  <2>1. Directive(acc, line) = Refused(acc)
    BY <1>4 DEF Directive
  <2> QED
    BY <2>1 DEF Shaped, Follows, Refused
<1> QED
  BY <1>1, <1>2, <1>3, <1>4

\* A directive inside the redis block sets a URL or refuses.
LEMMA RedisKeyStep ==
  ASSUME NEW acc, NEW line, Shaped(acc), line.kind = "set"
  PROVE  LET r == parseRedisKey(acc, line) IN Shaped(r) /\ Follows(r, acc, line)
<1>1. CASE line.value # Junk /\ line.key = "url"
  <2>1. parseRedisKey(acc, line) = [acc EXCEPT !.url = line.value]
    BY <1>1 DEF parseRedisKey
  <2> QED
    BY <1>1, <2>1 DEF Shaped, Follows, Sets
<1>2. CASE line.value # Junk /\ line.key = "internal"
  <2>1. parseRedisKey(acc, line) = [acc EXCEPT !.internal = line.value]
    BY <1>2 DEF parseRedisKey
  <2> QED
    BY <1>2, <2>1 DEF Shaped, Follows, Sets
<1>3. CASE line.value = Junk \/ line.key \notin {"url", "internal"}
  <2>1. parseRedisKey(acc, line) = Refused(acc)
    BY <1>3 DEF parseRedisKey
  <2> QED
    BY <2>1 DEF Shaped, Follows, Refused
<1> QED
  BY <1>1, <1>2, <1>3

\* Whatever a line is, in the block or out of it, it is followed or refused.
LEMMA LineStep ==
  ASSUME NEW acc, NEW line, Shaped(acc)
  PROVE  LET r == Line(acc, line) IN Shaped(r) /\ Follows(r, acc, line)
<1> DEFINE once == [acc EXCEPT !.seen = @ \cup {Id(acc, line)}]
           r == Line(acc, line)
<1>1. Shaped(once) /\ once.ok = acc.ok /\ once.max = acc.max /\ once.full = acc.full
  BY DEF Shaped
<1>2. CASE r = acc /\ (~acc.ok \/ line.kind = "blank")
  BY <1>2 DEF Shaped, Follows, Sets
<1>3. CASE r = [acc EXCEPT !.block = FALSE] /\ line.kind = "close"
  BY <1>3 DEF Shaped, Follows, Sets
<1>4. CASE r = Refused(acc)
  BY <1>4 DEF Shaped, Follows, Refused
<1>5. CASE r = parseRedisKey(once, line) /\ line.kind = "set"
  <2>1. Shaped(r) /\ Follows(r, once, line)
    BY <1>1, <1>5, RedisKeyStep
  <2> QED
    BY <1>1, <2>1 DEF Follows
<1>6. CASE r = Directive(once, line) /\ line.kind = "set"
  <2>1. Shaped(r) /\ Follows(r, once, line)
    BY <1>1, <1>6, DirectiveStep
  <2> QED
    BY <1>1, <2>1 DEF Follows
<1>7. CASE r = [once EXCEPT !.block = TRUE] /\ line.kind = "open"
  BY <1>1, <1>7 DEF Shaped, Follows, Sets
<1>8. \/ r = acc /\ (~acc.ok \/ line.kind = "blank")
      \/ r = [acc EXCEPT !.block = FALSE] /\ line.kind = "close"
      \/ r = Refused(acc)
      \/ r = parseRedisKey(once, line) /\ line.kind = "set"
      \/ r = Directive(once, line) /\ line.kind = "set"
      \/ r = [once EXCEPT !.block = TRUE] /\ line.kind = "open"
  BY DEF Line
<1> QED
  BY <1>2, <1>3, <1>4, <1>5, <1>6, <1>7, <1>8

\* After every line the file says what the last line that set it said.
LEMMA FileSays ==
  ASSUME NEW lines, NEW n \in Nat
  PROVE  LET acc == After(lines)[n] IN
         /\ Shaped(acc)
         /\ acc.ok => /\ acc.max = LastSet(lines, n, "queue_max")
                      /\ acc.full = LastSet(lines, n, "queue_full")
<1> DEFINE Says(k) ==
      /\ Shaped(After(lines)[k])
      /\ After(lines)[k].ok =>
           /\ After(lines)[k].max = LastSet(lines, k, "queue_max")
           /\ After(lines)[k].full = LastSet(lines, k, "queue_full")
    T == {k \in Nat : ~Says(k)}
<1> SUFFICES ASSUME T # {} PROVE FALSE
  OBVIOUS
<1>0. T \subseteq Nat
  OBVIOUS
<1>1. PICK k \in T : \A m \in T : k <= m
  BY <1>0, FirstOf
<1>2. CASE k = 0
  <2>1. After(lines)[0] = Opening
    BY AfterUnfold
  <2>2. \A key : SetBy(lines, 0, key) = {}
    BY DEF SetBy
  <2>3. \A key : LastSet(lines, 0, key) = Unset
    BY <2>2 DEF LastSet
  <2>4. Says(0)
    BY <2>1, <2>3 DEF Shaped, Opening
  <2> QED
    BY <1>1, <1>2, <2>4
<1>3. CASE k # 0
  <2>1. k - 1 \in Nat /\ k \in Nat \ {0} /\ k - 1 \notin T
    BY <1>1, <1>3
  <2>2. Says(k - 1)
    BY <2>1
  <2>3. After(lines)[k] = Line(After(lines)[k - 1], lines[k])
    BY <2>1, AfterUnfold
  <2>4. Shaped(After(lines)[k]) /\ Follows(After(lines)[k], After(lines)[k - 1], lines[k])
    BY <2>2, <2>3, LineStep
  <2>5. \A key : LastSet(lines, k, key) =
                   IF Sets(lines[k], key) THEN lines[k].value ELSE LastSet(lines, k - 1, key)
    BY <2>1, LastSetNext DEF Sets
  <2>6. Says(k)
    BY <2>2, <2>4, <2>5 DEF Follows
  <2> QED
    BY <1>1, <2>6
<1> QED
  BY <1>2, <1>3

\* What the file as a whole says, when it is not refused.
LEMMA WholeFile ==
  ASSUME IsConf(conf), File(conf).ok
  PROVE  /\ File(conf).max = InFile("queue_max")
         /\ File(conf).full = InFile("queue_full")
<1>1. CASE conf = Unset
  <2>1. File(conf) = Opening
    BY <1>1, ConfigAssumption DEF File
  <2> QED
    BY <1>1, <2>1 DEF InFile, Opening
<1>2. CASE conf = Junk
  <2>1. File(conf) = Refused(Opening)
    BY <1>2, ConfigAssumption DEF File
  <2>2. ~Refused(Opening).ok
    BY DEF Refused, Opening
  <2> QED
    BY <2>1, <2>2
<1>3. CASE conf \notin {Unset, Junk}
  <2> DEFINE end == After(conf)[Len(conf)]
  <2>1. Len(conf) \in Nat /\ DOMAIN conf = 1..Len(conf)
    BY <1>3 DEF IsConf
  <2>2. /\ Shaped(end)
        /\ end.ok => /\ end.max = LastSet(conf, Len(conf), "queue_max")
                     /\ end.full = LastSet(conf, Len(conf), "queue_full")
    BY <2>1, FileSays
  <2>3. File(conf) = IF end.block THEN Refused(end) ELSE end
    BY <1>3 DEF File, parseQueueFile
  <2> HIDE DEF end
  <2>4. ~Refused(end).ok
    BY <2>2 DEF Refused, Shaped
  <2>5. File(conf) = end /\ end.ok
    BY <2>3, <2>4
  <2>6. \A key : LastSet(conf, Len(conf), key) = InFile(key)
    BY <1>3, <2>1 DEF LastSet, SetBy, InFile
  <2> QED
    BY <2>2, <2>5, <2>6
<1> QED
  BY <1>1, <1>2, <1>3

\* A depth that comes from the file is a number.
LEMMA DepthInFile ==
  ASSUME IsConf(conf)
  PROVE  InFile("queue_max") \in Int \cup {Unset, Junk}
<1> DEFINE at == {i \in DOMAIN conf : conf[i].kind = "set" /\ conf[i].key = "queue_max"}
<1>1. CASE conf \in {Unset, Junk}
  BY <1>1 DEF InFile
<1>2. CASE conf \notin {Unset, Junk} /\ at = {}
  BY <1>2 DEF InFile
<1>3. CASE conf \notin {Unset, Junk} /\ at # {}
  <2>1. Len(conf) \in Nat /\ DOMAIN conf = 1..Len(conf)
    BY <1>3 DEF IsConf
  <2>2. \E i \in at : \A j \in at : j <= i
    <3> DEFINE T == {k \in Nat : \E i \in at : i = Len(conf) - k}
    <3>1. PICK a \in at : TRUE
      BY <1>3
    <3>2. Len(conf) - a \in T
      BY <2>1, <3>1
    <3>3. PICK k \in T : \A m \in T : k <= m
      BY <3>2, FirstOf
    <3>4. PICK i \in at : i = Len(conf) - k
      BY <3>3
    <3>5. ASSUME NEW j \in at PROVE j <= i
      <4>1. Len(conf) - j \in T
        BY <2>1
      <4> QED
        BY <2>1, <3>3, <3>4, <4>1
    <3> QED
      BY <3>5
  <2> DEFINE i == CHOOSE i \in at : \A j \in at : j <= i
  <2>3. i \in at
    BY <2>2
  <2>4. InFile("queue_max") = conf[i].value
    BY <1>3 DEF InFile
  <2> HIDE DEF i
  <2>5. conf[i].value \in Int \cup {Junk}
    BY <1>3, <2>3 DEF IsConf
  <2> QED
    BY <2>4, <2>5
<1> QED
  BY <1>1, <1>2, <1>3

\* What Load returns is within the assumptions of Pool, and follows the order of
\* environment, file and default.
LEMMA Loaded ==
  ASSUME <<env, conf>> \in Starts, NEW c, c \in Load(env, conf)
  PROVE  /\ Load(env, conf) = {c} /\ c = Resolve(env, File(conf))
         /\ c.workers \in Nat \ {0} /\ c.depth \in Nat \ {0}
         /\ c.full \in QueueModes /\ {c.reserve, c.minBudget} \subseteq Nat
         /\ c.depth = (IF env.depth # Unset THEN env.depth
                       ELSE IF InFile("queue_max") # Unset THEN InFile("queue_max") ELSE 256)
         /\ c.full = (IF env.full # Unset THEN env.full
                      ELSE IF InFile("queue_full") # Unset THEN InFile("queue_full") ELSE "drop")
<1> DEFINE f == File(conf)
           r == Resolve(env, f)
<1>1. IsEnv(env) /\ IsConf(conf)
  BY ProcessAssumption
<1>2. f.ok /\ Parsed(r) /\ c = r /\ validate(r) /\ Load(env, conf) = {c}
  BY DEF Load
<1>3. f.max = InFile("queue_max") /\ f.full = InFile("queue_full")
  BY <1>1, <1>2, WholeFile
<1> HIDE DEF f
<1>4. /\ r.workers = Over(env.workers, Cpus) /\ r.reserve = Over(env.reserve, 2)
      /\ r.minBudget = Over(env.minBudget, 2)
      /\ r.depth = Over(env.depth, Over(f.max, 256))
      /\ r.full = Over(env.full, Over(f.full, "drop"))
  BY DEF Resolve
<1> HIDE DEF r
<1>5. r.workers \in Int /\ r.reserve \in Int /\ r.minBudget \in Int
  BY <1>1, <1>2, <1>4, ConfigAssumption DEF IsEnv, Over, Parsed
<1>6. r.depth \in Int
  BY <1>1, <1>2, <1>3, <1>4, DepthInFile DEF IsEnv, Over, Parsed
<1>7. r.workers >= 1 /\ r.depth >= 1 /\ r.full \in QueueModes /\ r.reserve >= 0 /\ r.minBudget >= 0
  BY <1>2 DEF validate
<1>8. /\ r.depth = (IF env.depth # Unset THEN env.depth
                    ELSE IF InFile("queue_max") # Unset THEN InFile("queue_max") ELSE 256)
      /\ r.full = (IF env.full # Unset THEN env.full
                   ELSE IF InFile("queue_full") # Unset THEN InFile("queue_full") ELSE "drop")
  BY <1>3, <1>4 DEF Over
<1> QED
  BY <1>2, <1>5, <1>6, <1>7, <1>8 DEF f, r

-----------------------------------------------------------------------------
(* The process.                                                            *)

\* Where a message can be.
Places == {"new", "dropped", "ignored", "buffer", "callback", "pool", "done"}
USE DEF Places

\* Before the connection, and while it is open.
Early == {"load", "profiles", "store", "connect"}
Connected == {"geo", "parts", "subscribe", "limits"} \cup Serving

\* How far run has come decides which parts there are: the connection is open from
\* Connect on, nothing is subscribed before QueueSubscribe, the pool is closed from
\* ClosePool on and the sink from SinkClosed on.
PartsInv ==
  /\ pc \in Early \cup {"geo", "parts", "subscribe"} => sub = "none"
  /\ pc \in Connected => conn = "open"
  /\ closed <=> pc \in {"closing", "flush", "flushing", "unwind", "exited"}
  /\ sink = "closed" <=> pc \in {"unwind", "exited"}

\* Past LoadConfig there is a configuration, and it is the one Load returned.
ConfigInv == pc \notin {"load", "failed"} => cfg = Load(env, conf) /\ cfg # {}

\* Who answers a message follows from where it is; a reply precedes the event, and
\* the event is the last thing that happens to a message.
MessageInv(m) ==
  /\ place[m] \in {"new", "dropped", "ignored", "buffer"} => by[m] = "none"
  /\ place[m] = "callback" => by[m] \in {"none", "callback"}
  /\ place[m] = "pool" => by[m] = "pool"
  /\ place[m] = "done" => by[m] # "none" /\ reply[m] # "none"
  /\ event[m] # "none" <=> place[m] = "done"
  /\ reply[m] # "none" => by[m] # "none" /\ reply[m] = "sent"
  /\ sub = "none" => place[m] = "new"

\* The client does not deliver a message twice.
BufferInv == \A i, j \in DOMAIN buffer : buffer[i] = buffer[j] => i = j

\* After Close of the pool it holds nothing, and after Close of the sink the events
\* of what it answered are sent.
DrainInv ==
  /\ pc \in {"flush", "flushing", "unwind", "exited"} => held = {}
  /\ sink = "closed" => \A m \in Messages : by[m] = "pool" => event[m] = "sent"

\* The inductive invariant.
ProcessInv ==
  /\ TypeOK /\ PartsInv /\ ConfigInv /\ BufferInv /\ DrainInv
  /\ \A m \in Messages : MessageInv(m)

\* The process starts with nothing.
LEMMA InitHolds == Init => ProcessInv
<1> SUFFICES ASSUME Init PROVE ProcessInv
  OBVIOUS
<1>1. <<env, conf>> \in Starts
  BY ProcessAssumption DEF Init
<1>2. buffer \in Seq(Messages) /\ ToSet(buffer) = {}
  BY DEF Init, ToSet
<1>3. TypeOK
  BY <1>1, <1>2, ConfigAssumption DEF Init, TypeOK, Stages, Messages, NoMessage
<1>4. PartsInv /\ ConfigInv /\ BufferInv /\ DrainInv
  BY DEF Init, PartsInv, ConfigInv, BufferInv, DrainInv, Early, Connected, Serving
<1>5. \A m \in Messages : MessageInv(m)
  BY DEF Init, MessageInv
<1> QED
  BY <1>3, <1>4, <1>5 DEF ProcessInv

\* The steps that leave the messages alone: those of run but SinkClosed, and the
\* server's answer to the drain.
Quiet ==
  \/ LoadConfig \/ LoadStore \/ BodyLoader \/ Connect \/ GeoResolver \/ NewParts
  \/ QueueSubscribe \/ SetPendingLimits \/ StartWatchers \/ Signal
  \/ ClosePool \/ PoolClosed \/ CloseSink \/ Unwind \/ Unsubscribed

\* The pending limit is a number: the pool it makes room for is.
LEMMA LimitIsANumber ==
  ASSUME ProcessInv, pc = "limits"
  PROVE  The.depth + The.workers + 2 \in Nat
<1>1. PICK c : c \in cfg /\ c \in Load(env, conf) /\ cfg = Load(env, conf)
  BY DEF ProcessInv, ConfigInv
<1>2. <<env, conf>> \in Starts
  BY DEF ProcessInv, TypeOK
<1>3. Load(env, conf) = {c} /\ c.workers \in Nat /\ c.depth \in Nat
  BY <1>1, <1>2, Loaded
<1>4. The = c
  BY <1>1, <1>3 DEF The
<1> QED
  BY <1>3, <1>4

\* run goes from part to part in its one order.
LEMMA QuietStep == ProcessInv /\ Quiet => ProcessInv'
<1> SUFFICES ASSUME ProcessInv, Quiet PROVE ProcessInv'
  OBVIOUS
<1> USE DEF ProcessInv
<1>1. UNCHANGED <<env, conf, messageVars>>
  BY DEF Quiet, LoadConfig, LoadStore, BodyLoader, Connect, GeoResolver, NewParts,
     QueueSubscribe, SetPendingLimits, StartWatchers, Signal, ClosePool, PoolClosed,
     CloseSink, Unwind, Unsubscribed, Attempt, Move, partVars, messageVars
<1>2. cfg' \subseteq {Resolve(env, File(conf))} /\ ConfigInv'
  <2>1. CASE LoadConfig
    <3>1. Load(env, conf) \subseteq {Resolve(env, File(conf))}
      BY DEF Load
    <3> QED
      BY <1>1, <2>1, <3>1 DEF LoadConfig, ConfigInv
  <2>2. CASE cfg' = cfg /\ pc \notin {"load", "failed"}
    BY <1>1, <2>2 DEF TypeOK, ConfigInv
  <2>3. CASE cfg' = cfg /\ pc' = pc
    BY <1>1, <2>3 DEF TypeOK, ConfigInv
  <2>4. LoadConfig \/ (cfg' = cfg /\ pc \notin {"load", "failed"}) \/ (cfg' = cfg /\ pc' = pc)
    BY DEF Quiet, LoadStore, BodyLoader, Connect, GeoResolver, NewParts,
       QueueSubscribe, SetPendingLimits, StartWatchers, Signal, ClosePool, PoolClosed,
       CloseSink, Unwind, Unsubscribed, Attempt, Move
  <2> QED
    BY <2>1, <2>2, <2>3, <2>4
<1>3. limit' = Unset \/ limit' \in Nat
  <2>1. CASE SetPendingLimits
    BY <2>1, LimitIsANumber DEF SetPendingLimits, TypeOK
  <2>2. CASE limit' = limit
    BY <2>2 DEF TypeOK
  <2>3. SetPendingLimits \/ limit' = limit
    BY DEF Quiet, LoadConfig, LoadStore, BodyLoader, Connect, GeoResolver, NewParts,
       QueueSubscribe, StartWatchers, Signal, ClosePool, PoolClosed, CloseSink, Unwind,
       Unsubscribed, Attempt, Move, partVars
  <2> QED
    BY <2>1, <2>2, <2>3
<1>4. /\ pc' \in Stages /\ closed' \in BOOLEAN /\ sink' \in {"none", "open", "closing", "closed"}
      /\ sub' \in {"none", "on", "draining", "gone"} /\ conn' \in {"none", "open", "closed"}
      /\ PartsInv'
      /\ sub' = "none" => sub = "none"
      /\ pc' \in {"flush", "flushing", "unwind", "exited"} =>
           pc \in {"flush", "flushing", "unwind", "exited"} \/ held = {}
      /\ sink' = "closed" => sink = "closed"
  <2> USE DEF TypeOK, PartsInv, Stages, Serving, Early, Connected
  <2>1. CASE LoadConfig
    BY <2>1 DEF LoadConfig, partVars
  <2>2. CASE LoadStore \/ BodyLoader
    BY <2>2 DEF LoadStore, BodyLoader, Attempt, partVars
  <2>3. CASE Connect
    BY <2>3 DEF Connect
  <2>4. CASE GeoResolver
    BY <2>4 DEF GeoResolver, FailConnected
  <2>5. CASE NewParts
    BY <2>5 DEF NewParts
  <2>6. CASE QueueSubscribe
    BY <2>6 DEF QueueSubscribe, FailConnected
  <2>7. CASE SetPendingLimits
    BY <2>7 DEF SetPendingLimits, FailConnected
  <2>8. CASE StartWatchers
    BY <2>8 DEF StartWatchers, partVars
  <2>9. CASE Signal
    BY <2>9 DEF Signal, Move
  <2>10. CASE ClosePool
    BY <2>10 DEF ClosePool, Move
  <2>11. CASE PoolClosed
    BY <2>11 DEF PoolClosed, Move, partVars
  <2>12. CASE Unwind
    BY <2>12 DEF Unwind, Move
  <2>13. CASE Unsubscribed
    BY <2>13 DEF Unsubscribed
  <2>14. CASE CloseSink
    BY <2>14 DEF CloseSink, Move
  <2> QED
    BY <2>1, <2>2, <2>3, <2>4, <2>5, <2>6, <2>7, <2>8, <2>9, <2>10, <2>11, <2>12, <2>13,
       <2>14
    DEF Quiet
<1>5. TypeOK'
  BY <1>1, <1>2, <1>3, <1>4 DEF TypeOK, messageVars
<1>6. BufferInv' /\ DrainInv'
  BY <1>1, <1>4 DEF BufferInv, DrainInv, messageVars
<1>7. \A m \in Messages : MessageInv(m)'
  BY <1>1, <1>4 DEF MessageInv, messageVars
<1> QED
  BY <1>2, <1>4, <1>5, <1>6, <1>7

\* Nothing arrives, is taken or is answered while nothing is subscribed; from then
\* to the exit the connection is open.
LEMMA LiveIsConnected ==
  ASSUME ProcessInv, Alive, NEW m \in Messages, place[m] # "new" \/ sub # "none"
  PROVE  sub # "none" /\ conn = "open"
<1>1. sub # "none"
  BY DEF ProcessInv, MessageInv
<1>2. pc \in Connected
  BY <1>1 DEF ProcessInv, PartsInv, TypeOK, Alive, Stages, Serving, Early, Connected
<1> QED
  BY <1>1, <1>2 DEF ProcessInv, PartsInv

\* The client puts a message behind the others, or drops it.
LEMMA ArriveStep ==
  ASSUME ProcessInv, NEW m \in Messages, Arrive(m)
  PROVE  ProcessInv'
<1> USE DEF ProcessInv
<1>1. place[m] = "new" /\ sub # "none" /\ UNCHANGED <<env, conf, cfg, pc, partVars, cb, held, by, reply, event>>
  BY DEF Arrive
<1>2. CASE buffer' = Append(buffer, m) /\ place' = [place EXCEPT ![m] = "buffer"]
  <2>1. buffer' \in Seq(Messages) /\ ToSet(buffer') = ToSet(buffer) \cup {m}
    <3>1. buffer \in Seq(Messages)
      BY DEF TypeOK
    <3>2. /\ Append(buffer, m) \in Seq(Messages)
          /\ Len(Append(buffer, m)) = Len(buffer) + 1 /\ Len(buffer) \in Nat
          /\ \A i \in 1..Len(buffer) : Append(buffer, m)[i] = buffer[i]
          /\ Append(buffer, m)[Len(buffer) + 1] = m
      BY <3>1
    <3>3. DOMAIN buffer = 1..Len(buffer) /\ DOMAIN Append(buffer, m) = 1..(Len(buffer) + 1)
      BY <3>1, <3>2
    <3> QED
      BY <1>2, <3>2, <3>3 DEF ToSet
  <2>2. m \notin ToSet(buffer)
    BY <1>1 DEF TypeOK
  <2>3. BufferInv'
    <3>1. \A i \in DOMAIN buffer : buffer[i] # m
      BY <2>2 DEF ToSet
    <3>2. buffer \in Seq(Messages)
      BY DEF TypeOK
    <3> QED
      BY <1>2, <3>1, <3>2 DEF BufferInv
  <2>4. TypeOK'
    <3>1. place' \in [Messages -> Places]
      BY <1>2 DEF TypeOK
    <3>2. ToSet(buffer') = {k \in Messages : place'[k] = "buffer"}
      BY <1>2, <2>1 DEF TypeOK
    <3>3. /\ {k \in Messages : place'[k] = "callback"} = {k \in Messages : place[k] = "callback"}
          /\ {k \in Messages : place'[k] = "pool"} = {k \in Messages : place[k] = "pool"}
      BY <1>1, <1>2 DEF TypeOK
    <3> QED
      BY <1>1, <2>1, <3>1, <3>2, <3>3 DEF TypeOK, partVars
  <2>5. PartsInv' /\ ConfigInv' /\ DrainInv'
    BY <1>1 DEF PartsInv, ConfigInv, DrainInv, partVars
  <2>6. \A k \in Messages : MessageInv(k)'
    BY <1>1, <1>2 DEF MessageInv, TypeOK, partVars
  <2> QED
    BY <2>3, <2>4, <2>5, <2>6
<1>3. CASE buffer' = buffer /\ place' = [place EXCEPT ![m] = "dropped"]
  <2>1. TypeOK'
    <3>1. place' \in [Messages -> Places]
      BY <1>3 DEF TypeOK
    <3>2. \A p \in {"buffer", "callback", "pool"} :
            {k \in Messages : place'[k] = p} = {k \in Messages : place[k] = p}
      BY <1>1, <1>3 DEF TypeOK
    <3> QED
      BY <1>1, <1>3, <3>1, <3>2 DEF TypeOK, partVars
  <2>2. PartsInv' /\ ConfigInv' /\ DrainInv' /\ BufferInv'
    BY <1>1, <1>3 DEF PartsInv, ConfigInv, DrainInv, BufferInv, partVars
  <2>3. \A k \in Messages : MessageInv(k)'
    BY <1>1, <1>3 DEF MessageInv, TypeOK, partVars
  <2> QED
    BY <2>1, <2>2, <2>3
<1> QED
  BY <1>2, <1>3 DEF Arrive

\* The callback takes the message at the head, which is nowhere else in the buffer.
LEMMA TakeStep ==
  ASSUME ProcessInv, Take
  PROVE  ProcessInv'
<1> USE DEF ProcessInv
<1> DEFINE h == Head(buffer)
<1>1. /\ cb = NoMessage /\ buffer # << >> /\ cb' = h /\ buffer' = Tail(buffer)
      /\ place' = [place EXCEPT ![h] = "callback"]
      /\ UNCHANGED <<env, conf, cfg, pc, partVars, held, by, reply, event>>
  BY DEF Take
<1>2. buffer \in Seq(Messages)
  BY DEF TypeOK
<1>3. /\ Len(buffer) \in Nat \ {0} /\ DOMAIN buffer = 1..Len(buffer)
      /\ h = buffer[1] /\ h \in Messages
      /\ buffer' \in Seq(Messages) /\ DOMAIN buffer' = 1..(Len(buffer) - 1)
      /\ \A i \in 1..(Len(buffer) - 1) : buffer'[i] = buffer[i + 1]
  BY <1>1, <1>2
<1>4. place[h] = "buffer"
  <2>1. h \in ToSet(buffer)
    BY <1>3 DEF ToSet
  <2> QED
    BY <2>1 DEF TypeOK
<1> HIDE DEF h
<1>5. ToSet(buffer') = ToSet(buffer) \ {h}
  <2>1. ASSUME NEW x \in ToSet(buffer') PROVE x \in ToSet(buffer) \ {h}
    <3>1. PICK i \in 1..(Len(buffer) - 1) : x = buffer'[i]
      BY <1>3 DEF ToSet
    <3>2. i + 1 \in DOMAIN buffer /\ 1 \in DOMAIN buffer /\ x = buffer[i + 1] /\ i + 1 # 1
      BY <1>3, <3>1
    <3> QED
      BY <1>3, <3>2 DEF ToSet, BufferInv
  <2>2. ASSUME NEW x \in ToSet(buffer), x # h PROVE x \in ToSet(buffer')
    <3>1. PICK i \in DOMAIN buffer : x = buffer[i]
      BY DEF ToSet
    <3>2. i - 1 \in DOMAIN buffer' /\ buffer'[i - 1] = x
      BY <1>3, <2>2, <3>1
    <3> QED
      BY <3>2 DEF ToSet
  <2> QED
    BY <2>1, <2>2
<1>6. BufferInv'
  <2> SUFFICES ASSUME NEW i \in DOMAIN buffer', NEW j \in DOMAIN buffer', buffer'[i] = buffer'[j]
               PROVE  i = j
    BY DEF BufferInv
  <2>1. i + 1 \in DOMAIN buffer /\ j + 1 \in DOMAIN buffer /\ buffer[i + 1] = buffer[j + 1]
    BY <1>3
  <2>2. i + 1 = j + 1
    BY <2>1 DEF BufferInv
  <2> QED
    BY <1>3, <2>2
<1>7. TypeOK'
  <2>1. place' \in [Messages -> Places]
    BY <1>1 DEF TypeOK
  <2>2. ToSet(buffer') = {k \in Messages : place'[k] = "buffer"}
    BY <1>1, <1>3, <1>5 DEF TypeOK
  <2>3. {k \in Messages : place[k] = "callback"} = {}
    BY <1>1 DEF TypeOK
  <2>4. {k \in Messages : place'[k] = "callback"} = {h}
    BY <1>1, <1>3, <2>3 DEF TypeOK
  <2>5. {cb'} \ {NoMessage} = {h}
    BY <1>1, <1>3 DEF Messages, NoMessage
  <2>6. {k \in Messages : place'[k] = "pool"} = {k \in Messages : place[k] = "pool"}
    BY <1>1, <1>4 DEF TypeOK
  <2> QED
    BY <1>1, <1>3, <2>1, <2>2, <2>4, <2>5, <2>6 DEF TypeOK, partVars
<1>8. PartsInv' /\ ConfigInv' /\ DrainInv'
  BY <1>1 DEF PartsInv, ConfigInv, DrainInv, partVars
<1>9. \A k \in Messages : MessageInv(k)'
  BY <1>1, <1>3, <1>4 DEF MessageInv, TypeOK, partVars
<1> QED
  BY <1>6, <1>7, <1>8, <1>9

\* The one message in the callback is the one it works on.
LEMMA CallbackHas ==
  ASSUME ProcessInv, cb # NoMessage
  PROVE  cb \in Messages /\ \A k \in Messages : place[k] = "callback" <=> k = cb
<1>1. cb \in Messages /\ {cb} = {k \in Messages : place[k] = "callback"}
  BY DEF ProcessInv, TypeOK
<1> QED
  BY <1>1

\* A message to release leaves the callback, and one the pool has room for goes to it.
LEMMA HandOverStep ==
  ASSUME ProcessInv, Ignore \/ Accept
  PROVE  ProcessInv'
<1> USE DEF ProcessInv
<1>1. cb # NoMessage /\ by[cb] = "none" /\ cb' = NoMessage
      /\ UNCHANGED <<env, conf, cfg, pc, partVars, buffer, reply, event>>
  BY DEF Ignore, Accept, Undecided
<1>2. cb \in Messages /\ \A k \in Messages : place[k] = "callback" <=> k = cb
  BY <1>1, CallbackHas
<1>3. CASE Ignore
  <2>1. held' = held /\ by' = by /\ place' = [place EXCEPT ![cb] = "ignored"]
    BY <1>3 DEF Ignore
  <2>2. TypeOK'
    <3>1. place' \in [Messages -> Places]
      BY <2>1 DEF TypeOK
    <3>2. {k \in Messages : place'[k] = "callback"} = {}
      BY <1>2, <2>1 DEF TypeOK
    <3>3. \A p \in {"buffer", "pool"} :
            {k \in Messages : place'[k] = p} = {k \in Messages : place[k] = p}
      BY <1>2, <2>1 DEF TypeOK
    <3> QED
      BY <1>1, <2>1, <3>1, <3>2, <3>3 DEF TypeOK, partVars
  <2>3. PartsInv' /\ ConfigInv' /\ DrainInv' /\ BufferInv'
    BY <1>1, <2>1 DEF PartsInv, ConfigInv, DrainInv, BufferInv, partVars
  <2>4. \A k \in Messages : MessageInv(k)'
    BY <1>1, <1>2, <2>1 DEF MessageInv, TypeOK, partVars
  <2> QED
    BY <2>2, <2>3, <2>4
<1>4. CASE Accept
  <2>1. /\ held' = held \cup {cb} /\ by' = [by EXCEPT ![cb] = "pool"]
        /\ place' = [place EXCEPT ![cb] = "pool"] /\ ~closed
    BY <1>4 DEF Accept
  <2>2. TypeOK'
    <3>1. place' \in [Messages -> Places] /\ by' \in [Messages -> {"none", "callback", "pool"}]
      BY <2>1 DEF TypeOK
    <3>2. {k \in Messages : place'[k] = "callback"} = {}
      BY <1>2, <2>1 DEF TypeOK
    <3>3. {k \in Messages : place'[k] = "buffer"} = {k \in Messages : place[k] = "buffer"}
      BY <1>2, <2>1 DEF TypeOK
    <3>4. held' = {k \in Messages : place'[k] = "pool"} /\ held' \subseteq Messages
      BY <1>2, <2>1 DEF TypeOK
    <3> QED
      BY <1>1, <2>1, <3>1, <3>2, <3>3, <3>4 DEF TypeOK, partVars
  <2>3. pc \notin {"flush", "flushing", "unwind", "exited"} /\ sink # "closed"
    BY <2>1 DEF PartsInv
  <2>4. PartsInv' /\ ConfigInv' /\ DrainInv' /\ BufferInv'
    BY <1>1, <2>1, <2>3 DEF PartsInv, ConfigInv, DrainInv, BufferInv, partVars
  <2>5. \A k \in Messages : MessageInv(k)'
    BY <1>1, <1>2, <2>1 DEF MessageInv, TypeOK, partVars
  <2> QED
    BY <2>2, <2>4, <2>5
<1> QED
  BY <1>3, <1>4

\* The callback answers what it refuses, and what the pool turns away.
LEMMA AnswerHereStep ==
  ASSUME ProcessInv, Refuse \/ TurnAway
  PROVE  ProcessInv'
<1> USE DEF ProcessInv
<1>1. cb # NoMessage /\ by' = [by EXCEPT ![cb] = "callback"]
      /\ UNCHANGED <<env, conf, cfg, pc, partVars, buffer, cb, held, place, reply, event>>
  BY DEF Refuse, TurnAway, AnswerHere, Undecided
<1>2. cb \in Messages /\ \A k \in Messages : place[k] = "callback" <=> k = cb
  BY <1>1, CallbackHas
<1>3. by[cb] = "none"
  BY DEF Refuse, TurnAway, Undecided
<1>4. TypeOK'
  BY <1>1 DEF TypeOK, partVars
<1>5. PartsInv' /\ ConfigInv' /\ BufferInv'
  BY <1>1 DEF PartsInv, ConfigInv, BufferInv, partVars
<1>6. DrainInv'
  BY <1>1, <1>2 DEF DrainInv, TypeOK, partVars
<1>7. \A k \in Messages : MessageInv(k)'
  BY <1>1, <1>2, <1>3 DEF MessageInv, TypeOK, partVars
<1> QED
  BY <1>4, <1>5, <1>6, <1>7

\* A reply goes out over the open connection, whoever sends it.
LEMMA PublishStep ==
  ASSUME ProcessInv, NEW m \in Messages, Publish(m)
  PROVE  ProcessInv'
<1> USE DEF ProcessInv
<1>1. Alive /\ by[m] # "none" /\ reply[m] = "none"
      /\ reply' = [reply EXCEPT ![m] = IF conn = "open" THEN "sent" ELSE "failed"]
      /\ UNCHANGED <<env, conf, cfg, pc, partVars, buffer, cb, held, place, by, event>>
  BY DEF Publish
<1>2. place[m] # "new"
  BY <1>1 DEF MessageInv
<1>3. reply' = [reply EXCEPT ![m] = "sent"]
  BY <1>1, <1>2, LiveIsConnected
<1>4. TypeOK'
  BY <1>1, <1>3 DEF TypeOK, partVars
<1>5. PartsInv' /\ ConfigInv' /\ BufferInv' /\ DrainInv'
  BY <1>1 DEF PartsInv, ConfigInv, BufferInv, DrainInv, partVars
<1>6. \A k \in Messages : MessageInv(k)'
  BY <1>1, <1>3 DEF MessageInv, TypeOK, partVars
<1> QED
  BY <1>4, <1>5, <1>6

\* With its event added a message is done, and its worker or the callback free.  What
\* the pool answered has its event before the sink is closed.
LEMMA AddEventStep ==
  ASSUME ProcessInv, NEW m \in Messages, AddEvent(m)
  PROVE  ProcessInv'
<1> USE DEF ProcessInv
<1>1. /\ reply[m] # "none" /\ event[m] = "none"
      /\ event' = [event EXCEPT ![m] = "pending"] /\ place' = [place EXCEPT ![m] = "done"]
      /\ held' = held \ {m} /\ cb' = IF cb = m THEN NoMessage ELSE cb
      /\ UNCHANGED <<env, conf, cfg, pc, partVars, buffer, by, reply>>
  BY DEF AddEvent
<1>2. by[m] # "none" /\ place[m] \in {"callback", "pool"}
  BY <1>1 DEF MessageInv, TypeOK
<1>3. TypeOK'
  <2>1. /\ place' \in [Messages -> Places] /\ event' \in [Messages -> {"none", "pending", "sent"}]
        /\ cb' \in Messages \cup {NoMessage} /\ held' \subseteq Messages
    BY <1>1 DEF TypeOK
  <2>2. {k \in Messages : place'[k] = "buffer"} = {k \in Messages : place[k] = "buffer"}
    BY <1>1, <1>2 DEF TypeOK
  <2>3. held' = {k \in Messages : place'[k] = "pool"}
    BY <1>1 DEF TypeOK
  <2>4. {k \in Messages : place'[k] = "callback"} = {k \in Messages : place[k] = "callback"} \ {m}
    BY <1>1 DEF TypeOK
  <2>5. {cb'} \ {NoMessage} = ({cb} \ {NoMessage}) \ {m}
    BY <1>1
  <2> QED
    BY <1>1, <2>1, <2>2, <2>3, <2>4, <2>5 DEF TypeOK, partVars
<1>4. PartsInv' /\ ConfigInv' /\ BufferInv'
  BY <1>1 DEF PartsInv, ConfigInv, BufferInv, partVars
<1>5. DrainInv'
  BY <1>1 DEF DrainInv, TypeOK, partVars
<1>6. \A k \in Messages : MessageInv(k)'
  BY <1>1, <1>2 DEF MessageInv, TypeOK, partVars
<1> QED
  BY <1>3, <1>4, <1>5, <1>6

\* A flush only turns pending events into sent ones.
LEMMA FlushStep ==
  ASSUME ProcessInv, Flush
  PROVE  ProcessInv'
<1> USE DEF ProcessInv
<1>1. /\ event' = [m \in Messages |-> IF event[m] = "pending" THEN "sent" ELSE event[m]]
      /\ UNCHANGED <<env, conf, cfg, pc, sub, limit, closed, sink, conn>>
      /\ UNCHANGED <<buffer, cb, held, place, by, reply>>
  BY DEF Flush, partVars
<1>2. event' \in [Messages -> {"none", "pending", "sent"}]
  BY <1>1 DEF TypeOK
<1>3. TypeOK'
  BY <1>1, <1>2 DEF TypeOK
<1>4. PartsInv' /\ ConfigInv' /\ BufferInv' /\ DrainInv'
  BY <1>1 DEF PartsInv, ConfigInv, BufferInv, DrainInv
<1>5. \A k \in Messages : MessageInv(k)'
  BY <1>1, <1>2 DEF MessageInv, TypeOK
<1> QED
  BY <1>3, <1>4, <1>5

\* Close of the sink returns when nothing is pending, and it is called when the pool
\* holds nothing, so that everything the pool answered has its event, and that one
\* is sent.
LEMMA SinkClosedStep ==
  ASSUME ProcessInv, SinkClosed
  PROVE  ProcessInv'
<1> USE DEF ProcessInv
<1>1. /\ pc = "flushing" /\ pc' = "unwind" /\ sink' = "closed"
      /\ UNCHANGED <<env, conf, cfg, sub, limit, closed, conn, messageVars>>
      /\ \A m \in Messages : event[m] # "pending"
  BY DEF SinkClosed, Move
<1>2. TypeOK'
  BY <1>1 DEF TypeOK, Stages, Serving, messageVars
<1>3. PartsInv' /\ ConfigInv' /\ BufferInv'
  BY <1>1 DEF PartsInv, ConfigInv, BufferInv, Early, Connected, Serving, messageVars
<1>4. held = {}
  BY <1>1 DEF DrainInv
<1>5. ASSUME NEW m \in Messages, by[m] = "pool" PROVE event[m] = "sent"
  <2>1. place[m] = "done"
    BY <1>4, <1>5 DEF MessageInv, TypeOK
  <2> QED
    BY <1>1, <2>1 DEF MessageInv, TypeOK
<1>6. DrainInv'
  BY <1>1, <1>4, <1>5 DEF DrainInv, messageVars
<1>7. \A k \in Messages : MessageInv(k)'
  BY <1>1 DEF MessageInv, messageVars
<1> QED
  BY <1>2, <1>3, <1>6, <1>7

\* Every step keeps the invariant.
LEMMA NextStep == ProcessInv /\ [Next]_vars => ProcessInv'
<1> SUFFICES ASSUME ProcessInv, [Next]_vars PROVE ProcessInv'
  OBVIOUS
<1>1. CASE Quiet
  BY <1>1, QuietStep
<1>2. CASE \E m \in Messages : Arrive(m)
  BY <1>2, ArriveStep
<1>3. CASE Take
  BY <1>3, TakeStep
<1>4. CASE Ignore \/ Accept
  BY <1>4, HandOverStep
<1>5. CASE Refuse \/ TurnAway
  BY <1>5, AnswerHereStep
<1>6. CASE \E m \in Messages : Publish(m) \/ AddEvent(m)
  BY <1>6, PublishStep, AddEventStep
<1>7. CASE Flush \/ SinkClosed
  BY <1>7, FlushStep, SinkClosedStep
<1>8. CASE UNCHANGED vars
  BY <1>8 DEF vars, partVars, messageVars, ProcessInv, TypeOK, PartsInv, ConfigInv,
     MessageInv, BufferInv, DrainInv
<1>9. held \subseteq Messages /\ {cb} \ {NoMessage} \subseteq Messages
  BY DEF ProcessInv, TypeOK
<1> QED
  BY <1>1, <1>2, <1>3, <1>4, <1>5, <1>6, <1>7, <1>8, <1>9
  DEF Next, MainStep, Callback, Answer, Quiet

\* The invariant holds of every state of the process.
LEMMA ProcessInvariant == Spec => []ProcessInv
  BY InitHolds, NextStep, PTL DEF Spec

\* Start, shutdown and the subscription keep the variables within their types: the
\* callback, the pool and the buffer hold exactly the messages that are there.
THEOREM ProcessTyping == Spec => []TypeOK
<1>1. ProcessInv => TypeOK
  BY DEF ProcessInv
<1> QED
  BY <1>1, ProcessInvariant, PTL

\* Whatever it is started with, a process that serves does so with the environment's
\* setting of the queue, else that of the last line of the conf that gives one, else
\* the default, and the pool it builds meets the assumptions of Pool (Load in
\* config.go, parseQueueFile in file.go, run in main.go).
THEOREM ServesAsConfigured == Spec => []RunsAsConfigured
<1>1. ProcessInv => RunsAsConfigured
  <2> SUFFICES ASSUME ProcessInv, pc \in Serving PROVE RunsAsConfigured
    BY DEF RunsAsConfigured
  <2>1. PICK c : c \in cfg /\ c \in Load(env, conf) /\ cfg = Load(env, conf)
    BY DEF ProcessInv, ConfigInv, Serving
  <2>2. <<env, conf>> \in Starts
    BY DEF ProcessInv, TypeOK
  <2>3. Load(env, conf) = {c}
    BY <2>1, <2>2, Loaded
  <2>4. The = c
    BY <2>1, <2>3 DEF The
  <2> QED
    BY <2>1, <2>2, <2>4, Loaded DEF RunsAsConfigured
<1> QED
  BY <1>1, ProcessInvariant, PTL

\* However messages, drain, workers and shutdown interleave, the process does not exit
\* before everything its pool accepted is answered and its event is out (the order of
\* the shutdown in run).
THEOREM ExitIsSettled == Spec => []SettledBeforeExit
<1>1. ProcessInv => SettledBeforeExit
  <2> SUFFICES ASSUME ProcessInv PROVE SettledBeforeExit
    OBVIOUS
  <2>1. pc \in {"flush", "flushing", "unwind", "exited"} => held = {}
    BY DEF ProcessInv, DrainInv
  <2>2. ASSUME pc = "exited", NEW m \in Messages
        PROVE  /\ by[m] = "pool" => reply[m] = "sent" /\ event[m] = "sent"
               /\ reply[m] = "none" =>
                    place[m] \in {"new", "dropped", "ignored", "buffer", "callback"}
               /\ reply[m] = "sent" /\ event[m] # "sent" => by[m] = "callback"
    <3>1. sink = "closed" /\ held = {}
      BY <2>1, <2>2 DEF ProcessInv, PartsInv
    <3>2. by[m] = "pool" => event[m] = "sent"
      BY <3>1 DEF ProcessInv, DrainInv
    <3>3. MessageInv(m) /\ place[m] # "pool" /\ by[m] \in {"none", "callback", "pool"}
      BY <3>1 DEF ProcessInv, TypeOK
    <3>4. place[m] \in Places
      BY DEF ProcessInv, TypeOK
    <3> QED
      BY <3>2, <3>3, <3>4 DEF MessageInv
  <2> QED
    BY <2>1, <2>2 DEF SettledBeforeExit
<1> QED
  BY <1>1, ProcessInvariant, PTL

=============================================================================
