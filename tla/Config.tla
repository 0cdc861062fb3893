------------------------------- MODULE Config -------------------------------
(***************************************************************************)
(* The process configuration: internal/config/config.go reads the          *)
(* environment, file.go reads inspector.conf, and Load puts the            *)
(* environment over the file over the defaults and validates the result.   *)
(*                                                                         *)
(* An environment variable is Unset, Junk (text that does not parse) or    *)
(* its value; a variable that is set to nothing counts as unset.  A file   *)
(* is the sequence of its lines with comments and space stripped:          *)
(*    [kind |-> "blank" | "open" | "close" | "set" | "bad", key, value]    *)
(* where "open" is a line that ends in a brace, "set" a directive with one *)
(* value and a semicolon, and "bad" any other text.                        *)
(***************************************************************************)
EXTENDS Integers, Sequences, SequencesExt, FiniteSets

CONSTANTS
  Unset, Junk,   \* a variable that is not set; a value that does not parse
  Cpus           \* runtime.GOMAXPROCS(0)

ASSUME ConfigAssumption == Cpus \in Nat \ {0} /\ Unset # Junk

QueueModes == {"drop", "wait"}
ExpandModes == {"off", "ask"}

-----------------------------------------------------------------------------
(* inspector.conf                                                          *)

\* The parser's state before the first line, and queueFile's zero value.
Opening == [ok |-> TRUE, block |-> FALSE, seen |-> {}, max |-> Unset, full |-> Unset,
            expand |-> Unset, url |-> Unset, internal |-> Unset]

Refused(acc) == [acc EXCEPT !.ok = FALSE]

\* A directive outside the block.
Directive(acc, line) ==
  LET v == line.value IN
  CASE line.key = "queue_max" /\ v # Junk -> IF v >= 1 THEN [acc EXCEPT !.max = v]
                                             ELSE Refused(acc)
    [] line.key = "queue_full" /\ v \in QueueModes -> [acc EXCEPT !.full = v]
    [] line.key = "queue_expand" /\ v \in ExpandModes -> [acc EXCEPT !.expand = v]
    [] OTHER -> Refused(acc)

\* A directive inside the redis block: a Redis URL under one of two keys.
parseRedisKey(acc, line) ==
  CASE line.value # Junk /\ line.key = "url" -> [acc EXCEPT !.url = line.value]
    [] line.value # Junk /\ line.key = "internal" -> [acc EXCEPT !.internal = line.value]
    [] OTHER -> Refused(acc)

\* What a line is remembered by, to refuse it when it comes twice.
Id(acc, line) == <<acc.block, line.key>>

Line(acc, line) ==
  LET once == [acc EXCEPT !.seen = @ \cup {Id(acc, line)}]
      sets == line.kind = "set" /\ Id(acc, line) \notin acc.seen
      opens == line.kind = "open" /\ Id(acc, line) \notin acc.seen
  IN
  IF ~acc.ok \/ line.kind = "blank" THEN acc
  ELSE CASE acc.block /\ line.kind = "close" -> [acc EXCEPT !.block = FALSE]
         [] acc.block /\ sets -> parseRedisKey(once, line)
         [] ~acc.block /\ sets -> Directive(once, line)
         [] ~acc.block /\ opens /\ line.key = "redis" -> [once EXCEPT !.block = TRUE]
         [] OTHER -> Refused(acc)

\* The parser's state after each line.
After(lines) ==
  LET after[n \in Nat] == IF n = 0 THEN Opening ELSE Line(after[n - 1], lines[n])
  IN  after

\* Every line in turn; a block must be closed at the end.
parseQueueFile(lines) ==
  LET end == After(lines)[Len(lines)] IN
  IF end.block THEN Refused(end) ELSE end

\* A conf file that was found and read; strconv.Atoi makes an integer of the value
\* of queue_max or refuses it.
IsConf(lines) ==
  \/ lines \in {Unset, Junk}
  \/ /\ Len(lines) \in Nat /\ DOMAIN lines = 1..Len(lines)
     /\ \A i \in DOMAIN lines :
          lines[i].key = "queue_max" => lines[i].value \in Int \cup {Junk}

-----------------------------------------------------------------------------
(* Load                                                                    *)

\* An environment: its numbers are integers where they are set and parse.
IsEnv(e) ==
  {e.workers, e.depth, e.reserve, e.minBudget} \subseteq Int \cup {Unset, Junk}

\* envIntIfSet, envDuration, envIntList, envOverride: what is set wins.
Over(set, default) == IF set = Unset THEN default ELSE set

\* No conf file is the empty one; one that cannot be read refuses the start.
File(lines) ==
  CASE lines = Unset -> Opening
    [] lines = Junk -> Refused(Opening)
    [] OTHER -> parseQueueFile(lines)

\* Mutation of Resolve: the file is put over the environment.
ResolveFileFirst(e, f) ==
  [servers |-> Over(e.servers, 1), workers |-> Over(e.workers, Cpus),
   depth |-> Over(f.max, Over(e.depth, 256)), full |-> Over(f.full, Over(e.full, "drop")),
   expand |-> Over(e.expand, Over(f.expand, "off")),
   reserve |-> Over(e.reserve, 2), minBudget |-> Over(e.minBudget, 2),
   versions |-> Over(e.versions, {2}), redis |-> Over(e.redis, f.url),
   heartbeat |-> Over(e.heartbeat, 4), reload |-> Over(e.reload, 1)]

\* The environment over the file over the defaults.
Resolve(e, f) ==
  [servers |-> Over(e.servers, 1), workers |-> Over(e.workers, Cpus),
   depth |-> Over(e.depth, Over(f.max, 256)), full |-> Over(e.full, Over(f.full, "drop")),
   expand |-> Over(e.expand, Over(f.expand, "off")),
   reserve |-> Over(e.reserve, 2), minBudget |-> Over(e.minBudget, 2),
   versions |-> Over(e.versions, {2}), redis |-> Over(e.redis, f.url),
   heartbeat |-> Over(e.heartbeat, 4), reload |-> Over(e.reload, 1)]

Parsed(c) ==
  Junk \notin {c.workers, c.depth, c.reserve, c.minBudget, c.versions, c.heartbeat, c.reload}

\* envDuration refuses zero, envDurationOrZero does not; then validate.
validate(c) ==
  /\ c.heartbeat > 0 /\ c.reload >= 0
  /\ c.servers >= 1
  /\ c.workers >= 1 /\ c.depth >= 1
  /\ c.full \in QueueModes /\ c.expand \in ExpandModes
  /\ c.reserve >= 0 /\ c.minBudget >= 0
  /\ c.versions # {}

\* The configurations Load returns: one, or none when the start is refused.  This
\* inspector has no internal Redis, and a conf that names one is refused.
Load(e, lines) ==
  LET f == File(lines)
      c == Resolve(e, f)
  IN
  IF f.ok /\ f.internal = Unset /\ Parsed(c)
    THEN {d \in {c} : validate(d)}
    ELSE {}

=============================================================================
