----------------------------- MODULE MCProcess -----------------------------
(***************************************************************************)
(* Process on a small instance: environments and conf files that set,      *)
(* leave out or spoil the settings of the queue, one at a time and in      *)
(* conflict, and enough messages to fill the client's smallest buffer.     *)
(***************************************************************************)
EXTENDS Process

Plain == [servers |-> Unset, workers |-> Unset, depth |-> Unset, full |-> Unset,
          expand |-> Unset, reserve |-> Unset, minBudget |-> Unset, versions |-> Unset,
          redis |-> Unset, heartbeat |-> Unset, reload |-> Unset]

Set(k, v) == [kind |-> "set", key |-> k, value |-> v]
Open(k) == [kind |-> "open", key |-> k, value |-> Unset]
Other(kind) == [kind |-> kind, key |-> Unset, value |-> Unset]
Block(k, v) == <<Open("redis"), Set(k, v), Other("close")>>

Queue == <<Other("blank"), Set("queue_max", 2), Set("queue_full", "wait")>>
Redis == <<Set("queue_expand", "ask")>> \o Block("url", "redis://conf")

\* Confs that are refused whatever the environment says.
BadConfs ==
  {Junk,
   <<Set("queue_max", 1), Set("queue_max", 1)>>,
   <<Set("queue_max", 0)>>, <<Set("queue_max", Junk)>>, <<Set("queue_full", "spill")>>,
   Block("internal", "redis://conf"), Block("url", Junk), Block("queue_max", 1),
   <<Open("redis")>>, <<Other("close")>>, <<Open("nats")>>, <<Other("bad")>>,
   Block("url", "redis://conf") \o Block("url", "redis://conf")}

BadEnvs ==
  {[Plain EXCEPT !.depth = d] : d \in {0, Junk}}
  \cup {[Plain EXCEPT !.workers = w] : w \in {0, -1, Junk}}
  \cup {[Plain EXCEPT !.servers = 0], [Plain EXCEPT !.versions = {}],
        [Plain EXCEPT !.versions = Junk], [Plain EXCEPT !.full = "spill"],
        [Plain EXCEPT !.expand = "on"], [Plain EXCEPT !.reserve = -1],
        [Plain EXCEPT !.heartbeat = 0], [Plain EXCEPT !.reload = -1]}

MCStarts ==
  ({Plain} \X BadConfs) \cup (BadEnvs \X {Unset, Queue})
  \cup {<<[Plain EXCEPT !.depth = 1, !.full = "drop"], Queue>>,
        <<[Plain EXCEPT !.reload = 0], Queue>>,
        <<Plain, Redis>>}

=============================================================================
