---------------------------- MODULE Generations -----------------------------
(***************************************************************************)
(* How profiles reach the handlers: the profile store with its hot reload, *)
(* internal/config/profiles.go, and the rollout of generations from the    *)
(* KV bucket, internal/desired/desired.go.                                 *)
(*                                                                         *)
(* Three parties share the directory tree and the store: desired.Watch,    *)
(* which applies a generation by writing it to .next, parking the live     *)
(* tree as .prev and renaming .next into place; Store.Watch, which polls   *)
(* the directory in use and reloads it when its fingerprint changes; and   *)
(* whoever edits the bootstrap profiles.  A crash loses memory and keeps   *)
(* the disk.                                                               *)
(*                                                                         *)
(* A file is its generation and the number of the write that made it; size *)
(* and modification time tell two writes apart, so the fingerprint of a    *)
(* directory is the directory's content itself.                            *)
(***************************************************************************)
EXTENDS Integers, FiniteSets, Sequences

CONSTANTS
  Profiles,    \* profile names
  Default,     \* the profile every tree must have
  Probe,       \* _probe, which the image lends to a tree that lacks it
  Gens,        \* generations the controller may send
  Ignored,     \* other values of the key: deletions, and manifests Parse refuses
  Bases,       \* revisions of the bootstrap profiles an edit may write
  Base,        \* the revision in the image
  Names,       \* the profiles each generation or revision brings
  Limits,      \* the limits section all profiles of a generation share
  Bad,         \* pairs <<generation, profile>> that fail to parse or validate
  HotReload,   \* WAF_JSON_RELOAD_EVERY is positive
  MaxPuts,     \* bound on the puts to the KV bucket
  MaxEdits,    \* bound on the edits of the bootstrap profiles
  MaxCrashes,  \* bound on the crashes
  MaxFaults    \* bound on the file-system calls that fail

Sources == Gens \cup Bases

ASSUME GenerationsAssumption ==
  /\ {Default, Probe} \subseteq Profiles /\ Default # Probe
  /\ Base \in Bases /\ Gens \cap Bases = {} /\ Ignored \cap Sources = {}
  /\ "none" \notin Gens \cup Ignored /\ "absent" \notin Sources /\ IsFiniteSet(Profiles)
  /\ Names \in [Sources -> SUBSET Profiles] /\ DOMAIN Limits = Sources
  /\ \A g \in Gens : Default \in Names[g]
  /\ \A b \in Bases : Names[b] = Profiles
  /\ Bad \subseteq Sources \X Profiles
  /\ \A p \in Profiles : <<Base, p>> \notin Bad
  /\ HotReload \in BOOLEAN
  /\ {MaxPuts, MaxEdits, MaxCrashes, MaxFaults} \subseteq Nat

VARIABLES
  disk,     \* the trees "base", "live", "prev" and "next"
  writes,   \* number of writes so far
  dir,      \* s.dir: "base" or "live"
  cur,      \* s.cur: the profiles in force and their fingerprint
  applied,  \* desired.Applied
  updates,  \* KV entries the watcher has not handed over
  kv,       \* the last entry of the bucket
  apc,      \* where Apply is, or "down" when no process runs
  job,      \* Apply's locals: the manifest, lived, ReloadFrom's prev, and whether it
            \* wrote over the remains of another
  rpc,      \* where Reload is
  scan,     \* read's locals in Reload: directory, names left, profiles, fingerprint
  faults, edits, crashes,   \* what has gone against the bounds
  lastGood, \* the last generation that was put in force
  stray     \* what a failed call or a crash left behind, until the next success

storeVars == <<dir, cur>>
applyVars == <<apc, job, applied>>
scanVars  == <<rpc, scan>>
busVars   == <<updates, kv>>
boundVars == <<faults, edits, crashes>>
historyVars == <<lastGood, stray>>
vars == <<disk, writes, storeVars, applyVars, scanVars, busVars, boundVars, historyVars>>

Absent == [gen |-> "absent", write |-> 0]
File(g, n) == [gen |-> g, write |-> n]
NoDir == [p \in {} |-> Absent]
Empty == [p \in Profiles |-> Absent]
TreeOf(g, n) == [p \in Profiles |-> IF p \in Names[g] THEN File(g, n) ELSE Absent]

Files == {Absent} \cup [gen : Sources, write : 0..writes]
Trees == {NoDir} \cup [Profiles -> Files]
NoEntry == [gen |-> "none", rev |-> 0]
Entries == {NoEntry} \cup [gen : Gens \cup Ignored, rev : 1..MaxPuts]

Up == apc # "down"

\* The variables keep their types: the store only ever points at the bootstrap
\* tree or at the live one, never at a tree of Apply's own.
TypeOK ==
  /\ writes \in Nat
  /\ disk \in [{"base", "live", "prev", "next"} -> Trees]
  /\ dir \in {"base", "live"}
  /\ cur \in [tree : Trees, fp : Trees]
  /\ applied \in [entry : Entries, apply : {"", "ok", "apply_failed"}]
  /\ kv \in Entries /\ updates \in Seq(Entries)
  /\ apc \in {"down", "idle", "write", "unpark", "park", "promote", "expose", "reload",
              "undo", "restore", "reexpose", "rereload", "clean", "fail"}
  /\ job \in [entry : Entries, over : BOOLEAN, lived : BOOLEAN, from : {"base", "live"}]
  /\ rpc \in {"idle", "list", "read", "stamp", "store"}
  /\ scan \in [dir : {"base", "live"}, left : SUBSET Profiles, tree : Trees, fp : Trees]
  /\ faults \in 0..MaxFaults /\ edits \in 0..MaxEdits /\ crashes \in 0..MaxCrashes
  /\ lastGood \in Gens \cup {"none"} /\ stray \subseteq {"parked", "remains"}

-----------------------------------------------------------------------------
(* Reading a tree.                                                         *)

Broken(f, p) == <<f.gen, p>> \in Bad

\* A tree without _probe, other than the bootstrap tree, is lent the image's,
\* which is passed over when it does not load.
Complete(tree, d) ==
  LET lent == disk["base"][Probe] IN
  IF d = "base" \/ tree[Probe] # Absent \/ Broken(lent, Probe) THEN tree
  ELSE [tree EXCEPT ![Probe] = lent]

\* commonLimits: the profiles of a snapshot declare the same limits.
commonLimits(tree) ==
  Cardinality({Limits[tree[p].gen] : p \in {q \in Profiles : tree[q] # Absent}}) <= 1

\* Mutation of Usable: only the default profile is looked at.
UsableByDefault(d) ==
  LET tree == disk[d] IN
  /\ tree # NoDir
  /\ tree[Default] # Absent /\ ~Broken(tree[Default], Default)
  /\ commonLimits(Complete(tree, d))

\* read: every profile present is valid, the default is there, and with the lent
\* profile the limits still agree.
Usable(d) ==
  LET tree == disk[d] IN
  /\ tree # NoDir
  /\ tree[Default] # Absent
  /\ \A p \in Profiles : tree[p] # Absent => ~Broken(tree[p], p)
  /\ commonLimits(Complete(tree, d))

\* The fingerprint covers the directory, not what the image lends.
Snapshot(d) == [tree |-> Complete(disk[d], d), fp |-> disk[d]]

Unread == [tree |-> NoDir, fp |-> NoDir]
IdleScan == [dir |-> "base", left |-> {}, tree |-> NoDir, fp |-> NoDir]
IdleJob == [entry |-> NoEntry, over |-> FALSE, lived |-> FALSE, from |-> "base"]

\* Bootstrap: the applied tree, when it can be used, replaces the bootstrap one.
Bootstrap == IF Usable("live") THEN "live" ELSE "base"

Init ==
  /\ writes = 0
  /\ disk = [d \in {"base", "live", "prev", "next"} |->
               IF d = "base" THEN TreeOf(Base, 0) ELSE NoDir]
  /\ dir = "base" /\ cur = Snapshot("base")
  /\ applied = [entry |-> NoEntry, apply |-> ""]
  /\ kv = NoEntry /\ updates = << >>
  /\ apc = "idle" /\ job = IdleJob /\ rpc = "idle" /\ scan = IdleScan
  /\ faults = 0 /\ edits = 0 /\ crashes = 0 /\ lastGood = "none" /\ stray = {}

-----------------------------------------------------------------------------
(* The controller and the operator.                                        *)

\* A manifest or another value of the key; only a running watcher hears of it.
Put(g) ==
  /\ kv.rev < MaxPuts
  /\ kv' = [gen |-> g, rev |-> kv.rev + 1]
  /\ updates' = IF Up THEN Append(updates, kv') ELSE updates
  /\ UNCHANGED <<disk, writes, storeVars, applyVars, scanVars, boundVars, historyVars>>

\* The controller writes the same manifest again.  Bound: only one that is in
\* force, so that no endless series of attempts is counted in writes.
Reput ==
  /\ kv # NoEntry /\ updates = << >>
  /\ apc = "idle" /\ applied = [entry |-> kv, apply |-> "ok"]
  /\ updates' = <<kv>>
  /\ UNCHANGED <<disk, writes, storeVars, applyVars, scanVars, kv, boundVars, historyVars>>

\* A bootstrap profile is edited in place.
Edit(p, b) ==
  /\ edits < MaxEdits /\ edits' = edits + 1
  /\ writes' = writes + 1
  /\ disk' = [disk EXCEPT !["base"][p] = File(b, writes')]
  /\ UNCHANGED <<storeVars, applyVars, scanVars, busVars, faults, crashes, historyVars>>

-----------------------------------------------------------------------------
(* desired.Watch and Apply.                                                *)

Fault == faults < MaxFaults /\ faults' = faults + 1
NoFault == UNCHANGED faults

\* What a step of Apply leaves alone whatever it does.
ApplyFrame == UNCHANGED <<scanVars, busVars, edits, crashes>>

\* Parse: a manifest with a version, a revision, the default profile, names that
\* are safe as file names, settings that parse, and the hash of its content.
Parse(e) == e.gen \in Gens

\* An entry is taken from the watcher; deletions, what Parse refuses and the
\* manifest in force are skipped.
Deliver ==
  LET e == Head(updates) IN
  /\ apc = "idle" /\ updates # << >>
  /\ updates' = Tail(updates)
  /\ IF ~Parse(e) \/ (applied.apply = "ok" /\ applied.entry = e)
       THEN UNCHANGED <<apc, job>>
       ELSE apc' = "write" /\ job' = [IdleJob EXCEPT !.entry = e]
  /\ UNCHANGED <<disk, writes, storeVars, applied, scanVars, kv, boundVars, historyVars>>

\* write over what is in .next: the files of the manifest replace theirs.
Over(tree, g, n) ==
  [p \in Profiles |-> IF p \in Names[g] THEN File(g, n) ELSE tree[p]]

\* .next is removed and written; a failed write removes it again.  When the
\* removal fails, which is passed over, the new files go over the old ones.
Write ==
  /\ apc = "write"
  /\ writes' = writes + 1
  /\ \/ /\ NoFault /\ apc' = "unpark" /\ UNCHANGED <<job, stray>>
        /\ disk' = [disk EXCEPT !["next"] = TreeOf(job.entry.gen, writes')]
     \/ /\ Fault /\ apc' = "unpark" /\ disk["next"] # NoDir
        /\ disk' = [disk EXCEPT !["next"] = Over(@, job.entry.gen, writes')]
        /\ job' = [job EXCEPT !.over = TRUE] /\ stray' = stray \cup {"remains"}
     \/ /\ Fault /\ apc' = "fail" /\ UNCHANGED <<job, stray>>
        /\ disk' = [disk EXCEPT !["next"] = NoDir]
  /\ UNCHANGED <<storeVars, applied, lastGood>> /\ ApplyFrame

\* A .prev left by an earlier crash goes, unless its removal fails.
Unpark ==
  /\ apc = "unpark" /\ apc' = "park"
  /\ \/ NoFault /\ disk' = [disk EXCEPT !["prev"] = NoDir]
     \/ Fault /\ disk["prev"] # NoDir /\ UNCHANGED disk
  /\ UNCHANGED <<writes, storeVars, job, applied, historyVars>> /\ ApplyFrame

\* Mutation of Park: the live tree is removed to make room.
ParkRemoves ==
  /\ apc = "park"
  /\ \/ /\ NoFault /\ apc' = "promote"
        /\ job' = [job EXCEPT !.lived = disk["live"] # NoDir]
        /\ disk' = [disk EXCEPT !["live"] = NoDir]
     \/ /\ Fault /\ apc' = "fail" /\ UNCHANGED job
        /\ disk' = [disk EXCEPT !["next"] = NoDir]
  /\ UNCHANGED <<writes, storeVars, applied, historyVars>> /\ ApplyFrame

\* The live tree, when there is one, becomes .prev; a .prev still there is in
\* the way of the rename.
Park ==
  LET inTheWay == disk["live"] # NoDir /\ disk["prev"] # NoDir IN
  /\ apc = "park"
  /\ \/ /\ NoFault /\ ~inTheWay /\ apc' = "promote"
        /\ job' = [job EXCEPT !.lived = disk["live"] # NoDir]
        /\ disk' = IF disk["live"] = NoDir THEN disk
                   ELSE [disk EXCEPT !["prev"] = disk["live"], !["live"] = NoDir]
     \/ /\ (NoFault /\ inTheWay) \/ (Fault /\ ~inTheWay)
        /\ apc' = "fail" /\ UNCHANGED job
        /\ disk' = [disk EXCEPT !["next"] = NoDir]
  /\ UNCHANGED <<writes, storeVars, applied, historyVars>> /\ ApplyFrame

\* .next becomes the live tree; when that fails the parked tree comes back, or
\* that fails too and is ignored.
Promote ==
  /\ apc = "promote"
  /\ \/ /\ NoFault /\ apc' = "expose" /\ UNCHANGED stray
        /\ disk' = [disk EXCEPT !["live"] = disk["next"], !["next"] = NoDir]
     \/ /\ Fault /\ apc' = "fail" /\ UNCHANGED stray
        /\ disk' = IF job.lived
             THEN [disk EXCEPT !["live"] = disk["prev"], !["prev"] = NoDir, !["next"] = NoDir]
             ELSE [disk EXCEPT !["next"] = NoDir]
     \/ /\ job.lived /\ faults + 2 <= MaxFaults /\ faults' = faults + 2
        /\ apc' = "fail" /\ stray' = stray \cup {"parked"}
        /\ disk' = [disk EXCEPT !["next"] = NoDir]
  /\ UNCHANGED <<writes, storeVars, job, applied, lastGood>> /\ ApplyFrame

\* Mutation of Expose: the store is pointed at the staging tree.
ExposeStaging ==
  /\ apc \in {"expose", "reexpose"}
  /\ apc' = IF apc = "expose" THEN "reload" ELSE "rereload"
  /\ job' = [job EXCEPT !.from = dir]
  /\ dir' = "next"
  /\ UNCHANGED <<disk, writes, cur, applied, faults, historyVars>> /\ ApplyFrame

\* ReloadFrom points the store at the live tree before it has read it.
Expose ==
  /\ apc \in {"expose", "reexpose"}
  /\ apc' = IF apc = "expose" THEN "reload" ELSE "rereload"
  /\ job' = [job EXCEPT !.from = dir]
  /\ dir' = "live"
  /\ UNCHANGED <<disk, writes, cur, applied, faults, historyVars>> /\ ApplyFrame

\* read and store, or the directory goes back.  Only Apply writes the live tree,
\* so read sees it as it is.
ReloadFrom ==
  /\ apc \in {"reload", "rereload"}
  /\ IF Usable("live")
       THEN /\ cur' = Snapshot("live") /\ UNCHANGED dir
            /\ apc' = IF apc = "reload" THEN "clean" ELSE "fail"
            /\ lastGood' = IF apc = "reload" THEN job.entry.gen ELSE lastGood
       ELSE /\ dir' = job.from /\ UNCHANGED <<cur, lastGood>>
            /\ apc' = IF apc = "reload" THEN "undo" ELSE "fail"
  /\ UNCHANGED <<disk, writes, job, applied, faults, stray>> /\ ApplyFrame

\* os.RemoveAll on the rejected tree: file by file, then the directory.
UndoFile(p) ==
  /\ apc = "undo" /\ disk["live"][p] # Absent
  /\ disk' = [disk EXCEPT !["live"][p] = Absent]
  /\ UNCHANGED <<writes, storeVars, applyVars, faults, historyVars>> /\ ApplyFrame

\* The emptied directory goes; or the removal stops half way, which is passed
\* over.
UndoDir ==
  /\ apc = "undo"
  /\ \/ /\ NoFault /\ disk["live"] = Empty /\ UNCHANGED stray
        /\ disk' = [disk EXCEPT !["live"] = NoDir]
     \/ Fault /\ stray' = stray \cup {"remains"} /\ UNCHANGED disk
  /\ apc' = IF job.lived THEN "restore" ELSE "fail"
  /\ UNCHANGED <<writes, storeVars, job, applied, lastGood>> /\ ApplyFrame

\* The parked tree is live again and is read again, unless the rename fails: Go's
\* refuses a directory that is there, even an empty one.
Restore ==
  LET free == disk["live"] = NoDir IN
  /\ apc = "restore"
  /\ \/ /\ NoFault /\ free /\ apc' = "reexpose" /\ UNCHANGED stray
        /\ disk' = [disk EXCEPT !["live"] = disk["prev"], !["prev"] = NoDir]
     \/ /\ (NoFault /\ ~free) \/ (Fault /\ free)
        /\ apc' = "fail" /\ stray' = stray \cup {"parked"} /\ UNCHANGED disk
  /\ UNCHANGED <<writes, storeVars, job, applied, lastGood>> /\ ApplyFrame

\* Success: .prev goes, or its removal fails and is passed over, and the
\* heartbeat reports the generation.
Clean ==
  /\ apc = "clean" /\ apc' = "idle" /\ job' = IdleJob
  /\ \/ NoFault /\ disk' = [disk EXCEPT !["prev"] = NoDir]
     \/ Fault /\ disk["prev"] # NoDir /\ UNCHANGED disk
  /\ applied' = [entry |-> job.entry, apply |-> "ok"]
  /\ stray' = IF job.over THEN {"remains"} ELSE {}
  /\ UNCHANGED <<writes, storeVars, lastGood>> /\ ApplyFrame

\* Mutation of Fail: the heartbeat reports the generation that failed.
FailReportsEntry ==
  /\ apc = "fail" /\ apc' = "idle" /\ job' = IdleJob
  /\ applied' = [entry |-> job.entry, apply |-> "apply_failed"]
  /\ UNCHANGED <<disk, writes, storeVars, faults, historyVars>> /\ ApplyFrame

\* Failure: the heartbeat keeps the generation before.
Fail ==
  /\ apc = "fail" /\ apc' = "idle" /\ job' = IdleJob
  /\ applied' = [applied EXCEPT !.apply = "apply_failed"]
  /\ UNCHANGED <<disk, writes, storeVars, faults, historyVars>> /\ ApplyFrame

-----------------------------------------------------------------------------
(* Store.Watch and Reload.                                                 *)

ReloadFrame ==
  UNCHANGED <<disk, writes, dir, applyVars, busVars, boundVars, historyVars>>

\* The fingerprint of the directory in use is compared with the one in force.
Check ==
  /\ HotReload /\ Up /\ rpc = "idle"
  /\ disk[dir] # NoDir /\ disk[dir] # cur.fp
  /\ rpc' = "list"
  /\ UNCHANGED <<cur, scan>> /\ ReloadFrame

\* read asks for the directory again and lists it.
List ==
  /\ rpc = "list"
  /\ IF disk[dir] = NoDir
       THEN rpc' = "idle" /\ scan' = IdleScan
       ELSE /\ rpc' = "read"
            /\ scan' = [dir |-> dir, tree |-> Empty, fp |-> NoDir,
                        left |-> {p \in Profiles : disk[dir][p] # Absent}]
  /\ UNCHANGED cur /\ ReloadFrame

\* One profile is read by its path: whatever is there by now, or nothing.
Read(p) ==
  LET tree == disk[scan.dir]
      f == IF tree = NoDir THEN Absent ELSE tree[p] IN
  /\ rpc = "read" /\ p \in scan.left
  /\ IF f # Absent /\ Broken(f, p)
       THEN rpc' = "idle" /\ scan' = IdleScan
       ELSE /\ UNCHANGED rpc
            /\ scan' = [scan EXCEPT !.left = @ \ {p}, !.tree[p] = f]
  /\ UNCHANGED cur /\ ReloadFrame

\* Mutation of Finish: the default profile is not asked for.
FinishAnything ==
  LET tree == Complete(scan.tree, scan.dir) IN
  /\ rpc = "read" /\ scan.left = {}
  /\ IF commonLimits(tree)
       THEN rpc' = "stamp" /\ scan' = [scan EXCEPT !.tree = tree]
       ELSE rpc' = "idle" /\ scan' = IdleScan
  /\ UNCHANGED cur /\ ReloadFrame

\* The image lends its _probe; the default must be there and the limits agree.
Finish ==
  LET tree == Complete(scan.tree, scan.dir) IN
  /\ rpc = "read" /\ scan.left = {}
  /\ IF tree[Default] # Absent /\ commonLimits(tree)
       THEN rpc' = "stamp" /\ scan' = [scan EXCEPT !.tree = tree]
       ELSE rpc' = "idle" /\ scan' = IdleScan
  /\ UNCHANGED cur /\ ReloadFrame

\* The fingerprint is taken after the content.
Stamp ==
  /\ rpc = "stamp"
  /\ IF disk[scan.dir] = NoDir
       THEN rpc' = "idle" /\ scan' = IdleScan
       ELSE rpc' = "store" /\ scan' = [scan EXCEPT !.fp = disk[scan.dir]]
  /\ UNCHANGED cur /\ ReloadFrame

Store ==
  /\ rpc = "store" /\ rpc' = "idle" /\ scan' = IdleScan
  /\ cur' = [tree |-> scan.tree, fp |-> scan.fp]
  /\ ReloadFrame

-----------------------------------------------------------------------------
\* Where a crash of Apply leaves the parked tree parked.
Swapping == {"promote", "expose", "reload", "undo", "restore"}

\* The process dies at any step; the disk stays.
Crash ==
  /\ Up /\ crashes < MaxCrashes /\ crashes' = crashes + 1
  /\ apc' = "down" /\ job' = IdleJob /\ rpc' = "idle" /\ scan' = IdleScan
  /\ dir' = "base" /\ cur' = Unread
  /\ applied' = [entry |-> NoEntry, apply |-> ""] /\ updates' = << >>
  /\ stray' = stray \cup (IF apc \in Swapping THEN {"parked"} ELSE {})
                   \cup (IF apc = "undo" THEN {"remains"} ELSE {})
  /\ UNCHANGED <<disk, writes, kv, faults, edits, lastGood>>

\* Mutation of Start: the watcher only sees entries put after it started.
StartUpdatesOnly ==
  /\ ~Up /\ Usable("base")
  /\ apc' = "idle" /\ dir' = Bootstrap /\ cur' = Snapshot(dir')
  /\ updates' = << >>
  /\ UNCHANGED <<disk, writes, job, applied, scanVars, kv, boundVars, historyVars>>

\* The process starts: the bootstrap profiles must load, whatever else there is;
\* then Bootstrap; the watcher begins with the last entry.
Start ==
  /\ ~Up /\ Usable("base")
  /\ apc' = "idle" /\ dir' = Bootstrap /\ cur' = Snapshot(dir')
  /\ updates' = IF kv = NoEntry THEN << >> ELSE <<kv>>
  /\ UNCHANGED <<disk, writes, job, applied, scanVars, kv, boundVars, historyVars>>

ApplyStep ==
  \/ Deliver \/ Write \/ Unpark \/ Park \/ Promote \/ Expose \/ ReloadFrom
  \/ (\E p \in Profiles : UndoFile(p)) \/ UndoDir \/ Restore \/ Clean \/ Fail

ReloadStep ==
  Check \/ List \/ (\E p \in Profiles : Read(p)) \/ Finish \/ Stamp \/ Store

Next ==
  \/ \E g \in Gens \cup Ignored : Put(g)
  \/ Reput
  \/ \E p \in Profiles, b \in Bases : Edit(p, b)
  \/ ApplyStep \/ ReloadStep \/ Crash \/ Start

Spec == Init /\ [][Next]_vars

\* Both goroutines run as long as the process does, and a process that died is
\* started again.
FairSpec == Spec /\ WF_vars(ApplyStep) /\ WF_vars(ReloadStep) /\ WF_vars(Start)

-----------------------------------------------------------------------------
\* All profiles a generation brings and no other, but for _probe, which may be lent.
WholeOf(tree, g) ==
  /\ tree # NoDir
  /\ \A p \in Profiles \ {Probe} :
       IF p \in Names[g] THEN tree[p].gen = g ELSE tree[p] = Absent

\* The generations this image can put in force: valid, and with the limits of the
\* image unless they bring a _probe of their own.
Good == {g \in Gens : /\ \A p \in Names[g] : <<g, p>> \notin Bad
                      /\ Probe \in Names[g] \/ Limits[g] = Limits[Base]}

\* "A generation replaces the directory as a whole" (INSTALL.md): the profiles in
\* force are all of one generation.
WholeGeneration == \E g \in Sources : WholeOf(cur.tree, g)

\* What is served is a whole generation that loads, or the bootstrap profiles:
\* nothing of a generation that was rejected, although its tree is live while it
\* is tried and removed file by file, and whatever calls fail or crashes happen.
\* Only a removal cut short, of the rejected tree or of an old .next, can bring
\* remains into force.
ServedIsWhole ==
  Up /\ "remains" \notin stray => \E g \in Good \cup {Base} : WholeOf(cur.tree, g)

\* What the heartbeat reports is what the handlers use, and what is on disk for the
\* next start: a failed rollout restores the tree it parked.  Only the failure of
\* that very rename, which Apply passes over, breaks the tie to the disk.
HeartbeatIsTrue ==
  apc = "idle" /\ applied.entry # NoEntry /\ "remains" \notin stray =>
    /\ WholeOf(cur.tree, applied.entry.gen)
    /\ stray = {} => WholeOf(disk["live"], applied.entry.gen)

\* The last generation that was put in force stays on disk, live or parked, until
\* the next one is in force, unless a fault or a crash has left it parked: then the
\* next Apply begins by removing it.
LastGoodKept ==
  lastGood # "none" /\ stray = {} => \/ WholeOf(disk["live"], lastGood)
                                     \/ WholeOf(disk["prev"], lastGood)

\* Whatever a hot reload reads while trees are renamed, rejected and removed under
\* it, what it puts in force has the default profile, no broken profile, one set of
\* limits, and _probe as long as nobody has replaced the image's.
ServedIsUsable ==
  Up => /\ cur.tree[Default] # Absent
        /\ \A p \in Profiles : ~Broken(cur.tree[p], p)
        /\ commonLimits(cur.tree)
        /\ cur.tree[Probe] # Absent \/ disk["base"][Probe].write > 0

\* The controller's last word is manifest g, and the watcher has yet to hear it.
LastWord(g) ==
  /\ kv = [gen |-> g, rev |-> MaxPuts] /\ crashes = MaxCrashes
  /\ ~Up \/ \E i \in DOMAIN updates : updates[i] = kv

\* Once the controller has sent its last manifest and it is good, it comes into
\* force and stays, whatever failed calls and crashes happened on the way, the
\* remains of a removal cut short included; a call that fails from then on may
\* prevent it, since Watch does not try again.
LastGenerationServed ==
  \A g \in Good, f \in 0..MaxFaults :
    (LastWord(g) /\ faults = f) ~> (faults > f \/ []WholeOf(cur.tree, g))

\* Hot reload: when the directory in use has stopped changing, what is in force
\* is what the directory holds.
ReloadCatchesUp == <>[](apc = "idle" => cur.tree = Complete(disk[dir], dir))

=============================================================================
