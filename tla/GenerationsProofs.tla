------------------------- MODULE GenerationsProofs --------------------------
(***************************************************************************)
(* What a rollout keeps and what a reload serves: for any profiles, any    *)
(* generations good or bad, and any number of puts, edits, crashes and     *)
(* file-system calls that fail.                                            *)
(***************************************************************************)
EXTENDS Generations, FiniteSetTheorems, TLAPS

\* A tree of profile files: a directory that is there.
IsTree(t) == t \in [Profiles -> Files]

\* The bounds are numbers.
LEMMA Bounds == MaxPuts \in Nat /\ MaxEdits \in Nat /\ MaxCrashes \in Nat /\ MaxFaults \in Nat
BY GenerationsAssumption, Zenon

\* No directory is not a tree, and no file is not a file.
LEMMA NothingThere ==
  /\ \A S : NoDir \notin [Profiles -> S]
  /\ \A g \in Sources : \A n : File(g, n) # Absent
  /\ \A p \in Profiles : ~Broken(Absent, p)
<1>1. DOMAIN NoDir = {} /\ Default \in Profiles
  BY GenerationsAssumption DEF NoDir
<1>2. "absent" \notin Sources /\ Bad \subseteq Sources \X Profiles
  BY GenerationsAssumption
<1> QED
  BY <1>1, <1>2 DEF File, Absent, Broken

\* A write adds files to those that can be there and takes none away.
LEMMA Grow ==
  ASSUME writes \in Nat, writes' = writes \/ writes' = writes + 1
  PROVE  /\ writes' \in Nat /\ writes' >= writes
         /\ Files \subseteq Files' /\ Trees \subseteq Trees'
         /\ [Profiles -> Files] \subseteq [Profiles -> Files']
<1>1. writes' \in Nat /\ 0..writes \subseteq 0..writes'
  OBVIOUS
<1>2. Files \subseteq Files'
  BY <1>1 DEF Files
<1>3. [Profiles -> Files] \subseteq [Profiles -> Files']
  BY <1>2
<1> QED
  BY <1>1, <1>2, <1>3 DEF Trees

\* There is a directory, or there is none.
LEMMA TreeOrNothing ==
  /\ NoDir \in Trees
  /\ \A t : IsTree(t) => t \in Trees /\ t # NoDir
  /\ \A t \in Trees : t # NoDir => IsTree(t)
BY NothingThere DEF Trees, IsTree

\* Which trees there are follows from where Apply is.
ShapeInv ==
  /\ \A p \in Profiles :
       /\ disk["base"][p] \in [gen : Bases, write : 0..writes]
       /\ disk["base"][p].write = 0 => disk["base"][p].gen = Base
  /\ IsTree(disk["base"])
  /\ apc \in {"unpark", "park", "promote"} => IsTree(disk["next"])
  /\ apc \in {"expose", "reload", "undo", "clean"} => IsTree(disk["live"])
  /\ apc \notin {"down", "idle"} => job.entry.gen \in Gens
  /\ rpc \in {"read", "stamp", "store"} => IsTree(scan.tree)
  /\ Up => IsTree(cur.tree)

\* The types, in parts.
Dirs == {"base", "live", "prev", "next"}
\* What Apply carries from step to step.
Jobs == [entry : Entries, over : BOOLEAN, lived : BOOLEAN, from : {"base", "live"}]
\* The trees on disk, in force and being read.
DiskType ==
  /\ writes \in Nat
  /\ disk \in [Dirs -> Trees]
  /\ cur \in [tree : Trees, fp : Trees]
  /\ scan \in [dir : {"base", "live"}, left : SUBSET Profiles, tree : Trees, fp : Trees]
\* Where the rollout and the reload are, and where the store points.
ControlType ==
  /\ dir \in {"base", "live"}
  /\ apc \in {"down", "idle", "write", "unpark", "park", "promote", "expose", "reload",
              "undo", "restore", "reexpose", "rereload", "clean", "fail"}
  /\ rpc \in {"idle", "list", "read", "stamp", "store"}
\* The controller's key, the watcher's queue and what is reported.
BusType ==
  /\ kv \in Entries /\ updates \in Seq(Entries)
  /\ applied \in [entry : Entries, apply : {"", "ok", "apply_failed"}]
  /\ job \in Jobs
\* The bounds on faults, edits and crashes.
CountType == faults \in 0..MaxFaults /\ edits \in 0..MaxEdits /\ crashes \in 0..MaxCrashes
\* The last generation in force, and what failures left behind.
HistoryType == lastGood \in Gens \cup {"none"} /\ stray \subseteq {"parked", "remains"}

\* All of it, with the shape of the trees.
Shape == DiskType /\ ControlType /\ BusType /\ CountType /\ HistoryType /\ ShapeInv

\* The parts make up the type invariant.
LEMMA ShapeIsTyped == Shape => TypeOK
BY Zenon DEF Shape, DiskType, ControlType, BusType, CountType, HistoryType, TypeOK, Dirs, Jobs

\* What the image lends is a profile, so a completed tree is a tree, and it has every
\* profile it had.
LEMMA CompleteTree ==
  ASSUME Shape, NEW t, IsTree(t), NEW d
  PROVE  /\ IsTree(Complete(t, d))
         /\ \A p \in Profiles \ {Probe} : Complete(t, d)[p] = t[p]
         /\ t[Probe] # Absent => Complete(t, d)[Probe] = t[Probe]
<1>1. IsTree(disk["base"]) /\ Probe \in Profiles
  BY GenerationsAssumption DEF Shape, ShapeInv
<1>2. disk["base"][Probe] \in Files
  BY <1>1 DEF IsTree
<1> QED
  BY <1>1, <1>2 DEF Complete, IsTree

\* A directory that can be used is one that is there.
LEMMA UsableTree ==
  ASSUME Shape, NEW d \in {"base", "live"}, Usable(d)
  PROVE  IsTree(disk[d]) /\ Snapshot(d) \in [tree : Trees, fp : Trees] /\ IsTree(Snapshot(d).tree)
<1>1. disk[d] \in Trees /\ disk[d] # NoDir
  BY DEF Shape, DiskType, Dirs, Usable
<1>2. IsTree(disk[d])
  BY <1>1, TreeOrNothing
<1>3. IsTree(Complete(disk[d], d))
  BY <1>2, CompleteTree
<1>4. Complete(disk[d], d) \in Trees
  BY <1>3, TreeOrNothing
<1> QED
  BY <1>1, <1>2, <1>3, <1>4 DEF Snapshot

\* The files of a manifest are a tree.
LEMMA ManifestTree ==
  ASSUME writes \in Nat, writes' = writes + 1, NEW g \in Sources
  PROVE  /\ TreeOf(g, writes') \in [Profiles -> Files']
         /\ \A t : IsTree(t) => Over(t, g, writes') \in [Profiles -> Files']
<1>1. File(g, writes') \in Files' /\ Absent \in Files'
  BY DEF File, Files
<1>2. Files \subseteq Files'
  BY Grow
<1> QED
  BY <1>1, <1>2 DEF TreeOf, Over, IsTree

\* The image has the bootstrap profiles and nothing else.
LEMMA InitShape == Init => Shape
<1> SUFFICES ASSUME Init PROVE Shape
  OBVIOUS
<1>1. Base \in Sources /\ Names[Base] = Profiles /\ Base \in Bases
  BY GenerationsAssumption DEF Sources
<1>2. TreeOf(Base, 0) = [p \in Profiles |-> File(Base, 0)]
  BY <1>1 DEF TreeOf
<1>3. writes = 0 /\ disk["base"] = TreeOf(Base, 0)
  BY DEF Init
<1>4. \A p \in Profiles : disk["base"][p] = [gen |-> Base, write |-> 0]
  BY <1>2, <1>3 DEF File
<1>5. IsTree(disk["base"])
  BY <1>1, <1>2, <1>3 DEF IsTree, Files, File
<1>6. \A p \in Profiles :
        /\ disk["base"][p] \in [gen : Bases, write : 0..writes]
        /\ disk["base"][p].write = 0 => disk["base"][p].gen = Base
  BY <1>1, <1>3, <1>4
<1>7. disk["base"] \in Trees /\ NoDir \in Trees
  BY <1>5, TreeOrNothing
<1>8. Complete(disk["base"], "base") = disk["base"]
  BY DEF Complete
<1>9. cur = [tree |-> disk["base"], fp |-> disk["base"]]
  BY <1>8 DEF Init, Snapshot
<1>10. /\ applied = [entry |-> NoEntry, apply |-> ""] /\ kv = NoEntry /\ updates = << >>
       /\ apc = "idle" /\ job = IdleJob /\ rpc = "idle" /\ scan = IdleScan /\ dir = "base"
       /\ faults = 0 /\ edits = 0 /\ crashes = 0 /\ lastGood = "none" /\ stray = {}
  BY Zenon DEF Init
<1>11. ShapeInv
  BY <1>5, <1>6, <1>9, <1>10 DEF ShapeInv, Up
<1>12. disk \in [Dirs -> Trees]
  BY <1>3, <1>7 DEF Init, Dirs
<1>13. NoEntry \in Entries
  BY DEF Entries
<1>14. DiskType
  BY <1>3, <1>7, <1>9, <1>10, <1>12 DEF IdleScan, DiskType
<1>15. BusType
  <2>1. << >> \in Seq(Entries)
    OBVIOUS
  <2> QED
    BY <1>10, <1>13, <2>1 DEF IdleJob, BusType, Jobs
<1>16. CountType
  <2>1. faults = 0 /\ edits = 0 /\ crashes = 0
    BY <1>10, Zenon
  <2> QED
    BY <2>1, Bounds DEF CountType
<1>17. ControlType /\ HistoryType
  BY <1>10 DEF ControlType, HistoryType
<1> QED
  BY <1>11, <1>14, <1>15, <1>16, <1>17 DEF Shape

-----------------------------------------------------------------------------
(* Every step keeps the shape.                                             *)

\* Without a write the files that can be there stay the same.
LEMMA SameFiles ==
  ASSUME writes' = writes
  PROVE  Files' = Files /\ Trees' = Trees /\ \A t : (t \in [Profiles -> Files']) = IsTree(t)
BY DEF Files, Trees, IsTree

\* The controller's puts and the watcher's deliveries: nothing on disk changes.
LEMMA ShapeBus ==
  ASSUME Shape, (\E g \in Gens \cup Ignored : Put(g)) \/ Reput \/ Deliver
  PROVE  Shape'
<1> USE DEF Shape
<1>1. /\ disk' = disk /\ writes' = writes /\ dir' = dir /\ cur' = cur /\ applied' = applied
      /\ rpc' = rpc /\ scan' = scan /\ faults' = faults /\ edits' = edits
      /\ crashes' = crashes /\ lastGood' = lastGood /\ stray' = stray
  BY DEF Put, Reput, Deliver, applyVars, storeVars, scanVars, boundVars, historyVars
<1>2. Files' = Files /\ Trees' = Trees
  BY <1>1, SameFiles
<1>3. kv' \in Entries /\ updates' \in Seq(Entries)
  <2>0. kv \in Entries /\ updates \in Seq(Entries)
    BY DEF BusType
  <2>1. CASE \E g \in Gens \cup Ignored : Put(g)
    <3>1. PICK g \in Gens \cup Ignored : Put(g)
      BY <2>1
    <3>2. kv.rev \in 0..MaxPuts
      BY <2>0, Bounds DEF Entries, NoEntry
    <3>3. kv.rev < MaxPuts /\ kv' = [gen |-> g, rev |-> kv.rev + 1]
          /\ (updates' = Append(updates, kv') \/ updates' = updates)
      BY <3>1 DEF Put
    <3>4. kv.rev + 1 \in 1..MaxPuts
      BY <3>2, <3>3, Bounds
    <3>5. kv' \in Entries
      BY <3>3, <3>4 DEF Entries
    <3> QED
      BY <2>0, <3>3, <3>5
  <2>2. CASE Reput
    <3>1. kv' = kv /\ updates' = <<kv>>
      BY <2>2 DEF Reput
    <3> QED
      BY <2>0, <3>1
  <2>3. CASE Deliver
    <3>1. kv' = kv /\ updates # << >> /\ updates' = Tail(updates)
      BY <2>3 DEF Deliver
    <3> QED
      BY <2>0, <3>1
  <2> QED
    BY <2>1, <2>2, <2>3
<1>4. \/ apc' = apc /\ job' = job
      \/ apc = "idle" /\ apc' = "write" /\ job' \in Jobs /\ job'.entry.gen \in Gens
  <2>1. CASE Deliver
    <3>1. updates \in Seq(Entries) /\ updates # << >>
      BY <2>1 DEF Deliver, BusType
    <3>2. Head(updates) \in Entries
      BY <3>1
    <3> QED
      BY <2>1, <3>2 DEF Deliver, IdleJob, Parse, Jobs
  <2>2. CASE ~Deliver
    BY <2>2 DEF Put, Reput, applyVars
  <2> QED
    BY <2>1, <2>2
<1>5. DiskType' /\ CountType' /\ HistoryType'
  BY <1>1, <1>2 DEF DiskType, CountType, HistoryType
<1>6. ControlType' /\ BusType'
  BY <1>1, <1>3, <1>4 DEF ControlType, BusType
<1>7. ShapeInv'
  BY <1>1, <1>2, <1>4 DEF ShapeInv, IsTree, Up
<1> QED
  BY <1>5, <1>6, <1>7

\* An edit replaces a bootstrap profile by another one.
LEMMA ShapeEdit ==
  ASSUME Shape, NEW p \in Profiles, NEW b \in Bases, Edit(p, b)
  PROVE  Shape'
<1> USE DEF Shape
<1>1. /\ writes' = writes + 1 /\ disk' = [disk EXCEPT !["base"][p] = File(b, writes')]
      /\ edits < MaxEdits /\ edits' = edits + 1
  BY DEF Edit
<1>2. /\ dir' = dir /\ cur' = cur /\ apc' = apc /\ job' = job /\ applied' = applied
      /\ rpc' = rpc /\ scan' = scan /\ updates' = updates /\ kv' = kv /\ faults' = faults
      /\ crashes' = crashes /\ lastGood' = lastGood /\ stray' = stray
  BY DEF Edit, storeVars, applyVars, scanVars, busVars, historyVars
<1>3. writes \in Nat
  BY DEF DiskType
<1>4. /\ writes' \in Nat /\ Files \subseteq Files' /\ Trees \subseteq Trees'
      /\ [Profiles -> Files] \subseteq [Profiles -> Files']
  BY <1>1, <1>3, Grow
<1>5. File(b, writes') \in Files' /\ File(b, writes') \in [gen : Bases, write : 0..writes']
      /\ File(b, writes').write # 0
  BY <1>1, <1>3 DEF File, Files, Sources
<1>6. disk["base"] \in [Profiles -> Files] /\ disk \in [Dirs -> Trees]
  BY DEF ShapeInv, IsTree, DiskType
<1>7. /\ disk'["base"] = [disk["base"] EXCEPT ![p] = File(b, writes')]
      /\ \A d \in {"live", "prev", "next"} : disk'[d] = disk[d]
  BY <1>1, <1>6 DEF Dirs
<1>8. disk'["base"] \in [Profiles -> Files']
  BY <1>4, <1>5, <1>6, <1>7
<1>9. disk' \in [Dirs -> Trees']
  BY <1>1, <1>4, <1>6, <1>7, <1>8 DEF Trees, Dirs
<1>10. CountType'
  BY <1>1, <1>2, Bounds DEF CountType
<1>11. DiskType'
  BY <1>2, <1>4, <1>9 DEF DiskType
<1>12. ControlType' /\ BusType' /\ HistoryType'
  BY <1>2 DEF ControlType, BusType, HistoryType
<1>13. ShapeInv'
  <2>1. \A q \in Profiles :
          /\ disk'["base"][q] \in [gen : Bases, write : 0..writes']
          /\ disk'["base"][q].write = 0 => disk'["base"][q].gen = Base
    <3> TAKE q \in Profiles
    <3>1. disk["base"][q] \in [gen : Bases, write : 0..writes']
      BY <1>1, <1>3 DEF ShapeInv
    <3> QED
      BY <1>5, <1>6, <1>7, <3>1 DEF ShapeInv
  <2> QED
    BY <1>2, <1>4, <1>7, <1>8, <2>1 DEF ShapeInv, IsTree, Up
<1> QED
  BY <1>10, <1>11, <1>12, <1>13

\* .next is written, over its remains or from nothing, or is removed.
LEMMA ShapeWrite == ASSUME Shape, Write PROVE Shape'
<1> USE DEF Shape
<1>1. apc = "write" /\ writes' = writes + 1
  BY DEF Write
<1>2. /\ dir' = dir /\ cur' = cur /\ applied' = applied /\ lastGood' = lastGood
      /\ rpc' = rpc /\ scan' = scan /\ updates' = updates /\ kv' = kv
      /\ edits' = edits /\ crashes' = crashes
  BY DEF Write, ApplyFrame, storeVars, scanVars, busVars
<1>3. job.entry.gen \in Gens /\ job.entry.gen \in Sources
  BY <1>1 DEF ShapeInv, Sources
<1>4. writes \in Nat /\ disk \in [Dirs -> Trees] /\ job \in Jobs
  BY DEF DiskType, BusType
<1>5. /\ writes' \in Nat /\ writes' >= writes /\ Files \subseteq Files'
      /\ Trees \subseteq Trees' /\ [Profiles -> Files] \subseteq [Profiles -> Files']
  BY <1>1, <1>4, Grow
<1>6. \E t \in Trees' :
        /\ disk' = [disk EXCEPT !["next"] = t]
        /\ apc' = "unpark" => t \in [Profiles -> Files']
  <2>1. TreeOf(job.entry.gen, writes') \in [Profiles -> Files']
    BY <1>1, <1>3, <1>4, ManifestTree
  <2>2. disk["next"] # NoDir => Over(disk["next"], job.entry.gen, writes') \in [Profiles -> Files']
    <3>1. disk["next"] \in Trees
      BY <1>4 DEF Dirs
    <3> QED
      BY <1>1, <1>3, <1>4, <3>1, ManifestTree, TreeOrNothing
  <2>3. NoDir \in Trees' /\ [Profiles -> Files'] \subseteq Trees'
    BY DEF Trees
  <2>4. \/ apc' = "unpark" /\ disk' = [disk EXCEPT !["next"] = TreeOf(job.entry.gen, writes')]
        \/ /\ apc' = "unpark" /\ disk["next"] # NoDir
           /\ disk' = [disk EXCEPT !["next"] = Over(disk["next"], job.entry.gen, writes')]
        \/ apc' = "fail" /\ disk' = [disk EXCEPT !["next"] = NoDir]
    BY DEF Write
  <2> QED
    BY <2>1, <2>2, <2>3, <2>4
<1>7. PICK t \in Trees' : /\ disk' = [disk EXCEPT !["next"] = t]
                          /\ apc' = "unpark" => t \in [Profiles -> Files']
  BY <1>6
<1>8. DiskType'
  BY <1>2, <1>4, <1>5, <1>7 DEF DiskType, Dirs
<1>9. CountType'
  BY <1>2, Bounds DEF CountType, Write, Fault, NoFault
<1>10. job' = job \/ job' = [job EXCEPT !.over = TRUE]
  BY DEF Write
<1>11. job' \in Jobs /\ job'.entry = job.entry
  BY <1>4, <1>10 DEF Jobs
<1>12. BusType'
  BY <1>2, <1>11 DEF BusType
<1>13. apc' \in {"unpark", "fail"} /\ (stray' = stray \/ stray' = stray \cup {"remains"})
  BY DEF Write
<1>14. ControlType' /\ HistoryType'
  BY <1>2, <1>13 DEF ControlType, HistoryType
<1>15. ShapeInv'
  <2>1. disk'["base"] = disk["base"] /\ disk'["next"] = t
    BY <1>4, <1>7 DEF Dirs
  <2>2. \A q \in Profiles :
          /\ disk["base"][q] \in [gen : Bases, write : 0..writes']
          /\ disk["base"][q].write = 0 => disk["base"][q].gen = Base
    BY <1>4, <1>5 DEF ShapeInv
  <2> QED
    BY <1>1, <1>2, <1>3, <1>5, <1>7, <1>11, <1>13, <2>1, <2>2 DEF ShapeInv, IsTree, Up
<1> QED
  BY <1>8, <1>9, <1>12, <1>14, <1>15

\* The renames of Apply: they move trees and write nothing.
LEMMA ShapeRename == ASSUME Shape, Unpark \/ Park \/ Promote \/ Restore PROVE Shape'
<1> USE DEF Shape
<1>1. /\ writes' = writes /\ dir' = dir /\ cur' = cur /\ applied' = applied /\ lastGood' = lastGood
      /\ rpc' = rpc /\ scan' = scan /\ updates' = updates /\ kv' = kv
      /\ edits' = edits /\ crashes' = crashes
  BY DEF Unpark, Park, Promote, Restore, ApplyFrame, storeVars, scanVars, busVars, historyVars
<1>2. Files' = Files /\ Trees' = Trees
  BY <1>1, SameFiles
<1>3. disk \in [Dirs -> Trees] /\ job \in Jobs /\ NoDir \in Trees
  BY TreeOrNothing DEF DiskType, BusType
<1>4. job.entry.gen \in Gens
  BY DEF ShapeInv, Unpark, Park, Promote, Restore
<1>5. /\ disk' \in [Dirs -> Trees] /\ disk'["base"] = disk["base"]
      /\ apc' \in {"park", "promote"} => disk'["next"] = disk["next"] /\ IsTree(disk["next"])
      /\ apc' = "expose" => disk'["live"] = disk["next"] /\ IsTree(disk["next"])
      /\ apc' \in {"park", "promote", "expose", "reexpose", "fail"}
  <2>1. CASE Unpark
    BY <1>3, <2>1 DEF Unpark, ShapeInv, Dirs
  <2>2. CASE Park
    BY <1>3, <2>2 DEF Park, ShapeInv, Dirs
  <2>3. CASE Promote
    BY <1>3, <2>3 DEF Promote, ShapeInv, Dirs
  <2>4. CASE Restore
    BY <1>3, <2>4 DEF Restore, Dirs
  <2> QED
    BY <2>1, <2>2, <2>3, <2>4
<1>6. job' = job \/ \E l \in BOOLEAN : job' = [job EXCEPT !.lived = l]
  BY DEF Unpark, Park, Promote, Restore
<1>7. job' \in Jobs /\ job'.entry = job.entry
  BY <1>3, <1>6 DEF Jobs
<1>8. faults' \in {faults} \/ (faults < MaxFaults /\ faults' = faults + 1)
      \/ (faults + 2 <= MaxFaults /\ faults' = faults + 2)
  BY DEF Unpark, Park, Promote, Restore, Fault, NoFault
<1>9. CountType'
  BY <1>1, <1>8, Bounds DEF CountType
<1>10. stray' = stray \/ stray' = stray \cup {"parked"}
  BY DEF Unpark, Park, Promote, Restore, historyVars
<1>11. DiskType'
  BY <1>1, <1>2, <1>5 DEF DiskType
<1>12. ControlType' /\ BusType' /\ HistoryType'
  BY <1>1, <1>5, <1>7, <1>10 DEF ControlType, BusType, HistoryType
<1>13. apc \notin {"down", "idle"}
  BY DEF Unpark, Park, Promote, Restore
<1>14. ShapeInv'
  BY <1>1, <1>2, <1>4, <1>5, <1>7, <1>13 DEF ShapeInv, IsTree, Up
<1> QED
  BY <1>9, <1>11, <1>12, <1>14

\* ReloadFrom: the store is pointed at the live tree and reads it, or goes back.
LEMMA ShapeReloadFrom == ASSUME Shape, Expose \/ ReloadFrom PROVE Shape'
<1> USE DEF Shape
<1>1. /\ disk' = disk /\ writes' = writes /\ applied' = applied /\ stray' = stray
      /\ rpc' = rpc /\ scan' = scan /\ updates' = updates /\ kv' = kv
      /\ edits' = edits /\ crashes' = crashes /\ faults' = faults
  BY DEF Expose, ReloadFrom, ApplyFrame, scanVars, busVars, historyVars
<1>2. Files' = Files /\ Trees' = Trees
  BY <1>1, SameFiles
<1>3. job \in Jobs /\ dir \in {"base", "live"} /\ cur \in [tree : Trees, fp : Trees]
  BY DEF DiskType, BusType, ControlType
<1>4. job.entry.gen \in Gens /\ apc \notin {"down", "idle"}
  BY DEF ShapeInv, Expose, ReloadFrom
<1>5. CASE Expose
  <2>1. /\ dir' = "live" /\ cur' = cur /\ lastGood' = lastGood
        /\ job' = [job EXCEPT !.from = dir] /\ apc' \in {"reload", "rereload"}
        /\ apc' = "reload" => apc = "expose"
    BY <1>5 DEF Expose, historyVars
  <2>2. job' \in Jobs /\ job'.entry = job.entry
    BY <1>3, <2>1 DEF Jobs
  <2>3. DiskType' /\ CountType' /\ ControlType' /\ BusType' /\ HistoryType'
    BY <1>1, <1>2, <2>1, <2>2 DEF DiskType, CountType, ControlType, BusType, HistoryType
  <2>4. ShapeInv'
    BY <1>1, <1>2, <1>4, <2>1, <2>2 DEF ShapeInv, IsTree, Up
  <2> QED
    BY <2>3, <2>4
<1>6. CASE ReloadFrom
  <2>1. /\ job' = job /\ apc \in {"reload", "rereload"} /\ apc' \in {"clean", "undo", "fail"}
        /\ apc' \in {"clean", "undo"} => apc = "reload"
        /\ lastGood' \in {lastGood, job.entry.gen}
    BY <1>6 DEF ReloadFrom
  <2>2. /\ dir' \in {"base", "live"}
        /\ cur' \in [tree : Trees, fp : Trees] /\ IsTree(cur'.tree)
    <3>1. CASE Usable("live")
      <4>1. cur' = Snapshot("live") /\ dir' = dir
        BY <1>6, <3>1 DEF ReloadFrom
      <4>2. Snapshot("live") \in [tree : Trees, fp : Trees] /\ IsTree(Snapshot("live").tree)
        BY <3>1, UsableTree
      <4> QED
        BY <1>3, <4>1, <4>2
    <3>2. CASE ~Usable("live")
      <4>1. cur' = cur /\ dir' = job.from
        BY <1>6, <3>2 DEF ReloadFrom
      <4> QED
        BY <1>3, <1>4, <4>1 DEF Jobs, ShapeInv, Up
    <3> QED
      BY <3>1, <3>2
  <2>3. DiskType' /\ CountType' /\ ControlType' /\ BusType'
    BY <1>1, <1>2, <2>1, <2>2 DEF DiskType, CountType, ControlType, BusType
  <2>4. HistoryType'
    BY <1>1, <1>4, <2>1 DEF HistoryType
  <2>5. ShapeInv'
    BY <1>1, <1>2, <1>4, <2>1, <2>2 DEF ShapeInv, IsTree, Up
  <2> QED
    BY <2>3, <2>4, <2>5
<1> QED
  BY <1>5, <1>6

\* The rejected tree goes file by file.
LEMMA ShapeUndo == ASSUME Shape, (\E p \in Profiles : UndoFile(p)) \/ UndoDir PROVE Shape'
<1> USE DEF Shape
<1>1. /\ writes' = writes /\ dir' = dir /\ cur' = cur /\ applied' = applied /\ lastGood' = lastGood
      /\ rpc' = rpc /\ scan' = scan /\ updates' = updates /\ kv' = kv /\ job' = job
      /\ edits' = edits /\ crashes' = crashes /\ apc = "undo"
  BY DEF UndoFile, UndoDir, ApplyFrame, storeVars, applyVars, scanVars, busVars, historyVars
<1>2. Files' = Files /\ Trees' = Trees
  BY <1>1, SameFiles
<1>3. /\ disk \in [Dirs -> Trees] /\ IsTree(disk["live"]) /\ NoDir \in Trees
      /\ job.entry.gen \in Gens
  BY <1>1, TreeOrNothing DEF DiskType, ShapeInv
<1>4. \E t \in Trees :
        /\ disk' = [disk EXCEPT !["live"] = t]
        /\ apc' = "undo" => IsTree(t)
  <2>1. CASE \E p \in Profiles : UndoFile(p)
    <3>1. PICK p \in Profiles : UndoFile(p)
      BY <2>1
    <3>2. disk' = [disk EXCEPT !["live"] = [disk["live"] EXCEPT ![p] = Absent]]
      BY <1>3, <3>1 DEF UndoFile, Dirs
    <3>3. IsTree([disk["live"] EXCEPT ![p] = Absent])
      BY <1>3 DEF IsTree, Files
    <3>4. [disk["live"] EXCEPT ![p] = Absent] \in Trees
      BY <3>3, TreeOrNothing
    <3> QED
      BY <3>2, <3>3, <3>4
  <2>2. CASE UndoDir
    <3>1. apc' # "undo" /\ (disk' = disk \/ disk' = [disk EXCEPT !["live"] = NoDir])
      BY <2>2 DEF UndoDir
    <3>2. disk["live"] \in Trees /\ disk = [disk EXCEPT !["live"] = disk["live"]]
      BY <1>3 DEF Dirs
    <3> QED
      BY <1>3, <3>1, <3>2
  <2> QED
    BY <2>1, <2>2
<1>5. PICK t \in Trees : disk' = [disk EXCEPT !["live"] = t] /\ (apc' = "undo" => IsTree(t))
  BY <1>4
<1>6. /\ apc' \in {"undo", "restore", "fail"}
      /\ stray' = stray \/ stray' = stray \cup {"remains"}
      /\ faults' = faults \/ (faults < MaxFaults /\ faults' = faults + 1)
  BY <1>1 DEF UndoFile, UndoDir, Fault, NoFault, applyVars, historyVars
<1>7. CountType'
  BY <1>1, <1>6, Bounds DEF CountType
<1>8. DiskType'
  BY <1>1, <1>2, <1>3, <1>5 DEF DiskType, Dirs
<1>9. ControlType' /\ BusType' /\ HistoryType'
  BY <1>1, <1>6 DEF ControlType, BusType, HistoryType
<1>10. disk'["base"] = disk["base"] /\ disk'["live"] = t
  BY <1>3, <1>5 DEF Dirs
<1>11. ShapeInv'
  BY <1>1, <1>2, <1>3, <1>5, <1>6, <1>10 DEF ShapeInv, IsTree, Up
<1> QED
  BY <1>7, <1>8, <1>9, <1>11

\* Apply returns, and says how it went.
LEMMA ShapeEnd == ASSUME Shape, Clean \/ Fail PROVE Shape'
<1> USE DEF Shape
<1>1. /\ writes' = writes /\ dir' = dir /\ cur' = cur /\ lastGood' = lastGood
      /\ rpc' = rpc /\ scan' = scan /\ updates' = updates /\ kv' = kv /\ job' = IdleJob
      /\ edits' = edits /\ crashes' = crashes /\ apc' = "idle"
      /\ apc \in {"clean", "fail"}
  BY DEF Clean, Fail, ApplyFrame, storeVars, scanVars, busVars, historyVars
<1>2. Files' = Files /\ Trees' = Trees
  BY <1>1, SameFiles
<1>3. disk \in [Dirs -> Trees] /\ NoDir \in Trees /\ job \in Jobs /\ NoEntry \in Entries
      /\ applied \in [entry : Entries, apply : {"", "ok", "apply_failed"}]
  BY TreeOrNothing DEF DiskType, BusType, Entries
<1>4. disk' = disk \/ disk' = [disk EXCEPT !["prev"] = NoDir]
  BY DEF Clean, Fail
<1>5. disk' \in [Dirs -> Trees] /\ disk'["base"] = disk["base"]
  BY <1>3, <1>4 DEF Dirs
<1>6. job' \in Jobs
  BY <1>1, <1>3 DEF IdleJob, Jobs
<1>7. applied' = [entry |-> job.entry, apply |-> "ok"]
      \/ applied' = [applied EXCEPT !.apply = "apply_failed"]
  BY DEF Clean, Fail
<1>8. applied' \in [entry : Entries, apply : {"", "ok", "apply_failed"}]
  <2>1. job.entry \in Entries
    BY <1>3 DEF Jobs
  <2>2. CASE applied' = [entry |-> job.entry, apply |-> "ok"]
    BY <2>1, <2>2
  <2>3. CASE applied' = [applied EXCEPT !.apply = "apply_failed"]
    BY <1>3, <2>3
  <2> QED
    BY <1>7, <2>2, <2>3
<1>9. /\ stray' \in {stray, {"remains"}, {}}
      /\ faults' = faults \/ (faults < MaxFaults /\ faults' = faults + 1)
  BY DEF Clean, Fail, Fault, NoFault, historyVars
<1>10. CountType'
  BY <1>1, <1>9, Bounds DEF CountType
<1>11. HistoryType'
  BY <1>1, <1>9 DEF HistoryType
<1>12. DiskType' /\ ControlType' /\ BusType'
  BY <1>1, <1>2, <1>5, <1>6, <1>8 DEF DiskType, ControlType, BusType
<1>13. ShapeInv'
  BY <1>1, <1>2, <1>5 DEF ShapeInv, IsTree, Up
<1> QED
  BY <1>10, <1>11, <1>12, <1>13

\* A reload changes what it has read, and at its end what is in force.
LEMMA ShapeScan == ASSUME Shape, ReloadStep PROVE Shape'
<1> USE DEF Shape
<1>1. /\ disk' = disk /\ writes' = writes /\ dir' = dir /\ applied' = applied /\ apc' = apc
      /\ job' = job /\ updates' = updates /\ kv' = kv /\ faults' = faults /\ edits' = edits
      /\ crashes' = crashes /\ lastGood' = lastGood /\ stray' = stray
  BY DEF ReloadStep, Check, List, Read, Finish, Stamp, Store, ReloadFrame, applyVars,
     busVars, boundVars, historyVars
<1>2. Files' = Files /\ Trees' = Trees
  BY <1>1, SameFiles
<1> DEFINE Scans == [dir : {"base", "live"}, left : SUBSET Profiles, tree : Trees, fp : Trees]
<1>3. /\ disk \in [Dirs -> Trees] /\ dir \in {"base", "live"} /\ scan \in Scans
      /\ cur \in [tree : Trees, fp : Trees] /\ NoDir \in Trees
  BY TreeOrNothing DEF DiskType, ControlType
<1>4. IdleScan \in Scans
  BY <1>3 DEF IdleScan
<1>5. IsTree(Empty) /\ Empty \in Trees
  <2>1. IsTree(Empty)
    BY DEF IsTree, Empty, Files
  <2> QED
    BY <2>1, TreeOrNothing
<1>6. /\ rpc' \in {"idle", "list", "read", "stamp", "store"} /\ scan' \in Scans
      /\ rpc' \in {"read", "stamp", "store"} => IsTree(scan'.tree)
      /\ cur' \in [tree : Trees, fp : Trees] /\ (Up => IsTree(cur'.tree))
  <2>1. CASE Check
    BY <1>3, <2>1 DEF Check, ShapeInv
  <2>2. CASE List
    <3>1. rpc' \in {"idle", "read"} /\ cur' = cur
      BY <2>2 DEF List
    <3>2. rpc' = "read" =>
            scan' = [dir |-> dir, tree |-> Empty, fp |-> NoDir,
                     left |-> {p \in Profiles : disk[dir][p] # Absent}]
      BY <2>2 DEF List
    <3>3. rpc' = "idle" => scan' = IdleScan
      BY <2>2 DEF List
    <3> QED
      BY <1>3, <1>4, <1>5, <3>1, <3>2, <3>3 DEF ShapeInv
  <2>3. CASE \E p \in Profiles : Read(p)
    <3>1. PICK p \in Profiles : Read(p)
      BY <2>3
    <3> DEFINE f == IF disk[scan.dir] = NoDir THEN Absent ELSE disk[scan.dir][p]
    <3>2. f \in Files
      <4>1. disk[scan.dir] \in Trees
        BY <1>3 DEF Dirs
      <4>2. disk[scan.dir] # NoDir => IsTree(disk[scan.dir])
        BY <4>1, TreeOrNothing
      <4> QED
        BY <4>2 DEF IsTree, Files
    <3>3. /\ rpc = "read" /\ cur' = cur
          /\ \/ rpc' = "idle" /\ scan' = IdleScan
             \/ rpc' = "read" /\ scan' = [scan EXCEPT !.left = @ \ {p}, !.tree[p] = f]
      BY <3>1 DEF Read
    <3> HIDE DEF f
    <3>4. IsTree(scan.tree)
      BY <3>3 DEF ShapeInv
    <3>5. IsTree([scan.tree EXCEPT ![p] = f])
      BY <3>2, <3>4 DEF IsTree
    <3>6. [scan.tree EXCEPT ![p] = f] \in Trees
      BY <3>5, TreeOrNothing
    <3>7. CASE rpc' = "idle" /\ scan' = IdleScan
      BY <1>3, <1>4, <3>3, <3>7 DEF ShapeInv
    <3>8. CASE rpc' = "read" /\ scan' = [scan EXCEPT !.left = @ \ {p}, !.tree[p] = f]
      <4>1. scan'.tree = [scan.tree EXCEPT ![p] = f] /\ scan' \in Scans
        BY <1>3, <3>6, <3>8
      <4> QED
        BY <1>3, <3>3, <3>5, <3>8, <4>1 DEF ShapeInv
    <3> QED
      BY <3>3, <3>7, <3>8
  <2>4. CASE Finish
    <3> DEFINE t == Complete(scan.tree, scan.dir)
    <3>1. /\ rpc = "read" /\ cur' = cur
          /\ \/ rpc' = "idle" /\ scan' = IdleScan
             \/ rpc' = "stamp" /\ scan' = [scan EXCEPT !.tree = t]
      BY <2>4 DEF Finish
    <3>2. IsTree(t)
      BY <3>1, CompleteTree DEF ShapeInv
    <3>3. t \in Trees
      BY <3>2, TreeOrNothing
    <3> HIDE DEF t
    <3> QED
      BY <1>3, <1>4, <3>1, <3>2, <3>3 DEF ShapeInv
  <2>5. CASE Stamp
    <3>1. disk[scan.dir] \in Trees
      BY <1>3 DEF Dirs
    <3>2. /\ rpc = "stamp" /\ cur' = cur
          /\ \/ rpc' = "idle" /\ scan' = IdleScan
             \/ rpc' = "store" /\ scan' = [scan EXCEPT !.fp = disk[scan.dir]]
      BY <2>5 DEF Stamp
    <3> QED
      BY <1>3, <1>4, <3>1, <3>2 DEF ShapeInv
  <2>6. CASE Store
    BY <1>3, <1>4, <2>6 DEF Store, ShapeInv
  <2> QED
    BY <2>1, <2>2, <2>3, <2>4, <2>5, <2>6 DEF ReloadStep
<1>7. DiskType'
  BY <1>1, <1>2, <1>3, <1>6 DEF DiskType
<1>8. ControlType' /\ BusType' /\ CountType' /\ HistoryType'
  BY <1>1, <1>6 DEF ControlType, BusType, CountType, HistoryType
<1>9. ShapeInv'
  BY <1>1, <1>2, <1>6 DEF ShapeInv, IsTree, Up
<1> QED
  BY <1>7, <1>8, <1>9

\* A crash loses memory, a start begins with what is on disk.
LEMMA ShapeRestart == ASSUME Shape, Crash \/ Start PROVE Shape'
<1> USE DEF Shape
<1>1. disk' = disk /\ writes' = writes /\ kv' = kv /\ faults' = faults /\ edits' = edits
      /\ lastGood' = lastGood
  BY DEF Crash, Start, boundVars, historyVars
<1>2. Files' = Files /\ Trees' = Trees
  BY <1>1, SameFiles
<1>3. NoDir \in Trees /\ NoEntry \in Entries /\ << >> \in Seq(Entries) /\ <<kv>> \in Seq(Entries)
  <2>1. kv \in Entries
    BY DEF BusType
  <2>2. << >> \in Seq(Entries) /\ <<kv>> \in Seq(Entries)
    BY <2>1
  <2> QED
    BY <2>2, TreeOrNothing DEF Entries
<1>4. CASE Crash
  <2>1. /\ apc' = "down" /\ job' = IdleJob /\ rpc' = "idle" /\ scan' = IdleScan
        /\ dir' = "base" /\ cur' = Unread
        /\ applied' = [entry |-> NoEntry, apply |-> ""] /\ updates' = << >>
        /\ stray' \subseteq stray \cup {"parked", "remains"}
    BY <1>4 DEF Crash
  <2>2. CountType'
    <3>1. crashes < MaxCrashes /\ crashes' = crashes + 1
      BY <1>4 DEF Crash
    <3> QED
      BY <1>1, <3>1, Bounds DEF CountType
  <2>3. DiskType'
    BY <1>1, <1>2, <1>3, <2>1 DEF DiskType, Unread, IdleScan
  <2>4. ControlType' /\ BusType' /\ HistoryType'
    BY <1>1, <1>3, <2>1 DEF ControlType, BusType, HistoryType, IdleJob, Jobs
  <2>5. ShapeInv'
    BY <1>1, <1>2, <2>1 DEF ShapeInv, IsTree, Up
  <2> QED
    BY <2>2, <2>3, <2>4, <2>5
<1>5. CASE Start
  <2>1. /\ apc' = "idle" /\ dir' = Bootstrap /\ cur' = Snapshot(Bootstrap)
        /\ job' = job /\ applied' = applied /\ rpc' = rpc /\ scan' = scan
        /\ crashes' = crashes /\ stray' = stray /\ Usable("base")
        /\ updates' = << >> \/ updates' = <<kv>>
    BY <1>5 DEF Start, scanVars, boundVars, historyVars
  <2>2. Bootstrap \in {"base", "live"} /\ Usable(Bootstrap)
    BY <2>1 DEF Bootstrap
  <2>3. cur' \in [tree : Trees, fp : Trees] /\ IsTree(cur'.tree)
    BY <2>1, <2>2, UsableTree
  <2>4. updates' \in Seq(Entries)
    BY <1>3, <2>1
  <2>5. DiskType'
    BY <1>1, <1>2, <2>1, <2>3 DEF DiskType
  <2>6. ControlType' /\ BusType' /\ CountType' /\ HistoryType'
    BY <1>1, <2>1, <2>2, <2>4 DEF ControlType, BusType, CountType, HistoryType
  <2>7. ShapeInv'
    BY <1>1, <1>2, <2>1, <2>3 DEF ShapeInv, IsTree, Up
  <2> QED
    BY <2>5, <2>6, <2>7
<1> QED
  BY <1>4, <1>5

\* Every step keeps the shape.
LEMMA ShapeStep == Shape /\ [Next]_vars => Shape'
<1> SUFFICES ASSUME Shape, [Next]_vars PROVE Shape'
  OBVIOUS
<1>1. CASE UNCHANGED vars
  <2>1. /\ disk' = disk /\ writes' = writes /\ dir' = dir /\ cur' = cur /\ applied' = applied
        /\ apc' = apc /\ job' = job /\ updates' = updates /\ kv' = kv /\ rpc' = rpc
        /\ scan' = scan /\ faults' = faults /\ edits' = edits /\ crashes' = crashes
        /\ lastGood' = lastGood /\ stray' = stray
    BY <1>1 DEF vars, storeVars, applyVars, scanVars, busVars, boundVars, historyVars
  <2>2. Files' = Files /\ Trees' = Trees
    BY <2>1, SameFiles
  <2>3. DiskType' /\ ControlType' /\ BusType' /\ CountType' /\ HistoryType'
    BY <2>1, <2>2 DEF Shape, DiskType, ControlType, BusType, CountType, HistoryType
  <2>4. ShapeInv'
    BY <2>1, <2>2 DEF Shape, ShapeInv, IsTree, Up
  <2> QED
    BY <2>3, <2>4 DEF Shape
<1>2. CASE Next
  BY <1>2, ShapeBus, ShapeEdit, ShapeWrite, ShapeRename, ShapeReloadFrom, ShapeUndo,
     ShapeEnd, ShapeScan, ShapeRestart
  DEF Next, ApplyStep
<1> QED
  BY <1>1, <1>2

\* The shape holds of every state.
LEMMA ShapeInvariant == Spec => []Shape
  BY InitShape, ShapeStep, PTL DEF Spec

\* Rollout, reload, crashes and edits keep the variables within their types: the store
\* points at the bootstrap tree or at the live one.
THEOREM GenerationsTyping == Spec => []TypeOK
  BY ShapeInvariant, ShapeIsTyped, PTL

-----------------------------------------------------------------------------
(* What is served can be used.                                             *)

\* What may be put in force.
Served(tree) ==
  /\ tree[Default] # Absent
  /\ \A p \in Profiles : ~Broken(tree[p], p)
  /\ commonLimits(tree)
  /\ tree[Probe] # Absent \/ disk["base"][Probe].write > 0

\* A reload that is under way has read no broken profile, has found in the bootstrap
\* tree all it asked for, and what it has finished may be put in force.
ScanInv ==
  /\ rpc = "read" =>
       /\ \A p \in Profiles : ~Broken(scan.tree[p], p)
       /\ scan.dir = "base" => \A p \in Profiles \ scan.left : scan.tree[p] # Absent
  /\ rpc \in {"stamp", "store"} => Served(scan.tree)

\* What the handlers use may be put in force.
ServedInv == Up => Served(cur.tree)

\* The inductive invariant behind ServedIsUsable.
UsableInv == Shape /\ ScanInv /\ ServedInv

\* The bootstrap tree has every profile, and the image's _probe is not broken.
LEMMA BaseHasAll ==
  ASSUME Shape
  PROVE  /\ \A p \in Profiles : disk["base"][p] # Absent
         /\ Broken(disk["base"][Probe], Probe) => disk["base"][Probe].write > 0
<1>1. \A p \in Profiles :
        /\ disk["base"][p] \in [gen : Bases, write : 0..writes]
        /\ disk["base"][p].write = 0 => disk["base"][p].gen = Base
  BY DEF Shape, ShapeInv
<1>2. writes \in Nat
  BY DEF Shape, DiskType
<1>3. "absent" \notin Bases /\ Probe \in Profiles /\ <<Base, Probe>> \notin Bad
  BY GenerationsAssumption DEF Sources
<1>4. disk["base"][Probe].write \in Nat
  BY <1>1, <1>2, <1>3
<1> QED
  BY <1>1, <1>3, <1>4 DEF Absent, Broken

\* Completing a tree adds nothing broken, and _probe unless the image's has gone bad.
LEMMA CompleteServed ==
  ASSUME Shape, NEW t, IsTree(t), NEW d, \A p \in Profiles : ~Broken(t[p], p),
         d = "base" => t[Probe] # Absent
  PROVE  LET c == Complete(t, d) IN
         /\ \A p \in Profiles : ~Broken(c[p], p)
         /\ c[Probe] # Absent \/ disk["base"][Probe].write > 0
<1>1. Probe \in Profiles /\ DOMAIN t = Profiles
  BY GenerationsAssumption DEF IsTree
<1>2. CASE d = "base" \/ t[Probe] # Absent \/ Broken(disk["base"][Probe], Probe)
  <2>1. Complete(t, d) = t
    BY <1>2 DEF Complete
  <2> QED
    BY <1>2, <2>1, BaseHasAll
<1>3. CASE ~(d = "base" \/ t[Probe] # Absent \/ Broken(disk["base"][Probe], Probe))
  <2>1. Complete(t, d) = [t EXCEPT ![Probe] = disk["base"][Probe]]
    BY <1>3 DEF Complete
  <2>2. disk["base"][Probe] # Absent
    BY <1>1, BaseHasAll
  <2> QED
    BY <1>1, <1>3, <2>1, <2>2
<1> QED
  BY <1>2, <1>3

\* A directory that read accepts may be put in force.
LEMMA UsableServed ==
  ASSUME Shape, NEW d \in {"base", "live"}, Usable(d)
  PROVE  Served(Snapshot(d).tree)
<1>1. IsTree(disk[d])
  BY UsableTree
<1>2. \A p \in Profiles : ~Broken(disk[d][p], p)
  BY NothingThere DEF Usable
<1>3. d = "base" => disk[d][Probe] # Absent
  BY BaseHasAll, GenerationsAssumption
<1>4. /\ \A p \in Profiles : ~Broken(Complete(disk[d], d)[p], p)
      /\ Complete(disk[d], d)[Probe] # Absent \/ disk["base"][Probe].write > 0
  BY <1>1, <1>2, <1>3, CompleteServed
<1>5. Complete(disk[d], d)[Default] = disk[d][Default]
  BY <1>1, CompleteTree, GenerationsAssumption
<1> QED
  BY <1>4, <1>5 DEF Snapshot, Usable, Served

\* The image starts with profiles that can be used.
LEMMA InitServed == Init => UsableInv
<1> SUFFICES ASSUME Init PROVE UsableInv
  OBVIOUS
<1>1. Shape
  BY InitShape
<1>2. rpc = "idle" /\ cur = Snapshot("base") /\ disk["base"] = TreeOf(Base, 0)
  BY DEF Init
<1>3. Base \in Sources /\ Names[Base] = Profiles /\ Default \in Profiles
      /\ \A p \in Profiles : <<Base, p>> \notin Bad
  BY GenerationsAssumption DEF Sources
<1>4. \A p \in Profiles : disk["base"][p] = File(Base, 0)
  BY <1>2, <1>3 DEF TreeOf
<1>5. \A p \in Profiles : disk["base"][p] # Absent /\ disk["base"][p].gen = Base
  BY <1>3, <1>4, NothingThere DEF File
<1>6. Complete(disk["base"], "base") = disk["base"]
  BY DEF Complete
<1>7. commonLimits(disk["base"])
  <2>1. {Limits[disk["base"][p].gen] : p \in {q \in Profiles : disk["base"][q] # Absent}}
          = {Limits[Base]}
    BY <1>3, <1>5
  <2>2. Cardinality({Limits[Base]}) = 1
    BY FS_Singleton
  <2> QED
    BY <2>1, <2>2 DEF commonLimits
<1>8. disk["base"] # NoDir
  BY <1>1, TreeOrNothing DEF Shape, ShapeInv
<1>9. Usable("base")
  BY <1>3, <1>5, <1>6, <1>7, <1>8 DEF Usable, Broken
<1>10. Served(cur.tree)
  BY <1>1, <1>2, <1>9, UsableServed
<1> QED
  BY <1>1, <1>2, <1>10 DEF UsableInv, ScanInv, ServedInv

\* A step that leaves the bootstrap tree, the scan and what is in force alone, or
\* replaces bootstrap profiles by new files, keeps what is served.
LEMMA ServedFrame ==
  ASSUME UsableInv, rpc' = rpc, scan' = scan, cur' = cur, Up' => Up,
         disk'["base"][Probe] = disk["base"][Probe] \/ disk'["base"][Probe].write > 0
  PROVE  ScanInv' /\ ServedInv'
BY DEF UsableInv, ScanInv, ServedInv, Served, Broken, commonLimits

\* A reload looks at the directories and changes none.
LEMMA ServedScan ==
  ASSUME UsableInv, ReloadStep
  PROVE  ScanInv' /\ ServedInv'
<1> USE DEF UsableInv
<1>1. disk' = disk /\ dir' = dir /\ apc' = apc
  BY DEF ReloadStep, Check, List, Read, Finish, Stamp, Store, ReloadFrame, applyVars
<1>2. dir \in {"base", "live"} /\ scan.dir \in {"base", "live"}
  BY DEF Shape, ControlType, DiskType
<1>3. \A t : Served(t)' = Served(t)
  BY <1>1 DEF Served
<1>4. CASE Check
  BY <1>1, <1>3, <1>4 DEF Check, ScanInv, ServedInv, Up
<1>5. CASE List
  <2>1. cur' = cur /\ rpc' \in {"idle", "read"}
    BY <1>5 DEF List
  <2>2. rpc' = "read" =>
          scan' = [dir |-> dir, tree |-> Empty, fp |-> NoDir,
                   left |-> {p \in Profiles : disk[dir][p] # Absent}]
    BY <1>5 DEF List
  <2>3. \A p \in Profiles : ~Broken(Empty[p], p)
    BY NothingThere DEF Empty
  <2>4. dir = "base" => {p \in Profiles : disk[dir][p] # Absent} = Profiles
    BY BaseHasAll
  <2>5. ScanInv'
    BY <2>1, <2>2, <2>3, <2>4 DEF ScanInv, Broken
  <2>6. ServedInv'
    BY <1>1, <2>1 DEF ServedInv, Served, Up, commonLimits, Broken
  <2> QED
    BY <2>5, <2>6
<1>6. CASE \E p \in Profiles : Read(p)
  <2>1. PICK p \in Profiles : Read(p)
    BY <1>6
  <2> DEFINE f == IF disk[scan.dir] = NoDir THEN Absent ELSE disk[scan.dir][p]
  <2>2. cur' = cur /\ rpc = "read"
    BY <2>1 DEF Read
  <2>3. ServedInv'
    BY <1>1, <2>2 DEF ServedInv, Served, Up, commonLimits, Broken
  <2>4. CASE rpc' = "idle"
    BY <2>3, <2>4 DEF ScanInv
  <2>5. CASE rpc' # "idle"
    <3>1. /\ ~(f # Absent /\ Broken(f, p)) /\ rpc' = "read"
          /\ scan' = [scan EXCEPT !.left = @ \ {p}, !.tree[p] = f]
      BY <2>1, <2>5 DEF Read
    <3>2. ~Broken(f, p)
      BY <3>1, NothingThere
    <3>3. scan.dir = "base" => f # Absent
      <4>1. IsTree(disk["base"])
        BY DEF Shape, ShapeInv
      <4>2. disk["base"] # NoDir
        BY <4>1, TreeOrNothing
      <4> QED
        BY <4>2, BaseHasAll
    <3> HIDE DEF f
    <3>4. IsTree(scan.tree)
      BY <2>2 DEF Shape, ShapeInv
    <3>5. /\ scan'.tree = [scan.tree EXCEPT ![p] = f] /\ scan'.dir = scan.dir
          /\ scan'.left = scan.left \ {p}
      BY <3>1 DEF Shape, DiskType
    <3>6. \A q \in Profiles : scan'.tree[q] = IF q = p THEN f ELSE scan.tree[q]
      BY <3>4, <3>5 DEF IsTree
    <3>7. \A q \in Profiles : ~Broken(scan'.tree[q], q)
      BY <2>2, <3>2, <3>6 DEF ScanInv
    <3>8. scan'.dir = "base" => \A q \in Profiles \ scan'.left : scan'.tree[q] # Absent
      BY <2>2, <3>3, <3>5, <3>6 DEF ScanInv
    <3>9. ScanInv'
      BY <3>1, <3>7, <3>8 DEF ScanInv, Broken
    <3> QED
      BY <2>3, <3>9
  <2> QED
    BY <2>4, <2>5
<1>7. CASE Finish
  <2> DEFINE t == Complete(scan.tree, scan.dir)
  <2>1. cur' = cur /\ rpc = "read" /\ scan.left = {}
    BY <1>7 DEF Finish
  <2>2. ServedInv'
    BY <1>1, <2>1 DEF ServedInv, Served, Up, commonLimits, Broken
  <2>3. CASE rpc' = "idle"
    BY <2>2, <2>3 DEF ScanInv
  <2>4. CASE rpc' # "idle"
    <3>1. /\ t[Default] # Absent /\ commonLimits(t) /\ rpc' = "stamp"
          /\ scan' = [scan EXCEPT !.tree = t]
      BY <1>7, <2>4 DEF Finish
    <3>2. IsTree(scan.tree) /\ \A p \in Profiles : ~Broken(scan.tree[p], p)
      BY <2>1 DEF Shape, ShapeInv, ScanInv
    <3>3. scan.dir = "base" => scan.tree[Probe] # Absent
      BY <2>1, GenerationsAssumption DEF ScanInv
    <3>4. /\ \A p \in Profiles : ~Broken(t[p], p)
          /\ t[Probe] # Absent \/ disk["base"][Probe].write > 0
      BY <3>2, <3>3, CompleteServed
    <3>5. Served(t)
      BY <3>1, <3>4 DEF Served
    <3> HIDE DEF t
    <3>6. scan'.tree = t
      BY <3>1 DEF Shape, DiskType
    <3>7. ScanInv'
      BY <1>3, <3>1, <3>5, <3>6 DEF ScanInv
    <3> QED
      BY <2>2, <3>7
  <2> QED
    BY <2>3, <2>4
<1>8. CASE Stamp
  <2>1. cur' = cur /\ rpc = "stamp" /\ rpc' \in {"idle", "store"}
        /\ (rpc' = "store" => scan' = [scan EXCEPT !.fp = disk[scan.dir]])
    BY <1>8 DEF Stamp
  <2>2. rpc' = "store" => scan'.tree = scan.tree
    BY <2>1 DEF Shape, DiskType
  <2> QED
    BY <1>1, <1>3, <2>1, <2>2 DEF ScanInv, ServedInv, Up
<1>9. CASE Store
  <2>1. rpc = "store" /\ rpc' = "idle" /\ cur'.tree = scan.tree
    BY <1>9 DEF Store
  <2> QED
    BY <1>3, <2>1 DEF ScanInv, ServedInv
<1> QED
  BY <1>4, <1>5, <1>6, <1>7, <1>8, <1>9 DEF ReloadStep

\* Every step keeps what is served usable.
LEMMA ServedStep == UsableInv /\ [Next]_vars => UsableInv'
<1> SUFFICES ASSUME UsableInv, [Next]_vars PROVE UsableInv'
  OBVIOUS
<1>1. Shape /\ Shape'
  BY ShapeStep DEF UsableInv
<1>2. SUFFICES ScanInv' /\ ServedInv'
  BY <1>1 DEF UsableInv
<1>3. CASE ReloadStep
  BY <1>3, ServedScan
<1>4. CASE \E p \in Profiles, b \in Bases : Edit(p, b)
  <2>1. PICK p \in Profiles, b \in Bases : Edit(p, b)
    BY <1>4
  <2>2. /\ rpc' = rpc /\ scan' = scan /\ cur' = cur /\ apc' = apc /\ writes' = writes + 1
        /\ disk' = [disk EXCEPT !["base"][p] = File(b, writes')]
    BY <2>1 DEF Edit, storeVars, applyVars, scanVars
  <2>3. writes \in Nat /\ disk \in [Dirs -> Trees] /\ DOMAIN disk["base"] = Profiles
    BY <1>1 DEF Shape, DiskType, ShapeInv, IsTree
  <2>4. disk'["base"] = [disk["base"] EXCEPT ![p] = File(b, writes')] /\ Probe \in Profiles
    BY <2>2, <2>3, GenerationsAssumption DEF Dirs
  <2>5. File(b, writes').write > 0
    BY <2>2, <2>3 DEF File
  <2>6. disk'["base"][Probe] = disk["base"][Probe] \/ disk'["base"][Probe].write > 0
    BY <2>3, <2>4, <2>5
  <2> QED
    BY <2>2, <2>6, ServedFrame DEF Up
<1>5. CASE ReloadFrom
  <2>1. disk' = disk /\ rpc' = rpc /\ scan' = scan /\ apc \in {"reload", "rereload"}
    BY <1>5 DEF ReloadFrom, ApplyFrame, scanVars
  <2>2. CASE Usable("live")
    <3>1. cur' = Snapshot("live")
      BY <1>5, <2>2 DEF ReloadFrom
    <3>2. Served(cur'.tree)
      BY <1>1, <2>2, <3>1, UsableServed
    <3> QED
      BY <2>1, <3>2 DEF ScanInv, ServedInv, UsableInv, Served
  <2>3. CASE ~Usable("live")
    <3>1. cur' = cur
      BY <1>5, <2>3 DEF ReloadFrom
    <3> QED
      BY <2>1, <3>1, ServedFrame DEF Up
  <2> QED
    BY <2>2, <2>3
<1>6. CASE Crash
  BY <1>6 DEF Crash, ScanInv, ServedInv, Up
<1>7. CASE Start
  <2>1. /\ disk' = disk /\ rpc' = rpc /\ scan' = scan /\ cur' = Snapshot(Bootstrap) /\ Usable("base")
    BY <1>7 DEF Start, scanVars
  <2>2. Bootstrap \in {"base", "live"} /\ Usable(Bootstrap)
    BY <2>1 DEF Bootstrap
  <2>3. Served(cur'.tree)
    BY <1>1, <2>1, <2>2, UsableServed
  <2> QED
    BY <2>1, <2>3 DEF ScanInv, ServedInv, UsableInv, Served
<1>8. CASE \/ \E g \in Gens \cup Ignored : Put(g)
           \/ Reput \/ Deliver \/ Write \/ Unpark \/ Park \/ Promote \/ Expose
           \/ (\E p \in Profiles : UndoFile(p)) \/ UndoDir \/ Restore \/ Clean \/ Fail
           \/ UNCHANGED vars
  <2>1. rpc' = rpc /\ scan' = scan /\ cur' = cur /\ (Up' => Up)
    BY <1>8 DEF Put, Reput, Deliver, Write, Unpark, Park, Promote, Expose, UndoFile, UndoDir,
       Restore, Clean, Fail, ApplyFrame, Up, vars, storeVars, applyVars, scanVars
  <2>2. disk \in [Dirs -> Trees]
    BY <1>1 DEF Shape, DiskType
  <2>3. disk'["base"] = disk["base"]
    BY <1>8, <2>2 DEF Put, Reput, Deliver, Write, Unpark, Park, Promote, Expose, UndoFile,
       UndoDir, Restore, Clean, Fail, vars, Dirs
  <2> QED
    BY <2>1, <2>3, ServedFrame
<1> QED
  BY <1>3, <1>4, <1>5, <1>6, <1>7, <1>8 DEF Next, ApplyStep

\* However reloads, rollouts, edits and crashes interleave, what the handlers use has
\* the default profile, no broken profile, one set of limits, and _probe as long as
\* nobody has replaced the image's (Store.read, ReloadFrom, Bootstrap).
THEOREM WhatIsServedIsUsable == Spec => []ServedIsUsable
<1>1. UsableInv => ServedIsUsable
  BY DEF UsableInv, ServedInv, Served, ServedIsUsable
<1> QED
  BY <1>1, InitServed, ServedStep, PTL DEF Spec

-----------------------------------------------------------------------------
(* What is on disk.                                                        *)

\* Exactly the files of a generation, _probe included.
Exact(tree, g) ==
  /\ tree # NoDir
  /\ \A p \in Profiles : IF p \in Names[g] THEN tree[p].gen = g ELSE tree[p] = Absent

\* What Apply brings in is exactly its manifest, unless it wrote over remains.
JobInv ==
  /\ apc = "restore" => job.lived
  /\ job.over => "remains" \in stray
  /\ ~job.over =>
       /\ apc \in {"unpark", "park", "promote"} => Exact(disk["next"], job.entry.gen)
       /\ apc \in {"expose", "reload", "clean"} => Exact(disk["live"], job.entry.gen)

\* The last generation put in force is the one the heartbeat reports.  While nothing
\* has gone wrong it is on disk: parked while Apply swaps the trees, live otherwise.
LastInv ==
  /\ apc = "clean" => lastGood = job.entry.gen
  /\ applied.entry # NoEntry /\ apc # "clean" => lastGood = applied.entry.gen
  /\ lastGood # "none" /\ stray = {} =>
       IF apc \in Swapping THEN job.lived /\ Exact(disk["prev"], lastGood)
       ELSE Exact(disk["live"], lastGood)

\* Without remains of a removal cut short every tree is that of a generation, but for
\* the one Apply is removing; and in a process that has put a generation in force, the
\* live tree is that one, or is left parked.
WholeInv ==
  "remains" \notin stray =>
    /\ apc # "undo" =>
         disk["live"] = NoDir \/ \E g \in Gens : Exact(disk["live"], g)
    /\ apc \in {"promote", "restore"} => disk["live"] = NoDir
    /\ apc \in Swapping /\ job.lived => \E g \in Gens : Exact(disk["prev"], g)
    /\ applied.entry # NoEntry /\ apc # "clean" =>
         IF apc \in Swapping THEN job.lived => Exact(disk["prev"], lastGood)
         ELSE disk["live"] = NoDir \/ Exact(disk["live"], lastGood)

\* The inductive invariant behind LastGoodKept.
DiskInv == Shape /\ JobInv /\ LastInv /\ WholeInv

\* What a manifest writes into an empty directory is exactly it.
LEMMA ManifestExact ==
  ASSUME NEW g \in Sources, NEW n
  PROVE  Exact(TreeOf(g, n), g)
<1>1. TreeOf(g, n) \in [Profiles -> {File(g, n), Absent}]
  BY DEF TreeOf
<1>2. TreeOf(g, n) # NoDir
  BY <1>1, NothingThere
<1> QED
  BY <1>2 DEF Exact, TreeOf, File

\* Where there is no directory there is no generation.
LEMMA NoDirInexact == \A g : ~Exact(NoDir, g)
BY DEF Exact

\* At first there is only the image.
LEMMA InitDisk == Init => DiskInv
<1> SUFFICES ASSUME Init PROVE DiskInv
  OBVIOUS
<1>1. Shape
  BY InitShape
<1>2. /\ applied.entry = NoEntry /\ apc = "idle" /\ job.over = FALSE /\ lastGood = "none"
      /\ disk["live"] = NoDir
  BY DEF Init, IdleJob
<1> QED
  BY <1>1, <1>2 DEF DiskInv, JobInv, LastInv, WholeInv, Swapping

\* A step that leaves Apply and its trees alone keeps what is on disk.
LEMMA DiskFrame ==
  ASSUME DiskInv, apc' = apc, job' = job, applied' = applied, lastGood' = lastGood,
         stray' = stray, \A d \in {"live", "prev", "next"} : disk'[d] = disk[d]
  PROVE  JobInv' /\ LastInv' /\ WholeInv'
<1>1. disk'["live"] = disk["live"] /\ disk'["prev"] = disk["prev"] /\ disk'["next"] = disk["next"]
  OBVIOUS
<1> QED
  BY <1>1 DEF DiskInv, JobInv, LastInv, WholeInv

\* A manifest is taken up, written, and .prev removed: the live tree stays.
LEMMA DiskBegin ==
  ASSUME DiskInv, Deliver \/ Write \/ Unpark
  PROVE  JobInv' /\ LastInv' /\ WholeInv'
<1> USE DEF DiskInv
<1>1. disk \in [Dirs -> Trees] /\ job \in Jobs
  BY DEF Shape, DiskType, BusType
<1>2. applied' = applied /\ lastGood' = lastGood
  BY DEF Deliver, Write, Unpark, historyVars
<1>3. CASE Deliver
  <2>1. disk' = disk /\ stray' = stray /\ apc = "idle"
        /\ \/ apc' = apc /\ job' = job
           \/ apc' = "write" /\ job' = [IdleJob EXCEPT !.entry = Head(updates)]
    BY <1>3 DEF Deliver, historyVars
  <2>2. job' = job \/ job'.over = FALSE
    BY <2>1 DEF IdleJob
  <2> QED
    BY <1>2, <2>1, <2>2 DEF JobInv, LastInv, WholeInv, Swapping
<1>4. CASE Write
  <2>1. /\ apc = "write" /\ apc' \in {"unpark", "fail"}
        /\ disk'["live"] = disk["live"]
        /\ stray' = stray \/ stray' = stray \cup {"remains"}
    BY <1>1, <1>4 DEF Write, Dirs
  <2>2. JobInv'
    <3>1. CASE job' = job /\ stray' = stray /\ apc' = "unpark"
               /\ disk' = [disk EXCEPT !["next"] = TreeOf(job.entry.gen, writes')]
      <4>1. job.entry.gen \in Sources
        BY <2>1 DEF Shape, ShapeInv, Sources
      <4>2. Exact(disk'["next"], job.entry.gen)
        BY <1>1, <3>1, <4>1, ManifestExact DEF Dirs
      <4> QED
        BY <3>1, <4>2 DEF JobInv
    <3>2. CASE job' = [job EXCEPT !.over = TRUE] /\ stray' = stray \cup {"remains"}
      BY <1>1, <2>1, <3>2 DEF JobInv, Jobs
    <3>3. CASE job' = job /\ stray' = stray /\ apc' = "fail"
      BY <3>3 DEF JobInv
    <3> QED
      BY <1>4, <3>1, <3>2, <3>3 DEF Write
  <2>3. LastInv' /\ WholeInv'
    BY <1>2, <2>1 DEF LastInv, WholeInv, Swapping
  <2> QED
    BY <2>2, <2>3
<1>5. CASE Unpark
  <2>1. /\ apc = "unpark" /\ apc' = "park" /\ job' = job /\ stray' = stray
        /\ disk'["live"] = disk["live"] /\ disk'["next"] = disk["next"]
    BY <1>1, <1>5 DEF Unpark, Dirs, historyVars
  <2> QED
    BY <1>2, <2>1 DEF JobInv, LastInv, WholeInv, Swapping
<1> QED
  BY <1>3, <1>4, <1>5

\* The live tree is parked, the new one promoted, or the parked one comes back.
LEMMA DiskSwap ==
  ASSUME DiskInv, Park \/ Promote
  PROVE  JobInv' /\ LastInv' /\ WholeInv'
<1> USE DEF DiskInv
<1>1. disk \in [Dirs -> Trees] /\ job \in Jobs /\ job.entry.gen \in Gens
  BY DEF Shape, DiskType, BusType, ShapeInv, Park, Promote
<1>2. applied' = applied /\ lastGood' = lastGood
  BY DEF Park, Promote, historyVars
<1>3. CASE Park
  <2>1. apc = "park" /\ stray' = stray
    BY <1>3 DEF Park, historyVars
  <2>2. CASE apc' = "fail"
    <3>1. job' = job /\ disk'["live"] = disk["live"]
      BY <1>1, <1>3, <2>2 DEF Park, Dirs
    <3> QED
      BY <1>2, <2>1, <2>2, <3>1 DEF JobInv, LastInv, WholeInv, Swapping
  <2>3. CASE apc' # "fail"
    <3>1. /\ apc' = "promote" /\ job' = [job EXCEPT !.lived = disk["live"] # NoDir]
          /\ disk'["next"] = disk["next"]
          /\ disk["live"] # NoDir => disk'["prev"] = disk["live"]
          /\ disk'["live"] = NoDir
      BY <1>1, <1>3, <2>3 DEF Park, Dirs
    <3>2. job'.over = job.over /\ job'.entry = job.entry /\ job'.lived = (disk["live"] # NoDir)
      BY <1>1, <3>1 DEF Jobs
    <3> QED
      BY <1>2, <2>1, <3>1, <3>2, NoDirInexact DEF JobInv, LastInv, WholeInv, Swapping
  <2> QED
    BY <2>2, <2>3
<1>4. CASE Promote
  <2>1. apc = "promote" /\ job' = job
    BY <1>4 DEF Promote
  <2>2. CASE apc' = "expose"
    <3>1. stray' = stray /\ disk'["live"] = disk["next"] /\ disk'["prev"] = disk["prev"]
      BY <1>1, <1>4, <2>2 DEF Promote, Dirs
    <3> QED
      BY <1>1, <1>2, <2>1, <2>2, <3>1 DEF JobInv, LastInv, WholeInv, Swapping
  <2>3. CASE /\ apc' = "fail" /\ stray' = stray
             /\ disk' = IF job.lived
                 THEN [disk EXCEPT !["live"] = disk["prev"], !["prev"] = NoDir, !["next"] = NoDir]
                 ELSE [disk EXCEPT !["next"] = NoDir]
    <3>1. IF job.lived THEN disk'["live"] = disk["prev"] ELSE disk'["live"] = disk["live"]
      BY <1>1, <2>3 DEF Dirs
    <3> QED
      BY <1>2, <2>1, <2>3, <3>1 DEF JobInv, LastInv, WholeInv, Swapping
  <2>4. CASE /\ apc' = "fail" /\ stray' = stray \cup {"parked"}
             /\ disk' = [disk EXCEPT !["next"] = NoDir]
    <3>1. disk'["live"] = disk["live"]
      BY <1>1, <2>4 DEF Dirs
    <3> QED
      BY <1>2, <2>1, <2>4, <3>1 DEF JobInv, LastInv, WholeInv, Swapping
  <2> QED
    BY <1>4, <2>2, <2>3, <2>4 DEF Promote
<1> QED
  BY <1>3, <1>4

\* The new tree is tried, and put in force or rejected; no tree moves.
LEMMA DiskTry ==
  ASSUME DiskInv, Expose \/ ReloadFrom
  PROVE  JobInv' /\ LastInv' /\ WholeInv'
<1> USE DEF DiskInv
<1>1. disk' = disk /\ applied' = applied /\ stray' = stray /\ job \in Jobs
  BY DEF Expose, ReloadFrom, historyVars, Shape, BusType
<1>2. job'.entry = job.entry /\ job'.over = job.over /\ job'.lived = job.lived
  BY <1>1 DEF Expose, ReloadFrom, Jobs
<1>3. CASE Expose
  <2>1. lastGood' = lastGood /\ \/ apc = "expose" /\ apc' = "reload"
                                \/ apc = "reexpose" /\ apc' = "rereload"
    BY <1>3 DEF Expose, historyVars
  <2> QED
    BY <1>1, <1>2, <2>1 DEF JobInv, LastInv, WholeInv, Swapping
<1>4. CASE ReloadFrom
  <2>1. \/ apc = "reload" /\ apc' = "clean" /\ lastGood' = job.entry.gen
        \/ apc = "rereload" /\ apc' = "fail" /\ lastGood' = lastGood
        \/ apc = "reload" /\ apc' = "undo" /\ lastGood' = lastGood
    BY <1>4 DEF ReloadFrom
  <2> QED
    BY <1>1, <1>2, <2>1 DEF JobInv, LastInv, WholeInv, Swapping
<1> QED
  BY <1>3, <1>4

\* The rejected tree is removed and the parked one comes back.
LEMMA DiskUndo ==
  ASSUME DiskInv, (\E p \in Profiles : UndoFile(p)) \/ UndoDir \/ Restore
  PROVE  JobInv' /\ LastInv' /\ WholeInv'
<1> USE DEF DiskInv
<1>1. disk \in [Dirs -> Trees] /\ stray \subseteq {"parked", "remains"}
  BY DEF Shape, DiskType, HistoryType
<1>2. applied' = applied /\ lastGood' = lastGood /\ job' = job
  BY DEF UndoFile, UndoDir, Restore, historyVars, applyVars
<1>3. CASE \E p \in Profiles : UndoFile(p)
  <2>1. apc = "undo" /\ apc' = "undo" /\ stray' = stray /\ disk'["prev"] = disk["prev"]
    BY <1>1, <1>3 DEF UndoFile, applyVars, historyVars, Dirs
  <2> QED
    BY <1>2, <2>1 DEF JobInv, LastInv, WholeInv, Swapping
<1>4. CASE UndoDir
  <2>1. /\ apc = "undo" /\ apc' = IF job.lived THEN "restore" ELSE "fail"
        /\ disk'["prev"] = disk["prev"]
        /\ \/ stray' = stray /\ disk'["live"] = NoDir
           \/ stray' = stray \cup {"remains"}
    BY <1>1, <1>4 DEF UndoDir, Dirs
  <2> QED
    BY <1>2, <2>1 DEF JobInv, LastInv, WholeInv, Swapping
<1>5. CASE Restore
  <2>1. /\ apc = "restore"
        /\ \/ apc' = "reexpose" /\ stray' = stray /\ disk'["live"] = disk["prev"]
           \/ apc' = "fail" /\ stray' = stray \cup {"parked"} /\ disk'["live"] = disk["live"]
    BY <1>1, <1>5 DEF Restore, Dirs
  <2>2. apc = "restore" => job.lived
    BY DEF JobInv
  <2> QED
    BY <1>2, <2>1, <2>2 DEF JobInv, LastInv, WholeInv, Swapping
<1> QED
  BY <1>3, <1>4, <1>5

\* Apply returns: a success clears what an earlier failure left behind.
LEMMA DiskEnd ==
  ASSUME DiskInv, Clean \/ Fail
  PROVE  JobInv' /\ LastInv' /\ WholeInv'
<1> USE DEF DiskInv
<1>1. /\ disk \in [Dirs -> Trees]
      /\ applied \in [entry : Entries, apply : {"", "ok", "apply_failed"}]
  BY DEF Shape, DiskType, BusType
<1>2. /\ apc' = "idle" /\ job'.over = FALSE /\ lastGood' = lastGood
      /\ disk'["live"] = disk["live"]
  <2>1. apc' = "idle" /\ job' = IdleJob /\ lastGood' = lastGood
    BY DEF Clean, Fail, historyVars
  <2>2. disk' = disk \/ disk' = [disk EXCEPT !["prev"] = NoDir]
    BY DEF Clean, Fail
  <2> QED
    BY <1>1, <2>1, <2>2 DEF IdleJob, Dirs
<1>3. CASE Clean
  <2>1. /\ apc = "clean" /\ applied'.entry = job.entry
        /\ stray' = IF job.over THEN {"remains"} ELSE {}
    BY <1>3 DEF Clean
  <2>2. job.entry.gen \in Gens
    BY <2>1 DEF Shape, ShapeInv
  <2> QED
    BY <1>2, <2>1, <2>2 DEF JobInv, LastInv, WholeInv, Swapping
<1>4. CASE Fail
  <2>1. apc = "fail" /\ applied'.entry = applied.entry /\ stray' = stray
    BY <1>1, <1>4 DEF Fail, historyVars
  <2> QED
    BY <1>2, <2>1 DEF JobInv, LastInv, WholeInv, Swapping
<1> QED
  BY <1>3, <1>4

\* A crash leaves the disk as it is, and a start only reads it.
LEMMA DiskRestart ==
  ASSUME DiskInv, Crash \/ Start
  PROVE  JobInv' /\ LastInv' /\ WholeInv'
<1> USE DEF DiskInv
<1>1. disk' = disk /\ lastGood' = lastGood
  BY DEF Crash, Start, historyVars
<1>2. CASE Crash
  <2>1. /\ apc' = "down" /\ job'.over = FALSE /\ applied'.entry = NoEntry
        /\ stray' = stray \cup (IF apc \in Swapping THEN {"parked"} ELSE {})
                         \cup (IF apc = "undo" THEN {"remains"} ELSE {})
    BY <1>2 DEF Crash, IdleJob
  <2>2. apc' \notin Swapping
    BY <2>1 DEF Swapping
  <2>3. JobInv' /\ WholeInv'
    BY <1>1, <2>1, <2>2 DEF JobInv, WholeInv
  <2>4. stray' = {} => stray = {} /\ apc \notin Swapping
    BY <2>1
  <2>5. LastInv'
    BY <1>1, <2>1, <2>2, <2>4 DEF LastInv
  <2> QED
    BY <2>3, <2>5
<1>3. CASE Start
  <2>1. apc = "down" /\ apc' = "idle" /\ job' = job /\ applied' = applied /\ stray' = stray
    BY <1>3 DEF Start, Up, historyVars
  <2> QED
    BY <1>1, <2>1 DEF JobInv, LastInv, WholeInv, Swapping
<1> QED
  BY <1>2, <1>3

\* Every step keeps what is on disk.
LEMMA DiskStep == DiskInv /\ [Next]_vars => DiskInv'
<1> SUFFICES ASSUME DiskInv, [Next]_vars PROVE DiskInv'
  OBVIOUS
<1>1. Shape /\ Shape'
  BY ShapeStep DEF DiskInv
<1>2. SUFFICES JobInv' /\ LastInv' /\ WholeInv'
  BY <1>1 DEF DiskInv
<1>3. CASE \/ \E g \in Gens \cup Ignored : Put(g)
           \/ Reput \/ (\E p \in Profiles, b \in Bases : Edit(p, b)) \/ ReloadStep \/ UNCHANGED vars
  <2>1. /\ apc' = apc /\ job' = job /\ applied' = applied /\ lastGood' = lastGood
        /\ stray' = stray
    BY <1>3 DEF Put, Reput, Edit, ReloadStep, Check, List, Read, Finish, Stamp, Store,
       ReloadFrame, vars, applyVars, historyVars
  <2>2. disk \in [Dirs -> Trees]
    BY <1>1 DEF Shape, DiskType
  <2>3. \A d \in {"live", "prev", "next"} : disk'[d] = disk[d]
    BY <1>3, <2>2 DEF Put, Reput, Edit, ReloadStep, Check, List, Read, Finish, Stamp, Store,
       ReloadFrame, vars, Dirs
  <2> QED
    BY <2>1, <2>3, DiskFrame
<1>4. CASE ApplyStep
  BY <1>4, DiskBegin, DiskSwap, DiskTry, DiskUndo, DiskEnd DEF ApplyStep
<1>5. CASE Crash \/ Start
  BY <1>5, DiskRestart
<1> QED
  BY <1>3, <1>4, <1>5 DEF Next

\* It holds of every state.
LEMMA DiskInvariant == Spec => []DiskInv
  BY InitDisk, DiskStep, PTL DEF Spec

\* Whatever calls fail and whenever the process dies, the last generation that was put
\* in force stays on disk, live or parked, until the next one is in force, unless a
\* fault or a crash has left something behind (Apply in desired.go), and whatever a hot
\* reload does meanwhile.
THEOREM LastGoodStays == Spec => []LastGoodKept
<1>1. DiskInv => LastGoodKept
  BY DEF DiskInv, LastInv, LastGoodKept, Exact, WholeOf
<1> QED
  BY <1>1, DiskInvariant, PTL

-----------------------------------------------------------------------------
(* What is in force without hot reload.                                    *)

\* A tree that is exactly a generation is whole with what the image lends it.
LEMMA SnapshotWhole ==
  ASSUME Shape, NEW g, Exact(disk["live"], g)
  PROVE  WholeOf(Snapshot("live").tree, g)
<1>1. disk["live"] \in Trees /\ disk["live"] # NoDir
  BY DEF Shape, DiskType, Dirs, Exact
<1>2. IsTree(disk["live"])
  BY <1>1, TreeOrNothing
<1>3. /\ IsTree(Complete(disk["live"], "live"))
      /\ \A p \in Profiles \ {Probe} : Complete(disk["live"], "live")[p] = disk["live"][p]
  BY <1>2, CompleteTree
<1>4. Complete(disk["live"], "live") # NoDir
  BY <1>3, TreeOrNothing
<1> QED
  BY <1>3, <1>4 DEF Snapshot, WholeOf, Exact

\* Profiles that agree in their limits agree two by two.
LEMMA LimitsAgree ==
  ASSUME NEW t, commonLimits(t), NEW p \in Profiles, NEW q \in Profiles,
         t[p] # Absent, t[q] # Absent
  PROVE  Limits[t[p].gen] = Limits[t[q].gen]
<1> DEFINE D == {r \in Profiles : t[r] # Absent}
           L == {Limits[t[r].gen] : r \in D}
           f == [r \in D |-> Limits[t[r].gen]]
           a == Limits[t[p].gen]
           b == Limits[t[q].gen]
<1>1. Cardinality(L) <= 1
  BY DEF commonLimits
<1>2. IsFiniteSet(D)
  BY GenerationsAssumption, FS_Subset
<1>3. f \in Surjection(D, L)
  BY DEF Surjection
<1>4. IsFiniteSet(L)
  BY <1>2, <1>3, FS_Surjection
<1>5. a \in L /\ b \in L
  OBVIOUS
<1> HIDE DEF D, L, f, a, b
<1>6. SUFFICES ASSUME a # b PROVE FALSE
  BY DEF a, b
<1>7. IsFiniteSet({a}) /\ Cardinality({a}) = 1
  BY FS_Singleton
<1>8. Cardinality({a} \cup {b}) = 2
  BY <1>6, <1>7, FS_AddElement
<1>9. {a} \cup {b} \in SUBSET L
  BY <1>5
<1>10. Cardinality({a} \cup {b}) <= Cardinality(L) /\ Cardinality(L) \in Nat
  BY <1>4, <1>9, FS_Subset, FS_CardinalityType
<1> QED
  BY <1>1, <1>8, <1>10

\* Without hot reload only Apply and a start change what is in force: the generation the
\* heartbeat reports, unless remains have come in.
HeartbeatInv ==
  /\ rpc = "idle"
  /\ apc = "down" => applied.entry = NoEntry
  /\ apc = "clean" /\ ~job.over => WholeOf(cur.tree, job.entry.gen)
  /\ "remains" \notin stray /\ apc # "clean" /\ applied.entry # NoEntry =>
       WholeOf(cur.tree, lastGood)

\* Every step keeps the heartbeat true.
LEMMA HeartbeatStep ==
  ASSUME ~HotReload, DiskInv, HeartbeatInv, [Next]_vars
  PROVE  HeartbeatInv'
<1> USE DEF DiskInv
<1>0. disk \in [Dirs -> Trees] /\ job \in Jobs
      /\ applied \in [entry : Entries, apply : {"", "ok", "apply_failed"}]
  BY DEF Shape, DiskType, BusType
<1>1. CASE \/ \E g \in Gens \cup Ignored : Put(g)
           \/ Reput \/ (\E p \in Profiles, b \in Bases : Edit(p, b)) \/ UNCHANGED vars
  <2>1. /\ rpc' = rpc /\ apc' = apc /\ applied' = applied /\ job' = job /\ cur' = cur
        /\ stray' = stray /\ lastGood' = lastGood
    BY <1>1 DEF Put, Reput, Edit, vars, storeVars, applyVars, scanVars, historyVars
  <2> QED
    BY <2>1 DEF HeartbeatInv
<1>2. CASE ReloadStep
  BY <1>2 DEF HeartbeatInv, ReloadStep, Check, List, Read, Finish, Stamp, Store
<1>3. CASE \/ Deliver \/ Write \/ Unpark \/ Park \/ Promote \/ Expose
           \/ (\E p \in Profiles : UndoFile(p)) \/ UndoDir \/ Restore
  <2>1. /\ rpc' = rpc /\ cur' = cur /\ applied' = applied /\ lastGood' = lastGood
        /\ apc \notin {"clean", "down"} /\ apc' \notin {"clean", "down"}
        /\ stray \subseteq stray'
    BY <1>3 DEF Deliver, Write, Unpark, Park, Promote, Expose, UndoFile, UndoDir, Restore,
       ApplyFrame, storeVars, applyVars, scanVars, historyVars
  <2> QED
    BY <2>1 DEF HeartbeatInv
<1>4. CASE ReloadFrom
  <2>1. rpc' = rpc /\ job' = job /\ applied' = applied /\ stray' = stray
    BY <1>4 DEF ReloadFrom, ApplyFrame, scanVars
  <2>2. CASE Usable("live")
    <3>1. cur' = Snapshot("live") /\ disk["live"] # NoDir
          /\ \/ apc = "reload" /\ apc' = "clean"
             \/ apc = "rereload" /\ apc' = "fail" /\ lastGood' = lastGood
      BY <1>4, <2>2 DEF ReloadFrom, Usable
    <3>2. CASE apc = "reload" /\ apc' = "clean"
      <4>1. ~job.over => WholeOf(cur'.tree, job.entry.gen)
        BY <3>1, <3>2, SnapshotWhole DEF JobInv
      <4> QED
        BY <2>1, <3>2, <4>1 DEF HeartbeatInv
    <3>3. CASE apc = "rereload" /\ apc' = "fail" /\ lastGood' = lastGood
      <4>1. "remains" \notin stray /\ applied.entry # NoEntry => Exact(disk["live"], lastGood)
        BY <3>1, <3>3 DEF WholeInv, Swapping
      <4>2. "remains" \notin stray /\ applied.entry # NoEntry => WholeOf(cur'.tree, lastGood)
        BY <3>1, <4>1, SnapshotWhole
      <4> QED
        BY <2>1, <3>3, <4>2 DEF HeartbeatInv
    <3> QED
      BY <3>1, <3>2, <3>3
  <2>3. CASE ~Usable("live")
    <3>1. cur' = cur /\ lastGood' = lastGood /\ apc \in {"reload", "rereload"}
          /\ apc' \in {"undo", "fail"}
      BY <1>4, <2>3 DEF ReloadFrom
    <3> QED
      BY <2>1, <3>1 DEF HeartbeatInv
  <2> QED
    BY <2>2, <2>3
<1>5. CASE Clean
  <2>1. /\ rpc' = rpc /\ cur' = cur /\ apc = "clean" /\ apc' = "idle" /\ lastGood' = lastGood
        /\ stray' = IF job.over THEN {"remains"} ELSE {}
    BY <1>5 DEF Clean, ApplyFrame, storeVars, scanVars
  <2> QED
    BY <2>1 DEF HeartbeatInv, LastInv
<1>6. CASE Fail
  <2>1. /\ rpc' = rpc /\ cur' = cur /\ apc = "fail" /\ apc' = "idle" /\ lastGood' = lastGood
        /\ stray' = stray /\ applied' = [applied EXCEPT !.apply = "apply_failed"]
    BY <1>6 DEF Fail, ApplyFrame, storeVars, scanVars, historyVars
  <2>2. applied'.entry = applied.entry
    BY <1>0, <2>1
  <2> QED
    BY <2>1, <2>2 DEF HeartbeatInv
<1>7. CASE Crash
  <2>1. rpc' = "idle" /\ apc' = "down" /\ applied'.entry = NoEntry
    BY <1>7 DEF Crash
  <2> QED
    BY <2>1 DEF HeartbeatInv
<1>8. CASE Start
  <2>1. rpc' = rpc /\ apc = "down" /\ apc' = "idle" /\ applied' = applied
    BY <1>8 DEF Start, Up, scanVars
  <2> QED
    BY <2>1 DEF HeartbeatInv
<1> QED
  BY <1>1, <1>2, <1>3, <1>4, <1>5, <1>6, <1>7, <1>8 DEF Next, ApplyStep

\* In a process without hot reload the heartbeat tells the truth: the generation it
\* reports is the one the handlers use, and the one on disk for the next start, until a
\* removal cut short or a failed rename has broken the tie (Apply, Applied).
THEOREM HeartbeatTellsTheTruth ==
  ASSUME ~HotReload
  PROVE  Spec => []HeartbeatIsTrue
<1>1. Init => HeartbeatInv
  <2> SUFFICES ASSUME Init PROVE HeartbeatInv
    OBVIOUS
  <2>1. rpc = "idle" /\ apc = "idle" /\ applied.entry = NoEntry
    BY DEF Init
  <2> QED
    BY <2>1 DEF HeartbeatInv
<1>2. DiskInv /\ HeartbeatInv /\ [Next]_vars => HeartbeatInv'
  BY HeartbeatStep
<1>3. DiskInv /\ HeartbeatInv => HeartbeatIsTrue
  <2> SUFFICES ASSUME DiskInv, HeartbeatInv, apc = "idle", applied.entry # NoEntry,
                      "remains" \notin stray
               PROVE  /\ WholeOf(cur.tree, applied.entry.gen)
                      /\ stray = {} => WholeOf(disk["live"], applied.entry.gen)
    BY DEF HeartbeatIsTrue
  <2>1. lastGood = applied.entry.gen
    BY DEF DiskInv, LastInv
  <2>2. lastGood # "none"
    <3>1. applied.entry \in Entries
      BY DEF DiskInv, Shape, BusType
    <3>2. applied.entry \in [gen : Gens \cup Ignored, rev : 1..MaxPuts]
      BY <3>1 DEF Entries
    <3> QED
      BY <2>1, <3>2, GenerationsAssumption
  <2>3. stray = {} => Exact(disk["live"], lastGood)
    BY <2>2 DEF DiskInv, LastInv, Swapping
  <2> QED
    BY <2>1, <2>3 DEF HeartbeatInv, Exact, WholeOf
<1> QED
  BY <1>1, <1>2, <1>3, DiskInvariant, PTL DEF Spec

\* When the bootstrap profiles are those of the image, a live tree that can be used is
\* that of a good generation.
LEMMA UsableGood ==
  ASSUME Bases = {Base}, Shape, Usable("live"), NEW g \in Gens, Exact(disk["live"], g)
  PROVE  g \in Good
<1> DEFINE t == disk["live"]
           c == Complete(t, "live")
<1>1. IsTree(t)
  BY UsableTree
<1>2. /\ g # "absent" /\ Default \in Names[g] /\ Default # Probe /\ Default \in Profiles
      /\ Probe \in Profiles /\ Names[g] \subseteq Profiles /\ \A p \in Profiles : <<Base, p>> \notin Bad
  BY GenerationsAssumption DEF Sources
<1>3. \A p \in Names[g] : t[p].gen = g /\ t[p] # Absent
  BY <1>2 DEF Exact, Absent
<1>4. \A p \in Names[g] : <<g, p>> \notin Bad
  BY <1>2, <1>3 DEF Usable, Broken
<1>5. ASSUME Probe \notin Names[g] PROVE Limits[g] = Limits[Base]
  <2>1. t[Probe] = Absent
    BY <1>2, <1>5 DEF Exact
  <2>2. disk["base"][Probe].gen = Base /\ disk["base"][Probe] # Absent
    BY <1>2, BaseHasAll DEF Shape, ShapeInv
  <2>3. ~Broken(disk["base"][Probe], Probe)
    BY <1>2, <2>2 DEF Broken
  <2>4. c = [t EXCEPT ![Probe] = disk["base"][Probe]]
    BY <2>1, <2>3 DEF Complete
  <2>5. c[Probe] = disk["base"][Probe] /\ c[Default] = t[Default]
    BY <1>1, <1>2, <2>4 DEF IsTree
  <2>6. commonLimits(c)
    BY DEF Usable
  <2> HIDE DEF t, c
  <2>7. c[Default] # Absent /\ c[Probe] # Absent /\ c[Default].gen = g /\ c[Probe].gen = Base
    BY <1>2, <1>3, <2>2, <2>5
  <2>8. Limits[c[Default].gen] = Limits[c[Probe].gen]
    BY <1>2, <2>6, <2>7, LimitsAgree
  <2> QED
    BY <2>7, <2>8
<1> QED
  BY <1>4, <1>5 DEF Good

\* What is in force is a good generation or the image's.
WholeServed == \E g \in Good \cup {Base} : WholeOf(cur.tree, g)

\* The inductive invariant behind ServedIsWhole, where nothing reads the tree
\* but the rollout itself.
GoodInv ==
  /\ rpc = "idle"
  /\ apc = "clean" /\ ~job.over => WholeServed
  /\ "remains" \notin stray /\ Up => WholeServed

\* The bootstrap tree, when it is the image's, is whole.
LEMMA BaseWhole ==
  ASSUME Bases = {Base}, Shape
  PROVE  WholeOf(Snapshot("base").tree, Base)
<1>1. Snapshot("base").tree = disk["base"]
  BY DEF Snapshot, Complete
<1>2. IsTree(disk["base"]) /\ \A p \in Profiles : disk["base"][p].gen = Base
  BY DEF Shape, ShapeInv
<1>3. disk["base"] # NoDir
  BY <1>2, TreeOrNothing
<1>4. Names[Base] = Profiles
  BY GenerationsAssumption
<1> QED
  BY <1>1, <1>2, <1>3, <1>4 DEF WholeOf

\* Every step keeps what is served whole.
LEMMA GoodStep ==
  ASSUME ~HotReload, Bases = {Base}, DiskInv, GoodInv, [Next]_vars
  PROVE  GoodInv'
<1> USE DEF DiskInv
<1>1. CASE \/ \E g \in Gens \cup Ignored : Put(g)
           \/ Reput \/ (\E p \in Profiles, b \in Bases : Edit(p, b)) \/ UNCHANGED vars
  <2>1. rpc' = rpc /\ apc' = apc /\ job' = job /\ cur' = cur /\ stray' = stray
    BY <1>1 DEF Put, Reput, Edit, vars, storeVars, applyVars, scanVars, historyVars
  <2> QED
    BY <2>1 DEF GoodInv, WholeServed, Up
<1>2. CASE ReloadStep
  BY <1>2 DEF GoodInv, ReloadStep, Check, List, Read, Finish, Stamp, Store
<1>3. CASE \/ Deliver \/ Write \/ Unpark \/ Park \/ Promote \/ Expose
           \/ (\E p \in Profiles : UndoFile(p)) \/ UndoDir \/ Restore \/ Fail
  <2>1. /\ rpc' = rpc /\ cur' = cur /\ apc \notin {"clean", "down"}
        /\ apc' \notin {"clean", "down"} /\ stray \subseteq stray'
    BY <1>3 DEF Deliver, Write, Unpark, Park, Promote, Expose, UndoFile, UndoDir, Restore, Fail,
       ApplyFrame, storeVars, applyVars, scanVars, historyVars
  <2> QED
    BY <2>1 DEF GoodInv, WholeServed, Up
<1>4. CASE ReloadFrom
  <2>1. rpc' = rpc /\ job' = job /\ stray' = stray /\ apc \in {"reload", "rereload"}
    BY <1>4 DEF ReloadFrom, ApplyFrame, scanVars
  <2>2. CASE Usable("live")
    <3>1. cur' = Snapshot("live") /\ disk["live"] # NoDir
          /\ (apc' = "clean" => apc = "reload")
      BY <1>4, <2>2 DEF ReloadFrom, Usable
    <3>2. ASSUME NEW g \in Gens, Exact(disk["live"], g) PROVE WholeServed'
      BY <2>2, <3>1, <3>2, SnapshotWhole, UsableGood DEF WholeServed
    <3>3. job.entry.gen \in Gens
      BY <2>1 DEF Shape, ShapeInv
    <3>4. apc' = "clean" /\ ~job.over => WholeServed'
      BY <3>1, <3>2, <3>3 DEF JobInv
    <3>5. "remains" \notin stray => WholeServed'
      BY <2>1, <3>1, <3>2 DEF WholeInv
    <3> QED
      BY <2>1, <3>4, <3>5 DEF GoodInv
  <2>3. CASE ~Usable("live")
    <3>1. cur' = cur /\ apc' \in {"undo", "fail"}
      BY <1>4, <2>3 DEF ReloadFrom
    <3> QED
      BY <2>1, <3>1 DEF GoodInv, WholeServed, Up
  <2> QED
    BY <2>2, <2>3
<1>5. CASE Clean
  <2>1. /\ rpc' = rpc /\ cur' = cur /\ apc = "clean" /\ apc' = "idle"
        /\ stray' = IF job.over THEN {"remains"} ELSE {}
    BY <1>5 DEF Clean, ApplyFrame, storeVars, scanVars
  <2> QED
    BY <2>1 DEF GoodInv, WholeServed
<1>6. CASE Crash
  <2>1. rpc' = "idle" /\ apc' = "down"
    BY <1>6 DEF Crash
  <2> QED
    BY <2>1 DEF GoodInv, Up
<1>7. CASE Start
  <2>1. /\ rpc' = rpc /\ apc = "down" /\ apc' = "idle" /\ stray' = stray
        /\ cur' = Snapshot(Bootstrap)
    BY <1>7 DEF Start, Up, scanVars, historyVars
  <2>2. CASE Usable("live")
    <3>1. Bootstrap = "live" /\ disk["live"] # NoDir
      BY <2>2 DEF Bootstrap, Usable
    <3>2. ASSUME "remains" \notin stray PROVE WholeServed'
      <4>1. PICK g \in Gens : Exact(disk["live"], g)
        BY <2>1, <3>1, <3>2 DEF WholeInv
      <4> QED
        BY <2>1, <2>2, <3>1, <4>1, SnapshotWhole, UsableGood DEF WholeServed
    <3> QED
      BY <2>1, <3>2 DEF GoodInv
  <2>3. CASE ~Usable("live")
    <3>1. Bootstrap = "base"
      BY <2>3 DEF Bootstrap
    <3>2. WholeServed'
      BY <2>1, <3>1, BaseWhole DEF WholeServed
    <3> QED
      BY <2>1, <3>2 DEF GoodInv
  <2> QED
    BY <2>2, <2>3
<1> QED
  BY <1>1, <1>2, <1>3, <1>4, <1>5, <1>6, <1>7 DEF Next, ApplyStep

\* In a process without hot reload, on the image's own bootstrap profiles, what is
\* served is a whole generation that loads, or the bootstrap profiles, whatever calls
\* fail and whenever the process dies, unless a removal was cut short (Apply,
\* ReloadFrom, Bootstrap).
THEOREM WhatIsServedIsWhole ==
  ASSUME ~HotReload, Bases = {Base}
  PROVE  Spec => []ServedIsWhole
<1>1. Init => GoodInv
  <2> SUFFICES ASSUME Init PROVE GoodInv
    OBVIOUS
  <2>1. rpc = "idle" /\ cur = Snapshot("base")
    BY DEF Init
  <2>2. Shape
    BY InitShape
  <2>3. WholeServed
    BY <2>1, <2>2, BaseWhole DEF WholeServed
  <2> QED
    BY <2>1, <2>3 DEF GoodInv
<1>2. DiskInv /\ GoodInv /\ [Next]_vars => GoodInv'
  BY GoodStep
<1>3. GoodInv => ServedIsWhole
  BY DEF GoodInv, WholeServed, ServedIsWhole
<1> QED
  BY <1>1, <1>2, <1>3, DiskInvariant, PTL DEF Spec

=============================================================================
