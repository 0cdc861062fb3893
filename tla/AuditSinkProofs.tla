-------------------------- MODULE AuditSinkProofs ---------------------------
(***************************************************************************)
(* The audit sink keeps its invariants for any number of adders and        *)
(* events, any batch size and any bound on what it holds.                  *)
(***************************************************************************)
EXTENDS AuditSink, FiniteSetTheorems, WellFoundedInduction, TLAPS

(* The sums of sizeOf.  A statement about every event is shown by taking   *)
(* the first event it would fail for.                                      *)

\* A set of events that is not empty has a first one.
LEMMA FirstOf ==
  ASSUME NEW T, T \subseteq Nat, T # {}
  PROVE  \E n \in T : \A m \in T : n <= m
<1>1. PICK n \in T : \A m \in T : ~(<<m, n>> \in OpToRel(<, Nat))
  BY NatLessThanWellFounded, WFMin
<1>2. \A m \in T : ~(m < n)
  BY <1>1, Zenon DEF OpToRel
<1> QED
  BY <1>2

\* The sums up to event n, as a finite table.
Table(g, lo, b, n) ==
  g = [e \in 0..n |-> IF e < lo THEN 0 ELSE g[e - 1] + b[e] + 2]

\* There is a table up to every event.
LEMMA TableExists ==
  ASSUME NEW lo \in Nat \ {0}, NEW b, NEW n \in Nat
  PROVE  \E g : Table(g, lo, b, n)
<1> DEFINE T == {k \in Nat : ~\E g : Table(g, lo, b, k)}
<1> SUFFICES ASSUME T # {} PROVE FALSE
  OBVIOUS
<1>1. PICK k \in T : \A m \in T : k <= m
  BY FirstOf
<1>2. CASE k = 0
  <2> DEFINE g == [e \in 0..0 |-> 0]
  <2>1. Table(g, lo, b, 0)
    BY DEF Table
  <2> QED
    BY <1>1, <1>2, <2>1
<1>3. CASE k # 0
  <2>1. k - 1 \in Nat /\ k - 1 \notin T
    BY <1>1, <1>3
  <2>2. PICK g : Table(g, lo, b, k - 1)
    BY <2>1
  <2> DEFINE h == [e \in 0..k |-> IF e = k THEN (IF k < lo THEN 0 ELSE g[k - 1] + b[k] + 2)
                                  ELSE g[e]]
  <2>3. ASSUME NEW e \in 0..k
        PROVE  h[e] = IF e < lo THEN 0 ELSE h[e - 1] + b[e] + 2
    <3>1. CASE e = k
      BY <3>1, <1>3
    <3>2. CASE e # k
      <4>1. e \in 0..(k - 1) /\ h[e] = g[e]
        BY <3>2
      <4>2. g[e] = IF e < lo THEN 0 ELSE g[e - 1] + b[e] + 2
        BY <4>1, <2>2 DEF Table
      <4>3. ~(e < lo) => h[e - 1] = g[e - 1]
        BY <4>1
      <4> QED
        BY <4>1, <4>2, <4>3
    <3> QED
      BY <3>1, <3>2
  <2>4. Table(h, lo, b, k)
    BY <2>3 DEF Table
  <2> QED
    BY <1>1, <2>4
<1> QED
  BY <1>2, <1>3

\* Two tables agree where both are defined.
LEMMA TablesAgree ==
  ASSUME NEW lo \in Nat \ {0}, NEW b, NEW g, NEW h, NEW m \in Nat, NEW n \in Nat,
         Table(g, lo, b, m), Table(h, lo, b, n),
         NEW k \in Nat, k <= m, k <= n
  PROVE  g[k] = h[k]
<1> DEFINE T == {e \in 0..k : g[e] # h[e]}
<1> SUFFICES ASSUME T # {} PROVE FALSE
  OBVIOUS
<1>0. T \subseteq Nat
  OBVIOUS
<1>1. PICK e \in T : \A d \in T : e <= d
  BY <1>0, FirstOf
<1>2. e \in 0..m /\ e \in 0..n
  BY <1>1
<1>3. /\ g[e] = IF e < lo THEN 0 ELSE g[e - 1] + b[e] + 2
      /\ h[e] = IF e < lo THEN 0 ELSE h[e - 1] + b[e] + 2
  BY <1>2 DEF Table
<1>4. CASE ~(e < lo)
  <2>1. e - 1 \in 0..k /\ e - 1 \notin T
    BY <1>1, <1>4
  <2> QED
    BY <1>1, <1>3, <1>4, <2>1
<1> QED
  BY <1>1, <1>3, <1>4

\* The recursion of Sums has a solution: the function the definition names.
LEMMA SumsUnfold ==
  ASSUME NEW lo \in Nat \ {0}, NEW b
  PROVE  Sums(lo, b) = [e \in Nat |-> IF e < lo THEN 0 ELSE Sums(lo, b)[e - 1] + b[e] + 2]
<1> DEFINE G == [n \in Nat |-> CHOOSE g : Table(g, lo, b, n)]
           f == [e \in Nat |-> G[e][e]]
<1>1. \A n \in Nat : Table(G[n], lo, b, n)
  BY TableExists
<1> HIDE DEF G
<1>2. ASSUME NEW e \in Nat
      PROVE  f[e] = IF e < lo THEN 0 ELSE f[e - 1] + b[e] + 2
  <2>0. e \in 0..e
    OBVIOUS
  <2>1. G[e][e] = IF e < lo THEN 0 ELSE G[e][e - 1] + b[e] + 2
    BY <1>1, <2>0 DEF Table
  <2>2. CASE ~(e < lo)
    <3>1. e - 1 \in Nat /\ e - 1 <= e /\ e - 1 <= e - 1
      BY <2>2
    <3>2. Table(G[e], lo, b, e) /\ Table(G[e - 1], lo, b, e - 1)
      BY <1>1, <3>1
    <3>3. G[e][e - 1] = G[e - 1][e - 1]
      BY <3>1, <3>2, TablesAgree
    <3> QED
      BY <2>1, <2>2, <3>1, <3>3
  <2> QED
    BY <2>1, <2>2
<1>3. f = [e \in Nat |-> IF e < lo THEN 0 ELSE f[e - 1] + b[e] + 2]
  BY <1>2
<1> HIDE DEF f
<1>4. \E s : s = [e \in Nat |-> IF e < lo THEN 0 ELSE s[e - 1] + b[e] + 2]
  BY <1>3
<1> QED
  BY <1>4, Zenon DEF Sums

\* sizeOf counts one event after the other: nothing for no event, and with one
\* event more its length and two bytes more.
LEMMA SizeOfNext ==
  ASSUME NEW lo \in Nat \ {0}, NEW hi \in Nat, NEW b
  PROVE  /\ hi < lo => SizeOf(lo, hi, b) = 0
         /\ hi >= lo => SizeOf(lo, hi, b) = SizeOf(lo, hi - 1, b) + b[hi] + 2
<1>1. Sums(lo, b)[hi] = IF hi < lo THEN 0 ELSE Sums(lo, b)[hi - 1] + b[hi] + 2
  BY SumsUnfold
<1> QED
  BY <1>1 DEF SizeOf

\* With nothing pending the size is zero.
LEMMA NothingPending ==
  ASSUME NEW h \in Nat, NEW b
  PROVE  SizeOf(h + 1, h, b) = 0
<1>1. h + 1 \in Nat \ {0} /\ h < h + 1
  OBVIOUS
<1> QED
  BY <1>1, SizeOfNext

\* sizeOf looks at the events lo..hi only.
LEMMA SizeOfAgrees ==
  ASSUME NEW lo \in Nat \ {0}, NEW hi \in Nat, NEW b, NEW c,
         \A e \in lo..hi : b[e] = c[e]
  PROVE  SizeOf(lo, hi, b) = SizeOf(lo, hi, c)
<1> DEFINE T == {e \in 0..hi : SizeOf(lo, e, b) # SizeOf(lo, e, c)}
<1> SUFFICES ASSUME T # {} PROVE FALSE
  OBVIOUS
<1>0. T \subseteq Nat
  OBVIOUS
<1>1. PICK e \in T : \A d \in T : e <= d
  BY <1>0, FirstOf
<1>2. CASE e < lo
  BY <1>1, <1>2, SizeOfNext
<1>3. CASE ~(e < lo)
  <2>1. e - 1 \in 0..hi /\ e - 1 \notin T /\ b[e] = c[e]
    BY <1>1, <1>3
  <2>2. SizeOf(lo, e - 1, b) = SizeOf(lo, e - 1, c)
    BY <2>1
  <2>3. /\ SizeOf(lo, e, b) = SizeOf(lo, e - 1, b) + b[e] + 2
        /\ SizeOf(lo, e, c) = SizeOf(lo, e - 1, c) + c[e] + 2
    BY <1>1, <1>3, SizeOfNext
  <2> QED
    BY <1>1, <2>1, <2>2, <2>3
<1> QED
  BY <1>2, <1>3

\* A size is a natural number.
LEMMA SizeOfNat ==
  ASSUME NEW lo \in Nat \ {0}, NEW hi \in Nat, NEW b,
         \A e \in lo..hi : b[e] \in Nat
  PROVE  SizeOf(lo, hi, b) \in Nat
<1> DEFINE T == {e \in 0..hi : SizeOf(lo, e, b) \notin Nat}
<1> SUFFICES ASSUME T # {} PROVE FALSE
  OBVIOUS
<1>0. T \subseteq Nat
  OBVIOUS
<1>1. PICK e \in T : \A d \in T : e <= d
  BY <1>0, FirstOf
<1>2. CASE e < lo
  BY <1>1, <1>2, SizeOfNext
<1>3. CASE ~(e < lo)
  <2>1. e - 1 \in 0..hi /\ e - 1 \notin T /\ b[e] \in Nat
    BY <1>1, <1>3
  <2>2. SizeOf(lo, e - 1, b) \in Nat
    BY <2>1
  <2>3. SizeOf(lo, e, b) = SizeOf(lo, e - 1, b) + b[e] + 2
    BY <1>1, <1>3, SizeOfNext
  <2> QED
    BY <1>1, <2>1, <2>2, <2>3
<1> QED
  BY <1>2, <1>3

-----------------------------------------------------------------------------
(* The inductive invariant.                                                *)

\* Where the loop is, what it holds and how far Close has come: select holds no
\* batch and has not been stopped, and a loop that has left has taken what there
\* was when Close was called.
Coupled ==
  /\ last => closing # "open"
  /\ loop = "select" => ~last /\ batch = {}
  /\ loop = "exited" => last /\ batch = {} /\ head >= mark
  /\ closing = "returned" => loop = "exited"

\* What has been published or lost of a subject is older than what is left of it
\* in the batch.
Ordered ==
  \A d \in sent \cup failed, e \in batch : subject[d] = subject[e] => d < e

\* The inductive invariant of the sink.
SinkInv ==
  /\ TypeOK /\ BoundedAndExact /\ EventsAccountedFor /\ FullBatchIsSeen
  /\ Coupled /\ Ordered

\* The events an Add drops are the first of s.pending, and no more than it has to.
LEMMA CutBounds ==
  ASSUME TypeOK, added - head <= MaxPending
  PROVE  /\ Cut(added + 1) \in Nat
         /\ head + Cut(added + 1) \in 0..(added + 1)
         /\ head + Cut(added + 1) <= added
         /\ added + 1 - (head + Cut(added + 1)) <= MaxPending
         /\ Cut(added + 1) > 0 \/ head + Cut(added + 1) = head
  BY SinkAssumption DEF TypeOK, Cut

\* What Add does to the numbers of events.
LEMMA AddStep ==
  ASSUME SinkInv, NEW a \in Adders, NEW k \in Kinds, Add(a, k[1], k[2])
  PROVE  /\ added' = added + 1 /\ added' \in 0..MaxEvents
         /\ head' \in head..added /\ head' \in 0..added'
         /\ dropped' = dropped + (head' - head)
         /\ added' - head' <= MaxPending
         /\ subject' \in [1..added' -> Subjects] /\ bytes' \in [1..added' -> Bodies]
         /\ \A e \in 1..added : subject'[e] = subject[e] /\ bytes'[e] = bytes[e]
         /\ bytes'[added'] = k[2] /\ k[2] \in Nat
<1>1. /\ added \in 0..MaxEvents /\ head \in 0..added /\ dropped \in Nat
      /\ subject \in [1..added -> Subjects] /\ bytes \in [1..added -> Bodies]
      /\ added - head <= MaxPending
  BY DEF SinkInv, TypeOK, BoundedAndExact
<1>2. /\ added' = added + 1 /\ added < MaxEvents
      /\ dropped' = dropped + Cut(added + 1) /\ head' = head + Cut(added + 1)
      /\ subject' = [e \in 1..(added + 1) |-> IF e = added + 1 THEN k[1] ELSE subject[e]]
      /\ bytes' = [e \in 1..(added + 1) |-> IF e = added + 1 THEN k[2] ELSE bytes[e]]
  BY DEF Add
<1>3. k[1] \in Subjects /\ k[2] \in Bodies /\ k[2] \in Nat
  BY SinkAssumption DEF Subjects, Bodies
<1>4. /\ Cut(added + 1) \in Nat
      /\ head + Cut(added + 1) <= added
      /\ added + 1 - (head + Cut(added + 1)) <= MaxPending
  BY <1>1, CutBounds DEF SinkInv
<1>5. /\ subject' \in [1..added' -> Subjects] /\ bytes' \in [1..added' -> Bodies]
      /\ \A e \in 1..added : subject'[e] = subject[e] /\ bytes'[e] = bytes[e]
      /\ bytes'[added'] = k[2]
  BY <1>1, <1>2, <1>3
<1>6. /\ added' \in 0..MaxEvents /\ head' \in head..added /\ head' \in 0..added'
      /\ dropped' = dropped + (head' - head) /\ added' - head' <= MaxPending
  <2> DEFINE c == Cut(added + 1)
  <2>1. c \in Nat /\ head + c <= added /\ added + 1 - (head + c) <= MaxPending
    BY <1>4
  <2>2. added' = added + 1 /\ added < MaxEvents /\ dropped' = dropped + c /\ head' = head + c
    BY <1>2
  <2> HIDE DEF c
  <2> QED
    BY <1>1, <2>1, <2>2, SinkAssumption
<1> QED
  BY <1>2, <1>3, <1>5, <1>6

\* Add keeps s.size the size of s.pending, whether it adds to it or recomputes it.
LEMMA AddSize ==
  ASSUME SinkInv, NEW a \in Adders, NEW k \in Kinds, Add(a, k[1], k[2])
  PROVE  size' = SizeOf(head' + 1, added', bytes')
<1>1. /\ added \in Nat /\ head \in Nat /\ head <= added
      /\ size = SizeOf(head + 1, added, bytes)
  BY SinkAssumption DEF SinkInv, TypeOK, BoundedAndExact
<1>2. /\ added' = added + 1 /\ head' \in head..added
      /\ \A e \in 1..added : bytes'[e] = bytes[e]
      /\ bytes'[added'] = k[2]
  BY AddStep
<1>3. CASE Cut(added + 1) > 0
  BY <1>3 DEF Add
<1>4. CASE ~(Cut(added + 1) > 0)
  <2>1. size' = size + k[2] + 2 /\ head' = head + Cut(added + 1)
    BY <1>4 DEF Add
  <2>2. head' = head
    BY <1>4, <2>1, CutBounds DEF SinkInv, BoundedAndExact
  <2>3. SizeOf(head + 1, added, bytes) = SizeOf(head + 1, added, bytes')
    <3>1. head + 1 \in Nat \ {0} /\ \A e \in (head + 1)..added : bytes[e] = bytes'[e]
      BY <1>1, <1>2
    <3> QED
      BY <1>1, <3>1, SizeOfAgrees
  <2>4. SizeOf(head + 1, added + 1, bytes') =
          SizeOf(head + 1, added, bytes') + bytes'[added + 1] + 2
    <3>1. /\ head + 1 \in Nat \ {0} /\ added + 1 \in Nat /\ added + 1 >= head + 1
          /\ (added + 1) - 1 = added
      BY <1>1
    <3> QED
      BY <3>1, SizeOfNext
  <2> QED
    BY <1>1, <1>2, <2>1, <2>2, <2>3, <2>4
<1> QED
  BY <1>3, <1>4

\* The size of s.pending is a natural number.
LEMMA PendingSizeNat ==
  ASSUME NEW h \in Nat, NEW hi \in Nat, NEW b \in [1..hi -> Bodies]
  PROVE  SizeOf(h + 1, hi, b) \in Nat
<1>1. h + 1 \in Nat \ {0} /\ \A e \in (h + 1)..hi : b[e] \in Nat
  BY SinkAssumption DEF Bodies
<1> QED
  BY <1>1, SizeOfNat

\* One turn of flush takes the first events of s.pending, at most maxItems.
LEMMA FlushTakeStep ==
  ASSUME SinkInv, FlushTake
  PROVE  \E n \in 1..MaxItems :
           /\ head' = head + n /\ head + n <= added
           /\ batch = {} /\ batch' = (head + 1)..(head + n)
<1> DEFINE n == IF added - head > MaxItems THEN MaxItems ELSE added - head
<1>1. /\ added \in Nat /\ head \in Nat /\ MaxItems \in Nat \ {0}
      /\ added > head /\ head' = head + n /\ batch = {}
      /\ batch' = (head + 1)..(head + n)
  BY SinkAssumption DEF SinkInv, TypeOK, FlushTake
<1>2. n \in 1..MaxItems /\ head + n <= added
  BY <1>1
<1> QED
  BY <1>1, <1>2

-----------------------------------------------------------------------------
(* The conjuncts of the invariant, one action at a time.                   *)

\* Every step keeps the types.
LEMMA TypeStep == SinkInv /\ [Next]_vars => TypeOK'
<1> SUFFICES ASSUME SinkInv, [Next]_vars
             PROVE  TypeOK'
  OBVIOUS
<1>a. TypeOK /\ SinkInv
  BY DEF SinkInv
<1> USE DEF addVars, sinkVars, loopVars, outVars
<1>1. ASSUME NEW a \in Adders, NEW k \in Kinds, Add(a, k[1], k[2])
      PROVE  TypeOK'
  <2>1. /\ added' = added + 1 /\ added' \in 0..MaxEvents /\ head' \in 0..added'
        /\ subject' \in [1..added' -> Subjects] /\ bytes' \in [1..added' -> Bodies]
        /\ dropped' = dropped + (head' - head) /\ head' \in head..added
    BY <1>1, AddStep
  <2>2. size' \in Nat
    <3>1. size' = SizeOf(head' + 1, added', bytes')
      BY <1>1, AddSize
    <3>2. head' \in Nat /\ added' \in Nat
      BY <2>1, SinkAssumption
    <3> QED
      BY <2>1, <3>1, <3>2, PendingSizeNat
  <2>3. adder' \in [Adders -> {"idle", "kick"}]
    BY <1>a, <1>1 DEF TypeOK, Add
  <2>4. dropped' \in Nat /\ mark' \in 0..added'
    BY <1>a, <1>1, <2>1 DEF TypeOK, Add
  <2> QED
    BY <1>a, <1>1, <2>1, <2>2, <2>3, <2>4 DEF TypeOK, Add
<1>2. ASSUME NEW a \in Adders, Kick(a)
      PROVE  TypeOK'
  BY <1>a, <1>2 DEF TypeOK, Kick
<1>3. CASE SelectStop
  BY <1>a, <1>3 DEF TypeOK, SelectStop
<1>4. CASE SelectWake
  BY <1>a, <1>4 DEF TypeOK, SelectWake
<1>5. CASE SelectTick
  BY <1>a, <1>5 DEF TypeOK, SelectTick
<1>6. CASE FlushTake
  <2>1. PICK n \in 1..MaxItems :
          /\ head' = head + n /\ head + n <= added
          /\ batch' = (head + 1)..(head + n)
    BY <1>a, <1>6, FlushTakeStep
  <2>2. /\ added \in Nat /\ head \in Nat /\ bytes \in [1..added -> Bodies]
        /\ added <= MaxEvents /\ MaxItems \in Nat
    BY <1>a, SinkAssumption DEF TypeOK
  <2>3. head' \in 0..added /\ batch' \subseteq Events
    BY <2>1, <2>2, SinkAssumption DEF Events
  <2>4. size' \in Nat
    <3>1. size' = SizeOf(head' + 1, added, bytes)
      BY <1>6 DEF FlushTake
    <3>2. head' \in Nat
      BY <2>3, <2>2
    <3> QED
      BY <2>2, <3>1, <3>2, PendingSizeNat
  <2> QED
    BY <1>a, <1>6, <2>3, <2>4 DEF TypeOK, FlushTake
<1>7. CASE SendOK
  BY <1>a, <1>7 DEF TypeOK, SendOK, Group
<1>8. CASE SendError
  BY <1>a, <1>8 DEF TypeOK, SendError, Group
<1>9. CASE FlushEnd
  BY <1>a, <1>9 DEF TypeOK, FlushEnd
<1>10. CASE CloseStop
  BY <1>a, <1>10 DEF TypeOK, CloseStop
<1>11. CASE CloseDone
  BY <1>a, <1>11 DEF TypeOK, CloseDone
<1>12. CASE UNCHANGED vars
  BY <1>a, <1>12 DEF TypeOK, vars
<1> QED
  BY <1>1, <1>2, <1>3, <1>4, <1>5, <1>6, <1>7, <1>8, <1>9, <1>10, <1>11, <1>12
  DEF Next, LoopStep, Quiet

\* The steps that touch neither s.pending nor what the loop has of it.
Elsewhere == UNCHANGED <<addVars, sinkVars, batch, outVars>>

\* Only Add, flush and publish touch them.
LEMMA StepKinds ==
  ASSUME [Next]_vars
  PROVE  \/ \E a \in Adders, k \in Kinds : Add(a, k[1], k[2])
         \/ FlushTake \/ SendOK \/ SendError
         \/ Elsewhere
<1> USE DEF Elsewhere, addVars, sinkVars, loopVars, outVars
<1>1. ASSUME NEW a \in Adders, Kick(a)
      PROVE  Elsewhere
  BY <1>1 DEF Kick
<1>2. SelectStop \/ SelectWake \/ SelectTick \/ FlushEnd => Elsewhere
  BY DEF SelectStop, SelectWake, SelectTick, FlushEnd
<1>3. CloseStop \/ CloseDone \/ UNCHANGED vars => Elsewhere
  BY DEF CloseStop, CloseDone, vars
<1> QED
  BY <1>1, <1>2, <1>3 DEF Next, LoopStep, Quiet

\* s.pending and the batch keep their bounds, and s.size is exact.
LEMMA BoundedStep == SinkInv /\ [Next]_vars => BoundedAndExact'
<1> SUFFICES ASSUME SinkInv, [Next]_vars
             PROVE  BoundedAndExact'
  OBVIOUS
<1>a. /\ added \in Nat /\ head \in Nat /\ head <= added /\ MaxItems \in Nat
      /\ added - head <= MaxPending /\ MaxPending \in Nat
      /\ batch \subseteq 1..MaxEvents /\ MaxEvents \in Nat
      /\ Cardinality(batch) <= MaxItems
      /\ size = SizeOf(head + 1, added, bytes)
  BY SinkAssumption DEF SinkInv, TypeOK, BoundedAndExact, Events
<1>b. /\ IsFiniteSet(batch) /\ Cardinality(batch) \in Nat
      /\ \A S \in SUBSET batch : /\ Cardinality(S) <= Cardinality(batch)
                                 /\ Cardinality(S) \in Nat
  <2>1. IsFiniteSet(1..MaxEvents)
    BY <1>a, FS_Interval
  <2>2. IsFiniteSet(batch)
    BY <1>a, <2>1, FS_Subset
  <2> QED
    BY <2>2, FS_Subset, FS_CardinalityType
<1> USE DEF addVars, sinkVars, outVars
<1>1. ASSUME NEW a \in Adders, NEW k \in Kinds, Add(a, k[1], k[2])
      PROVE  BoundedAndExact'
  <2>1. added' - head' <= MaxPending
    BY <1>1, AddStep
  <2>2. batch' = batch
    BY <1>1 DEF Add, loopVars
  <2> QED
    BY <1>a, <1>1, <2>1, <2>2, AddSize DEF BoundedAndExact
<1>2. CASE FlushTake
  <2>1. PICK n \in 1..MaxItems :
          /\ head' = head + n /\ head + n <= added
          /\ batch' = (head + 1)..(head + n)
    BY <1>2, FlushTakeStep
  <2>2. Cardinality(batch') = n
    <3>1. head + 1 \in Int /\ head + n \in Int /\ ~(head + 1 > head + n)
          /\ (head + n) - (head + 1) + 1 = n
      BY <1>a, <2>1
    <3> QED
      BY <2>1, <3>1, FS_Interval
  <2>3. added' = added /\ bytes' = bytes /\ size' = SizeOf(head' + 1, added, bytes)
    BY <1>2 DEF FlushTake
  <2> QED
    BY <1>a, <2>1, <2>2, <2>3 DEF BoundedAndExact
<1>3. CASE SendOK \/ SendError
  <2>1. batch' \in SUBSET batch
        /\ added' = added /\ head' = head /\ bytes' = bytes /\ size' = size
    BY <1>3 DEF SendOK, SendError
  <2>2. Cardinality(batch') <= MaxItems
    BY <1>a, <1>b, <2>1
  <2> QED
    BY <1>a, <2>1, <2>2 DEF BoundedAndExact
<1>4. CASE Elsewhere
  BY <1>a, <1>4 DEF Elsewhere, BoundedAndExact
<1> QED
  BY <1>1, <1>2, <1>3, <1>4, StepKinds

\* An interval of events splits at any point.
LEMMA SplitInterval ==
  ASSUME NEW m \in Nat, NEW n \in Nat, m <= n
  PROVE  /\ 1..n = (1..m) \cup ((m + 1)..n)
         /\ (1..m) \cap ((m + 1)..n) = {}
         /\ IsFiniteSet((m + 1)..n) /\ Cardinality((m + 1)..n) = n - m
<1>1. IsFiniteSet((m + 1)..n) /\ Cardinality((m + 1)..n) = n - m
  <2>1. m + 1 \in Int /\ n \in Int /\ (IF m + 1 > n THEN 0 ELSE n - (m + 1) + 1) = n - m
    OBVIOUS
  <2> QED
    BY <2>1, FS_Interval
<1> QED
  BY <1>1

\* Every event stays in one place, and s.dropped counts what Add dropped.
LEMMA AccountedStep == SinkInv /\ [Next]_vars => EventsAccountedFor'
<1> SUFFICES ASSUME SinkInv, [Next]_vars
             PROVE  EventsAccountedFor'
  OBVIOUS
<1>a. /\ added \in Nat /\ head \in Nat /\ head <= added /\ dropped \in Nat
      /\ batch \cup sent \cup failed \subseteq 1..head
      /\ batch \cap (sent \cup failed) = {} /\ sent \cap failed = {}
      /\ Cardinality(Dropped) = dropped
  BY SinkAssumption DEF SinkInv, TypeOK, EventsAccountedFor
<1>b. IsFiniteSet(Dropped)
  <2>1. IsFiniteSet(1..head) /\ Dropped \in SUBSET (1..head)
    BY <1>a, FS_Interval DEF Dropped
  <2> QED
    BY <2>1, FS_Subset
<1> USE DEF addVars, sinkVars, loopVars, outVars
<1>1. ASSUME NEW a \in Adders, NEW k \in Kinds, Add(a, k[1], k[2])
      PROVE  EventsAccountedFor'
  <2>1. /\ head' \in head..added /\ dropped' = dropped + (head' - head)
        /\ batch' = batch /\ sent' = sent /\ failed' = failed
    BY <1>1, AddStep DEF Add
  <2>2. head' \in Nat /\ head <= head'
    BY <1>a, <2>1
  <2> DEFINE cut == (head + 1)..head'
  <2>3. /\ 1..head' = (1..head) \cup cut /\ (1..head) \cap cut = {}
        /\ IsFiniteSet(cut) /\ Cardinality(cut) = head' - head
    BY <1>a, <2>2, SplitInterval
  <2> HIDE DEF cut
  <2>4. Dropped' = Dropped \cup cut /\ Dropped \cap cut = {}
    BY <1>a, <2>1, <2>3 DEF Dropped
  <2>5. Cardinality(Dropped \cup cut) = dropped + (head' - head) - Cardinality({})
    BY <1>a, <1>b, <2>3, <2>4, FS_Union
  <2>6. Cardinality(Dropped') = dropped'
    BY <1>a, <2>1, <2>2, <2>4, <2>5, FS_EmptySet
  <2>7. /\ (batch \cup sent \cup failed \subseteq 1..head)'
        /\ (batch \cap (sent \cup failed) = {} /\ sent \cap failed = {})'
    BY <1>a, <2>1, <2>3
  <2> QED
    BY <2>6, <2>7 DEF EventsAccountedFor
<1>2. CASE FlushTake
  <2>1. PICK n \in 1..MaxItems :
          /\ head' = head + n /\ head + n <= added
          /\ batch = {} /\ batch' = (head + 1)..(head + n)
    BY <1>2, FlushTakeStep
  <2>2. sent' = sent /\ failed' = failed /\ dropped' = dropped
    BY <1>2 DEF FlushTake
  <2>3. head' \in Nat /\ head <= head' /\ batch' = (head + 1)..head'
    BY <1>a, <2>1, SinkAssumption
  <2>4. 1..head' = (1..head) \cup batch' /\ (1..head) \cap batch' = {}
    BY <1>a, <2>3, SplitInterval
  <2>5. Dropped' = Dropped
    BY <1>a, <2>1, <2>2, <2>4 DEF Dropped
  <2>6. /\ (batch \cup sent \cup failed \subseteq 1..head)'
        /\ (batch \cap (sent \cup failed) = {} /\ sent \cap failed = {})'
    BY <1>a, <2>1, <2>2, <2>4
  <2> QED
    BY <1>a, <2>2, <2>5, <2>6 DEF EventsAccountedFor
<1>3. CASE SendOK
  <2>1. /\ Group \subseteq batch /\ sent' = sent \cup Group /\ batch' = batch \ Group
        /\ failed' = failed /\ head' = head /\ dropped' = dropped
    BY <1>3 DEF SendOK, Group
  <2>2. Dropped' = Dropped
    BY <1>a, <2>1 DEF Dropped
  <2> QED
    BY <1>a, <2>1, <2>2 DEF EventsAccountedFor
<1>4. CASE SendError
  <2>1. /\ Group \subseteq batch /\ failed' = failed \cup Group /\ batch' = batch \ Group
        /\ sent' = sent /\ head' = head /\ dropped' = dropped
    BY <1>4 DEF SendError, Group
  <2>2. Dropped' = Dropped
    BY <1>a, <2>1 DEF Dropped
  <2> QED
    BY <1>a, <2>1, <2>2 DEF EventsAccountedFor
<1>5. CASE Elsewhere
  <2>1. Dropped' = Dropped
    BY <1>5 DEF Dropped, Elsewhere
  <2> QED
    BY <1>a, <1>5, <2>1 DEF Elsewhere, EventsAccountedFor
<1> QED
  BY <1>1, <1>2, <1>3, <1>4, <1>5, StepKinds

\* A full batch stays seen: the adder that fills it kicks, the kick leaves a token,
\* and a flush ends only when nothing is pending.
LEMMA SeenStep == SinkInv /\ [Next]_vars => FullBatchIsSeen'
<1> SUFFICES ASSUME SinkInv, [Next]_vars
             PROVE  FullBatchIsSeen'
  OBVIOUS
<1>a. /\ added \in Nat /\ head \in Nat /\ head <= added
      /\ MaxItems \in Nat \ {0} /\ MaxSize \in Nat \ {0}
      /\ adder \in [Adders -> {"idle", "kick"}]
      /\ size = SizeOf(head + 1, added, bytes)
      /\ FullBatchIsSeen
  BY SinkAssumption DEF SinkInv, TypeOK, BoundedAndExact
<1> USE DEF addVars, sinkVars, loopVars, outVars
<1>1. ASSUME NEW a \in Adders, NEW k \in Kinds, Add(a, k[1], k[2])
      PROVE  FullBatchIsSeen'
  <2>1. added' - head' >= MaxItems \/ size' >= MaxSize => adder'[a] = "kick"
    BY <1>a, <1>1 DEF Add
  <2> QED
    BY <2>1 DEF FullBatchIsSeen
<1>2. ASSUME NEW a \in Adders, Kick(a)
      PROVE  FullBatchIsSeen'
  BY <1>2 DEF FullBatchIsSeen, Kick
<1>3. CASE SelectStop \/ SelectWake \/ SelectTick
  BY <1>3 DEF FullBatchIsSeen, SelectStop, SelectWake, SelectTick
<1>4. CASE FlushTake \/ SendOK \/ SendError
  BY <1>4 DEF FullBatchIsSeen, FlushTake, SendOK, SendError
<1>5. CASE FlushEnd
  <2>1. added' = head' /\ added' = added /\ head' = head /\ size' = size
    BY <1>5 DEF FlushEnd
  <2>2. size = 0
    BY <1>a, <2>1, NothingPending
  <2> QED
    BY <1>a, <2>1, <2>2 DEF FullBatchIsSeen
<1>6. CASE CloseStop \/ CloseDone \/ UNCHANGED vars
  BY <1>a, <1>6 DEF FullBatchIsSeen, CloseStop, CloseDone, vars
<1> QED
  BY <1>1, <1>2, <1>3, <1>4, <1>5, <1>6 DEF Next, LoopStep, Quiet

\* The loop and Close stay in step.
LEMMA CoupledStep == SinkInv /\ [Next]_vars => Coupled'
<1> SUFFICES ASSUME SinkInv, [Next]_vars
             PROVE  Coupled'
  OBVIOUS
<1>a. /\ added \in Nat /\ head \in Nat /\ head <= added /\ mark \in 0..added
      /\ Coupled /\ last \in BOOLEAN
      /\ loop \in {"select", "flush", "exited"}
      /\ closing \in {"open", "stopped", "returned"}
  BY SinkAssumption DEF SinkInv, TypeOK
<1> USE DEF addVars, sinkVars, loopVars, outVars
<1>1. ASSUME NEW a \in Adders, NEW k \in Kinds, Add(a, k[1], k[2])
      PROVE  Coupled'
  <2>1. head' \in head..added
    BY <1>1, AddStep
  <2>2. /\ loop' = loop /\ last' = last /\ batch' = batch /\ closing' = closing
        /\ mark' = mark
    BY <1>1 DEF Add
  <2> QED
    BY <1>a, <2>1, <2>2 DEF Coupled
<1>2. ASSUME NEW a \in Adders, Kick(a)
      PROVE  Coupled'
  BY <1>a, <1>2 DEF Coupled, Kick
<1>3. CASE SelectStop \/ SelectWake \/ SelectTick
  BY <1>a, <1>3 DEF Coupled, SelectStop, SelectWake, SelectTick
<1>4. CASE FlushTake \/ SendOK \/ SendError
  BY <1>a, <1>4 DEF Coupled, FlushTake, SendOK, SendError
<1>5. CASE FlushEnd
  BY <1>a, <1>5 DEF Coupled, FlushEnd
<1>6. CASE CloseStop \/ CloseDone \/ UNCHANGED vars
  BY <1>a, <1>6 DEF Coupled, CloseStop, CloseDone, vars
<1> QED
  BY <1>1, <1>2, <1>3, <1>4, <1>5, <1>6 DEF Next, LoopStep, Quiet

\* A message holds all that the batch has of its subject, and a new batch is newer
\* than everything before it.
LEMMA OrderedStep == SinkInv /\ [Next]_vars => Ordered'
<1> SUFFICES ASSUME SinkInv, [Next]_vars
             PROVE  Ordered'
  OBVIOUS
<1>a. /\ added \in Nat /\ head \in Nat /\ head <= added
      /\ batch \subseteq 1..head /\ sent \cup failed \subseteq 1..head
      /\ Ordered
  BY SinkAssumption DEF SinkInv, TypeOK, EventsAccountedFor
<1> USE DEF addVars, sinkVars, loopVars, outVars
<1>1. ASSUME NEW a \in Adders, NEW k \in Kinds, Add(a, k[1], k[2])
      PROVE  Ordered'
  <2>1. \A e \in 1..added : subject'[e] = subject[e]
    BY <1>1, AddStep
  <2>2. batch' = batch /\ sent' = sent /\ failed' = failed
    BY <1>1 DEF Add
  <2>3. \A e \in batch \cup sent \cup failed : e \in 1..added
    BY <1>a
  <2> QED
    BY <1>a, <2>1, <2>2, <2>3 DEF Ordered
<1>2. CASE FlushTake
  <2>1. PICK n \in 1..MaxItems : batch' = (head + 1)..(head + n)
    BY <1>2, FlushTakeStep
  <2>2. sent' = sent /\ failed' = failed
    BY <1>2 DEF FlushTake
  <2>3. \A d \in sent \cup failed, e \in batch' : d < e
    BY <1>a, <2>1, SinkAssumption
  <2> QED
    BY <2>2, <2>3 DEF Ordered
<1>3. CASE SendOK \/ SendError
  <2>1. /\ batch' = batch \ Group /\ subject' = subject
        /\ sent' \cup failed' = sent \cup failed \cup Group
    BY <1>3 DEF SendOK, SendError
  <2>2. \A d \in Group, e \in batch \ Group : subject[d] # subject[e]
    BY DEF Group
  <2> QED
    BY <1>a, <2>1, <2>2 DEF Ordered
<1>4. CASE Elsewhere
  BY <1>a, <1>4 DEF Ordered, Elsewhere
<1> QED
  BY <1>1, <1>2, <1>3, <1>4, StepKinds

\* A new sink has nothing.
LEMMA SinkInit == Init => SinkInv
<1> SUFFICES ASSUME Init
             PROVE  SinkInv
  OBVIOUS
<1> USE SinkAssumption DEF Init
<1>1. TypeOK
  <2>1. ASSUME NEW S PROVE << >> \in [1..0 -> S]
    OBVIOUS
  <2>2. subject \in [1..added -> Subjects] /\ bytes \in [1..added -> Bodies]
    BY <2>1
  <2>3. adder \in [Adders -> {"idle", "kick"}]
    OBVIOUS
  <2>4. added \in 0..MaxEvents /\ head \in 0..added /\ mark \in 0..added
    OBVIOUS
  <2> QED
    BY <2>2, <2>3, <2>4, Zenon DEF TypeOK
<1>2. BoundedAndExact
  BY FS_EmptySet, NothingPending DEF BoundedAndExact
<1>3. EventsAccountedFor
  <2>1. Dropped = {}
    BY DEF Dropped
  <2> QED
    BY <2>1, FS_EmptySet DEF EventsAccountedFor
<1>4. FullBatchIsSeen /\ Coupled /\ Ordered
  BY DEF FullBatchIsSeen, Coupled, Ordered
<1> QED
  BY <1>1, <1>2, <1>3, <1>4 DEF SinkInv

\* The invariant holds in every state of the sink.
LEMMA SinkInvariant == Spec => []SinkInv
<1>1. SinkInv /\ [Next]_vars => SinkInv'
  BY TypeStep, BoundedStep, AccountedStep, SeenStep, CoupledStep, OrderedStep DEF SinkInv
<1> QED
  BY <1>1, SinkInit, PTL DEF Spec

-----------------------------------------------------------------------------
(* What the sink promises.                                                 *)

\* The sink's variables keep their types: s.wake never holds more than one token,
\* and the loop sends nothing that was not added.
THEOREM SinkTyping == Spec => []TypeOK
<1>1. SinkInv => TypeOK
  BY DEF SinkInv
<1> QED
  BY <1>1, SinkInvariant, PTL

\* However appends, drops and flushes interleave, an event is pending, being sent,
\* sent, failed or dropped, and s.dropped counts the dropped ones exactly.
THEOREM EventsAreAccountedFor == Spec => []EventsAccountedFor
<1>1. SinkInv => EventsAccountedFor
  BY DEF SinkInv
<1> QED
  BY <1>1, SinkInvariant, PTL

\* s.pending stays within maxPending, a batch within maxItems, and s.size, kept up
\* by increments in Add and by sizeOf after a cut and a flush, is exact.
THEOREM PendingIsBoundedAndSized == Spec => []BoundedAndExact
<1>1. SinkInv => BoundedAndExact
  BY DEF SinkInv
<1> QED
  BY <1>1, SinkInvariant, PTL

\* A full batch never waits for the ticker, although kick drops its token when the
\* channel has one.
THEOREM FullBatchesAreSeen == Spec => []FullBatchIsSeen
<1>1. SinkInv => FullBatchIsSeen
  BY DEF SinkInv
<1> QED
  BY <1>1, SinkInvariant, PTL

\* Close returns only when all that was added before it has left the sink.
THEOREM CloseFlushes == Spec => []FlushedOnClose
<1>1. SinkInv => FlushedOnClose
  BY DEF SinkInv, Coupled, FlushedOnClose
<1> QED
  BY <1>1, SinkInvariant, PTL

\* publish keeps the order of the events of a subject, across the messages of a
\* batch, across batches, and when a message in between fails.
THEOREM SubjectsStayInOrder == Spec => PublishedInOrder
<1>1. ASSUME SinkInv, [Next]_vars, NEW e \in sent' \ sent, NEW d \in sent,
             subject'[d] = subject'[e]
      PROVE  d < e
  <2>1. CASE SendOK
    <3>1. e \in batch /\ subject' = subject
      BY <1>1, <2>1 DEF SendOK, Group, addVars
    <3> QED
      BY <1>1, <3>1 DEF SinkInv, Ordered
  <2>2. CASE ~SendOK
    <3>1. sent' = sent
      BY <1>1, <2>2, StepKinds
      DEF Add, FlushTake, SendError, Elsewhere, addVars, sinkVars, loopVars, outVars
    <3> QED
      BY <1>1, <3>1
  <2> QED
    BY <2>1, <2>2
<1>2. SinkInv /\ [Next]_vars =>
        [\A e \in sent' \ sent, d \in sent : subject'[d] = subject'[e] => d < e]_vars
  BY <1>1
<1> QED
  BY <1>2, SinkInvariant, PTL DEF Spec, PublishedInOrder

=============================================================================
