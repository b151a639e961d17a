--------------------------- MODULE ClusterProofs ----------------------------
(***************************************************************************)
(* What a node recovers from the stores is complete when deletion and      *)
(* compaction keep to the order the package documents, for any number of   *)
(* nodes, leases, updates and deletions.                                   *)
(***************************************************************************)
EXTENDS ClusterStores

-----------------------------------------------------------------------------
(* What nodes know of the log, when a deletion follows the order prescribed  *)
(* and compaction waits for loads.                                           *)

\* A load has what the checkpoint covers and the records up to its offset.
Loading(n) ==
  /\ document # NoDocument
  /\ promised[n] <= through[n] /\ through[n] <= acked
  /\ Base(document) + offset[n] <= through[n]
  /\ 1 .. Base(document) + offset[n] \subseteq view[n]
  /\ view[n] \subseteq 1 .. acked

Serving(n) ==
  /\ promised[n] <= through[n] /\ through[n] <= acked
  /\ 1 .. through[n] \subseteq view[n]
  /\ view[n] \subseteq 1 .. acked

\* A checkpoint has all up to its revision.
Holds(c) ==
  /\ c.revision <= acked
  /\ 1 .. c.revision \subseteq c.covers
  /\ c.covers \subseteq 1 .. acked

Knows(n) ==
  /\ phase[n] = "idle" => view[n] = {}
  /\ phase[n] = "loading" => Loading(n)
  /\ phase[n] = "serving" => Serving(n)
  /\ job[n] # NoCheckpoint => Holds(job[n])

LogInv ==
  /\ document # NoDocument /\ document.checkpoint # NoCheckpoint => Holds(document.checkpoint)
  /\ profile = "log" => \A n \in Nodes : Knows(n)

LEMMA LogInitially == ASSUME Init PROVE LogInv
BY Zenon DEF Init, LogInv, Knows

\* Nothing that concerns n or the log has changed.
LEMMA KnowsStill ==
  ASSUME NEW n \in Nodes, Knows(n), UNCHANGED <<document, acked>>,
         phase'[n] = phase[n], view'[n] = view[n], through'[n] = through[n],
         offset'[n] = offset[n], promised'[n] = promised[n],
         job'[n] \in {job[n], NoCheckpoint}
  PROVE  Knows(n)'
BY Zenon DEF Knows, Loading, Serving, Holds, Base

LEMMA LogSame ==
  ASSUME LogInv, UNCHANGED <<document, acked, profile, phase, view, through, offset, job, promised>>
  PROVE  LogInv'
BY Zenon DEF LogInv, Knows, Loading, Serving, Holds, Base

LEMMA LogIdle ==
  ASSUME StoreInv, LogInv, NEW n \in Nodes, GoesIdle(n)
  PROVE  LogInv'
<1>1. /\ UNCHANGED <<document, acked, profile>>
      /\ phase'[n] = "idle" /\ view'[n] = {} /\ job'[n] = NoCheckpoint
      /\ \A m \in Nodes \ {n} :
           /\ phase'[m] = phase[m] /\ view'[m] = view[m] /\ through'[m] = through[m]
           /\ offset'[m] = offset[m] /\ promised'[m] = promised[m] /\ job'[m] = job[m]
  BY Zenon DEF GoesIdle, Idle, StoreInv, Types
<1>2. ASSUME NEW m \in Nodes, Knows(m)
      PROVE  Knows(m)'
  <2>1. CASE m = n
    BY <1>1, <2>1, Zenon DEF Knows
  <2>2. CASE m # n
    BY <1>1, <1>2, <2>2, KnowsStill, Zenon
  <2> QED
    BY <2>1, <2>2
<1> QED
  BY <1>1, <1>2, Zenon DEF LogInv, Holds

\* A checkpoint that held goes on to hold as updates are acknowledged.
LEMMA HoldsOn ==
  ASSUME NEW c, Holds(c), c \in Checkpoints, acked \in Nat, acked' \in Nat, acked' >= acked
  PROVE  /\ c.revision <= acked' /\ 1 .. c.revision \subseteq c.covers
         /\ c.covers \subseteq 1 .. acked'
<1>1. c.revision \in Nat
  BY DEF Checkpoints
<1>2. 1 .. acked \subseteq 1 .. acked'
  OBVIOUS
<1> QED
  BY <1>1, <1>2 DEF Holds

\* What a load or an Append finds, a missing document being an empty one.
LEMMA OrNewTail ==
  ASSUME StoreInv
  PROVE  LET d == OrNew(document) IN
         /\ d \in Histories /\ d.revision = acked /\ acked \in Nat
         /\ Base(d) \in Nat /\ Base(d) + Len(d.records) = acked
         /\ \A i \in DOMAIN d.records :
              d.records[i].revision = Base(d) + i /\ d.records[i].update = Base(d) + i
<1>1. OrNew(document) \in Histories
  BY OrNewTyped
<1> QED
  BY <1>1 DEF StoreInv, Types, TailInv, OrNew, EmptyHistory, Base, Histories, Checkpoints

\* The first page begins where the checkpoint ends.
LEMMA LogLoadFirst ==
  ASSUME StoreInv, LogInv, NEW n \in Nodes, LoadFirst(n)
  PROVE  LogInv'
<1> DEFINE d == OrNew(document)
           b == Base(d)
           page == loadPage(d, acked, 0)
           first == Covered(d.checkpoint)
<1> USE DEF storeVars, logVars, blobVars, leaseVars
<1>1. /\ d \in Histories /\ d.revision = acked /\ acked \in Nat
      /\ b \in Nat /\ b + Len(d.records) = acked
      /\ \A i \in DOMAIN d.records : d.records[i].revision = b + i /\ d.records[i].update = b + i
  BY OrNewTail, Zenon
<1>2. /\ UNCHANGED <<document, acked, profile, job>>
      /\ profile = "log" /\ phase[n] = "idle"
      /\ through' = [through EXCEPT ![n] = acked]
      /\ promised' = [promised EXCEPT ![n] = acked]
      /\ Take(n, page, first)
  BY <1>1, Zenon DEF LoadFirst
<1>3. first \subseteq 1 .. acked /\ 1 .. b \subseteq first
  <2>1. CASE d.checkpoint = NoCheckpoint
    BY <2>1 DEF Base, Covered
  <2>2. CASE d.checkpoint # NoCheckpoint
    <3>1. document # NoDocument /\ d = document
      BY <2>2, Zenon DEF OrNew, EmptyHistory
    <3> QED
      BY <2>2, <3>1, Zenon DEF LogInv, Holds, Base, Covered
  <2> QED
    BY <2>1, <2>2, Zenon
<1>4. document = NoDocument => acked = 0
  BY Zenon DEF StoreInv, TailInv
<1> HIDE DEF d, b, first
<1>5. /\ page.next \in Nat /\ b + page.next <= acked
      /\ page.updates = b + 0 + 1 .. b + page.next
      /\ page.more \in BOOLEAN /\ (page.more <=> b + page.next < acked)
  <2>1. 0 \in Nat /\ b + 0 <= acked /\ acked <= b + Len(d.records)
    BY <1>1 DEF Histories
  <2> QED
    BY <1>1, <2>1, PageOfTail
<1> HIDE DEF page
<1>6. /\ view'[n] = view[n] \cup first \cup page.updates
      /\ offset'[n] = page.next /\ through'[n] = acked /\ promised'[n] = acked
      /\ phase'[n] = IF page.more THEN "loading" ELSE "serving"
      /\ \A m \in Nodes \ {n} :
           /\ phase'[m] = phase[m] /\ view'[m] = view[m] /\ through'[m] = through[m]
           /\ offset'[m] = offset[m] /\ promised'[m] = promised[m] /\ job'[m] = job[m]
  BY <1>2, Zenon DEF Take, StoreInv, Types
<1>7. view[n] = {} /\ job[n] = NoCheckpoint
  BY <1>2, Zenon DEF LogInv, Knows, StoreInv, SessionInv
<1>8. view'[n] \subseteq 1 .. acked /\ 1 .. b + page.next \subseteq view'[n]
  <2>1. b + 0 + 1 .. b + page.next \subseteq 1 .. acked
    BY <1>1, <1>5
  <2>2. \A x \in 1 .. b + page.next : x \in 1 .. b \/ x \in b + 0 + 1 .. b + page.next
    BY <1>1, <1>5
  <2> QED
    BY <1>3, <1>5, <1>6, <1>7, <2>1, <2>2, Zenon
<1>9. Knows(n)'
  <2>1. CASE page.more
    <3>1. document # NoDocument
      BY <1>1, <1>4, <1>5, <2>1
    <3>2. b = Base(document) /\ Base(document)' = Base(document)
      BY <1>2, <3>1, Zenon DEF b, d, OrNew, Base
    <3> QED
      BY <1>1, <1>2, <1>5, <1>6, <1>7, <1>8, <2>1, <3>1, <3>2 DEF Knows, Loading
  <2>2. CASE ~page.more
    <3>1. b + page.next = acked
      BY <1>1, <1>5, <2>2
    <3> QED
      BY <1>1, <1>2, <1>6, <1>7, <1>8, <2>2, <3>1 DEF Knows, Serving
  <2> QED
    BY <2>1, <2>2
<1>10. \A m \in Nodes \ {n} : Knows(m)'
  BY <1>2, <1>6, KnowsStill, Zenon DEF LogInv
<1> QED
  BY <1>2, <1>9, <1>10, Zenon DEF LogInv, Holds

LEMMA LogLoadNext ==
  ASSUME StoreInv, LogInv, NEW n \in Nodes, LoadNext(n)
  PROVE  LogInv'
<1> DEFINE b == Base(document)
           t == through[n]
           o == offset[n]
           page == loadPage(document, t, o)
<1> USE DEF storeVars, logVars, blobVars, leaseVars
<1>1. /\ document \in Histories /\ acked \in Nat
      /\ b \in Nat /\ b + Len(document.records) = acked
      /\ \A i \in DOMAIN document.records :
           document.records[i].revision = b + i /\ document.records[i].update = b + i
      /\ t \in Nat /\ o \in Nat /\ promised[n] \in Nat
  BY OrNewTail, Zenon DEF LoadNext, OrNew, StoreInv, Types
<1>2. /\ UNCHANGED <<document, acked, profile, job, through, promised>>
      /\ profile = "log" /\ phase[n] = "loading" /\ document # NoDocument
      /\ Take(n, page, {})
  BY Zenon DEF LoadNext, StoreInv, SessionInv
<1>3. Loading(n) /\ job[n] = NoCheckpoint
  BY <1>2, Zenon DEF LogInv, Knows, StoreInv, SessionInv
<1>4. /\ promised[n] <= t /\ t <= acked /\ b + o <= t
      /\ 1 .. b + o \subseteq view[n] /\ view[n] \subseteq 1 .. acked
  BY <1>3, Zenon DEF Loading
<1> HIDE DEF b, t, o
<1>5. /\ page.next \in Nat /\ b + page.next <= t
      /\ page.updates = b + o + 1 .. b + page.next
      /\ page.more \in BOOLEAN /\ (page.more <=> b + page.next < t)
  <2>1. t <= b + Len(document.records)
    BY <1>1, <1>4, Zenon
  <2> QED
    BY <1>1, <1>4, <2>1, PageOfTail
<1> HIDE DEF page
<1>6. /\ view'[n] = view[n] \cup page.updates /\ offset'[n] = page.next
      /\ phase'[n] = IF page.more THEN "loading" ELSE "serving"
      /\ \A m \in Nodes \ {n} :
           phase'[m] = phase[m] /\ view'[m] = view[m] /\ offset'[m] = offset[m]
  BY <1>2, Zenon DEF Take, StoreInv, Types
<1>7. view'[n] \subseteq 1 .. acked /\ 1 .. b + page.next \subseteq view'[n]
  <2>1. b + o + 1 .. b + page.next \subseteq 1 .. acked
    BY <1>1, <1>4, <1>5
  <2>2. \A x \in 1 .. b + page.next : x \in 1 .. b + o \/ x \in b + o + 1 .. b + page.next
    BY <1>1, <1>5
  <2> QED
    BY <1>4, <1>5, <1>6, <2>1, <2>2, Zenon
<1>8. Knows(n)'
  <2>1. CASE page.more
    <3>1. Base(document)' = b
      BY <1>2 DEF b, Base
    <3> QED
      BY <1>2, <1>3, <1>4, <1>5, <1>6, <1>7, <2>1, <3>1, Zenon DEF Knows, Loading, t
  <2>2. CASE ~page.more
    <3>1. b + page.next = t
      <4>1. ~(b + page.next < t) /\ b + page.next <= t /\ page.next \in Nat
        BY <1>5, <2>2, Zenon
      <4> QED
        BY <1>1, <4>1
    <3> QED
      BY <1>2, <1>3, <1>4, <1>6, <1>7, <2>2, <3>1, Zenon DEF Knows, Serving, t
  <2> QED
    BY <2>1, <2>2
<1>9. \A m \in Nodes \ {n} : Knows(m)'
  BY <1>2, <1>6, KnowsStill, Zenon DEF LogInv
<1> QED
  BY <1>2, <1>8, <1>9, Zenon DEF LogInv, Holds

\* A node that appends has all up to the revision it may compact, and moves that
\* on only over its own update.
LEMMA LogAppend ==
  ASSUME StoreInv, LeaseInv, LogInv, NEW n \in Nodes, AppendUpdate(n)
  PROVE  LogInv'
<1> USE DEF storeVars, logVars, blobVars, leaseVars
<1>1. /\ UNCHANGED <<profile, phase, offset, job, promised>>
      /\ profile = "log" /\ phase[n] = "serving"
      /\ acked' = acked + 1 /\ acked \in Nat /\ acked' \in Nat /\ acked' >= acked
      /\ OrNew(document).revision = acked
  BY OrNewTail DEF AppendUpdate
<1>2. document'.checkpoint = OrNew(document).checkpoint /\ document'.revision = acked'
  BY <1>1, OrNewTyped, Zenon DEF AppendUpdate, appendRecord, Histories
<1>3. /\ view'[n] = view[n] \cup {acked'}
      /\ through'[n] = IF acked' = through[n] + 1 THEN through[n] + 1 ELSE through[n]
      /\ \A m \in Nodes \ {n} : view'[m] = view[m] /\ through'[m] = through[m]
  BY <1>2, Zenon DEF AppendUpdate, StoreInv, Types
<1>4. 1 .. acked \subseteq 1 .. acked' /\ acked' \in 1 .. acked'
  BY <1>1
<1>5. \A m \in Nodes : Knows(m) /\ through[m] \in Nat /\ promised[m] \in Nat /\ offset[m] \in Nat
  BY <1>1, Zenon DEF LogInv, StoreInv, Types
<1>6. document' # NoDocument
  <2>1. StoreInv'
    BY AppendTyped
  <2> QED
    BY <1>1, <2>1 DEF StoreInv, TailInv
<1>7. \A m \in Nodes : job'[m] # NoCheckpoint => Holds(job[m])'
  <2> TAKE m \in Nodes
  <2> HAVE job'[m] # NoCheckpoint
  <2>1. job'[m] = job[m] /\ Holds(job[m]) /\ job[m] \in Checkpoints
    BY <1>1, <1>5, Zenon DEF Knows, StoreInv, Types
  <2> QED
    BY <1>1, <2>1, HoldsOn, Zenon DEF Holds
<1>8. Serving(n)'
  <2>1. /\ promised[n] <= through[n] /\ through[n] <= acked
        /\ 1 .. through[n] \subseteq view[n] /\ view[n] \subseteq 1 .. acked
    BY <1>1, <1>5, Zenon DEF Knows, Serving
  <2>2. view'[n] \subseteq 1 .. acked'
    BY <1>3, <1>4, <2>1, Zenon
  <2>3. CASE acked' = through[n] + 1
    <3>1. through'[n] = acked' /\ through[n] = acked
      BY <1>1, <1>3, <1>5, <2>3
    <3>2. \A x \in 1 .. acked' : x \in 1 .. acked \/ x = acked'
      BY <1>1
    <3>3. 1 .. acked' \subseteq view'[n]
      BY <1>3, <2>1, <3>1, <3>2, Zenon
    <3>4. promised[n] <= acked'
      BY <1>1, <1>5, <2>1
    <3> QED
      BY <1>1, <2>2, <3>1, <3>3, <3>4 DEF Serving
  <2>4. CASE acked' # through[n] + 1
    <3>1. through'[n] = through[n] /\ through[n] <= acked'
      BY <1>1, <1>3, <1>5, <2>1, <2>4
    <3> QED
      BY <1>1, <1>3, <2>1, <2>2, <3>1, Zenon DEF Serving
  <2> QED
    BY <2>3, <2>4
<1>9. ASSUME NEW m \in Nodes \ {n}
      PROVE  Knows(m)'
  <2>1. through[m] <= acked => through[m] <= acked'
    BY <1>1, <1>5
  <2>2. phase[m] = "serving" => Serving(m)'
    BY <1>1, <1>3, <1>4, <1>5, <2>1, Zenon DEF Knows, Serving
  <2>3. document # NoDocument => Base(document)' = Base(document)
    BY <1>2 DEF OrNew, Base
  <2>4. phase[m] = "loading" => Loading(m)'
    BY <1>1, <1>3, <1>4, <1>5, <1>6, <2>1, <2>3, Zenon DEF Knows, Loading
  <2> QED
    BY <1>1, <1>3, <1>5, <1>7, <2>2, <2>4, Zenon DEF Knows
<1>10. Knows(n)'
  BY <1>1, <1>7, <1>8, Zenon DEF Knows
<1>11. document'.checkpoint # NoCheckpoint => Holds(document.checkpoint)'
  <2> HAVE document'.checkpoint # NoCheckpoint
  <2>1. document # NoDocument /\ document'.checkpoint = document.checkpoint
    BY <1>2, Zenon DEF OrNew, EmptyHistory
  <2>2. Holds(document.checkpoint) /\ document.checkpoint \in Checkpoints
    BY <2>1, Zenon DEF LogInv, StoreInv, Types, Histories
  <2> QED
    BY <1>1, <2>1, <2>2, HoldsOn, Zenon DEF Holds
<1> QED
  BY <1>1, <1>9, <1>10, <1>11, Zenon DEF LogInv

LEMMA LogEncode ==
  ASSUME StoreInv, LogInv, NEW n \in Nodes, Encode(n)
  PROVE  LogInv'
<1> USE DEF storeVars, logVars, blobVars, leaseVars
<1>1. /\ UNCHANGED <<profile, document, acked, phase, view, through, offset, promised>>
      /\ phase[n] = "serving"
      /\ job'[n] = [revision |-> through[n], covers |-> view[n]]
      /\ \A m \in Nodes \ {n} : job'[m] = job[m]
  BY Zenon DEF Encode, StoreInv, Types
<1>2. ASSUME NEW m \in Nodes, Knows(m)
      PROVE  Knows(m)'
  <2>1. CASE m # n
    BY <1>1, <1>2, <2>1, KnowsStill, Zenon
  <2>2. CASE m = n
    <3>1. Serving(n)' /\ Serving(n)
      BY <1>1, <1>2, <2>2, Zenon DEF Knows, Serving
    <3>2. Holds(job[n])'
      BY <1>1, <3>1 DEF Holds, Serving
    <3> QED
      BY <1>1, <2>2, <3>1, <3>2, Zenon DEF Knows
  <2> QED
    BY <2>1, <2>2
<1> QED
  BY <1>1, <1>2, Zenon DEF LogInv, Holds

\* A checkpoint replaces the records it covers; nobody is between two pages.
LEMMA LogCompact ==
  ASSUME Disciplined, StoreInv, LeaseInv, LogInv, NEW n \in Nodes, Compact(n)
  PROVE  LogInv'
<1> USE DEF storeVars, logVars, blobVars, leaseVars
<1>1. /\ UNCHANGED <<profile, acked, phase, view, through, offset, promised>>
      /\ job[n] # NoCheckpoint /\ document # NoDocument
      /\ \A m \in Nodes : phase[m] # "loading" /\ job'[m] \in {job[m], NoCheckpoint}
  BY Zenon DEF Compact, CompactReturns, StoreInv, Types
<1>2. document'.checkpoint = job[n]
  BY CompactedTail
<1>3. profile = "log" /\ Holds(job[n])
  BY <1>1, Zenon DEF LogInv, Knows, StoreInv, SessionInv
<1>4. ASSUME NEW m \in Nodes
      PROVE  Knows(m)'
  BY <1>1, <1>3, Zenon DEF LogInv, Knows, Serving, Holds
<1> QED
  BY <1>1, <1>2, <1>3, <1>4, Zenon DEF LogInv, Holds

LEMMA LogCompactFails ==
  ASSUME StoreInv, LeaseInv, LogInv, NEW n \in Nodes, CompactConflict(n) \/ CompactMissing(n)
  PROVE  LogInv'
<1> USE DEF storeVars, logVars, blobVars, leaseVars
<1>1. /\ UNCHANGED <<profile, acked, phase, view, through, offset, promised>>
      /\ \A m \in Nodes : job'[m] \in {job[m], NoCheckpoint}
  BY Zenon DEF CompactConflict, CompactMissing, CompactReturns, StoreInv, Types
<1>2. \/ document' = document
      \/ document \in Histories /\ document' = [document EXCEPT !.fence = fence[n]]
  BY Zenon DEF CompactConflict, CompactMissing, CompactReturns, StoreInv, Types
<1>3. document # NoDocument \/ document' = document
  BY Zenon DEF CompactConflict, CompactMissing, CompactReturns
<1>4. document'.checkpoint = document.checkpoint /\ Base(document)' = Base(document)
  BY <1>2 DEF Histories, Base
<1>5. document' # NoDocument => document # NoDocument
  BY <1>3
<1>6. document # NoDocument => document' # NoDocument
  <2>1. fence[n] \in Nat
    BY DEF LeaseInv
  <2>2. document \in Histories => [document EXCEPT !.fence = fence[n]] \in Histories
    BY <2>1 DEF Histories
  <2> QED
    BY <1>2, <2>2, ClusterAssumption
<1>7. ASSUME NEW m \in Nodes, Knows(m)
      PROVE  Knows(m)'
  BY <1>1, <1>4, <1>6, <1>7, Zenon DEF Knows, Loading, Serving, Holds
<1> QED
  BY <1>1, <1>4, <1>5, <1>7, Zenon DEF LogInv, Holds

\* In the order prescribed nobody has a session when the history goes.
LEMMA LogDelete ==
  ASSUME Disciplined, StoreInv, LogInv, NEW n \in Nodes, Delete(n)
  PROVE  LogInv'
<1> USE DEF storeVars, logVars, blobVars, nodeVars, leaseVars
<1>1. /\ UNCHANGED <<profile, phase, view, job>> /\ profile = "log"
      /\ document' = NoDocument
      /\ phase[n] = "idle" /\ \A m \in Nodes \ {n} : fence[m] = 0
  BY Zenon DEF Delete, Deletes
<1>2. \A m \in Nodes : phase[m] = "idle" /\ job[m] = NoCheckpoint /\ view[m] = {}
  BY <1>1, Zenon DEF StoreInv, SessionInv, LogInv, Knows
<1> QED
  BY <1>1, <1>2, Zenon DEF LogInv, Knows

\* The other profile has no log.
LEMMA LogUnused ==
  ASSUME StoreInv, profile # "log", UNCHANGED <<profile, document>>
  PROVE  LogInv'
BY Zenon DEF StoreInv, SessionInv, LogInv

LEMMA LogStep ==
  ASSUME Disciplined, StoreInv, LeaseInv, LogInv, [Next]_vars
  PROVE  LogInv'
<1> USE DEF storeVars, logVars, blobVars, nodeVars, leaseVars
<1>1. ASSUME NEW n \in Nodes,
             LoseLease(n) \/ ReleaseLease(n) \/ Crash(n) \/ Refused(n) \/ LoadFails(n)
      PROVE  LogInv'
  BY <1>1, EndsIdle, LogIdle, Zenon
<1>2. ASSUME \/ Tick \/ UNCHANGED vars
             \/ \E n \in Nodes : RenewLease(n) \/ AcquireLease(n) \/ DropVector(n)
      PROVE  LogInv'
  <2>1. UNCHANGED <<document, acked, profile, phase, view, through, offset, job, promised>>
    BY <1>2, Zenon DEF Tick, vars, RenewLease, AcquireLease, DropVector
  <2> QED
    BY <2>1, LogSame
<1>3. ASSUME NEW n \in Nodes,
             LoadCheckpoint(n) \/ Change(n) \/ SaveCheckpoint(n) \/ DeleteState(n)
      PROVE  LogInv'
  <2>1. profile # "log" /\ UNCHANGED <<profile, document>>
    BY <1>3, Zenon DEF LoadCheckpoint, Change, SaveCheckpoint, DeleteState, Deletes
  <2> QED
    BY <2>1, LogUnused
<1> QED
  BY <1>1, <1>2, <1>3, LogLoadFirst, LogLoadNext, LogAppend, LogEncode, LogCompact,
     LogCompactFails, LogDelete, Zenon
     DEF Next

LEMMA LogInvariance ==
  ASSUME Disciplined
  PROVE  Spec => [](LeaseInv /\ StoreInv /\ LogInv)
<1>1. Init => LeaseInv /\ StoreInv /\ LogInv
  BY LeaseInitially, StoreInitially, LogInitially
<1>2. LeaseInv /\ StoreInv /\ LogInv /\ [Next]_vars => (LeaseInv /\ StoreInv /\ LogInv)'
  BY LeaseStep, StoreStep, LogStep
<1> QED
  BY <1>1, <1>2, PTL DEF Spec

\* No acknowledged update is ever lost by a compaction, for any number of nodes
\* that load, append and compact over each other's expired leases.
THEOREM LogIsComplete ==
  ASSUME Disciplined
  PROVE  Spec => []NothingForgotten
<1>1. StoreInv /\ LogInv => NothingForgotten
  <2> SUFFICES ASSUME StoreInv, LogInv, document # NoDocument
               PROVE  1 .. acked = Covered(document.checkpoint) \cup Updates(document.records)
    BY DEF NothingForgotten, StoreInv, Types, TailInv
  <2> DEFINE r == document.records
             b == Base(document)
  <2>1. /\ b \in Nat /\ acked \in Nat /\ b + Len(r) = acked /\ DOMAIN r = 1 .. Len(r) /\ Len(r) \in Nat
        /\ \A i \in DOMAIN r : r[i].update = b + i
    BY DEF StoreInv, Types, TailInv, Base, Histories, Checkpoints
  <2>2. 1 .. b \subseteq Covered(document.checkpoint) /\ Covered(document.checkpoint) \subseteq 1 .. acked
    BY DEF LogInv, Holds, Base, Covered
  <2> HIDE DEF r, b
  <2>3. Updates(r) = b + 1 .. acked
    <3>1. \A x \in b + 1 .. acked : x - b \in DOMAIN r /\ b + (x - b) = x
      BY <2>1
    <3>2. \A i \in DOMAIN r : b + i \in b + 1 .. acked
      BY <2>1
    <3> QED
      BY <2>1, <3>1, <3>2 DEF Updates
  <2>4. \A x \in 1 .. acked : x \in 1 .. b \/ x \in b + 1 .. acked
    BY <2>1
  <2>5. b + 1 .. acked \subseteq 1 .. acked
    BY <2>1
  <2> QED
    BY <2>2, <2>3, <2>4, <2>5, Zenon DEF r
<1> QED
  BY <1>1, LogInvariance, PTL

\* A recovery that reports its view complete has all that was acknowledged when
\* it began, for any page limit and whatever is appended between its pages, as
\* long as nobody compacts between them.
THEOREM RecoveriesAreComplete ==
  ASSUME Disciplined
  PROVE  Spec => []RecoveryIsComplete
<1>1. StoreInv /\ LogInv => RecoveryIsComplete
  <2> SUFFICES ASSUME StoreInv, LogInv, NEW n \in Nodes, phase[n] = "serving"
               PROVE  1 .. promised[n] \subseteq view[n]
    BY DEF RecoveryIsComplete
  <2>1. promised[n] \in Nat /\ through[n] \in Nat
    BY Zenon DEF StoreInv, Types
  <2>2. CASE profile = "log"
    <3>1. promised[n] <= through[n] /\ 1 .. through[n] \subseteq view[n]
      BY <2>2, Zenon DEF LogInv, Knows, Serving
    <3>2. 1 .. promised[n] \subseteq 1 .. through[n]
      BY <2>1, <3>1
    <3> QED
      BY <3>1, <3>2, Zenon
  <2>3. CASE profile # "log"
    <3>1. promised[n] = 0
      BY <2>3, Zenon DEF StoreInv, SessionInv
    <3>2. 1 .. 0 = {}
      OBVIOUS
    <3> QED
      BY <3>1, <3>2
  <2> QED
    BY <2>2, <2>3
<1> QED
  BY <1>1, LogInvariance, PTL

-----------------------------------------------------------------------------
(* The state of the checkpoint store.                                      *)

\* The store has the last save since the last deletion, if there is one, and its
\* fence; who is halfway through a save has made one since.
StateInv ==
  /\ Len(savedBy) = Len(saves) /\ erased <= Len(saves)
  /\ Len(saves) > 0 => blob.fence = savedBy[Len(saves)]
  /\ (blob.state = NoDocument) <=> (erased = Len(saves))
  /\ erased < Len(saves) =>
       /\ blob.state.covers = saves[Len(saves)]
       /\ blob.state.vector \in {NoVector, saves[Len(saves)]}
  /\ halfway # {} => erased < Len(saves)
  /\ \A i \in erased + 1 .. Len(saves) :
       savedBy[i] = blob.fence => saves[i] \subseteq saves[Len(saves)]

\* A node still has what a save covered.
Has(n, saved) ==
  /\ phase[n] = "serving" /\ saved \subseteq view[n]
  /\ job[n] # NoCheckpoint => saved \subseteq job[n].covers

\* No fence was used before it was handed out, and a node has what was saved with
\* the fence it holds; the document it has encoded is its own.
OwnInv ==
  /\ \A i \in DOMAIN savedBy : savedBy[i] <= next
  /\ \A n \in Nodes :
       /\ job[n] # NoCheckpoint => job[n].covers \subseteq view[n]
       /\ \A i \in DOMAIN savedBy :
            fence[n] # 0 /\ savedBy[i] = fence[n] => Has(n, saves[i])

LEMMA WholeInitially == ASSUME Init PROVE StateInv /\ OwnInv
<1>1. Len(<<>>) = 0 /\ DOMAIN <<>> = {} /\ 0 + 1 .. 0 = {} /\ ~(0 < 0)
  OBVIOUS
<1>2. /\ saves = <<>> /\ savedBy = <<>> /\ erased = 0 /\ halfway = {}
      /\ blob.state = NoDocument /\ job = [n \in Nodes |-> NoCheckpoint]
  BY Zenon DEF Init, EmptyStore
<1> QED
  BY <1>1, <1>2 DEF StateInv, OwnInv

\* What leaves the store alone, but for a node that is no longer halfway.
LEMMA StateSame ==
  ASSUME StateInv, UNCHANGED <<blob, saves, savedBy, erased>>, halfway' \subseteq halfway
  PROVE  StateInv'
BY Zenon DEF StateInv

\* A node whose session goes on has at least what it had.
LEMMA OwnGrows ==
  ASSUME OwnInv, UNCHANGED <<saves, savedBy, fence, next>>,
         \A n \in Nodes :
           /\ phase[n] = "serving" =>
                /\ phase'[n] = "serving" /\ view[n] \subseteq view'[n]
                /\ job'[n] \in {job[n], NoCheckpoint, [revision |-> through[n], covers |-> view[n]]}
           /\ phase[n] # "serving" => job'[n] = NoCheckpoint
  PROVE  OwnInv'
<1> SUFFICES ASSUME NEW n \in Nodes
             PROVE  /\ job'[n] # NoCheckpoint => job'[n].covers \subseteq view'[n]
                    /\ \A i \in DOMAIN savedBy :
                         fence[n] # 0 /\ savedBy[i] = fence[n] => Has(n, saves[i])'
  BY Zenon DEF OwnInv
<1>1. CASE phase[n] # "serving"
  BY <1>1, Zenon DEF OwnInv, Has
<1>2. CASE phase[n] = "serving"
  BY <1>2 DEF OwnInv, Has
<1> QED
  BY <1>1, <1>2, Zenon

\* A node that ends its session gives up the fence it saved with.
LEMMA OwnIdle ==
  ASSUME StoreInv, LeaseInv, OwnInv, NEW n \in Nodes, GoesIdle(n)
  PROVE  OwnInv'
<1>1. /\ UNCHANGED <<saves, savedBy, next>> /\ job'[n] = NoCheckpoint
      /\ \A m \in Nodes \ {n} :
           phase'[m] = phase[m] /\ view'[m] = view[m] /\ job'[m] = job[m] /\ fence'[m] = fence[m]
  BY Zenon DEF GoesIdle, Idle, StoreInv, Types, LeaseInv
<1>2. fence'[n] = 0 \/ (fence'[n] = fence[n] /\ phase[n] # "serving")
  BY Zenon DEF GoesIdle, LeaseInv
<1>3. ASSUME NEW i \in DOMAIN savedBy, fence'[n] # 0, savedBy[i] = fence'[n]
      PROVE  FALSE
  BY <1>2, <1>3, Zenon DEF OwnInv, Has
<1>4. ASSUME NEW m \in Nodes \ {n}
      PROVE  /\ job'[m] # NoCheckpoint => job'[m].covers \subseteq view'[m]
             /\ \A i \in DOMAIN savedBy :
                  fence'[m] # 0 /\ savedBy[i] = fence'[m] => Has(m, saves[i])'
  BY <1>1 DEF OwnInv, Has
<1> QED
  BY <1>1, <1>3, <1>4, Zenon DEF OwnInv

\* Nothing was saved with a fence that is only now handed out.
LEMMA OwnAcquire ==
  ASSUME StoreInv, LeaseInv, OwnInv, NEW n \in Nodes, AcquireLease(n)
  PROVE  OwnInv'
<1>1. UNCHANGED <<saves, savedBy, phase, view, job>>
  BY Zenon DEF AcquireLease, storeVars, blobVars, nodeVars
<1>2. /\ next' = next + 1 /\ next \in Nat /\ fence'[n] = next + 1
      /\ \A m \in Nodes \ {n} : fence'[m] = fence[m]
  BY Zenon DEF AcquireLease, Acquire, LeaseInv
<1>3. \A i \in DOMAIN savedBy : savedBy[i] \in Nat /\ savedBy[i] <= next
  BY DEF OwnInv, StoreInv, Types
<1>4. \A i \in DOMAIN savedBy : savedBy[i] <= next' /\ savedBy[i] # fence'[n]
  BY <1>2, <1>3
<1>5. \A m \in Nodes : \A i \in DOMAIN savedBy :
        fence'[m] # 0 /\ savedBy[i] = fence'[m] => Has(m, saves[i])
  BY <1>2, <1>4, Zenon DEF OwnInv
<1> QED
  BY <1>1, <1>4, <1>5, Zenon DEF OwnInv, Has

\* What SaveCheckpoint does to the histories of the saves.
LEMMA SavesMore ==
  ASSUME StoreInv, StateInv, NEW n \in Nodes, SaveCheckpoint(n)
  PROVE  /\ Len(saves) \in Nat /\ Len(savedBy) = Len(saves)
         /\ Len(saves') = Len(saves) + 1 /\ Len(savedBy') = Len(saves) + 1
         /\ DOMAIN savedBy = 1 .. Len(saves) /\ DOMAIN savedBy' = 1 .. Len(saves) + 1
         /\ saves'[Len(saves) + 1] = job[n].covers /\ savedBy'[Len(saves) + 1] = fence[n]
         /\ \A i \in 1 .. Len(saves) : saves'[i] = saves[i] /\ savedBy'[i] = savedBy[i]
<1>1. saves \in Seq(SUBSET Nat) /\ savedBy \in Seq(Nat) /\ Len(savedBy) = Len(saves)
  BY Zenon DEF StoreInv, Types, StateInv
<1>2. saves' = Append(saves, job[n].covers) /\ savedBy' = Append(savedBy, fence[n])
  BY Zenon DEF SaveCheckpoint
<1> HIDE DEF SaveCheckpoint
<1> QED
  BY <1>1, <1>2

\* A save of an owner has all that it saved before; the owner before it had
\* another fence.
LEMMA StateSave ==
  ASSUME StoreInv, LeaseInv, StateInv, OwnInv, NEW n \in Nodes, SaveCheckpoint(n)
  PROVE  StateInv'
<1> DEFINE new == Len(saves) + 1
           covers == job[n].covers
<1>1. /\ Len(saves) \in Nat /\ new \in Nat /\ erased \in Nat /\ erased <= Len(saves)
      /\ erased' = erased /\ job[n] \in Checkpoints /\ fence[n] # 0
  BY SavesMore DEF StoreInv, Types, StateInv, SaveCheckpoint, acceptCheckpointFence
<1>2. /\ blob'.state = [revision |-> blob.revision + 1, covers |-> covers, vector |-> covers]
      /\ blob'.fence = fence[n]
  BY Zenon DEF SaveCheckpoint, saveCheckpoint
<1>3. blob'.state \in Saved
  BY <1>1, <1>2 DEF Saved, Checkpoints, StoreInv, Types
<1>4. blob'.state # NoDocument /\ blob'.state.covers = covers /\ blob'.state.vector = covers
  BY <1>2, <1>3, ClusterAssumption
<1>5. \A i \in 1 .. Len(saves) : savedBy[i] = fence[n] => saves[i] \subseteq covers
  BY <1>1, SavesMore, Zenon DEF OwnInv, Has, SaveCheckpoint
<1>6. /\ Len(saves') = new /\ Len(savedBy') = new /\ saves'[new] = covers /\ savedBy'[new] = fence[n]
      /\ \A i \in 1 .. Len(saves) : saves'[i] = saves[i] /\ savedBy'[i] = savedBy[i]
  BY SavesMore, Zenon
<1> HIDE DEF new, covers
<1>7. \A i \in erased + 1 .. new : i = new \/ i \in 1 .. Len(saves)
  BY <1>1 DEF new
<1>8. \A i \in erased + 1 .. new : savedBy'[i] = fence[n] => saves'[i] \subseteq covers
  BY <1>5, <1>6, <1>7, Zenon
<1>9. erased < new /\ erased <= new /\ erased # new
  BY <1>1 DEF new
<1> QED
  BY <1>1, <1>2, <1>4, <1>6, <1>8, <1>9, Zenon DEF StateInv

LEMMA OwnSave ==
  ASSUME StoreInv, LeaseInv, StateInv, OwnInv, NEW n \in Nodes, SaveCheckpoint(n)
  PROVE  OwnInv'
<1> DEFINE new == Len(saves) + 1
<1>1. /\ fence[n] # 0 /\ fence[n] <= next /\ job[n] # NoCheckpoint /\ phase[n] = "serving"
      /\ job[n].covers \subseteq view[n]
      /\ \A m \in Nodes \ {n} : fence[m] # fence[n]
  BY DEF SaveCheckpoint, acceptCheckpointFence, StoreInv, SessionInv, OwnInv, LeaseInv,
         OneHolderPerFence
<1>2. /\ UNCHANGED <<fence, next, phase, view>> /\ job'[n] = NoCheckpoint
      /\ \A m \in Nodes \ {n} : job'[m] = job[m]
  BY Zenon DEF SaveCheckpoint, leaseVars, StoreInv, Types
<1>3. /\ DOMAIN savedBy = 1 .. Len(saves) /\ DOMAIN savedBy' = 1 .. new /\ Len(saves) \in Nat
      /\ saves'[new] = job[n].covers /\ savedBy'[new] = fence[n]
      /\ \A i \in 1 .. Len(saves) : saves'[i] = saves[i] /\ savedBy'[i] = savedBy[i]
  BY SavesMore, Zenon
<1> HIDE DEF new
<1>4. \A i \in 1 .. new : i = new \/ i \in 1 .. Len(saves)
  BY <1>3 DEF new
<1>5. \A i \in DOMAIN savedBy' : savedBy'[i] <= next'
  BY <1>1, <1>2, <1>3, <1>4, Zenon DEF OwnInv
<1>6. \A m \in Nodes : job'[m] # NoCheckpoint => job'[m].covers \subseteq view'[m]
  BY <1>2, Zenon DEF OwnInv
<1>7. ASSUME NEW m \in Nodes, NEW i \in 1 .. Len(saves), fence[m] # 0, savedBy[i] = fence[m]
      PROVE  Has(m, saves[i])'
  <2>1. Has(m, saves[i])
    BY <1>3, <1>7, Zenon DEF OwnInv
  <2> QED
    BY <1>2, <1>3, <2>1, Zenon DEF Has
<1>8. ASSUME NEW i, i = new
      PROVE  Has(n, saves[i])'
  BY <1>1, <1>2, <1>3, <1>8, Zenon DEF Has
<1>9. ASSUME NEW m \in Nodes, NEW i \in DOMAIN savedBy', fence'[m] # 0, savedBy'[i] = fence'[m]
      PROVE  Has(m, saves[i])'
  <2>1. CASE i = new
    BY <1>1, <1>2, <1>3, <1>8, <1>9, <2>1, Zenon
  <2>2. CASE i \in 1 .. Len(saves)
    BY <1>2, <1>3, <1>7, <1>9, <2>2, Zenon
  <2> QED
    BY <1>3, <1>4, <1>9, <2>1, <2>2, Zenon
<1> QED
  BY <1>5, <1>6, <1>9, Zenon DEF OwnInv

\* The second half of a save finds the document: nobody deletes it in between.
LEMMA StateDrop ==
  ASSUME StoreInv, StateInv, NEW n \in Nodes, DropVector(n)
  PROVE  StateInv'
<1>1. erased < Len(saves) /\ blob.state # NoDocument /\ blob.state \in Saved
  BY DEF DropVector, StateInv, StoreInv, Types
<1>2. /\ blob'.state = [blob.state EXCEPT !.vector = NoVector] /\ blob'.fence = blob.fence
      /\ UNCHANGED <<saves, savedBy, erased>> /\ halfway' \subseteq halfway
  BY <1>1, Zenon DEF DropVector, dropVector, StoreInv, Types
<1>3. /\ blob'.state \in Saved
      /\ blob'.state.covers = blob.state.covers /\ blob'.state.vector = NoVector
  BY <1>1, <1>2, Zenon DEF Saved
<1>4. blob'.state # NoDocument
  BY <1>3, ClusterAssumption
<1> QED
  BY <1>1, <1>2, <1>3, <1>4, Zenon DEF StateInv

LEMMA StateDelete ==
  ASSUME Disciplined, StoreInv, StateInv, NEW n \in Nodes, DeleteState(n)
  PROVE  StateInv'
<1>1. /\ blob'.state = NoDocument /\ blob'.fence = blob.fence /\ erased' = Len(saves)
      /\ UNCHANGED <<saves, savedBy>> /\ halfway' = {} /\ Len(saves) \in Nat
  BY DEF DeleteState, Deletes, deleteState, StoreInv, Types
<1>2. Len(saves) + 1 .. Len(saves) = {} /\ Len(saves) <= Len(saves) /\ ~(Len(saves) < Len(saves))
  BY <1>1
<1> QED
  BY <1>1, <1>2, Zenon DEF StateInv

LEMMA WholeStep ==
  ASSUME Disciplined, StoreInv, LeaseInv, StateInv, OwnInv, [Next]_vars
  PROVE  StateInv' /\ OwnInv'
<1> USE DEF storeVars, logVars, blobVars, nodeVars, leaseVars
<1>1. ASSUME NEW n \in Nodes,
             LoseLease(n) \/ ReleaseLease(n) \/ Crash(n) \/ Refused(n) \/ LoadFails(n)
      PROVE  StateInv' /\ OwnInv'
  BY <1>1, EndsIdle, OwnIdle, StateSame, Zenon DEF GoesIdle
<1>2. ASSUME Tick \/ UNCHANGED vars \/ \E n \in Nodes : RenewLease(n)
      PROVE  StateInv' /\ OwnInv'
  BY <1>2, OnlyTheLease, StateSame, OwnGrows, Zenon DEF LeaseOnly, StoreInv, SessionInv
<1>3. ASSUME NEW n \in Nodes, AcquireLease(n)
      PROVE  StateInv' /\ OwnInv'
  BY <1>3, OwnAcquire, StateSame, Zenon DEF AcquireLease
<1>4. ASSUME NEW n \in Nodes, LoadFirst(n) \/ LoadNext(n) \/ LoadCheckpoint(n)
      PROVE  StateInv' /\ OwnInv'
  <2>1. UNCHANGED <<blobVars, leaseVars, job>> /\ phase[n] # "serving"
    BY <1>4, Zenon DEF LoadFirst, LoadNext, LoadCheckpoint
  <2>2. \A m \in Nodes \ {n} : phase'[m] = phase[m] /\ view'[m] = view[m]
    BY <1>4, Zenon DEF LoadFirst, LoadNext, LoadCheckpoint, Take, StoreInv, Types
  <2> QED
    BY <2>1, <2>2, StateSame, OwnGrows, Zenon DEF StoreInv, SessionInv
<1>5. ASSUME NEW n \in Nodes, AppendUpdate(n) \/ Change(n)
      PROVE  StateInv' /\ OwnInv'
  <2>1. UNCHANGED <<blob, saves, savedBy, erased, halfway, leaseVars, job, phase>>
    BY <1>5, Zenon DEF AppendUpdate, Change
  <2>2. \A m \in Nodes : view[m] \subseteq view'[m]
    <3>1. \E x : view' = [view EXCEPT ![n] = @ \cup {x}]
      BY <1>5, Zenon DEF AppendUpdate, Change
    <3> QED
      BY <3>1 DEF StoreInv, Types
  <2> QED
    BY <2>1, <2>2, StateSame, OwnGrows, Zenon DEF StoreInv, SessionInv
<1>6. ASSUME NEW n \in Nodes,
             Encode(n) \/ Compact(n) \/ CompactConflict(n) \/ CompactMissing(n)
      PROVE  StateInv' /\ OwnInv'
  <2>1. UNCHANGED <<blobVars, leaseVars, phase, view>>
    BY <1>6, Zenon DEF Encode, Compact, CompactConflict, CompactMissing, CompactReturns
  <2>2. /\ \A m \in Nodes \ {n} : job'[m] = job[m]
        /\ \/ job'[n] = NoCheckpoint
           \/ phase[n] = "serving" /\ job'[n] = [revision |-> through[n], covers |-> view[n]]
    BY <1>6, Zenon DEF Encode, Compact, CompactConflict, CompactMissing, CompactReturns, StoreInv, Types
  <2> QED
    BY <2>1, <2>2, StateSame, OwnGrows, Zenon DEF StoreInv, SessionInv
<1>7. ASSUME NEW n \in Nodes, SaveCheckpoint(n)
      PROVE  StateInv' /\ OwnInv'
  BY <1>7, StateSave, OwnSave
<1>8. ASSUME NEW n \in Nodes, DropVector(n) \/ DeleteState(n) \/ Delete(n)
      PROVE  StateInv' /\ OwnInv'
  <2>1. UNCHANGED <<saves, savedBy, leaseVars, nodeVars>>
    BY <1>8, Zenon DEF DropVector, DeleteState, Delete, Deletes
  <2>2. OwnInv'
    BY <2>1, OwnGrows, Zenon DEF StoreInv, SessionInv
  <2>3. StateInv'
    BY <1>8, StateDrop, StateDelete, StateSame, Zenon DEF Delete
  <2> QED
    BY <2>2, <2>3
<1> QED
  BY <1>1, <1>2, <1>3, <1>4, <1>5, <1>6, <1>7, <1>8, Zenon DEF Next

\* A document that is loaded from a checkpoint store is one whole save, the last
\* one since the deletion, with all that its owner had saved before, for any
\* number of nodes, changes, saves and deletions; a deletion comes when nobody
\* serves the document.
THEOREM CheckpointsAreWhole ==
  ASSUME Disciplined
  PROVE  Spec => []CheckpointIsWhole
<1> DEFINE All == LeaseInv /\ SaveInv /\ StoreInv /\ StateInv /\ OwnInv
<1>1. Init => All
  BY LeaseInitially, SaveInitially, StoreInitially, WholeInitially
<1>2. All /\ [Next]_vars => All'
  BY LeaseStep, SaveStep, StoreStep, WholeStep, Zenon
<1>3. All => CheckpointIsWhole
  <2> SUFFICES ASSUME All PROVE CheckpointIsWhole
    OBVIOUS
  <2>1. erased \in Nat /\ Len(saves) \in Nat /\ erased <= Len(saves)
    BY DEF StoreInv, Types, StateInv
  <2>2. erased + 1 .. Len(saves) = {} <=> erased = Len(saves)
    <3>1. erased < Len(saves) => Len(saves) \in erased + 1 .. Len(saves)
      BY <2>1
    <3>2. erased = Len(saves) => erased + 1 .. Len(saves) = {}
      BY <2>1
    <3> QED
      BY <2>1, <3>1, <3>2
  <2>3. erased # Len(saves) <=> erased < Len(saves)
    BY <2>1
  <2> QED
    BY <2>2, <2>3, Zenon DEF CheckpointIsWhole, StateInv, SaveInv
<1> HIDE DEF All
<1> QED
  BY <1>1, <1>2, <1>3, PTL DEF Spec

=============================================================================
