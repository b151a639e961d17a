------------------------------ MODULE Cluster -------------------------------
(***************************************************************************)
(* Nodes that serve one document in turn: each acquires a lease from the   *)
(* coordinator (Leases), recovers the document page by page from a fenced  *)
(* store (LogStore), appends the updates of its clients and folds what it  *)
(* has into checkpoints.  Or the nodes share a store of the checkpoint     *)
(* profile (CheckpointStore), load the whole state and save it again.  A   *)
(* node that was paused or cut off goes on with the fence it has after its *)
(* lease expired: the store is the last one to stop it.                    *)
(***************************************************************************)
EXTENDS Leases, CheckpointStore

CONSTANTS
  Profiles,     \* the stores nodes may share: "log", "checkpoint", and "bare" for
                \* the checkpoint store that keeps no state vector
  MaxChanges,   \* bound on changes to live documents over a checkpoint store
  MaxSaves,     \* bound on saves of checkpoints
  MaxUpdates,   \* bound on the updates appended
  MaxDeletes,   \* bound on deletions of the document
  Disciplined   \* compaction waits for page-wise loads, and a deletion follows
                \* the order that the comment on Deleter prescribes

\* What a store may hold of updates that are called 1, 2 and so on.
Checkpoints == [revision : Nat, covers : SUBSET Nat]

Records == [revision : Nat, update : Nat, fence : Nat]

Histories ==
  [revision : Nat, fence : Nat, checkpoint : Checkpoints \cup {NoCheckpoint},
   records : Seq(Records)]

Saved == [revision : Nat, covers : SUBSET Nat, vector : (SUBSET Nat) \cup {NoVector}]

ASSUME ClusterAssumption ==
  /\ Profiles \subseteq {"log", "checkpoint", "bare"}
  /\ MaxChanges \in Nat /\ MaxSaves \in Nat /\ MaxUpdates \in Nat /\ MaxDeletes \in Nat
  /\ Disciplined \in BOOLEAN
  /\ NoCheckpoint \notin Checkpoints /\ NoDocument \notin Histories \cup Saved

VARIABLES
  profile,    \* the profile of the store
  blob,       \* the checkpoint store
  saves,      \* what the saves it accepted covered (history)
  savedBy,    \* and their fences (history)
  erased,     \* the number of them before the last deletion (history)
  made,       \* the number of changes made to live documents over it; they are
              \* called 1 .. made
  halfway,    \* the nodes between the two halves of a save by the bare store
  document,   \* s.data.docs of the document
  acked,      \* the number of updates acknowledged since the last deletion; they
              \* are called 1 .. acked
  deletes,    \* the deletions so far
  phase,      \* what a node does: "idle", "loading", "serving"
  view,       \* the updates a node has (its live document)
  through,    \* Page.Through of its load, moved on by its own appends as long as
              \* nobody else's came in between: what it may compact
  offset,     \* the offset in its page token
  job,        \* the checkpoint a node has encoded and not yet installed
  promised    \* acked when its load began (history)

logVars == <<document, acked>>
blobVars == <<blob, saves, savedBy, erased, made, halfway>>
storeVars == <<profile, deletes, logVars, blobVars>>
nodeVars == <<phase, view, through, offset, job, promised>>
vars == <<leaseVars, storeVars, nodeVars>>

Init ==
  /\ LeaseInit
  /\ profile \in Profiles
  /\ blob = EmptyStore
  /\ saves = <<>> /\ savedBy = <<>> /\ erased = 0 /\ made = 0 /\ halfway = {}
  /\ document = NoDocument
  /\ acked = 0
  /\ deletes = 0
  /\ phase = [n \in Nodes |-> "idle"]
  /\ view = [n \in Nodes |-> {}]
  /\ through = [n \in Nodes |-> 0]
  /\ offset = [n \in Nodes |-> 0]
  /\ job = [n \in Nodes |-> NoCheckpoint]
  /\ promised = [n \in Nodes |-> 0]

Idle(n) ==
  /\ phase' = [phase EXCEPT ![n] = "idle"]
  /\ view' = [view EXCEPT ![n] = {}]
  /\ through' = [through EXCEPT ![n] = 0]
  /\ offset' = [offset EXCEPT ![n] = 0]
  /\ job' = [job EXCEPT ![n] = NoCheckpoint]
  /\ promised' = [promised EXCEPT ![n] = 0]

-----------------------------------------------------------------------------
(* Leases.                                                                 *)

AcquireLease(n) ==
  /\ phase[n] = "idle" /\ fence[n] = 0
  /\ Acquire(n)
  /\ UNCHANGED <<storeVars, nodeVars>>

RenewLease(n) == Renew(n) /\ UNCHANGED <<storeVars, nodeVars>>

LoseLease(n) == RenewLost(n) /\ Idle(n) /\ UNCHANGED storeVars

ReleaseLease(n) == Release(n) /\ Idle(n) /\ UNCHANGED storeVars

\* The node dies: its lease stays until it expires.
Crash(n) ==
  /\ fence[n] # 0
  /\ fence' = [fence EXCEPT ![n] = 0]
  /\ Idle(n)
  /\ halfway' = halfway \ {n}
  /\ UNCHANGED <<next, owner, left, profile, deletes, logVars, blob, saves, savedBy, erased,
                 made>>

Tick == Advance /\ UNCHANGED <<storeVars, nodeVars>>

-----------------------------------------------------------------------------
(* Recovery.                                                               *)

\* A page of the recovery view arrives; the last one completes it.
Take(n, page, first) ==
  /\ view' = [view EXCEPT ![n] = @ \cup first \cup page.updates]
  /\ offset' = [offset EXCEPT ![n] = page.next]
  /\ phase' = [phase EXCEPT ![n] = IF page.more THEN "loading" ELSE "serving"]

\* The first page fixes Through and brings the checkpoint; a missing document is
\* a new one.
LoadFirst(n) ==
  /\ profile = "log" /\ phase[n] = "idle" /\ fence[n] # 0
  /\ promised' = [promised EXCEPT ![n] = acked]
  /\ through' = [through EXCEPT ![n] = OrNew(document).revision]
  /\ Take(n, loadPage(OrNew(document), OrNew(document).revision, 0),
          Covered(OrNew(document).checkpoint))
  /\ UNCHANGED <<leaseVars, storeVars, job>>

LoadNext(n) ==
  /\ phase[n] = "loading" /\ document # NoDocument
  /\ LET page == loadPage(document, through[n], offset[n]) IN
       ~page.corrupt /\ Take(n, page, {})
  /\ UNCHANGED <<leaseVars, storeVars, through, job, promised>>

\* The context ends, or the token no longer fits (ErrCorrupt, ErrNotFound): the
\* load is given up.
LoadFails(n) ==
  /\ phase[n] = "loading"
  /\ Idle(n)
  /\ UNCHANGED <<leaseVars, storeVars>>

-----------------------------------------------------------------------------
(* Mutations.                                                              *)

\* Append with the node's fence.
AppendUpdate(n) ==
  /\ profile = "log" /\ phase[n] = "serving" /\ acked < MaxUpdates
  /\ acceptFence(OrNew(document), fence[n])
  /\ acked' = acked + 1
  /\ document' = appendRecord(OrNew(document), fence[n], acked')
  /\ view' = [view EXCEPT ![n] = @ \cup {acked'}]
  /\ through' = [through EXCEPT ![n] = IF document'.revision = @ + 1 THEN @ + 1 ELSE @]
  /\ UNCHANGED <<leaseVars, profile, deletes, blobVars, phase, offset, job, promised>>

\* A mutation with a stale fence is refused, and the node gives up.
Refused(n) ==
  /\ phase[n] = "serving"
  /\ IF profile = "log" THEN ~acceptFence(OrNew(document), fence[n])
     ELSE ~acceptCheckpointFence(blob, fence[n])
  /\ Idle(n)
  /\ fence' = [fence EXCEPT ![n] = 0]
  /\ UNCHANGED <<next, owner, left, storeVars>>

\* The node encodes what it has, to install it as a checkpoint later.
Encode(n) ==
  /\ phase[n] = "serving" /\ job[n] = NoCheckpoint
  /\ job' = [job EXCEPT ![n] = [revision |-> through[n], covers |-> view[n]]]
  /\ UNCHANGED <<leaseVars, storeVars, phase, view, through, offset, promised>>

\* The call of Compact returns; the node forgets its job.
CompactReturns(n, history) ==
  /\ document' = history
  /\ job' = [job EXCEPT ![n] = NoCheckpoint]
  /\ UNCHANGED <<leaseVars, profile, acked, deletes, blobVars, phase, view, through,
                 offset, promised>>

Compact(n) ==
  /\ job[n] # NoCheckpoint /\ document # NoDocument
  /\ Disciplined => \A m \in Nodes : phase[m] # "loading"
  /\ acceptFence(document, fence[n]) /\ admitsBasis(document, job[n].revision)
  /\ CompactReturns(n, compactHistory(document, fence[n], job[n].revision, job[n].covers))

\* ErrConflict comes after the fence was accepted, and leaves it raised.
CompactConflict(n) ==
  /\ job[n] # NoCheckpoint /\ document # NoDocument
  /\ acceptFence(document, fence[n]) /\ ~admitsBasis(document, job[n].revision)
  /\ CompactReturns(n, [document EXCEPT !.fence = fence[n]])

\* There is nothing to compact: ErrNotFound.
CompactMissing(n) ==
  /\ profile = "log" /\ job[n] # NoCheckpoint /\ document = NoDocument
  /\ CompactReturns(n, document)

\* When a node asks for a deletion: in the order prescribed, nobody serves the
\* document and no save is under way.
Deletes(n) ==
  /\ fence[n] # 0 /\ deletes < MaxDeletes
  /\ Disciplined => /\ phase[n] = "idle" /\ halfway = {}
                    /\ \A m \in Nodes \ {n} : fence[m] = 0
  /\ deletes' = deletes + 1
  /\ UNCHANGED <<leaseVars, nodeVars, profile>>

\* Delete removes the history with its fence.
Delete(n) ==
  /\ profile = "log"
  /\ Deletes(n)
  /\ acceptFence(OrNew(document), fence[n])
  /\ document' = NoDocument
  /\ acked' = 0
  /\ UNCHANGED blobVars

-----------------------------------------------------------------------------
(* The checkpoint profile.                                                 *)

LoadCheckpoint(n) ==
  /\ profile # "log" /\ phase[n] = "idle" /\ fence[n] # 0
  /\ view' = [view EXCEPT ![n] = loadCheckpoint(blob)]
  /\ phase' = [phase EXCEPT ![n] = "serving"]
  /\ UNCHANGED <<leaseVars, storeVars, through, offset, job, promised>>

\* A client of the node changes the live document.
Change(n) ==
  /\ profile # "log" /\ phase[n] = "serving" /\ made < MaxChanges
  /\ made' = made + 1
  /\ view' = [view EXCEPT ![n] = @ \cup {made'}]
  /\ UNCHANGED <<leaseVars, profile, deletes, logVars, blob, saves, savedBy, erased, halfway,
                 phase, through, offset, job, promised>>

\* The save of what was encoded, which the live document may have left behind.
SaveCheckpoint(n) ==
  /\ profile # "log" /\ job[n] # NoCheckpoint /\ n \notin halfway
  /\ Len(saves) < MaxSaves
  /\ acceptCheckpointFence(blob, fence[n])
  /\ blob' = saveCheckpoint(blob, fence[n], job[n].covers)
  /\ saves' = Append(saves, job[n].covers)
  /\ savedBy' = Append(savedBy, fence[n])
  /\ halfway' = IF profile = "bare" THEN halfway \cup {n} ELSE halfway
  /\ job' = [job EXCEPT ![n] = NoCheckpoint]
  /\ UNCHANGED <<leaseVars, profile, deletes, logVars, erased, made, phase, view, through,
                 offset, promised>>

DropVector(n) ==
  /\ n \in halfway
  /\ halfway' = halfway \ {n}
  /\ blob' = dropVector(blob)
  /\ UNCHANGED <<leaseVars, nodeVars, profile, deletes, logVars, saves, savedBy, erased, made>>

DeleteState(n) ==
  /\ profile # "log"
  /\ Deletes(n)
  /\ acceptCheckpointFence(blob, fence[n])
  /\ blob' = deleteState(blob)
  /\ erased' = Len(saves)
  /\ UNCHANGED <<logVars, saves, savedBy, made, halfway>>

Next ==
  \/ Tick
  \/ \E n \in Nodes :
       \/ AcquireLease(n) \/ RenewLease(n) \/ LoseLease(n) \/ ReleaseLease(n)
       \/ Crash(n)
       \/ LoadFirst(n) \/ LoadNext(n) \/ LoadFails(n)
       \/ AppendUpdate(n) \/ Refused(n) \/ Encode(n)
       \/ Compact(n) \/ CompactConflict(n) \/ CompactMissing(n) \/ Delete(n)
       \/ LoadCheckpoint(n) \/ Change(n) \/ SaveCheckpoint(n) \/ DropVector(n)
       \/ DeleteState(n)

Spec == Init /\ [][Next]_vars

-----------------------------------------------------------------------------
\* No two nodes ever hold the same fence, and the node of a current lease, if it
\* still has its fence, has the newest: a newer owner can always be told from
\* an older one (Coordinator.Acquire, Renew and Release).
OneHolderPerFence ==
  /\ \A n, m \in Nodes : n # m /\ fence[n] # 0 => fence[n] # fence[m]
  /\ owner \in Nodes => fence[owner] \in {0, next}

\* Every acknowledged update can be recovered: it is in the checkpoint or in a
\* record after it, whoever appended and compacted in what order.
NothingForgotten ==
  /\ acked > 0 => document # NoDocument
  /\ document # NoDocument =>
       1 .. acked = Covered(document.checkpoint) \cup Updates(document.records)

\* The tail is in order of revision, past the checkpoint, and written under
\* fences that never go back: once the store has accepted a newer owner, nothing
\* of a superseded one gets in.
TailInOrder ==
  document # NoDocument =>
    LET records == document.records IN
    /\ \A i \in DOMAIN records : records[i].fence <= document.fence
    /\ \A i, j \in DOMAIN records : i < j =>
         /\ records[i].revision < records[j].revision
         /\ records[i].fence <= records[j].fence
    /\ document.checkpoint # NoCheckpoint =>
         \A i \in DOMAIN records : records[i].revision > document.checkpoint.revision

\* A recovery that reports its view complete holds all that was acknowledged when
\* it began, whatever was appended between its pages.
RecoveryIsComplete ==
  \A n \in Nodes : phase[n] = "serving" => 1 .. promised[n] \subseteq view[n]

\* Saves come in the order of their fences, over deletions too: once a newer owner
\* has saved, nothing of a superseded one replaces it.
SavesByFence == \A i, j \in DOMAIN savedBy : i < j => savedBy[i] <= savedBy[j]

\* The checkpoint store holds one whole save: the last one since the document was
\* deleted, and nothing if there was none, so neither half of a save by the bare
\* store brings an older or an erased state back; and what an owner has saved is
\* not taken back by a later save of its own (SaveCheckpoint, Delete and the two
\* critical sections of BareUpdateCheckpointStore.SaveCheckpoint).
CheckpointIsWhole ==
  LET live == erased + 1 .. Len(saves)
      last == saves[Len(saves)]
  IN  /\ SavesByFence
      /\ (blob.state = NoDocument) <=> (live = {})
      /\ live # {} =>
           /\ blob.state.covers = last
           /\ blob.state.vector \in {NoVector, last}
           /\ \A i \in live : savedBy[i] = blob.fence => saves[i] \subseteq last

=============================================================================
