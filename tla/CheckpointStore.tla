--------------------------- MODULE CheckpointStore ---------------------------
(***************************************************************************)
(* The checkpoint profile of the persistence contract, as the stores of    *)
(* backend/internal/backendtest/checkpoint.go implement it, for one        *)
(* document: a save replaces the state.  A checkpoint is the set of        *)
(* updates it covers; its state vector is the set of updates it claims.    *)
(*                                                                         *)
(* A store is a record                                                     *)
(*   state     [revision, covers, vector], or NoDocument                   *)
(*   fence     the fence of the last save, 0 before the first              *)
(*   revision  the last revision assigned                                  *)
(***************************************************************************)
EXTENDS LogStore

CONSTANT NoVector   \* the nil StateVector

EmptyStore == [state |-> NoDocument, fence |-> 0, revision |-> 0]

FaultAcceptsStaleFence(store, fence) == fence # 0

\* Of a Fenced store.  A fence is remembered by a save only.
acceptCheckpointFence(store, fence) == fence # 0 /\ fence >= store.fence

saveCheckpoint(store, fence, covers) ==
  [state |-> [revision |-> store.revision + 1, covers |-> covers, vector |-> covers],
   fence |-> fence, revision |-> store.revision + 1]

\* The second half of a save by BareUpdateCheckpointStore, which has no place for
\* the vector; it writes back what it finds, and the zero Checkpoint if there is
\* nothing any more.
dropVector(store) ==
  [store EXCEPT !.state = IF @ = NoDocument
                          THEN [revision |-> 0, covers |-> {}, vector |-> NoVector]
                          ELSE [@ EXCEPT !.vector = NoVector]]

\* LoadCheckpoint; ErrNotFound is a new document.
loadCheckpoint(store) == IF store.state = NoDocument THEN {} ELSE store.state.covers

\* Delete leaves the fence.
deleteState(store) == [store EXCEPT !.state = NoDocument]

=============================================================================
