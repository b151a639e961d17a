------------------------------ MODULE LogStore ------------------------------
(***************************************************************************)
(* The log profile of the persistence contract, as the store of            *)
(* backend/internal/backendtest/store.go implements it: what each call     *)
(* does to the history of one document.  Every call is one critical        *)
(* section.  Updates are abstract; a checkpoint is the set of updates      *)
(* folded into it.                                                         *)
(*                                                                         *)
(* A history is a record                                                   *)
(*   revision   the last revision assigned                                 *)
(*   fence      the highest fence accepted                                 *)
(*   checkpoint [revision, covers], or NoCheckpoint                        *)
(*   records    sequence of [revision, update, fence]; the fence of a      *)
(*              record is a history variable, the store does not keep it   *)
(***************************************************************************)
EXTENDS Filtering

CONSTANTS
  NoDocument,    \* the document has no entry in s.data.docs
  NoCheckpoint,  \* the nil checkpoint
  Limit          \* LoadOptions.Limit (0: no limit)

ASSUME LimitAssumption == Limit \in Nat

EmptyHistory == [revision |-> 0, fence |-> 0, checkpoint |-> NoCheckpoint, records |-> <<>>]

Updates(records) == {records[i].update : i \in DOMAIN records}

Covered(checkpoint) == IF checkpoint = NoCheckpoint THEN {} ELSE checkpoint.covers

\* Definitions named Fault... are deliberately wrong variants of the definition
\* that follows them, to see that a property notices the difference.

FaultAcceptsAnyFence(document, fence) == fence # 0

\* acceptFence of a Fenced store: a fence is required and must not be stale.  The
\* history then keeps it, whatever becomes of the rest of the call.
acceptFence(document, fence) == fence # 0 /\ fence >= document.fence

\* The history a call works on.
OrNew(document) == IF document = NoDocument THEN EmptyHistory ELSE document

\* What Append does to the history once the fence is accepted.
appendRecord(document, fence, update) ==
  [document EXCEPT
     !.fence = fence,
     !.revision = @ + 1,
     !.records = Append(@, [revision |-> document.revision + 1, update |-> update,
                            fence |-> fence])]

\* The indices of the records a view that ends at revision through has.
Until(records, through) == {i \in DOMAIN records : records[i].revision <= through}

\* And of those that are after it.
After(records, through) == {i \in DOMAIN records : records[i].revision > through}

FaultPageSkips(document, through, offset) ==
  LET records == Keep(document.records, Until(document.records, through))
      end == IF Limit > 0 /\ Len(records) > offset + Limit THEN offset + Limit ELSE Len(records)
  IN  [updates |-> {records[i].update : i \in offset + 2 .. end},
       corrupt |-> offset > Len(records), more |-> end < Len(records), next |-> end]

\* Load: the page of the view that ends at revision through, from an offset into
\* what is left of it.
loadPage(document, through, offset) ==
  LET records == Keep(document.records, Until(document.records, through))
      end == IF Limit > 0 /\ Len(records) > offset + Limit THEN offset + Limit ELSE Len(records)
  IN  [updates |-> {records[i].update : i \in offset + 1 .. end},
       corrupt |-> offset > Len(records), more |-> end < Len(records), next |-> end]

FaultAdmitsOldBasis(document, basis) == basis <= document.revision

\* Compact refuses a basis that is in the future or behind the checkpoint.
admitsBasis(document, basis) ==
  /\ basis <= document.revision
  /\ document.checkpoint # NoCheckpoint => basis >= document.checkpoint.revision

\* Compact installs the checkpoint and keeps the records after its basis.
compactHistory(document, fence, basis, covers) ==
  [document EXCEPT !.fence = fence, !.checkpoint = [revision |-> basis, covers |-> covers],
                   !.records = Keep(@, After(@, basis))]

=============================================================================
