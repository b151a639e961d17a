----------------------------- MODULE Placement ------------------------------
(***************************************************************************)
(* Where an item goes in the list of its parent (the first half of         *)
(* itemStruct.integrateWithScratch, crdt/item.go).                         *)
(*                                                                         *)
(* L is the list, a sequence of ids <<client, clock>>; st maps each of them*)
(* to its struct, whose origin and rightOrigin are the ids of the items    *)
(* that were left and right of it where it was made, or Nil.               *)
(***************************************************************************)
EXTENDS Integers, Sequences, Functions

CONSTANTS Clients,  \* client ids, naturals: conflicts are decided by <
          Clocks,   \* the clocks of a client's structs
          Nil       \* no origin

ASSUME PlacementAssumption ==
  /\ Clients \subseteq Nat /\ Clocks \subseteq Nat
  /\ Nil \notin Clients \X Clocks

\* Where x is in L.
Pos(L, x) == CHOOSE n \in DOMAIN L : L[n] = x

\* The positions of item.left and item.right, with both ends of the list.
LeftEnd(L, s)  == IF s.origin = Nil THEN 0 ELSE Pos(L, s.origin)
RightEnd(L, s) == IF s.rightOrigin = Nil THEN Len(L) + 1 ELSE Pos(L, s.rightOrigin)

\* One turn of the conflict scan, whose o is the item at position i.  A turn
\* that does not break moves left to o and resets conflictingItems, or goes on.
scanTurn(st, s, L, i, turn) ==
  LET o           == st[L[i]]
      before      == turn.itemsBeforeOrigin \cup {L[i]}
      conflicting == turn.conflictingItems \cup {L[i]}
      breaks      == IF o.origin = s.origin
                     THEN L[i][1] >= s.id[1] /\ o.rightOrigin = s.rightOrigin
                     ELSE o.origin \notin before
      behind      == IF o.origin = s.origin THEN L[i][1] < s.id[1]
                     ELSE o.origin \notin conflicting
  IN  IF turn.over \/ breaks THEN [turn EXCEPT !.over = TRUE]
      ELSE [left              |-> IF behind THEN i ELSE turn.left,
            itemsBeforeOrigin |-> before,
            conflictingItems  |-> IF behind THEN {} ELSE conflicting,
            over              |-> FALSE]

\* The scan over the items between l and r: the position the item goes behind.
conflictScan(st, s, L, l, r) ==
  LET scan[i \in l .. r - 1] ==
        IF i = l THEN [left |-> l, itemsBeforeOrigin |-> {},
                       conflictingItems |-> {}, over |-> FALSE]
        ELSE scanTurn(st, s, L, i, scan[i - 1])
  IN  scan[r - 1].left

\* Definitions named Fault... are deliberately wrong variants of the definition
\* that follows them: each stands for a plausible slip in that code, to see
\* that a property notices it.
FaultInsertAtLeft(st, s, L) == LeftEnd(L, s)

\* Right behind its left neighbour, unless something is already between that
\* and its right neighbour.
insertAfter(st, s, L) ==
  LET l == LeftEnd(L, s)
      r == RightEnd(L, s)
  IN  IF l + 1 = r THEN l ELSE conflictScan(st, s, L, l, r)

\* Linking x in, with the item at position at on its left.
InsertBehind(L, at, x) == SubSeq(L, 1, at) \o <<x>> \o SubSeq(L, at + 1, Len(L))

\* The list with the item in it.
place(st, s, L) == InsertBehind(L, insertAfter(st, s, L), s.id)

-----------------------------------------------------------------------------
(* What makes the order of a list a function of its structs.               *)

\* An item is between the two it was put between.
Between(st, L) ==
  \A n \in DOMAIN L :
    /\ {st[L[n]].origin, st[L[n]].rightOrigin} \subseteq Range(L) \cup {Nil}
    /\ LeftEnd(L, st[L[n]]) < n /\ n < RightEnd(L, st[L[n]])

\* What is between an item and its origin has its own origin there.
NoCrossing(st, L) ==
  \A m, n \in DOMAIN L :
    LeftEnd(L, st[L[n]]) < m /\ m < n => LeftEnd(L, st[L[n]]) <= LeftEnd(L, st[L[m]])

\* Of two items with one origin the one of the lower client is first, unless
\* the other one was put before something that is.
ByClient(st, L) ==
  \A m, n \in DOMAIN L :
    m < n /\ st[L[m]].origin = st[L[n]].origin =>
      L[m][1] < L[n][1] \/ RightEnd(L, st[L[m]]) <= n

\* A list is in order.
InOrder(st, L) ==
  /\ \A m, n \in DOMAIN L : L[m] = L[n] => m = n
  /\ Between(st, L)
  /\ NoCrossing(st, L)
  /\ ByClient(st, L)

=============================================================================
