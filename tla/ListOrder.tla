----------------------------- MODULE ListOrder ------------------------------
(***************************************************************************)
(* What the replicas of one list promise of its order, however the items   *)
(* travel: a replica puts a new item between two neighbours of its list,   *)
(* and takes in the items of others in any order and in groups of any      *)
(* size, as long as what an item refers to, and what its client put in     *)
(* the list before it, are there.                                          *)
(*                                                                         *)
(*   items     the items made so far, by id                                *)
(*   lists[c]  the list of the replica that writes as client c             *)
(***************************************************************************)
EXTENDS Placement, FiniteSets

VARIABLES items, lists

vars == <<items, lists>>

Init ==
  /\ items = <<>>
  /\ lists = [c \in Clients |-> <<>>]

\* A new item of client c behind the n-th one of its list.
Made(c, k, n) ==
  [id |-> <<c, k>>,
   origin |-> IF n = 0 THEN Nil ELSE lists[c][n],
   rightOrigin |-> IF n = Len(lists[c]) THEN Nil ELSE lists[c][n + 1]]

\* Replica c puts an item in its list.  The clocks of a client grow; what it
\* writes to other types takes clocks as well.
Insert(c) ==
  \E k \in Clocks, n \in 0 .. Len(lists[c]) :
    /\ \A x \in DOMAIN items : x[1] = c => x[2] < k
    /\ items' = [x \in DOMAIN items \cup {<<c, k>>} |->
                   IF x = <<c, k>> THEN Made(c, k, n) ELSE items[x]]
    /\ lists' = [lists EXCEPT ![c] = place(items, Made(c, k, n), @)]

\* What s refers to, and what its client made before it, are in the list
\* (missingClient, and the clock that integrateStructs compares); s is not.
Ready(s, L) ==
  /\ s.id \notin Range(L)
  /\ {s.origin, s.rightOrigin} \subseteq Range(L) \cup {Nil}
  /\ \A x \in DOMAIN items : x[1] = s.id[1] /\ x[2] < s.id[2] => x \in Range(L)

\* An item that is not ready stays out of the list.
takeIn(x, L) == IF Ready(items[x], L) THEN place(items, items[x], L) ELSE L

\* The list after the items of ids, one after the other.
takeAll(ids, L) ==
  LET taken[k \in 0 .. Len(ids)] ==
        IF k = 0 THEN L ELSE takeIn(ids[k], taken[k - 1])
  IN  taken[Len(ids)]

\* Replica c takes in items of others, in the order of ids.
Integrate(c) ==
  LET rest == DOMAIN items \ Range(lists[c])
  IN  /\ UNCHANGED items
      /\ \E n \in 0 .. Cardinality(rest) : \E ids \in [1 .. n -> rest] :
           lists' = [lists EXCEPT ![c] = takeAll(ids, @)]

Next == \E c \in Clients : Integrate(c) \/ Insert(c)

Spec == Init /\ [][Next]_vars

-----------------------------------------------------------------------------
\* A and B have the items they share in one order.
Agree(A, B) ==
  \A x, y \in Range(A) \cap Range(B) : Pos(A, x) < Pos(A, y) => Pos(B, x) < Pos(B, y)

\* Two replicas never disagree on the order of two items both have, whatever
\* each of them has besides and in whichever order it came (the conflict scan
\* of integrateWithScratch).
OrderAgreement == \A c, d \in Clients : Agree(lists[c], lists[d])

\* Every list is in the order its structs determine: each item stays between
\* the two it was put between, and conflicts are decided by the client
\* (integrateWithScratch).
ListsInOrder == \A c \in Clients : InOrder(items, lists[c])

\* Replicas that have the same items have the same list, in whichever order and
\* grouping the updates brought them (readUpdateV2).
Convergence ==
  \A c, d \in Clients : Range(lists[c]) = Range(lists[d]) => lists[c] = lists[d]

\* No step takes an item out of a list or moves two items past each other:
\* integration links one in, and a deleted item stays where it is.
KeepsOrder ==
  [][\A c \in Clients : /\ Range(lists[c]) \subseteq Range(lists'[c])
                        /\ Agree(lists[c], lists'[c])]_vars

=============================================================================
