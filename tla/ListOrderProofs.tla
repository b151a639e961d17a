-------------------------- MODULE ListOrderProofs ---------------------------
(***************************************************************************)
(* Proofs about ListOrder, and with it about the conflict scan of          *)
(* integrateWithScratch (crdt/item.go), for any number of replicas, items  *)
(* and orders of arrival:                                                  *)
(*                                                                         *)
(*   1. PlacingKeepsOrder: an item that fits a list is put where the list  *)
(*      stays in order.  The scan is followed turn by turn (OneTurn,       *)
(*      ScannedAll, Settles), then compared with each item of the list     *)
(*      (PlacedRight).                                                     *)
(*   2. OrderIsDetermined: two lists in order never disagree.  Of all      *)
(*      pairs on which they do, take one whose items were made earliest;   *)
(*      what these refer to is made earlier still and not in dispute       *)
(*      (NoFirstDisagreement).                                             *)
(*   3. AuthoredFits: what an author saw around a new item holds in its    *)
(*      own list for ever, therefore in every other one (Transfers), so    *)
(*      that the item fits wherever it is ready.                           *)
(*   4. The inductive invariant IInv puts the three together.              *)
(***************************************************************************)
EXTENDS ListOrder, WellFoundedInduction, TLAPS

\* No item is twice in the list.
Distinct(L) == \A m, n \in DOMAIN L : L[m] = L[n] => m = n

\* Positions and items of a list without repetitions correspond.
LEMMA PosOf == ASSUME NEW L, Distinct(L), NEW n \in DOMAIN L PROVE Pos(L, L[n]) = n
BY Zenon DEF Pos, Distinct

\* An item of a list has a position in it.
LEMMA PosIn == ASSUME NEW L, NEW x \in Range(L) PROVE Pos(L, x) \in DOMAIN L /\ L[Pos(L, x)] = x
<1>1. \E n \in DOMAIN L : L[n] = x
  BY Zenon DEF Range
<1> QED
  BY <1>1, Zenon DEF Pos

Ids == Clients \X Clocks

\* An id is a client and a clock, both numbers.
LEMMA IdNumbers ==
  \A x \in Ids : x[1] \in Clients /\ x[1] \in Nat /\ x[2] \in Nat /\ x = <<x[1], x[2]>>
<1>1. \A x \in Ids : x[1] \in Clients /\ x[2] \in Clocks /\ x = <<x[1], x[2]>>
  BY DEF Ids
<1> QED
  BY <1>1, PlacementAssumption

\* The positions of the origin and the right origin of the item at i.
From(st, L, i) == LeftEnd(L, st[L[i]])
To(st, L, i) == RightEnd(L, st[L[i]])

\* A list of ids that is in order.
Proper(st, L) ==
  /\ L \in Seq(Ids) /\ Nil \notin Range(L)
  /\ InOrder(st, L)

\* The ends of an item are positions of its references, or the list's ends.
LEMMA Ends ==
  ASSUME NEW L, NEW s, L \in Seq(Ids), {s.origin, s.rightOrigin} \subseteq Range(L) \cup {Nil}
  PROVE  /\ Len(L) \in Nat /\ DOMAIN L = 1 .. Len(L)
         /\ LeftEnd(L, s) \in 0 .. Len(L) /\ RightEnd(L, s) \in 1 .. Len(L) + 1
         /\ LeftEnd(L, s) # 0 => L[LeftEnd(L, s)] = s.origin
         /\ (s.origin = Nil) <=> (LeftEnd(L, s) = 0)
         /\ RightEnd(L, s) # Len(L) + 1 => L[RightEnd(L, s)] = s.rightOrigin
         /\ (s.rightOrigin = Nil) <=> (RightEnd(L, s) = Len(L) + 1)
<1>1. Len(L) \in Nat /\ DOMAIN L = 1 .. Len(L)
  OBVIOUS
<1>2. s.origin # Nil => Pos(L, s.origin) \in DOMAIN L /\ L[Pos(L, s.origin)] = s.origin
  BY PosIn, Zenon
<1>3. s.rightOrigin # Nil => Pos(L, s.rightOrigin) \in DOMAIN L /\ L[Pos(L, s.rightOrigin)] = s.rightOrigin
  BY PosIn, Zenon
<1> QED
  BY <1>1, <1>2, <1>3 DEF LeftEnd, RightEnd

\* What it is for a list to be in order, said of positions.
LEMMA Positions ==
  ASSUME NEW st, NEW L, Proper(st, L)
  PROVE  /\ Len(L) \in Nat /\ DOMAIN L = 1 .. Len(L) /\ Distinct(L)
         /\ \A i \in 1 .. Len(L) :
              /\ L[i] \in Ids /\ L[i][1] \in Nat
              /\ {st[L[i]].origin, st[L[i]].rightOrigin} \subseteq Range(L) \cup {Nil}
              /\ From(st, L, i) \in 0 .. i - 1 /\ To(st, L, i) \in i + 1 .. Len(L) + 1
              /\ From(st, L, i) \in Nat /\ To(st, L, i) \in Nat /\ i \in Nat
              /\ From(st, L, i) < i /\ i < To(st, L, i)
         /\ \A i, j \in 1 .. Len(L) :
              From(st, L, j) < i /\ i < j => From(st, L, j) <= From(st, L, i)
         /\ \A i, j \in 1 .. Len(L) :
              i < j /\ From(st, L, i) = From(st, L, j) => L[i][1] < L[j][1] \/ To(st, L, i) <= j
<1>1. /\ L \in Seq(Ids) /\ Distinct(L) /\ Between(st, L) /\ NoCrossing(st, L) /\ ByClient(st, L)
  BY Zenon DEF Proper, InOrder, Distinct
<1>2. Len(L) \in Nat /\ DOMAIN L = 1 .. Len(L) /\ \A i \in 1 .. Len(L) : L[i] \in Ids /\ L[i][1] \in Nat
  BY <1>1, IdNumbers
<1>3. ASSUME NEW i \in 1 .. Len(L)
      PROVE  /\ {st[L[i]].origin, st[L[i]].rightOrigin} \subseteq Range(L) \cup {Nil}
             /\ From(st, L, i) < i /\ i < To(st, L, i)
  BY <1>1, <1>2, Zenon DEF Between, From, To
<1>4. ASSUME NEW i \in 1 .. Len(L)
      PROVE  /\ From(st, L, i) \in 0 .. Len(L) /\ To(st, L, i) \in 1 .. Len(L) + 1
             /\ (st[L[i]].origin = Nil) <=> (From(st, L, i) = 0)
             /\ From(st, L, i) # 0 => L[From(st, L, i)] = st[L[i]].origin
  <2> DEFINE s == st[L[i]]
  <2>1. {s.origin, s.rightOrigin} \subseteq Range(L) \cup {Nil}
    BY <1>3, Zenon
  <2> HIDE DEF s
  <2>2. /\ LeftEnd(L, s) \in 0 .. Len(L) /\ RightEnd(L, s) \in 1 .. Len(L) + 1
        /\ (s.origin = Nil) <=> (LeftEnd(L, s) = 0)
        /\ LeftEnd(L, s) # 0 => L[LeftEnd(L, s)] = s.origin
    BY <1>1, <2>1, Ends, Zenon
  <2> QED
    BY <2>2, Zenon DEF From, To, s
<1>5. \A i \in 1 .. Len(L) : /\ From(st, L, i) \in 0 .. i - 1 /\ To(st, L, i) \in i + 1 .. Len(L) + 1
                            /\ From(st, L, i) \in Nat /\ To(st, L, i) \in Nat /\ i \in Nat
  <2> TAKE i \in 1 .. Len(L)
  <2>1. /\ Len(L) \in Nat /\ From(st, L, i) \in 0 .. Len(L) /\ To(st, L, i) \in 1 .. Len(L) + 1
        /\ From(st, L, i) < i /\ i < To(st, L, i)
    BY <1>2, <1>3, <1>4, Zenon
  <2> QED
    BY <2>1
<1>6. \A i, j \in 1 .. Len(L) : From(st, L, j) < i /\ i < j => From(st, L, j) <= From(st, L, i)
  BY <1>1, <1>2, Zenon DEF NoCrossing, From
<1>7. \A i, j \in 1 .. Len(L) : From(st, L, i) = From(st, L, j) => st[L[i]].origin = st[L[j]].origin
  BY <1>4, Zenon
<1>8. \A i, j \in 1 .. Len(L) :
        i < j /\ From(st, L, i) = From(st, L, j) => L[i][1] < L[j][1] \/ To(st, L, i) <= j
  BY <1>1, <1>2, <1>7, Zenon DEF ByClient, To
<1> QED
  BY <1>1, <1>2, <1>3, <1>5, <1>6, <1>8, Zenon

-----------------------------------------------------------------------------
(* The scan, in positions. *)

\* The scan breaks at the item at i.
Stops(st, s, L, i) ==
  \/ From(st, L, i) < LeftEnd(L, s)
  \/ /\ From(st, L, i) = LeftEnd(L, s) /\ L[i][1] >= s.id[1]
     /\ To(st, L, i) = RightEnd(L, s)

\* The scan moves left from p to i.
Passes(st, s, L, p, i) ==
  \/ From(st, L, i) = LeftEnd(L, s) /\ L[i][1] < s.id[1]
  \/ LeftEnd(L, s) < From(st, L, i) /\ From(st, L, i) <= p

ItemsIn(L, a, b) == {L[i] : i \in a .. b}

\* Whether an origin is among the items of a stretch of the list, as the two
\* sets of the scan record it, is a question of positions.
LEMMA Within ==
  ASSUME NEW st, NEW L, Proper(st, L), NEW i \in 1 .. Len(L), NEW a \in Nat, NEW b \in 0 .. Len(L)
  PROVE  st[L[i]].origin \in ItemsIn(L, a + 1, b) <=> From(st, L, i) \in a + 1 .. b
<1>1. /\ Len(L) \in Nat /\ DOMAIN L = 1 .. Len(L) /\ Distinct(L) /\ From(st, L, i) \in 0 .. i - 1
      /\ {st[L[i]].origin, st[L[i]].rightOrigin} \subseteq Range(L) \cup {Nil}
  BY Positions, Zenon
<1>2. L \in Seq(Ids) /\ Nil \notin Range(L)
  BY Zenon DEF Proper
<1>3. /\ (st[L[i]].origin = Nil) <=> (From(st, L, i) = 0)
      /\ From(st, L, i) # 0 => L[From(st, L, i)] = st[L[i]].origin
  <2> DEFINE s == st[L[i]]
  <2>1. {s.origin, s.rightOrigin} \subseteq Range(L) \cup {Nil}
    BY <1>1, Zenon
  <2> HIDE DEF s
  <2>2. /\ (s.origin = Nil) <=> (LeftEnd(L, s) = 0)
        /\ LeftEnd(L, s) # 0 => L[LeftEnd(L, s)] = s.origin
    BY <1>2, <2>1, Ends, Zenon
  <2> QED
    BY <2>2, Zenon DEF From, s
<1>4. \A n \in a + 1 .. b : n \in DOMAIN L
  BY <1>1
<1>5. ASSUME st[L[i]].origin \in ItemsIn(L, a + 1, b) PROVE From(st, L, i) \in a + 1 .. b
  <2>1. PICK n \in a + 1 .. b : L[n] = st[L[i]].origin
    BY <1>5, Zenon DEF ItemsIn
  <2>2. st[L[i]].origin # Nil
    BY <2>1, <1>2, <1>4, Zenon DEF Range
  <2>3. From(st, L, i) # 0 /\ From(st, L, i) \in DOMAIN L
    BY <1>1, <1>3, <2>2
  <2>4. From(st, L, i) = n
    BY <1>1, <1>3, <1>4, <2>1, <2>3, Zenon DEF Distinct
  <2> QED
    BY <2>4
<1>6. ASSUME From(st, L, i) \in a + 1 .. b PROVE st[L[i]].origin \in ItemsIn(L, a + 1, b)
  <2>1. From(st, L, i) # 0
    BY <1>6
  <2> QED
    BY <1>3, <1>6, <2>1, Zenon DEF ItemsIn
<1> QED
  BY <1>5, <1>6

\* s has what it refers to in the list.
Fits(s, L) ==
  /\ s.id \in Ids /\ s.id \notin Range(L)
  /\ {s.origin, s.rightOrigin} \subseteq Range(L) \cup {Nil}
  /\ LeftEnd(L, s) < RightEnd(L, s)

Turns == [left : Nat, itemsBeforeOrigin : SUBSET Ids, conflictingItems : SUBSET Ids, over : BOOLEAN]

\* The sets of the scan while it is not over.
Running(s, L, i, turn) ==
  /\ ~turn.over
  /\ turn.left \in LeftEnd(L, s) .. i
  /\ turn.itemsBeforeOrigin = ItemsIn(L, LeftEnd(L, s) + 1, i)
  /\ turn.conflictingItems = ItemsIn(L, turn.left + 1, i)

\* After a break the scan keeps its left.
LEMMA Over ==
  ASSUME NEW st, NEW L, NEW s, NEW i, NEW turn \in Turns, turn.over,
         NEW next, next = scanTurn(st, s, L, i, turn)
  PROVE  next \in Turns /\ next.over /\ next.left = turn.left
BY Zenon DEF Turns, scanTurn

\* One turn of the scan: it breaks, moves left or goes on.
LEMMA OneTurn ==
  ASSUME NEW st, NEW L, NEW s, Proper(st, L), Fits(s, L),
         NEW i \in 1 .. Len(L), LeftEnd(L, s) < i, i < RightEnd(L, s),
         NEW turn \in Turns, Running(s, L, i - 1, turn),
         NEW next, next = scanTurn(st, s, L, i, turn)
  PROVE  /\ next \in Turns
         /\ Stops(st, s, L, i) => next.over /\ next.left = turn.left
         /\ ~Stops(st, s, L, i) =>
              /\ Running(s, L, i, next)
              /\ next.left = IF Passes(st, s, L, turn.left, i) THEN i ELSE turn.left
<1> DEFINE l == LeftEnd(L, s)
           r == RightEnd(L, s)
           o == st[L[i]]
           p == turn.left
           before == ItemsIn(L, l + 1, i)
           conflicting == ItemsIn(L, p + 1, i)
<1>1. /\ Len(L) \in Nat /\ DOMAIN L = 1 .. Len(L) /\ From(st, L, i) \in 0 .. i - 1
      /\ {o.origin, o.rightOrigin} \subseteq Range(L) \cup {Nil} /\ L[i] \in Ids /\ L[i][1] \in Nat
  BY Positions, Zenon
<1>2. L \in Seq(Ids) /\ s.id[1] \in Nat
  BY IdNumbers DEF Proper, Fits
<1>3. /\ (o.origin = Nil) <=> (From(st, L, i) = 0)
      /\ From(st, L, i) # 0 => L[From(st, L, i)] = o.origin
      /\ (o.rightOrigin = Nil) <=> (To(st, L, i) = Len(L) + 1)
      /\ To(st, L, i) # Len(L) + 1 => L[To(st, L, i)] = o.rightOrigin
  <2>1. {o.origin, o.rightOrigin} \subseteq Range(L) \cup {Nil}
    BY <1>1, Zenon
  <2>2. LeftEnd(L, o) = From(st, L, i) /\ RightEnd(L, o) = To(st, L, i)
    BY Zenon DEF From, To
  <2> HIDE DEF o
  <2>3. /\ (o.origin = Nil) <=> (LeftEnd(L, o) = 0)
        /\ LeftEnd(L, o) # 0 => L[LeftEnd(L, o)] = o.origin
        /\ (o.rightOrigin = Nil) <=> (RightEnd(L, o) = Len(L) + 1)
        /\ RightEnd(L, o) # Len(L) + 1 => L[RightEnd(L, o)] = o.rightOrigin
    BY <1>2, <2>1, Ends, Zenon
  <2> QED
    BY <2>2, <2>3, Zenon
<1>4. /\ l \in 0 .. Len(L) /\ r \in 1 .. Len(L) + 1 /\ l < r
      /\ ((s.origin = Nil) <=> (l = 0)) /\ ((s.rightOrigin = Nil) <=> (r = Len(L) + 1))
      /\ (l # 0 => L[l] = s.origin) /\ (r # Len(L) + 1 => L[r] = s.rightOrigin)
  BY <1>2, Ends, Zenon DEF Fits
<1>5. o.origin = s.origin <=> From(st, L, i) = l
  <2>1. o.origin = s.origin => From(st, L, i) = l
    BY Zenon DEF From, LeftEnd
  <2> QED
    BY <1>3, <1>4, <2>1, Zenon
<1>6. o.rightOrigin = s.rightOrigin <=> To(st, L, i) = r
  <2>1. o.rightOrigin = s.rightOrigin => To(st, L, i) = r
    BY Zenon DEF To, RightEnd
  <2> QED
    BY <1>3, <1>4, <2>1, Zenon
<1>7. p \in Nat /\ l <= p /\ p < i /\ ~turn.over
  BY <1>4 DEF Running
<1>8. \A a \in 0 .. i - 1 : ItemsIn(L, a + 1, i) = ItemsIn(L, a + 1, i - 1) \cup {L[i]}
  <2> SUFFICES ASSUME NEW a \in 0 .. i - 1
               PROVE  ItemsIn(L, a + 1, i) = ItemsIn(L, a + 1, i - 1) \cup {L[i]}
    OBVIOUS
  <2>1. a + 1 .. i = (a + 1 .. i - 1) \cup {i}
    OBVIOUS
  <2> QED
    BY <2>1, Zenon DEF ItemsIn
<1>9. turn.itemsBeforeOrigin \cup {L[i]} = before /\ turn.conflictingItems \cup {L[i]} = conflicting
  BY <1>4, <1>7, <1>8 DEF Running
<1>10. before \subseteq Ids /\ conflicting \subseteq Ids /\ ItemsIn(L, i + 1, i) = {}
  <2>1. \A n \in l + 1 .. i : L[n] \in Ids
    BY <1>1, <1>2, <1>4
  <2>2. \A n \in p + 1 .. i : L[n] \in Ids
    BY <1>1, <1>2, <1>7
  <2>3. i + 1 .. i = {}
    OBVIOUS
  <2> QED
    BY <2>1, <2>2, <2>3, Zenon DEF ItemsIn
<1>11. /\ o.origin \in before <=> l < From(st, L, i)
       /\ o.origin \in conflicting <=> p < From(st, L, i)
  <2>1. /\ o.origin \in before <=> From(st, L, i) \in l + 1 .. i
        /\ o.origin \in conflicting <=> From(st, L, i) \in p + 1 .. i
    <3>1. l \in Nat /\ p \in Nat /\ i \in 0 .. Len(L)
      BY <1>1, <1>4, <1>7
    <3> HIDE DEF l, p
    <3> QED
      BY <3>1, Within, Zenon
  <2> QED
    BY <1>1, <1>4, <1>7, <2>1
<1> DEFINE breaks == IF o.origin = s.origin
                     THEN L[i][1] >= s.id[1] /\ o.rightOrigin = s.rightOrigin
                     ELSE o.origin \notin before
           behind == IF o.origin = s.origin THEN L[i][1] < s.id[1]
                     ELSE o.origin \notin conflicting
<1>12. breaks <=> Stops(st, s, L, i)
  BY <1>1, <1>2, <1>4, <1>5, <1>6, <1>11 DEF Stops
<1>13. ~breaks => (behind <=> Passes(st, s, L, p, i))
  BY <1>1, <1>2, <1>4, <1>5, <1>6, <1>7, <1>11 DEF Passes
<1>14. next = IF turn.over \/ breaks THEN [turn EXCEPT !.over = TRUE]
              ELSE [left |-> IF behind THEN i ELSE p, itemsBeforeOrigin |-> before,
                    conflictingItems |-> IF behind THEN {} ELSE conflicting, over |-> FALSE]
  BY <1>9, Zenon DEF scanTurn
<1> HIDE DEF l, r, o, p, before, conflicting, breaks, behind
<1>15. CASE Stops(st, s, L, i)
  <2>1. next \in Turns /\ next.over /\ next.left = p
    BY <1>12, <1>14, <1>15, Zenon DEF Turns, p
  <2> QED
    BY <1>15, <2>1 DEF p
<1>16. CASE ~Stops(st, s, L, i)
  <2>1. next = [left |-> IF behind THEN i ELSE p, itemsBeforeOrigin |-> before,
                conflictingItems |-> IF behind THEN {} ELSE conflicting, over |-> FALSE]
    BY <1>7, <1>12, <1>14, <1>16
  <2>2. next \in Turns
    BY <1>7, <1>10, <2>1 DEF Turns
  <2>3. ~next.over /\ next.left = (IF behind THEN i ELSE p) /\ next.itemsBeforeOrigin = before
        /\ next.conflictingItems = IF behind THEN {} ELSE conflicting
    BY <2>1
  <2>4. next.left \in l .. i /\ next.conflictingItems = ItemsIn(L, next.left + 1, i)
    <3>1. CASE behind
      BY <1>4, <1>7, <1>10, <2>3, <3>1
    <3>2. CASE ~behind
      <4>1. next.left = p /\ next.conflictingItems = conflicting
        BY <2>3, <3>2, Zenon
      <4>2. p \in l .. i
        BY <1>4, <1>7
      <4> QED
        BY <4>1, <4>2, Zenon DEF conflicting
    <3> QED
      BY <3>1, <3>2
  <2>5. Running(s, L, i, next)
    BY <2>3, <2>4 DEF Running, l, before
  <2> QED
    BY <1>12, <1>13, <1>16, <2>2, <2>3, <2>5 DEF p
<1> QED
  BY <1>15, <1>16

-----------------------------------------------------------------------------
(* Induction. *)

\* A set of numbers has a least one.
LEMMA LeastOf ==
  ASSUME NEW T, T \subseteq Nat, T # {}
  PROVE  \E x \in T : \A y \in T : x <= y
<1> DEFINE R == OpToRel(<, Nat)
<1>1. IsWellFoundedOn(R, Nat)
  BY NatLessThanWellFounded
<1>2. \A x, y \in Nat : (x < y) => <<x, y>> \in R
  BY Zenon DEF OpToRel
<1> HIDE DEF R
<1>3. PICK x \in T : \A y \in T : ~(<<y, x>> \in R)
   BY <1>1, WFMin, Zenon
<1>4. \A y \in T : ~(y < x)
  BY <1>2, <1>3, Zenon
<1>5. \A y \in T : x <= y
  BY <1>4
<1> QED
  BY <1>5

\* Induction, for a set: what holds 0 and with n also n + 1 holds every number.
LEMMA NatInd ==
  ASSUME NEW S, 0 \in S, \A n \in Nat : n \in S => n + 1 \in S
  PROVE  Nat \subseteq S
<1> SUFFICES ASSUME Nat \ S # {} PROVE FALSE
  OBVIOUS
<1> DEFINE T == Nat \ S
<1>1. T \subseteq Nat /\ T # {}
  OBVIOUS
<1> HIDE DEF T
<1>2. PICK x \in T : \A y \in T : x <= y
  BY <1>1, LeastOf, Zenon
<1>3. x \in Nat /\ x # 0 /\ x \notin S
  BY <1>2, Zenon DEF T
<1>4. x - 1 \in Nat /\ x - 1 \notin T
  BY <1>2, <1>3, <1>1
<1>5. x - 1 \in S
  BY <1>4, Zenon DEF T
<1> QED
  BY <1>3, <1>4, <1>5


-----------------------------------------------------------------------------
(* The scan as a whole. *)

\* Before the first turn.
Start(l) == [left |-> l, itemsBeforeOrigin |-> {}, conflictingItems |-> {}, over |-> FALSE]

\* The i-th value of the scan from l, given the ones before it.
ScanAt(st, s, L, l, f, i) == IF i = l THEN Start(l) ELSE scanTurn(st, s, L, i, f[i - 1])

IsScan(st, s, L, l, r, f) == f = [i \in l .. r - 1 |-> ScanAt(st, s, L, l, f, i)]

\* The scan is well defined: there is such a function, turn by turn.
LEMMA ScanDef ==
  ASSUME NEW st, NEW L, NEW s, Proper(st, L), Fits(s, L)
  PROVE  \E f : /\ IsScan(st, s, L, LeftEnd(L, s), RightEnd(L, s), f)
                /\ conflictScan(st, s, L, LeftEnd(L, s), RightEnd(L, s))
                     = f[RightEnd(L, s) - 1].left
<1> DEFINE l == LeftEnd(L, s)
           r == RightEnd(L, s)
<1>0. l \in Nat /\ r \in Nat /\ l < r
  <2>1. l \in 0 .. Len(L) /\ r \in 1 .. Len(L) + 1 /\ Len(L) \in Nat /\ l < r
    BY Ends, Zenon DEF Fits, Proper
  <2> QED
    BY <2>1
<1> HIDE DEF l, r
<1> DEFINE P(n) == \E f : f = [i \in l .. l + n |-> ScanAt(st, s, L, l, f, i)]
           S == {n \in Nat : P(n)}
<1>1. 0 \in S
  <2> DEFINE g == [i \in l .. l + 0 |-> Start(l)]
  <2>1. \A i \in l .. l + 0 : i = l
    BY <1>0
  <2>2. g = [i \in l .. l + 0 |-> ScanAt(st, s, L, l, g, i)]
    BY <2>1, Zenon DEF ScanAt
  <2> QED
    BY <2>2, Zenon
<1>2. ASSUME NEW n \in Nat, n \in S PROVE n + 1 \in S
  <2>1. PICK f : f = [i \in l .. l + n |-> ScanAt(st, s, L, l, f, i)]
    BY <1>2, Zenon
  <2> DEFINE g == [i \in l .. l + (n + 1) |-> IF i <= l + n THEN f[i] ELSE ScanAt(st, s, L, l, f, i)]
  <2>2. \A i \in l .. l + (n + 1) : i # l => i - 1 \in l .. l + (n + 1) /\ g[i - 1] = f[i - 1]
    BY <1>0
  <2>3. \A i \in l .. l + (n + 1) : ScanAt(st, s, L, l, g, i) = ScanAt(st, s, L, l, f, i)
    BY <2>2, Zenon DEF ScanAt
  <2>4. \A i \in l .. l + n : f[i] = ScanAt(st, s, L, l, f, i)
    BY <2>1, Zenon
  <2>5. \A i \in l .. l + (n + 1) : i <= l + n => i \in l .. l + n
    BY <1>0
  <2>6. \A i \in l .. l + (n + 1) : g[i] = ScanAt(st, s, L, l, g, i)
    BY <2>3, <2>4, <2>5, Zenon
  <2>7. g = [i \in l .. l + (n + 1) |-> ScanAt(st, s, L, l, g, i)]
    BY <2>6, Zenon
  <2> HIDE DEF g
  <2>8. \E f1 : f1 = [i \in l .. l + (n + 1) |-> ScanAt(st, s, L, l, f1, i)]
    BY <2>7, Zenon
  <2> QED
    BY <2>8
<1> HIDE DEF S
<1>3. r - 1 - l \in Nat /\ l + (r - 1 - l) = r - 1
  BY <1>0
<1>4. r - 1 - l \in S
  BY <1>1, <1>2, <1>3, NatInd
<1>5. P(r - 1 - l)
  BY <1>4, Zenon DEF S
<1> HIDE DEF P
<1>6. \E f : f = [i \in l .. r - 1 |-> ScanAt(st, s, L, l, f, i)]
  BY <1>3, <1>5, Zenon DEF P
<1> DEFINE F == CHOOSE f : f = [i \in l .. r - 1 |-> ScanAt(st, s, L, l, f, i)]
<1>7. F = [i \in l .. r - 1 |-> ScanAt(st, s, L, l, F, i)]
  BY <1>6, Zenon
<1>8. conflictScan(st, s, L, l, r) = F[r - 1].left
  BY Zenon DEF conflictScan, ScanAt, Start
<1> HIDE DEF F
<1>9. IsScan(st, s, L, l, r, F)
  BY <1>7, Zenon DEF IsScan
<1> QED
  BY <1>8, <1>9, Zenon DEF l, r

-----------------------------------------------------------------------------
\* What is between the left end and the position p: nothing that hangs from
\* before the left end, and behind each item of the same origin that s goes
\* before if both decide, another one that s follows.
Followed(st, s, L, p) ==
  \A i \in LeftEnd(L, s) + 1 .. p :
    /\ LeftEnd(L, s) <= From(st, L, i)
    /\ From(st, L, i) = LeftEnd(L, s) /\ L[i][1] >= s.id[1] =>
         \E k \in i + 1 .. p :
           \/ From(st, L, k) = LeftEnd(L, s) /\ L[k][1] < s.id[1]
           \/ LeftEnd(L, s) < From(st, L, k) /\ From(st, L, k) < i

\* What is behind p: nothing that s follows, up to where the scan breaks.
Preceded(st, s, L, p, n) ==
  \A j \in p + 1 .. n :
    (\A k \in p + 1 .. j : ~Stops(st, s, L, k)) => ~Passes(st, s, L, p, j)

\* The scan after the items up to n.
Scanned(st, s, L, n, turn) ==
  /\ turn \in Turns /\ turn.left \in LeftEnd(L, s) .. n
  /\ Followed(st, s, L, turn.left)
  /\ turn.over => Preceded(st, s, L, turn.left, RightEnd(L, s) - 1)
  /\ ~turn.over =>
       /\ Running(s, L, n, turn)
       /\ \A k \in turn.left + 1 .. n :
            ~Stops(st, s, L, k) /\ ~Passes(st, s, L, turn.left, k)

\* A turn keeps what the scan has established.
LEMMA ScannedMore ==
  ASSUME NEW st, NEW L, NEW s, Proper(st, L), Fits(s, L),
         NEW i \in 1 .. Len(L), LeftEnd(L, s) < i, i < RightEnd(L, s),
         NEW turn, Scanned(st, s, L, i - 1, turn)
  PROVE  Scanned(st, s, L, i, scanTurn(st, s, L, i, turn))
<1> DEFINE l == LeftEnd(L, s)
           r == RightEnd(L, s)
           p == turn.left
           next == scanTurn(st, s, L, i, turn)
<1>1. /\ turn \in Turns /\ p \in l .. i - 1 /\ Followed(st, s, L, p)
      /\ turn.over => Preceded(st, s, L, p, r - 1)
  BY Zenon DEF Scanned
<1>2. l \in Nat /\ r \in Nat /\ p \in Nat /\ l <= p /\ p < i /\ i < r
  <2>1. l \in 0 .. Len(L) /\ r \in 1 .. Len(L) + 1 /\ Len(L) \in Nat
    BY Ends, Zenon DEF Fits, Proper
  <2> QED
    BY <1>1, <2>1
<1>3. \A k \in 1 .. i : k \in 1 .. Len(L)
  BY <1>2
<1>4. \A k \in 1 .. i : From(st, L, k) \in Nat /\ L[k][1] \in Nat
  BY <1>3, Positions, Zenon
<1>0. next = scanTurn(st, s, L, i, turn) /\ p = turn.left
  OBVIOUS
<1> HIDE DEF l, r, p, next
<1>5. CASE turn.over
  <2>1. next \in Turns /\ next.over /\ next.left = p
    BY <1>0, <1>1, <1>5, Over
  <2>2. p \in l .. i
    BY <1>2
  <2>3. Scanned(st, s, L, i, next)
    BY <1>1, <1>5, <2>1, <2>2, Zenon DEF Scanned, l, r
  <2> QED
    BY <2>3 DEF next
<1>6. CASE ~turn.over
  <2>1. /\ Running(s, L, i - 1, turn)
        /\ \A k \in p + 1 .. i - 1 : ~Stops(st, s, L, k) /\ ~Passes(st, s, L, p, k)
    BY <1>6, Zenon DEF Scanned, p
  <2>2. /\ next \in Turns
        /\ Stops(st, s, L, i) => next.over /\ next.left = p
        /\ ~Stops(st, s, L, i) =>
             /\ Running(s, L, i, next)
             /\ next.left = IF Passes(st, s, L, p, i) THEN i ELSE p
    BY <1>0, <1>1, <2>1, OneTurn
  <2>3. CASE Stops(st, s, L, i)
    <3>1. Preceded(st, s, L, p, r - 1)
      <4> SUFFICES ASSUME NEW j \in p + 1 .. r - 1, \A k \in p + 1 .. j : ~Stops(st, s, L, k)
                   PROVE  ~Passes(st, s, L, p, j)
        BY Zenon DEF Preceded
      <4>1. i \notin p + 1 .. j
        BY <2>3
      <4>2. j \in p + 1 .. i - 1
        BY <1>2, <4>1
      <4> QED
        BY <2>1, <4>2
    <3>2. p \in l .. i
      BY <1>2
    <3>3. Scanned(st, s, L, i, next)
      BY <1>1, <2>2, <2>3, <3>1, <3>2, Zenon DEF Scanned, l, r
    <3> QED
      BY <3>3 DEF next
  <2>4. CASE ~Stops(st, s, L, i) /\ ~Passes(st, s, L, p, i)
    <3>1. next.left = p /\ Running(s, L, i, next) /\ ~next.over
      BY <2>2, <2>4, Zenon DEF Running
    <3>2. p \in l .. i /\ \A k \in p + 1 .. i : k = i \/ k \in p + 1 .. i - 1
      BY <1>2
    <3>3. \A k \in p + 1 .. i : ~Stops(st, s, L, k) /\ ~Passes(st, s, L, p, k)
      BY <2>1, <2>4, <3>2, Zenon
    <3>4. Scanned(st, s, L, i, next)
      BY <1>1, <2>2, <3>1, <3>2, <3>3, Zenon DEF Scanned, l
    <3> QED
      BY <3>4 DEF next
  <2>5. CASE ~Stops(st, s, L, i) /\ Passes(st, s, L, p, i)
    <3>1. next.left = i /\ Running(s, L, i, next) /\ ~next.over
      BY <2>2, <2>5, Zenon DEF Running
    <3>2. Followed(st, s, L, i)
      <4> SUFFICES ASSUME NEW j \in l + 1 .. i
                   PROVE  /\ l <= From(st, L, j)
                          /\ From(st, L, j) = l /\ L[j][1] >= s.id[1] =>
                               \E k \in j + 1 .. i :
                                 \/ From(st, L, k) = l /\ L[k][1] < s.id[1]
                                 \/ l < From(st, L, k) /\ From(st, L, k) < j
        BY Zenon DEF Followed, l
      <4>0. s.id[1] \in Nat
        BY IdNumbers DEF Fits
      <4>1. CASE j \in l + 1 .. p
        <5>1. /\ l <= From(st, L, j)
              /\ From(st, L, j) = l /\ L[j][1] >= s.id[1] =>
                   \E k \in j + 1 .. p :
                     \/ From(st, L, k) = l /\ L[k][1] < s.id[1]
                     \/ l < From(st, L, k) /\ From(st, L, k) < j
          BY <1>1, <4>1, Zenon DEF Followed, l
        <5>2. \A k \in j + 1 .. p : k \in j + 1 .. i
          BY <1>2
        <5> QED
          BY <5>1, <5>2, Zenon
      <4>2. CASE j \in p + 1 .. i - 1
        <5>1. ~Stops(st, s, L, j) /\ ~Passes(st, s, L, p, j)
          BY <2>1, <4>2, Zenon
        <5>2. l <= From(st, L, j)
          BY <1>2, <1>4, <4>2, <5>1 DEF Stops, l
        <5>3. /\ i \in j + 1 .. i
              /\ \/ From(st, L, i) = l /\ L[i][1] < s.id[1]
                 \/ l < From(st, L, i) /\ From(st, L, i) < j
          BY <1>2, <1>4, <2>5, <4>2 DEF Passes, l
        <5> QED
          BY <5>2, <5>3, Zenon
      <4>3. CASE j = i
        BY <1>2, <1>4, <2>5, <4>0, <4>3 DEF Stops, Passes, l
      <4> QED
        BY <1>2, <4>1, <4>2, <4>3
    <3>3. i \in l .. i /\ i + 1 .. i = {}
      BY <1>2
    <3>4. Scanned(st, s, L, i, next)
      BY <2>2, <3>1, <3>2, <3>3, Zenon DEF Scanned, l
    <3> QED
      BY <3>4 DEF next
  <2> QED
    BY <2>3, <2>4, <2>5
<1> QED
  BY <1>5, <1>6

\* What the scan has established when it ends, at a break or at the right end.
LEMMA ScannedAll ==
  ASSUME NEW st, NEW L, NEW s, Proper(st, L), Fits(s, L), NEW f,
         IsScan(st, s, L, LeftEnd(L, s), RightEnd(L, s), f)
  PROVE  Scanned(st, s, L, RightEnd(L, s) - 1, f[RightEnd(L, s) - 1])
<1> DEFINE l == LeftEnd(L, s)
           r == RightEnd(L, s)
           S == {n \in Nat : l + n < r => Scanned(st, s, L, l + n, f[l + n])}
<1>1. l \in 0 .. Len(L) /\ r \in 1 .. Len(L) + 1 /\ Len(L) \in Nat /\ l < r
  BY Ends, Zenon DEF Fits, Proper
<1>2. l \in Nat /\ r \in Nat /\ l < r
  BY <1>1
<1>3. \A i \in l .. r - 1 : f[i] = ScanAt(st, s, L, l, f, i)
  BY Zenon DEF IsScan
<1>4. f[l] = Start(l)
  <2>1. l \in l .. r - 1
    BY <1>2
  <2> QED
    BY <1>3, <2>1, Zenon DEF ScanAt
<1>5. Scanned(st, s, L, l, Start(l))
  <2> DEFINE t == Start(l)
  <2>1. t \in Turns /\ t.left = l /\ t.over = FALSE /\ t.itemsBeforeOrigin = {} /\ t.conflictingItems = {}
    BY <1>2 DEF Start, Turns
  <2>2. l \in l .. l /\ l + 1 .. l = {}
    BY <1>2
  <2> HIDE DEF t, l
  <2>3. ItemsIn(L, l + 1, l) = {} /\ Followed(st, s, L, l)
    BY <2>2, Zenon DEF ItemsIn, Followed, l
  <2>4. Running(s, L, l, t)
    BY <2>1, <2>2, <2>3, Zenon DEF Running, l
  <2>5. Scanned(st, s, L, l, t)
    BY <2>1, <2>2, <2>3, <2>4, Zenon DEF Scanned, l
  <2> QED
    BY <2>5 DEF t
<1>6. 0 \in S
  <2>1. l + 0 = l
    BY <1>2
  <2> QED
    BY <1>4, <1>5, <2>1, Zenon
<1>7. ASSUME NEW n \in Nat, n \in S PROVE n + 1 \in S
  <2> SUFFICES ASSUME l + (n + 1) < r PROVE Scanned(st, s, L, l + (n + 1), f[l + (n + 1)])
    OBVIOUS
  <2> DEFINE i == l + (n + 1)
  <2>1. /\ i \in 1 .. Len(L) /\ l < i /\ i < r /\ i \in l .. r - 1 /\ i # l
        /\ i - 1 = l + n /\ l + n < r
    BY <1>1
  <2>2. Scanned(st, s, L, i - 1, f[i - 1])
    BY <1>7, <2>1, Zenon
  <2>3. f[i] = scanTurn(st, s, L, i, f[i - 1])
    BY <1>3, <2>1, Zenon DEF ScanAt
  <2> HIDE DEF i
  <2>4. Scanned(st, s, L, i, f[i])
    BY <2>1, <2>2, <2>3, ScannedMore, Zenon
  <2> QED
    BY <2>4 DEF i
<1>8. r - 1 - l \in Nat /\ l + (r - 1 - l) = r - 1 /\ r - 1 < r
  BY <1>2
<1> HIDE DEF S
<1>9. r - 1 - l \in S
  BY <1>6, <1>7, <1>8, NatInd
<1> QED
  BY <1>8, <1>9, Zenon DEF S

\* Where insertAfter puts an item: between its neighbours, behind what it follows
\* and before the rest.
LEMMA Settles ==
  ASSUME NEW st, NEW L, NEW s, Proper(st, L), Fits(s, L), NEW at, at = insertAfter(st, s, L)
  PROVE  /\ at \in LeftEnd(L, s) .. RightEnd(L, s) - 1
         /\ Followed(st, s, L, at) /\ Preceded(st, s, L, at, RightEnd(L, s) - 1)
<1> DEFINE l == LeftEnd(L, s)
           r == RightEnd(L, s)
<1>1. l \in 0 .. Len(L) /\ r \in 1 .. Len(L) + 1 /\ Len(L) \in Nat /\ l < r
  BY Ends, Zenon DEF Fits, Proper
<1>2. l \in Nat /\ r \in Nat /\ l < r /\ l \in l .. r - 1 /\ l + 1 .. l = {}
  BY <1>1
<1>3. CASE l + 1 = r
  <2>1. at = l /\ l + 1 .. r - 1 = {}
    BY <1>2, <1>3 DEF insertAfter
  <2> QED
    BY <1>2, <2>1, Zenon DEF Followed, Preceded
<1>4. CASE l + 1 # r
  <2>1. at = conflictScan(st, s, L, l, r)
    BY <1>4, Zenon DEF insertAfter
  <2> HIDE DEF l, r
  <2>2. PICK f : /\ IsScan(st, s, L, l, r, f)
                 /\ conflictScan(st, s, L, l, r) = f[r - 1].left
    BY ScanDef, Zenon DEF l, r
  <2> DEFINE turn == f[r - 1]
  <2>3. Scanned(st, s, L, r - 1, turn)
    BY <2>2, ScannedAll, Zenon DEF l, r
  <2>4. at = turn.left
    BY <2>1, <2>2, Zenon
  <2> HIDE DEF turn
  <2>5. at \in l .. r - 1 /\ Followed(st, s, L, at)
    BY <2>3, <2>4, Zenon DEF Scanned, l
  <2>6. CASE turn.over
    BY <2>3, <2>4, <2>5, <2>6, Zenon DEF Scanned, l, r
  <2>7. CASE ~turn.over
    <3>1. \A k \in at + 1 .. r - 1 : ~Passes(st, s, L, at, k)
      BY <2>3, <2>4, <2>7, Zenon DEF Scanned
    <3> QED
      BY <2>5, <3>1, Zenon DEF Preceded, l, r
  <2> QED
    BY <2>6, <2>7
<1> QED
  BY <1>3, <1>4

-----------------------------------------------------------------------------
(* Putting an item into a list. *)

\* Where the position n of the list is once something is behind at.
Shift(at, n) == IF n <= at THEN n ELSE n + 1

\* The members of a sequence.
LEMMA Members ==
  ASSUME NEW D, NEW a \in Seq(D)
  PROVE  \A n \in DOMAIN a : a[n] \in D
OBVIOUS

\* A sequence behind another.
LEMMA Concatenated ==
  ASSUME NEW D, NEW a \in Seq(D), NEW b \in Seq(D)
  PROVE  a \o b \in Seq(D) /\ Len(a \o b) = Len(a) + Len(b)
OBVIOUS

\* M is the list L with the new item x behind the position at.
Grows(L, x, at, M) ==
  /\ L \in Seq(Ids) /\ Distinct(L) /\ x \in Ids /\ x \notin Range(L)
  /\ at \in 0 .. Len(L) /\ M = InsertBehind(L, at, x)

\* The items of the longer list, by position.
LEMMA Inserted ==
  ASSUME NEW L, NEW x, NEW at, NEW M, Grows(L, x, at, M)
  PROVE  /\ M \in Seq(Ids) /\ Len(M) = Len(L) + 1 /\ Len(L) \in Nat
         /\ DOMAIN L = 1 .. Len(L) /\ DOMAIN M = 1 .. Len(L) + 1
         /\ M[at + 1] = x /\ \A n \in 1 .. Len(L) : M[Shift(at, n)] = L[n]
<1>0. L \in Seq(Ids) /\ x \in Ids /\ at \in 0 .. Len(L) /\ M = InsertBehind(L, at, x)
  BY Zenon DEF Grows
<1>1. Len(L) \in Nat
  BY <1>0
<1> DEFINE A == SubSeq(L, 1, at)
           B == SubSeq(L, at + 1, Len(L))
<1>3. M = (A \o <<x>>) \o B
  BY <1>0, Zenon DEF InsertBehind
<1>4. A \in Seq(Ids) /\ Len(A) = at /\ \A n \in 1 .. at : A[n] = L[n]
  BY <1>0, <1>1
<1>5. B \in Seq(Ids) /\ Len(B) = Len(L) - at /\ \A n \in 1 .. Len(L) - at : B[n] = L[at + n]
  BY <1>0, <1>1
<1> HIDE DEF A, B
<1>6. A \o <<x>> \in Seq(Ids) /\ Len(A \o <<x>>) = at + 1 /\ (A \o <<x>>)[at + 1] = x
      /\ \A n \in 1 .. at : (A \o <<x>>)[n] = L[n]
  BY <1>0, <1>1, <1>4
<1> DEFINE C == A \o <<x>>
<1> HIDE DEF C
<1>7. C \in Seq(Ids) /\ Len(C) = at + 1 /\ C[at + 1] = x /\ \A n \in 1 .. at : C[n] = L[n]
  BY <1>6, Zenon DEF C
<1>8. M = C \o B
  BY <1>3 DEF C
<1>9. M \in Seq(Ids) /\ Len(M) = Len(L) + 1
  <2>1. M \in Seq(Ids) /\ Len(M) = Len(C) + Len(B)
    BY <1>5, <1>7, <1>8, Concatenated, Zenon
  <2> QED
    BY <1>0, <1>1, <1>5, <1>7, <2>1
<1>10. \A n \in 1 .. at + 1 : M[n] = C[n]
  BY <1>0, <1>1, <1>5, <1>7, <1>8
<1>11. \A n \in at + 1 .. Len(L) : M[n + 1] = L[n]
  <2> SUFFICES ASSUME NEW n \in at + 1 .. Len(L) PROVE M[n + 1] = L[n]
    OBVIOUS
  <2>1. n + 1 \in Len(C) + 1 .. Len(C) + Len(B) /\ n + 1 - Len(C) = n - at /\ n - at \in 1 .. Len(L) - at
        /\ at + (n - at) = n
    BY <1>0, <1>1, <1>5, <1>7
  <2>2. M[n + 1] = B[n - at]
    BY <1>0, <1>1, <1>5, <1>7, <1>8, <2>1
  <2> QED
    BY <1>5, <2>1, <2>2
<1> QED
  BY <1>0, <1>1, <1>7, <1>9, <1>10, <1>11 DEF Shift

\* What the author of s saw: the item right of s does not hang from between the
\* neighbours of s, and what its client put behind the same origin before is not
\* between them.
Apart(st, s, L) ==
  /\ s.rightOrigin # Nil => From(st, L, RightEnd(L, s)) <= LeftEnd(L, s)
  /\ \A j \in DOMAIN L :
       From(st, L, j) = LeftEnd(L, s) /\ L[j][1] = s.id[1] => RightEnd(L, s) <= j

\* st2 has the items of L and s.
Extends(st, st2, s, L) == st2[s.id] = s /\ \A x \in Range(L) : st2[x] = st[x]

\* A position of the longer list is the new one or that of an old item.
LEMMA Shifted ==
  ASSUME NEW N \in Nat, NEW at \in 0 .. N
  PROVE  \A m \in 1 .. N + 1 : m = at + 1 \/ \E n \in 1 .. N : m = Shift(at, n)
<1> SUFFICES ASSUME NEW m \in 1 .. N + 1, m # at + 1
             PROVE  \E n \in 1 .. N : m = Shift(at, n)
  OBVIOUS
<1>1. CASE m <= at
  <2>1. m \in 1 .. N /\ m = Shift(at, m)
    BY <1>1 DEF Shift
  <2> QED
    BY <2>1, Zenon
<1>2. CASE m > at
  <2>1. m - 1 \in 1 .. N /\ m = Shift(at, m - 1)
    BY <1>2 DEF Shift
  <2> QED
    BY <2>1, Zenon
<1> QED
  BY <1>1, <1>2

\* The positions in the longer list, by item.
LEMMA InsertedPositions ==
  ASSUME NEW L, NEW x, NEW at, NEW M, Grows(L, x, at, M)
  PROVE  /\ Distinct(M) /\ Range(M) = Range(L) \cup {x} /\ Pos(M, x) = at + 1
         /\ \A y \in Range(L) : Pos(M, y) = Shift(at, Pos(L, y))
<1>0. Distinct(L) /\ x \notin Range(L) /\ at \in 0 .. Len(L)
  BY Zenon DEF Grows
<1>1. /\ M \in Seq(Ids) /\ Len(M) = Len(L) + 1 /\ Len(L) \in Nat
      /\ DOMAIN L = 1 .. Len(L) /\ DOMAIN M = 1 .. Len(L) + 1
      /\ M[at + 1] = x /\ \A n \in 1 .. Len(L) : M[Shift(at, n)] = L[n]
  BY Inserted
<1>2. \A n \in 1 .. Len(L) : Shift(at, n) \in 1 .. Len(L) + 1
  BY <1>0, <1>1 DEF Shift
<1>3. at + 1 \in 1 .. Len(L) + 1
  BY <1>0, <1>1
<1>4. \A m \in 1 .. Len(L) + 1 : m = at + 1 \/ \E n \in 1 .. Len(L) : m = Shift(at, n)
  BY <1>0, <1>1, Shifted, Zenon
<1>5. \A n \in 1 .. Len(L) : L[n] # x
  BY <1>0, <1>1, Zenon DEF Range
<1>6. Distinct(M)
  <2> SUFFICES ASSUME NEW m \in 1 .. Len(L) + 1, NEW n \in 1 .. Len(L) + 1, M[m] = M[n]
               PROVE  m = n
    BY <1>1, Zenon DEF Distinct
  <2>1. \A i, j \in 1 .. Len(L) : L[i] = L[j] => i = j
    BY <1>0, <1>1, Zenon DEF Distinct
  <2>2. CASE m = at + 1 /\ n # at + 1
    BY <1>1, <1>4, <1>5, <2>2, Zenon
  <2>3. CASE m # at + 1 /\ n = at + 1
    BY <1>1, <1>4, <1>5, <2>3, Zenon
  <2>4. CASE m # at + 1 /\ n # at + 1
    <3>1. PICK i \in 1 .. Len(L) : m = Shift(at, i)
      BY <1>4, <2>4, Zenon
    <3>2. PICK j \in 1 .. Len(L) : n = Shift(at, j)
      BY <1>4, <2>4, Zenon
    <3> QED
      BY <1>1, <2>1, <3>1, <3>2, Zenon
  <2> QED
    BY <2>2, <2>3, <2>4, Zenon
<1>7. Range(M) = Range(L) \cup {x}
  <2>1. Range(M) \subseteq Range(L) \cup {x}
    <3> SUFFICES ASSUME NEW m \in 1 .. Len(L) + 1 PROVE M[m] \in Range(L) \cup {x}
      BY <1>1, Zenon DEF Range
    <3> QED
      BY <1>1, <1>4, Zenon DEF Range
  <2>2. x \in Range(M)
    BY <1>1, <1>3, Zenon DEF Range
  <2>3. Range(L) \subseteq Range(M)
    BY <1>1, <1>2, Zenon DEF Range
  <2> QED
    BY <2>1, <2>2, <2>3, Zenon
<1>8. Pos(M, x) = at + 1
  BY <1>1, <1>3, <1>6, PosOf, Zenon
<1>9. ASSUME NEW y \in Range(L) PROVE Pos(M, y) = Shift(at, Pos(L, y))
  <2>1. Pos(L, y) \in 1 .. Len(L) /\ L[Pos(L, y)] = y
    BY <1>1, PosIn, Zenon
  <2>2. Shift(at, Pos(L, y)) \in DOMAIN M /\ M[Shift(at, Pos(L, y))] = y
    BY <1>1, <1>2, <2>1, Zenon
  <2> QED
    BY <1>6, <2>2, PosOf, Zenon
<1> QED
  BY <1>6, <1>7, <1>8, <1>9

\* The ends of what refers to the list shift with it.
LEMMA ShiftedEnds ==
  ASSUME NEW L, NEW x, NEW at, NEW M, Grows(L, x, at, M),
         NEW s, {s.origin, s.rightOrigin} \subseteq Range(L) \cup {Nil}
  PROVE  /\ LeftEnd(M, s) = Shift(at, LeftEnd(L, s))
         /\ RightEnd(M, s) = Shift(at, RightEnd(L, s))
         /\ {s.origin, s.rightOrigin} \subseteq Range(M) \cup {Nil}
<1>1. Len(M) = Len(L) + 1 /\ Len(L) \in Nat /\ at \in 0 .. Len(L)
  BY Inserted, Zenon DEF Grows
<1>2. /\ Range(M) = Range(L) \cup {x}
      /\ \A y \in Range(L) : Pos(M, y) = Shift(at, Pos(L, y))
  BY InsertedPositions
<1>3. Shift(at, 0) = 0 /\ Shift(at, Len(L) + 1) = Len(L) + 1 + 1
  BY <1>1 DEF Shift
<1> QED
  BY <1>1, <1>2, <1>3, Zenon DEF LeftEnd, RightEnd

\* M is L with s placed, behind position at.
PutAt(st, s, L, at, M) == at = insertAfter(st, s, L) /\ M = InsertBehind(L, at, s.id)

\* place puts the item into the list, between its neighbours.
LEMMA Growing ==
  ASSUME NEW st, NEW L, NEW s, Proper(st, L), Fits(s, L), NEW at, NEW M, PutAt(st, s, L, at, M)
  PROVE  /\ Grows(L, s.id, at, M) /\ at \in LeftEnd(L, s) .. RightEnd(L, s) - 1
         /\ LeftEnd(L, s) \in 0 .. Len(L) /\ RightEnd(L, s) \in 1 .. Len(L) + 1
<1>1. Len(L) \in Nat /\ Distinct(L)
  BY Positions, Zenon
<1>2. /\ L \in Seq(Ids) /\ s.id \in Ids /\ s.id \notin Range(L)
      /\ {s.origin, s.rightOrigin} \subseteq Range(L) \cup {Nil}
  BY Zenon DEF Proper, Fits
<1>3. LeftEnd(L, s) \in 0 .. Len(L) /\ RightEnd(L, s) \in 1 .. Len(L) + 1
  BY <1>2, Ends, Zenon
<1>4. at = insertAfter(st, s, L) /\ M = InsertBehind(L, at, s.id)
  BY Zenon DEF PutAt
<1>5. at \in LeftEnd(L, s) .. RightEnd(L, s) - 1
  BY <1>4, Settles, Zenon
<1>6. at \in 0 .. Len(L)
  BY <1>1, <1>3, <1>5
<1> QED
  BY <1>1, <1>2, <1>3, <1>4, <1>5, <1>6, Zenon DEF Grows

\* The longer list in positions: everything shifts, and s is between its ends.
LEMMA Placing ==
  ASSUME NEW st, NEW st2, NEW L, NEW s, Proper(st, L), Fits(s, L), Extends(st, st2, s, L),
         NEW at, NEW M, PutAt(st, s, L, at, M)
  PROVE  /\ at \in 0 .. Len(L) /\ Len(L) \in Nat /\ M \in Seq(Ids) /\ Distinct(M)
         /\ DOMAIN M = 1 .. Len(L) + 1
         /\ \A m \in 1 .. Len(L) + 1 : m = at + 1 \/ \E n \in 1 .. Len(L) : m = Shift(at, n)
         /\ M[at + 1] = s.id /\ st2[M[at + 1]] = s
         /\ From(st2, M, at + 1) = LeftEnd(L, s) /\ To(st2, M, at + 1) = RightEnd(L, s) + 1
         /\ {s.origin, s.rightOrigin} \subseteq Range(M) \cup {Nil}
         /\ \A n \in 1 .. Len(L) :
              /\ M[Shift(at, n)] = L[n] /\ st2[M[Shift(at, n)]] = st[L[n]]
              /\ From(st2, M, Shift(at, n)) = Shift(at, From(st, L, n))
              /\ To(st2, M, Shift(at, n)) = Shift(at, To(st, L, n))
              /\ {st[L[n]].origin, st[L[n]].rightOrigin} \subseteq Range(M) \cup {Nil}
<1>1. /\ Len(L) \in Nat /\ DOMAIN L = 1 .. Len(L) /\ Distinct(L)
      /\ \A i \in 1 .. Len(L) :
           {st[L[i]].origin, st[L[i]].rightOrigin} \subseteq Range(L) \cup {Nil}
  BY Positions, Zenon
<1>2. /\ L \in Seq(Ids) /\ s.id \in Ids /\ s.id \notin Range(L)
      /\ {s.origin, s.rightOrigin} \subseteq Range(L) \cup {Nil}
      /\ LeftEnd(L, s) < RightEnd(L, s)
  BY Zenon DEF Proper, Fits
<1>3. LeftEnd(L, s) \in 0 .. Len(L) /\ RightEnd(L, s) \in 1 .. Len(L) + 1
  BY Growing, Zenon
<1>4. at \in LeftEnd(L, s) .. RightEnd(L, s) - 1
  BY Growing, Zenon
<1>5. at \in 0 .. Len(L) /\ Shift(at, LeftEnd(L, s)) = LeftEnd(L, s)
      /\ Shift(at, RightEnd(L, s)) = RightEnd(L, s) + 1
  BY <1>1, <1>3, <1>4 DEF Shift
<1>0. Grows(L, s.id, at, M)
  BY Growing, Zenon
<1>6. /\ M \in Seq(Ids) /\ DOMAIN M = 1 .. Len(L) + 1
      /\ M[at + 1] = s.id /\ \A n \in 1 .. Len(L) : M[Shift(at, n)] = L[n]
  BY <1>0, Inserted
<1>7. Distinct(M) /\ Range(M) = Range(L) \cup {s.id}
  BY <1>0, InsertedPositions, Zenon
<1>8. \A m \in 1 .. Len(L) + 1 : m = at + 1 \/ \E n \in 1 .. Len(L) : m = Shift(at, n)
  BY <1>1, <1>5, Shifted, Zenon
<1>9. st2[M[at + 1]] = s /\ \A n \in 1 .. Len(L) : st2[M[Shift(at, n)]] = st[L[n]]
  BY <1>1, <1>6, Zenon DEF Extends, Range
<1>10. /\ LeftEnd(M, s) = LeftEnd(L, s) /\ RightEnd(M, s) = RightEnd(L, s) + 1
       /\ {s.origin, s.rightOrigin} \subseteq Range(M) \cup {Nil}
  BY <1>0, <1>1, <1>2, <1>5, ShiftedEnds
<1>11. ASSUME NEW n \in 1 .. Len(L)
       PROVE  /\ LeftEnd(M, st[L[n]]) = Shift(at, LeftEnd(L, st[L[n]]))
              /\ RightEnd(M, st[L[n]]) = Shift(at, RightEnd(L, st[L[n]]))
              /\ {st[L[n]].origin, st[L[n]].rightOrigin} \subseteq Range(M) \cup {Nil}
  BY <1>0, <1>1, <1>2, <1>5, ShiftedEnds
<1> QED
  BY <1>1, <1>5, <1>6, <1>7, <1>8, <1>9, <1>10, <1>11, Zenon DEF From, To

\* s and an item of the list: each is where the other allows it.
LEMMA PlacedRight ==
  ASSUME NEW st, NEW L, NEW s, Proper(st, L), Fits(s, L), Apart(st, s, L),
         NEW at, at = insertAfter(st, s, L), NEW n \in 1 .. Len(L)
  PROVE  /\ LeftEnd(L, s) < n /\ n <= at => LeftEnd(L, s) <= From(st, L, n)
         /\ From(st, L, n) <= at /\ at < n => From(st, L, n) <= LeftEnd(L, s)
         /\ n <= at /\ From(st, L, n) = LeftEnd(L, s) =>
              L[n][1] < s.id[1] \/ To(st, L, n) <= at
         /\ at < n /\ From(st, L, n) = LeftEnd(L, s) =>
              s.id[1] < L[n][1] \/ RightEnd(L, s) <= n
<1> DEFINE l == LeftEnd(L, s)
           r == RightEnd(L, s)
           c == s.id[1]
<1>1. Len(L) \in Nat /\ DOMAIN L = 1 .. Len(L)
  BY Positions, Zenon
<1>numbers. \A i \in 1 .. Len(L) :
        /\ L[i][1] \in Nat /\ From(st, L, i) \in Nat /\ To(st, L, i) \in Nat /\ i \in Nat
        /\ From(st, L, i) < i /\ i < To(st, L, i)
  BY Positions, Zenon
<1>crossing. \A i, j \in 1 .. Len(L) :
        From(st, L, j) < i /\ i < j => From(st, L, j) <= From(st, L, i)
  BY Positions, Zenon
<1>clients. \A i, j \in 1 .. Len(L) :
        i < j /\ From(st, L, i) = From(st, L, j) => L[i][1] < L[j][1] \/ To(st, L, i) <= j
  BY Positions, Zenon
<1>2. /\ at \in l .. r - 1 /\ Followed(st, s, L, at) /\ Preceded(st, s, L, at, r - 1)
  BY Settles, Zenon
<1>3. l \in 0 .. Len(L) /\ r \in 1 .. Len(L) + 1 /\ c \in Nat
      /\ ((s.rightOrigin = Nil) <=> (r = Len(L) + 1))
  <2>1. l \in 0 .. Len(L) /\ r \in 1 .. Len(L) + 1 /\ ((s.rightOrigin = Nil) <=> (r = Len(L) + 1))
    BY Ends, Zenon DEF Fits, Proper
  <2> QED
    BY <2>1, IdNumbers DEF Fits
<1>4. at \in Nat /\ l \in Nat /\ r \in Nat /\ l <= at /\ at < r
  BY <1>1, <1>2, <1>3
<1>5. /\ r # Len(L) + 1 => From(st, L, r) <= l
      /\ \A j \in 1 .. Len(L) : From(st, L, j) = l /\ L[j][1] = c => r <= j
  BY <1>1, <1>3, Zenon DEF Apart
<1>6. \A i \in l + 1 .. at :
        /\ l <= From(st, L, i)
        /\ From(st, L, i) = l /\ L[i][1] >= c =>
             \E k \in i + 1 .. at :
               \/ From(st, L, k) = l /\ L[k][1] < c
               \/ l < From(st, L, k) /\ From(st, L, k) < i
  BY <1>2, Zenon DEF Followed
<1>7. \A j \in at + 1 .. r - 1 :
        (\A k \in at + 1 .. j : ~Stops(st, s, L, k)) => ~Passes(st, s, L, at, j)
  BY <1>2, Zenon DEF Preceded
<1>8. \A k \in 1 .. Len(L) :
        Stops(st, s, L, k) <=>
          \/ From(st, L, k) < l
          \/ From(st, L, k) = l /\ L[k][1] >= c /\ To(st, L, k) = r
  BY Zenon DEF Stops
<1>9. \A k \in 1 .. Len(L) :
        Passes(st, s, L, at, k) <=>
          \/ From(st, L, k) = l /\ L[k][1] < c
          \/ l < From(st, L, k) /\ From(st, L, k) <= at
  BY Zenon DEF Passes
<1> HIDE DEF l, r, c
<1>10. l < n /\ n <= at => l <= From(st, L, n)
  BY <1>4, <1>6
<1>0. From(st, L, n) \in Nat /\ To(st, L, n) \in Nat /\ L[n][1] \in Nat /\ n \in Nat /\ From(st, L, n) < n
  BY <1>numbers, Zenon
<1>11. ASSUME From(st, L, n) <= at, at < n, l < From(st, L, n) PROVE FALSE
  <2>1. CASE r <= n
    <3>1. r \in 1 .. Len(L) /\ From(st, L, r) <= l
      BY <1>1, <1>3, <1>5, <2>1
    <3>2. From(st, L, n) < r /\ (r = n \/ r < n)
      BY <1>0, <1>4, <1>11, <2>1
    <3>3. From(st, L, n) <= From(st, L, r) /\ From(st, L, r) \in Nat
      <4>1. r < n => From(st, L, n) <= From(st, L, r)
        BY <1>crossing, <3>1, <3>2, Zenon
      <4>2. From(st, L, n) <= From(st, L, n)
        BY <1>0
      <4> QED
        BY <1>numbers, <3>1, <3>2, <4>1, <4>2, Zenon
    <3> QED
      BY <1>0, <1>4, <1>11, <3>1, <3>3
  <2>2. CASE n < r
    <3>1. n \in at + 1 .. r - 1 /\ \A k \in at + 1 .. n : k \in 1 .. Len(L)
      BY <1>1, <1>4, <1>11, <2>2
    <3>2. \A k \in at + 1 .. n : From(st, L, n) <= From(st, L, k)
      <4> SUFFICES ASSUME NEW k \in at + 1 .. n PROVE From(st, L, n) <= From(st, L, k)
        OBVIOUS
      <4>1. k \in 1 .. Len(L)
        BY <3>1, Zenon
      <4>2. From(st, L, n) < k /\ (k < n \/ k = n)
        BY <1>0, <1>4, <1>11
      <4>3. From(st, L, n) <= From(st, L, n)
        BY <1>0
      <4> QED
        BY <1>crossing, <4>1, <4>2, <4>3, Zenon
    <3>3. \A k \in at + 1 .. n : ~Stops(st, s, L, k)
      <4> SUFFICES ASSUME NEW k \in at + 1 .. n PROVE ~Stops(st, s, L, k)
        OBVIOUS
      <4>1. l < From(st, L, k) /\ From(st, L, k) \in Nat
        <5>1. From(st, L, k) \in Nat /\ From(st, L, n) <= From(st, L, k)
          BY <1>numbers, <3>1, <3>2, Zenon
        <5> QED
          BY <1>0, <1>4, <1>11, <5>1
      <4>2. ~(From(st, L, k) < l) /\ From(st, L, k) # l
        BY <1>4, <4>1
      <4> QED
        BY <1>8, <3>1, <4>2, Zenon
    <3>4. ~Passes(st, s, L, at, n)
      BY <1>7, <3>1, <3>3, Zenon
    <3> QED
      BY <1>9, <1>11, <3>4, Zenon
  <2> QED
    BY <1>3, <2>1, <2>2
<1>12. ASSUME n <= at, From(st, L, n) = l, L[n][1] >= c, To(st, L, n) > at PROVE FALSE
  <2>1. n \in l + 1 .. at
    BY <1>0, <1>4, <1>12
  <2>2. PICK k \in n + 1 .. at :
          \/ From(st, L, k) = l /\ L[k][1] < c
          \/ l < From(st, L, k) /\ From(st, L, k) < n
    BY <1>6, <1>12, <2>1, Zenon
  <2>3. k \in 1 .. Len(L) /\ n < k
    BY <1>1, <1>3, <1>4, <2>2
  <2>4. CASE From(st, L, k) = l /\ L[k][1] < c
    <3>1. L[n][1] < L[k][1] \/ To(st, L, n) <= k
      BY <1>clients, <1>12, <2>3, <2>4, Zenon
    <3>2. L[k][1] \in Nat /\ k \in Nat /\ k <= at /\ c \in Nat
      BY <1>numbers, <1>3, <2>2, <2>3
    <3> QED
      BY <1>0, <1>4, <1>12, <2>4, <3>1, <3>2
  <2>5. CASE l < From(st, L, k) /\ From(st, L, k) < n
    <3>1. From(st, L, k) <= From(st, L, n)
      BY <1>crossing, <2>3, <2>5, Zenon
    <3>2. From(st, L, k) \in Nat
      BY <1>numbers, <2>3, Zenon
    <3> QED
      BY <1>0, <1>4, <1>12, <2>5, <3>1, <3>2
  <2> QED
    BY <2>2, <2>4, <2>5
<1>13. ASSUME at < n, From(st, L, n) = l, ~(c < L[n][1]), n < r PROVE FALSE
  <2>1. L[n][1] < c
    <3>1. L[n][1] # c
      <4>1. L[n][1] = c => r <= n
        BY <1>5, <1>13, Zenon
      <4> QED
        BY <1>0, <1>4, <1>13, <4>1
    <3>2. c \in Nat
      BY <1>3, Zenon
    <3> QED
      BY <1>0, <1>13, <3>1, <3>2
  <2>2. n \in at + 1 .. r - 1
    BY <1>4, <1>13
  <2>3. Passes(st, s, L, at, n)
    BY <1>9, <1>13, <2>1, Zenon
  <2>4. PICK k \in at + 1 .. n : Stops(st, s, L, k)
    BY <1>7, <2>2, <2>3, Zenon
  <2>5. k \in 1 .. Len(L) /\ l < k /\ (k = n \/ k < n)
    BY <1>1, <1>4, <2>4
  <2>6. CASE From(st, L, k) < l
    <3>1. k < n
      BY <1>13, <2>5, <2>6, <1>4
    <3>2. From(st, L, n) <= From(st, L, k)
      BY <1>crossing, <1>13, <2>5, <3>1, Zenon
    <3>3. From(st, L, k) \in Nat
      BY <1>numbers, <2>5, Zenon
    <3> QED
      BY <1>4, <1>13, <2>6, <3>2, <3>3
  <2>7. CASE From(st, L, k) = l /\ L[k][1] >= c /\ To(st, L, k) = r
    <3>1. k < n
      <4>1. L[k][1] # L[n][1]
        <5>1. c \in Nat /\ L[k][1] \in Nat
          BY <1>3, <1>numbers, <2>5, Zenon
        <5> QED
          BY <1>0, <2>1, <2>7, <5>1
      <4> QED
        BY <2>5, <4>1, Zenon
    <3>2. L[k][1] < L[n][1] \/ To(st, L, k) <= n
      BY <1>clients, <1>13, <2>5, <2>7, <3>1, Zenon
    <3>3. L[k][1] \in Nat /\ c \in Nat
      BY <1>3, <1>numbers, <2>5, Zenon
    <3>4. L[n][1] < L[k][1]
      BY <1>0, <2>1, <2>7, <3>3
    <3>5. To(st, L, k) <= n
      BY <1>0, <3>2, <3>3, <3>4
    <3> QED
      BY <1>0, <1>4, <1>13, <2>7, <3>5
  <2> QED
    BY <1>8, <2>4, <2>5, <2>6, <2>7, Zenon
<1>14. From(st, L, n) \in Nat /\ To(st, L, n) \in Nat /\ L[n][1] \in Nat /\ n \in Nat
  BY <1>0, Zenon
<1> QED
  BY <1>3, <1>4, <1>10, <1>11, <1>12, <1>13, <1>14 DEF l, r, c

\* Whatever the conflict scan of integrateWithScratch is given, it leaves a list
\* in order, as long as the new item fits: its neighbours are there in their
\* order, and what its client put between them before is not (Apart).
THEOREM PlacingKeepsOrder ==
  ASSUME NEW st, NEW st2, NEW L, NEW s, Proper(st, L), Fits(s, L), Apart(st, s, L),
         Extends(st, st2, s, L)
  PROVE  Proper(st2, place(st, s, L))
<1> DEFINE at == insertAfter(st, s, L)
           M == InsertBehind(L, at, s.id)
           l == LeftEnd(L, s)
           r == RightEnd(L, s)
           N == Len(L)
<1>0. PutAt(st, s, L, at, M)
  BY Zenon DEF PutAt
<1> HIDE DEF at, M
<1>1. N \in Nat /\ DOMAIN L = 1 .. N
  BY Positions, Zenon
<1>numbers. \A i \in 1 .. N :
        /\ L[i][1] \in Nat /\ From(st, L, i) \in Nat /\ To(st, L, i) \in Nat /\ i \in Nat
        /\ From(st, L, i) < i /\ i < To(st, L, i)
  BY Positions, Zenon
<1>crossing. \A i, j \in 1 .. N :
        From(st, L, j) < i /\ i < j => From(st, L, j) <= From(st, L, i)
  BY Positions, Zenon
<1>clients. \A i, j \in 1 .. N :
        i < j /\ From(st, L, i) = From(st, L, j) => L[i][1] < L[j][1] \/ To(st, L, i) <= j
  BY Positions, Zenon
<1>2. /\ M \in Seq(Ids) /\ Distinct(M) /\ DOMAIN M = 1 .. N + 1
      /\ \A m \in 1 .. N + 1 : m = at + 1 \/ \E n \in 1 .. N : m = Shift(at, n)
      /\ M[at + 1] = s.id /\ st2[M[at + 1]] = s
      /\ From(st2, M, at + 1) = l /\ To(st2, M, at + 1) = r + 1
      /\ {s.origin, s.rightOrigin} \subseteq Range(M) \cup {Nil}
  BY <1>0, Placing
<1>3. \A n \in 1 .. N :
        /\ M[Shift(at, n)] = L[n] /\ st2[M[Shift(at, n)]] = st[L[n]]
        /\ From(st2, M, Shift(at, n)) = Shift(at, From(st, L, n))
        /\ To(st2, M, Shift(at, n)) = Shift(at, To(st, L, n))
        /\ {st[L[n]].origin, st[L[n]].rightOrigin} \subseteq Range(M) \cup {Nil}
  BY <1>0, Placing
<1>4. \A n \in 1 .. N :
        /\ l < n /\ n <= at => l <= From(st, L, n)
        /\ From(st, L, n) <= at /\ at < n => From(st, L, n) <= l
        /\ n <= at /\ From(st, L, n) = l => L[n][1] < s.id[1] \/ To(st, L, n) <= at
        /\ at < n /\ From(st, L, n) = l => s.id[1] < L[n][1] \/ r <= n
  BY PlacedRight, Zenon DEF at
<1>5. at \in l .. r - 1 /\ l \in 0 .. N /\ r \in 1 .. N + 1
  BY <1>0, Growing, Zenon
<1>6. at \in Nat /\ l \in Nat /\ r \in Nat /\ l <= at /\ at < r /\ at <= N /\ s.id[1] \in Nat
  <2>1. s.id[1] \in Nat
    BY IdNumbers DEF Fits
  <2> QED
    BY <1>1, <1>5, <2>1
<1>7. place(st, s, L) = M
  BY Zenon DEF place, M, at
<1> HIDE DEF l, r, N
<1>8. Between(st2, M)
  <2> SUFFICES ASSUME NEW m \in 1 .. N + 1
               PROVE  /\ {st2[M[m]].origin, st2[M[m]].rightOrigin} \subseteq Range(M) \cup {Nil}
                      /\ From(st2, M, m) < m /\ m < To(st2, M, m)
    BY <1>2, Zenon DEF Between, From, To
  <2>1. CASE m = at + 1
    BY <1>2, <1>6, <2>1
  <2>2. ASSUME NEW n \in 1 .. N, m = Shift(at, n)
        PROVE  /\ {st2[M[m]].origin, st2[M[m]].rightOrigin} \subseteq Range(M) \cup {Nil}
               /\ From(st2, M, m) < m /\ m < To(st2, M, m)
    <3>1. From(st2, M, m) = Shift(at, From(st, L, n)) /\ To(st2, M, m) = Shift(at, To(st, L, n))
      BY <1>3, <2>2, Zenon
    <3>2. From(st, L, n) \in Nat /\ To(st, L, n) \in Nat /\ From(st, L, n) < n /\ n < To(st, L, n)
      BY <1>numbers, Zenon
    <3>3. From(st2, M, m) < m /\ m < To(st2, M, m)
      BY <1>6, <2>2, <3>1, <3>2 DEF Shift
    <3>4. st2[M[m]] = st[L[n]]
      BY <1>3, <2>2, Zenon
    <3>5. {st[L[n]].origin, st[L[n]].rightOrigin} \subseteq Range(M) \cup {Nil}
      BY <1>3, Zenon
    <3> QED
      BY <3>3, <3>4, <3>5, Zenon
  <2> QED
    BY <1>2, <2>1, <2>2, Zenon
<1>9. ASSUME NEW m \in 1 .. N + 1, NEW n \in 1 .. N + 1,
             From(st2, M, n) < m, m < n
      PROVE  From(st2, M, n) <= From(st2, M, m)
  <2>1. CASE m = at + 1
    <3>1. n # at + 1
      BY <1>6, <1>9, <2>1
    <3>2. PICK j \in 1 .. N : n = Shift(at, j)
      BY <1>2, <3>1, Zenon
    <3>3. From(st2, M, n) = Shift(at, From(st, L, j)) /\ From(st2, M, m) = l
      BY <1>2, <1>3, <2>1, <3>2, Zenon
    <3>4. From(st, L, j) <= at /\ at < j /\ From(st, L, j) \in Nat
      <4>1. From(st, L, j) \in Nat /\ j \in Nat
        BY <1>numbers, Zenon
      <4> QED
        BY <1>6, <1>9, <2>1, <3>2, <3>3, <4>1 DEF Shift
    <3>5. From(st, L, j) <= l
      BY <1>4, <3>4, Zenon
    <3> QED
      BY <1>6, <3>3, <3>4, <3>5 DEF Shift
  <2>2. CASE m # at + 1 /\ n = at + 1
    <3>1. PICK i \in 1 .. N : m = Shift(at, i)
      BY <1>2, <2>2, Zenon
    <3>2. From(st2, M, m) = Shift(at, From(st, L, i)) /\ From(st2, M, n) = l
      BY <1>2, <1>3, <2>2, <3>1, Zenon
    <3>3. l < i /\ i <= at /\ From(st, L, i) \in Nat
      <4>1. From(st, L, i) \in Nat /\ i \in Nat
        BY <1>numbers, Zenon
      <4> QED
        BY <1>6, <1>9, <2>2, <3>1, <3>2, <4>1 DEF Shift
    <3>4. l <= From(st, L, i)
      BY <1>4, <3>3, Zenon
    <3> QED
      BY <1>6, <3>2, <3>3, <3>4 DEF Shift
  <2>3. CASE m # at + 1 /\ n # at + 1
    <3>1. PICK i \in 1 .. N : m = Shift(at, i)
      BY <1>2, <2>3, Zenon
    <3>2. PICK j \in 1 .. N : n = Shift(at, j)
      BY <1>2, <2>3, Zenon
    <3>3. From(st2, M, m) = Shift(at, From(st, L, i)) /\ From(st2, M, n) = Shift(at, From(st, L, j))
      BY <1>3, <3>1, <3>2, Zenon
    <3>4. From(st, L, i) \in Nat /\ From(st, L, j) \in Nat
      BY <1>numbers, Zenon
    <3>5. From(st, L, j) < i /\ i < j
      BY <1>6, <1>9, <3>1, <3>2, <3>3, <3>4 DEF Shift
    <3>6. From(st, L, j) <= From(st, L, i)
      BY <1>crossing, <3>5, Zenon
    <3> QED
      BY <1>6, <3>3, <3>4, <3>6 DEF Shift
  <2> QED
    BY <2>1, <2>2, <2>3
<1>10. ASSUME NEW m \in 1 .. N + 1, NEW n \in 1 .. N + 1, m < n,
              From(st2, M, m) = From(st2, M, n)
       PROVE  M[m][1] < M[n][1] \/ To(st2, M, m) <= n
  <2>1. CASE m = at + 1
    <3>1. n # at + 1
      BY <1>6, <1>10, <2>1
    <3>2. PICK j \in 1 .. N : n = Shift(at, j)
      BY <1>2, <3>1, Zenon
    <3>3. /\ From(st2, M, n) = Shift(at, From(st, L, j)) /\ From(st2, M, m) = l
          /\ To(st2, M, m) = r + 1 /\ M[m] = s.id /\ M[n] = L[j]
      BY <1>2, <1>3, <2>1, <3>2, Zenon
    <3>4. at < j /\ From(st, L, j) \in Nat /\ From(st, L, j) = l
      <4>1. From(st, L, j) \in Nat /\ j \in Nat /\ From(st, L, j) < j
        BY <1>numbers, Zenon
      <4>2. at < j
        BY <1>6, <1>10, <2>1, <3>2, <4>1 DEF Shift
      <4>3. Shift(at, From(st, L, j)) = l
        BY <1>10, <3>3
      <4> QED
        BY <1>6, <4>1, <4>2, <4>3 DEF Shift
    <3>5. s.id[1] < L[j][1] \/ r <= j
      BY <1>4, <3>4, Zenon
    <3>6. n = j + 1
      BY <1>6, <3>2, <3>4 DEF Shift
    <3>7. r <= j => r + 1 <= j + 1
      BY <1>6
    <3> QED
      BY <3>3, <3>5, <3>6, <3>7, Zenon
  <2>2. CASE m # at + 1 /\ n = at + 1
    <3>1. PICK i \in 1 .. N : m = Shift(at, i)
      BY <1>2, <2>2, Zenon
    <3>2. /\ From(st2, M, m) = Shift(at, From(st, L, i)) /\ From(st2, M, n) = l
          /\ To(st2, M, m) = Shift(at, To(st, L, i)) /\ M[n] = s.id /\ M[m] = L[i]
      BY <1>2, <1>3, <2>2, <3>1, Zenon
    <3>3. i <= at /\ From(st, L, i) \in Nat /\ From(st, L, i) = l
      <4>1. From(st, L, i) \in Nat /\ i \in Nat
        BY <1>numbers, Zenon
      <4>2. i <= at
        BY <1>6, <1>10, <2>2, <3>1, <4>1 DEF Shift
      <4>3. Shift(at, From(st, L, i)) = l
        BY <1>10, <3>2, Zenon
      <4> QED
        BY <1>6, <4>1, <4>2, <4>3 DEF Shift
    <3>4. L[i][1] < s.id[1] \/ To(st, L, i) <= at
      BY <1>4, <3>3, Zenon
    <3>5. To(st, L, i) <= at => Shift(at, To(st, L, i)) <= n
      <4>1. To(st, L, i) \in Nat
        BY <1>numbers, Zenon
      <4> QED
        BY <1>6, <2>2, <4>1 DEF Shift
    <3> QED
      BY <3>2, <3>4, <3>5, Zenon
  <2>3. CASE m # at + 1 /\ n # at + 1
    <3>1. PICK i \in 1 .. N : m = Shift(at, i)
      BY <1>2, <2>3, Zenon
    <3>2. PICK j \in 1 .. N : n = Shift(at, j)
      BY <1>2, <2>3, Zenon
    <3>3. /\ From(st2, M, m) = Shift(at, From(st, L, i)) /\ From(st2, M, n) = Shift(at, From(st, L, j))
          /\ To(st2, M, m) = Shift(at, To(st, L, i)) /\ M[m] = L[i] /\ M[n] = L[j]
      BY <1>3, <3>1, <3>2, Zenon
    <3>4. From(st, L, i) \in Nat /\ From(st, L, j) \in Nat /\ To(st, L, i) \in Nat
      BY <1>numbers, Zenon
    <3>5. From(st, L, i) = From(st, L, j) /\ i < j
      BY <1>6, <1>10, <3>1, <3>2, <3>3, <3>4 DEF Shift
    <3>6. L[i][1] < L[j][1] \/ To(st, L, i) <= j
      BY <1>clients, <3>5, Zenon
    <3>7. To(st, L, i) <= j => Shift(at, To(st, L, i)) <= Shift(at, j)
      BY <1>6, <3>4 DEF Shift
    <3> QED
      BY <3>2, <3>3, <3>6, <3>7, Zenon
  <2> QED
    BY <2>1, <2>2, <2>3
<1>11. NoCrossing(st2, M)
  BY <1>2, <1>9, Zenon DEF NoCrossing, From
<1>12. ByClient(st2, M)
  <2>1. \A m, n \in 1 .. N + 1 : st2[M[m]].origin = st2[M[n]].origin => From(st2, M, m) = From(st2, M, n)
    BY Zenon DEF From, LeftEnd
  <2> QED
    BY <1>2, <1>10, <2>1, Zenon DEF ByClient, To
<1>13. Nil \notin Range(M)
  <2>1. \A m \in DOMAIN M : M[m] \in Ids
    BY <1>2, Members, Zenon
  <2> QED
    BY <2>1, PlacementAssumption, Zenon DEF Range, Ids
<1>14. M \in Seq(Ids) /\ \A m, n \in DOMAIN M : M[m] = M[n] => m = n
  BY <1>2, Zenon DEF Distinct
<1>15. Proper(st2, M)
  BY <1>8, <1>11, <1>12, <1>13, <1>14, Zenon DEF Proper, InOrder
<1> QED
  BY <1>7, <1>15

-----------------------------------------------------------------------------
(* The structs determine the order. *)

\* An item was made after what it refers to.
Later(st, rank, x) ==
  /\ rank[x] \in Nat
  /\ \A y \in {st[x].origin, st[x].rightOrigin} \ {Nil} : rank[y] \in Nat /\ rank[y] < rank[x]

\* x and y are in this order in A and in the other one in B.
Disagree(A, B, x, y) == Pos(A, x) < Pos(A, y) /\ Pos(B, y) < Pos(B, x)

\* What a list in order says of two of its items.
LEMMA PairInOrder ==
  ASSUME NEW st, NEW L, Proper(st, L), NEW x \in Range(L), NEW y \in Range(L),
         Pos(L, x) < Pos(L, y)
  PROVE  /\ Pos(L, x) \in 1 .. Len(L) /\ Pos(L, y) \in 1 .. Len(L) /\ Len(L) \in Nat
         /\ x[1] \in Nat /\ y[1] \in Nat
         /\ {st[x].origin, st[x].rightOrigin, st[y].origin, st[y].rightOrigin}
              \subseteq Range(L) \cup {Nil}
         /\ LeftEnd(L, st[x]) \in Nat /\ LeftEnd(L, st[x]) < Pos(L, x)
         /\ LeftEnd(L, st[y]) \in Nat
         /\ RightEnd(L, st[y]) \in Nat /\ Pos(L, y) < RightEnd(L, st[y])
         /\ LeftEnd(L, st[y]) < Pos(L, x) => LeftEnd(L, st[y]) <= LeftEnd(L, st[x])
         /\ LeftEnd(L, st[x]) = LeftEnd(L, st[y]) /\ Pos(L, y) < RightEnd(L, st[x]) => x[1] < y[1]
<1> DEFINE i == Pos(L, x)
           j == Pos(L, y)
<1>1. /\ Len(L) \in Nat /\ DOMAIN L = 1 .. Len(L)
      /\ \A n \in 1 .. Len(L) :
           /\ L[n] \in Ids /\ L[n][1] \in Nat
           /\ {st[L[n]].origin, st[L[n]].rightOrigin} \subseteq Range(L) \cup {Nil}
           /\ From(st, L, n) \in 0 .. n - 1 /\ To(st, L, n) \in n + 1 .. Len(L) + 1
      /\ \A m, n \in 1 .. Len(L) :
           From(st, L, n) < m /\ m < n => From(st, L, n) <= From(st, L, m)
      /\ \A m, n \in 1 .. Len(L) :
           m < n /\ From(st, L, m) = From(st, L, n) => L[m][1] < L[n][1] \/ To(st, L, m) <= n
  BY Positions, Zenon
<1>2. i \in 1 .. Len(L) /\ j \in 1 .. Len(L) /\ L[i] = x /\ L[j] = y
  BY <1>1, PosIn, Zenon
<1>3. /\ LeftEnd(L, st[x]) = From(st, L, i) /\ RightEnd(L, st[x]) = To(st, L, i)
      /\ LeftEnd(L, st[y]) = From(st, L, j) /\ RightEnd(L, st[y]) = To(st, L, j)
  BY <1>2, Zenon DEF From, To
<1> HIDE DEF i, j
<1>4. i < j
  BY DEF i, j
<1>5. /\ x[1] \in Nat /\ y[1] \in Nat
      /\ {st[x].origin, st[x].rightOrigin} \subseteq Range(L) \cup {Nil}
      /\ {st[y].origin, st[y].rightOrigin} \subseteq Range(L) \cup {Nil}
  BY <1>1, <1>2, Zenon
<1>6. /\ From(st, L, i) \in Nat /\ From(st, L, i) < i /\ From(st, L, j) \in Nat
      /\ To(st, L, j) \in Nat /\ j < To(st, L, j) /\ To(st, L, i) \in Nat /\ i \in Nat /\ j \in Nat
  BY <1>1, <1>2
<1>7. From(st, L, j) < i => From(st, L, j) <= From(st, L, i)
  BY <1>1, <1>2, <1>4, Zenon
<1>8. From(st, L, i) = From(st, L, j) => x[1] < y[1] \/ To(st, L, i) <= j
  BY <1>1, <1>2, <1>4, Zenon
<1>9. j < To(st, L, i) => ~(To(st, L, i) <= j)
  BY <1>6
<1> QED
  BY <1>1, <1>2, <1>3, <1>5, <1>6, <1>7, <1>8, <1>9, Zenon DEF i, j

\* Two lists that agree on the earlier pairs agree on this one.
LEMMA NoFirstDisagreement ==
  ASSUME NEW st, NEW A, NEW B, Proper(st, A), Proper(st, B), NEW rank,
         NEW x \in Range(A) \cap Range(B), NEW y \in Range(A) \cap Range(B),
         Later(st, rank, x), Later(st, rank, y), Disagree(A, B, x, y),
         \A v, w \in Range(A) \cap Range(B) :
           rank[v] \in Nat /\ rank[w] \in Nat /\ rank[v] + rank[w] < rank[x] + rank[y] => ~Disagree(A, B, v, w)
  PROVE  FALSE
<1> DEFINE C == Range(A) \cap Range(B)
           ox == st[x].origin
           oy == st[y].origin
           rx == st[x].rightOrigin
           ry == st[y].rightOrigin
           Low(v, w) == rank[v] \in Nat /\ rank[w] \in Nat /\ rank[v] + rank[w] < rank[x] + rank[y]
<1>1. /\ Pos(A, x) \in 1 .. Len(A) /\ Pos(A, y) \in 1 .. Len(A) /\ Len(A) \in Nat
      /\ {ox, rx, oy, ry} \subseteq Range(A) \cup {Nil}
      /\ LeftEnd(A, st[x]) \in Nat /\ LeftEnd(A, st[x]) < Pos(A, x)
      /\ LeftEnd(A, st[y]) \in Nat
      /\ RightEnd(A, st[y]) \in Nat /\ Pos(A, y) < RightEnd(A, st[y])
      /\ LeftEnd(A, st[y]) < Pos(A, x) => LeftEnd(A, st[y]) <= LeftEnd(A, st[x])
      /\ LeftEnd(A, st[x]) = LeftEnd(A, st[y]) /\ Pos(A, y) < RightEnd(A, st[x]) => x[1] < y[1]
      /\ Pos(A, x) < Pos(A, y) /\ x[1] \in Nat /\ y[1] \in Nat
  BY PairInOrder DEF Disagree
<1>2. /\ Pos(B, x) \in 1 .. Len(B) /\ Pos(B, y) \in 1 .. Len(B) /\ Len(B) \in Nat
      /\ {ox, rx, oy, ry} \subseteq Range(B) \cup {Nil}
      /\ LeftEnd(B, st[y]) \in Nat /\ LeftEnd(B, st[y]) < Pos(B, y)
      /\ LeftEnd(B, st[x]) \in Nat
      /\ RightEnd(B, st[x]) \in Nat /\ Pos(B, x) < RightEnd(B, st[x])
      /\ LeftEnd(B, st[x]) < Pos(B, y) => LeftEnd(B, st[x]) <= LeftEnd(B, st[y])
      /\ LeftEnd(B, st[y]) = LeftEnd(B, st[x]) /\ Pos(B, x) < RightEnd(B, st[y]) => y[1] < x[1]
      /\ Pos(B, y) < Pos(B, x)
  BY PairInOrder DEF Disagree
<1>3. {ox, rx, oy, ry} \subseteq C \cup {Nil}
  BY <1>1, <1>2, Zenon
<1>4. \A v, w \in C : Low(v, w) => ~Disagree(A, B, v, w) /\ ~Disagree(A, B, w, v)
  <2>1. \A v, w \in C : Low(v, w) => Low(w, v)
    OBVIOUS
  <2> QED
    BY <2>1, Zenon
<1>5. \A v, w \in C :
        /\ Pos(A, v) \in Nat /\ Pos(B, v) \in Nat
        /\ v # w => Pos(A, v) # Pos(A, w) /\ Pos(B, v) # Pos(B, w)
  <2>1. \A v \in C : Pos(A, v) \in DOMAIN A /\ A[Pos(A, v)] = v /\ Pos(B, v) \in DOMAIN B /\ B[Pos(B, v)] = v
    BY PosIn, Zenon
  <2>2. \A v \in C : Pos(A, v) \in Nat /\ Pos(B, v) \in Nat
    BY <2>1 DEF Proper
  <2> QED
    BY <2>1, <2>2, Zenon
<1>6. \A v, w \in C : Low(v, w) /\ v # w => (Pos(A, v) < Pos(A, w) <=> Pos(B, v) < Pos(B, w))
  BY <1>4, <1>5 DEF Disagree
<1>7. /\ rank[x] \in Nat /\ rank[y] \in Nat
      /\ \A v \in {ox, rx} \ {Nil} : rank[v] \in Nat /\ rank[v] < rank[x]
      /\ \A v \in {oy, ry} \ {Nil} : rank[v] \in Nat /\ rank[v] < rank[y]
  BY Zenon DEF Later
<1>8. /\ \A v \in {ox, rx} \ {Nil} : Low(v, y)
      /\ \A v \in {oy, ry} \ {Nil} : Low(v, x)
      /\ \A v \in {ox, rx} \ {Nil}, w \in {oy, ry} \ {Nil} : Low(v, w)
  BY <1>7
<1>9. /\ LeftEnd(A, st[x]) = (IF ox = Nil THEN 0 ELSE Pos(A, ox))
      /\ LeftEnd(B, st[x]) = (IF ox = Nil THEN 0 ELSE Pos(B, ox))
      /\ LeftEnd(A, st[y]) = (IF oy = Nil THEN 0 ELSE Pos(A, oy))
      /\ LeftEnd(B, st[y]) = (IF oy = Nil THEN 0 ELSE Pos(B, oy))
  BY Zenon DEF LeftEnd
<1>10. /\ RightEnd(A, st[x]) = (IF rx = Nil THEN Len(A) + 1 ELSE Pos(A, rx))
       /\ RightEnd(B, st[x]) = (IF rx = Nil THEN Len(B) + 1 ELSE Pos(B, rx))
       /\ RightEnd(A, st[y]) = (IF ry = Nil THEN Len(A) + 1 ELSE Pos(A, ry))
       /\ RightEnd(B, st[y]) = (IF ry = Nil THEN Len(B) + 1 ELSE Pos(B, ry))
  BY Zenon DEF RightEnd
<1> HIDE DEF C, ox, oy, rx, ry, Low
<1>11. x \in C /\ y \in C
  BY DEF C
<1>12. Pos(A, y) < RightEnd(A, st[x])
  <2>1. CASE rx = Nil
    BY <1>1, <1>10, <2>1
  <2>2. CASE rx # Nil
    <3>1. rx \in C /\ Low(rx, y)
      BY <1>3, <1>8, <2>2, Zenon
    <3>2. Pos(B, y) < Pos(B, rx) /\ rx # y
      <4>1. Pos(B, x) < Pos(B, rx)
        BY <1>2, <1>10, <2>2
      <4> QED
        BY <1>2, <1>5, <1>11, <3>1, <4>1
    <3>3. ~(Pos(A, rx) < Pos(A, y))
      <4>1. ~(Pos(B, rx) < Pos(B, y))
        BY <1>5, <1>11, <3>1, <3>2
      <4> QED
        BY <1>6, <1>11, <3>1, <3>2, <4>1, Zenon
    <3> QED
      BY <1>5, <1>10, <1>11, <2>2, <3>1, <3>2, <3>3
  <2> QED
    BY <2>1, <2>2
<1>13. Pos(B, x) < RightEnd(B, st[y])
  <2>1. CASE ry = Nil
    BY <1>2, <1>10, <2>1
  <2>2. CASE ry # Nil
    <3>1. ry \in C /\ Low(ry, x)
      BY <1>3, <1>8, <2>2, Zenon
    <3>2. Pos(A, x) < Pos(A, ry) /\ ry # x
      <4>1. Pos(A, y) < Pos(A, ry)
        BY <1>1, <1>10, <2>2
      <4>2. Pos(A, x) \in Nat /\ Pos(A, y) \in Nat /\ Pos(A, ry) \in Nat /\ Pos(A, x) < Pos(A, y)
        BY <1>1, <1>5, <1>11, <3>1, Zenon
      <4> QED
        BY <4>1, <4>2
    <3>3. ~(Pos(B, ry) < Pos(B, x))
      <4>1. ~(Pos(A, ry) < Pos(A, x))
        BY <1>5, <1>11, <3>1, <3>2
      <4> QED
        BY <1>6, <1>11, <3>1, <3>2, <4>1, Zenon
    <3> QED
      BY <1>5, <1>10, <1>11, <2>2, <3>1, <3>2, <3>3
  <2> QED
    BY <2>1, <2>2
<1>14. LeftEnd(A, st[y]) < Pos(A, x)
  <2>1. CASE oy = Nil
    BY <1>1, <1>9, <2>1
  <2>2. CASE oy # Nil
    <3>1. oy \in C /\ Low(oy, x)
      BY <1>3, <1>8, <2>2, Zenon
    <3>2. Pos(B, oy) < Pos(B, x) /\ oy # x
      <4>1. Pos(B, oy) < Pos(B, y)
        BY <1>2, <1>9, <2>2
      <4>2. Pos(B, x) \in Nat /\ Pos(B, y) \in Nat /\ Pos(B, oy) \in Nat /\ Pos(B, y) < Pos(B, x)
        BY <1>2, <1>5, <1>11, <3>1, Zenon
      <4> QED
        BY <4>1, <4>2
    <3>3. Pos(A, oy) < Pos(A, x)
      BY <1>6, <1>11, <3>1, <3>2, Zenon
    <3> QED
      BY <1>9, <2>2, <3>3, Zenon
  <2> QED
    BY <2>1, <2>2
<1>15. LeftEnd(B, st[x]) < Pos(B, y)
  <2>1. CASE ox = Nil
    BY <1>2, <1>9, <2>1
  <2>2. CASE ox # Nil
    <3>1. ox \in C /\ Low(ox, y)
      BY <1>3, <1>8, <2>2, Zenon
    <3>2. Pos(A, ox) < Pos(A, y) /\ ox # y
      <4>1. Pos(A, ox) < Pos(A, x)
        BY <1>1, <1>9, <2>2
      <4>2. Pos(A, x) \in Nat /\ Pos(A, y) \in Nat /\ Pos(A, ox) \in Nat /\ Pos(A, x) < Pos(A, y)
        BY <1>1, <1>5, <1>11, <3>1, Zenon
      <4> QED
        BY <4>1, <4>2
    <3>3. Pos(B, ox) < Pos(B, y)
      BY <1>6, <1>11, <3>1, <3>2, Zenon
    <3> QED
      BY <1>9, <2>2, <3>3, Zenon
  <2> QED
    BY <2>1, <2>2
<1>16. LeftEnd(A, st[y]) <= LeftEnd(A, st[x]) /\ LeftEnd(B, st[x]) <= LeftEnd(B, st[y])
  BY <1>1, <1>2, <1>14, <1>15, Zenon
<1>17. ox = oy
  <2> SUFFICES ASSUME ox # oy PROVE FALSE
    OBVIOUS
  <2>1. CASE ox = Nil
    <3>1. oy \in C /\ LeftEnd(A, st[x]) = 0 /\ LeftEnd(A, st[y]) = Pos(A, oy)
      BY <1>3, <1>9, <2>1, Zenon
    <3>2. Pos(A, oy) \in 1 .. Len(A)
      BY <3>1, PosIn DEF C, Proper
    <3> QED
      BY <1>16, <3>1, <3>2
  <2>2. CASE oy = Nil
    <3>1. ox \in C /\ LeftEnd(B, st[y]) = 0 /\ LeftEnd(B, st[x]) = Pos(B, ox)
      BY <1>3, <1>9, <2>2, Zenon
    <3>2. Pos(B, ox) \in 1 .. Len(B)
      BY <3>1, PosIn DEF C, Proper
    <3> QED
      BY <1>16, <3>1, <3>2
  <2>3. CASE ox # Nil /\ oy # Nil
    <3>1. ox \in C /\ oy \in C /\ Low(ox, oy)
      BY <1>3, <1>8, <2>3, Zenon
    <3>2. Pos(A, oy) <= Pos(A, ox) /\ Pos(B, ox) <= Pos(B, oy)
      BY <1>9, <1>16, <2>3, Zenon
    <3>3. Pos(A, oy) < Pos(A, ox) /\ Pos(B, ox) < Pos(B, oy)
      BY <1>5, <3>1, <3>2
    <3> QED
      BY <1>4, <3>1, <3>3, Zenon DEF Disagree
  <2> QED
    BY <2>1, <2>2, <2>3
<1>18. x[1] < y[1] /\ y[1] < x[1]
  <2>1. LeftEnd(A, st[x]) = LeftEnd(A, st[y]) /\ LeftEnd(B, st[y]) = LeftEnd(B, st[x])
    BY <1>17 DEF LeftEnd, ox, oy
  <2> QED
    BY <1>1, <1>2, <1>12, <1>13, <2>1, Zenon
<1> QED
  BY <1>1, <1>18

\* The items of S were made after what they refer to.
Founded(st, rank, S) == \A x \in S : Later(st, rank, x)

\* Two lists in order have the items they share in one order, whatever else each
\* of them has: the order is a function of origins, right origins and clients,
\* which is what integrateWithScratch decides by.
THEOREM OrderIsDetermined ==
  ASSUME NEW st, NEW A, NEW B, Proper(st, A), Proper(st, B), NEW rank,
         Founded(st, rank, Range(A) \cap Range(B))
  PROVE  Agree(A, B)
<1> DEFINE C == Range(A) \cap Range(B)
           Sums == {n \in Nat : \E x, y \in C : Disagree(A, B, x, y) /\ n = rank[x] + rank[y]}
<1>1. \A x \in C : rank[x] \in Nat
  BY Zenon DEF Founded, Later
<1>2. Sums = {}
  <2> SUFFICES ASSUME Sums # {} PROVE FALSE
    OBVIOUS
  <2>1. PICK n \in Sums : \A m \in Sums : n <= m
    <3>1. Sums \subseteq Nat
      BY Zenon
    <3> HIDE DEF Sums
    <3> QED
      BY <3>1, LeastOf, Zenon
  <2>2. PICK x \in C, y \in C : Disagree(A, B, x, y) /\ n = rank[x] + rank[y]
    BY <2>1, Zenon
  <2>3. ASSUME NEW v \in C, NEW w \in C, rank[v] \in Nat, rank[w] \in Nat,
               rank[v] + rank[w] < rank[x] + rank[y], Disagree(A, B, v, w)
        PROVE  FALSE
    <3>1. rank[v] + rank[w] \in Nat /\ n \in Nat
      BY <2>1, <2>3
    <3>2. rank[v] + rank[w] \in Sums
      BY <2>3, <3>1, Zenon
    <3>3. n <= rank[v] + rank[w]
      BY <2>1, <3>2, Zenon
    <3> QED
      BY <2>2, <2>3, <3>1, <3>3
  <2>4. Later(st, rank, x) /\ Later(st, rank, y)
    BY <2>2, Zenon DEF Founded
  <2> QED
    BY <2>2, <2>3, <2>4, NoFirstDisagreement, Zenon
<1>3. \A x, y \in C : ~Disagree(A, B, x, y)
  <2> SUFFICES ASSUME NEW x \in C, NEW y \in C, Disagree(A, B, x, y) PROVE FALSE
    OBVIOUS
  <2>1. rank[x] + rank[y] \in Nat
    BY <1>1
  <2>2. rank[x] + rank[y] \in Sums
    BY <2>1, Zenon
  <2> QED
    BY <1>2, <2>2, Zenon
<1>4. ASSUME NEW x \in C, NEW y \in C, Pos(A, x) < Pos(A, y)
      PROVE  Pos(B, x) < Pos(B, y)
  <2>1. ~(Pos(B, y) < Pos(B, x))
    BY <1>3, <1>4, Zenon DEF Disagree
  <2>2. /\ Pos(A, x) \in DOMAIN A /\ A[Pos(A, x)] = x /\ Pos(A, y) \in DOMAIN A /\ A[Pos(A, y)] = y
        /\ Pos(B, x) \in DOMAIN B /\ B[Pos(B, x)] = x /\ Pos(B, y) \in DOMAIN B /\ B[Pos(B, y)] = y
    BY PosIn, Zenon
  <2>3. Pos(A, x) \in Nat /\ Pos(B, x) \in Nat /\ Pos(B, y) \in Nat
    BY <2>2 DEF Proper
  <2>4. Pos(B, x) # Pos(B, y)
    BY <1>4, <2>2, <2>3
  <2> QED
    BY <2>1, <2>3, <2>4
<1> QED
  BY <1>4, Zenon DEF Agree
-----------------------------------------------------------------------------
(* From the list of the author to the other lists. *)

\* What the author of s knows of its neighbours, in the list A: the right one
\* refers to nothing behind the left one, and the items its client put behind
\* the left one before are not in front of the right one.
Authored(st, A, s) ==
  /\ LeftEnd(A, s) < RightEnd(A, s)
  /\ s.rightOrigin # Nil => LeftEnd(A, st[s.rightOrigin]) <= LeftEnd(A, s)
  /\ \A x \in Range(A) :
       x[1] = s.id[1] /\ x[2] < s.id[2] /\ st[x].origin = s.origin => RightEnd(A, s) <= Pos(A, x)

\* An order between two places is one between the two items, with Nil the end.
LEMMA SameSide ==
  ASSUME NEW A, NEW B, A \in Seq(Ids), B \in Seq(Ids), Nil \notin Range(A), Agree(A, B),
         NEW x \in (Range(A) \cap Range(B)) \cup {Nil},
         NEW y \in (Range(A) \cap Range(B)) \cup {Nil}
  PROVE  /\ (IF x = Nil THEN 0 ELSE Pos(A, x)) <= (IF y = Nil THEN 0 ELSE Pos(A, y)) =>
              (IF x = Nil THEN 0 ELSE Pos(B, x)) <= (IF y = Nil THEN 0 ELSE Pos(B, y))
         /\ (IF x = Nil THEN 0 ELSE Pos(A, x)) < (IF y = Nil THEN Len(A) + 1 ELSE Pos(A, y)) =>
              (IF x = Nil THEN 0 ELSE Pos(B, x)) < (IF y = Nil THEN Len(B) + 1 ELSE Pos(B, y))
         /\ y # Nil /\ (IF x = Nil THEN Len(A) + 1 ELSE Pos(A, x)) <= Pos(A, y) =>
              (IF x = Nil THEN Len(B) + 1 ELSE Pos(B, x)) <= Pos(B, y)
<1>1. \A v \in Range(A) \cap Range(B) :
        /\ Pos(A, v) \in 1 .. Len(A) /\ Pos(B, v) \in 1 .. Len(B)
        /\ A[Pos(A, v)] = v /\ B[Pos(B, v)] = v
  <2>1. \A v \in Range(A) \cap Range(B) :
          /\ Pos(A, v) \in DOMAIN A /\ Pos(B, v) \in DOMAIN B
          /\ A[Pos(A, v)] = v /\ B[Pos(B, v)] = v
    BY PosIn, Zenon
  <2>2. DOMAIN A = 1 .. Len(A) /\ DOMAIN B = 1 .. Len(B)
    OBVIOUS
  <2> QED
    BY <2>1, <2>2, Zenon
<1>2. Len(A) \in Nat /\ Len(B) \in Nat
  OBVIOUS
<1>3. CASE x = Nil \/ y = Nil
  BY <1>1, <1>2, <1>3
<1>4. CASE x # Nil /\ y # Nil
  <2>1. /\ Pos(A, x) < Pos(A, y) => Pos(B, x) < Pos(B, y)
        /\ Pos(A, x) \in Nat /\ Pos(A, y) \in Nat /\ Pos(B, x) \in Nat /\ Pos(B, y) \in Nat
        /\ Pos(A, x) = Pos(A, y) => x = y
    BY <1>1, <1>4 DEF Agree
  <2> QED
    BY <1>4, <2>1
<1> QED
  BY <1>3, <1>4

\* What an item refers to is in every list in order that has the item.
LEMMA References ==
  ASSUME NEW st, NEW L, Proper(st, L), NEW x \in Range(L)
  PROVE  {st[x].origin, st[x].rightOrigin} \subseteq Range(L) \cup {Nil}
<1>1. \A n \in DOMAIN L : {st[L[n]].origin, st[L[n]].rightOrigin} \subseteq Range(L) \cup {Nil}
  BY Zenon DEF Proper, InOrder, Between
<1>2. Pos(L, x) \in DOMAIN L /\ L[Pos(L, x)] = x
  BY PosIn, Zenon
<1>3. {st[L[Pos(L, x)]].origin, st[L[Pos(L, x)]].rightOrigin} \subseteq Range(L) \cup {Nil}
  BY <1>1, <1>2, Zenon
<1> QED
  BY <1>2, <1>3

\* What the author knows holds in every list that agrees with the author's.
LEMMA Transfers ==
  ASSUME NEW st, NEW A, NEW B, NEW s, Proper(st, A), Proper(st, B), Agree(A, B),
         {s.origin, s.rightOrigin} \subseteq Range(A) \cup {Nil},
         {s.origin, s.rightOrigin} \subseteq Range(B) \cup {Nil},
         \A x \in Range(B) : x[1] = s.id[1] /\ x[2] < s.id[2] => x \in Range(A),
         Authored(st, A, s)
  PROVE  Authored(st, B, s)
<1> DEFINE C == (Range(A) \cap Range(B)) \cup {Nil}
<1>1. A \in Seq(Ids) /\ B \in Seq(Ids) /\ Nil \notin Range(A)
  BY Zenon DEF Proper
<1>2. s.origin \in C /\ s.rightOrigin \in C
  BY Zenon
<1>3. LeftEnd(B, s) < RightEnd(B, s)
  BY <1>1, <1>2, SameSide DEF LeftEnd, RightEnd, Authored
<1>4. ASSUME s.rightOrigin # Nil
      PROVE  LeftEnd(B, st[s.rightOrigin]) <= LeftEnd(B, s)
  <2>1. st[s.rightOrigin].origin \in C
    BY <1>2, <1>4, References, Zenon
  <2>2. LeftEnd(A, st[s.rightOrigin]) <= LeftEnd(A, s)
    BY <1>4, Zenon DEF Authored
  <2> QED
    BY <1>1, <1>2, <2>1, <2>2, SameSide DEF LeftEnd
<1>5. ASSUME NEW x \in Range(B), x[1] = s.id[1] /\ x[2] < s.id[2] /\ st[x].origin = s.origin
      PROVE  RightEnd(B, s) <= Pos(B, x)
  <2>1. x \in C /\ x # Nil /\ RightEnd(A, s) <= Pos(A, x)
    BY <1>1, <1>5, Zenon DEF Authored
  <2> QED
    BY <1>1, <1>2, <2>1, SameSide DEF RightEnd
<1> QED
  BY <1>3, <1>4, <1>5, Zenon DEF Authored

\* An item whose author's knowledge holds in a list fits it.
LEMMA AuthoredFits ==
  ASSUME NEW st, NEW L, NEW s, Proper(st, L), s.id \in Ids, s.id \notin Range(L),
         {s.origin, s.rightOrigin} \subseteq Range(L) \cup {Nil},
         \A x \in Range(L) : x[1] = s.id[1] => x[2] < s.id[2],
         Authored(st, L, s)
  PROVE  Fits(s, L) /\ Apart(st, s, L)
<1>1. Fits(s, L)
  BY Zenon DEF Fits, Authored
<1>2. Distinct(L) /\ Nil \notin Range(L) /\ L \in Seq(Ids)
  BY Zenon DEF Proper, InOrder, Distinct
<1>3. ASSUME s.rightOrigin # Nil
      PROVE  From(st, L, RightEnd(L, s)) <= LeftEnd(L, s)
  <2>1. L[RightEnd(L, s)] = s.rightOrigin
    BY <1>3, PosIn, Zenon DEF RightEnd
  <2> QED
    BY <1>3, <2>1, Zenon DEF From, Authored
<1>4. ASSUME NEW j \in DOMAIN L, From(st, L, j) = LeftEnd(L, s), L[j][1] = s.id[1]
      PROVE  RightEnd(L, s) <= j
  <2>1. L[j] \in Range(L) /\ Pos(L, L[j]) = j
    BY <1>2, PosOf, Zenon DEF Range
  <2>2. st[L[j]].origin = s.origin
    <3>1. \A v \in Range(L) : Pos(L, v) \in 1 .. Len(L) /\ L[Pos(L, v)] = v
      BY <1>2, PosIn
    <3>2. st[L[j]].origin \in Range(L) \cup {Nil} /\ s.origin \in Range(L) \cup {Nil}
      BY <2>1, References, Zenon
    <3> QED
      BY <1>4, <3>1, <3>2 DEF From, LeftEnd
  <2> QED
    BY <1>4, <2>1, <2>2, Zenon DEF Authored
<1> QED
  BY <1>1, <1>3, <1>4, Zenon DEF Apart

\* place adds the item and nothing else.
LEMMA PlacedItems ==
  ASSUME NEW st, NEW L, NEW s, Proper(st, L), Fits(s, L)
  PROVE  Range(place(st, s, L)) = Range(L) \cup {s.id}
<1> DEFINE at == insertAfter(st, s, L)
           M  == place(st, s, L)
<1>1. PutAt(st, s, L, at, M)
  BY Zenon DEF place, PutAt
<1> HIDE DEF M, at
<1>2. Grows(L, s.id, at, M)
  BY <1>1, Growing, Zenon
<1>3. Range(M) = Range(L) \cup {s.id}
  BY <1>2, InsertedPositions, Zenon
<1> QED
  BY <1>3, Zenon DEF M

\* Lists in order that have the same items are the same list.
LEMMA SameItems ==
  ASSUME NEW A \in Seq(Ids), NEW B \in Seq(Ids), Distinct(A), Distinct(B),
         Range(A) = Range(B), Agree(A, B)
  PROVE  A = B
<1> DEFINE Off == {n \in Nat : \/ n \in DOMAIN A /\ ~(n \in DOMAIN B /\ A[n] = B[n])
                               \/ n \in DOMAIN B /\ ~(n \in DOMAIN A /\ A[n] = B[n])}
<1>0. DOMAIN A = 1 .. Len(A) /\ DOMAIN B = 1 .. Len(B) /\ Len(A) \in Nat /\ Len(B) \in Nat
  OBVIOUS
<1>1. \A x \in Range(A) : /\ Pos(A, x) \in DOMAIN A /\ A[Pos(A, x)] = x
                          /\ Pos(B, x) \in DOMAIN B /\ B[Pos(B, x)] = x
  BY PosIn, Zenon
<1>2. ASSUME NEW n \in Off, \A m \in Off : n <= m
      PROVE  FALSE
  <2>0. \A m \in Nat : m < n => m \notin Off
    BY <1>2
  <2>1. \A m \in Nat : m < n => (m \in DOMAIN A <=> m \in DOMAIN B)
    BY <2>0, Zenon
  <2>2. \A m \in Nat : m < n /\ m \in DOMAIN A => A[m] = B[m]
    BY <2>0, Zenon
  <2>3. n \in Nat /\ (n \in DOMAIN A \/ n \in DOMAIN B)
    BY Zenon
  <2>4. n \in DOMAIN A
    <3> SUFFICES ASSUME n \notin DOMAIN A, n \in DOMAIN B PROVE FALSE
      BY <2>3
    <3>1. B[n] \in Range(A)
      BY Zenon DEF Range
    <3>2. PICK p \in DOMAIN A : A[p] = B[n]
      BY <1>1, <3>1, Zenon
    <3>3. p \in Nat /\ p < n
      BY <1>0, <3>2
    <3>4. B[p] = B[n] /\ p \in DOMAIN B
      BY <2>1, <2>2, <3>2, <3>3, Zenon
    <3> QED
      BY <3>3, <3>4 DEF Distinct
  <2>5. n \in DOMAIN B
    <3> SUFFICES ASSUME n \notin DOMAIN B, n \in DOMAIN A PROVE FALSE
      BY <2>3
    <3>1. A[n] \in Range(A)
      BY Zenon DEF Range
    <3>2. PICK p \in DOMAIN B : B[p] = A[n]
      BY <1>1, <3>1, Zenon
    <3>3. p \in Nat /\ p < n
      BY <1>0, <3>2
    <3>4. A[p] = A[n] /\ p \in DOMAIN A
      BY <2>1, <2>2, <3>2, <3>3, Zenon
    <3> QED
      BY <3>3, <3>4 DEF Distinct
  <2>6. A[n] # B[n]
    BY <2>4, <2>5, Zenon
  <2> DEFINE x == A[n]
             y == B[n]
             p == Pos(B, x)
             q == Pos(A, y)
  <2>7. x \in Range(A) /\ y \in Range(A)
    BY <2>4, <2>5, Zenon DEF Range
  <2>8. /\ p \in DOMAIN B /\ B[p] = x /\ Pos(A, x) = n
        /\ q \in DOMAIN A /\ A[q] = y /\ Pos(B, y) = n
    BY <1>1, <2>4, <2>5, <2>7, PosOf, Zenon
  <2> HIDE DEF p, q
  <2>9. p \in Nat /\ q \in Nat
    BY <1>0, <2>8
  <2>10. ~(p < n)
    <3> SUFFICES ASSUME p < n PROVE FALSE
      OBVIOUS
    <3>1. p \in DOMAIN A /\ A[p] = B[p]
      BY <2>1, <2>2, <2>8, <2>9, Zenon
    <3>2. p = n
      BY <2>4, <2>8, <3>1, Zenon DEF Distinct
    <3> QED
      BY <2>9, <3>2
  <2>11. ~(q < n)
    <3> SUFFICES ASSUME q < n PROVE FALSE
      OBVIOUS
    <3>1. q \in DOMAIN B /\ A[q] = B[q]
      BY <2>1, <2>2, <2>8, <2>9, Zenon
    <3>2. q = n
      BY <2>5, <2>8, <3>1, Zenon DEF Distinct
    <3> QED
      BY <2>9, <3>2
  <2>12. p # n /\ q # n
    BY <2>6, <2>8, Zenon
  <2>13. n < p /\ n < q
    BY <2>3, <2>9, <2>10, <2>11, <2>12
  <2>14. p < n
    <3>1. Pos(A, x) < Pos(A, y)
      BY <2>8, <2>13, Zenon DEF q
    <3>2. Pos(B, x) < Pos(B, y)
      BY <2>7, <3>1, Zenon DEF Agree
    <3> QED
      BY <2>8, <3>2, Zenon DEF p
  <2> QED
    BY <2>10, <2>14, Zenon
<1>3. Off = {}
  <2>1. Off \subseteq Nat
    BY Zenon
  <2> HIDE DEF Off
  <2> QED
    BY <1>2, <2>1, LeastOf, Zenon
<1>4. \A n \in DOMAIN A : n \in Nat
  BY <1>0
<1>5. \A n \in DOMAIN B : n \in Nat
  BY <1>0
<1>6. DOMAIN A = DOMAIN B /\ \A n \in DOMAIN A : A[n] = B[n]
  BY <1>3, <1>4, <1>5, Zenon
<1> QED
  BY <1>0, <1>6

-----------------------------------------------------------------------------
(* The machine. *)

\* A list in order whose items were made, without gaps in those of a client.
Held(st, L) ==
  /\ Proper(st, L) /\ Range(L) \subseteq DOMAIN st
  /\ \A x \in Range(L), y \in DOMAIN st : y[1] = x[1] /\ y[2] < x[2] => y \in Range(L)

\* Every item is in the list of its author, who still knows its neighbours.
Home(st, ls) ==
  \A x \in DOMAIN st : x \in Range(ls[x[1]]) /\ Authored(st, ls[x[1]], st[x])

\* The inductive invariant.
IInv ==
  /\ \A x \in DOMAIN items : x \in Ids /\ items[x].id = x
  /\ lists \in [Clients -> Seq(Ids)]
  /\ \A c \in Clients : Held(items, lists[c])
  /\ Home(items, lists)
  /\ \E rank : Founded(items, rank, DOMAIN items)

\* Lists in order of items that were made agree.
LEMMA HeldAgree ==
  ASSUME NEW st, NEW A, NEW B, Proper(st, A), Proper(st, B), Range(A) \subseteq DOMAIN st,
         \E rank : Founded(st, rank, DOMAIN st)
  PROVE  Agree(A, B)
<1>1. PICK rank : Founded(st, rank, DOMAIN st)
  OBVIOUS
<1>2. Founded(st, rank, Range(A) \cap Range(B))
  BY <1>1, Zenon DEF Founded
<1> QED
  BY <1>2, OrderIsDetermined, Zenon

\* An item that is ready fits every list, and leaves it in order.
LEMMA TakenIn ==
  ASSUME IInv, NEW L, Held(items, L), NEW x \in DOMAIN items, Ready(items[x], L)
  PROVE  /\ Held(items, place(items, items[x], L))
         /\ Range(place(items, items[x], L)) = Range(L) \cup {x}
<1> DEFINE s == items[x]
           A == lists[x[1]]
<1>1. x \in Ids /\ s.id = x /\ x[1] \in Clients
  <2>1. x \in Ids /\ s.id = x
    BY Zenon DEF IInv
  <2> QED
    BY <2>1 DEF Ids
<1>2. Proper(items, A) /\ Range(A) \subseteq DOMAIN items
  BY <1>1, Zenon DEF IInv, Held
<1>3. x \in Range(A) /\ Authored(items, A, s)
  BY Zenon DEF IInv, Home
<1>4. {s.origin, s.rightOrigin} \subseteq Range(A) \cup {Nil}
  BY <1>2, <1>3, References, Zenon
<1>5. /\ x \notin Range(L) /\ {s.origin, s.rightOrigin} \subseteq Range(L) \cup {Nil}
      /\ \A y \in DOMAIN items : y[1] = x[1] /\ y[2] < x[2] => y \in Range(L)
  BY <1>1, Zenon DEF Ready
<1>6. /\ Proper(items, L) /\ Range(L) \subseteq DOMAIN items
      /\ \A z \in Range(L), y \in DOMAIN items : y[1] = z[1] /\ y[2] < z[2] => y \in Range(L)
  BY Zenon DEF Held
<1>7. Agree(A, L)
  <2>1. \E rank : Founded(items, rank, DOMAIN items)
    BY Zenon DEF IInv
  <2> QED
    BY <1>2, <1>6, <2>1, HeldAgree, Zenon
<1>8. \A y \in Range(L) : y[1] = x[1] => y \in Range(A)
  <2>1. \A y \in Range(L) : y \in Range(lists[y[1]])
    BY <1>6, Zenon DEF IInv, Home
  <2> QED
    BY <2>1, Zenon
<1>9. Authored(items, L, s)
  BY <1>1, <1>2, <1>3, <1>4, <1>5, <1>6, <1>7, <1>8, Transfers, Zenon
<1>10. \A y \in Range(L) : y[1] = x[1] => y[2] < x[2]
  <2> SUFFICES ASSUME NEW y \in Range(L), y[1] = x[1], ~(y[2] < x[2])
               PROVE  FALSE
    OBVIOUS
  <2>1. y \in Ids
    BY <1>6, Zenon DEF IInv
  <2>2. x[2] \in Nat /\ y[2] \in Nat /\ x = <<x[1], x[2]>> /\ y = <<y[1], y[2]>>
    BY <1>1, <2>1, IdNumbers, Zenon
  <2>3. x[2] < y[2] \/ x[2] = y[2]
    BY <2>2
  <2>4. CASE x[2] = y[2]
    <3>1. x = y
      BY <2>2, <2>4, Zenon
    <3> QED
      BY <1>5, <3>1, Zenon
  <2>5. CASE x[2] < y[2]
    BY <1>5, <1>6, <2>5, Zenon
  <2> QED
    BY <2>3, <2>4, <2>5, Zenon
<1>11. Fits(s, L) /\ Apart(items, s, L)
  BY <1>1, <1>5, <1>6, <1>9, <1>10, AuthoredFits, Zenon
<1>12. Extends(items, items, s, L)
  BY <1>1, Zenon DEF Extends
<1>13. Proper(items, place(items, s, L))
  BY <1>6, <1>11, <1>12, PlacingKeepsOrder, Zenon
<1>14. Range(place(items, s, L)) = Range(L) \cup {x}
  <2>1. Range(place(items, s, L)) = Range(L) \cup {s.id}
    <3> HIDE DEF s
    <3> QED
      BY <1>6, <1>11, PlacedItems, Zenon
  <2> QED
    BY <1>1, <2>1
<1> HIDE DEF s, A
<1>15. Held(items, place(items, s, L))
  BY <1>5, <1>6, <1>13, <1>14, Zenon DEF Held
<1> QED
  BY <1>14, <1>15 DEF s

\* The k-th list of takeAll, given the ones before it.
TakenAt(ids, L, f, k) == IF k = 0 THEN L ELSE takeIn(ids[k], f[k - 1])

\* So does a group of items, whichever of them are ready in its order.
LEMMA TakenAll ==
  ASSUME IInv, NEW L, Held(items, L), NEW ids \in Seq(DOMAIN items)
  PROVE  Held(items, takeAll(ids, L)) /\ Range(L) \subseteq Range(takeAll(ids, L))
<1> DEFINE P(n) == \E f : f = [k \in 0 .. n |-> TakenAt(ids, L, f, k)]
           S == {n \in Nat : P(n)}
<1>0. Len(ids) \in Nat /\ \A k \in 1 .. Len(ids) : ids[k] \in DOMAIN items
  OBVIOUS
<1>1. 0 \in S
  <2> DEFINE g == [k \in 0 .. 0 |-> L]
  <2>1. \A k \in 0 .. 0 : k = 0
    OBVIOUS
  <2>2. g = [k \in 0 .. 0 |-> TakenAt(ids, L, g, k)]
    BY <2>1, Zenon DEF TakenAt
  <2> QED
    BY <2>2, Zenon
<1>2. ASSUME NEW n \in Nat, n \in S PROVE n + 1 \in S
  <2>1. PICK f : f = [k \in 0 .. n |-> TakenAt(ids, L, f, k)]
    BY <1>2, Zenon
  <2> DEFINE g == [k \in 0 .. n + 1 |-> IF k <= n THEN f[k] ELSE TakenAt(ids, L, f, k)]
  <2>2. \A k \in 0 .. n + 1 : k # 0 => k - 1 \in 0 .. n + 1 /\ g[k - 1] = f[k - 1]
    OBVIOUS
  <2>3. \A k \in 0 .. n + 1 : TakenAt(ids, L, g, k) = TakenAt(ids, L, f, k)
    BY <2>2, Zenon DEF TakenAt
  <2>4. \A k \in 0 .. n : f[k] = TakenAt(ids, L, f, k)
    BY <2>1, Zenon
  <2>5. \A k \in 0 .. n + 1 : k <= n => k \in 0 .. n
    OBVIOUS
  <2>6. \A k \in 0 .. n + 1 : g[k] = TakenAt(ids, L, g, k)
    BY <2>3, <2>4, <2>5, Zenon
  <2>7. g = [k \in 0 .. n + 1 |-> TakenAt(ids, L, g, k)]
    BY <2>6, Zenon
  <2> HIDE DEF g
  <2>8. \E f1 : f1 = [k \in 0 .. n + 1 |-> TakenAt(ids, L, f1, k)]
    BY <2>7, Zenon
  <2> QED
    BY <2>8
<1> HIDE DEF S
<1>3. Len(ids) \in S
  <2>1. Nat \subseteq S
    BY <1>1, <1>2, NatInd, Zenon
  <2> QED
    BY <1>0, <2>1, Zenon
<1>4. P(Len(ids))
  BY <1>3, Zenon DEF S
<1> DEFINE F == CHOOSE f : f = [k \in 0 .. Len(ids) |-> TakenAt(ids, L, f, k)]
<1>5. F = [k \in 0 .. Len(ids) |-> TakenAt(ids, L, F, k)]
  BY <1>4, Zenon
<1>6. takeAll(ids, L) = F[Len(ids)]
  BY Zenon DEF takeAll, TakenAt
<1> HIDE DEF F, P
<1>7. \A k \in 0 .. Len(ids) : F[k] = TakenAt(ids, L, F, k)
  BY <1>5, Zenon
<1> DEFINE T == {k \in Nat : k <= Len(ids) => Held(items, F[k]) /\ Range(L) \subseteq Range(F[k])}
<1>8. 0 \in T
  <2>1. 0 \in 0 .. Len(ids)
    BY <1>0
  <2>2. F[0] = L
    BY <1>7, <2>1, Zenon DEF TakenAt
  <2> QED
    BY <2>2
<1>9. ASSUME NEW n \in Nat, n \in T PROVE n + 1 \in T
  <2> SUFFICES ASSUME n + 1 <= Len(ids)
               PROVE  Held(items, F[n + 1]) /\ Range(L) \subseteq Range(F[n + 1])
    OBVIOUS
  <2> DEFINE x == ids[n + 1]
             M == F[n]
  <2>1. n <= Len(ids) /\ n + 1 \in 1 .. Len(ids) /\ n + 1 \in 0 .. Len(ids) /\ (n + 1) - 1 = n /\ n + 1 # 0
    BY <1>0
  <2>2. Held(items, M) /\ Range(L) \subseteq Range(M)
    BY <1>9, <2>1, Zenon
  <2>3. x \in DOMAIN items
    BY <1>0, <2>1, Zenon
  <2>4. F[n + 1] = (IF Ready(items[x], M) THEN place(items, items[x], M) ELSE M)
    <3>1. F[n + 1] = takeIn(x, F[(n + 1) - 1])
      BY <1>7, <2>1, Zenon DEF TakenAt
    <3>2. F[(n + 1) - 1] = M
      BY <2>1
    <3>3. F[n + 1] = takeIn(x, M)
      BY <3>1, <3>2
    <3> QED
      BY <3>3, Zenon DEF takeIn
  <2> HIDE DEF x, M
  <2>5. Ready(items[x], M) =>
          Held(items, place(items, items[x], M)) /\ Range(place(items, items[x], M)) = Range(M) \cup {x}
    BY <2>2, <2>3, TakenIn, Zenon
  <2> QED
    BY <2>2, <2>4, <2>5, Zenon
<1> HIDE DEF T
<1>10. Len(ids) \in T
  <2>1. Nat \subseteq T
    BY <1>8, <1>9, NatInd, Zenon
  <2> QED
    BY <1>0, <2>1, Zenon
<1> QED
  BY <1>0, <1>6, <1>10 DEF T

-----------------------------------------------------------------------------
(* Changing the store. *)

\* What is said of a list depends on the structs of its items only.
LEMMA SameStructs ==
  ASSUME NEW st, NEW st2, NEW L, L \in Seq(Ids), \A x \in Range(L) : st2[x] = st[x]
  PROVE  /\ Proper(st, L) => Proper(st2, L)
         /\ \A s : s.rightOrigin \in Range(L) \cup {Nil} /\ Authored(st, L, s) => Authored(st2, L, s)
<1>1. \A n \in DOMAIN L : st2[L[n]] = st[L[n]]
  BY Zenon DEF Range
<1>2. Proper(st, L) => Proper(st2, L)
  <2> SUFFICES ASSUME Proper(st, L) PROVE Proper(st2, L)
    OBVIOUS
  <2>1. Between(st2, L)
    <3> SUFFICES ASSUME NEW n \in DOMAIN L
                 PROVE  /\ {st2[L[n]].origin, st2[L[n]].rightOrigin} \subseteq Range(L) \cup {Nil}
                        /\ LeftEnd(L, st2[L[n]]) < n /\ n < RightEnd(L, st2[L[n]])
      BY Zenon DEF Between
    <3>1. /\ {st[L[n]].origin, st[L[n]].rightOrigin} \subseteq Range(L) \cup {Nil}
          /\ LeftEnd(L, st[L[n]]) < n /\ n < RightEnd(L, st[L[n]])
      BY Zenon DEF Proper, InOrder, Between
    <3>2. st2[L[n]] = st[L[n]]
      BY <1>1, Zenon
    <3> QED
      BY <3>1, <3>2
  <2>2. NoCrossing(st2, L)
    <3> SUFFICES ASSUME NEW m \in DOMAIN L, NEW n \in DOMAIN L
                 PROVE  LeftEnd(L, st2[L[n]]) < m /\ m < n => LeftEnd(L, st2[L[n]]) <= LeftEnd(L, st2[L[m]])
      BY Zenon DEF NoCrossing
    <3>1. LeftEnd(L, st[L[n]]) < m /\ m < n => LeftEnd(L, st[L[n]]) <= LeftEnd(L, st[L[m]])
      BY Zenon DEF Proper, InOrder, NoCrossing
    <3>2. st2[L[n]] = st[L[n]] /\ st2[L[m]] = st[L[m]]
      BY <1>1, Zenon
    <3> QED
      BY <3>1, <3>2
  <2>3. ByClient(st2, L)
    <3> SUFFICES ASSUME NEW m \in DOMAIN L, NEW n \in DOMAIN L
                 PROVE  m < n /\ st2[L[m]].origin = st2[L[n]].origin =>
                          L[m][1] < L[n][1] \/ RightEnd(L, st2[L[m]]) <= n
      BY Zenon DEF ByClient
    <3>1. m < n /\ st[L[m]].origin = st[L[n]].origin => L[m][1] < L[n][1] \/ RightEnd(L, st[L[m]]) <= n
      BY Zenon DEF Proper, InOrder, ByClient
    <3>2. st2[L[n]] = st[L[n]] /\ st2[L[m]] = st[L[m]]
      BY <1>1, Zenon
    <3> QED
      BY <3>1, <3>2
  <2> QED
    BY <2>1, <2>2, <2>3, Zenon DEF Proper, InOrder
<1>3. ASSUME NEW s, s.rightOrigin \in Range(L) \cup {Nil}, Authored(st, L, s)
      PROVE  Authored(st2, L, s)
  <2>1. LeftEnd(L, s) < RightEnd(L, s)
    BY <1>3, Zenon DEF Authored
  <2>2. s.rightOrigin # Nil => LeftEnd(L, st2[s.rightOrigin]) <= LeftEnd(L, s)
    <3> SUFFICES ASSUME s.rightOrigin # Nil PROVE LeftEnd(L, st2[s.rightOrigin]) <= LeftEnd(L, s)
      OBVIOUS
    <3>1. st2[s.rightOrigin] = st[s.rightOrigin]
      BY <1>3, Zenon
    <3>2. LeftEnd(L, st[s.rightOrigin]) <= LeftEnd(L, s)
      BY <1>3, Zenon DEF Authored
    <3> QED
      BY <3>1, <3>2
  <2>3. ASSUME NEW x \in Range(L), x[1] = s.id[1] /\ x[2] < s.id[2] /\ st2[x].origin = s.origin
        PROVE  RightEnd(L, s) <= Pos(L, x)
    <3>1. st[x].origin = s.origin
      BY <2>3, Zenon
    <3> QED
      BY <1>3, <2>3, <3>1, Zenon DEF Authored
  <2> QED
    BY <2>1, <2>2, <2>3, Zenon DEF Authored
<1> QED
  BY <1>2, <1>3, Zenon

-----------------------------------------------------------------------------
(* Init and the steps. *)

\* Empty lists.
LEMMA InitInv == Init => IInv
<1> SUFFICES ASSUME Init PROVE IInv
  OBVIOUS
<1>1. items = <<>> /\ lists = [c \in Clients |-> <<>>]
  BY Zenon DEF Init
<1>2. DOMAIN items = {}
  BY <1>1
<1>3. <<>> \in Seq(Ids) /\ DOMAIN <<>> = {}
  OBVIOUS
<1>4. lists \in [Clients -> Seq(Ids)] /\ \A c \in Clients : lists[c] = <<>>
  BY <1>1, <1>3, Zenon
<1>5. Range(<<>>) = {}
  BY <1>3, Zenon DEF Range
<1>6. Held(items, <<>>)
  BY <1>3, <1>5, Zenon DEF Held, Proper, InOrder, Between, NoCrossing, ByClient
<1>7. \A c \in Clients : Held(items, lists[c])
  BY <1>4, <1>6
<1>8. Home(items, lists)
  BY <1>2, Zenon DEF Home
<1>9. \E rank : Founded(items, rank, DOMAIN items)
  BY <1>2, Zenon DEF Founded
<1> QED
  BY <1>2, <1>4, <1>7, <1>8, <1>9, Zenon DEF IInv

\* What another replica's items do to the list of c.
LEMMA IntegrateInv ==
  ASSUME IInv, NEW c \in Clients, Integrate(c)
  PROVE  /\ IInv'
         /\ \A d \in Clients : Proper(items', lists[d]) /\ Range(lists[d]) \subseteq Range(lists'[d])
<1> DEFINE L == lists[c]
<1>1. PICK n \in 0 .. Cardinality(DOMAIN items \ Range(L)) :
        \E ids \in [1 .. n -> DOMAIN items \ Range(L)] : lists' = [lists EXCEPT ![c] = takeAll(ids, @)]
  BY Zenon DEF Integrate
<1>2. PICK ids \in [1 .. n -> DOMAIN items \ Range(L)] : lists' = [lists EXCEPT ![c] = takeAll(ids, @)]
  BY <1>1, Zenon
<1>3. items' = items
  BY Zenon DEF Integrate
<1>4. ids \in Seq(DOMAIN items)
  <2>1. n \in Nat
    BY <1>1
  <2>2. ids \in [1 .. n -> DOMAIN items]
    BY <1>2
  <2> QED
    BY <2>1, <2>2
<1> DEFINE M == takeAll(ids, L)
<1>5. Held(items, L) /\ lists \in [Clients -> Seq(Ids)]
  BY Zenon DEF IInv
<1>6. Held(items, M) /\ Range(L) \subseteq Range(M)
  BY <1>4, <1>5, TakenAll, Zenon
<1>7. M \in Seq(Ids)
  BY <1>6, Zenon DEF Held, Proper
<1>8. lists' = [lists EXCEPT ![c] = M]
  BY <1>2
<1> HIDE DEF M
<1>9. /\ lists' \in [Clients -> Seq(Ids)] /\ lists'[c] = M
      /\ \A d \in Clients : d # c => lists'[d] = lists[d]
  BY <1>5, <1>7, <1>8
<1>10. \A d \in Clients : Held(items, lists'[d])
  <2>1. \A d \in Clients : Held(items, lists[d])
    BY Zenon DEF IInv
  <2> QED
    BY <1>6, <1>9, <2>1
<1>11. Home(items, lists')
  <2> SUFFICES ASSUME NEW x \in DOMAIN items
               PROVE  x \in Range(lists'[x[1]]) /\ Authored(items, lists'[x[1]], items[x])
    BY Zenon DEF Home
  <2>1. x \in Ids /\ items[x].id = x /\ x \in Range(lists[x[1]]) /\ Authored(items, lists[x[1]], items[x])
    BY Zenon DEF IInv, Home
  <2>2. x[1] \in Clients
    BY <2>1 DEF Ids
  <2>3. CASE x[1] # c
    BY <1>9, <2>1, <2>2, <2>3
  <2>4. CASE x[1] = c
    <3>1. x \in Range(L) /\ x \in Range(M) /\ Authored(items, L, items[x])
      BY <1>6, <2>1, <2>4
    <3>2. Proper(items, L) /\ Proper(items, M) /\ Range(L) \subseteq DOMAIN items /\ Range(M) \subseteq DOMAIN items
      BY <1>5, <1>6, Zenon DEF Held
    <3>3. Agree(L, M)
      <4>1. \E rank : Founded(items, rank, DOMAIN items)
        BY Zenon DEF IInv
      <4> QED
        BY <3>2, <4>1, HeldAgree, Zenon
    <3>4. /\ {items[x].origin, items[x].rightOrigin} \subseteq Range(L) \cup {Nil}
          /\ {items[x].origin, items[x].rightOrigin} \subseteq Range(M) \cup {Nil}
      BY <3>1, <3>2, References, Zenon
    <3>5. \A y \in Range(M) : y[1] = c => y \in Range(L)
      <4>1. \A y \in Range(M) : y \in Range(lists[y[1]])
        BY <3>2, Zenon DEF IInv, Home
      <4> QED
        BY <4>1, Zenon
    <3>6. Authored(items, M, items[x])
      BY <2>1, <2>4, <3>1, <3>2, <3>3, <3>4, <3>5, Transfers, Zenon
    <3> QED
      BY <1>9, <2>4, <3>1, <3>6
  <2> QED
    BY <2>3, <2>4
<1>12. \A x \in DOMAIN items : x \in Ids /\ items[x].id = x
  BY Zenon DEF IInv
<1>13. \E rank : Founded(items, rank, DOMAIN items)
  BY Zenon DEF IInv
<1>14. \A d \in Clients : Proper(items, lists[d]) /\ Range(lists[d]) \subseteq Range(lists'[d])
  <2>1. \A d \in Clients : Proper(items, lists[d])
    BY Zenon DEF IInv, Held
  <2> QED
    BY <1>6, <1>9, <2>1
<1>15. IInv'
  BY <1>3, <1>9, <1>10, <1>11, <1>12, <1>13 DEF IInv
<1> QED
  BY <1>3, <1>14, <1>15

\* s is made behind the n-th item of the list.
Behind(L, n, s) ==
  /\ n = 0 => s.origin = Nil
  /\ n # 0 => s.origin = L[n]
  /\ n = Len(L) => s.rightOrigin = Nil
  /\ n # Len(L) => s.rightOrigin = L[n + 1]

\* Where an item is made its neighbours are adjacent, so nothing is between them.
LEMMA MadeAuthored ==
  ASSUME NEW st, NEW L, Proper(st, L), NEW s, NEW n \in 0 .. Len(L), Behind(L, n, s)
  PROVE  /\ {s.origin, s.rightOrigin} \subseteq Range(L) \cup {Nil}
         /\ Authored(st, L, s)
<1>1. L \in Seq(Ids) /\ Nil \notin Range(L) /\ Distinct(L)
  BY Zenon DEF Proper, InOrder, Distinct
<1>2. Len(L) \in Nat /\ DOMAIN L = 1 .. Len(L) /\ n \in Nat
  BY <1>1
<1>3. /\ n # 0 => n \in DOMAIN L
      /\ n # Len(L) => n + 1 \in DOMAIN L
  <2>0. Len(L) \in Nat /\ n \in Nat
    BY <1>2, Zenon
  <2>1. (n # 0 => n \in 1 .. Len(L)) /\ (n # Len(L) => n + 1 \in 1 .. Len(L))
    BY <2>0
  <2> QED
    BY <1>2, <2>1, Zenon
<1>4. {s.origin, s.rightOrigin} \subseteq Range(L) \cup {Nil}
  <2>1. s.origin \in Range(L) \cup {Nil}
    BY <1>3, Zenon DEF Range, Behind
  <2>2. s.rightOrigin \in Range(L) \cup {Nil}
    BY <1>3, Zenon DEF Range, Behind
  <2> QED
    BY <2>1, <2>2, Zenon
<1>5. LeftEnd(L, s) = n
  <2>1. CASE n = 0
    BY <2>1, Zenon DEF LeftEnd, Behind
  <2>2. CASE n # 0
    <3>1. s.origin = L[n] /\ L[n] # Nil /\ Pos(L, L[n]) = n
      BY <1>1, <1>3, <2>2, PosOf, Zenon DEF Range, Behind
    <3> QED
      BY <3>1, Zenon DEF LeftEnd
  <2> QED
    BY <2>1, <2>2
<1>6. RightEnd(L, s) = n + 1
  <2>1. CASE n = Len(L)
    <3>1. s.rightOrigin = Nil
      BY <2>1, Zenon DEF Behind
    <3> QED
      BY <2>1, <3>1 DEF RightEnd
  <2>2. CASE n # Len(L)
    <3>1. s.rightOrigin = L[n + 1] /\ L[n + 1] # Nil /\ Pos(L, L[n + 1]) = n + 1
      BY <1>1, <1>3, <2>2, PosOf, Zenon DEF Range, Behind
    <3> QED
      BY <3>1, Zenon DEF RightEnd
  <2> QED
    BY <2>1, <2>2
<1>7. \A i \in 1 .. Len(L) : From(st, L, i) \in 0 .. i - 1
  BY Positions, Zenon
<1>8. s.rightOrigin # Nil => LeftEnd(L, st[s.rightOrigin]) <= LeftEnd(L, s)
  <2> SUFFICES ASSUME s.rightOrigin # Nil PROVE LeftEnd(L, st[s.rightOrigin]) <= LeftEnd(L, s)
    OBVIOUS
  <2>1. s.rightOrigin = L[n + 1] /\ n + 1 \in 1 .. Len(L)
    BY <1>2, <1>3, Zenon DEF Behind
  <2>2. From(st, L, n + 1) \in 0 .. (n + 1) - 1
    BY <1>7, <2>1, Zenon
  <2>3. From(st, L, n + 1) <= n
    BY <1>2, <2>2
  <2> QED
    BY <1>5, <2>1, <2>3 DEF From
<1>9. ASSUME NEW x \in Range(L), st[x].origin = s.origin
      PROVE  RightEnd(L, s) <= Pos(L, x)
  <2> DEFINE i == Pos(L, x)
  <2>1. i \in 1 .. Len(L) /\ L[i] = x
    BY <1>2, PosIn
  <2> HIDE DEF i
  <2>2. From(st, L, i) = n
    BY <1>5, <1>9, <2>1 DEF From, LeftEnd
  <2>3. From(st, L, i) \in 0 .. i - 1
    BY <1>7, <2>1, Zenon
  <2>4. n + 1 <= i
    BY <1>2, <2>1, <2>2, <2>3
  <2> QED
    BY <1>6, <2>4 DEF i
<1>10. n < n + 1
  BY <1>2
<1>11. LeftEnd(L, s) < RightEnd(L, s)
  BY <1>5, <1>6, <1>10
<1> QED
  BY <1>4, <1>8, <1>9, <1>11, Zenon DEF Authored

\* A store with one more item, made after the ones it refers to.
LEMMA FoundedMore ==
  ASSUME NEW st, NEW st2, NEW x, NEW s, x \notin DOMAIN st, DOMAIN st2 = DOMAIN st \cup {x},
         st2[x] = s, \A y \in DOMAIN st : st2[y] = st[y],
         {s.origin, s.rightOrigin} \subseteq DOMAIN st \cup {Nil},
         \A y \in DOMAIN st : {st[y].origin, st[y].rightOrigin} \subseteq DOMAIN st \cup {Nil},
         \E rank : Founded(st, rank, DOMAIN st)
  PROVE  \E rank : Founded(st2, rank, DOMAIN st2)
<1>1. PICK rank : Founded(st, rank, DOMAIN st)
  OBVIOUS
<1>2. \A y \in DOMAIN st : /\ rank[y] \in Nat
                           /\ \A z \in {st[y].origin, st[y].rightOrigin} \ {Nil} : rank[z] < rank[y]
  BY <1>1, Zenon DEF Founded, Later
<1>3. PICK top \in Nat : \A z \in {s.origin, s.rightOrigin} \ {Nil} : rank[z] < top
  <2> DEFINE a == IF s.origin = Nil THEN 0 ELSE rank[s.origin]
             b == IF s.rightOrigin = Nil THEN 0 ELSE rank[s.rightOrigin]
  <2>1. a \in Nat /\ b \in Nat
    BY <1>2
  <2>2. /\ s.origin # Nil => rank[s.origin] = a
        /\ s.rightOrigin # Nil => rank[s.rightOrigin] = b
    OBVIOUS
  <2> HIDE DEF a, b
  <2>3. a + b + 1 \in Nat /\ a < a + b + 1 /\ b < a + b + 1
    BY <2>1
  <2>4. \A z \in {s.origin, s.rightOrigin} \ {Nil} : rank[z] < a + b + 1
    BY <2>2, <2>3
  <2> QED
    BY <2>3, <2>4
<1> DEFINE new == [y \in DOMAIN st2 |-> IF y = x THEN top ELSE rank[y]]
<1>4. new[x] = top /\ \A y \in DOMAIN st : new[y] = rank[y]
  BY Zenon
<1> HIDE DEF new
<1>5. Later(st2, new, x)
  <2>1. \A z \in {s.origin, s.rightOrigin} \ {Nil} : z \in DOMAIN st
    BY Zenon
  <2>2. \A z \in {s.origin, s.rightOrigin} \ {Nil} : new[z] \in Nat /\ new[z] < new[x]
    BY <1>2, <1>3, <1>4, <2>1
  <2> QED
    BY <1>3, <1>4, <2>2 DEF Later
<1>6. ASSUME NEW y \in DOMAIN st PROVE Later(st2, new, y)
  <2>1. \A z \in {st[y].origin, st[y].rightOrigin} \ {Nil} : z \in DOMAIN st
    BY Zenon
  <2>2. \A z \in {st[y].origin, st[y].rightOrigin} \ {Nil} : new[z] \in Nat /\ new[z] < new[y]
    BY <1>2, <1>4, <2>1
  <2>3. new[y] \in Nat /\ st2[y] = st[y]
    BY <1>2, <1>4
  <2> QED
    BY <2>2, <2>3 DEF Later
<1>7. Founded(st2, new, DOMAIN st2)
  BY <1>5, <1>6, Zenon DEF Founded
<1> QED
  BY <1>7

\* One more item, of client c, in the store and in the list of c.
LEMMA InsertInv ==
  ASSUME IInv, NEW c \in Clients, Insert(c)
  PROVE  /\ IInv'
         /\ \A d \in Clients : Proper(items', lists[d]) /\ Range(lists[d]) \subseteq Range(lists'[d])
<1> DEFINE L == lists[c]
<1>1. PICK k \in Clocks, n \in 0 .. Len(L) :
        /\ \A x \in DOMAIN items : x[1] = c => x[2] < k
        /\ items' = [y \in DOMAIN items \cup {<<c, k>>} |->
                       IF y = <<c, k>> THEN Made(c, k, n) ELSE items[y]]
        /\ lists' = [lists EXCEPT ![c] = place(items, Made(c, k, n), @)]
  BY Zenon DEF Insert
<1> DEFINE x == <<c, k>>
           s == Made(c, k, n)
           M == place(items, s, L)
<1>2. s.id = x /\ Behind(L, n, s)
  BY DEF Made, Behind
<1>3. x \in Ids /\ x[1] = c /\ x[2] = k /\ k \in Nat
  BY PlacementAssumption DEF Ids
<1>4. items' = [y \in DOMAIN items \cup {x} |-> IF y = x THEN s ELSE items[y]]
  BY <1>1, Zenon
<1>5. lists' = [lists EXCEPT ![c] = M]
  BY <1>1
<1>6. \A y \in DOMAIN items : y[1] = c => y[2] < k
  BY <1>1, Zenon
<1> HIDE DEF s
<1>7. DOMAIN items' = DOMAIN items \cup {x} /\ items'[x] = s /\ \A y \in DOMAIN items : y # x => items'[y] = items[y]
  BY <1>4, Zenon
<1> HIDE DEF x
<1>8. x \notin DOMAIN items
  BY <1>3, <1>6
<1>9. \A y \in DOMAIN items : items'[y] = items[y]
  BY <1>7, <1>8, Zenon
<1>10. /\ Proper(items, L) /\ Range(L) \subseteq DOMAIN items /\ L \in Seq(Ids)
       /\ \A v \in Range(L), y \in DOMAIN items : y[1] = v[1] /\ y[2] < v[2] => y \in Range(L)
  BY Zenon DEF IInv, Held, Proper
<1>11. \A y \in DOMAIN items : y \in Ids /\ items[y].id = y /\ y \in Range(lists[y[1]])
  BY Zenon DEF IInv, Home
<1>12. \A y \in DOMAIN items : y[1] = c => y \in Range(L)
  BY <1>11, Zenon
<1>13. {s.origin, s.rightOrigin} \subseteq Range(L) \cup {Nil} /\ Authored(items, L, s)
  BY <1>1, <1>2, <1>10, MadeAuthored, Zenon
<1>14. Fits(s, L) /\ Apart(items, s, L)
  <2>1. s.id \in Ids /\ s.id \notin Range(L)
    BY <1>2, <1>3, <1>8, <1>10, Zenon
  <2>2. \A y \in Range(L) : y[1] = s.id[1] => y[2] < s.id[2]
    BY <1>2, <1>3, <1>6, <1>10
  <2> QED
    BY <1>10, <1>13, <2>1, <2>2, AuthoredFits, Zenon
<1>15. Extends(items, items', s, L)
  BY <1>2, <1>7, <1>9, <1>10 DEF Extends
<1>16. Proper(items', M)
  BY <1>10, <1>14, <1>15, PlacingKeepsOrder, Zenon
<1>17. Range(M) = Range(L) \cup {x}
  <2>1. Range(place(items, s, L)) = Range(L) \cup {s.id}
    BY <1>10, <1>14, PlacedItems
  <2> QED
    BY <1>2, <2>1
<1> HIDE DEF M
<1>18. Held(items', M)
  <2>1. Range(M) \subseteq DOMAIN items'
    BY <1>7, <1>10, <1>17, Zenon
  <2>2. ASSUME NEW v \in Range(M), NEW y \in DOMAIN items', y[1] = v[1], y[2] < v[2]
        PROVE  y \in Range(M)
    <3>1. CASE y = x
      BY <1>17, <3>1, Zenon
    <3>2. CASE y # x /\ v = x
      <4>1. y \in DOMAIN items /\ y[1] = c
        BY <1>3, <1>7, <2>2, <3>2
      <4> QED
        BY <1>12, <1>17, <4>1, Zenon
    <3>3. CASE y # x /\ v # x
      <4>1. y \in DOMAIN items /\ v \in Range(L)
        BY <1>7, <1>17, <2>2, <3>3, Zenon
      <4> QED
        BY <1>10, <1>17, <2>2, <4>1, Zenon
    <3> QED
      BY <3>1, <3>2, <3>3
  <2> QED
    BY <1>16, <2>1, <2>2, Zenon DEF Held
<1>19. /\ lists' \in [Clients -> Seq(Ids)] /\ lists'[c] = M
       /\ \A d \in Clients : d # c => lists'[d] = lists[d]
  <2>1. M \in Seq(Ids)
    BY <1>16, Zenon DEF Proper
  <2>2. lists \in [Clients -> Seq(Ids)]
    BY Zenon DEF IInv
  <2> QED
    BY <1>5, <2>1, <2>2
<1>20. ASSUME NEW d \in Clients
       PROVE  /\ Proper(items, lists[d]) /\ Range(lists[d]) \subseteq DOMAIN items
              /\ lists[d] \in Seq(Ids) /\ \A y \in Range(lists[d]) : items'[y] = items[y]
              /\ Proper(items', lists[d])
  <2>1. Proper(items, lists[d]) /\ Range(lists[d]) \subseteq DOMAIN items /\ lists[d] \in Seq(Ids)
    BY Zenon DEF IInv, Held, Proper
  <2>2. \A y \in Range(lists[d]) : items'[y] = items[y]
    BY <1>9, <2>1, Zenon
  <2> QED
    BY <2>1, <2>2, SameStructs, Zenon
<1>21. \A d \in Clients : Held(items', lists'[d])
  <2> SUFFICES ASSUME NEW d \in Clients, d # c PROVE Held(items', lists[d])
    BY <1>18, <1>19
  <2>1. Range(lists[d]) \subseteq DOMAIN items'
    BY <1>7, <1>20, Zenon
  <2>2. ASSUME NEW v \in Range(lists[d]), NEW y \in DOMAIN items', y[1] = v[1], y[2] < v[2]
        PROVE  y \in Range(lists[d])
    <3>0. v \in DOMAIN items /\ v \in Ids
      BY <1>11, <1>20, <2>2, Zenon
    <3>1. y # x
      <4> SUFFICES ASSUME y = x PROVE FALSE
        OBVIOUS
      <4>1. v[1] = c /\ k < v[2]
        BY <1>3, <2>2
      <4>2. v[2] < k /\ v[2] \in Nat
        BY <1>6, <3>0, <4>1, IdNumbers, Zenon
      <4> QED
        BY <1>3, <4>1, <4>2
    <3>2. y \in DOMAIN items
      BY <1>7, <2>2, <3>1, Zenon
    <3> QED
      BY <2>2, <3>2, Zenon DEF IInv, Held
  <2> QED
    BY <1>20, <2>1, <2>2, Zenon DEF Held
<1>22. \A y \in DOMAIN items : {items[y].origin, items[y].rightOrigin} \subseteq DOMAIN items \cup {Nil}
  <2> SUFFICES ASSUME NEW y \in DOMAIN items
               PROVE  {items[y].origin, items[y].rightOrigin} \subseteq DOMAIN items \cup {Nil}
    OBVIOUS
  <2>1. y[1] \in Clients /\ y \in Range(lists[y[1]])
    BY <1>11 DEF Ids
  <2>2. Proper(items, lists[y[1]]) /\ Range(lists[y[1]]) \subseteq DOMAIN items
    BY <1>20, <2>1, Zenon
  <2>3. {items[y].origin, items[y].rightOrigin} \subseteq Range(lists[y[1]]) \cup {Nil}
    BY <2>1, <2>2, References, Zenon
  <2> QED
    BY <2>2, <2>3, Zenon
<1>23. \E rank : Founded(items', rank, DOMAIN items')
  <2>1. \E rank : Founded(items, rank, DOMAIN items)
    BY Zenon DEF IInv
  <2>2. {s.origin, s.rightOrigin} \subseteq DOMAIN items \cup {Nil}
    BY <1>10, <1>13, Zenon
  <2> QED
    BY <1>7, <1>8, <1>9, <1>22, <2>1, <2>2, FoundedMore, Zenon
<1>24. Agree(L, M) /\ Proper(items', L)
  <2>1. Proper(items', L)
    BY <1>20, Zenon
  <2>2. Range(L) \subseteq DOMAIN items'
    BY <1>7, <1>10, Zenon
  <2> QED
    BY <1>16, <1>23, <2>1, <2>2, HeldAgree, Zenon
<1>25. ASSUME NEW t, {t.origin, t.rightOrigin} \subseteq Range(L) \cup {Nil}, t.id[1] = c,
              t.id[2] \in Nat, t.id[2] <= k,
              Authored(items, L, t)
       PROVE  Authored(items', M, t)
  <2>1. Authored(items', L, t)
    <3>1. L \in Seq(Ids) /\ \A y \in Range(L) : items'[y] = items[y]
      BY <1>20, Zenon
    <3>2. t.rightOrigin \in Range(L) \cup {Nil}
      BY <1>25, Zenon
    <3> QED
      BY <1>25, <3>1, <3>2, SameStructs, Zenon
  <2>2. {t.origin, t.rightOrigin} \subseteq Range(M) \cup {Nil}
    BY <1>17, <1>25, Zenon
  <2>3. \A y \in Range(M) : y[1] = t.id[1] /\ y[2] < t.id[2] => y \in Range(L)
    <3>1. ~(x[2] < t.id[2])
      <4>1. ~(k < t.id[2])
        BY <1>3, <1>25
      <4> QED
        BY <1>3, <4>1, Zenon
    <3> QED
      BY <1>17, <3>1, Zenon
  <2> QED
    BY <1>16, <1>24, <1>25, <2>1, <2>2, <2>3, Transfers, Zenon
<1>26. Home(items', lists')
  <2> SUFFICES ASSUME NEW y \in DOMAIN items'
               PROVE  y \in Range(lists'[y[1]]) /\ Authored(items', lists'[y[1]], items'[y])
    BY Zenon DEF Home
  <2>1. CASE y = x
    <3>1. s.id[1] = c /\ s.id[2] \in Nat /\ s.id[2] <= k
      BY <1>2, <1>3
    <3>2. Authored(items', M, s)
      BY <1>13, <1>25, <3>1, Zenon
    <3> QED
      BY <1>3, <1>7, <1>17, <1>19, <2>1, <3>2
  <2>2. CASE y # x
    <3>1. y \in DOMAIN items /\ items'[y] = items[y]
      BY <1>7, <1>9, <2>2, Zenon
    <3>2. y \in Ids /\ items[y].id = y /\ y \in Range(lists[y[1]]) /\ Authored(items, lists[y[1]], items[y])
      BY <3>1, Zenon DEF IInv, Home
    <3>3. y[1] \in Clients /\ y[2] \in Nat
      BY <3>2, IdNumbers, Zenon
    <3>4. {items[y].origin, items[y].rightOrigin} \subseteq Range(lists[y[1]]) \cup {Nil}
      <4>1. Proper(items, lists[y[1]])
        BY <1>20, <3>3, Zenon
      <4> QED
        BY <3>2, <4>1, References, Zenon
    <3>5. CASE y[1] = c
      <4>1. y[2] <= k
        <5>1. y[2] < k
          BY <1>6, <3>1, <3>5, Zenon
        <5> QED
          BY <1>3, <3>3, <5>1
      <4>2. Authored(items, L, items[y]) /\ {items[y].origin, items[y].rightOrigin} \subseteq Range(L) \cup {Nil}
        BY <3>2, <3>4, <3>5
      <4>3. Authored(items', M, items[y])
        BY <1>25, <3>2, <3>3, <3>5, <4>1, <4>2, Zenon
      <4> QED
        BY <1>17, <1>19, <3>1, <3>2, <3>5, <4>3
    <3>6. CASE y[1] # c
      <4>1. lists[y[1]] \in Seq(Ids) /\ \A z \in Range(lists[y[1]]) : items'[z] = items[z]
        BY <1>20, <3>3, Zenon
      <4>2. items[y].rightOrigin \in Range(lists[y[1]]) \cup {Nil}
        BY <3>4, Zenon
      <4>3. Authored(items', lists[y[1]], items[y])
        BY <3>2, <4>1, <4>2, SameStructs, Zenon
      <4> QED
        BY <1>19, <3>1, <3>2, <3>3, <3>6, <4>3
    <3> QED
      BY <3>5, <3>6
  <2> QED
    BY <2>1, <2>2
<1>27. \A y \in DOMAIN items' : y \in Ids /\ items'[y].id = y
  BY <1>2, <1>3, <1>7, <1>9, <1>11
<1>28. IInv'
  BY <1>19, <1>21, <1>23, <1>26, <1>27, Zenon DEF IInv
<1>29. \A d \in Clients : Range(lists[d]) \subseteq Range(lists'[d])
  BY <1>17, <1>19
<1> QED
  BY <1>20, <1>28, <1>29, Zenon

\* Every step keeps the invariant, and leaves the old lists in order.
LEMMA StepInv ==
  ASSUME IInv, Next
  PROVE  /\ IInv'
         /\ \A d \in Clients : Proper(items', lists[d]) /\ Range(lists[d]) \subseteq Range(lists'[d])
<1>1. PICK c \in Clients : Integrate(c) \/ Insert(c)
  BY Zenon DEF Next
<1>2. CASE Integrate(c)
  BY <1>2, IntegrateInv, Zenon
<1>3. CASE Insert(c)
  BY <1>3, InsertInv, Zenon
<1> QED
  BY <1>1, <1>2, <1>3, Zenon

\* The invariant holds in every reachable state.
LEMMA Invariance == Spec => []IInv
<1>1. Init => IInv
  BY InitInv
<1>2. IInv /\ [Next]_vars => IInv'
  <2> SUFFICES ASSUME IInv, [Next]_vars PROVE IInv'
    OBVIOUS
  <2>1. CASE Next
    BY <2>1, StepInv, Zenon
  <2>2. CASE UNCHANGED vars
    BY <2>2 DEF vars, IInv
  <2> QED
    BY <2>1, <2>2
<1> QED
  BY <1>1, <1>2, PTL DEF Spec

\* What the invariant says of one list.
LEMMA HeldProper ==
  ASSUME IInv, NEW c \in Clients
  PROVE  Proper(items, lists[c]) /\ Range(lists[c]) \subseteq DOMAIN items
BY Zenon DEF IInv, Held

\* Every list is in order at all times: an item stays between the two it was
\* inserted between, whatever is integrated later, and concurrent insertions at
\* one place are ordered by client (integrateWithScratch).
THEOREM ListsStayInOrder == Spec => []ListsInOrder
<1>1. IInv => ListsInOrder
  BY HeldProper, Zenon DEF ListsInOrder, Proper
<1> QED
  BY <1>1, Invariance, PTL

\* Two replicas never disagree on the order of two items that both have, however
\* differently the items reached them (integrateWithScratch, integrateStructs).
THEOREM ListsAgree == Spec => []OrderAgreement
<1>1. IInv => OrderAgreement
  <2> SUFFICES ASSUME IInv, NEW c \in Clients, NEW d \in Clients PROVE Agree(lists[c], lists[d])
    BY Zenon DEF OrderAgreement
  <2>1. \E rank : Founded(items, rank, DOMAIN items)
    BY Zenon DEF IInv
  <2> QED
    BY <2>1, HeldProper, HeldAgree, Zenon
<1> QED
  BY <1>1, Invariance, PTL

\* Strong convergence of a list: replicas that integrated the same items have the
\* same list, whatever the order and the grouping of the updates (readUpdateV2).
THEOREM SameItemsSameList == Spec => []Convergence
<1>1. IInv => Convergence
  <2> SUFFICES ASSUME IInv, NEW c \in Clients, NEW d \in Clients, Range(lists[c]) = Range(lists[d])
               PROVE  lists[c] = lists[d]
    BY Zenon DEF Convergence
  <2>1. \E rank : Founded(items, rank, DOMAIN items)
    BY Zenon DEF IInv
  <2>2. Proper(items, lists[c]) /\ Proper(items, lists[d]) /\ Range(lists[c]) \subseteq DOMAIN items
    BY HeldProper, Zenon
  <2>3. Agree(lists[c], lists[d])
    BY <2>1, <2>2, HeldAgree, Zenon
  <2>4. /\ lists[c] \in Seq(Ids) /\ Distinct(lists[c])
        /\ lists[d] \in Seq(Ids) /\ Distinct(lists[d])
    BY <2>2, Zenon DEF Proper, InOrder, Distinct
  <2> QED
    BY <2>3, <2>4, SameItems, Zenon
<1> QED
  BY <1>1, Invariance, PTL

\* Neither a local insertion nor an update takes an item out of a list or moves
\* two items past each other (integrateWithScratch only ever links one in).
THEOREM OrderIsKept == Spec => KeepsOrder
<1> DEFINE Kept == \A c \in Clients : /\ Range(lists[c]) \subseteq Range(lists'[c])
                                      /\ Agree(lists[c], lists'[c])
<1>1. ASSUME IInv, [Next]_vars PROVE [Kept]_vars
  <2>1. CASE Next
    <3> SUFFICES ASSUME NEW c \in Clients
                 PROVE  Range(lists[c]) \subseteq Range(lists'[c]) /\ Agree(lists[c], lists'[c])
      OBVIOUS
    <3>1. IInv' /\ Proper(items', lists[c]) /\ Range(lists[c]) \subseteq Range(lists'[c])
      BY <1>1, <2>1, StepInv, Zenon
    <3>2. /\ \E rank : Founded(items', rank, DOMAIN items')
          /\ Proper(items', lists'[c]) /\ Range(lists'[c]) \subseteq DOMAIN items'
      BY <3>1, Zenon DEF IInv, Held
    <3>3. Range(lists[c]) \subseteq DOMAIN items'
      BY <3>1, <3>2, Zenon
    <3>4. Agree(lists[c], lists'[c])
      BY <3>1, <3>2, <3>3, HeldAgree, Zenon
    <3> QED
      BY <3>1, <3>4
  <2>2. CASE UNCHANGED vars
    BY <2>2
  <2> QED
    BY <1>1, <2>1, <2>2
<1> QED
  BY <1>1, Invariance, PTL DEF Spec, KeepsOrder

=============================================================================
