----------------------------- MODULE Documents ------------------------------
(***************************************************************************)
(* A document as the library holds it: runs of clocks in one struct list   *)
(* per client, list and map chains of items, transactions and what their   *)
(* cleanup does (crdt/struct_store.go, client_struct_list.go, item.go,     *)
(* content_types.go, transaction.go).                                      *)
(*                                                                         *)
(* A document is a record: client (its id), gc, observed (it has an        *)
(* "update" observer), st (client -> its structs in clock order), ch (the  *)
(* chains), pending (structs that wait for others, with what they wait     *)
(* for) and pendingDS (deletions that wait, as a V2 update).  ch maps      *)
(* <<parent, parentSub>> to the ids of the items of that chain in order:   *)
(* left and right pointers, a list's start and a map's current value (the  *)
(* last of its key's chain) are all read off it.  The length of a type and *)
(* the number of its map keys are functions of its chains.                 *)
(*                                                                         *)
(* A transaction t is a document with the fields of beginTransact.         *)
(***************************************************************************)
EXTENDS UpdateAlgebra

NoPending == [missing |-> <<>>, update |-> <<>>]

newDoc(client, gc, observed) ==
  [client |-> client, gc |-> gc, observed |-> observed, st |-> <<>>,
   ch |-> <<>>, pending |-> NoPending, pendingDS |-> <<>>]

-----------------------------------------------------------------------------
(* The struct store *)

getStateVector(st) == [c \in DOMAIN st |-> End(Last(st[c]))]

getState(st, c) == IF c \in DOMAIN st THEN End(Last(st[c])) ELSE 0

\* Binary search between 0-based positions, mid being the next one looked at.
RECURSIVE binarySearch(_, _, _, _, _)
binarySearch(ss, clock, left, right, mid) ==
  LET s == ss[mid + 1] IN
  IF left > right THEN 0
  ELSE IF Clock(s) > clock
  THEN binarySearch(ss, clock, left, mid - 1, (left + mid - 1) \div 2)
  ELSE IF clock < End(s) THEN mid + 1
  ELSE binarySearch(ss, clock, mid + 1, right, (mid + 1 + right) \div 2)

\* The position of the struct that holds clock, 0 if there is none.  The first
\* pivot is interpolated: clocks are dense, so it is close.
findIndexSS(ss, clock) ==
  LET end  == Len(ss) - 1
      span == End(Last(ss)) - 1
      mid  == IF span > 0 /\ clock \in 0 .. span THEN (clock * end) \div span
              ELSE end \div 2
  IN  IF Clock(Last(ss)) = clock THEN Len(ss)
      ELSE binarySearch(ss, clock, 0, end, mid)

IndexOf(t, id) ==
  IF id[1] \in DOMAIN t.st THEN findIndexSS(t.st[id[1]], id[2]) ELSE 0

getStruct(t, id) ==
  LET i == IndexOf(t, id) IN IF i = 0 THEN NoStruct ELSE t.st[id[1]][i]

SetStruct(t, s) == [t EXCEPT !.st[Client(s)][IndexOf(t, s.id)] = s]

addStruct(t, s) ==
  IF Client(s) \in DOMAIN t.st THEN [t EXCEPT !.st[Client(s)] = Append(@, s)]
  ELSE [t EXCEPT !.st = (Client(s) :> <<s>>) @@ @]

-----------------------------------------------------------------------------
(* Chains *)

Key(item) == <<item.parent, item.parentSub>>
ListKey(type) == <<type, None>>
MapKey(type, sub) == <<type, sub>>
TypeOf(id) == <<"item", id>>

Chain(t, key) == IF key \in DOMAIN t.ch THEN t.ch[key] ELSE <<>>

\* The position of an id in a chain, 0 if it is not there.
ChainIndex(ids, id) ==
  LET at == {i \in DOMAIN ids : ids[i] = id}
  IN  IF at = {} THEN 0 ELSE CHOOSE i \in at : TRUE

rightOf(t, item) ==
  LET ids == Chain(t, Key(item))
      i   == ChainIndex(ids, item.id)
  IN  IF i = 0 \/ i = Len(ids) THEN None ELSE ids[i + 1]

\* The map keys of a type that have items.
KeysOf(t, type) == {k \in DOMAIN t.ch : k[1] = type /\ k[2] # None}

-----------------------------------------------------------------------------
(* Splitting *)

\* The right part takes over what the left part was: deleted, kept, redone.
splitItem(t, item, diff) ==
  LET parts == spliceContent(item.content, diff)
      left  == [item EXCEPT !.length = diff, !.content = parts[1]]
      right == [item EXCEPT !.id = <<Client(item), Clock(item) + diff>>,
                            !.length = @ - diff, !.content = parts[2],
                            !.origin = <<Client(item), Clock(item) + diff - 1>>,
                            !.redone = IF @ = None THEN None
                                       ELSE <<@[1], @[2] + diff>>]
      i     == IndexOf(t, item.id)
      p     == ChainIndex(t.ch[Key(item)], item.id)
  IN  [t EXCEPT !.st[Client(item)] = InsertAt([@ EXCEPT ![i] = left], i + 1, right),
                !.ch[Key(item)] = InsertAt(@, p + 1, right.id),
                !.merge = Append(@, right.id)]

\* t, with the item that starts (or ends) at id made one; found is the id of
\* that item, None for a GC or an unknown id.
getItemCleanStart(t, id) ==
  LET s == getStruct(t, id)
  IN  IF s = NoStruct \/ s.kind # "item" THEN [t |-> t, found |-> None]
      ELSE IF Clock(s) < id[2]
      THEN [t |-> splitItem(t, s, id[2] - Clock(s)), found |-> id]
      ELSE [t |-> t, found |-> id]

getItemCleanEnd(t, id) ==
  LET s == getStruct(t, id)
  IN  IF s = NoStruct \/ s.kind # "item" THEN [t |-> t, found |-> None]
      ELSE IF id[2] # End(s) - 1
      THEN [t |-> splitItem(t, s, id[2] - Clock(s) + 1), found |-> s.id]
      ELSE [t |-> t, found |-> s.id]

-----------------------------------------------------------------------------
(* Transactions.  before is the state they began in; one made lean, by a   *)
(* mutation of a document nobody observes, notes only its own client.       *)

beginTransact(doc, local, lean) ==
  doc @@ [ds |-> <<>>, merge |-> <<>>, changed |-> {}, local |-> local,
          full |-> ~lean \/ doc.observed, before |-> getStateVector(doc.st)]

DocOf(t) ==
  [client |-> t.client, gc |-> t.gc, observed |-> t.observed, st |-> t.st,
   ch |-> t.ch, pending |-> t.pending, pendingDS |-> t.pendingDS]

beforeClock(t, c) ==
  IF t.full \/ c = t.client THEN StateOf(t.before, c) ELSE getState(t.st, c)

\* A type changes as far as observers are told only if it was there before and
\* is not deleted.
addChangedType(t, type, sub) ==
  LET item == getStruct(t, type[2])
  IN  IF \/ type[1] = "root"
         \/ Clock(item) < beforeClock(t, Client(item)) /\ ~item.deleted
      THEN [t EXCEPT !.changed = @ \cup {<<type, sub>>}] ELSE t

-----------------------------------------------------------------------------
(* Deletion *)

\* The items a deleted type deletes: its list, then the last of every key.
ChildrenOf(t, type) ==
  Chain(t, ListKey(type)) \o
  Map(SetToSeq(KeysOf(t, type)), LAMBDA k : Last(t.ch[k]))

\* contentType.deleteContent; the deletion of a child is passed in.
RECURSIVE deleteItemStruct(_, _)
deleteItemStruct(t, id) ==
  LET item == getStruct(t, id)
      own  == addChangedType(
                [SetStruct(t, [item EXCEPT !.deleted = TRUE]) EXCEPT
                   !.ds = addToDeleteSet(@, Client(item), Clock(item), item.length)],
                item.parent, item.parentSub)
      type == TypeOf(item.id)
      child(u, c) ==
        LET s == getStruct(u, c)
        IN  IF ~s.deleted THEN deleteItemStruct(u, c)
            ELSE IF Clock(s) < beforeClock(u, Client(s))
            THEN [u EXCEPT !.merge = Append(@, c)] ELSE u
  IN  IF item.deleted THEN t
      ELSE IF item.content[1] # 7 THEN own
      ELSE [Fold(child, own, ChildrenOf(own, type)) EXCEPT
              !.changed = {x \in @ : x[1] # type}]

-----------------------------------------------------------------------------
(* Integration *)

Unknown(t, item, id) ==
  id # None /\ id[1] # Client(item) /\ id[2] >= getState(t.st, id[1])

\* The client whose structs an item waits for, 0 if it waits for none.
missingClientOf(t, item) ==
  LET parentID == IF item.parent # None /\ item.parent[1] = "item"
                  THEN item.parent[2] ELSE None
      waits    == SelectSeq(<<item.origin, item.rightOrigin, parentID>>,
                            LAMBDA id : Unknown(t, item, id))
  IN  IF waits = <<>> THEN 0 ELSE waits[1][1]

IsType(s) == s.kind = "item" /\ s.content[1] = 7

\* The rest of missingClient: origins become whole items, and the parent is
\* taken from a neighbour, the right one last, or looked up.
resolveItem(t, item) ==
  LET l     == IF item.origin = None THEN [t |-> t, found |-> None]
               ELSE getItemCleanEnd(t, item.origin)
      r     == IF item.rightOrigin = None THEN [t |-> l.t, found |-> None]
               ELSE getItemCleanStart(l.t, item.rightOrigin)
      lost  == \/ item.origin # None /\ l.found = None
               \/ item.rightOrigin # None /\ r.found = None
      from  == IF r.found # None THEN getStruct(r.t, r.found)
               ELSE IF l.found # None THEN getStruct(r.t, l.found)
               ELSE [parent |-> None, parentSub |-> item.parentSub]
      given == IF lost THEN None ELSE item.parent
      known == given # None /\ (given[1] = "item" => IsType(getStruct(r.t, given[2])))
  IN  [t |-> r.t, left |-> l.found, right |-> r.found,
       item |-> [item EXCEPT
         !.origin = IF l.found = None THEN None ELSE lastID(getStruct(r.t, l.found)),
         !.rightOrigin = r.found,
         !.parent = IF given = None THEN from.parent
                    ELSE IF known THEN given ELSE None,
         !.parentSub = IF given = None THEN from.parentSub ELSE @]]

FaultScan(t, item, ids, o, stop, left, before, conflicting) ==
  IF o = stop THEN left ELSE stop - 1

\* The conflict scan: o runs over the items between left and right; left moves
\* behind every item the new one has to follow.
RECURSIVE conflictScan(_, _, _, _, _, _, _, _)
conflictScan(t, item, ids, o, stop, left, before, conflicting) ==
  LET x      == getStruct(t, ids[o])
      B      == before \cup {ids[o]}
      C      == conflicting \cup {ids[o]}
      anchor == getStruct(t, x.origin)
      on     == conflictScan(t, item, ids, o + 1, stop, left, B, C)
      behind == conflictScan(t, item, ids, o + 1, stop, o, B, {})
  IN  IF o = stop THEN left
      ELSE IF x.origin = item.origin
      THEN IF Client(x) < Client(item) THEN behind
           ELSE IF x.rightOrigin = item.rightOrigin THEN left ELSE on
      ELSE IF x.origin # None /\ anchor.kind = "item" /\ anchor.id \in B
      THEN IF anchor.id \in C THEN on ELSE behind
      ELSE left

\* The index in ids behind which the item goes.
insertionPoint(t, item, ids, left, right) ==
  LET l    == IF left = None THEN 0 ELSE ChainIndex(ids, left)
      r    == IF right = None \/ ChainIndex(ids, right) = 0 THEN Len(ids) + 1
              ELSE ChainIndex(ids, right)
      scan == IF left = None THEN right = None \/ r # 1 ELSE r # l + 1
  IN  IF scan THEN conflictScan(t, item, ids, l + 1, r, l, {}, {}) ELSE l

\* item with a known parent, behind left and before right unless others are in
\* between.  A new last value of a map key deletes the one before it; a value
\* that is not the last, or whose parent is deleted, is deleted itself.
integrate(t, item, left, right) ==
  LET key    == Key(item)
      ids    == Chain(t, key)
      at     == insertionPoint(t, item, ids, left, right)
      isLast == at = Len(ids)
      linked == [t EXCEPT !.ch = (key :> InsertAt(ids, at + 1, item.id)) @@ @]
      beaten == IF item.parentSub # None /\ isLast /\ at > 0
                THEN deleteItemStruct(linked, ids[at]) ELSE linked
      added  == addChangedType(addStruct(beaten, item), item.parent, item.parentSub)
      orphan == item.parent[1] = "item" /\ getStruct(added, item.parent[2]).deleted
  IN  IF item.parent = None THEN addStruct(t, GC(item.id, item.length))
      ELSE IF orphan \/ (item.parentSub # None /\ ~isLast)
      THEN deleteItemStruct(added, item.id) ELSE added

\* A struct of an update, from an offset inside it.
integrateStruct(t, s, offset) ==
  LET r    == resolveItem(t, s)
      prev == getItemCleanEnd(r.t, <<Client(s), Clock(s) + offset - 1>>)
      rest == [r.item EXCEPT
                 !.id = <<@[1], @[2] + offset>>, !.length = @ - offset,
                 !.content = spliceContent(@, offset)[2],
                 !.origin = IF prev.found = None THEN @
                            ELSE lastID(getStruct(prev.t, prev.found))]
  IN  IF offset >= s.length THEN IF IsItem(s) THEN r.t ELSE t
      ELSE IF ~IsItem(s)
      THEN addStruct(t, GC(<<Client(s), Clock(s) + offset>>, s.length - offset))
      ELSE IF offset = 0 THEN integrate(r.t, r.item, r.left, r.right)
      ELSE integrate(prev.t, rest, prev.found, r.right)

-----------------------------------------------------------------------------
(* Garbage collection: the content of a deleted item goes, and with it, for *)
(* a type, its children; those become GC structs.                           *)

RECURSIVE gcItem(_, _, _)
gcItem(t, id, parentGCd) ==
  LET item     == getStruct(t, id)
      type     == TypeOf(id)
      keys     == KeysOf(t, type)
      children == Chain(t, ListKey(type)) \o
                  Concat(Map(SetToSeq(keys), LAMBDA k : Reverse(t.ch[k])))
      below    == Fold(LAMBDA u, c : gcItem(u, c, TRUE), t, children)
      emptied  == IF item.content[1] # 7 THEN t
                  ELSE [below EXCEPT !.ch = [k \in DOMAIN @ \ (keys \cup {ListKey(type)})
                                               |-> @[k]]]
  IN  IF ~item.deleted THEN t
      ELSE SetStruct(emptied, IF parentGCd THEN GC(item.id, item.length)
                              ELSE [item EXCEPT !.content = <<1, item.length>>])

\* The structs of client c from the one that holds clock up to clockEnd.
StructsBetween(t, c, clock, clockEnd) ==
  LET from == findIndexSS(t.st[c], clock)
  IN  SelectSeq(SubSeq(t.st[c], from, Len(t.st[c])), LAMBDA s : Clock(s) < clockEnd)

\* Ranges from the last to the first.  A kept item stays for the undo manager.
\* A GC struct takes the place of a child, so positions stay valid.
tryGcDeleteSet(t) ==
  LET collect(u, s) == LET now == getStruct(u, s.id)
                       IN  IF IsItem(now) /\ now.deleted /\ ~now.keep
                           THEN gcItem(u, s.id, FALSE) ELSE u
      range(c, u, r) == Fold(collect, u, StructsBetween(u, c, r[1], r[1] + r[2]))
      client(u, b)  == Fold(LAMBDA v, r : range(b[1], v, r), u, Reverse(b[2]))
  IN  Fold(client, t, t.ds)

-----------------------------------------------------------------------------
(* Merging neighbours of one client's list that continue each other *)

FaultCanMerge(t, left, right) ==
  /\ right.origin = lastID(left)
  /\ left.rightOrigin = right.rightOrigin
  /\ left.deleted = right.deleted
  /\ mergesContent(left.content, right.content)

canMergeWith(t, left, right) ==
  /\ right.origin = lastID(left)
  /\ rightOf(t, left) = right.id
  /\ left.rightOrigin = right.rightOrigin
  /\ left.deleted = right.deleted
  /\ left.redone = None /\ right.redone = None
  /\ mergesContent(left.content, right.content)

Without(s, i) == SubSeq(s, 1, i - 1) \o SubSeq(s, i + 1, Len(s))

\* The structs at positions i - 1 and i of client c become one if they can.
tryMergeWithLeft(t, c, i) ==
  LET left   == t.st[c][i - 1]
      right  == t.st[c][i]
      merged == [left EXCEPT
                   !.length = @ + right.length,
                   !.content = mergeContentWith(@, right.content),
                   !.keep = @ \/ right.keep]
      ids    == t.ch[Key(right)]
  IN  IF left.kind # right.kind THEN t
      ELSE IF left.kind = "gc"
      THEN [t EXCEPT !.st[c] = Without([@ EXCEPT ![i - 1].length = @ + right.length], i)]
      ELSE IF canMergeWith(t, left, right)
      THEN [t EXCEPT !.st[c] = Without([@ EXCEPT ![i - 1] = merged], i),
                     !.ch[Key(right)] = Without(@, ChainIndex(ids, right.id))]
      ELSE t

\* From position i down to the first at or behind clock, but never the first.
RECURSIVE mergeDown(_, _, _, _)
mergeDown(t, c, i, clock) ==
  IF i <= 1 \/ Clock(t.st[c][i]) < clock THEN t
  ELSE mergeDown(tryMergeWithLeft(t, c, i), c, i - 1, clock)

tryMergeDeleteSet(t) ==
  LET range(c, u, r) ==
        LET n == findIndexSS(u.st[c], r[1] + r[2] - 1)
        IN  mergeDown(u, c, Min({Len(u.st[c]), n + 1}), r[1])
      client(u, b)   == Fold(LAMBDA v, r : range(b[1], v, r), u, Reverse(b[2]))
  IN  Fold(client, t, t.ds)

\* The structs a transaction added to client c, with the one before them.
mergeTransactionRange(t, c) ==
  LET first == findIndexSS(t.st[c], beforeClock(t, c))
      from  == Clock(t.st[c][Max({first, 2})])
  IN  IF Len(t.st[c]) = 1 THEN t ELSE mergeDown(t, c, Len(t.st[c]), from)

mergeAround(t, id) ==
  LET c == id[1]
      i == findIndexSS(t.st[c], id[2])
      u == IF i < Len(t.st[c]) THEN tryMergeWithLeft(t, c, i + 1) ELSE t
  IN  IF i = 0 THEN t ELSE IF i > 1 THEN tryMergeWithLeft(u, c, i) ELSE u

-----------------------------------------------------------------------------
(* cleanupTransactions, but for the calls of observers *)

generateNewClientID(t) == t.client + 1000

cleanupTransaction(t) ==
  LET sorted == [t EXCEPT !.ds = sortAndMergeDeleteSet(@)]
      gced   == IF t.gc THEN tryGcDeleteSet(sorted) ELSE sorted
      grown  == SelectSeq(SetToSeq(DOMAIN gced.st), LAMBDA c :
                            beforeClock(t, c) # getState(gced.st, c))
      joined == Fold(mergeTransactionRange, tryMergeDeleteSet(gced), grown)
      around == Fold(mergeAround, joined, joined.merge)
  IN  IF ~t.local /\ getState(t.st, t.client) # beforeClock(t, t.client)
      THEN [around EXCEPT !.client = generateNewClientID(around)] ELSE around
=============================================================================
