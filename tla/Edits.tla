------------------------------- MODULE Edits --------------------------------
(***************************************************************************)
(* Local edits of lists and maps: crdt/abstract.go, y_array.go, y_map.go.  *)
(* A type is a root <<"root", name>> or <<"item", id>>.  What is inserted  *)
(* is a sequence of contents of length 1, as typeListInsertGenerics takes  *)
(* values: <<8, <<v>>>> a plain value, <<3, b>> bytes, <<7, ref, name>> a  *)
(* new type.  Every operation is a step of a transaction t.                *)
(***************************************************************************)
EXTENDS ApplyUpdates

Visible(s) == ~s.deleted /\ isCountable(s.content)

ItemsOf(t, type) == Map(Chain(t, ListKey(type)), LAMBDA id : getStruct(t, id))

typeLength(t, type) ==
  SumSeq(Map(SelectSeq(ItemsOf(t, type), Visible), LAMBDA s : s.length))

NextID(t) == <<t.client, getState(t.st, t.client)>>

\* A new item between two neighbours of the list of type; None for no neighbour.
newItem(t, type, left, right, content) ==
  Item(NextID(t), contentLength(content),
       IF left = None THEN None ELSE lastID(getStruct(t, left)), right, type, None,
       content, FALSE)

-----------------------------------------------------------------------------
(* Lists *)

\* The position in the chain behind index visible elements, an item cut there
\* if need be.
RECURSIVE walkTo(_, _, _, _)
walkTo(t, type, i, index) ==
  LET ids == Chain(t, ListKey(type))
      s   == getStruct(t, ids[i])
  IN  IF index = 0 \/ i > Len(ids) THEN [t |-> t, i |-> i]
      ELSE IF ~Visible(s) THEN walkTo(t, type, i + 1, index)
      ELSE IF index < s.length
      THEN [t |-> splitItem(t, s, index), i |-> i + 1]
      ELSE walkTo(t, type, i + 1, index - s.length)

\* Neighbouring plain values go into one item.
packContent(contents) ==
  LET step(out, c) == IF out # <<>> /\ c[1] = 8 /\ Last(out)[1] = 8
                      THEN Append(Front(out), <<8, Last(out)[2] \o c[2]>>)
                      ELSE Append(out, c)
  IN  Fold(step, <<>>, contents)

\* A lean transaction may grow the last item of the list in place, if it is
\* this client's last struct and holds plain values.
growsTail(t, type, left, right, contents) ==
  LET s == getStruct(t, left)
  IN  /\ ~t.full /\ right = None /\ left # None
      /\ ~s.deleted /\ s.content[1] = 8
      /\ s.redone = None /\ s.rightOrigin = None
      /\ Client(s) = t.client /\ End(s) = getState(t.st, t.client)
      /\ type[1] = "item" => ~getStruct(t, type[2]).deleted
      /\ contents # <<>> /\ \A c \in ToSet(contents) : c[1] = 8

FaultGrowTail(t, left, contents) ==
  LET s == getStruct(t, left)
  IN  SetStruct(t, [s EXCEPT !.content = packContent(<<@>> \o contents)[1]])

growTail(t, left, contents) ==
  LET s == getStruct(t, left)
  IN  SetStruct(t, [s EXCEPT !.length = @ + Len(contents),
                             !.content = packContent(<<@>> \o contents)[1]])

\* Each new item has the last one as its origin, all the same right neighbour.
typeListInsertGenericsAfter(t, type, left, contents) ==
  LET ids     == Chain(t, ListKey(type))
      at      == IF left = None THEN 0 ELSE ChainIndex(ids, left)
      right   == IF at = Len(ids) THEN None ELSE ids[at + 1]
      step(a, c) == LET item == newItem(a.t, type, a.left, right, c)
                    IN  [t |-> integrate(a.t, item, a.left, right), left |-> item.id]
  IN  IF growsTail(t, type, left, right, contents) THEN growTail(t, left, contents)
      ELSE Fold(step, [t |-> t, left |-> left], packContent(contents)).t

typeListInsertGenerics(t, type, index, contents) ==
  LET w   == walkTo(t, type, 1, index)
      ref == IF index = 0 THEN None ELSE Chain(w.t, ListKey(type))[w.i - 1]
  IN  IF index > typeLength(t, type) THEN t
      ELSE typeListInsertGenericsAfter(w.t, type, ref, contents)

typeListPushGenerics(t, type, contents) ==
  LET ids == Chain(t, ListKey(type))
  IN  typeListInsertGenericsAfter(t, type, IF ids = <<>> THEN None ELSE Last(ids),
                                  contents)

RECURSIVE deleteFrom(_, _, _, _)
deleteFrom(t, type, i, length) ==
  LET ids == Chain(t, ListKey(type))
      s   == getStruct(t, ids[i])
      cut == IF length < s.length THEN splitItem(t, s, length) ELSE t
  IN  IF length <= 0 \/ i > Len(ids) THEN t
      ELSE IF s.deleted THEN deleteFrom(t, type, i + 1, length)
      ELSE deleteFrom(deleteItemStruct(cut, s.id), type, i + 1, length - s.length)

typeListDelete(t, type, index, length) ==
  LET w == walkTo(t, type, 1, index) IN deleteFrom(w.t, type, w.i, length)

contentValues(c) ==
  CASE c[1] \in {2, 8} -> c[2]
    [] c[1] = 4 -> Map(c[2], LAMBDA r : <<119, <<r>>>>)
    [] OTHER -> <<c>>

typeListToArray(t, type) ==
  Concat(Map(SelectSeq(ItemsOf(t, type), Visible), LAMBDA s : contentValues(s.content)))

-----------------------------------------------------------------------------
(* Maps *)

mapItem(t, type, key, left, content) ==
  [newItem(t, type, left, None, content) EXCEPT !.parentSub = key]

orphaned(t, type) == type[1] = "item" /\ getStruct(t, type[2]).deleted

\* A key that has no item yet: no conflict is possible.
integrateNewMapKey(t, item) ==
  LET added == addChangedType(
                 addStruct([t EXCEPT !.ch = (Key(item) :> <<item.id>>) @@ @], item),
                 item.parent, item.parentSub)
  IN  IF orphaned(added, item.parent) THEN deleteItemStruct(added, item.id) ELSE added

\* A plain value behind the last one of its key.
integratePrimitiveMapOverwrite(t, item, left) ==
  LET linked == [t EXCEPT !.ch[Key(item)] = Append(@, item.id)]
      added  == addChangedType(addStruct(deleteItemStruct(linked, left), item),
                               item.parent, item.parentSub)
  IN  IF orphaned(added, item.parent) THEN deleteItemStruct(added, item.id) ELSE added

typeMapSet(t, type, key, content) ==
  LET ids  == Chain(t, MapKey(type, key))
      left == IF ids = <<>> THEN None ELSE Last(ids)
      item == mapItem(t, type, key, left, content)
  IN  IF left = None THEN integrateNewMapKey(t, item)
      ELSE IF content[1] = 8 THEN integratePrimitiveMapOverwrite(t, item, left)
      ELSE integrate(t, item, left, None)

typeMapDelete(t, type, key) ==
  LET ids == Chain(t, MapKey(type, key))
  IN  IF ids = <<>> THEN t ELSE deleteItemStruct(t, Last(ids))

typeMapHas(t, type, key) ==
  LET ids == Chain(t, MapKey(type, key))
  IN  ids # <<>> /\ ~getStruct(t, Last(ids)).deleted

typeMapGet(t, type, key) ==
  Last(contentValues(getStruct(t, Last(Chain(t, MapKey(type, key)))).content))
=============================================================================
