-------------------------- MODULE RelativePositions -------------------------
(***************************************************************************)
(* Positions that stay with an element: crdt/relative_position.go.  A      *)
(* position has the id of an element, or else only its type; assoc < 0     *)
(* attaches it to the element before the index, assoc >= 0 to the one at   *)
(* it.                                                                     *)
(***************************************************************************)
EXTENDS UndoManager

newRelativePosition(type, item, assoc) == [type |-> type, item |-> item, assoc |-> assoc]

\* The element at a visible index, None at the end.
elementAt(t, type, index) ==
  LET visible == SelectSeq(ItemsOf(t, type), Visible)
      before(k) == SumSeq(Map(SubSeq(visible, 1, k - 1), LAMBDA s : s.length))
      at == {k \in DOMAIN visible : /\ before(k) <= index
                                    /\ index < before(k) + visible[k].length}
  IN  IF at = {} THEN None
      ELSE LET k == CHOOSE x \in at : TRUE
           IN  <<Client(visible[k]), Clock(visible[k]) + index - before(k)>>

newRelativePositionFromTypeIndex(t, type, index, assoc) ==
  LET ids == Chain(t, ListKey(type))
      at  == elementAt(t, type, IF assoc < 0 THEN index - 1 ELSE index)
  IN  newRelativePosition(type,
        IF assoc < 0 /\ index = 0 THEN None
        ELSE IF at = None /\ assoc < 0 /\ ids # <<>>
        THEN lastID(getStruct(t, Last(ids))) ELSE at, assoc)

EncodeRelativePosition(p) ==
  (IF p.item # None THEN <<0>> \o idBytes(p.item)
   ELSE IF p.type[1] = "root" THEN <<1>> \o WriteString(p.type[2])
   ELSE <<2>> \o idBytes(p.type[2])) \o writeVarInt(p.assoc)

\* Of an element's position the type is not sent.
DecodeRelativePosition(bytes) ==
  LET tag   == readRest(newDecoder(1, bytes))
      name  == readStringValue(tag.d)
      id    == readLeftID(tag.d)
      rest  == IF tag.v = 1 THEN name.d.rest ELSE id.d.rest
      assoc == IF Remaining(rest) > 0 THEN readVarInt(rest).v ELSE 0
  IN  CASE tag.v = 0 -> newRelativePosition(None, id.v, assoc)
        [] tag.v = 1 -> newRelativePosition(<<"root", name.v>>, None, assoc)
        [] tag.v = 2 -> newRelativePosition(<<"item", id.v>>, None, assoc)

NoPosition == [type |-> None, index |-> 0]

FaultIndexOf(t, item, diff, assoc) ==
  LET ids    == Chain(t, Key(item))
      before == SelectSeq(Map(SubSeq(ids, 1, ChainIndex(ids, item.id) - 1),
                              LAMBDA id : getStruct(t, id)), LAMBDA s : ~s.deleted)
  IN  SumSeq(Map(before, LAMBDA s : s.length)) + diff + (IF assoc >= 0 THEN 0 ELSE 1)

\* The visible index of the element diff inside item.  A deleted element counts
\* as the gap it left.
indexOf(t, item, diff, assoc) ==
  LET ids    == Chain(t, Key(item))
      before == SelectSeq(Map(SubSeq(ids, 1, ChainIndex(ids, item.id) - 1),
                              LAMBDA id : getStruct(t, id)), Visible)
  IN  SumSeq(Map(before, LAMBDA s : s.length))
      + (IF ~Visible(item) THEN 0 ELSE IF assoc >= 0 THEN diff ELSE diff + 1)

\* NoPosition: the document does not have the element or the type (yet).  An
\* element that was undone and redone is looked up as its copy.
CreateAbsolutePositionFromRelativePosition(t, p) ==
  LET none  == [id |-> None, diff |-> 0]
      f     == followRedone(t, p.item, none)
      item  == getStruct(t, f.id)
      type  == IF p.type[1] = "root" THEN p.type
               ELSE LET g == followRedone(t, p.type[2], none)
                    IN  IF g.id # None /\ IsType(getStruct(t, g.id))
                        THEN TypeOf(g.id) ELSE None
  IN  IF p.item # None
      THEN IF getState(t.st, p.item[1]) <= p.item[2] \/ f.id = None THEN NoPosition
           ELSE [type |-> item.parent,
                 index |-> IF orphaned(t, item.parent) THEN 0
                           ELSE indexOf(t, item, f.diff, p.assoc)]
      ELSE IF type = None THEN NoPosition
      ELSE [type |-> type,
            index |-> IF p.assoc >= 0 THEN typeLength(t, type) ELSE 0]
=============================================================================
