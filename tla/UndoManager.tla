----------------------------- MODULE UndoManager ----------------------------
(***************************************************************************)
(* Undo and redo: crdt/undo_manager.go, and redoItem, followRedone and     *)
(* keepItem of item.go.                                                    *)
(*                                                                         *)
(* A manager um has the stacks undo and redo, whose entries hold what a    *)
(* captured transaction inserted (ins) and deleted (del), scope, the types *)
(* it tracks, and last, whether a next change may join the last entry      *)
(* (LastChange # 0).  Undo of a deletion inserts a copy: redone leads from *)
(* the deleted item to it.                                                 *)
(***************************************************************************)
EXTENDS Events

newUndoManager(scope) == [undo |-> <<>>, redo |-> <<>>, scope |-> scope, last |-> FALSE]

\* The types above and including a type.
RECURSIVE Ancestors(_, _)
Ancestors(t, type) ==
  IF type[1] = "root" THEN {type}
  ELSE {type} \cup Ancestors(t, getStruct(t, type[2]).parent)

scopeContains(um, t, id) ==
  um.scope \cap Ancestors(t, getStruct(t, id).parent) # {}

trackedByScope(um, t) ==
  \E x \in t.changed : um.scope \cap Ancestors(t, x[1]) # {}

\* Up the parents until one has the flag already.
RECURSIVE keepItem(_, _, _)
keepItem(t, id, keep) ==
  LET s == getStruct(t, id)
      u == SetStruct(t, [s EXCEPT !.keep = keep])
  IN  IF s.keep = keep THEN t
      ELSE IF s.parent[1] = "root" THEN u ELSE keepItem(u, s.parent[2], keep)

\* The items of a delete set, whole ones: see iterateDeletedStructs.
itemsIn(t, ds) ==
  LET range(c, r) == StructsBetween(t, c, r[1], r[1] + r[2])
      block(b)    == Concat(Map(b[2], LAMBDA r : range(b[1], r)))
  IN  Map(SelectSeq(Concat(Map(ds, block)), IsItem), LAMBDA s : s.id)

keepAll(um, t, ds, keep) ==
  LET cut == iterateDeletedStructs(t, ds)
  IN  Fold(LAMBDA u, id : keepItem(u, id, keep), cut,
           SelectSeq(itemsIn(cut, ds), LAMBDA id : scopeContains(um, cut, id)))

\* Clear(false, true), in a transaction v of its own.
clearRedo(um, v) ==
  Fold(LAMBDA u, e : keepAll(um, u, e.del, FALSE), v, um.redo)

-----------------------------------------------------------------------------
(* The afterTransaction handler *)

captureEntry(t) ==
  LET grown == {c \in DOMAIN t.st : getState(t.st, c) > StateOf(t.before, c)}
      range(c) == <<c, <<<<StateOf(t.before, c),
                           getState(t.st, c) - StateOf(t.before, c)>>>>>>
  IN  [ins |-> Map(SetToSeq(grown), range), del |-> t.ds]

joinEntries(old, new) ==
  [ins |-> mergeDeleteSets(<<old.ins, new.ins>>),
   del |-> mergeDeleteSets(<<old.del, new.del>>)]

FaultCapture(um, entry, mode, soon) ==
  IF mode = "undo" THEN [um EXCEPT !.redo = Append(@, entry)]
  ELSE [um EXCEPT !.undo = Append(@, entry), !.last = TRUE]

\* mode says whether undo or redo is running, soon whether the last change is
\* less than CaptureTimeout ago.
capture(um, entry, mode, soon) ==
  CASE mode = "undo" -> [um EXCEPT !.redo = Append(@, entry), !.last = FALSE]
    [] mode = "redo" -> [um EXCEPT !.undo = Append(@, entry)]
    [] mode = "none" ->
         LET joins == um.last /\ soon /\ um.undo # <<>>
         IN  [um EXCEPT !.redo = <<>>, !.last = TRUE,
                        !.undo = IF joins
                                 THEN Append(Front(@), joinEntries(Last(@), entry))
                                 ELSE Append(@, entry)]

isCaptured(um, t) ==
  LET e == captureEntry(t)
  IN  t.local /\ trackedByScope(um, t) /\ (e.ins # <<>> \/ e.del # <<>>)

-----------------------------------------------------------------------------
(* Redoing one item *)

\* The item that now stands for id, and how far inside it id lies.
RECURSIVE followRedone(_, _, _)
followRedone(t, id, found) ==
  LET s    == getStruct(t, id)
      diff == id[2] - Clock(s)
  IN  IF s = NoStruct \/ ~IsItem(s) THEN found
      ELSE IF s.redone = None THEN [id |-> s.id, diff |-> diff]
      ELSE followRedone(t, <<s.redone[1], s.redone[2] + diff>>,
                        [id |-> s.id, diff |-> diff])

\* The copy of id, or a copy of the copy, in type.
RECURSIVE traceTo(_, _, _)
traceTo(t, id, type) ==
  LET s == getStruct(t, id)
      c == getItemCleanStart(t, s.redone)
  IN  IF id = None THEN [t |-> t, id |-> None]
      ELSE IF s.parent = type THEN [t |-> t, id |-> id]
      ELSE IF s.redone = None THEN [t |-> t, id |-> None]
      ELSE traceTo(c.t, c.found, type)

RECURSIVE firstTraced(_, _, _)
firstTraced(t, ids, type) ==
  LET f == traceTo(t, Head(ids), type)
  IN  IF ids = <<>> THEN [t |-> t, id |-> None]
      ELSE IF f.id # None THEN f ELSE firstTraced(f.t, Tail(ids), type)

RECURSIVE lastRedone(_, _)
lastRedone(t, id) ==
  LET s == getStruct(t, id)
      c == getItemCleanStart(t, s.redone)
  IN  IF id = None \/ s.redone = None THEN [t |-> t, id |-> id]
      ELSE lastRedone(c.t, c.found)

deletedByStack(um, id) ==
  \E e \in ToSet(um.undo) \cup ToSet(um.redo) : isDeleted(e.del, id)

\* From a map value over those that came after it, if they are this user's.
RECURSIVE mapLeft(_, _, _, _)
mapLeft(um, t, id, ins) ==
  LET next == rightOf(t, getStruct(t, id))
      own  == \/ getStruct(t, next).redone # None
              \/ isDeleted(ins, next) \/ deletedByStack(um, next)
      c    == lastRedone(t, next)
  IN  IF id = None \/ next = None \/ ~own THEN [t |-> t, id |-> id]
      ELSE mapLeft(um, c.t, c.id, ins)

lastOfKey(t, type, key) ==
  LET ids == Chain(t, MapKey(type, key)) IN IF ids = <<>> THEN None ELSE Last(ids)

\* Where the copy of a map value goes; not ok if another's value came later.
mapNeighbour(um, t, item, type, ins) ==
  LET m    == mapLeft(um, t, item.id, ins)
      last == lastOfKey(t, type, item.parentSub)
      lost == rightOf(t, item) # None /\
              (m.id = None \/ rightOf(m.t, getStruct(m.t, m.id)) # None)
      left == IF rightOf(t, item) = None THEN last ELSE m.id
  IN  IF lost THEN [t |-> m.t, left |-> None, ok |-> FALSE]
      ELSE [t |-> m.t, ok |-> TRUE,
            left |-> IF left # None /\ getStruct(m.t, left).parent # type
                     THEN lastOfKey(m.t, type, item.parentSub) ELSE left]

\* A copy of item in type, between left and right.
insertCopy(t, item, type, left, right) ==
  LET copy  == [newItem(t, type, left, right, item.content) EXCEPT
                  !.parentSub = item.parentSub, !.keep = TRUE]
      above == IF type[1] = "root" THEN t ELSE keepItem(t, type[2], TRUE)
  IN  [t |-> integrate(SetStruct(above, [getStruct(above, item.id) EXCEPT
                                           !.redone = copy.id]), copy, left, right),
       id |-> copy.id]

\* id None: it could not be redone.
RECURSIVE redoItem(_, _, _, _, _)
redoItem(um, t, id, redoItems, ins) ==
  LET item   == getStruct(t, id)
      again  == getItemCleanStart(t, item.redone)
      pid    == item.parent[2]
      parent == getStruct(t, pid)
      inItem == item.parent[1] = "item"
      dead   == inItem /\ parent.deleted
      up     == IF dead /\ parent.redone = None
                THEN IF pid \in redoItems THEN redoItem(um, t, pid, redoItems, ins)
                     ELSE [t |-> t, id |-> None]
                ELSE [t |-> t, id |-> pid]
      above  == IF dead THEN lastRedone(up.t, pid) ELSE [t |-> t, id |-> pid]
      type   == IF inItem THEN TypeOf(above.id) ELSE item.parent
      ids    == Chain(above.t, Key(item))
      at     == ChainIndex(ids, id)
      left   == firstTraced(above.t, Reverse(SubSeq(ids, 1, at - 1)), type)
      right  == firstTraced(left.t, SubSeq(ids, at, Len(ids)), type)
      place  == mapNeighbour(um, above.t, item, type, ins)
  IN  IF item.redone # None THEN [t |-> again.t, id |-> again.found]
      ELSE IF dead /\ up.id = None THEN [t |-> up.t, id |-> None]
      ELSE IF inItem /\ (above.id = None \/ ~IsType(getStruct(above.t, above.id)))
      THEN [t |-> above.t, id |-> None]
      ELSE IF item.parentSub = None
      THEN insertCopy(right.t, item, type, left.id, right.id)
      ELSE IF ~place.ok THEN [t |-> place.t, id |-> None]
      ELSE insertCopy(place.t, item, type, place.left, None)

-----------------------------------------------------------------------------
(* Undo and redo *)

\* What the entry inserted, or what now stands for it.
insertedItems(um, t, entry) ==
  LET cut == iterateDeletedStructs(t, entry.ins)
      step(a, id) ==
        LET f == followRedone(a.t, id, [id |-> None, diff |-> 0])
            c == IF f.diff > 0
                 THEN getItemCleanStart(a.t, <<f.id[1], f.id[2] + f.diff>>)
                 ELSE [t |-> a.t, found |-> f.id]
            s == getStruct(c.t, c.found)
        IN  [t |-> c.t,
             ids |-> IF c.found # None /\ ~s.deleted /\ scopeContains(um, c.t, c.found)
                     THEN Append(a.ids, c.found) ELSE a.ids]
  IN  Fold(step, [t |-> cut, ids |-> <<>>], itemsIn(cut, entry.ins))

\* What the entry deleted but had not inserted itself.
deletedItems(um, t, entry) ==
  LET cut == iterateDeletedStructs(t, entry.del)
  IN  [t |-> cut,
       ids |-> SelectSeq(itemsIn(cut, entry.del), LAMBDA id :
                 scopeContains(um, cut, id) /\ ~isDeleted(entry.ins, id))]

applyEntry(um, t, entry) ==
  LET i == insertedItems(um, t, entry)
      d == deletedItems(um, i.t, entry)
      redo(a, id) == LET r == redoItem(um, a.t, id, ToSet(d.ids), entry.ins)
                     IN  [t |-> r.t, done |-> a.done \/ r.id # None]
      r == Fold(redo, [t |-> d.t, done |-> FALSE], d.ids)
  IN  [t |-> Fold(deleteItemStruct, r.t, Reverse(i.ids)),
       done |-> r.done \/ i.ids # <<>>]

\* Entries are taken off the stack until one changes something.
RECURSIVE popStackItem(_, _, _)
popStackItem(um, t, stack) ==
  LET entry  == Last(um[stack])
      popped == [um EXCEPT ![stack] = Front(@)]
      a      == applyEntry(popped, t, entry)
  IN  IF um[stack] = <<>> THEN [um |-> um, t |-> t]
      ELSE IF a.done THEN [um |-> popped, t |-> a.t]
      ELSE popStackItem(popped, a.t, stack)
=============================================================================
