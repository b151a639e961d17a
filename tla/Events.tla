------------------------------- MODULE Events -------------------------------
(***************************************************************************)
(* What observers are told, and reading a text as a delta: crdt/y_event.go,*)
(* the events and ToDelta of y_text.go, snapshots of snapshot.go.          *)
(*                                                                         *)
(* An event belongs to a finished transaction t whose cleanup has not yet  *)
(* begun.  A delta is a sequence of <<"insert", elements, attributes>>,    *)
(* <<"delete", n>> and <<"retain", n, attributes>>.                        *)
(***************************************************************************)
EXTENDS RichText

FaultAddsStruct(t, id) == id[2] > StateOf(t.before, id[1])

addsStruct(t, id) == id[2] >= StateOf(t.before, id[1])

deletesStruct(t, id) == isDeleted(t.ds, id)

changedSubs(t, type) == {x[2] : x \in {y \in t.changed : y[1] = type}}

-----------------------------------------------------------------------------
(* Lists: YEvent.GetChanges.  All items count, whether countable or not.    *)

\* An operation grows the last one if that is of its kind.
packOp(delta, op) ==
  LET last == Last(delta)
  IN  IF delta = <<>> \/ last[1] # op[1] THEN Append(delta, op)
      ELSE Append(Front(delta), IF op[1] = "insert" THEN <<op[1], last[2] \o op[2], <<>>>>
                                ELSE [last EXCEPT ![2] = @ + op[2]])

GetChanges(t, type) ==
  LET step(delta, s) ==
        IF s.deleted
        THEN IF deletesStruct(t, s.id) /\ ~addsStruct(t, s.id)
             THEN packOp(delta, <<"delete", s.length>>) ELSE delta
        ELSE IF addsStruct(t, s.id)
        THEN packOp(delta, <<"insert", contentValues(s.content), <<>>>>)
        ELSE packOp(delta, <<"retain", s.length, <<>>>>)
      delta == Fold(step, <<>>, ItemsOf(t, type))
  IN  IF None \notin changedSubs(t, type) THEN <<>>
      ELSE IF delta # <<>> /\ Last(delta)[1] = "retain" THEN Front(delta) ELSE delta

\* Maps: YEvent.GetKeys.  A key whose value came and went is not told.
GetKeys(t, type) ==
  LET current(k) == Last(Chain(t, MapKey(type, k)))
      olds(k)    == SelectSeq(Chain(t, MapKey(type, k)), LAMBDA id : ~addsStruct(t, id))
      lost(k)    == olds(k) # <<>> /\ deletesStruct(t, Last(olds(k)))
      gone(k)    == deletesStruct(t, current(k))
      action(k)  == IF ~addsStruct(t, current(k)) THEN IF gone(k) THEN "delete" ELSE "none"
                    ELSE IF gone(k) THEN IF lost(k) THEN "delete" ELSE "none"
                    ELSE IF lost(k) THEN "update" ELSE "add"
      keys       == {k \in changedSubs(t, type) \ {None} : action(k) # "none"}
  IN  [k \in keys |-> action(k)]

-----------------------------------------------------------------------------
(* Texts: YTextEvent.GetDelta, for the transaction t, run in a transaction  *)
(* u of its own, as it deletes the new marks it finds useless.              *)

addOp(a) ==
  LET op == CASE a.action = "delete" -> <<"delete", a.n>>
              [] a.action = "insert" -> <<"insert", a.text, a.current>>
              [] a.action = "retain" -> <<"retain", a.n, a.attributes>>
              [] OTHER -> <<>>
  IN  [a EXCEPT !.delta = IF a.action = "none" THEN @ ELSE Append(@, op),
                !.action = "none", !.n = 0, !.text = <<>>]

\* a, in the midst of an operation of this kind.
during(a, kind) == IF a.action = kind THEN a ELSE [addOp(a) EXCEPT !.action = kind]

textStep(t, a, s) ==
  LET new == addsStruct(t, s.id)
      del == deletesStruct(t, s.id)
      ins == during(a, "insert")
  IN  IF new /\ del THEN a
      ELSE IF new /\ s.content[1] = 4 THEN [ins EXCEPT !.text = @ \o contentValues(s.content)]
      ELSE IF new THEN addOp([addOp(a) EXCEPT !.action = "insert",
                                              !.text = contentValues(s.content)])
      ELSE IF del THEN [during(a, "delete") EXCEPT !.n = @ + s.length]
      ELSE IF ~s.deleted THEN [during(a, "retain") EXCEPT !.n = @ + s.length]
      ELSE a

\* The end of a run of retained elements whose attributes change here.
breakRetain(a) == IF a.action = "retain" THEN addOp(a) ELSE a

formatStep(t, a, s) ==
  LET key   == FormatKey(s)
      value == FormatValue(s)
      cur   == attrGet(a.current, key)
      new   == addsStruct(t, s.id)
      del   == deletesStruct(t, s.id)
      old   == [a EXCEPT !.old = attrSet(@, key, value)]
      drop  == [a EXCEPT !.u = deleteItemStruct(@, s.id)]
      attr  == attrGet(a.attributes, key)
      b == CASE new /\ del -> a
             [] new /\ ~del /\ cur # value ->
                  [breakRetain(a) EXCEPT !.attributes =
                     IF value = attrGet(a.old, key) THEN attrDelete(@, key)
                     ELSE attrSet(@, key, value)]
             [] new /\ ~del /\ cur = value -> IF value = Null THEN a ELSE drop
             [] ~new /\ del ->
                  IF cur = value THEN old
                  ELSE [breakRetain(old) EXCEPT !.attributes = attrSet(@, key, cur)]
             [] ~new /\ ~del /\ s.deleted -> a
             [] ~new /\ ~del /\ ~s.deleted ->
                  IF ~attrHas(a.attributes, key) THEN old
                  ELSE IF attr # value
                  THEN [breakRetain(old) EXCEPT !.attributes =
                          IF value = Null THEN attrDelete(@, key)
                          ELSE attrSet(@, key, value)]
                  ELSE IF attr # Null
                  THEN [old EXCEPT !.u = deleteItemStruct(@, s.id)] ELSE old
      c == IF b.action = "insert" THEN addOp(b) ELSE b
  IN  IF getStruct(b.u, s.id).deleted THEN b
      ELSE [c EXCEPT !.current = updateCurrentAttributes(@, s)]

RECURSIVE trimRetain(_)
trimRetain(delta) ==
  IF delta # <<>> /\ Last(delta)[1] = "retain" /\ Last(delta)[3] = <<>>
  THEN trimRetain(Front(delta)) ELSE delta

GetDelta(t, u, type) ==
  LET step(a, id) == LET s == getStruct(a.u, id)
                     IN  IF isFormat(s) THEN formatStep(t, a, s)
                         ELSE IF s.content[1] \in {4, 5, 7} THEN textStep(t, a, s) ELSE a
      a == addOp(Fold(step, [u |-> u, delta |-> <<>>, action |-> "none", n |-> 0,
                             text |-> <<>>, attributes |-> <<>>, current |-> <<>>,
                             old |-> <<>>], Chain(u, ListKey(type))))
  IN  [u |-> a.u, delta |-> trimRetain(a.delta)]

-----------------------------------------------------------------------------
(* Reading *)

\* The elements of a text with the attributes that hold there.
TextOf(t, type) ==
  LET step(a, s) ==
        IF s.deleted THEN a
        ELSE IF isFormat(s) THEN [a EXCEPT !.attrs = updateCurrentAttributes(@, s)]
        ELSE [a EXCEPT !.out = @ \o Map(contentValues(s.content),
                                        LAMBDA v : <<v, ToSet(a.attrs)>>)]
  IN  Fold(step, [attrs |-> <<>>, out |-> <<>>], ItemsOf(t, type)).out

isVisible(s, snap) == StateOf(snap.sv, Client(s)) > Clock(s) /\ ~isDeleted(snap.ds, s.id)

NewSnapshotByDoc(doc) ==
  [ds |-> newDeleteSetFromStructStore(doc.st, SetToSeq(DOMAIN doc.st)),
   sv |-> getStateVector(doc.st)]

iterateDeletedStructs(t, ds) ==
  LET cut(u, id)    == IF getStruct(u, id) = NoStruct THEN u
                       ELSE getItemCleanStart(u, id).t
      range(c, u, r) == cut(cut(u, <<c, r[1]>>), <<c, r[1] + r[2]>>)
      block(u, b)   == Fold(LAMBDA v, r : range(b[1], v, r), u, b[2])
  IN  Fold(block, t, ds)

FaultSplitSnapshot(t, snap) == iterateDeletedStructs(t, snap.ds)

\* Items are cut where the snapshot sees one part and not the other.
splitSnapshotAffectedStructs(t, snap) ==
  LET cut(u, c) == IF snap.sv[c] < getState(u.st, c)
                   THEN getItemCleanStart(u, <<c, snap.sv[c]>>).t ELSE u
  IN  iterateDeletedStructs(Fold(cut, t, SetToSeq(DOMAIN snap.sv)), snap.ds)

\* ToDelta(snapshot, nil, nil) as elements: one attribute set per element.
ToDelta(t, type, snap) ==
  LET u == splitSnapshotAffectedStructs(t, snap)
      step(a, s) ==
        IF ~isVisible(s, snap) THEN a
        ELSE IF isFormat(s) THEN [a EXCEPT !.attrs = updateCurrentAttributes(@, s)]
        ELSE [a EXCEPT !.out = @ \o Map(contentValues(s.content),
                                        LAMBDA v : <<v, ToSet(a.attrs)>>)]
  IN  Fold(step, [attrs |-> <<>>, out |-> <<>>], ItemsOf(u, type)).out

\* Structs below the snapshot's state, the last one cut there, and its deletions.
CreateDocFromSnapshot(doc, snap, new) ==
  LET clients == {c \in DOMAIN snap.sv : snap.sv[c] # 0 /\ c \in DOMAIN doc.st}
      cut(u, c) == IF snap.sv[c] < getState(u.st, c)
                   THEN getItemCleanStart(u, <<c, snap.sv[c]>>).t ELSE u
      t       == Fold(cut, beginTransact(doc, TRUE, FALSE), SetToSeq(clients))
      prefix(c) == SelectSeq(t.st[c], LAMBDA s : Clock(s) < snap.sv[c])
      block(c) == Rest(WriteVarUint(Len(prefix(c)))) \o <<Call("client", c)>>
                  \o Rest(WriteVarUint(0))
                  \o Concat(Map(prefix(c), LAMBDA s : writeStruct(s, 0)))
      calls   == Rest(WriteVarUint(Cardinality(clients)))
                 \o Concat(Map(Descending(clients), block)) \o writeDeleteSet(snap.ds)
  IN  DocOf(ApplyUpdate(new, 1, toBytesV1(calls)))
=============================================================================
