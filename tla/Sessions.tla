------------------------------ MODULE Sessions ------------------------------
(***************************************************************************)
(* A session with a document: the edits a user makes, whole transactions   *)
(* from begin to cleanup, what the user is shown, what an observer makes   *)
(* of the events it hears, and what an update holds.  No state: documents, *)
(* updates and undo managers are values here, and SharedDocs is the        *)
(* machine that moves them.                                                *)
(***************************************************************************)
EXTENDS SyncProtocol

List == <<"root", <<114>>>>
Pairs == <<"root", <<109>>>>
Text == <<"root", <<116>>>>
K == <<107>>
Bold == <<98>>
True == <<120>>

-----------------------------------------------------------------------------
(* What is shown *)

\* Values of a text by UTF-16 units, in which deltas count: a rune outside the
\* basic plane is two units, and a half is shown as the replacement character.
Lone == <<119, <<65533>>>>
Units16(values) ==
  Concat(Map(values, LAMBDA v : IF v[1] = 119 /\ Len(v[2]) = 1 /\ v[2][1] >= 65536
                                THEN <<Lone, Lone>> ELSE <<v>>))

\* Runs of values with one set of attributes.
WithMarks(values, marks) == Map(Units16(values), LAMBDA v : <<v, marks>>)

Shown(doc) ==
  [list |-> typeListToArray(doc, List),
   text |-> Concat(Map(TextOf(doc, Text), LAMBDA e : WithMarks(<<e[1]>>, e[2]))),
   keys |-> {k \in {K} : typeMapHas(doc, Pairs, k)}]

\* One operation of a delta on a sequence of elements; i is the place.
Applied(a, op) ==
  LET n == op[2]
      marked(e) == LET keys == {p[1] : p \in ToSet(op[3])}
                   IN  <<e[1], {p \in e[2] : p[1] \notin keys}
                               \cup {p \in ToSet(op[3]) : p[2] # Null}>>
  IN  CASE op[1] = "insert" ->
             [i |-> a.i + Len(op[2]),
              s |-> SubSeq(a.s, 1, a.i) \o op[2] \o SubSeq(a.s, a.i + 1, Len(a.s))]
        [] op[1] = "delete" ->
             [a EXCEPT !.s = SubSeq(@, 1, a.i) \o SubSeq(@, a.i + n + 1, Len(@))]
        [] op[1] = "retain" ->
             [i |-> a.i + n,
              s |-> [k \in DOMAIN a.s |-> IF op[3] # <<>> /\ k \in a.i + 1 .. a.i + n
                                          THEN marked(a.s[k]) ELSE a.s[k]]]

Patched(s, delta) == Fold(Applied, [s |-> s, i |-> 0], delta).s

WithAttributes(delta) ==
  Map(delta, LAMBDA op : IF op[1] # "insert" THEN op
                         ELSE [op EXCEPT ![2] = WithMarks(@, ToSet(op[3]))])

\* The observers apply the events they hear.
Hear(m, event) ==
  CASE event[1] = List -> [m EXCEPT !.list = Patched(@, event[2])]
    [] event[1] = Text -> [m EXCEPT !.text = Patched(@, WithAttributes(event[2]))]
    [] event[1] = Pairs ->
         [m EXCEPT !.keys = (@ \cup {k \in DOMAIN event[3] : event[3][k] = "add"})
                            \ {k \in DOMAIN event[3] : event[3][k] = "delete"}]
    [] OTHER -> m

-----------------------------------------------------------------------------
(* What updates hold, for the histories *)

IdsOf(structs) ==
  UNION {{<<Client(s), k>> : k \in Clock(s) .. End(s) - 1} : s \in ToSet(structs)}

\* Messages are V1 updates in frames of the sync protocol (v = 0), or bare
\* updates of a version v.
sent(version, update) ==
  IF version = 1 THEN [v |-> 0, b |-> EncodeUpdate(update)]
  ELSE [v |-> version, b |-> update]

opened(m) == IF m.v = 0 THEN [v |-> 1, b |-> InspectMessage(m.b).body] ELSE m

holds(m) ==
  LET u == decodeUpdate(opened(m).v, opened(m).b)
  IN  IF u.ok THEN [ids |-> IdsOf(SelectSeq(u.structs, LAMBDA s : s.kind # "skip")),
                    ds |-> DSIds(u.ds)]
      ELSE [ids |-> {}, ds |-> {}]

DocIds(doc) == IdsOf(Concat(Map(SetToSeq(DOMAIN doc.st), LAMBDA c : doc.st[c])))

DocDeleted(doc) == DSIds(newDeleteSetFromStructStore(doc.st, SetToSeq(DOMAIN doc.st)))

\* What waits in the pending buffers.
waits(doc) ==
  [ids |-> IF doc.pending.update = <<>> THEN {} ELSE IdsOf(SelectSeq(
             decodeUpdate(1, doc.pending.update).structs, LAMBDA s : s.kind # "skip")),
   ds  |-> IF doc.pendingDS = <<>> THEN {} ELSE DSIds(decodeUpdate(2, doc.pendingDS).ds)]

\* The units of the list of a type in order, and those a user sees.
ChainIds(doc, type, Takes(_)) ==
  Concat(Map(SelectSeq(ItemsOf(doc, type), Takes), LAMBDA s :
               [k \in 1 .. s.length |-> <<Client(s), Clock(s) + k - 1>>]))

UnitsOf(doc, type) == ChainIds(doc, type, LAMBDA s : TRUE)
VisibleUnits(doc, type) == ChainIds(doc, type, Visible)

Dead(doc) == {id \in ToSet(UnitsOf(doc, List)) : id \notin ToSet(VisibleUnits(doc, List))}

\* What undo is about.
Undoable(doc) ==
  [list |-> typeListToArray(doc, List),
   value |-> IF typeMapHas(doc, Pairs, K) THEN typeMapGet(doc, Pairs, K) ELSE None]

everything(doc) == <<Shown(doc).list, TextOf(doc, Text), Undoable(doc).value>>

-----------------------------------------------------------------------------
(* Edits *)

V(n) == <<8, <<<<125, n>>>>>>

\* An object and an array, which share an item, and bytes, which do not.
Mixed == <<<<8, <<<<118, <<<<K, <<121>>>>>>>>>>>>, <<8, <<<<117, <<True>>>>>>>>, <<3, <<7, 0>>>>>>

\* Two values in one call, values of several kinds, one value at the end, and two neighbours that go.
ListEdits(doc) ==
  LET n == typeLength(doc, List)
  IN  {<<"insert", n \div 2>>, <<"mixed", n \div 2>>, <<"push">>}
      \cup {<<"remove", i, Min({2, n - i})>> : i \in {n \div 2} \cap 0 .. n - 1}

\* A plain value or a new array under a key, and values in that array.
MapEdits(doc) ==
  {<<"set", V(1)>>, <<"set", <<7, 0, <<>>>>>>}
  \cup (IF typeMapHas(doc, Pairs, K) THEN {<<"unset">>} ELSE {})
  \cup (IF typeMapHas(doc, Pairs, K) /\ typeMapGet(doc, Pairs, K)[1] = 7
        THEN {<<"child">>} ELSE {})

\* The indexes inside a pair of UTF-16 units.
InsidePairs(doc) ==
  LET units == Concat(Map(TextOf(doc, Text), LAMBDA e :
                 IF Len(Units16(<<e[1]>>)) = 2 THEN <<1, 2>> ELSE <<0>>))
  IN  {i \in DOMAIN units : units[i] = 1}

TextEdits(doc, cuts) ==
  LET n      == typeLength(doc, Text)
      places == IF cuts THEN 0 .. n ELSE 0 .. n \ InsidePairs(doc)
  IN  {<<"write", i, a>> : i \in places \cap {1, n}, a \in {None, <<<<Bold, True>>>>}}
      \cup {<<"format", i, 2, v>> : i \in {j \in places \cap {0, 2} : j + 2 \in places},
                                    v \in {True, Null}}
      \cup {<<"erase", i, 2>> : i \in {j \in places \cap {1} : j + 2 \in places}}
      \cup {<<"embed", i>> : i \in places \cap {2}}

\* cuts: whether a rune that is a pair of UTF-16 units may be cut.
editsFor(doc, cuts) == ListEdits(doc) \cup MapEdits(doc) \cup TextEdits(doc, cuts)

\* n distinguishes the values of one replica.
applyEdit(t, e, n) ==
  CASE e[1] = "insert" -> typeListInsertGenerics(t, List, e[2], <<V(n), V(n + 1)>>)
    [] e[1] = "mixed"  -> typeListInsertGenerics(t, List, e[2], Mixed)
    [] e[1] = "push"   -> typeListPushGenerics(t, List, <<V(n)>>)
    [] e[1] = "remove" -> typeListDelete(t, List, e[2], e[3])
    [] e[1] = "set"    -> typeMapSet(t, Pairs, K, e[2])
    [] e[1] = "unset"  -> typeMapDelete(t, Pairs, K)
    [] e[1] = "child"  ->
         typeListPushGenerics(t, TypeOf(Last(Chain(t, MapKey(Pairs, K)))), <<V(n)>>)
    [] e[1] = "write"  -> Insert(t, Text, e[2], <<120>>, e[3])
    [] e[1] = "format" -> Format(t, Text, e[2], e[3], <<<<Bold, e[4]>>>>)
    [] e[1] = "erase"  -> DeleteText(t, Text, e[2], e[3])
    [] e[1] = "embed"  -> InsertEmbed(t, Text, e[2], <<119, <<105>>>>, <<>>)

-----------------------------------------------------------------------------
(* Transactions from begin to cleanup.  The result has doc, um, and the     *)
(* updates and events it gave rise to.                                      *)

\* An edit, by a replica that sends updates of this version.
edited(doc, e, n, um, soon, version) ==
  finishTransact(applyEdit(beginTransact(doc, TRUE, TRUE), e, n), um, "none", soon,
                 doc.observed, version)

\* Undo or redo: the top of the stack that has an effect.
popped(doc, um, stack, version) ==
  LET p == popStackItem(um, beginTransact(doc, TRUE, FALSE), stack)
  IN  finishTransact(p.t, p.um, stack, FALSE, doc.observed, version)

\* An update arrives, in a frame for the handler of the document or by itself.
updated(doc, m, um, version) ==
  LET u == IF m.v = 0 THEN [v |-> 1, b |-> HandleMessage(doc, m.b).update] ELSE m
  IN  finishTransact(readUpdate(beginTransact(doc, FALSE, FALSE), u.v, u.b), um, "none",
                     FALSE, doc.observed, version)

loaded(doc, m) == DocOf(ApplyUpdate(doc, m.v, m.b))

stateOf(doc) == [v |-> 1, b |-> toBytesV1(writeStateAsUpdate(doc.st, <<>>))]

\* The archive takes what it does not have.
archived(archive, doc) ==
  IF DocIds(doc) \subseteq DocIds(archive) /\ DocDeleted(doc) \subseteq DocDeleted(archive)
  THEN archive
  ELSE loaded(archive, [v |-> 1, b |-> toBytesV1(writeStateAsUpdate(doc.st,
                                                    getStateVector(archive.st)))])

\* What everyone starts with: nothing, some values, or some text.
baseUpdate(base) ==
  LET t == beginTransact(newDoc(1, TRUE, FALSE), TRUE, TRUE)
      u == CASE base = "values" -> typeListInsertGenerics(t, List, 0, <<V(1), V(2)>>)
             [] base = "text" -> Insert(t, Text, 0, <<97, 98, 128512>>, None)
             [] OTHER -> t
  IN  stateOf(u)

\* The answer to the state vector of asker: SyncStep1 and SyncStep2 for V1, and
\* for V2 an encoder that has been used for another document before.
answer(doc, asker, version) ==
  LET pooled == fullStateEncoderV2(asker.st, newUpdateEncoderV2)
      sv     == IF asker.st = <<>> THEN <<>> ELSE EncodeStateVector(asker)
  IN  IF version = 1
      THEN [v |-> 0, b |-> HandleMessage(doc, EncodeSyncStep1(asker)).reply]
      ELSE [v |-> version, b |-> EncodeStateAsUpdate(version, doc, sv, pooled)]

\* A position sent as bytes, and where it is in another document.
positionBytes(doc, type, index, assoc) ==
  EncodeRelativePosition(newRelativePositionFromTypeIndex(doc, type, index, assoc))

placeOf(doc, bytes) ==
  LET p == DecodeRelativePosition(bytes)
  IN  [item |-> p.item, at |-> CreateAbsolutePositionFromRelativePosition(doc, p)]

-----------------------------------------------------------------------------
(* What an edit shows its user, said without items and marks *)

Spliced(s, i, n, new) == SubSeq(s, 1, i) \o new \o SubSeq(s, i + n + 1, Len(s))

\* m is Shown(doc); n the number that distinguishes values.
Asked(m, e, n) ==
  LET len    == Len(m.list)
      value(k) == <<125, k>>
      bold   == <<Bold, True>>
      char   == <<119, <<120>>>>
      at(i)  == IF i = 0 THEN {} ELSE m.text[i][2]
      mark(x, v) == <<x[1], IF v = Null THEN x[2] \ {bold} ELSE x[2] \cup {bold}>>
  IN  CASE e[1] = "insert" -> [m EXCEPT !.list = Spliced(@, e[2], 0, <<value(n), value(n + 1)>>)]
        [] e[1] = "mixed"  ->
             [m EXCEPT !.list = Spliced(@, e[2], 0,
                Concat(Map(Mixed, LAMBDA x : contentValues(x))))]
        [] e[1] = "push"   -> [m EXCEPT !.list = Append(@, value(n))]
        [] e[1] = "remove" -> [m EXCEPT !.list = Spliced(@, e[2], e[3], <<>>)]
        [] e[1] = "set"    -> [m EXCEPT !.keys = {K}]
        [] e[1] = "unset"  -> [m EXCEPT !.keys = {}]
        [] e[1] = "child"  -> m
        [] e[1] = "write"  ->
             [m EXCEPT !.text = Spliced(@, e[2], 0,
                <<<<char, IF e[3] = None THEN at(e[2]) ELSE ToSet(e[3])>>>>)]
        [] e[1] = "format" ->
             [m EXCEPT !.text = [k \in DOMAIN @ |-> IF k \in e[2] + 1 .. e[2] + e[3]
                                                    THEN mark(@[k], e[4]) ELSE @[k]]]
        [] e[1] = "erase"  -> [m EXCEPT !.text = Spliced(@, e[2], e[3], <<>>)]
        [] e[1] = "embed"  ->
             [m EXCEPT !.text = Spliced(@, e[2], 0, <<<<<<5, <<119, <<105>>>>>>, {}>>>>)]
=============================================================================
