---------------------------- MODULE MCSharedDocs ----------------------------
(***************************************************************************)
(* Instances of SharedDocs: replicas 5, which sends V1, and 300, which     *)
(* sends V2 and whose id takes two bytes.                                  *)
(***************************************************************************)
EXTENDS SharedDocs

MCEdited(doc, e, n, m, soon, v) == LET x == edited(doc, e, n, m, soon, v) IN x
MCPopped(doc, m, stack, v)      == LET x == popped(doc, m, stack, v) IN x
MCUpdated(doc, u, m, v)         == LET x == updated(doc, u, m, v) IN x
MCLoaded(doc, u)                == LET x == loaded(doc, u) IN x
MCArchived(archive, doc)        == LET x == archived(archive, doc) IN x
MCBaseUpdate(base)              == LET x == baseUpdate(base) IN x
MCAnswerTo(doc, asker, v)       == LET x == answer(doc, asker, v) IN x
MCHolds(u)                      == LET x == holds(u) IN x
MCWaits(doc)                    == LET x == waits(doc) IN x
MCShows(doc)                    == LET x == Shown(doc) IN x
MCEverything(doc)               == LET x == everything(doc) IN x
MCEditsFor(doc, cuts)           == LET x == editsFor(doc, cuts) IN x
MCConverted(v, u)               == LET x == opened(u) IN convertTo(v, x.v, x.b)
MCMerged(a, b)                  == LET x == mergeUpdates(1, <<a, b>>) IN x.update
MCDifference(b, doc)            == LET x == diffUpdate(1, b, EncodeStateVector(doc)) IN x.update
MCPieces(b, doc)                == LET x == diffUpdates(b, EncodeStateVector(doc), 6, 4)
                                   IN  ToSet(x.updates)
MCStateVectorIn(b)              == LET x == encodeStateVectorFromUpdate(1, b)
                                   IN  decodeStateVector(x.sv).sv
MCMetaOf(b)                     == LET x == parseUpdateMeta(1, b) IN x
MCObfuscated(b)                 == LET x == obfuscateUpdate(1, b) IN x.update
MCSnapshotOf(doc)               == LET x == NewSnapshotByDoc(doc) IN encodeSnapshot(1, x)
MCShownAt(doc, b)               == LET x == decodeSnapshot(1, b).snap
                                   IN  ToDelta(beginTransact(doc, TRUE, FALSE), Text, x)
MCRestoredAt(doc, b)            == LET x == decodeSnapshot(1, b).snap
                                   IN  CreateDocFromSnapshot(doc, x, newDoc(3, FALSE, FALSE))
MCCovers(b, u)                == LET x == decodeSnapshot(1, b).snap
                                       m == opened(u)
                                   IN  snapshotContainsUpdate(x, decodeUpdate(m.v, m.b))
MCPositionBytes(doc, type, i, a) == LET x == positionBytes(doc, type, i, a) IN x
MCPlaceOf(doc, b)               == LET x == placeOf(doc, b) IN x

Two == {5, 300}

Scenario(base, may5, n5, may300, n300) ==
  [base |-> base, may |-> 5 :> may5 @@ 300 :> may300, edits |-> 5 :> n5 @@ 300 :> n300,
   observed |-> Two, hears |-> Two, gc |-> Two, pulls |-> 0, undoer |-> 0,
   snapper |-> 0, relayed |-> FALSE, restarts |-> {}, cuts |-> FALSE]

\* 300 has no listeners: its transactions are lean, and only answers carry its
\* edits to 5.
Lists ==
  [Scenario("nothing", {"insert", "remove"}, 1, {"insert", "push", "remove"}, 2) EXCEPT
     !.observed = {5}, !.pulls = 2]

Maps == Scenario("nothing", {"set", "unset", "child"}, 2, {"set"}, 1)

\* Snapshots of 5, which keeps what was deleted.
Texts ==
  [Scenario("text", {"write", "format", "embed"}, 1, {"erase"}, 1) EXCEPT
     !.gc = {300}, !.snapper = 5, !.pulls = 1]

\* A snapshot between two edits that end in one item.
Snapshots ==
  [Scenario("text", {"write"}, 2, {}, 0) EXCEPT !.gc = {}, !.hears = {}, !.snapper = 5]

\* 300 cleans up marks of 5.
Marks ==
  [Scenario("text", {"write", "format"}, 2, {"write"}, 1) EXCEPT
     !.hears = {300}]

\* Undo alone, and with the deletions of another.
Undos ==
  [Scenario("values", {"remove", "set"}, 4, {}, 0) EXCEPT
     !.undoer = 5, !.hears = {}]

SharedUndos ==
  [Scenario("values", {"insert", "remove"}, 3, {"remove"}, 1) EXCEPT
     !.undoer = 5, !.hears = {5}]

\* The relay is given an edit of 300 and an answer of 300 that may contain it.
Relays ==
  [Scenario("nothing", {"mixed"}, 1, {"push"}, 2) EXCEPT
     !.relayed = TRUE, !.hears = {5}, !.pulls = 1]

Restarts ==
  [Scenario("nothing", {"mixed", "remove"}, 1, {"insert"}, 1) EXCEPT
     !.relayed = TRUE, !.restarts = Two]

AllScenarios == {Lists, Maps, Texts, Snapshots, Marks, Undos, SharedUndos, Relays, Restarts}

\* Edits of text that cut a rune in two.
Cuts ==
  [Scenario("text", {"format", "embed"}, 2, {}, 0) EXCEPT !.cuts = TRUE]

CutScenarios == {Cuts}
=============================================================================
