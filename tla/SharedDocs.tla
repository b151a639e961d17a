----------------------------- MODULE SharedDocs -----------------------------
(***************************************************************************)
(* Replicas of a document as the library runs them: edits of lists, maps   *)
(* and rich text in transactions, the updates they emit in V1 or V2,       *)
(* answers to state vectors, a relay that keeps one merged update and      *)
(* never builds a document, undo, snapshots, and replicas that lose their  *)
(* document and come back with the same client id.                         *)
(*                                                                         *)
(*   sc        the scenario: see Scenarios                                 *)
(*   docs[r]   the document of replica r                                   *)
(*   net       the updates ever sent, [v |-> version, b |-> bytes], with   *)
(*             v = 0 for a frame of the sync protocol: one may arrive      *)
(*             late, twice, out of order or never                          *)
(*   blob      the relay's merged update in V1, <<>> before the first      *)
(*   stored    the updates the relay was given                             *)
(*   um        the undo manager of the replica sc.undoer                   *)
(*   claims    what the shown values were before each entry of um's stacks *)
(*             and what they have to be now (a history, for the properties)*)
(*   mirror[r] what an observer of r shows that only applies the events    *)
(*   snap      a snapshot of replica sc.snapper and what was shown then    *)
(*   seen[r]   what r was given (a history)                                *)
(*   all       the document of an archive that gets every change at once   *)
(*             (a history)                                                 *)
(*   view      what SharedList is about, read off all and docs             *)
(*   ops[r]    the number of edits so far, pulls that of answers           *)
(***************************************************************************)
EXTENDS Sessions

CONSTANTS Replicas,   \* client ids
          Scenarios

\* The operations of a document and of an update as the machine uses them: the
\* operators of Sessions and of the modules below it, to which MCSharedDocs
\* binds them.  They are parameters because TLC expands what an action or an
\* invariant calls into a tree, and theirs have no bound in practice.
CONSTANTS Edited(_, _, _, _, _, _), Popped(_, _, _, _), Updated(_, _, _, _),
          Loaded(_, _), Archived(_, _), BaseUpdate(_), AnswerTo(_, _, _),
          Holds(_), Waits(_), Shows(_), Everything(_), EditsFor(_, _),
          Converted(_, _), Merged(_, _), Difference(_, _), Pieces(_, _),
          StateVectorIn(_), MetaOf(_), Obfuscated(_), SnapshotOf(_),
          ShownAt(_, _), RestoredAt(_, _), Covers(_, _), PositionBytes(_, _, _, _),
          PlaceOf(_, _)

\* A scenario: base, what all replicas start with; may, the kinds of edits each
\* one makes, and edits, how many; observed, the replicas that have listeners
\* (the others send nothing by themselves); hears, those that are delivered
\* updates; gc, those that collect; pulls, the bound on answers to state vectors;
\* undoer and snapper, replicas or 0; relayed, whether updates go through the
\* relay only; restarts, the replicas that may lose their document; cuts, whether
\* edits of text may cut a rune that is a pair of UTF-16 units.
Kinds == {"insert", "mixed", "push", "remove", "set", "unset", "child", "write", "format",
          "erase", "embed"}

ASSUME ScenariosAssumption ==
  /\ Replicas \subseteq Nat \ {0}
  /\ \A s \in Scenarios :
       /\ s.base \in {"nothing", "values", "text"}
       /\ s.may \in [Replicas -> SUBSET Kinds]
       /\ s.edits \in [Replicas -> Nat] /\ s.pulls \in Nat
       /\ s.observed \subseteq Replicas /\ s.hears \subseteq Replicas /\ s.gc \subseteq Replicas
       /\ s.restarts \subseteq Replicas
       /\ {s.undoer, s.snapper} \subseteq Replicas \cup {0}
       /\ s.relayed \in BOOLEAN /\ s.cuts \in BOOLEAN

VARIABLES sc, docs, net, blob, stored, um, claims, mirror, snap, seen, all, view, ops, pulls

vars == <<sc, docs, net, blob, stored, um, claims, mirror, snap, seen, all, view, ops, pulls>>

\* Replicas differ in the format they send.
Version(r) == IF r = 5 THEN 1 ELSE 2

NoUndo == newUndoManager({})

ManagerOf(r) == IF r = sc.undoer THEN um ELSE NoUndo

NewSession(r) == newDoc(r, r \in sc.gc, r \in sc.observed)

Nothing == [ids |-> {}, ds |-> {}]

-----------------------------------------------------------------------------
(* The end of a transaction of r, with all that listens *)

\* How the claims move with the stacks of um, which become those of m.
Recorded(r, m, mode) ==
  LET was  == Undoable(docs[r])
      push(s, stack) == IF Len(m[stack]) > Len(s) THEN Append(s, was) ELSE s
  IN  IF r # sc.undoer THEN claims
      ELSE IF mode = "remote"
      THEN [undo |-> Map(claims.undo, LAMBDA x : None),
            redo |-> Map(claims.redo, LAMBDA x : None), now |-> None]
      ELSE IF mode = "none" \/ m[mode] = um[mode]
      THEN [undo |-> push(claims.undo, "undo"),
            redo |-> SubSeq(claims.redo, 1, Len(m.redo)), now |-> None]
      ELSE LET n     == Len(m[mode])
               other == IF mode = "undo" THEN "redo" ELSE "undo"
           IN  [claims EXCEPT ![mode] = SubSeq(@, 1, n), ![other] = push(@, other),
                              !.now = claims[mode][n + 1]]

ViewOf(archive, ds) ==
  [order |-> UnitsOf(archive, List), gone |-> Dead(archive),
   known |-> [r \in Replicas |-> ToSet(UnitsOf(ds[r], List))],
   dead |-> [r \in Replicas |-> Dead(ds[r])],
   shown |-> [r \in Replicas |-> VisibleUnits(ds[r], List)]]

\* A transaction of r ended with f.  mode is "none" for an edit, "undo", "redo"
\* or "remote"; given is what r was given from outside.
Commit(r, f, mode, given) ==
  /\ docs' = [docs EXCEPT ![r] = f.doc]
  /\ all' = Archived(all, f.doc)
  /\ view' = ViewOf(all', docs')
  /\ net' = net \cup {sent(Version(r), b) : b \in ToSet(f.updates)}
  /\ um' = IF r = sc.undoer THEN f.um ELSE um
  /\ claims' = Recorded(r, f.um, mode)
  /\ mirror' = [mirror EXCEPT ![r] = Fold(Hear, @, f.events)]
  /\ seen' = [seen EXCEPT ![r] =
                [ids |-> @.ids \cup given.ids \cup
                         (IF mode # "remote" THEN DocIds(f.doc) ELSE {}),
                 ds |-> @.ds \cup given.ds \cup
                        (IF mode # "remote" \/ sc.base = "text" THEN DocDeleted(f.doc)
                         ELSE {})]]

-----------------------------------------------------------------------------
(* Edits *)

\* A document that was lost is loaded before it is edited again.
Ready(r) ==
  \A m \in net : {id \in Holds(m).ids : id[1] = r} \subseteq DocIds(docs[r])

Counted(r) ==
  /\ ops[r] < sc.edits[r]
  /\ ops' = [ops EXCEPT ![r] = @ + 1]
  /\ UNCHANGED <<sc, blob, stored, snap, pulls>>

EditsOf(r) == {e \in EditsFor(docs[r], sc.cuts) : e[1] \in sc.may[r]}

Edit(r) ==
  /\ Counted(r)
  /\ Ready(r)
  /\ \E e \in EditsOf(r), soon \in BOOLEAN :
       /\ soon => r = sc.undoer /\ um.last /\ um.undo # <<>>
       /\ \E f \in {Edited(docs[r], e, 10 * ops[r], ManagerOf(r), soon, Version(r))} :
            Commit(r, f, "none", Nothing)

Pop(r, stack) ==
  /\ r = sc.undoer /\ um[stack] # <<>>
  /\ Counted(r)
  /\ \E f \in {Popped(docs[r], um, stack, Version(r))} : Commit(r, f, stack, Nothing)

Undo(r) == Pop(r, "undo")
Redo(r) == Pop(r, "redo")

-----------------------------------------------------------------------------
(* Deliveries *)

\* The transaction of ApplyUpdate and its cleanup.
Take(r, m) ==
  \E f \in {Updated(docs[r], m, ManagerOf(r), Version(r))} : Commit(r, f, "remote", Holds(m))

Receive(r) ==
  /\ ~sc.relayed /\ r \in sc.hears
  /\ \E m \in net : Take(r, m)
  /\ UNCHANGED <<sc, blob, stored, snap, ops, pulls>>

\* q answers the state vector of r, with an encoder that has been used before.
Answer(q, r) ==
  /\ q # r /\ pulls < sc.pulls
  /\ pulls' = pulls + 1
  /\ net' = net \cup {AnswerTo(docs[q], docs[r], Version(r))}
  /\ UNCHANGED <<sc, docs, blob, stored, um, claims, mirror, snap, seen, all, view, ops>>

\* The relay merges an update into what it has.
Store ==
  /\ sc.relayed
  /\ \E m \in net \ stored :
       /\ stored' = stored \cup {m}
       /\ blob' = IF blob = <<>> THEN Converted(1, m) ELSE Merged(blob, Converted(1, m))
  /\ UNCHANGED <<sc, docs, net, um, claims, mirror, snap, seen, all, view, ops, pulls>>

\* r asks the relay for what it lacks.
Fetch(r) ==
  /\ sc.relayed /\ r \in sc.hears /\ blob # <<>>
  /\ Take(r, [v |-> 1, b |-> Difference(blob, docs[r])])
  /\ UNCHANGED <<sc, blob, stored, snap, ops, pulls>>

-----------------------------------------------------------------------------
\* r loses its document and opens a new one with its old client id.
Restart(r) ==
  /\ r \in sc.restarts /\ docs[r].client = r /\ docs[r].st # <<>>
  /\ docs' = [docs EXCEPT ![r] = NewSession(r)]
  /\ view' = ViewOf(all, docs')
  /\ mirror' = [mirror EXCEPT ![r] = Shows(NewSession(r))]
  /\ seen' = [seen EXCEPT ![r] = Nothing]
  /\ UNCHANGED <<sc, net, blob, stored, um, claims, snap, all, ops, pulls>>

TakeSnapshot ==
  /\ sc.snapper # 0 /\ snap = None
  /\ LET doc == docs[sc.snapper]
     IN  snap' = <<SnapshotOf(doc), Everything(doc), DocIds(doc), DocDeleted(doc)>>
  /\ UNCHANGED <<sc, docs, net, blob, stored, um, claims, mirror, seen, all, view, ops, pulls>>

Init ==
  /\ sc \in Scenarios
  /\ \E base \in {BaseUpdate(sc.base)} :
       /\ docs = [r \in Replicas |-> Loaded(NewSession(r), base)]
       /\ seen = [r \in Replicas |-> Holds(base)]
       /\ all = Loaded(newDoc(2, FALSE, FALSE), base)
  /\ view = ViewOf(all, docs)
  /\ mirror = [r \in Replicas |-> Shows(docs[r])]
  /\ um = IF sc.undoer = 0 THEN NoUndo ELSE newUndoManager({List, Pairs})
  /\ claims = [undo |-> <<>>, redo |-> <<>>, now |-> None]
  /\ net = {} /\ blob = <<>> /\ stored = {} /\ snap = None
  /\ ops = [r \in Replicas |-> 0] /\ pulls = 0

Next ==
  \/ \E r \in Replicas : \/ Edit(r) \/ Undo(r) \/ Redo(r)
                         \/ Receive(r) \/ Fetch(r) \/ Restart(r)
                         \/ \E q \in Replicas : Answer(q, r)
  \/ Store
  \/ TakeSnapshot

Spec == Init /\ [][Next]_vars

-----------------------------------------------------------------------------
(* Properties *)

\* The struct lists of a document have no gaps and no overlaps, every item is
\* once in the chain of its parent and key and nothing else is in a chain, and
\* an item is as long as its content.  Splits, merges, collection and the
\* growth of a tail all rewrite both at once.
WellFormed ==
  \A r \in Replicas :
    LET doc == docs[r]
    IN  /\ \A c \in DOMAIN doc.st :
             /\ Clock(doc.st[c][1]) = 0
             /\ \A i \in DOMAIN doc.st[c] :
                  LET s == doc.st[c][i] IN
                  /\ Client(s) = c /\ s.length > 0
                  /\ i > 1 => Clock(s) = End(doc.st[c][i - 1])
                  /\ IsItem(s) => /\ contentLength(s.content) = s.length
                                  /\ Cardinality({k \in DOMAIN Chain(doc, Key(s)) :
                                                    doc.ch[Key(s)][k] = s.id}) = 1
        /\ \A key \in DOMAIN doc.ch : \A id \in ToSet(doc.ch[key]) :
             LET s == getStruct(doc, id) IN s.kind = "item" /\ s.id = id /\ Key(s) = key

\* Whatever a replica was given is in its document or waits in its pending
\* update, and every deletion has happened or waits: no decoder, merge of
\* pending updates or retry drops a part of an update.  And structs and
\* deletions wait only while what they need has not arrived.
NothingLost ==
  \A r \in Replicas :
    LET doc     == docs[r]
        missing == doc.pending.missing
    IN  /\ seen[r].ids = DocIds(doc) \cup Waits(doc).ids
        /\ seen[r].ds \subseteq DocDeleted(doc) \cup Waits(doc).ds
        /\ Waits(doc).ids # {} =>
             \E c \in DOMAIN missing : getState(doc.st, c) <= missing[c]
        /\ Waits(doc).ds \cap DocIds(doc) = {}

\* Replicas that were given the same show the same and wait for the same, and
\* one that has all there is shows what the archive shows, which never cleans
\* up marks.
Convergence ==
  /\ \A r, q \in Replicas : seen[r] = seen[q] =>
       /\ Everything(docs[r]) = Everything(docs[q])
       /\ Waits(docs[r]) = Waits(docs[q])
  /\ \A r \in Replicas :
       DocIds(docs[r]) = DocIds(all) /\ DocDeleted(docs[r]) = DocDeleted(all) =>
         Everything(docs[r]) = Everything(all)

\* An observer that only applies the events it hears shows what its document
\* holds: deltas, changes of lists and changes of keys are complete.
MirrorShows == \A r \in sc.observed : mirror[r] = Shows(docs[r])

\* A whole state written by the fast V1 encoder, or by a V2 encoder that comes
\* from the pool after it wrote another document, is to the byte what the
\* general encoder writes, and loads into an equal document.
EncodersAgree ==
  [][pulls' # pulls => \A r, q \in Replicas : r # q =>
       LET doc  == docs[r]
           used == fullStateEncoderV2(docs[q].st, newUpdateEncoderV2)
           one  == EncodeStateAsUpdate(1, doc, <<>>, used)
           two  == EncodeStateAsUpdate(2, doc, <<>>, used)
       IN  /\ doc.pending.update = <<>> /\ doc.pendingDS = <<>> =>
                /\ one = toBytes(1, writeStateAsUpdate(doc.st, <<>>))
                /\ two = toBytes(2, writeStateAsUpdate(doc.st, <<>>))
           /\ \A m \in {[v |-> 1, b |-> one], [v |-> 2, b |-> two]} :
                Everything(loaded(newDoc(3, FALSE, FALSE), m))
                  = Everything(doc)]_vars

\* The relay's one update holds exactly what it was given, its state vector is
\* what a document would have integrated, and a difference is what the asker
\* lacks, in one update or cut into pieces (no piece is sent for deletions
\* alone); obfuscation and conversion keep ids and deletions.  Checked whenever
\* the relay has merged an update.
RelayAgrees ==
  [][blob' # blob =>
       LET u       == Holds([v |-> 1, b |-> blob'])
           sv      == StateVectorIn(blob')
           meta    == MetaOf(blob')
           of(c)   == {id[2] : id \in {x \in u.ids : x[1] = c}}
           next(c) == Min((0 .. Cardinality(u.ids)) \ of(c))
       IN  /\ u.ids = UNION {Holds(m).ids : m \in stored'}
           /\ u.ds = UNION {Holds(m).ds : m \in stored'}
           /\ \A c \in {id[1] : id \in u.ids} :
                /\ StateOf(sv, c) = next(c)
                /\ meta.from[c] = Min(of(c)) /\ meta.to[c] = Max(of(c)) + 1
           /\ \A r \in Replicas :
                LET has    == getStateVector(docs[r].st)
                    lacks  == {id \in u.ids : id[2] >= StateOf(has, id[1])}
                    pieces == {Holds([v |-> 1, b |-> b]) : b \in Pieces(blob', docs[r])}
                IN  /\ Holds([v |-> 1, b |-> Difference(blob', docs[r])])
                         = [ids |-> lacks, ds |-> u.ds]
                    /\ UNION {p.ids : p \in pieces} = lacks
                    /\ UNION {p.ds : p \in pieces} = IF lacks = {} THEN {} ELSE u.ds
           /\ Holds([v |-> 1, b |-> Obfuscated(blob')]) = u
           /\ Holds([v |-> 2, b |-> Converted(2, [v |-> 1, b |-> blob'])]) = u]_vars

\* Undo and redo bring back what was shown, as long as nobody else had a part.
UndoRestores == claims.now # None => Undoable(docs[sc.undoer]) = claims.now

\* With gc off a snapshot shows for ever what was shown when it was taken, read
\* in place or restored into a new document; and it contains an update exactly
\* if the document did.
SnapshotHolds ==
  snap # None =>
    LET doc == docs[sc.snapper]
    IN  /\ ShownAt(doc, snap[1]) = snap[2][2]
        /\ Everything(RestoredAt(doc, snap[1])) = snap[2]
        /\ \A m \in net : Covers(snap[1], m)
                          <=> Holds(m).ids \subseteq snap[3] /\ Holds(m).ds \subseteq snap[4]

\* A position made on one replica, sent and resolved on any that has the
\* element is the place of that element there, or of the gap it left, however
\* much was edited; on the same replica it is the index it was made from.
PositionsAgree ==
  \A r, q \in Replicas, type \in {List, Text} :
    LET units == UnitsOf(docs[q], type)
        shown == ToSet(VisibleUnits(docs[q], type))
        place(id) == CHOOSE k \in DOMAIN units : units[k] = id
        before(k) == Cardinality({j \in 1 .. k - 1 : units[j] \in shown})
    IN  \A index \in 0 .. typeLength(docs[r], type), assoc \in {0, -1} :
          LET p   == PlaceOf(docs[q], PositionBytes(docs[r], type, index, assoc))
              abs == p.at
          IN  /\ r = q => abs = [type |-> type, index |-> index]
              /\ p.item \in ToSet(units) /\ getStruct(docs[q], p.item).redone = None =>
                   abs = [type |-> type,
                          index |-> before(place(p.item)) +
                            (IF assoc < 0 /\ p.item \in shown THEN 1 ELSE 0)]
              /\ p.item # None /\ p.item \notin ToSet(units) => abs = NoPosition

\* An edit shows its user what was asked for: the walk to an index, the marks
\* put around formatted and inserted text and the cleanup of marks that became
\* useless leave every other element and its attributes as they were.
EditsAsAsked ==
  [][\A r \in Replicas : ops'[r] # ops[r] /\ sc.undoer # r =>
       \E e \in EditsOf(r) :
         Shows(docs'[r]) = Asked(Shows(docs[r]), e, 10 * ops[r])]_vars

-----------------------------------------------------------------------------
Promise ==
  INSTANCE SharedList WITH
    order <- view.order, gone <- view.gone, known <- view.known,
    dead <- view.dead, shown <- view.shown,
    undoers <- {sc.undoer}

\* The replicas implement SharedList: over all deliveries, splits, merges,
\* collection, tail growth, undo and restarts the elements of the root list
\* have one order that every replica shows a part of.
RefinesSharedList == Promise!Spec
=============================================================================
