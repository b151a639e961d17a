------------------------------- MODULE Cleanup ------------------------------
(***************************************************************************)
(* The end of a transaction with everything that listens to it             *)
(* (crdt/transaction.go cleanupTransactions): type observers, the cleanup  *)
(* of remote text, the undo manager, and the update that goes out.         *)
(* Observers may open transactions; their bodies run at once, on the       *)
(* document as it is, and each is cleaned up after those before it.        *)
(***************************************************************************)
EXTENDS RelativePositions

TextRef == 2

IsText(t, type) ==
  IF type[1] = "root" THEN type[2] = <<116>>
  ELSE getStruct(t, type[2]).content[2] = TextRef

\* A transaction on the document as others have left it.
OnDoc(t, doc) == [t EXCEPT !.st = doc.st, !.ch = doc.ch, !.client = doc.client]

nested(doc) == beginTransact(doc, TRUE, FALSE)

\* A new mark, or the deletion of one, may have made others useless.
needsFullCleanup(t, type) ==
  LET mark(s) == IsItem(s) /\ s.parent = type /\ isFormat(s)
  IN  \/ \E c \in DOMAIN t.st : \E s \in ToSet(t.st[c]) :
           mark(s) /\ ~s.deleted /\ addsStruct(t, s.id)
      \/ \E id \in ToSet(itemsIn(t, t.ds)) : mark(getStruct(t, id))

\* YText.callObserver, in a transaction u, for the remote transaction t.
remoteCleanup(t, u, type) ==
  IF needsFullCleanup(t, type) THEN cleanupYTextFormatting(u, type)
  ELSE Fold(LAMBDA v, id : cleanupContextlessFormattingGap(v, type, id), u,
            SelectSeq(itemsIn(t, t.ds), LAMBDA id : getStruct(t, id).parent = type))

\* The observers of the types t has changed: what they read and the
\* transactions they open.  a.doc is the document they leave.  A type that was
\* deleted is passed over.
callObserver(t, watched, a, type) ==
  LET gone == type[1] = "item" /\ getStruct(a.doc, type[2]).deleted
      e == GetDelta(t, nested(a.doc), type)
      b == IF ~watched THEN a
           ELSE IF IsText(t, type)
           THEN [doc |-> DocOf(e.u), opened |-> Append(a.opened, e.u),
                 events |-> Append(a.events, <<type, e.delta, <<>>>>)]
           ELSE [a EXCEPT !.events =
                   Append(@, <<type, GetChanges(t, type), GetKeys(t, type)>>)]
      c == remoteCleanup(t, nested(b.doc), type)
  IN  IF gone THEN a
      ELSE IF IsText(t, type) /\ ~t.local
      THEN [b EXCEPT !.doc = DocOf(c), !.opened = Append(@, c)] ELSE b

callObservers(t, watched) ==
  LET types == {x[1] : x \in t.changed}
  IN  Fold(LAMBDA a, type : callObserver(t, watched, a, type),
           [doc |-> DocOf(t), opened |-> <<>>, events |-> <<>>], SetToSeq(types))

\* a: doc, queue (transactions to clean up), um and mode and soon as in
\* UndoManager, watched (the types have observers), version (of its updates),
\* and the updates emitted and the events heard so far.
cleanupNext(a) ==
  LET raw   == OnDoc(Head(a.queue), a.doc)
      t     == [raw EXCEPT !.ds = sortAndMergeDeleteSet(@)]
      o     == callObservers(t, a.watched)
      takes == a.um.scope # {} /\ isCaptured(a.um, t)
      clear == takes /\ a.mode = "none" /\ a.um.redo # <<>>
      v     == IF clear THEN clearRedo(a.um, nested(o.doc)) ELSE nested(o.doc)
      now   == OnDoc(t, v)
      done  == cleanupTransaction(IF takes THEN keepAll(a.um, now, t.ds, TRUE) ELSE now)
      m     == IF a.doc.observed THEN updateMessage(done, a.version) ELSE <<>>
  IN  [a EXCEPT !.doc = DocOf(done),
                !.queue = Tail(@) \o o.opened \o (IF clear THEN <<v>> ELSE <<>>),
                !.um = IF takes THEN capture(@, captureEntry(t), a.mode, a.soon) ELSE @,
                !.updates = IF m = <<>> THEN @ ELSE Append(@, m),
                !.events = @ \o o.events]

RECURSIVE cleanupTransactions(_)
cleanupTransactions(a) ==
  IF a.queue = <<>> THEN a ELSE cleanupTransactions(cleanupNext(a))

\* A finished transaction of a document with these listeners.
finishTransact(t, um, mode, soon, watched, version) ==
  cleanupTransactions([doc |-> DocOf(t), queue |-> <<t>>, um |-> um, mode |-> mode,
                       soon |-> soon, watched |-> watched, version |-> version,
                       updates |-> <<>>, events |-> <<>>])
=============================================================================
