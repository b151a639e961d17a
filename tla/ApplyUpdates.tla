---------------------------- MODULE ApplyUpdates ----------------------------
(***************************************************************************)
(* Applying an update to a document, and the update a transaction emits    *)
(* (crdt/merge.go, delete_set.go, transaction.go).                         *)
(***************************************************************************)
EXTENDS FullState

-----------------------------------------------------------------------------
(* integrateStructs.  m is the state of its loop: t the transaction, refs   *)
(* the structs of each client still to be taken, head the one at hand,      *)
(* stack those that wait for head, rest those put aside with missing, the   *)
(* clocks they wait for.  Of the clients the highest goes first.            *)

\* updateMissingSv: the lowest clock asked for counts.
updateMissing(missing, c, clock) ==
  IF c \in DOMAIN missing /\ missing[c] <= clock THEN missing
  ELSE (c :> clock) @@ missing

\* Each client of the stack leaves with all it still has.
addStackToRest(m, stack) ==
  LET aside(x, s) ==
        LET c   == Client(s)
            had == IF c \in DOMAIN x.rest THEN x.rest[c] ELSE <<>>
        IN  [x EXCEPT !.rest = (c :> had \o <<s>> \o x.refs[c]) @@ @,
                      !.refs[c] = <<>>]
  IN  [Fold(aside, m, stack) EXCEPT !.stack = <<>>]

\* The next struct: from the stack, from the client at hand, or from the
\* highest client that has one.
nextHead(m) ==
  LET left == {c \in DOMAIN m.refs : m.refs[c] # <<>>}
      c    == IF m.cur \in left THEN m.cur ELSE Max(left)
  IN  IF m.stack # <<>>
      THEN [m EXCEPT !.head = Last(m.stack), !.stack = Front(@)]
      ELSE IF left = {} THEN [m EXCEPT !.head = NoStruct]
      ELSE [m EXCEPT !.cur = c, !.head = Head(m.refs[c]), !.refs[c] = Tail(@)]

integrateHead(m) ==
  LET s       == m.head
      c       == Client(s)
      offset  == getState(m.t.st, c) - Clock(s)
      waitFor == IF IsItem(s) THEN missingClientOf(m.t, s) ELSE 0
      stack   == Append(m.stack, s)
      here    == waitFor \in DOMAIN m.refs /\ m.refs[waitFor] # <<>>
  IN  IF s.kind = "skip" THEN nextHead(m)
      ELSE IF offset < 0
      THEN nextHead(addStackToRest(
             [m EXCEPT !.missing = updateMissing(@, c, Clock(s) - 1)], stack))
      ELSE IF waitFor # 0 /\ here
      THEN [m EXCEPT !.stack = stack, !.head = Head(m.refs[waitFor]),
                     !.refs[waitFor] = Tail(@)]
      ELSE IF waitFor # 0
      THEN nextHead(addStackToRest(
             [m EXCEPT !.missing = updateMissing(@, waitFor,
                                                 getState(m.t.st, waitFor))], stack))
      ELSE nextHead([m EXCEPT !.t = integrateStruct(@, s, offset)])

RECURSIVE integrateLoop(_)
integrateLoop(m) == IF m.head = NoStruct THEN m ELSE integrateLoop(integrateHead(m))

\* t and what could not be integrated, as pending structs in V1.
integrateStructs(t, structs) ==
  LET clients == {Client(s) : s \in ToSet(structs)}
      m       == integrateLoop(nextHead(
                   [t |-> t, head |-> NoStruct, stack |-> <<>>, cur |-> 0,
                    rest |-> <<>>, missing |-> <<>>,
                    refs |-> [c \in clients |->
                                SelectSeq(structs, LAMBDA s : Client(s) = c)]]))
  IN  [t |-> m.t,
       pending |-> IF m.rest = <<>> THEN NoPending
                   ELSE [missing |-> m.missing,
                         update |-> toBytesV1(writeClientsStructs(m.rest, <<>>)
                                              \o Rest(<<0>>))]]

-----------------------------------------------------------------------------
(* Deletions *)

\* Items are cut at both ends of the range.
applyDeleteRange(t, c, clock, clockEnd) ==
  LET first == getStruct(t, <<c, clock>>)
      cut1  == IF isDeletedStruct(first) THEN t
               ELSE getItemCleanStart(t, <<c, clock>>).t
      last  == getStruct(cut1, <<c, clockEnd>>)
      cut2  == IF last = NoStruct \/ isDeletedStruct(last) THEN cut1
               ELSE getItemCleanStart(cut1, <<c, clockEnd>>).t
      range == SelectSeq(StructsBetween(cut2, c, clock, clockEnd),
                         LAMBDA s : ~isDeletedStruct(s))
  IN  Fold(LAMBDA u, s : deleteItemStruct(u, s.id), cut2, range)

\* A range the store does not reach waits, or the part of it beyond the state.
applyRange(acc, c, r) ==
  LET state == getState(acc.t.st, c)
      end   == r[1] + r[2]
  IN  IF r[1] >= state
      THEN [acc EXCEPT !.unapplied = addToDeleteSet(@, c, r[1], r[2])]
      ELSE [t |-> applyDeleteRange(acc.t, c, r[1], end),
            unapplied |-> IF state < end
                          THEN addToDeleteSet(acc.unapplied, c, state, end - state)
                          ELSE acc.unapplied]

readAndApplyDeleteSet(t, ds) ==
  LET block(acc, b) == Fold(LAMBDA a, r : applyRange(a, b[1], r), acc, b[2])
      acc           == Fold(block, [t |-> t, unapplied |-> <<>>], ds)
  IN  [t |-> acc.t,
       rest |-> IF acc.unapplied = <<>> THEN <<>>
                ELSE toBytesV2(Rest(<<0>>) \o writeDeleteSet(acc.unapplied))]

-----------------------------------------------------------------------------
(* readUpdateV2 *)

FaultRetry(t, pending) == FALSE

\* Something that was waited for has arrived.
retryNow(t, pending) ==
  \E c \in DOMAIN pending.missing : pending.missing[c] < getState(t.st, c)

addPending(old, new) ==
  IF old = NoPending THEN new
  ELSE IF new = NoPending THEN old
  ELSE [missing |-> [c \in DOMAIN old.missing \cup DOMAIN new.missing |->
                       Min({p.missing[c] : p \in {q \in {old, new} :
                                                    c \in DOMAIN q.missing}})],
        update |-> mergeUpdates(1, <<old.update, new.update>>).update]

\* The waiting deletions are tried again with every update.
applyDeletions(t, ds) ==
  LET now  == readAndApplyDeleteSet(t, ds)
      old  == readAndApplyDeleteSet(now.t, decodeUpdate(2, t.pendingDS).ds)
      both == SelectSeq(<<now.rest, old.rest>>, LAMBDA u : u # <<>>)
  IN  IF t.pendingDS = <<>> THEN [now.t EXCEPT !.pendingDS = now.rest]
      ELSE [old.t EXCEPT !.pendingDS =
              IF both = <<>> THEN <<>>
              ELSE IF Len(both) = 1 THEN both[1] ELSE mergeUpdates(2, both).update]

\* All in one transaction: a retry of what waited is nested in it.
RECURSIVE readUpdate(_, _, _)
readUpdate(t, version, bytes) ==
  LET s     == readStructs(newDecoder(version, bytes), FALSE)
      ds    == readDeleteSet(s.d)
      r     == integrateStructs(t, s.v)
      retry == retryNow(r.t, t.pending)
      kept  == [r.t EXCEPT !.pending = addPending(@, r.pending)]
      done  == applyDeletions(kept, ds.v)
  IN  IF ~NoError(s.d) THEN t
      ELSE IF ~NoError(ds.d) THEN kept
      ELSE IF retry
      THEN readUpdate([done EXCEPT !.pending = NoPending], 1, done.pending.update)
      ELSE done

-----------------------------------------------------------------------------
(* The end of a transaction *)

\* writeUpdateMessageFromTransaction, after the cleanup; <<>> is no message.
updateMessage(t, version) ==
  IF t.ds = <<>> /\ getStateVector(t.st) = t.before THEN <<>>
  ELSE toBytes(version, writeClientsStructs(t.st, t.before) \o writeDeleteSet(t.ds))

ApplyUpdate(doc, version, bytes) ==
  cleanupTransaction(readUpdate(beginTransact(doc, FALSE, FALSE), version, bytes))
=============================================================================
