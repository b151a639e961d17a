-------------------------------- MODULE Yata --------------------------------
(***************************************************************************)
(* The document store of one replica and the pure algorithms on it:        *)
(* resolving and integrating a struct (crdt/item.go), deleting and garbage *)
(* collecting (item.go, content_types.go), the dependency stack of         *)
(* integrateStructs and the pending buffers of readUpdateV2 (merge.go,     *)
(* delete_set.go), and the update and state messages a document writes.    *)
(*                                                                         *)
(* Structs have length 1: an item run of length n is n structs, each with  *)
(* the one before it as origin, which is what splitItem produces.          *)
(*                                                                         *)
(* A document is a record                                                  *)
(*   st       : integrated ids -> struct            (structStore.clients)  *)
(*   list     : <<parent, sub>> -> sequence of ids  (start/left/right, and *)
(*              for sub # "" the chain whose last member is map[sub])      *)
(*   deleted  : ids whose struct reports isDeleted                         *)
(*   pending  : structs of pendingStructs.update                           *)
(*   missing  : client -> clock, pendingStructs.missing                    *)
(*   pendingDs: ids of pendingDeleteSet                                    *)
(***************************************************************************)
EXTENDS Placement, FiniteSets, SequencesExt, TLC

CONSTANTS Keys,     \* map keys (parentSub); "" is the list itself
          Root      \* the root type of the document

ASSUME YataAssumption ==
  /\ IsFiniteSet(Clients)
  /\ "" \notin Keys

EmptyDoc == [st |-> <<>>, list |-> <<>>, deleted |-> {},
             pending |-> {}, missing |-> <<>>, pendingDs |-> {}]

Item(id, origin, rightOrigin, parent, sub, content) ==
  [id |-> id, kind |-> "item", origin |-> origin, rightOrigin |-> rightOrigin,
   parent |-> parent, sub |-> sub, content |-> content]

GC(id) == [Item(id, Nil, Nil, Nil, "", "deleted") EXCEPT !.kind = "gc"]

At(doc, key) == IF key \in DOMAIN doc.list THEN doc.list[key] ELSE <<>>

\* The next clock of a client: one past its last struct.
getState(doc, c) ==
  LET clocks == {id[2] : id \in {i \in DOMAIN doc.st : i[1] = c}}
  IN  IF clocks = {} THEN 0 ELSE Max(clocks) + 1

getStateVector(doc) == [c \in Clients |-> getState(doc, c)]

isItem(doc, id) == id \in DOMAIN doc.st /\ doc.st[id].kind = "item"

-----------------------------------------------------------------------------
(* Dependencies of a struct. *)

\* Definitions named Fault... are deliberately wrong variants of the definition
\* that follows them: each stands for a plausible slip in that code, to see
\* that a property notices it.

FaultMissingClientLeft(doc, s) ==
  LET waits == SelectSeq(<<s.origin, s.parent>>,
                 LAMBDA x : /\ x \notin {Nil, Root}
                            /\ x[1] # s.id[1]
                            /\ x[2] >= getState(doc, x[1]))
  IN  IF waits = <<>> THEN Nil ELSE waits[1][1]

\* The client whose structs s waits for, or Nil.  Only references to other
\* clients are looked at: the caller has established that s is the next
\* struct of its own client.
missingClient(doc, s) ==
  LET waits == SelectSeq(<<s.origin, s.rightOrigin, s.parent>>,
                 LAMBDA x : /\ x \notin {Nil, Root}
                            /\ x[1] # s.id[1]
                            /\ x[2] >= getState(doc, x[1]))
  IN  IF waits = <<>> THEN Nil ELSE waits[1][1]

\* The second half of missingClient: left, right and parent of a struct whose
\* dependencies are integrated.  A reference to a collected struct leaves the
\* struct without parent, and it is integrated as GC.
resolve(doc, s) ==
  LET left   == IF isItem(doc, s.origin) THEN s.origin ELSE Nil
      right  == IF isItem(doc, s.rightOrigin) THEN s.rightOrigin ELSE Nil
      parent == IF left # s.origin \/ right # s.rightOrigin THEN Nil
                ELSE s.parent
      sibling == IF right # Nil THEN right ELSE left
  IN  IF s.kind = "gc" THEN s
      ELSE IF parent = Nil /\ sibling # Nil
      THEN [s EXCEPT !.origin = left, !.rightOrigin = right,
                     !.parent = doc.st[sibling].parent,
                     !.sub    = doc.st[sibling].sub]
      ELSE [s EXCEPT !.origin = left, !.rightOrigin = right,
                     !.parent = IF \/ parent = Root
                                   \/ /\ isItem(doc, parent)
                                      /\ doc.st[parent].content = "type"
                                THEN parent ELSE Nil]

-----------------------------------------------------------------------------
(* Deleting and collecting. *)

FaultChildrenListOnly(doc, id) == Range(At(doc, <<id, "">>))

\* What the cascade of contentType.deleteContent visits: the list, and the
\* current value of each key.
children(doc, id) ==
  Range(At(doc, <<id, "">>)) \cup
  {Last(At(doc, <<id, k>>)) : k \in {k \in Keys : At(doc, <<id, k>>) # <<>>}}

RECURSIVE deleteItemStruct(_, _)
deleteItemStruct(doc, id) ==
  IF id \in doc.deleted THEN doc
  ELSE FoldSet(LAMBDA child, d : deleteItemStruct(d, child),
               [doc EXCEPT !.deleted = @ \cup {id}], children(doc, id))

\* gcItem: the children of a collected type become GC structs and its lists
\* are dropped; the item itself becomes GC when its own parent is collected
\* and loses its content otherwise.
RECURSIVE gcItem(_, _, _)
gcItem(doc, id, parentGCd) ==
  IF id \notin doc.deleted \/ doc.st[id].kind = "gc" THEN doc
  ELSE LET own  == {k \in DOMAIN doc.list : k[1] = id}
           kids == UNION {Range(doc.list[k]) : k \in own}
           d1   == FoldSet(LAMBDA child, d : gcItem(d, child, TRUE), doc, kids)
       IN  [d1 EXCEPT !.list = [k \in DOMAIN @ \ own |-> @[k]],
                      !.st[id] = IF parentGCd THEN GC(id)
                                 ELSE [@ EXCEPT !.content = "deleted"]]

FaultTryGcUnlinks(doc, ds) ==
  LET d == FoldSet(LAMBDA id, d : gcItem(d, id, FALSE), doc, ds)
  IN  [d EXCEPT !.list = [k \in DOMAIN @ |-> SelectSeq(@[k], LAMBDA x : x \notin ds)]]

tryGcDeleteSet(doc, ds) ==
  FoldSet(LAMBDA id, d : gcItem(d, id, FALSE), doc, ds)

-----------------------------------------------------------------------------
(* Integration. *)

addStruct(doc, s) ==
  [doc EXCEPT !.st = (s.id :> s) @@ @,
              !.deleted = IF s.content = "deleted" THEN @ \cup {s.id} ELSE @]

\* integrateWithScratch of a resolved struct.
integrate(doc, s) ==
  IF s.parent = Nil THEN addStruct(doc, GC(s.id))
  ELSE
    LET key  == <<s.parent, s.sub>>
        L    == At(doc, key)
        at   == insertAfter(doc.st, s, L)
        last == at = Len(L)
        d1   == [doc EXCEPT !.list = (key :> place(doc.st, s, L)) @@ @]
        d2   == IF s.sub # "" /\ last /\ at > 0
                THEN deleteItemStruct(d1, L[at]) ELSE d1
        d3   == addStruct(d2, s)
    IN  IF s.parent \in doc.deleted \/ (s.sub # "" /\ ~last)
        THEN deleteItemStruct(d3, s.id) ELSE d3

-----------------------------------------------------------------------------
(* Applying an update. *)

updateMissingSv(missing, c, clock) ==
  IF c \in DOMAIN missing /\ missing[c] <= clock THEN missing
  ELSE (c :> clock) @@ missing

\* How far the store is ahead of s in the clocks of its client; negative when
\* a struct of the same client is missing.
offset(doc, s) == getState(doc, s.id[1]) - s.id[2]

\* addStackToRestSS: the stacked structs, and everything behind them in their
\* clients' refs, go to the rest.
addStackToRestSS(m) ==
  LET cs == {s.id[1] : s \in Range(m.stack)}
  IN  [m EXCEPT !.rest  = @ \cup Range(m.stack)
                            \cup UNION {Range(m.refs[c]) : c \in cs},
                !.refs  = [c \in Clients |-> IF c \in cs THEN <<>> ELSE @[c]],
                !.stack = <<>>]

\* The loop of integrateStructs.  A struct blocked on another client goes on
\* the stack and that client's next struct is tried; with nothing on the
\* stack the next struct of the highest client is taken.
RECURSIVE mergeLoop(_)
mergeLoop(m) ==
  LET live == {c \in Clients : m.refs[c] # <<>>}
      Take(n, c) == [n EXCEPT !.stack = Append(@, Head(n.refs[c])),
                              !.refs[c] = Tail(@)]
      head == Last(m.stack)
      popped == [m EXCEPT !.stack = Front(@)]
      ahead == offset(m.doc, head)
      dep  == missingClient(m.doc, head)
  IN  CASE m.stack = <<>> /\ live = {} -> m
        [] m.stack = <<>> /\ live # {} -> mergeLoop(Take(m, Max(live)))
        [] m.stack # <<>> /\ ahead < 0 ->
             mergeLoop(addStackToRestSS([m EXCEPT !.missing =
               updateMissingSv(@, head.id[1], head.id[2] - 1)]))
        [] m.stack # <<>> /\ ahead >= 0 /\ dep # Nil ->
             IF m.refs[dep] = <<>>
             THEN mergeLoop(addStackToRestSS([m EXCEPT !.missing =
                    updateMissingSv(@, dep, getState(m.doc, dep))]))
             ELSE mergeLoop(Take(m, dep))
        [] m.stack # <<>> /\ ahead > 0 /\ dep = Nil ->
             mergeLoop(popped)
        [] OTHER ->
             mergeLoop([popped EXCEPT !.doc = integrate(@, resolve(@, head))])

integrateStructs(doc, structs) ==
  mergeLoop([doc |-> doc, stack |-> <<>>, rest |-> {}, missing |-> <<>>,
             refs |-> [c \in Clients |->
               SetToSortSeq({s \in structs : s.id[1] = c},
                            LAMBDA a, b : a.id[2] < b.id[2])]])

\* mergeUpdates on the structs: of two structs with one id the first update's
\* is written.
mergeStructs(first, second) ==
  first \cup {s \in second : \A t \in first : t.id # s.id}

\* readAndApplyDeleteSet: ids that are not integrated yet are handed back.
applyDeleteSet(doc, ds) ==
  FoldSet(LAMBDA id, d : deleteItemStruct(d, id), doc, ds \cap DOMAIN doc.st)

FaultRetryTooLate(doc, after) ==
  /\ doc.pending # {}
  /\ \E c \in DOMAIN doc.missing : doc.missing[c] + 1 < getState(after, c)

\* Whether the pending structs of doc are tried again now that the store is
\* that of after: one of the clocks they wait for has been passed.
canRetry(doc, after) ==
  /\ doc.pending # {}
  /\ \E c \in DOMAIN doc.missing : doc.missing[c] < getState(after, c)

\* readUpdateV2 inside its transaction: integrate, merge the rest into the
\* pending structs, apply the delete set and the pending one, and start over
\* with the pending structs when something they wait for has arrived.
RECURSIVE readUpdate(_, _)
readUpdate(doc, update) ==
  LET m     == integrateStructs(doc, update.structs)
      d1    == [m.doc EXCEPT
                  !.pending = mergeStructs(@, m.rest),
                  !.missing = [c \in DOMAIN @ \cup DOMAIN m.missing |->
                     Min({f[c] : f \in {g \in {@, m.missing} : c \in DOMAIN g}})]]
      all   == update.ds \cup d1.pendingDs
      d2    == [applyDeleteSet(applyDeleteSet(d1, update.ds), d1.pendingDs)
                  EXCEPT !.pendingDs = all \ DOMAIN d1.st]
  IN  IF canRetry(doc, m.doc)
      THEN readUpdate([d2 EXCEPT !.pending = {}, !.missing = <<>>],
                      [structs |-> d2.pending, ds |-> {}])
      ELSE d2

-----------------------------------------------------------------------------
(* Writing updates. *)

FaultWriteStructNoKey(s) ==
  IF s.origin = Nil /\ s.rightOrigin = Nil THEN [s EXCEPT !.sub = ""]
  ELSE [s EXCEPT !.parent = Nil, !.sub = ""]

\* writeStruct: parent and key are on the wire only when there is neither an
\* origin nor a right origin.
writeStruct(s) ==
  IF s.origin = Nil /\ s.rightOrigin = Nil THEN s
  ELSE [s EXCEPT !.parent = Nil, !.sub = ""]

writeClientsStructs(doc, sv) ==
  {writeStruct(doc.st[id]) : id \in {i \in DOMAIN doc.st : i[2] >= sv[i[1]]}}

\* encodeStateAsUpdate: what the target lacks, every deletion, and both
\* pending buffers.
encodeStateAsUpdate(doc, sv) ==
  [structs |-> mergeStructs(writeClientsStructs(doc, sv),
                            {s \in doc.pending : s.id[2] >= sv[s.id[1]]}),
   ds |-> doc.deleted \cup doc.pendingDs]

=============================================================================
