------------------------------ MODULE Replicas ------------------------------
(***************************************************************************)
(* Replicas of one document exchanging updates.  Each replica edits its    *)
(* own copy in transactions; every transaction that changed something      *)
(* emits an update message (the "update" event), and a replica may answer  *)
(* a state vector with the difference (EncodeStateAsUpdate).  The network  *)
(* is the set of messages ever sent: a message may reach a replica late,   *)
(* twice, out of order or never.                                           *)
(*                                                                         *)
(*   inst     which of the instances this behaviour is about, constant     *)
(*   docs[r]  the document of replica r, which writes as client r          *)
(*   updates  the messages sent so far                                     *)
(*   deletes  the number of local deletions so far                         *)
(*   syncs    the number of state-vector answers so far                    *)
(*   seen[r]  what r was given: ids of structs, and ids to delete (a       *)
(*            history of deliveries, for the properties)                   *)
(***************************************************************************)
EXTENDS Yata

\* An instance: clients, the replicas; quota, the bound on the insertions of
\* each; maxDeletes, on local transactions that delete; maxSyncs, on answers to
\* state vectors; collects, the replicas whose document has GC enabled;
\* contents, what may be inserted; subs, where: "" (the list) and map keys.
CONSTANT Instances

ASSUME InstancesAssumption ==
  \A i \in Instances :
    /\ i.clients \subseteq Clients /\ i.collects \subseteq i.clients
    /\ i.quota \in [i.clients -> Nat]
    /\ \A r \in i.clients : 0 .. i.quota[r] - 1 \subseteq Clocks
    /\ {i.maxDeletes, i.maxSyncs} \subseteq Nat
    /\ i.contents \subseteq {"any", "type"} /\ i.subs \subseteq Keys \cup {""}

VARIABLES inst, docs, updates, deletes, syncs, seen

vars == <<inst, docs, updates, deletes, syncs, seen>>

Peers == inst.clients

Init ==
  /\ inst \in Instances
  /\ docs = [r \in Peers |-> EmptyDoc]
  /\ updates = {}
  /\ deletes = 0
  /\ syncs = 0
  /\ seen = [r \in Peers |-> [ids |-> {}, ds |-> {}]]

\* The delete set of a transaction: what was deleted in it.  A struct that
\* arrives as GC is not a deletion of this transaction.
deleteSetOf(before, after) ==
  {id \in after.deleted \ before.deleted : after.st[id].kind = "item"}

FaultHasContentStructsOnly(update) == update.structs # {}

\* writeUpdateMessageFromTransaction has something to write.
hasContent(update) == update.structs # {} \/ update.ds # {}

\* The end of a transaction (cleanupTransactions): collect what it deleted,
\* then emit its structs and its delete set if there are any.
Cleanup(r, after) ==
  LET before == docs[r]
      ds     == deleteSetOf(before, after)
      doc    == IF r \in inst.collects THEN tryGcDeleteSet(after, ds) ELSE after
      update == [structs |-> writeClientsStructs(doc, getStateVector(before)),
                 ds |-> ds]
  IN  /\ docs' = [docs EXCEPT ![r] = doc]
      /\ updates' = updates \cup
           (IF hasContent(update) THEN {update} ELSE {})

Knows(r, ids, ds) ==
  seen' = [seen EXCEPT ![r] = [ids |-> @.ids \cup ids, ds |-> @.ds \cup ds]]

\* The types of r's document an edit can address.
Types(r) ==
  {Root} \cup {id \in DOMAIN docs[r].st : /\ docs[r].st[id].content = "type"
                                          /\ id \notin docs[r].deleted}

Edit(r, after) ==
  /\ Cleanup(r, after)
  /\ Knows(r, DOMAIN after.st \ DOMAIN docs[r].st, deleteSetOf(docs[r], after))
  /\ UNCHANGED syncs

Insert(r, item) ==
  /\ getState(docs[r], r) < inst.quota[r]
  /\ Edit(r, integrate(docs[r], item))
  /\ UNCHANGED deletes

NextId(r) == <<r, getState(docs[r], r)>>

\* YArray.Insert: after the visible item that precedes the index (or at the
\* start), before whatever physically follows it.
ListInsert(r) ==
  \E t \in Types(r), c \in inst.contents :
    LET L == At(docs[r], <<t, "">>)
        visible == {n \in DOMAIN L : L[n] \notin docs[r].deleted}
    IN  \E n \in visible \cup {0} :
          Insert(r, Item(NextId(r), IF n = 0 THEN Nil ELSE L[n],
                         IF n = Len(L) THEN Nil ELSE L[n + 1], t, "", c))

\* YMap.Set: after the current value of the key.
MapSet(r) ==
  \E t \in Types(r), c \in inst.contents, k \in inst.subs \ {""} :
    LET L == At(docs[r], <<t, k>>)
    IN  Insert(r, Item(NextId(r), IF L = <<>> THEN Nil ELSE Last(L), Nil,
                       t, k, c))

\* YArray.Delete and YMap.Delete of one element.
Delete(r) ==
  /\ deletes < inst.maxDeletes
  /\ deletes' = deletes + 1
  /\ \E t \in Types(r), k \in inst.subs :
       \E id \in Range(At(docs[r], <<t, k>>)) \ docs[r].deleted :
         Edit(r, deleteItemStruct(docs[r], id))

\* ApplyUpdate of any message, at any time, any number of times.
ApplyUpdate(r) ==
  \E u \in updates :
    /\ Cleanup(r, readUpdate(docs[r], u))
    /\ Knows(r, {s.id : s \in u.structs}, u.ds)
    /\ UNCHANGED <<deletes, syncs>>

\* q answers the state vector of r.
AnswerSync(q, r) ==
  /\ syncs < inst.maxSyncs
  /\ syncs' = syncs + 1
  /\ updates' = updates \cup
       {encodeStateAsUpdate(docs[q], getStateVector(docs[r]))}
  /\ UNCHANGED <<docs, deletes, seen>>

Next ==
  /\ \E r \in Peers :
       \/ ListInsert(r)
       \/ MapSet(r)
       \/ Delete(r)
       \/ ApplyUpdate(r)
       \/ \E q \in Peers \ {r} : AnswerSync(q, r)
  /\ UNCHANGED inst

Spec == Init /\ [][Next]_vars

\* The transport keeps delivering while some message holds news for r: the
\* library leaves retransmission to the provider, which repeats the sync
\* handshake on every reconnect.
News(r) ==
  /\ r \in Peers
  /\ \E u \in updates : ~(/\ {s.id : s \in u.structs} \subseteq seen[r].ids
                           /\ u.ds \subseteq seen[r].ds)

Fairness ==
  \A r \in Clients :
    []<>~News(r) \/ []<><<News(r) /\ ApplyUpdate(r) /\ seen'[r] # seen[r]>>_vars

FairSpec == Spec /\ Fairness

-----------------------------------------------------------------------------
\* What two documents are compared by: the lists and map chains that can be
\* reached, the deletions, and what is pending.  Only a collecting replica
\* drops the lists inside a deleted type.
View(d) ==
  [list |-> [k \in {x \in DOMAIN d.list : x[1] \notin d.deleted} |-> d.list[k]],
   deleted |-> d.deleted, pendingDs |-> d.pendingDs,
   pending |-> {s.id : s \in d.pending}]

\* Replicas that were given the same structs and deletions hold the same
\* document, whatever the order, duplication and grouping of the deliveries
\* and whether or not they collect garbage.
Convergence ==
  \A r, q \in Peers :
    seen[r] = seen[q] => View(docs[r]) = View(docs[q])

\* The list of the root type as ListOrder sees it: the items made so far are
\* those of all replicas, with the origins their author gave them.
RootList(r) == IF r \in Peers THEN At(docs[r], <<Root, "">>) ELSE <<>>

Order == INSTANCE ListOrder WITH
  items <- [x \in UNION {Range(RootList(r)) : r \in Peers} |->
              LET s == docs[x[1]].st[x]
              IN  [id |-> x, origin |-> s.origin, rightOrigin |-> s.rightOrigin]],
  lists <- [c \in Clients |-> RootList(c)]

\* What edits and deliveries do to the list of the root type is what ListOrder
\* allows: a delivery integrates an item only once everything it refers to and
\* the earlier items of its client are there (missingClient, the clock test of
\* integrateStructs), and places it by the origins it was made with.
ListOrderSpec == Order!Spec

\* Even while their documents differ, two replicas never disagree on the
\* order of two elements both have (integrate's conflict resolution).
OrderAgreement ==
  \A r, q \in Peers : \A k \in DOMAIN docs[r].list \cap DOMAIN docs[q].list :
    Order!Agree(docs[r].list[k], docs[q].list[k])

\* A delivered struct is integrated or pending, a delivered deletion applied or
\* pending: no delivery is forgotten by the pending buffers.  And something is
\* pending only while a struct it needs was never delivered: the retry of
\* readUpdateV2 leaves nothing behind that could be applied.
NothingLost ==
  \A r \in Peers :
    /\ seen[r].ids = DOMAIN docs[r].st \cup {s.id : s \in docs[r].pending}
    /\ seen[r].ds \subseteq docs[r].deleted \cup docs[r].pendingDs
    /\ docs[r].pendingDs \cap DOMAIN docs[r].st = {}
    /\ docs[r].pending # {} =>
         \E s \in docs[r].pending :
           \/ s.id[2] > 0 /\ <<s.id[1], s.id[2] - 1>> \notin seen[r].ids
           \/ ~({s.origin, s.rightOrigin, s.parent} \subseteq
                  seen[r].ids \cup {Nil, Root})

\* Of the values ever set for a map key only the last of the chain can be
\* live, and everything inside a deleted type is deleted.
LiveValues ==
  \A r \in Peers : \A k \in DOMAIN docs[r].list :
    LET L == docs[r].list[k] IN
    /\ k[2] # "" => \A n \in 1 .. Len(L) - 1 : L[n] \in docs[r].deleted
    /\ k[1] \in docs[r].deleted => Range(L) \subseteq docs[r].deleted

\* No step takes a struct out of a store, revives a deleted one or moves two
\* elements of a list past each other.
Monotone ==
  [][\A r \in Peers :
       /\ DOMAIN docs[r].st \subseteq DOMAIN docs'[r].st
       /\ docs[r].deleted \subseteq docs'[r].deleted
       /\ \A k \in DOMAIN docs[r].list \cap DOMAIN docs'[r].list :
            docs[r].list[k] =
              SelectSeq(docs'[r].list[k],
                        LAMBDA x : x \in Range(docs[r].list[k]))]_vars

\* Once edits stop and the messages get through, all replicas hold the same
\* document for good and nothing is pending anywhere.
EventualConsistency ==
  <>[](\A r, q \in Peers : /\ View(docs[r]) = View(docs[q])
                             /\ docs[r].pending = {} /\ docs[r].pendingDs = {})

=============================================================================
