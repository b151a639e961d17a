----------------------------- MODULE MCReplicas -----------------------------
(* Instances of Replicas: client ids are small naturals, and the absent      *)
(* origin and the root type are model values.                                *)
EXTENDS Replicas

TwoClients == {1, 2}
ThreeClients == {1, 2, 3}
NoKeys == {}
OneKey == {"k"}

Instance(quota, maxDeletes, maxSyncs, collects, contents, subs) ==
  [clients |-> DOMAIN quota, quota |-> quota, maxDeletes |-> maxDeletes,
   maxSyncs |-> maxSyncs, collects |-> collects, contents |-> contents, subs |-> subs]

ListOnly(quota, maxDeletes, maxSyncs, collects) ==
  Instance(quota, maxDeletes, maxSyncs, collects, {"any"}, {""})

\* Three clients insert concurrently, and an answer to a state vector brings
\* the structs of several of them at once.
Threesome == ListOnly(<<1, 1, 1>>, 0, 1, {})

\* Two clients insert concurrently, each behind or before what it has.
Pairs == ListOnly(<<2, 2>>, 0, 0, {})

\* Pending structs and deletions, and answers to state vectors that overlap the
\* updates.  The client with three structs is once the lower and once the
\* higher one: conflicts are decided by the client.
LongWait == ListOnly(<<3, 1>>, 1, 0, TwoClients)
Answers == ListOnly(<<2, 1>>, 1, 1, TwoClients)
LongAnswers == ListOnly(<<1, 3>>, 0, 1, TwoClients)

Lists == {Threesome, Pairs, LongWait, Answers, LongAnswers}

\* Values and types in a list and under a key, one replica collecting.
Nested == {Instance(<<2, 1>>, 1, 0, {1}, {"any", "type"}, {"", "k"})}
=============================================================================
