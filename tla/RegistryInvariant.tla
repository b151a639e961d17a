------------------------- MODULE RegistryInvariant --------------------------
(***************************************************************************)
(* The inductive invariant of Registry, for any number of callers,         *)
(* documents and generations.                                              *)
(*                                                                         *)
(* None of the safety properties is inductive: whether a handle's document *)
(* is alive depends on who else may be tearing it down.  IInv adds that    *)
(* ownership: refs counts the holders, a teardown has exactly one owner    *)
(* (the process that runs finishPoisoned, an evictor, or the closer), and  *)
(* the entry's flags say which.                                            *)
(***************************************************************************)
EXTENDS Registry

Holders(g) == {c \in Callers : pc[c] = "holding" /\ ent[c] = g}

CallerPCs == {"idle", "lookup", "awaitDone", "awaitEntry", "holding", "awaitDrain",
              "finish", "evict", "close"}
GenPCs == {"unborn", "open", "finish", "exited"}

\* Where every process is, and what the pointers it keeps across an unlock are.
ProcInv ==
  /\ \A c \in Callers :
       /\ pc[c] \in CallerPCs
       /\ pc[c] \in {"lookup", "awaitDone", "awaitEntry"} => arg[c] \in Docs
       /\ pc[c] \in {"awaitDone", "awaitEntry", "holding", "awaitDrain", "finish", "evict"}
            => ent[c] \in Gens /\ pc[ent[c]] # "unborn"
       /\ pc[c] = "awaitEntry" => arg[c] = gen[ent[c]].id
       /\ pc[c] = "finish" => /\ ret[c] \in {"idle", "lookup", "awaitDrain"}
                              /\ ret[c] = "lookup" => arg[c] \in Docs
  /\ \A g \in Gens :
       /\ pc[g] \in GenPCs
       /\ pc[g] \in {"open", "finish"} => ent[g] = g
       /\ pc[g] = "finish" => ret[g] = "exited"

\* The life of a generation before anybody owns its teardown.
LifeInv ==
  \A g \in Gens : LET e == gen[g] IN
    /\ pc[g] = "unborn" => ~e.closing /\ ~e.poisoned /\ e.id = None /\ ~e.claimed
    /\ pc[g] # "unborn" => e.id \in Docs
    /\ e.ready <=> pc[g] \notin {"unborn", "open"}
    /\ ~e.ready => e.refs = 0 /\ ~e.doc /\ ~e.err /\ ~e.destroying /\ (e.closing => e.poisoned)
    /\ e.ready => (e.doc <=> ~e.err)
    /\ ~e.closing => e.destroys = 0 /\ e.done = 0 /\ ~e.poisoned /\ ~e.err

\* Who is in the map: a registered generation is fit to be served, and one that
\* is not registered any more is poisoned or gone.
MapInv ==
  /\ \A d \in Docs : entries[d] # None =>
       /\ gen[entries[d]].id = d
       /\ ~gen[entries[d]].poisoned /\ gen[entries[d]].done = 0
       /\ ~gen[entries[d]].err
       /\ ~gen[entries[d]].closing /\ ~gen[entries[d]].claimed => gen[entries[d]].waiters > 0
  /\ \A g \in Gens :
       \/ pc[g] = "unborn"
       \/ entries[gen[g].id] = g
       \/ gen[g].closing /\ (gen[g].poisoned \/ gen[g].done > 0)

\* References are counted, and only a document nobody tears down has any.
RefsInv ==
  \A g \in Gens : LET e == gen[g] IN
    /\ e.refs = Cardinality(Holders(g))
    /\ e.refs > 0 => /\ e.doc /\ e.claimed /\ ~e.destroying
                     /\ e.poisoned => e.invalidated
                     /\ ~e.poisoned => ~e.closing

\* The poisoned generations: r.draining holds them until done is closed.
DrainInv ==
  \A g \in Gens : LET e == gen[g] IN
    /\ e.destroying => e.poisoned
    /\ e.poisoned /\ ~e.destroying => g \in draining /\ e.destroys = 0
    /\ g \in draining => e.poisoned /\ e.done = 0
    /\ e.done <= 1 /\ e.destroys <= 1
    /\ e.done = 1 /\ e.doc => e.destroys = 1

\* The owner of a teardown, and what it has yet to destroy: the process that
\* runs finishPoisoned on a poisoned generation,
FinishInv ==
  \A p \in Procs : pc[p] = "finish" =>
    /\ gen[ent[p]].destroying /\ ent[p] \in draining
    /\ todo[p] \subseteq {ent[p]}
    /\ ent[p] \in todo[p] => gen[ent[p]].doc
    /\ gen[ent[p]].doc => gen[ent[p]].destroys = IF ent[p] \in todo[p] THEN 0 ELSE 1

\* the caller that evicts a registered one,
EvictInv ==
  \A c \in Callers : pc[c] = "evict" =>
    /\ gen[ent[c]].closing /\ gen[ent[c]].ready /\ entries[gen[ent[c]].id] = ent[c]
    /\ todo[c] \subseteq {ent[c]}
    /\ gen[ent[c]].destroys = IF ent[c] \in todo[c] THEN 0 ELSE 1

\* or the caller that closes the registry.
CloseInv ==
  \A c \in Callers : pc[c] = "close" =>
    /\ closed
    /\ todo[c] \subseteq Registered
    /\ \A g \in Registered : gen[g].destroys = IF g \in todo[c] THEN 0 ELSE 1

\* Nobody else has anything to destroy, and no two own the same teardown.
SoleOwnerInv ==
  /\ \A p \in Procs : pc[p] \notin {"finish", "evict", "close"} => todo[p] = {}
  /\ \A p, q \in Procs :
       pc[p] = pc[q] /\ pc[p] \in {"finish", "evict"} /\ ent[p] = ent[q] => p = q
  /\ \A c, b \in Callers : pc[c] = "close" /\ pc[b] = "close" => c = b

OwnerInv == FinishInv /\ EvictInv /\ CloseInv /\ SoleOwnerInv

\* A closed registry only finishes what Close started.
ClosedInv ==
  closed => /\ draining = {}
            /\ \A d \in Docs : entries[d] # None
                 => gen[entries[d]].closing /\ gen[entries[d]].ready
            /\ \A g \in Gens : pc[g] \notin {"open", "finish"}
            /\ \A c \in Callers : pc[c] \notin {"finish", "evict", "holding"}

IInv == TypeOK /\ ProcInv /\ LifeInv /\ MapInv /\ RefsInv /\ DrainInv /\ OwnerInv /\ ClosedInv

\* How sets of callers are counted, which RegistryProofs shows of any finite set
\* of callers.
CallersCount ==
  \A S \in SUBSET Callers :
    /\ Cardinality(S) \in Nat
    /\ Cardinality(S) = 0 <=> S = {}
    /\ \A c \in Callers \ S : Cardinality(S \cup {c}) = Cardinality(S) + 1
    /\ \A c \in S : Cardinality(S \ {c}) = Cardinality(S) - 1

=============================================================================
