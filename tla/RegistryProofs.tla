--------------------------- MODULE RegistryProofs ---------------------------
(***************************************************************************)
(* Proofs about Registry, for any number of callers, documents and         *)
(* generations: every step keeps the invariant, and the properties follow  *)
(* from it.                                                                *)
(***************************************************************************)
EXTENDS RegistryHandles, RegistryTeardown, FiniteSetTheorems

-----------------------------------------------------------------------------
(* Every step together.                                                    *)

LEMMA Counting == CallersCount
<1> SUFFICES ASSUME NEW S \in SUBSET Callers
             PROVE  /\ Cardinality(S) \in Nat
                    /\ Cardinality(S) = 0 <=> S = {}
                    /\ \A c \in Callers \ S : Cardinality(S \cup {c}) = Cardinality(S) + 1
                    /\ \A c \in S : Cardinality(S \ {c}) = Cardinality(S) - 1
  BY DEF CallersCount
<1>1. IsFiniteSet(S)
  BY RegistryAssumption, FS_Subset
<1>2. Cardinality(S) \in Nat
  BY <1>1, FS_CardinalityType
<1>3. Cardinality(S) = 0 <=> S = {}
  BY <1>1, FS_EmptySet
<1>4. \A c \in Callers \ S : Cardinality(S \cup {c}) = Cardinality(S) + 1
  BY <1>1, FS_AddElement, Zenon
<1>5. \A c \in S : Cardinality(S \ {c}) = Cardinality(S) - 1
  BY <1>1, FS_RemoveElement
<1> QED
  BY <1>2, <1>3, <1>4, <1>5

LEMMA NextInd == ASSUME IInv, [Next]_vars PROVE IInv'
<1>1. ASSUME NEW c \in Callers, NEW d \in Docs, AcquireCall(c, d) \/ Invalidate(c, d) \/ Evict(c, d)
      PROVE  IInv'
  BY <1>1, AcquireCallInd, InvalidateInd, EvictInd
<1>2. ASSUME NEW c \in Callers,
             CancelCtx(c) \/ AcquireFail(c) \/ AcquireRetiring(c) \/ AcquireJoin(c)
             \/ AwaitDone(c) \/ AwaitDrain(c)
      PROVE  IInv'
  BY <1>2, CancelCtxInd, AcquireFailInd, AcquireRetiringInd, AcquireJoinInd, AwaitDoneInd,
     AwaitDrainInd
<1>3. ASSUME NEW c \in Callers,
             AwaitCancelled(c) \/ FinalizeRefused(c) \/ FinalizeAcquired(c) \/ Release(c)
      PROVE  IInv'
  BY <1>3, Counting, DepartInd, FinalizeAcquiredInd, ReleaseInd
<1>4. ASSUME NEW c \in Callers, Close(c) \/ FinishEvict(c) \/ FinishClose(c)
      PROVE  IInv'
  BY <1>4, Counting, CloseInd, FinishEvictInd, FinishCloseInd
<1>5. ASSUME NEW c \in Callers, NEW g \in Gens, AcquireCreate(c, g)
      PROVE  IInv'
  BY <1>5, AcquireCreateInd
<1>6. ASSUME NEW g \in Gens, NEW failed \in BOOLEAN, OpenReturns(g, failed)
      PROVE  IInv'
  BY <1>6, OpenPoisonedInd, OpenServedInd
<1>7. ASSUME NEW p \in Procs, NEW g \in Gens, Destroy(p, g)
      PROVE  IInv'
  BY <1>7, DestroyInd
<1>8. ASSUME NEW p \in Procs, FinishPoisoned(p)
      PROVE  IInv'
  BY <1>8, FinishPoisonedInd
<1>9. CASE UNCHANGED vars
  <2>1. TypeOK'
    BY <1>9, Zenon DEF IInv, TypeOK, vars
  <2>2. ProcInv' /\ LifeInv' /\ MapInv'
    BY <1>9 DEF IInv, ProcInv, LifeInv, MapInv, vars
  <2>3. RefsInv' /\ DrainInv'
    BY <1>9, Zenon DEF IInv, RefsInv, DrainInv, Holders, vars
  <2>4. OwnerInv'
    BY <1>9 DEF IInv, OwnerInv, FinishInv, EvictInv, CloseInv, SoleOwnerInv, Registered, vars
  <2>5. ClosedInv'
    BY <1>9, Zenon DEF IInv, ClosedInv, Registered, vars
  <2> QED
    BY <2>1, <2>2, <2>3, <2>4, <2>5 DEF IInv
<1>10. CASE \E c \in Callers, d \in Docs : AcquireCall(c, d) \/ Invalidate(c, d) \/ Evict(c, d)
  BY <1>1, <1>10, Zenon
<1>11. CASE \E c \in Callers :
             \/ CancelCtx(c) \/ AcquireFail(c) \/ AcquireRetiring(c) \/ AcquireJoin(c)
             \/ AwaitDone(c) \/ AwaitCancelled(c) \/ FinalizeRefused(c) \/ FinalizeAcquired(c)
             \/ Release(c) \/ AwaitDrain(c) \/ Close(c) \/ FinishEvict(c) \/ FinishClose(c)
  BY <1>2, <1>3, <1>4, <1>11, Zenon
<1>12. CASE \E c \in Callers, g \in Gens : AcquireCreate(c, g)
  BY <1>5, <1>12, Zenon
<1>13. CASE \E g \in Gens, failed \in BOOLEAN : OpenReturns(g, failed)
  BY <1>6, <1>13, Zenon
<1>14. CASE \E p \in Procs, g \in Gens : Destroy(p, g)
  BY <1>7, <1>14, Zenon
<1>15. CASE \E p \in Procs : FinishPoisoned(p)
  BY <1>8, <1>15, Zenon
<1> QED
  BY <1>9, <1>10, <1>11, <1>12, <1>13, <1>14, <1>15, ZenonT(30) DEF Next

\* The ownership invariant holds in every reachable state of the registry.
THEOREM Invariance == Spec => []IInv
<1>1. Init => IInv
  BY Counting, InitInv
<1>2. IInv /\ [Next]_vars => IInv'
  BY NextInd
<1> QED
  BY <1>1, <1>2, PTL DEF Spec

-----------------------------------------------------------------------------
(* What the invariant implies.                                             *)

\* Whoever holds a handle is counted in refs, so the document is there and no
\* teardown of it has begun.
LEMMA HeldIsReferenced ==
  ASSUME IInv, NEW c \in Callers, pc[c] = "holding"
  PROVE  /\ ent[c] \in Gens /\ pc[ent[c]] # "unborn" /\ gen[ent[c]].id \in Docs
         /\ gen[ent[c]].refs > 0
         /\ gen[ent[c]].doc /\ ~gen[ent[c]].destroying
         /\ gen[ent[c]].poisoned => gen[ent[c]].invalidated
         /\ ~gen[ent[c]].poisoned => ~gen[ent[c]].closing
<1>1. /\ ent[c] \in Gens /\ pc[ent[c]] # "unborn" /\ gen[ent[c]].id \in Docs
      /\ c \in Holders(ent[c])
  BY Zenon DEF IInv, ProcInv, LifeInv, Holders
<1>2. Holders(ent[c]) \in SUBSET Callers /\ Holders(ent[c]) # {}
  BY <1>1, Zenon DEF Holders
<1>3. Cardinality(Holders(ent[c])) \in Nat /\ Cardinality(Holders(ent[c])) # 0
  BY <1>2, Counting, Zenon DEF CallersCount
<1>4. gen[ent[c]].refs > 0
  BY <1>1, <1>3 DEF IInv, RefsInv
<1> QED
  BY <1>1, <1>4, Zenon DEF IInv, RefsInv

\* The registry's state keeps its types.
THEOREM Typing == Spec => []TypeOK
<1>1. IInv => TypeOK
  BY DEF IInv
<1> QED
  BY <1>1, Invariance, PTL

\* A document is never destroyed while a handle to it is out.
THEOREM HeldIsAlive == Spec => []ServedIsAlive
<1>1. IInv => ServedIsAlive
  <2> SUFFICES ASSUME IInv, NEW c \in Callers, pc[c] = "holding"
               PROVE  gen[ent[c]].doc /\ gen[ent[c]].destroys = 0
    BY Zenon DEF ServedIsAlive
  <2> QED
    BY HeldIsReferenced, Zenon DEF IInv, DrainInv, LifeInv
<1> QED
  BY <1>1, Invariance, PTL

\* A handle that was not invalidated is a handle on the registered instance.
THEOREM HeldIsCurrent == Spec => []ServedIsCurrent
<1>1. IInv => ServedIsCurrent
  <2> SUFFICES ASSUME IInv, NEW c \in Callers, pc[c] = "holding", ~gen[ent[c]].invalidated
               PROVE  entries[gen[ent[c]].id] = ent[c]
    BY Zenon DEF ServedIsCurrent
  <2>1. ent[c] \in Gens /\ pc[ent[c]] # "unborn" /\ ~gen[ent[c]].closing
    BY HeldIsReferenced, Zenon
  <2> QED
    BY <2>1, Zenon DEF IInv, MapInv
<1> QED
  BY <1>1, Invariance, PTL

\* Two live, unpoisoned documents of one id never exist.
THEOREM SingleDocument == Spec => []OneCurrentDocument
<1>1. IInv => OneCurrentDocument
  <2>1. ASSUME IInv, NEW g \in Gens, gen[g].id # None,
               gen[g].doc, gen[g].destroys = 0, ~gen[g].poisoned
        PROVE  entries[gen[g].id] = g
    <3>1. pc[g] # "unborn"
      BY <2>1, Zenon DEF IInv, LifeInv
    <3>2. gen[g].done <= 1 /\ gen[g].done # 1
      BY <2>1 DEF IInv, DrainInv
    <3>3. gen[g].done \in Nat
      BY <2>1, Zenon DEF IInv, TypeOK, EntryType
    <3>4. ~(gen[g].done > 0)
      BY <3>2, <3>3
    <3> QED
      BY <2>1, <3>1, <3>4 DEF IInv, MapInv
  <2> QED
    BY <2>1 DEF OneCurrentDocument
<1> QED
  BY <1>1, Invariance, PTL

\* Exactly one process tears a generation down, and a Release always finds the
\* reference it gives back.
THEOREM SingleTeardown == Spec => []TornDownOnce
<1>1. IInv => TornDownOnce
  BY HeldIsReferenced, Zenon DEF TornDownOnce, IInv, DrainInv
<1> QED
  BY <1>1, Invariance, PTL

\* The done channel of a generation is closed only when it is gone.
THEOREM DoneIsGone == Spec => []DoneMeansGone
<1>1. IInv => DoneMeansGone
  <2> SUFFICES ASSUME IInv, NEW g \in Gens, gen[g].done > 0
               PROVE  DoneMeansGone!(g)!2
    BY Zenon DEF DoneMeansGone
  <2>1. gen[g].done = 1 /\ gen[g].closing
    BY DEF IInv, DrainInv, LifeInv, TypeOK, EntryType
  <2>2. g \notin Registered
    BY DEF IInv, MapInv, Registered
  <2>3. g \notin draining /\ (gen[g].doc => gen[g].destroys = 1)
    BY <2>1 DEF IInv, DrainInv
  <2>4. gen[g].poisoned => gen[g].destroying
    BY <2>3, Zenon DEF IInv, DrainInv
  <2>5. gen[g].refs = 0
    BY <2>1, <2>4 DEF IInv, RefsInv, TypeOK, EntryType
  <2> QED
    BY <2>2, <2>3, <2>5
<1> QED
  BY <1>1, Invariance, PTL

\* A closed registry has no goroutine, no drain and no handle left.
THEOREM CloseQuiesces == Spec => []ClosedIsQuiescent
<1>1. IInv => ClosedIsQuiescent
  BY Zenon DEF ClosedIsQuiescent, IInv, ClosedInv, ProcInv, GenPCs
<1> QED
  BY <1>1, Invariance, PTL

\* A ready document nobody acquired stays registered only while somebody waits.
THEOREM NothingWarmed == Spec => []NoWarming
<1>1. IInv => NoWarming
  BY DEF NoWarming, IInv, MapInv, Registered
<1> QED
  BY <1>1, Invariance, PTL

-----------------------------------------------------------------------------
(* Poisoning is final.  Each action leaves poisoned set and gives out no   *)
(* reference to a poisoned generation; that it is out of the map then      *)
(* follows from the invariant after the step.                              *)

KeepsPoison(g) == gen[g].poisoned => gen'[g].poisoned /\ gen'[g].refs <= gen[g].refs

LEMMA SameEntryKeepsPoison ==
  ASSUME IInv, NEW g \in Gens, gen'[g] = gen[g] PROVE KeepsPoison(g)
BY DEF KeepsPoison, IInv, TypeOK, EntryType

LEMMA LeaveKeepsPoison ==
  ASSUME IInv, NEW p \in Procs, NEW g \in Gens, NEW e \in EntryType, NEW next,
         LeaveLocked(p, g, e, next),
         gen[g].poisoned => e.poisoned /\ e.refs <= gen[g].refs,
         NEW h \in Gens
  PROVE  KeepsPoison(h)
<1>1. CASE h = g
  <2>1. gen'[g] = takePoisonedDestroyLocked(e)
    BY Zenon DEF LeaveLocked, IInv, TypeOK
  <2> QED
    BY <1>1, <2>1, TakeFields DEF KeepsPoison
<1>2. CASE h # g
  <2>1. gen'[h] = gen[h]
    BY <1>2, Zenon DEF LeaveLocked, IInv, TypeOK
  <2> QED
    BY <2>1, SameEntryKeepsPoison
<1> QED
  BY <1>1, <1>2

LEMMA PoisonStep ==
  ASSUME IInv, [Next]_vars, NEW h \in Gens PROVE KeepsPoison(h)
<1> USE DEF IInv
<1>0. Callers \subseteq Procs /\ Gens \subseteq Procs /\ \A g \in Gens : gen[g] \in EntryType
  BY DEF Procs, TypeOK
<1>1. ASSUME UNCHANGED gen PROVE KeepsPoison(h)
  BY <1>1, SameEntryKeepsPoison
<1>2. ASSUME NEW c \in Callers, AcquireJoin(c) PROVE KeepsPoison(h)
  <2>1. gen' = [gen EXCEPT ![entries[arg[c]]].waiters = @ + 1]
    BY <1>2, Zenon DEF AcquireJoin
  <2> QED
    BY <2>1 DEF KeepsPoison, TypeOK, EntryType
<1>3. ASSUME NEW c \in Callers, NEW g \in Gens, AcquireCreate(c, g) PROVE KeepsPoison(h)
  <2>1. ~gen[g].poisoned
    BY <1>3, Zenon DEF AcquireCreate, LifeInv
  <2>2. h # g => gen'[h] = gen[h]
    BY <1>3, Zenon DEF AcquireCreate, TypeOK
  <2> QED
    BY <2>1, <2>2, SameEntryKeepsPoison, Zenon DEF KeepsPoison
<1>4. ASSUME NEW c \in Callers, AwaitCancelled(c) \/ FinalizeRefused(c) PROVE KeepsPoison(h)
  <2>1. PICK g \in Gens : g = ent[c]
    BY <1>4, Zenon DEF AwaitCancelled, FinalizeRefused, ProcInv
  <2>2. \E next : LeaveLocked(c, g, dropWaiterLocked(gen[g]), next)
    BY <1>4, <2>1, Zenon DEF AwaitCancelled, FinalizeRefused
  <2>3. /\ dropWaiterLocked(gen[g]) \in EntryType
        /\ gen[g].poisoned => dropWaiterLocked(gen[g]).poisoned
        /\ dropWaiterLocked(gen[g]).refs = gen[g].refs /\ gen[g].refs \in Nat
    BY <1>0, DropFields, Zenon DEF EntryType
  <2> QED
    BY <1>0, <2>2, <2>3, LeaveKeepsPoison
<1>5. ASSUME NEW c \in Callers, FinalizeAcquired(c) PROVE KeepsPoison(h)
  <2>1. PICK g \in Gens : g = ent[c]
    BY <1>5, Zenon DEF FinalizeAcquired, ProcInv
  <2>2. ~gen[g].poisoned
    BY <1>5, <2>1, Zenon DEF FinalizeAcquired, Refused
  <2>3. h # g => gen'[h] = gen[h]
    BY <1>5, <2>1, Zenon DEF FinalizeAcquired, LeaveLocked, TypeOK
  <2> QED
    BY <2>2, <2>3, SameEntryKeepsPoison, Zenon DEF KeepsPoison
<1>6. ASSUME NEW c \in Callers, Release(c) PROVE KeepsPoison(h)
  <2>1. PICK g \in Gens : g = ent[c]
    BY <1>6, Zenon DEF Release, ProcInv
  <2> DEFINE e == [gen[g] EXCEPT !.refs = @ - 1]
  <2>2. LeaveLocked(c, g, e, "idle") /\ gen[g].refs > 0
    BY <1>6, <2>1, Zenon DEF Release
  <2>3. e \in EntryType /\ e.poisoned = gen[g].poisoned /\ e.refs <= gen[g].refs
    BY <1>0, <2>2 DEF EntryType
  <2> HIDE DEF e
  <2> QED
    BY <1>0, <2>2, <2>3, LeaveKeepsPoison, Zenon
<1>7. ASSUME NEW g \in Gens, NEW failed \in BOOLEAN, OpenReturns(g, failed) PROVE KeepsPoison(h)
  <2> DEFINE e == [gen[g] EXCEPT !.ready = TRUE, !.doc = ~failed, !.err = failed]
  <2>0. gen[g].refs \in Nat /\ gen[g] \in EntryType
    BY <1>0, Zenon DEF EntryType
  <2>1. e \in EntryType /\ e.poisoned = gen[g].poisoned /\ e.refs = gen[g].refs
    BY <2>0, OpenFields, ZenonT(30)
  <2>2. CASE gen[g].poisoned
    <3>1. LeaveLocked(g, g, e, "exited")
      BY <1>7, <2>1, <2>2, Zenon DEF OpenReturns
    <3> HIDE DEF e
    <3> QED
      BY <1>0, <2>0, <2>1, <3>1, LeaveKeepsPoison
  <2>3. CASE ~gen[g].poisoned
    <3>1. h # g => gen'[h] = gen[h]
      BY <1>7, <2>1, <2>3 DEF OpenReturns, TypeOK
    <3> QED
      BY <2>3, <3>1, SameEntryKeepsPoison, Zenon DEF KeepsPoison
  <2> QED
    BY <2>2, <2>3
<1>8. ASSUME NEW c \in Callers, NEW d \in Docs, Invalidate(c, d) PROVE KeepsPoison(h)
  <2>1. PICK g \in Gens : g = entries[d]
    BY <1>8, Zenon DEF Invalidate, TypeOK
  <2>2. ~gen[g].poisoned
    BY <1>8, <2>1 DEF Invalidate, MapInv
  <2>3. h # g => gen'[h] = gen[h]
    BY <1>8, <2>1, Zenon DEF Invalidate, LeaveLocked, TypeOK
  <2> QED
    BY <2>2, <2>3, SameEntryKeepsPoison, Zenon DEF KeepsPoison
<1>9. ASSUME NEW c \in Callers, NEW d \in Docs, Evict(c, d) PROVE KeepsPoison(h)
  <2>1. gen' = [gen EXCEPT ![entries[d]].closing = TRUE]
    BY <1>9, Zenon DEF Evict
  <2> QED
    BY <2>1 DEF KeepsPoison, TypeOK, EntryType
<1>10. ASSUME NEW c \in Callers, Close(c) PROVE KeepsPoison(h)
  <2>1. gen'[h] = gen[h] \/ gen'[h] = [gen[h] EXCEPT !.closing = TRUE]
    BY <1>10 DEF Close
  <2> QED
    BY <1>0, <2>1, CloseFields DEF KeepsPoison, EntryType
<1>11. ASSUME NEW p \in Procs, NEW g \in Gens, Destroy(p, g) PROVE KeepsPoison(h)
  <2>1. gen' = [gen EXCEPT ![g].destroys = @ + 1]
    BY <1>11 DEF Destroy
  <2> QED
    BY <2>1 DEF KeepsPoison, TypeOK, EntryType
<1>12. ASSUME NEW p \in Procs, FinishPoisoned(p) \/ FinishEvict(p) PROVE KeepsPoison(h)
  <2>1. gen' = [gen EXCEPT ![ent[p]].done = @ + 1]
    BY <1>12, Zenon DEF FinishPoisoned, FinishEvict
  <2> QED
    BY <2>1 DEF KeepsPoison, TypeOK, EntryType
<1>13. ASSUME NEW c \in Callers, FinishClose(c) PROVE KeepsPoison(h)
  <2>1. gen'[h] = gen[h] \/ gen'[h] = [gen[h] EXCEPT !.done = @ + 1]
    BY <1>13, Zenon DEF FinishClose
  <2> QED
    BY <1>0, <2>1, DoneFields DEF KeepsPoison, EntryType
<1>14. ASSUME NEW c \in Callers,
              CancelCtx(c) \/ AcquireFail(c) \/ AcquireRetiring(c) \/ AwaitDone(c)
              \/ AwaitDrain(c) \/ \E d \in Docs : AcquireCall(c, d)
       PROVE  KeepsPoison(h)
  BY <1>1, <1>14, Zenon DEF CancelCtx, AcquireFail, AcquireRetiring, AwaitDone, AwaitDrain, AcquireCall
<1>15. CASE UNCHANGED vars
  BY <1>1, <1>15 DEF vars
<1> QED
  BY <1>0, <1>2, <1>3, <1>4, <1>5, <1>6, <1>7, <1>8, <1>9, <1>10, <1>11, <1>12, <1>13, <1>14,
     <1>15 DEF Next

\* No step un-poisons a generation, hands out a new reference to it or puts it
\* back into the map.
THEOREM PoisonLasts == Spec => PoisonIsFinal
<1>1. IInv /\ IInv' /\ [Next]_vars =>
        [\A g \in Gens : gen[g].poisoned =>
           gen'[g].poisoned /\ gen'[g].refs <= gen[g].refs /\ g \notin Registered']_vars
  <2> SUFFICES ASSUME IInv, IInv', [Next]_vars, NEW g \in Gens, gen[g].poisoned
               PROVE  gen'[g].poisoned /\ gen'[g].refs <= gen[g].refs /\ g \notin Registered'
    OBVIOUS
  <2>1. gen'[g].poisoned /\ gen'[g].refs <= gen[g].refs
    BY PoisonStep DEF KeepsPoison
  <2>2. g \notin Registered'
    BY <2>1 DEF IInv, MapInv, Registered
  <2> QED
    BY <2>1, <2>2
<1> QED
  BY <1>1, Invariance, PTL DEF Spec, PoisonIsFinal

=============================================================================
