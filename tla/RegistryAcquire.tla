-------------------------- MODULE RegistryAcquire ---------------------------
(***************************************************************************)
(* The invariant of RegistryInvariant holds initially and is kept by the   *)
(* steps of Acquire up to the result of the open, and by the return of the *)
(* OpenFunc, whether the document is served or the entry was poisoned      *)
(* meanwhile.                                                              *)
(***************************************************************************)
EXTENDS RegistryInvariant, TLAPS

-----------------------------------------------------------------------------
(* The helpers of the model, field by field.                               *)

LEMMA TakeFields ==
  ASSUME NEW e \in EntryType
  PROVE  LET f == takePoisonedDestroyLocked(e)
         IN /\ f \in EntryType
            /\ (f.destroying <=> e.destroying \/ Takes(e))
            /\ f.id = e.id /\ f.ready = e.ready /\ f.invalidated = e.invalidated
            /\ f.done = e.done /\ f.waiters = e.waiters /\ f.claimed = e.claimed
            /\ f.doc = e.doc /\ f.err = e.err /\ f.refs = e.refs
            /\ f.closing = e.closing /\ f.poisoned = e.poisoned /\ f.destroys = e.destroys
<1>1. CASE Takes(e)
  BY <1>1, Zenon DEF EntryType, takePoisonedDestroyLocked
<1>2. CASE ~Takes(e)
  BY <1>2 DEF EntryType, takePoisonedDestroyLocked
<1> QED
  BY <1>1, <1>2, Zenon

LEMMA DropFields ==
  ASSUME NEW e \in EntryType
  PROVE  LET f == dropWaiterLocked(e)
         IN /\ f \in EntryType
            /\ f.waiters = IF e.waiters = 0 THEN 0 ELSE e.waiters - 1
            /\ (f.closing <=> e.closing \/ Abandons(e))
            /\ (f.poisoned <=> e.poisoned \/ Abandons(e))
            /\ f.id = e.id /\ f.ready = e.ready /\ f.invalidated = e.invalidated
            /\ f.done = e.done /\ f.claimed = e.claimed
            /\ f.doc = e.doc /\ f.err = e.err /\ f.refs = e.refs
            /\ f.destroying = e.destroying /\ f.destroys = e.destroys
<1>1. CASE Abandons(e)
  <2>1. e.waiters = 1
    BY <1>1 DEF Abandons
  <2> DEFINE f == [e EXCEPT !.waiters = 0, !.closing = TRUE,
                             !.poisoned = TRUE, !.cancelled = TRUE]
  <2>2. dropWaiterLocked(e) = f
    BY <1>1 DEF dropWaiterLocked
  <2>3. /\ f \in EntryType /\ f.waiters = 0 /\ f.closing /\ f.poisoned
        /\ f.id = e.id /\ f.ready = e.ready /\ f.invalidated = e.invalidated
        /\ f.done = e.done /\ f.claimed = e.claimed
        /\ f.doc = e.doc /\ f.err = e.err /\ f.refs = e.refs
        /\ f.destroying = e.destroying /\ f.destroys = e.destroys
    BY Zenon DEF EntryType
  <2> HIDE DEF f
  <2>4. f.waiters = IF e.waiters = 0 THEN 0 ELSE e.waiters - 1
    BY <2>1, <2>3
  <2>5. (f.closing <=> e.closing \/ Abandons(e)) /\ (f.poisoned <=> e.poisoned \/ Abandons(e))
    BY <1>1, <2>3, Zenon DEF EntryType
  <2> QED
    BY <2>2, <2>3, <2>4, <2>5, Zenon
<1>2. CASE ~Abandons(e)
  BY <1>2 DEF EntryType, dropWaiterLocked
<1> QED
  BY <1>1, <1>2, Zenon

-----------------------------------------------------------------------------
(* The initial state.                                                      *)

LEMMA InitType == Init => TypeOK
<1> SUFFICES ASSUME Init PROVE TypeOK
  OBVIOUS
<1>1. gen \in [Gens -> EntryType]
  BY Zenon DEF Init, NewEntry, EntryType
<1> QED
  BY <1>1, Zenon DEF Init, TypeOK, PCs, Procs

LEMMA InitInv == ASSUME CallersCount, Init PROVE IInv
<1>1. TypeOK
  BY InitType
<1>2. ProcInv
  BY RegistryAssumption, Zenon DEF Init, ProcInv, CallerPCs, GenPCs, Procs
<1>3. LifeInv
  BY RegistryAssumption, Zenon DEF Init, LifeInv, NewEntry, Procs
<1>4. MapInv
  BY RegistryAssumption, Zenon DEF Init, MapInv, NewEntry, Procs, Registered
<1>5. RefsInv
  <2> SUFFICES ASSUME NEW g \in Gens PROVE gen[g].refs = 0 /\ Cardinality(Holders(g)) = 0
    BY DEF RefsInv
  <2>1. Holders(g) = {}
    BY Zenon DEF Init, Holders, Procs
  <2> QED
    BY <2>1, Zenon DEF Init, NewEntry, CallersCount
<1>6. DrainInv
  BY DEF Init, DrainInv, NewEntry
<1>7. OwnerInv
  BY RegistryAssumption, Zenon DEF Init, OwnerInv, FinishInv, EvictInv, CloseInv, SoleOwnerInv, Procs
<1>8. ClosedInv
  BY Zenon DEF Init, ClosedInv
<1> QED
  BY <1>1, <1>2, <1>3, <1>4, <1>5, <1>6, <1>7, <1>8 DEF IInv

-----------------------------------------------------------------------------
(* Steps that only move a caller between its waiting points.               *)

LEMMA HoldersKept ==
  ASSUME NEW g,
         \A c \in Callers : /\ pc'[c] = "holding" <=> pc[c] = "holding"
                            /\ pc[c] = "holding" => ent'[c] = ent[c]
  PROVE  Holders(g)' = Holders(g)
BY Zenon DEF Holders

LEMMA QuietStep ==
  ASSUME IInv, TypeOK', ProcInv',
         UNCHANGED <<closed, entries, draining, gen, todo>>,
         NEW c \in Callers, NEW x, pc' = [pc EXCEPT ![c] = x],
         pc[c] \notin {"holding", "finish", "evict", "close"},
         x \notin {"holding", "finish", "evict", "close"},
         \A p \in Procs : p # c => ent'[p] = ent[p]
  PROVE  IInv'
<1> USE DEF IInv
<1>0. /\ \A p \in Procs : p # c => pc'[p] = pc[p]
      /\ pc'[c] = x
      /\ \A g \in Gens : pc'[g] = pc[g]
      /\ Registered' = Registered
  BY RegistryAssumption DEF TypeOK, Procs, Registered
<1>1. LifeInv'
  BY <1>0 DEF LifeInv
<1>2. MapInv'
  BY <1>0 DEF MapInv
<1>3. RefsInv'
  <2> SUFFICES ASSUME NEW g \in Gens PROVE Holders(g)' = Holders(g)
    BY Zenon DEF RefsInv
  <2> QED
    BY <1>0, HoldersKept, Zenon DEF Procs
<1>4. DrainInv'
  BY Zenon DEF DrainInv
<1>5. OwnerInv'
  BY <1>0 DEF OwnerInv, FinishInv, EvictInv, CloseInv, SoleOwnerInv, Procs
<1>6. ClosedInv'
  BY <1>0, Zenon DEF ClosedInv, Procs
<1> QED
  BY <1>1, <1>2, <1>3, <1>4, <1>5, <1>6, Zenon

LEMMA AcquireCallInd ==
  ASSUME IInv, NEW c \in Callers, NEW d \in Docs, AcquireCall(c, d) PROVE IInv'
<1> USE DEF AcquireCall
<1>1. TypeOK'
  BY Zenon DEF IInv, TypeOK, PCs, Procs
<1>2. ProcInv'
  BY RegistryAssumption DEF IInv, TypeOK, ProcInv, CallerPCs, Procs
<1> QED
  BY <1>1, <1>2, QuietStep, Zenon

LEMMA CancelCtxInd ==
  ASSUME IInv, NEW c \in Callers, CancelCtx(c) PROVE IInv'
<1> USE DEF CancelCtx
<1>1. TypeOK'
  BY Zenon DEF IInv, TypeOK, Procs
<1>2. ProcInv'
  BY Zenon DEF IInv, ProcInv
<1>3. pc' = [pc EXCEPT ![c] = pc[c]]
  BY Zenon DEF IInv, TypeOK
<1> QED
  BY <1>1, <1>2, <1>3, QuietStep, Zenon

LEMMA AcquireFailInd ==
  ASSUME IInv, NEW c \in Callers, AcquireFail(c) PROVE IInv'
<1> USE DEF AcquireFail, Forget
<1>1. TypeOK'
  BY Zenon DEF IInv, TypeOK, PCs, Procs
<1>2. ProcInv'
  BY RegistryAssumption DEF IInv, TypeOK, ProcInv, CallerPCs, Procs
<1> QED
  BY <1>1, <1>2, QuietStep, Zenon DEF IInv, TypeOK

LEMMA AcquireRetiringInd ==
  ASSUME IInv, NEW c \in Callers, AcquireRetiring(c) PROVE IInv'
<1> USE DEF AcquireRetiring
<1>1. arg[c] \in Docs /\ entries[arg[c]] \in Gens /\ pc[entries[arg[c]]] # "unborn"
  BY RegistryAssumption DEF IInv, TypeOK, ProcInv, LifeInv, MapInv
<1>2. TypeOK'
  BY <1>1, Zenon DEF IInv, TypeOK, PCs, Procs
<1>3. ProcInv'
  BY <1>1, RegistryAssumption DEF IInv, TypeOK, ProcInv, CallerPCs, Procs
<1> QED
  BY <1>2, <1>3, QuietStep, Zenon DEF IInv, TypeOK

LEMMA AwaitDoneInd ==
  ASSUME IInv, NEW c \in Callers, AwaitDone(c) PROVE IInv'
<1> USE DEF AwaitDone, Forget
<1>1. PICK x \in {"lookup", "idle"} : pc' = [pc EXCEPT ![c] = x]
  OBVIOUS
<1>2. TypeOK'
  BY <1>1, Zenon DEF IInv, TypeOK, PCs, Procs
<1>3. ProcInv'
  BY <1>1, RegistryAssumption DEF IInv, TypeOK, ProcInv, CallerPCs, Procs
<1> QED
  BY <1>1, <1>2, <1>3, QuietStep, Zenon DEF IInv, TypeOK

LEMMA AwaitDrainInd ==
  ASSUME IInv, NEW c \in Callers, AwaitDrain(c) PROVE IInv'
<1> USE DEF AwaitDrain, Forget
<1>1. TypeOK'
  BY Zenon DEF IInv, TypeOK, PCs, Procs
<1>2. ProcInv'
  BY RegistryAssumption DEF IInv, TypeOK, ProcInv, CallerPCs, Procs
<1> QED
  BY <1>1, <1>2, QuietStep, Zenon DEF IInv, TypeOK

-----------------------------------------------------------------------------
(* Acquire: joining and creating a generation.                             *)

LEMMA AcquireJoinInd ==
  ASSUME IInv, NEW c \in Callers, AcquireJoin(c) PROVE IInv'
<1> DEFINE g == entries[arg[c]]
           f == [gen[g] EXCEPT !.waiters = @ + 1]
<1> USE DEF IInv
<1>1. arg[c] \in Docs /\ g \in Gens /\ pc[g] # "unborn" /\ gen[g].id = arg[c] /\ gen[g] \in EntryType
  BY RegistryAssumption DEF AcquireJoin, TypeOK, ProcInv, LifeInv, MapInv
<1>2. /\ f \in EntryType /\ f.waiters = gen[g].waiters + 1
      /\ f.id = gen[g].id /\ f.ready = gen[g].ready /\ f.invalidated = gen[g].invalidated
      /\ f.done = gen[g].done /\ f.claimed = gen[g].claimed
      /\ f.doc = gen[g].doc /\ f.err = gen[g].err /\ f.refs = gen[g].refs
      /\ f.closing = gen[g].closing /\ f.poisoned = gen[g].poisoned
      /\ f.destroying = gen[g].destroying /\ f.destroys = gen[g].destroys
  BY <1>1 DEF EntryType
<1>3. /\ gen' = [gen EXCEPT ![g] = f] /\ pc' = [pc EXCEPT ![c] = "awaitEntry"]
      /\ ent' = [ent EXCEPT ![c] = g]
      /\ pc[c] = "lookup" /\ ~closed
      /\ UNCHANGED <<closed, entries, draining, arg, ctxDone, todo, ret>>
  BY Zenon DEF AcquireJoin
<1> HIDE DEF f, g
<1>4. TypeOK'
  BY <1>1, <1>2, <1>3, Zenon DEF TypeOK, PCs, Procs
<1>5. /\ \A h \in Gens : gen'[h] = IF h = g THEN f ELSE gen[h]
      /\ \A p \in Procs : pc'[p] = IF p = c THEN "awaitEntry" ELSE pc[p]
      /\ \A p \in Procs : ent'[p] = IF p = c THEN g ELSE ent[p]
      /\ \A h \in Gens : pc'[h] = pc[h] /\ h \in Procs /\ ent'[h] = ent[h]
      /\ Registered' = Registered
  BY <1>3, RegistryAssumption DEF TypeOK, Procs, Registered
<1>6. ProcInv'
  BY <1>1, <1>2, <1>3, <1>5 DEF ProcInv, CallerPCs, Procs
<1>7. LifeInv'
  BY <1>1, <1>2, <1>3, <1>5 DEF LifeInv
<1>8. MapInv'
  BY <1>1, <1>2, <1>3, <1>5 DEF MapInv, TypeOK, EntryType
<1>9. RefsInv'
  <2> SUFFICES ASSUME NEW h \in Gens PROVE RefsInv!(h)'
    BY Zenon DEF RefsInv
  <2>1. Holders(h)' = Holders(h)
    BY <1>3, <1>5, HoldersKept DEF Procs
  <2> QED
    BY <1>2, <1>5, <2>1 DEF RefsInv
<1>10. DrainInv'
  BY <1>2, <1>3, <1>5 DEF DrainInv
<1>11. OwnerInv'
  BY <1>2, <1>3, <1>5 DEF OwnerInv, FinishInv, EvictInv, CloseInv, SoleOwnerInv, Procs
<1>12. ClosedInv'
  BY <1>3, Zenon DEF ClosedInv
<1> QED
  BY <1>4, <1>6, <1>7, <1>8, <1>9, <1>10, <1>11, <1>12, Zenon

LEMMA AcquireCreateInd ==
  ASSUME IInv, NEW c \in Callers, NEW g \in Gens, AcquireCreate(c, g) PROVE IInv'
<1> DEFINE f == NewEntry(arg[c])
<1> USE DEF IInv
<1>1. arg[c] \in Docs /\ pc[g] = "unborn" /\ gen[g] \in EntryType
  BY Zenon DEF AcquireCreate, TypeOK, ProcInv
<1>2. /\ f \in EntryType /\ f.waiters = 1 /\ f.id = arg[c] /\ f.ready = FALSE
      /\ f.done = 0 /\ f.claimed = FALSE /\ f.doc = FALSE /\ f.err = FALSE /\ f.refs = 0
      /\ f.closing = FALSE /\ f.poisoned = FALSE /\ f.destroying = FALSE /\ f.destroys = 0
  BY <1>1, Zenon DEF EntryType, NewEntry
<1>3. /\ gen' = [gen EXCEPT ![g] = f]
      /\ pc' = [pc EXCEPT ![c] = "awaitEntry", ![g] = "open"]
      /\ ent' = [ent EXCEPT ![c] = g, ![g] = g]
      /\ entries' = [entries EXCEPT ![arg[c]] = g]
  BY Zenon DEF AcquireCreate
<1>0. /\ pc[c] = "lookup" /\ ~closed /\ entries[arg[c]] = None
      /\ UNCHANGED <<closed, draining, arg, ctxDone, todo, ret>>
  BY Zenon DEF AcquireCreate
<1> HIDE DEF f
<1>4. TypeOK'
  BY <1>0, <1>1, <1>2, <1>3, Zenon DEF TypeOK, PCs, Procs
<1>5. /\ \A h \in Gens : gen'[h] = IF h = g THEN f ELSE gen[h]
      /\ \A d \in Docs : entries'[d] = IF d = arg[c] THEN g ELSE entries[d]
      /\ \A b \in Callers : pc'[b] = IF b = c THEN "awaitEntry" ELSE pc[b]
      /\ \A b \in Callers : ent'[b] = IF b = c THEN g ELSE ent[b]
      /\ \A h \in Gens : pc'[h] = IF h = g THEN "open" ELSE pc[h]
      /\ \A h \in Gens : ent'[h] = IF h = g THEN g ELSE ent[h]
  BY <1>1, <1>3, RegistryAssumption DEF TypeOK, Procs
<1>6. /\ g \notin Registered /\ Registered' = Registered \cup {g}
      /\ \A d \in Docs : entries[d] # g
  BY <1>0, <1>1, <1>5, RegistryAssumption DEF TypeOK, LifeInv, MapInv, Registered
<1>7. ProcInv'
  BY <1>1, <1>2, <1>0, <1>5 DEF ProcInv, CallerPCs, GenPCs
<1>8. LifeInv'
  <2> SUFFICES ASSUME NEW h \in Gens PROVE LifeInv!(h)'
    BY Zenon DEF LifeInv
  <2>1. CASE h = g
    BY <1>1, <1>2, <1>5, <2>1, Zenon
  <2>2. CASE h # g
    BY <1>5, <2>2 DEF LifeInv
  <2> QED
    BY <2>1, <2>2, Zenon
<1>9. MapInv'
  BY <1>1, <1>2, <1>0, <1>5, <1>6, RegistryAssumption DEF MapInv, LifeInv, TypeOK
<1>10. RefsInv'
  <2> SUFFICES ASSUME NEW h \in Gens PROVE RefsInv!(h)'
    BY Zenon DEF RefsInv
  <2>1. Holders(h)' = Holders(h)
    BY <1>0, <1>5, HoldersKept, Zenon
  <2>2. gen[g].refs = 0
    BY <1>1, Zenon DEF LifeInv
  <2> QED
    BY <1>2, <1>5, <2>1, <2>2 DEF RefsInv
<1>11. DrainInv'
  BY <1>1, <1>2, <1>0, <1>5 DEF DrainInv, LifeInv
<1>12. OwnerInv'
  <2>1. FinishInv'
    BY <1>0, <1>1, <1>5 DEF FinishInv, OwnerInv, ProcInv, Procs
  <2>2. EvictInv'
    BY <1>0, <1>1, <1>5, <1>6, RegistryAssumption DEF EvictInv, OwnerInv, ProcInv, LifeInv
  <2>3. CloseInv'
    BY <1>0, <1>5, Zenon DEF CloseInv, OwnerInv
  <2>4. SoleOwnerInv'
    BY <1>0, <1>1, <1>5 DEF SoleOwnerInv, OwnerInv, ProcInv, Procs
  <2> QED
    BY <2>1, <2>2, <2>3, <2>4 DEF OwnerInv
<1>13. ClosedInv'
  BY <1>0, Zenon DEF ClosedInv
<1> QED
  BY <1>4, <1>7, <1>8, <1>9, <1>10, <1>11, <1>12, <1>13, Zenon

-----------------------------------------------------------------------------
(* Leaving a critical section: what LeaveLocked does, and that it hands a  *)
(* teardown to one owner.                                                  *)

LEMMA LeaveType ==
  ASSUME TypeOK, NEW p \in Procs, NEW g \in Gens, NEW e \in EntryType, NEW next \in PCs,
         LeaveLocked(p, g, e, next),
         Takes(e) => next \in {"idle", "lookup", "awaitDrain", "exited"}
  PROVE  /\ gen' \in [Gens -> EntryType]
         /\ pc' \in [Procs -> PCs]
         /\ todo' \in [Procs -> SUBSET Gens]
         /\ ret' \in [Procs -> {"idle", "lookup", "awaitDrain", "exited"}]
BY TakeFields DEF LeaveLocked, TypeOK, PCs

LEMMA LeaveOwner ==
  ASSUME IInv, NEW p \in Procs, NEW g \in Gens, NEW e \in EntryType, NEW next,
         LeaveLocked(p, g, e, next),
         pc[p] \notin {"finish", "evict", "close"}, next \notin {"finish", "evict", "close"},
         \A q \in Procs : q # p => ent'[q] = ent[q],
         Takes(e) => ent'[p] = g /\ e.destroys = 0 /\ g \in draining',
         draining \subseteq draining', UNCHANGED closed, closed => UNCHANGED entries,
         e.id = gen[g].id, e.destroying = gen[g].destroying, e.destroys = gen[g].destroys,
         gen[g].ready => e.ready /\ e.doc = gen[g].doc,
         gen[g].closing => e.closing,
         \A d \in Docs : \/ entries'[d] = entries[d]
                         \/ entries[d] # None /\ ~gen[entries[d]].closing
  PROVE  OwnerInv'
<1> DEFINE f == takePoisonedDestroyLocked(e)
<1>2. \A h \in Gens : gen'[h] = IF h = g THEN f ELSE gen[h]
  BY Zenon DEF LeaveLocked, IInv, TypeOK
<1>3. /\ \A q \in Procs : q # p => pc'[q] = pc[q] /\ todo'[q] = todo[q]
      /\ Takes(e) => pc'[p] = "finish" /\ todo'[p] = IF e.doc THEN {g} ELSE {}
      /\ ~Takes(e) => pc'[p] = next /\ todo'[p] = todo[p]
  BY ZenonT(30) DEF LeaveLocked, IInv, TypeOK
<1> USE DEF IInv
<1>1. /\ f.id = e.id /\ f.ready = e.ready /\ f.doc = e.doc /\ f.closing = e.closing
      /\ f.destroys = e.destroys /\ (f.destroying <=> e.destroying \/ Takes(e))
  BY TakeFields, Zenon
<1> HIDE DEF f
<1>4. \A q \in Procs : pc[q] \in {"finish", "evict"} => ent[q] \in Gens
  BY DEF ProcInv, GenPCs, Procs
<1>5. FinishInv'
  <2> SUFFICES ASSUME NEW q \in Procs, pc'[q] = "finish" PROVE FinishInv!(q)!2'
    BY Zenon DEF FinishInv
  <2>1. CASE q = p
    BY <1>1, <1>2, <1>3, <2>1
  <2>2. CASE q # p
    <3>1. gen[ent[q]].destroying /\ gen[ent[q]].ready /\ ent[q] \in Gens
      BY <1>3, <1>4, <2>2 DEF OwnerInv, FinishInv, LifeInv
    <3>2. CASE ent[q] = g
      <4>1. e.destroying = TRUE /\ e.doc = gen[g].doc
        BY <3>1, <3>2, Zenon DEF TypeOK, EntryType
      <4>2. f.destroying
        BY <1>1, <4>1, Zenon
      <4> QED
        BY <1>1, <1>2, <1>3, <2>2, <3>1, <3>2, <4>1, <4>2 DEF OwnerInv, FinishInv
    <3>3. CASE ent[q] # g
      BY <1>2, <1>3, <2>2, <3>1, <3>3 DEF OwnerInv, FinishInv
    <3> QED
      BY <3>2, <3>3, Zenon
  <2> QED
    BY <2>1, <2>2, Zenon
<1>6. EvictInv'
  <2> SUFFICES ASSUME NEW q \in Callers, pc'[q] = "evict" PROVE EvictInv!(q)!2'
    BY Zenon DEF EvictInv
  <2>1. q # p /\ q \in Procs
    BY <1>3, Zenon DEF Procs
  <2>2. ent[q] \in Gens /\ gen[ent[q]].id \in Docs
    BY <1>3, <2>1 DEF ProcInv, LifeInv
  <2> QED
    BY <1>1, <1>2, <1>3, <2>1, <2>2 DEF OwnerInv, EvictInv
<1>7. CloseInv'
  <2> SUFFICES ASSUME NEW q \in Callers, pc'[q] = "close" PROVE CloseInv!(q)!2'
    BY Zenon DEF CloseInv
  <2>1. q # p /\ q \in Procs
    BY <1>3, Zenon DEF Procs
  <2>2. closed /\ Registered' = Registered /\ Registered \subseteq Gens
    BY <1>3, <2>1 DEF OwnerInv, CloseInv, Registered, TypeOK
  <2> QED
    BY <1>1, <1>2, <1>3, <2>1, <2>2 DEF OwnerInv, CloseInv
<1>8. SoleOwnerInv'
  <2>1. ASSUME NEW q \in Procs, q # p, pc[q] = "finish", ent[q] = g
        PROVE  ~Takes(e)
    BY <2>1, Zenon DEF OwnerInv, FinishInv, Takes
  <2> QED
    BY <1>3, <2>1 DEF OwnerInv, SoleOwnerInv, Procs
<1> QED
  BY <1>5, <1>6, <1>7, <1>8, Zenon DEF OwnerInv

-----------------------------------------------------------------------------
(* runOpen, after the OpenFunc returned.                                   *)

LEMMA OpenFields ==
  ASSUME NEW e \in EntryType, NEW failed \in BOOLEAN
  PROVE  LET f == [e EXCEPT !.ready = TRUE, !.doc = ~failed, !.err = failed]
         IN /\ f \in EntryType /\ f.ready /\ (f.doc <=> ~failed) /\ (f.err <=> failed)
            /\ f.id = e.id /\ f.invalidated = e.invalidated
            /\ f.done = e.done /\ f.waiters = e.waiters /\ f.claimed = e.claimed
            /\ f.refs = e.refs /\ f.closing = e.closing /\ f.poisoned = e.poisoned
            /\ f.destroying = e.destroying /\ f.destroys = e.destroys
BY Zenon DEF EntryType

\* The open of a poisoned generation returns: its goroutine tears it down.
LEMMA OpenPoisonedInd ==
  ASSUME IInv, NEW g \in Gens, NEW failed \in BOOLEAN, OpenReturns(g, failed), gen[g].poisoned
  PROVE  IInv'
<1> DEFINE e == [gen[g] EXCEPT !.ready = TRUE, !.doc = ~failed, !.err = failed]
           f == takePoisonedDestroyLocked(e)
<1> USE DEF IInv
<1>1. pc[g] = "open" /\ g \in Procs /\ gen[g] \in EntryType /\ ent[g] = g /\ g \notin Callers
  BY RegistryAssumption, Zenon DEF OpenReturns, ProcInv, TypeOK, Procs
<1>2. /\ e \in EntryType /\ e.ready /\ (e.doc <=> ~failed) /\ (e.err <=> failed)
      /\ e.id = gen[g].id /\ e.invalidated = gen[g].invalidated
      /\ e.done = gen[g].done /\ e.waiters = gen[g].waiters /\ e.claimed = gen[g].claimed
      /\ e.refs = gen[g].refs /\ e.closing = gen[g].closing /\ e.poisoned = gen[g].poisoned
      /\ e.destroying = gen[g].destroying /\ e.destroys = gen[g].destroys
  BY <1>1, OpenFields, ZenonT(30)
<1>3. LeaveLocked(g, g, e, "exited") /\ Forget(g) /\ UNCHANGED <<closed, entries, draining>>
  BY <1>2, Zenon DEF OpenReturns
<1> HIDE DEF e
<1>4. /\ gen[g].refs = 0 /\ ~gen[g].ready /\ ~gen[g].destroying /\ gen[g].closing
      /\ gen[g].destroys = 0 /\ gen[g].done = 0 /\ g \in draining /\ ~closed
  BY <1>1, Zenon DEF LifeInv, DrainInv, ClosedInv
<1>5. Takes(e)
  BY <1>2, <1>4, Zenon DEF Takes
<1>6. /\ f \in EntryType /\ f.destroying /\ f.ready /\ (f.doc <=> ~f.err)
      /\ f.id = gen[g].id /\ f.done = gen[g].done /\ f.waiters = gen[g].waiters
      /\ f.claimed = gen[g].claimed /\ f.refs = gen[g].refs /\ f.destroys = gen[g].destroys
      /\ f.closing /\ f.poisoned
  BY <1>2, <1>4, <1>5, TakeFields, Zenon
<1> HIDE DEF f
<1>7. /\ \A h \in Gens : gen'[h] = IF h = g THEN f ELSE gen[h]
      /\ \A q \in Procs : q # g => pc'[q] = pc[q] /\ ret'[q] = ret[q]
      /\ pc'[g] = "finish" /\ ret'[g] = "exited"
  BY <1>1, <1>3, <1>5 DEF LeaveLocked, TypeOK, f
<1>8. UNCHANGED <<ent, arg, ctxDone>>
  BY <1>3, <1>7, Zenon DEF Forget
<1>9. \A q \in Callers : pc'[q] = pc[q] /\ ret'[q] = ret[q]
  BY <1>1, <1>7, Zenon DEF Procs
<1>10. TypeOK'
  <2>1. /\ gen' \in [Gens -> EntryType] /\ pc' \in [Procs -> PCs]
        /\ todo' \in [Procs -> SUBSET Gens]
        /\ ret' \in [Procs -> {"idle", "lookup", "awaitDrain", "exited"}]
    BY <1>1, <1>2, <1>3, LeaveType, Zenon DEF PCs
  <2> QED
    BY <1>3, <1>8, <2>1, Zenon DEF TypeOK
<1>11. ProcInv'
  <2>1. \A h \in Gens : gen'[h].id = gen[h].id
    BY <1>6, <1>7, Zenon
  <2> QED
    BY <1>1, <1>7, <1>8, <1>9, <2>1 DEF ProcInv, GenPCs, Procs
<1>12. LifeInv'
  <2> SUFFICES ASSUME NEW h \in Gens PROVE LifeInv!(h)'
    BY Zenon DEF LifeInv
  <2>1. CASE h = g
    BY <1>1, <1>4, <1>6, <1>7, <2>1 DEF LifeInv
  <2>2. CASE h # g
    BY <1>7, <2>2 DEF LifeInv, Procs
  <2> QED
    BY <2>1, <2>2, Zenon
<1>13. MapInv'
  BY <1>1, <1>3, <1>4, <1>6, <1>7 DEF MapInv, TypeOK, Procs
<1>14. RefsInv'
  <2> SUFFICES ASSUME NEW h \in Gens PROVE RefsInv!(h)'
    BY Zenon DEF RefsInv
  <2>1. Holders(h)' = Holders(h)
    BY <1>8, <1>9, HoldersKept, Zenon
  <2> QED
    BY <1>4, <1>6, <1>7, <2>1 DEF RefsInv
<1>15. DrainInv'
  BY <1>3, <1>4, <1>6, <1>7 DEF DrainInv
<1>16. OwnerInv'
  BY <1>1, <1>2, <1>3, <1>4, <1>8, LeaveOwner, Zenon
<1>17. ClosedInv'
  BY <1>3, <1>4, Zenon DEF ClosedInv
<1> QED
  BY <1>10, <1>11, <1>12, <1>13, <1>14, <1>15, <1>16, <1>17, Zenon

LEMMA FailFields ==
  ASSUME NEW e \in EntryType, NEW n \in Nat
  PROVE  LET f == [e EXCEPT !.closing = TRUE, !.done = n]
         IN /\ f \in EntryType /\ f.closing /\ f.done = n
            /\ f.id = e.id /\ f.invalidated = e.invalidated /\ f.ready = e.ready
            /\ f.doc = e.doc /\ f.err = e.err /\ f.waiters = e.waiters
            /\ f.claimed = e.claimed /\ f.refs = e.refs /\ f.poisoned = e.poisoned
            /\ f.destroying = e.destroying /\ f.destroys = e.destroys
BY Zenon DEF EntryType

\* Any other open returns: with a document to serve, or with an error that
\* retires the generation at once.
LEMMA OpenServedInd ==
  ASSUME IInv, NEW g \in Gens, NEW failed \in BOOLEAN, OpenReturns(g, failed), ~gen[g].poisoned
  PROVE  IInv'
<1> DEFINE e == [gen[g] EXCEPT !.ready = TRUE, !.doc = ~failed, !.err = failed]
           f == IF failed THEN [e EXCEPT !.closing = TRUE, !.done = @ + 1] ELSE e
<1> USE DEF IInv
<1>1. pc[g] = "open" /\ g \in Procs /\ gen[g] \in EntryType /\ ent[g] = g /\ g \notin Callers
  BY RegistryAssumption, Zenon DEF OpenReturns, ProcInv, TypeOK, Procs
<1>2. /\ e \in EntryType /\ e.ready /\ (e.doc <=> ~failed) /\ (e.err <=> failed)
      /\ e.id = gen[g].id /\ e.invalidated = gen[g].invalidated
      /\ e.done = gen[g].done /\ e.waiters = gen[g].waiters /\ e.claimed = gen[g].claimed
      /\ e.refs = gen[g].refs /\ e.closing = gen[g].closing /\ e.poisoned = gen[g].poisoned
      /\ e.destroying = gen[g].destroying /\ e.destroys = gen[g].destroys
  BY <1>1, OpenFields, Zenon
<1>3. /\ gen' = [gen EXCEPT ![g] = f]
      /\ entries' = IF failed /\ entries[e.id] = g THEN [entries EXCEPT ![e.id] = None] ELSE entries
      /\ pc' = [pc EXCEPT ![g] = "exited"]
      /\ Forget(g) /\ UNCHANGED <<closed, draining, ret, todo>>
  BY <1>2, Zenon DEF OpenReturns
<1> HIDE DEF e
<1>4. /\ gen[g].refs = 0 /\ ~gen[g].ready /\ ~gen[g].destroying /\ ~gen[g].closing
      /\ gen[g].destroys = 0 /\ gen[g].done = 0 /\ g \notin draining /\ ~closed
      /\ gen[g].id \in Docs /\ entries[gen[g].id] = g
  BY <1>1, Zenon DEF LifeInv, DrainInv, ClosedInv, MapInv
<1>5. /\ f \in EntryType /\ f.ready /\ (f.doc <=> ~failed) /\ (f.err <=> failed)
      /\ f.id = gen[g].id /\ f.waiters = gen[g].waiters
      /\ f.claimed = gen[g].claimed /\ f.refs = 0 /\ f.destroys = 0
      /\ ~f.poisoned /\ ~f.destroying /\ (f.closing <=> failed)
      /\ f.done = IF failed THEN 1 ELSE 0
  <2>1. e.done + 1 = 1
    BY <1>2, <1>4
  <2>2. CASE failed
    <3> DEFINE x == [e EXCEPT !.closing = TRUE, !.done = 1]
    <3>1. f = x
      BY <2>1, <2>2, Zenon
    <3>2. /\ x \in EntryType /\ x.closing /\ x.done = 1
          /\ x.id = e.id /\ x.ready = e.ready /\ x.doc = e.doc /\ x.err = e.err
          /\ x.waiters = e.waiters /\ x.claimed = e.claimed /\ x.refs = e.refs
          /\ x.poisoned = e.poisoned /\ x.destroying = e.destroying /\ x.destroys = e.destroys
      <4>1. 1 \in Nat /\ e \in EntryType
        BY <1>2, Zenon
      <4> QED
        BY ONLY <4>1, FailFields, ZenonT(30)
    <3> HIDE DEF f, x
    <3> QED
      BY <1>2, <1>4, <2>2, <3>1, <3>2, Zenon
  <2>3. CASE ~failed
    BY <1>2, <1>4, <2>3, Zenon
  <2> QED
    BY <2>2, <2>3, Zenon
<1> HIDE DEF f
<1>6. /\ \A d \in Docs : entries'[d] = IF failed /\ d = gen[g].id THEN None ELSE entries[d]
      /\ entries' \in [Docs -> Gens \cup {None}]
  BY <1>2, <1>3, <1>4, Zenon DEF TypeOK
<1>7. /\ \A h \in Gens : gen'[h] = IF h = g THEN f ELSE gen[h]
      /\ \A q \in Procs : q # g => pc'[q] = pc[q] /\ ent'[q] = ent[q] /\ arg'[q] = arg[q]
      /\ pc'[g] = "exited"
  BY <1>1, <1>3, Zenon DEF TypeOK, Forget
<1>8. \A q \in Callers : q \in Procs /\ q # g /\ pc'[q] = pc[q] /\ ent'[q] = ent[q] /\ arg'[q] = arg[q]
  BY <1>1, <1>7, Zenon DEF Procs
<1>9. TypeOK'
  BY <1>1, <1>3, <1>5, <1>6, Zenon DEF TypeOK, PCs, Forget
<1>10. ProcInv'
  <2>1. \A h \in Gens : gen'[h].id = gen[h].id
    BY <1>5, <1>7, Zenon
  <2> QED
    BY <1>1, <1>3, <1>7, <1>8, <2>1 DEF ProcInv, GenPCs, Procs
<1>11. LifeInv'
  <2> SUFFICES ASSUME NEW h \in Gens PROVE LifeInv!(h)'
    BY Zenon DEF LifeInv
  <2>1. CASE h = g
    BY <1>1, <1>4, <1>5, <1>7, <2>1 DEF LifeInv
  <2>2. CASE h # g
    BY <1>7, <2>2 DEF LifeInv, Procs
  <2> QED
    BY <2>1, <2>2, Zenon
<1>12. MapInv'
  <2>1. ASSUME NEW d \in Docs, entries'[d] # None PROVE MapInv!1!(d)!2'
    <3>1. entries'[d] = entries[d] /\ entries[d] \in Gens
      BY <1>6, <2>1, Zenon DEF TypeOK
    <3>2. CASE entries[d] = g
      <4>1. ~failed
        BY <1>6, <2>1, <3>2, Zenon DEF MapInv
      <4> QED
        BY <1>4, <1>5, <1>7, <2>1, <3>1, <3>2, <4>1 DEF MapInv
    <3>3. CASE entries[d] # g
      BY <1>7, <2>1, <3>1, <3>3 DEF MapInv
    <3> QED
      BY <3>2, <3>3, Zenon
  <2>2. ASSUME NEW h \in Gens PROVE MapInv!2!(h)'
    <3>1. CASE h = g
      BY <1>4, <1>5, <1>6, <1>7, <3>1
    <3>2. CASE h # g
      <4>1. pc[h] # "unborn" => gen[h].id \in Docs
        BY <1>4, Zenon DEF LifeInv
      <4> QED
        BY <1>4, <1>6, <1>7, <3>2, <4>1 DEF MapInv, Procs
    <3> QED
      BY <3>1, <3>2, Zenon
  <2> QED
    BY <2>1, <2>2, Zenon DEF MapInv
<1>13. RefsInv'
  <2> SUFFICES ASSUME NEW h \in Gens PROVE RefsInv!(h)'
    BY Zenon DEF RefsInv
  <2>1. Holders(h)' = Holders(h)
    BY <1>8, HoldersKept, Zenon
  <2> QED
    BY <1>4, <1>5, <1>7, <2>1 DEF RefsInv
<1>14. DrainInv'
  BY <1>3, <1>4, <1>5, <1>7 DEF DrainInv
<1>15. OwnerInv'
  <2>0. \A q \in Procs : pc[q] \in {"finish", "evict"} => ent[q] \in Gens /\ ent[q] # g
    BY <1>1, <1>4 DEF ProcInv, GenPCs, Procs, OwnerInv, FinishInv, EvictInv
  <2>1. ASSUME NEW q \in Procs, pc'[q] = "finish" PROVE FinishInv!(q)!2'
    <3>1. pc[q] = "finish" /\ ent'[q] = ent[q] /\ todo'[q] = todo[q] /\ gen'[ent[q]] = gen[ent[q]]
      BY <1>3, <1>7, <2>0, <2>1
    <3> QED
      BY <1>3, <3>1, ZenonT(30) DEF OwnerInv, FinishInv
  <2>2. EvictInv'
    BY <1>3, <1>4, <1>6, <1>7, <1>8, <2>0, RegistryAssumption DEF OwnerInv, EvictInv, ProcInv, LifeInv
  <2>3. CloseInv'
    BY <1>4, <1>8, Zenon DEF OwnerInv, CloseInv
  <2>4. SoleOwnerInv'
    BY <1>1, <1>3, <1>7, <1>8 DEF OwnerInv, SoleOwnerInv, Procs
  <2> QED
    BY <2>1, <2>2, <2>3, <2>4, Zenon DEF OwnerInv, FinishInv
<1>16. ClosedInv'
  BY <1>3, <1>4, Zenon DEF ClosedInv
<1> QED
  BY <1>9, <1>10, <1>11, <1>12, <1>13, <1>14, <1>15, <1>16, Zenon

=============================================================================
