-------------------------- MODULE RegistryTeardown --------------------------
(***************************************************************************)
(* The invariant is kept by Invalidate, by Destroy, and by what ends a     *)
(* teardown: finishPoisoned and the last steps of Evict and of Close.      *)
(***************************************************************************)
EXTENDS RegistryAcquire

-----------------------------------------------------------------------------
(* Invalidate.                                                             *)

LEMMA PoisonFields ==
  ASSUME NEW e \in EntryType
  PROVE  LET f == [e EXCEPT !.closing = TRUE, !.poisoned = TRUE, !.cancelled = TRUE,
                            !.invalidated = TRUE]
         IN /\ f \in EntryType /\ f.closing /\ f.poisoned /\ f.invalidated
            /\ f.id = e.id /\ f.ready = e.ready /\ f.done = e.done
            /\ f.doc = e.doc /\ f.err = e.err /\ f.waiters = e.waiters
            /\ f.claimed = e.claimed /\ f.refs = e.refs
            /\ f.destroying = e.destroying /\ f.destroys = e.destroys
BY Zenon DEF EntryType

LEMMA InvalidateInd ==
  ASSUME IInv, NEW c \in Callers, NEW d \in Docs, Invalidate(c, d) PROVE IInv'
<1> USE DEF IInv
<1>1. PICK g \in Gens : g = entries[d]
  BY Zenon DEF Invalidate, TypeOK
<1> DEFINE e == [gen[g] EXCEPT !.closing = TRUE, !.poisoned = TRUE, !.cancelled = TRUE,
                               !.invalidated = TRUE]
           f == takePoisonedDestroyLocked(e)
<1>2. /\ pc[c] = "idle" /\ c \in Procs /\ ~closed /\ ~gen[g].closing /\ gen[g] \in EntryType
      /\ gen[g].id = d
  BY <1>1, RegistryAssumption, Zenon DEF Invalidate, TypeOK, Procs, MapInv
<1>3. /\ entries' = [entries EXCEPT ![d] = None] /\ draining' = draining \cup {g}
      /\ LeaveLocked(c, g, e, "awaitDrain") /\ ent' = [ent EXCEPT ![c] = g]
      /\ ctxDone' = [ctxDone EXCEPT ![c] = FALSE] /\ UNCHANGED <<closed, arg>>
  BY <1>1, Zenon DEF Invalidate
<1>4. /\ e \in EntryType /\ e.closing /\ e.poisoned /\ e.invalidated
      /\ e.id = gen[g].id /\ e.ready = gen[g].ready /\ e.done = gen[g].done
      /\ e.doc = gen[g].doc /\ e.err = gen[g].err /\ e.waiters = gen[g].waiters
      /\ e.claimed = gen[g].claimed /\ e.refs = gen[g].refs
      /\ e.destroying = gen[g].destroying /\ e.destroys = gen[g].destroys
  BY <1>2, PoisonFields, Zenon
<1> HIDE DEF e
<1>5. /\ f \in EntryType /\ (f.destroying <=> e.destroying \/ Takes(e))
      /\ f.closing /\ f.poisoned /\ f.invalidated
      /\ f.id = gen[g].id /\ f.ready = gen[g].ready /\ f.done = gen[g].done
      /\ f.doc = gen[g].doc /\ f.err = gen[g].err /\ f.waiters = gen[g].waiters
      /\ f.claimed = gen[g].claimed /\ f.refs = gen[g].refs /\ f.destroys = gen[g].destroys
  BY <1>4, TakeFields, Zenon
<1> HIDE DEF f
<1>6. /\ gen[g].done = 0 /\ gen[g].destroys = 0 /\ ~gen[g].poisoned /\ ~gen[g].destroying
      /\ pc[g] # "unborn" /\ (gen[g].ready => ~gen[g].err)
      /\ \A x \in Docs : entries[x] = g => x = d
  BY <1>1, <1>2, RegistryAssumption DEF LifeInv, DrainInv, MapInv
<1>7. Takes(e) => e.refs = 0 /\ e.ready
  BY DEF Takes
<1>8. /\ \A h \in Gens : gen'[h] = IF h = g THEN f ELSE gen[h]
      /\ \A q \in Procs : q # c => pc'[q] = pc[q] /\ ret'[q] = ret[q] /\ ent'[q] = ent[q]
      /\ Takes(e) => pc'[c] = "finish" /\ ret'[c] = "awaitDrain"
      /\ ~Takes(e) => pc'[c] = "awaitDrain"
      /\ ent'[c] = g
      /\ \A x \in Docs : entries'[x] = IF x = d THEN None ELSE entries[x]
  BY <1>2, <1>3 DEF LeaveLocked, TypeOK, f
<1>9. \A h \in Gens : h # c /\ h \in Procs /\ pc'[h] = pc[h] /\ ret'[h] = ret[h] /\ ent'[h] = ent[h]
  BY <1>8, RegistryAssumption, Zenon DEF Procs
<1>10. TypeOK'
  <2>1. /\ gen' \in [Gens -> EntryType] /\ pc' \in [Procs -> PCs]
        /\ todo' \in [Procs -> SUBSET Gens]
        /\ ret' \in [Procs -> {"idle", "lookup", "awaitDrain", "exited"}]
    BY <1>2, <1>3, <1>4, LeaveType, Zenon DEF PCs
  <2> QED
    BY <1>2, <1>3, <2>1, Zenon DEF TypeOK
<1>11. ProcInv'
  <2>1. \A h \in Gens : gen'[h].id = gen[h].id
    BY <1>5, <1>8, Zenon
  <2>2. arg' = arg
    BY <1>3, Zenon
  <2>3. ASSUME NEW q \in Callers PROVE ProcInv!1!(q)'
    <3>1. CASE q = c
      BY <1>2, <1>6, <1>8, <1>9, <2>1, <3>1 DEF ProcInv, CallerPCs
    <3>2. CASE q # c
      BY <1>8, <1>9, <2>1, <2>2, <3>2 DEF ProcInv, Procs
    <3> QED
      BY <3>1, <3>2, Zenon
  <2>4. ASSUME NEW h \in Gens PROVE ProcInv!2!(h)'
    BY <1>9 DEF ProcInv
  <2> QED
    BY <2>3, <2>4, Zenon DEF ProcInv
<1>12. LifeInv'
  <2> SUFFICES ASSUME NEW h \in Gens PROVE LifeInv!(h)'
    BY Zenon DEF LifeInv
  <2>1. CASE h = g
    BY <1>4, <1>5, <1>6, <1>7, <1>8, <1>9, <2>1 DEF LifeInv
  <2>2. CASE h # g
    BY <1>8, <1>9, <2>2 DEF LifeInv
  <2> QED
    BY <2>1, <2>2, Zenon
<1>13. MapInv'
  <2>1. ASSUME NEW x \in Docs, entries'[x] # None PROVE MapInv!1!(x)!2'
    <3>1. entries'[x] = entries[x] /\ entries[x] \in Gens /\ entries[x] # g
      BY <1>6, <1>8, <2>1 DEF TypeOK
    <3> QED
      BY <1>8, <2>1, <3>1 DEF MapInv
  <2>2. ASSUME NEW h \in Gens PROVE MapInv!2!(h)'
    <3>1. CASE h = g
      BY <1>5, <1>8, <3>1, Zenon
    <3>2. CASE h # g
      <4>1. pc[h] # "unborn" => gen[h].id \in Docs
        BY <1>1, Zenon DEF LifeInv
      <4> QED
        BY <1>1, <1>8, <1>9, <3>2, <4>1 DEF MapInv
    <3> QED
      BY <3>1, <3>2, Zenon
  <2> QED
    BY <2>1, <2>2, Zenon DEF MapInv
<1>14. RefsInv'
  <2> SUFFICES ASSUME NEW h \in Gens PROVE RefsInv!(h)'
    BY Zenon DEF RefsInv
  <2>1. Holders(h)' = Holders(h)
    BY <1>2, <1>8, HoldersKept DEF Procs
  <2>2. CASE h = g
    BY <1>4, <1>5, <1>6, <1>7, <1>8, <2>1, <2>2 DEF RefsInv
  <2>3. CASE h # g
    BY <1>8, <2>1, <2>3 DEF RefsInv
  <2> QED
    BY <2>2, <2>3, Zenon
<1>15. DrainInv'
  <2> SUFFICES ASSUME NEW h \in Gens PROVE DrainInv!(h)'
    BY Zenon DEF DrainInv
  <2>1. CASE h = g
    BY <1>3, <1>4, <1>5, <1>6, <1>8, <2>1
  <2>2. CASE h # g
    BY <1>3, <1>8, <2>2 DEF DrainInv
  <2> QED
    BY <2>1, <2>2, Zenon
<1>16. OwnerInv'
  <2>1. \A x \in Docs : \/ entries'[x] = entries[x]
                        \/ entries[x] # None /\ ~gen[entries[x]].closing
    BY <1>1, <1>2, <1>8, RegistryAssumption, Zenon
  <2> QED
    BY <1>2, <1>3, <1>4, <1>6, <1>8, <2>1, LeaveOwner
<1>17. ClosedInv'
  BY <1>2, <1>3, Zenon DEF ClosedInv
<1> QED
  BY <1>10, <1>11, <1>12, <1>13, <1>14, <1>15, <1>16, <1>17, Zenon

-----------------------------------------------------------------------------
(* Destroy runs outside the lock; finishPoisoned is the end of the teardown*)
(* of a poisoned entry.                                                    *)

LEMMA DestroyFields ==
  ASSUME NEW e \in EntryType
  PROVE  LET f == [e EXCEPT !.destroys = @ + 1]
         IN /\ f \in EntryType /\ f.destroys = e.destroys + 1
            /\ f.id = e.id /\ f.ready = e.ready /\ f.done = e.done /\ f.invalidated = e.invalidated
            /\ f.doc = e.doc /\ f.err = e.err /\ f.waiters = e.waiters
            /\ f.claimed = e.claimed /\ f.refs = e.refs /\ f.poisoned = e.poisoned
            /\ f.destroying = e.destroying /\ f.closing = e.closing
BY DEF EntryType

LEMMA DoneFields ==
  ASSUME NEW e \in EntryType
  PROVE  LET f == [e EXCEPT !.done = @ + 1]
         IN /\ f \in EntryType /\ f.done = e.done + 1
            /\ f.id = e.id /\ f.ready = e.ready /\ f.destroys = e.destroys
            /\ f.invalidated = e.invalidated
            /\ f.doc = e.doc /\ f.err = e.err /\ f.waiters = e.waiters
            /\ f.claimed = e.claimed /\ f.refs = e.refs /\ f.poisoned = e.poisoned
            /\ f.destroying = e.destroying /\ f.closing = e.closing
BY DEF EntryType

\* What the owner of a teardown still has to destroy is alive, out of use, and
\* no other process tears it down.
LEMMA OwnedIsAlive ==
  ASSUME IInv, NEW p \in Procs, NEW g \in todo[p],
         pc[p] \in {"finish", "evict", "close"}
  PROVE  /\ g \in Gens /\ gen[g].destroys = 0 /\ gen[g].closing /\ gen[g].ready
         /\ gen[g].done = 0
         /\ gen[g].poisoned => gen[g].destroying /\ pc[p] = "finish" /\ ent[p] = g
         /\ ~gen[g].poisoned => g \in Registered /\ pc[p] \in {"evict", "close"}
         /\ pc[p] = "evict" => ent[p] = g
         /\ \A q \in Procs : q # p /\ pc[q] \in {"finish", "evict"} => ent[q] # g
         /\ \A q \in Procs : q # p /\ pc[q] = "close" => g \notin Registered
<1> USE DEF IInv
<1>0. /\ p \in Callers \/ (p \in Gens /\ pc[p] = "finish")
      /\ \A q \in Procs : pc[q] \in {"evict", "close"} => q \in Callers
  BY Zenon DEF ProcInv, GenPCs, Procs
<1>1. CASE pc[p] = "finish"
  <2>1. /\ g = ent[p] /\ g \in Gens /\ gen[g].destroying /\ gen[g].poisoned
        /\ gen[g].destroys = 0 /\ gen[g].done = 0 /\ g \in draining
    BY <1>0, <1>1 DEF OwnerInv, FinishInv, ProcInv, DrainInv
  <2>2. gen[g].closing /\ gen[g].ready
    BY <2>1, Zenon DEF LifeInv
  <2>3. g \notin Registered
    BY <2>1 DEF MapInv, Registered
  <2>4. ASSUME NEW q \in Procs, q # p, pc[q] \in {"finish", "evict"} PROVE ent[q] # g
    <3>1. CASE pc[q] = "finish"
      BY <1>1, <2>1, <2>4, <3>1, Zenon DEF OwnerInv, SoleOwnerInv
    <3>2. CASE pc[q] = "evict"
      <4>1. entries[gen[ent[q]].id] = ent[q] /\ gen[ent[q]].id \in Docs /\ ent[q] \in Gens
        BY <1>0, <3>2, Zenon DEF OwnerInv, EvictInv, ProcInv, LifeInv
      <4> QED
        BY <2>1, <2>3, <4>1, RegistryAssumption, Zenon DEF Registered
    <3> QED
      BY <2>4, <3>1, <3>2, Zenon
  <2> QED
    BY <1>1, <2>1, <2>2, <2>3, <2>4, Zenon
<1>2. CASE pc[p] = "evict"
  <2>1. /\ p \in Callers /\ g = ent[p] /\ g \in Gens /\ gen[g].closing /\ gen[g].ready
        /\ gen[g].destroys = 0 /\ entries[gen[g].id] = g /\ gen[g].id \in Docs
    BY <1>0, <1>2 DEF OwnerInv, EvictInv, ProcInv, LifeInv
  <2>2. g \in Registered /\ ~gen[g].poisoned /\ gen[g].done = 0
    BY <2>1, RegistryAssumption DEF MapInv, Registered
  <2>3. ~closed
    BY <1>2, <2>1, Zenon DEF ClosedInv
  <2>4. ASSUME NEW q \in Procs, q # p, pc[q] \in {"finish", "evict"} PROVE ent[q] # g
    BY <1>2, <2>1, <2>2, <2>4 DEF OwnerInv, SoleOwnerInv, FinishInv, DrainInv
  <2>5. \A q \in Procs : pc[q] # "close"
    BY <1>0, <2>3, Zenon DEF OwnerInv, CloseInv
  <2> QED
    BY <1>2, <2>1, <2>2, <2>4, <2>5, Zenon
<1>3. CASE pc[p] = "close"
  <2>1. /\ p \in Callers /\ closed /\ g \in Registered /\ gen[g].destroys = 0
    BY <1>0, <1>3, Zenon DEF OwnerInv, CloseInv
  <2>2. PICK d \in Docs : entries[d] = g /\ g # None
    BY <2>1, Zenon DEF Registered
  <2>3. g \in Gens /\ ~gen[g].poisoned /\ gen[g].done = 0 /\ gen[g].closing /\ gen[g].ready
    BY <2>1, <2>2, Zenon DEF TypeOK, MapInv, ClosedInv
  <2>4. \A q \in Procs : pc[q] \notin {"finish", "evict"}
    BY <1>0, <2>1, Zenon DEF ClosedInv, Procs
  <2>5. \A q \in Procs : q # p => pc[q] # "close"
    BY <1>0, <1>3, <2>1, Zenon DEF OwnerInv, SoleOwnerInv
  <2> QED
    BY <1>3, <2>1, <2>3, <2>4, <2>5, Zenon
<1> QED
  BY <1>1, <1>2, <1>3, Zenon

LEMMA DestroyInd ==
  ASSUME IInv, NEW p \in Procs, NEW g \in Gens, Destroy(p, g) PROVE IInv'
<1> USE DEF IInv
<1> DEFINE f == [gen[g] EXCEPT !.destroys = @ + 1]
<1>1. /\ pc[p] \in {"finish", "evict", "close"} /\ g \in todo[p] /\ gen[g] \in EntryType
      /\ gen' = [gen EXCEPT ![g] = f] /\ todo' = [todo EXCEPT ![p] = @ \ {g}]
      /\ UNCHANGED <<closed, entries, draining, pc, ent, arg, ctxDone, ret>>
  BY Zenon DEF Destroy, TypeOK
<1>2. /\ gen[g].destroys = 0 /\ gen[g].closing /\ gen[g].ready /\ gen[g].done = 0
      /\ gen[g].poisoned => gen[g].destroying /\ pc[p] = "finish" /\ ent[p] = g
      /\ ~gen[g].poisoned => g \in Registered /\ pc[p] \in {"evict", "close"}
      /\ pc[p] = "evict" => ent[p] = g
      /\ \A q \in Procs : q # p /\ pc[q] \in {"finish", "evict"} => ent[q] # g
      /\ \A q \in Procs : q # p /\ pc[q] = "close" => g \notin Registered
  BY <1>1, OwnedIsAlive, Zenon
<1>3. /\ f \in EntryType /\ f.destroys = gen[g].destroys + 1
      /\ f.id = gen[g].id /\ f.ready = gen[g].ready /\ f.done = gen[g].done
      /\ f.invalidated = gen[g].invalidated
      /\ f.doc = gen[g].doc /\ f.err = gen[g].err /\ f.waiters = gen[g].waiters
      /\ f.claimed = gen[g].claimed /\ f.refs = gen[g].refs /\ f.poisoned = gen[g].poisoned
      /\ f.destroying = gen[g].destroying /\ f.closing = gen[g].closing
  BY <1>1, DestroyFields, Zenon
<1> HIDE DEF f
<1>4. /\ f.destroys = 1
      /\ \A h \in Gens : gen'[h] = IF h = g THEN f ELSE gen[h]
      /\ \A q \in Procs : todo'[q] = IF q = p THEN todo[p] \ {g} ELSE todo[q]
      /\ Registered' = Registered
  BY <1>1, <1>2, <1>3 DEF TypeOK, Registered
<1>5. \A h \in Gens : /\ gen'[h].id = gen[h].id /\ gen'[h].ready = gen[h].ready
                      /\ gen'[h].done = gen[h].done /\ gen'[h].invalidated = gen[h].invalidated
                      /\ gen'[h].doc = gen[h].doc /\ gen'[h].err = gen[h].err
                      /\ gen'[h].waiters = gen[h].waiters /\ gen'[h].claimed = gen[h].claimed
                      /\ gen'[h].refs = gen[h].refs /\ gen'[h].poisoned = gen[h].poisoned
                      /\ gen'[h].destroying = gen[h].destroying /\ gen'[h].closing = gen[h].closing
                      /\ gen'[h].destroys = IF h = g THEN 1 ELSE gen[h].destroys
  BY <1>3, <1>4, Zenon
<1>6. TypeOK'
  BY <1>1, <1>3, Zenon DEF TypeOK
<1>7. ProcInv'
  BY <1>1, <1>5 DEF ProcInv
<1>8. LifeInv'
  <2> SUFFICES ASSUME NEW h \in Gens PROVE LifeInv!(h)'
    BY Zenon DEF LifeInv
  <2> QED
    BY <1>1, <1>2, <1>5 DEF LifeInv
<1>9. MapInv'
  <2>1. ASSUME NEW d \in Docs, entries'[d] # None PROVE MapInv!1!(d)!2'
    BY <1>1, <1>5, <2>1 DEF MapInv, TypeOK
  <2>2. ASSUME NEW h \in Gens PROVE MapInv!2!(h)'
    BY <1>1, <1>5 DEF MapInv
  <2> QED
    BY <2>1, <2>2, Zenon DEF MapInv
<1>10. RefsInv'
  <2> SUFFICES ASSUME NEW h \in Gens PROVE RefsInv!(h)'
    BY Zenon DEF RefsInv
  <2>1. Holders(h)' = Holders(h)
    BY <1>1, Zenon DEF Holders
  <2> QED
    BY <1>5, <2>1 DEF RefsInv
<1>11. DrainInv'
  BY <1>1, <1>2, <1>5 DEF DrainInv
<1>12. OwnerInv'
  <2>0. /\ \A q \in Procs : pc[q] = "finish" => ent[q] \in Gens
        /\ \A q \in Callers : q \in Procs /\ (pc[q] = "evict" => ent[q] \in Gens)
    BY Zenon DEF ProcInv, Procs
  <2>1. ASSUME NEW q \in Procs, pc'[q] = "finish" PROVE FinishInv!(q)!2'
    BY <1>1, <1>2, <1>4, <1>5, <2>0, <2>1 DEF OwnerInv, FinishInv
  <2>2. ASSUME NEW q \in Callers, pc'[q] = "evict" PROVE EvictInv!(q)!2'
    BY <1>1, <1>2, <1>4, <1>5, <2>0, <2>2 DEF OwnerInv, EvictInv
  <2>3. ASSUME NEW q \in Callers, pc'[q] = "close" PROVE CloseInv!(q)!2'
    <3>1. Registered \subseteq Gens /\ q \in Procs
      BY DEF Registered, TypeOK, Procs
    <3> QED
      BY <1>1, <1>2, <1>4, <1>5, <2>3, <3>1 DEF OwnerInv, CloseInv
  <2>4. SoleOwnerInv'
    BY <1>1, <1>4, Zenon DEF OwnerInv, SoleOwnerInv
  <2> QED
    BY <2>1, <2>2, <2>3, <2>4, Zenon DEF OwnerInv, FinishInv, EvictInv, CloseInv
<1>13. ClosedInv'
  BY <1>1, <1>5 DEF ClosedInv, TypeOK
<1> QED
  BY <1>6, <1>7, <1>8, <1>9, <1>10, <1>11, <1>12, <1>13

LEMMA FinishPoisonedInd ==
  ASSUME IInv, NEW p \in Procs, FinishPoisoned(p) PROVE IInv'
<1> USE DEF IInv
<1>1. PICK g \in Gens : g = ent[p]
  BY Zenon DEF FinishPoisoned, ProcInv, Procs
<1> DEFINE f == [gen[g] EXCEPT !.done = @ + 1]
<1>2. /\ pc[p] = "finish" /\ todo[p] = {} /\ gen[g] \in EntryType /\ draining' = draining \ {g}
      /\ gen' = [gen EXCEPT ![g] = f] /\ pc' = [pc EXCEPT ![p] = ret[p]]
      /\ ret' = [ret EXCEPT ![p] = "idle"] /\ Forget(p)
      /\ UNCHANGED <<closed, entries, todo>>
  BY <1>1, Zenon DEF FinishPoisoned, TypeOK
<1>3. /\ f \in EntryType /\ f.done = gen[g].done + 1
      /\ f.id = gen[g].id /\ f.ready = gen[g].ready /\ f.destroys = gen[g].destroys
      /\ f.invalidated = gen[g].invalidated
      /\ f.doc = gen[g].doc /\ f.err = gen[g].err /\ f.waiters = gen[g].waiters
      /\ f.claimed = gen[g].claimed /\ f.refs = gen[g].refs /\ f.poisoned = gen[g].poisoned
      /\ f.destroying = gen[g].destroying /\ f.closing = gen[g].closing
  BY <1>2, DoneFields, Zenon
<1> HIDE DEF f
<1>4. /\ gen[g].destroying /\ gen[g].poisoned /\ gen[g].done = 0 /\ ~closed
      /\ gen[g].doc => gen[g].destroys = 1
      /\ gen[g].closing
  BY <1>1, <1>2, Zenon DEF OwnerInv, FinishInv, DrainInv, ClosedInv, LifeInv, Procs
<1>5. /\ p \in Callers => ret[p] \in {"idle", "lookup", "awaitDrain"}
      /\ p \in Gens => ret[p] = "exited"
      /\ ret[p] = "lookup" => arg[p] \in Docs
  BY <1>2, RegistryAssumption, Zenon DEF ProcInv, Procs
<1>6. /\ \A q \in Procs : q # p => pc'[q] = pc[q] /\ ret'[q] = ret[q] /\ ent'[q] = ent[q]
                                    /\ arg'[q] = arg[q]
      /\ pc'[p] = ret[p] /\ todo' = todo
      /\ ret[p] = "lookup" => arg'[p] = arg[p]
      /\ ret[p] = "awaitDrain" => ent'[p] = g
  BY <1>1, <1>2, Zenon DEF TypeOK, Forget
<1>7. /\ arg' \in [Procs -> Docs \cup {None}] /\ ent' \in [Procs -> Gens \cup {None}]
      /\ ctxDone' \in [Procs -> BOOLEAN]
  BY <1>2, Zenon DEF Forget, TypeOK
<1>8. TypeOK'
  BY <1>2, <1>3, <1>7, Zenon DEF TypeOK, PCs
<1>9. /\ \A h \in Gens : gen'[h].done = IF h = g THEN 1 ELSE gen[h].done
      /\ \A h \in Gens : /\ gen'[h].id = gen[h].id /\ gen'[h].ready = gen[h].ready
                         /\ gen'[h].destroys = gen[h].destroys
                         /\ gen'[h].invalidated = gen[h].invalidated
                         /\ gen'[h].doc = gen[h].doc /\ gen'[h].err = gen[h].err
                         /\ gen'[h].waiters = gen[h].waiters /\ gen'[h].claimed = gen[h].claimed
                         /\ gen'[h].refs = gen[h].refs /\ gen'[h].poisoned = gen[h].poisoned
                         /\ gen'[h].destroying = gen[h].destroying
                         /\ gen'[h].closing = gen[h].closing
  <2>1. \A h \in Gens : gen'[h] = IF h = g THEN f ELSE gen[h]
    BY <1>2, Zenon DEF TypeOK
  <2>2. f.done = 1
    BY <1>3, <1>4
  <2> QED
    BY <1>3, <2>1, <2>2, Zenon
<1>10. \A h \in Gens : /\ h \in Procs /\ (pc'[h] \in {"unborn", "open"} <=> pc[h] \in {"unborn", "open"})
                       /\ (pc'[h] = "unborn" <=> pc[h] = "unborn")
  BY <1>2, <1>5, <1>6, Zenon DEF Procs
<1>11. Registered' = Registered
  BY <1>2, Zenon DEF Registered
<1>12. ProcInv'
  <2>1. ASSUME NEW c \in Callers PROVE ProcInv!1!(c)'
    <3>1. CASE c = p
      BY <1>1, <1>2, <1>5, <1>6, <1>10, <3>1 DEF ProcInv, CallerPCs
    <3>2. CASE c # p
      BY <1>6, <1>9, <1>10, <3>2 DEF ProcInv, Procs
    <3> QED
      BY <3>1, <3>2, Zenon
  <2>2. ASSUME NEW h \in Gens PROVE ProcInv!2!(h)'
    <3>1. CASE h = p
      BY <1>5, <1>6, <3>1, Zenon DEF GenPCs
    <3>2. CASE h # p
      BY <1>6, <3>2 DEF ProcInv, Procs
    <3> QED
      BY <3>1, <3>2, Zenon
  <2> QED
    BY <2>1, <2>2, Zenon DEF ProcInv
<1>13. LifeInv'
  <2> SUFFICES ASSUME NEW h \in Gens PROVE LifeInv!(h)'
    BY Zenon DEF LifeInv
  <2> QED
    BY <1>4, <1>9, <1>10 DEF LifeInv
<1>14. MapInv'
  <2>1. ASSUME NEW d \in Docs, entries'[d] # None PROVE MapInv!1!(d)!2'
    BY <1>2, <1>4, <1>9, <2>1 DEF MapInv, TypeOK
  <2>2. ASSUME NEW h \in Gens PROVE MapInv!2!(h)'
    BY <1>2, <1>4, <1>9, <1>10 DEF MapInv
  <2> QED
    BY <2>1, <2>2, Zenon DEF MapInv
<1>15. RefsInv'
  <2> SUFFICES ASSUME NEW h \in Gens PROVE RefsInv!(h)'
    BY Zenon DEF RefsInv
  <2>1. Holders(h)' = Holders(h)
    BY <1>2, <1>5, <1>6, HoldersKept, Zenon DEF Procs
  <2> QED
    BY <1>9, <2>1 DEF RefsInv
<1>16. DrainInv'
  BY <1>2, <1>4, <1>9 DEF DrainInv
<1>17. OwnerInv'
  <2>0. /\ ret[p] \notin {"finish", "evict", "close"}
        /\ \A q \in Procs : q # p /\ pc[q] = "finish" => ent[q] \in Gens /\ ent[q] # g
        /\ \A q \in Callers : q \in Procs /\ (pc[q] = "evict" => ent[q] \in Gens)
        /\ Registered \subseteq Gens
    BY <1>1, <1>2, <1>5 DEF OwnerInv, SoleOwnerInv, ProcInv, Procs, Registered, TypeOK
  <2>1. ASSUME NEW q \in Procs, pc'[q] = "finish" PROVE FinishInv!(q)!2'
    <3>1. q # p
      BY <1>6, <2>0, <2>1, Zenon
    <3> QED
      BY <1>2, <1>6, <1>9, <2>0, <2>1, <3>1 DEF OwnerInv, FinishInv
  <2>2. ASSUME NEW q \in Callers, pc'[q] = "evict" PROVE EvictInv!(q)!2'
    <3>1. q # p
      BY <1>6, <2>0, <2>2, Zenon
    <3> QED
      BY <1>2, <1>6, <1>9, <2>0, <2>2, <3>1 DEF OwnerInv, EvictInv
  <2>3. ASSUME NEW q \in Callers, pc'[q] = "close" PROVE CloseInv!(q)!2'
    <3>1. q # p
      BY <1>6, <2>0, <2>3, Zenon
    <3> QED
      BY <1>2, <1>6, <1>9, <1>11, <2>0, <2>3, <3>1 DEF OwnerInv, CloseInv
  <2>4. SoleOwnerInv'
    BY <1>2, <1>6, <2>0 DEF OwnerInv, SoleOwnerInv
  <2> QED
    BY <2>1, <2>2, <2>3, <2>4, Zenon DEF OwnerInv, FinishInv, EvictInv, CloseInv
<1>18. ClosedInv'
  BY <1>2, <1>4, Zenon DEF ClosedInv
<1> QED
  BY <1>8, <1>12, <1>13, <1>14, <1>15, <1>16, <1>17, <1>18

-----------------------------------------------------------------------------
(* The ends of the teardowns of Evict and Close.                           *)

LEMMA FinishEvictInd ==
  ASSUME IInv, NEW c \in Callers, FinishEvict(c) PROVE IInv'
<1> USE DEF IInv
<1>1. PICK g \in Gens : g = ent[c]
  BY Zenon DEF FinishEvict, ProcInv
<1> DEFINE f == [gen[g] EXCEPT !.done = @ + 1]
<1>2. /\ pc[c] = "evict" /\ c \in Procs /\ todo[c] = {} /\ gen[g] \in EntryType
      /\ entries' = [entries EXCEPT ![gen[g].id] = IF @ = g THEN None ELSE @]
      /\ gen' = [gen EXCEPT ![g] = f] /\ pc' = [pc EXCEPT ![c] = "idle"] /\ Forget(c)
      /\ UNCHANGED <<closed, draining, todo, ret>>
  BY <1>1, Zenon DEF FinishEvict, TypeOK, Procs
<1>3. /\ f \in EntryType /\ f.done = gen[g].done + 1
      /\ f.id = gen[g].id /\ f.ready = gen[g].ready /\ f.destroys = gen[g].destroys
      /\ f.invalidated = gen[g].invalidated
      /\ f.doc = gen[g].doc /\ f.err = gen[g].err /\ f.waiters = gen[g].waiters
      /\ f.claimed = gen[g].claimed /\ f.refs = gen[g].refs /\ f.poisoned = gen[g].poisoned
      /\ f.destroying = gen[g].destroying /\ f.closing = gen[g].closing
  BY <1>2, DoneFields, Zenon
<1> HIDE DEF f
<1>4. /\ gen[g].id \in Docs /\ entries[gen[g].id] = g /\ g # None /\ ~closed
      /\ gen[g].closing /\ gen[g].destroys = 1
  BY <1>1, <1>2, RegistryAssumption DEF OwnerInv, EvictInv, ProcInv, LifeInv, ClosedInv
<1>5. gen[g].done = 0 /\ ~gen[g].poisoned /\ g \notin draining
  BY <1>4 DEF MapInv, DrainInv
<1>6. /\ \A q \in Procs : q # c => pc'[q] = pc[q] /\ ent'[q] = ent[q] /\ arg'[q] = arg[q]
      /\ pc'[c] = "idle"
      /\ \A h \in Gens : h # c /\ h \in Procs /\ pc'[h] = pc[h] /\ ent'[h] = ent[h]
  BY <1>2, RegistryAssumption, Zenon DEF TypeOK, Forget, Procs
<1>7. /\ arg' \in [Procs -> Docs \cup {None}] /\ ent' \in [Procs -> Gens \cup {None}]
      /\ ctxDone' \in [Procs -> BOOLEAN]
  BY <1>2, Zenon DEF Forget, TypeOK
<1>8. \A d \in Docs : entries'[d] = IF d = gen[g].id THEN None ELSE entries[d]
  BY <1>2, <1>4, Zenon DEF TypeOK
<1>9. TypeOK'
  BY <1>2, <1>3, <1>7, Zenon DEF TypeOK, PCs
<1>10. /\ \A h \in Gens : gen'[h].done = IF h = g THEN 1 ELSE gen[h].done
       /\ \A h \in Gens : /\ gen'[h].id = gen[h].id /\ gen'[h].ready = gen[h].ready
                          /\ gen'[h].destroys = gen[h].destroys
                          /\ gen'[h].invalidated = gen[h].invalidated
                          /\ gen'[h].doc = gen[h].doc /\ gen'[h].err = gen[h].err
                          /\ gen'[h].waiters = gen[h].waiters /\ gen'[h].claimed = gen[h].claimed
                          /\ gen'[h].refs = gen[h].refs /\ gen'[h].poisoned = gen[h].poisoned
                          /\ gen'[h].destroying = gen[h].destroying
                          /\ gen'[h].closing = gen[h].closing
  BY <1>2, <1>3, <1>5 DEF TypeOK
<1>11. ProcInv'
  BY <1>2, <1>6, <1>10 DEF ProcInv, CallerPCs, Procs
<1>12. LifeInv'
  <2> SUFFICES ASSUME NEW h \in Gens PROVE LifeInv!(h)'
    BY Zenon DEF LifeInv
  <2> QED
    BY <1>4, <1>6, <1>10 DEF LifeInv
<1>13. MapInv'
  <2>1. ASSUME NEW d \in Docs, entries'[d] # None PROVE MapInv!1!(d)!2'
    <3>1. entries'[d] = entries[d] /\ entries[d] \in Gens /\ entries[d] # g /\ entries[d] # None
      BY <1>4, <1>8, <2>1 DEF MapInv, TypeOK
    <3> QED
      BY <1>10, <3>1 DEF MapInv
  <2>2. ASSUME NEW h \in Gens PROVE MapInv!2!(h)'
    <3>1. CASE h = g
      BY <1>4, <1>10, <3>1
    <3>2. CASE h # g
      <4>1. pc[h] # "unborn" => gen[h].id \in Docs
        BY Zenon DEF LifeInv
      <4> QED
        BY <1>4, <1>6, <1>8, <1>10, <3>2, <4>1 DEF MapInv
    <3> QED
      BY <3>1, <3>2, Zenon
  <2> QED
    BY <2>1, <2>2, Zenon DEF MapInv
<1>14. RefsInv'
  <2> SUFFICES ASSUME NEW h \in Gens PROVE RefsInv!(h)'
    BY Zenon DEF RefsInv
  <2>1. Holders(h)' = Holders(h)
    BY <1>2, <1>6, HoldersKept, Zenon DEF Procs
  <2> QED
    BY <1>10, <2>1 DEF RefsInv
<1>15. DrainInv'
  BY <1>2, <1>4, <1>5, <1>10 DEF DrainInv
<1>16. OwnerInv'
  <2>0. /\ \A q \in Procs : pc[q] = "finish" => ent[q] \in Gens
        /\ \A q \in Callers : q \in Procs /\ (pc[q] = "evict" => ent[q] \in Gens /\ gen[ent[q]].id \in Docs)
        /\ \A q \in Callers : pc[q] # "close"
        /\ \A q \in Procs : q # c /\ pc[q] = "evict" => ent[q] # g
    <3>1. /\ \A q \in Procs : pc[q] = "finish" => ent[q] \in Gens
          /\ \A q \in Callers : q \in Procs /\ (pc[q] = "evict" => ent[q] \in Gens /\ gen[ent[q]].id \in Docs)
      BY DEF ProcInv, LifeInv, Procs
    <3>2. \A q \in Callers : pc[q] # "close"
      BY <1>4, Zenon DEF OwnerInv, CloseInv
    <3>3. \A q \in Procs : q # c /\ pc[q] = "evict" => ent[q] # g
      BY <1>1, <1>2, Zenon DEF OwnerInv, SoleOwnerInv
    <3> QED
      BY <3>1, <3>2, <3>3, Zenon
  <2>1. ASSUME NEW q \in Procs, pc'[q] = "finish" PROVE FinishInv!(q)!2'
    <3>1. pc[q] = "finish" /\ ent'[q] = ent[q] /\ ent[q] \in Gens
      BY <1>6, <2>0, <2>1, Zenon
    <3> QED
      BY <1>2, <1>10, <3>1 DEF OwnerInv, FinishInv
  <2>2. ASSUME NEW q \in Callers, pc'[q] = "evict" PROVE EvictInv!(q)!2'
    <3>1. q # c /\ pc[q] = "evict" /\ ent'[q] = ent[q] /\ ent[q] # g /\ ent[q] \in Gens
      BY <1>6, <2>0, <2>2, Zenon
    <3>2. entries'[gen[ent[q]].id] = ent[q]
      BY <1>4, <1>8, <2>0, <3>1 DEF OwnerInv, EvictInv
    <3> QED
      BY <1>2, <1>10, <3>1, <3>2 DEF OwnerInv, EvictInv
  <2>3. CloseInv'
    BY <1>6, <2>0, Zenon DEF CloseInv
  <2>4. SoleOwnerInv'
    BY <1>2, <1>6, <2>0 DEF OwnerInv, SoleOwnerInv, Procs
  <2> QED
    BY <2>1, <2>2, <2>3, <2>4, Zenon DEF OwnerInv, FinishInv, EvictInv
<1>17. ClosedInv'
  BY <1>2, <1>4, Zenon DEF ClosedInv
<1> QED
  BY <1>9, <1>11, <1>12, <1>13, <1>14, <1>15, <1>16, <1>17

LEMMA FinishCloseInd ==
  ASSUME IInv, NEW c \in Callers, FinishClose(c) PROVE IInv'
<1> USE DEF IInv
<1>1. /\ pc[c] = "close" /\ c \in Procs /\ todo[c] = {} /\ closed
      /\ gen' = [g \in Gens |-> IF g \in Registered THEN [gen[g] EXCEPT !.done = @ + 1] ELSE gen[g]]
      /\ entries' = [d \in Docs |-> None]
      /\ pc' = [pc EXCEPT ![c] = "idle"] /\ Forget(c)
      /\ UNCHANGED <<closed, draining, todo, ret>>
  BY Zenon DEF FinishClose, OwnerInv, CloseInv, Procs
<1>2. ASSUME NEW g \in Gens
      PROVE  LET f == gen'[g] IN
             /\ f \in EntryType
             /\ f.done = IF g \in Registered THEN gen[g].done + 1 ELSE gen[g].done
             /\ f.id = gen[g].id /\ f.ready = gen[g].ready /\ f.closing = gen[g].closing
             /\ f.doc = gen[g].doc /\ f.err = gen[g].err /\ f.waiters = gen[g].waiters
             /\ f.claimed = gen[g].claimed /\ f.refs = gen[g].refs /\ f.poisoned = gen[g].poisoned
             /\ f.destroying = gen[g].destroying /\ f.destroys = gen[g].destroys
             /\ f.invalidated = gen[g].invalidated
  <2>1. gen[g] \in EntryType
    BY DEF TypeOK
  <2>2. CASE g \in Registered
    BY <1>1, <2>1, <2>2, DoneFields, Zenon
  <2>3. CASE g \notin Registered
    BY <1>1, <2>1, <2>3, Zenon
  <2> QED
    BY <2>2, <2>3, Zenon
<1>3. ASSUME NEW g \in Registered
      PROVE  /\ g \in Gens /\ gen[g].destroys = 1 /\ gen[g].done = 0 /\ gen[g].closing
             /\ ~gen[g].poisoned /\ g \notin draining
  <2>1. PICK d \in Docs : entries[d] = g /\ g # None
    BY DEF Registered
  <2>2. g \in Gens /\ gen[g].done = 0 /\ ~gen[g].poisoned /\ gen[g].closing /\ g \notin draining
    BY <1>1, <2>1 DEF TypeOK, MapInv, ClosedInv
  <2>3. gen[g].destroys = 1
    BY <1>1, Zenon DEF OwnerInv, CloseInv
  <2> QED
    BY <2>2, <2>3, Zenon
<1>4. /\ \A q \in Procs : q # c => pc'[q] = pc[q] /\ ent'[q] = ent[q] /\ arg'[q] = arg[q]
      /\ pc'[c] = "idle" /\ todo' = todo
      /\ \A h \in Gens : h # c /\ h \in Procs /\ pc'[h] = pc[h] /\ ent'[h] = ent[h]
  BY <1>1, RegistryAssumption, Zenon DEF TypeOK, Forget, Procs
<1>5. /\ arg' \in [Procs -> Docs \cup {None}] /\ ent' \in [Procs -> Gens \cup {None}]
      /\ ctxDone' \in [Procs -> BOOLEAN]
  BY <1>1, Zenon DEF Forget, TypeOK
<1>6. TypeOK'
  <2>1. gen' \in [Gens -> EntryType]
    BY <1>1, <1>2, Zenon
  <2> QED
    BY <1>1, <1>5, <2>1, Zenon DEF TypeOK, PCs
<1>7. ProcInv'
  <2>1. ASSUME NEW q \in Callers PROVE ProcInv!1!(q)'
    <3>1. CASE q = c
      BY <1>4, <3>1 DEF CallerPCs
    <3>2. CASE q # c
      <4>1. \A g \in Gens : gen'[g].id = gen[g].id
        BY <1>2, Zenon
      <4> QED
        BY <1>1, <1>4, <3>2, <4>1 DEF ProcInv, Procs
    <3> QED
      BY <3>1, <3>2, Zenon
  <2>2. ASSUME NEW h \in Gens PROVE ProcInv!2!(h)'
    <3>1. pc'[h] = pc[h] /\ ent'[h] = ent[h] /\ ret'[h] = ret[h]
      BY <1>1, <1>4, Zenon
    <3> QED
      BY <3>1 DEF ProcInv
  <2> QED
    BY <2>1, <2>2, Zenon DEF ProcInv
<1>8. LifeInv'
  <2> SUFFICES ASSUME NEW g \in Gens PROVE LifeInv!(g)'
    BY Zenon DEF LifeInv
  <2> QED
    BY <1>2, <1>3, <1>4 DEF LifeInv
<1>9. MapInv'
  <2>1. ASSUME NEW g \in Gens PROVE MapInv!2!(g)'
    <3>1. CASE g \in Registered
      <4>1. gen[g].done = 0 /\ gen[g].closing
        BY <1>3, <3>1, Zenon
      <4>2. gen'[g].done = gen[g].done + 1 /\ gen'[g].closing = gen[g].closing
        BY <1>2, <3>1, ZenonT(30)
      <4> QED
        BY <4>1, <4>2
    <3>2. CASE g \notin Registered
      <4>1. pc[g] # "unborn" => entries[gen[g].id] # g
        BY <3>2, RegistryAssumption, Zenon DEF Registered, LifeInv
      <4> QED
        BY <1>2, <1>4, <3>2, <4>1 DEF MapInv
    <3> QED
      BY <3>1, <3>2, Zenon
  <2> QED
    BY <1>1, <2>1, Zenon DEF MapInv
<1>10. RefsInv'
  <2> SUFFICES ASSUME NEW h \in Gens PROVE RefsInv!(h)'
    BY Zenon DEF RefsInv
  <2>1. Holders(h)' = Holders(h)
    BY <1>1, <1>4, HoldersKept, Zenon DEF Procs
  <2> QED
    BY <1>2, <2>1 DEF RefsInv
<1>11. DrainInv'
  <2> SUFFICES ASSUME NEW g \in Gens PROVE DrainInv!(g)'
    BY Zenon DEF DrainInv
  <2>1. CASE g \in Registered
    <3>1. gen'[g].done = 1 /\ gen'[g].destroys = 1
      BY <1>2, <1>3, <2>1
    <3>2. ~gen'[g].poisoned /\ g \notin draining'
      BY <1>1, <1>2, <1>3, <2>1, Zenon
    <3>3. ~gen'[g].destroying
      BY <1>2, <1>3, <2>1, Zenon DEF DrainInv
    <3> QED
      BY <3>1, <3>2, <3>3
  <2>2. CASE g \notin Registered
    BY <1>1, <1>2, <2>2, Zenon DEF DrainInv
  <2> QED
    BY <2>1, <2>2, Zenon
<1>12. OwnerInv'
  <2>1. \A q \in Procs : pc'[q] \notin {"finish", "evict", "close"}
    BY <1>1, <1>4 DEF OwnerInv, SoleOwnerInv, ClosedInv, ProcInv, GenPCs, Procs
  <2>2. \A q \in Procs : todo'[q] = {}
    BY <1>1, <1>4, <2>1, Zenon DEF OwnerInv, SoleOwnerInv
  <2> QED
    BY <2>1, <2>2, Zenon DEF OwnerInv, FinishInv, EvictInv, CloseInv, SoleOwnerInv, Procs
<1>13. ClosedInv'
  BY <1>1, <1>4, Zenon DEF ClosedInv, Procs
<1> QED
  BY <1>6, <1>7, <1>8, <1>9, <1>10, <1>11, <1>12, <1>13

=============================================================================
