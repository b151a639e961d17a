-------------------------- MODULE RegistryHandles ---------------------------
(***************************************************************************)
(* The invariant is kept where references come and go, when a caller leaves*)
(* an entry without a handle, in FinalizeAcquired and in Release, and by   *)
(* Evict and Close, which take over the teardown of the entries they mark. *)
(***************************************************************************)
EXTENDS RegistryAcquire

-----------------------------------------------------------------------------
(* A waiter leaves without a reference: its context ended, or the entry was*)
(* refused.                                                                *)

LEMMA DepartInd ==
  ASSUME IInv, NEW c \in Callers, AwaitCancelled(c) \/ FinalizeRefused(c) PROVE IInv'
<1> DEFINE g == ent[c]
           e == dropWaiterLocked(gen[g])
           f == takePoisonedDestroyLocked(e)
<1> USE DEF IInv
<1>1. /\ pc[c] = "awaitEntry" /\ c \in Procs /\ g \in Gens /\ pc[g] # "unborn"
      /\ arg[c] \in Docs /\ gen[g] \in EntryType /\ gen[g].id = arg[c]
  BY Zenon DEF AwaitCancelled, FinalizeRefused, ProcInv, TypeOK, Procs
<1>2. PICK next \in {"idle", "lookup"} :
        /\ Detach(arg[c], g, gen[g]) /\ LeaveLocked(c, g, e, next) /\ Forget(c)
        /\ UNCHANGED closed
  <2>1. CASE AwaitCancelled(c)
    BY <2>1, Zenon DEF AwaitCancelled
  <2>2. CASE FinalizeRefused(c)
    BY <2>2, Zenon DEF FinalizeRefused
  <2> QED
    BY <2>1, <2>2, Zenon
<1>3. /\ e \in EntryType /\ f \in EntryType
      /\ e.waiters = IF gen[g].waiters = 0 THEN 0 ELSE gen[g].waiters - 1
      /\ (e.closing <=> gen[g].closing \/ Abandons(gen[g]))
      /\ (e.poisoned <=> gen[g].poisoned \/ Abandons(gen[g]))
      /\ e.id = gen[g].id /\ e.ready = gen[g].ready /\ e.invalidated = gen[g].invalidated
      /\ e.done = gen[g].done /\ e.claimed = gen[g].claimed
      /\ e.doc = gen[g].doc /\ e.err = gen[g].err /\ e.refs = gen[g].refs
      /\ e.destroying = gen[g].destroying /\ e.destroys = gen[g].destroys
  BY <1>1, DropFields, TakeFields, Zenon
<1>4. /\ (f.destroying <=> e.destroying \/ Takes(e))
      /\ f.id = e.id /\ f.ready = e.ready /\ f.invalidated = e.invalidated
      /\ f.done = e.done /\ f.waiters = e.waiters /\ f.claimed = e.claimed
      /\ f.doc = e.doc /\ f.err = e.err /\ f.refs = e.refs
      /\ f.closing = e.closing /\ f.poisoned = e.poisoned /\ f.destroys = e.destroys
  BY <1>3, TakeFields, Zenon
<1> HIDE DEF e, f, g
<1>5. Abandons(gen[g]) => /\ gen[g].refs = 0 /\ ~gen[g].claimed /\ ~gen[g].closing
                          /\ entries[arg[c]] = g
                          /\ gen[g].done = 0 /\ gen[g].destroys = 0 /\ ~gen[g].poisoned
  BY <1>1, Zenon DEF Abandons, MapInv, LifeInv
<1>6. Takes(e) => /\ e.poisoned /\ ~e.destroying /\ e.refs = 0 /\ e.ready
  BY DEF Takes
<1>7. closed => ~Abandons(gen[g]) /\ ~Takes(e)
  BY <1>1, <1>3, <1>5, <1>6, RegistryAssumption DEF ClosedInv, DrainInv, Registered, TypeOK
<1>8. /\ draining' = IF Abandons(gen[g]) THEN draining \cup {g} ELSE draining
      /\ \A d \in Docs : entries'[d] = IF Abandons(gen[g]) /\ d = arg[c] THEN None ELSE entries[d]
      /\ entries' \in [Docs -> Gens \cup {None}]
  BY <1>1, <1>2, <1>5, Zenon DEF Detach, TypeOK
<1>9. /\ \A h \in Gens : gen'[h] = IF h = g THEN f ELSE gen[h]
      /\ \A q \in Procs : q # c => pc'[q] = pc[q] /\ ret'[q] = ret[q] /\ todo'[q] = todo[q]
      /\ Takes(e) => pc'[c] = "finish" /\ ret'[c] = next
      /\ ~Takes(e) => pc'[c] = next
  BY <1>1, <1>2, Zenon DEF LeaveLocked, TypeOK, f
<1>10. /\ \A q \in Procs : q # c => ent'[q] = ent[q] /\ arg'[q] = arg[q]
       /\ Takes(e) => ent'[c] = g /\ arg'[c] = arg[c]
       /\ next = "lookup" => arg'[c] = arg[c]
       /\ arg' \in [Procs -> Docs \cup {None}] /\ ent' \in [Procs -> Gens \cup {None}]
       /\ ctxDone' \in [Procs -> BOOLEAN]
  BY <1>1, <1>2, <1>9, Zenon DEF Forget, TypeOK, g
<1>11. \A h \in Gens : h # c /\ h \in Procs /\ pc'[h] = pc[h] /\ ent'[h] = ent[h] /\ ret'[h] = ret[h]
  BY <1>9, <1>10, RegistryAssumption, Zenon DEF Procs
<1>12. TypeOK'
  <2>1. /\ gen' \in [Gens -> EntryType] /\ pc' \in [Procs -> PCs]
        /\ todo' \in [Procs -> SUBSET Gens]
        /\ ret' \in [Procs -> {"idle", "lookup", "awaitDrain", "exited"}]
    BY <1>1, <1>2, <1>3, LeaveType DEF PCs
  <2> QED
    BY <1>1, <1>2, <1>8, <1>10, <2>1, Zenon DEF TypeOK
<1>13. ProcInv'
  <2>1. \A h \in Gens : gen'[h].id = gen[h].id
    BY <1>3, <1>4, <1>9, Zenon
  <2> QED
    BY <1>1, <1>9, <1>10, <1>11, <2>1 DEF ProcInv, CallerPCs, Procs
<1>14. LifeInv'
  <2> SUFFICES ASSUME NEW h \in Gens PROVE LifeInv!(h)'
    BY Zenon DEF LifeInv
  <2>1. CASE h = g
    BY <1>1, <1>3, <1>4, <1>5, <1>6, <1>9, <1>11, <2>1 DEF LifeInv
  <2>2. CASE h # g
    BY <1>9, <1>11, <2>2 DEF LifeInv
  <2> QED
    BY <2>1, <2>2, Zenon
<1>15. MapInv'
  <2>1. ASSUME NEW d \in Docs, entries'[d] # None PROVE MapInv!1!(d)!2'
    <3>1. entries'[d] = entries[d] /\ entries[d] \in Gens
      BY <1>8, <2>1, Zenon DEF TypeOK
    <3>2. CASE entries[d] = g
      <4>1. ~Abandons(gen[g])
        BY <1>1, <1>8, <2>1, <3>2 DEF MapInv
      <4> QED
        BY <1>1, <1>3, <1>4, <1>9, <2>1, <3>1, <3>2, <4>1 DEF MapInv, Abandons, RefsInv, EntryType
    <3>3. CASE entries[d] # g
      BY <1>9, <2>1, <3>1, <3>3 DEF MapInv
    <3> QED
      BY <3>2, <3>3, Zenon
  <2>2. ASSUME NEW h \in Gens PROVE MapInv!2!(h)'
    <3>1. CASE h = g
      BY <1>1, <1>3, <1>4, <1>5, <1>8, <1>9, <1>11, <3>1 DEF MapInv
    <3>2. CASE h # g
      BY <1>1, <1>5, <1>8, <1>9, <1>11, <3>2 DEF MapInv, LifeInv
    <3> QED
      BY <3>1, <3>2, Zenon
  <2> QED
    BY <2>1, <2>2, Zenon DEF MapInv
<1>16. RefsInv'
  <2> SUFFICES ASSUME NEW h \in Gens PROVE RefsInv!(h)'
    BY Zenon DEF RefsInv
  <2>1. Holders(h)' = Holders(h)
    BY <1>1, <1>9, <1>10, HoldersKept DEF Procs
  <2> QED
    BY <1>3, <1>4, <1>5, <1>6, <1>9, <2>1 DEF RefsInv
<1>17. DrainInv'
  BY <1>3, <1>4, <1>5, <1>6, <1>8, <1>9 DEF DrainInv
<1>18. OwnerInv'
  <2>1. Takes(e) => ent'[c] = g /\ e.destroys = 0 /\ g \in draining'
    BY <1>1, <1>3, <1>5, <1>6, <1>8, <1>10, Zenon DEF DrainInv
  <2>2. \A d \in Docs : \/ entries'[d] = entries[d]
                        \/ entries[d] # None /\ ~gen[entries[d]].closing
    BY <1>1, <1>5, <1>8, RegistryAssumption, Zenon
  <2>3. draining \subseteq draining' /\ (closed => UNCHANGED entries)
    BY <1>2, <1>7, <1>8, Zenon DEF Detach
  <2>4. (gen[g].ready => e.ready /\ e.doc = gen[g].doc) /\ (gen[g].closing => e.closing)
    BY <1>3, Zenon
  <2> QED
    BY <1>1, <1>2, <1>3, <1>10, <2>1, <2>2, <2>3, <2>4, LeaveOwner
<1>19. ClosedInv'
  <2> SUFFICES ASSUME closed PROVE ClosedInv'
    BY <1>2, Zenon DEF ClosedInv
  <2>1. \A d \in Docs : entries'[d] = entries[d] /\ draining' = draining
    BY <1>7, <1>8, Zenon
  <2>2. \A h \in Gens : gen'[h].closing = gen[h].closing /\ gen'[h].ready = gen[h].ready
    BY <1>1, <1>3, <1>4, <1>7, <1>9 DEF EntryType
  <2> QED
    BY <1>1, <1>7, <1>8, <1>9, <1>11, <2>1, <2>2 DEF ClosedInv, Procs, TypeOK
<1> QED
  BY <1>12, <1>13, <1>14, <1>15, <1>16, <1>17, <1>18, <1>19

-----------------------------------------------------------------------------
(* The holders of an entry, counted.  FinalizeAcquired adds one.           *)

LEMMA HolderAdded ==
  ASSUME CallersCount, NEW c \in Callers, NEW g,
         Holders(g)' = Holders(g) \cup {c}, c \notin Holders(g)
  PROVE  Cardinality(Holders(g)') = Cardinality(Holders(g)) + 1
<1>1. Holders(g) \in SUBSET Callers /\ c \in Callers \ Holders(g)
  BY Zenon DEF Holders
<1> QED
  BY <1>1 DEF CallersCount

LEMMA HolderRemoved ==
  ASSUME CallersCount, NEW c \in Callers, NEW g,
         Holders(g)' = Holders(g) \ {c}, c \in Holders(g)
  PROVE  Cardinality(Holders(g)') = Cardinality(Holders(g)) - 1
<1>1. Holders(g) \in SUBSET Callers
  BY Zenon DEF Holders
<1> QED
  BY <1>1 DEF CallersCount

LEMMA ClaimFields ==
  ASSUME NEW e \in EntryType, NEW n \in Nat
  PROVE  LET b == [e EXCEPT !.claimed = TRUE, !.refs = n]
         IN /\ b \in EntryType /\ b.claimed /\ b.refs = n
            /\ b.id = e.id /\ b.ready = e.ready /\ b.invalidated = e.invalidated
            /\ b.done = e.done /\ b.waiters = e.waiters
            /\ b.doc = e.doc /\ b.err = e.err
            /\ b.closing = e.closing /\ b.poisoned = e.poisoned
            /\ b.destroying = e.destroying /\ b.destroys = e.destroys
BY Zenon DEF EntryType

LEMMA FinalizeAcquiredInd ==
  ASSUME CallersCount, IInv, NEW c \in Callers, FinalizeAcquired(c) PROVE IInv'
<1> DEFINE g == ent[c]
           b == [gen[g] EXCEPT !.claimed = TRUE, !.refs = @ + 1]
           e == dropWaiterLocked(b)
<1> USE DEF IInv
<1>1. /\ pc[c] = "awaitEntry" /\ c \in Procs /\ g \in Gens /\ pc[g] # "unborn"
      /\ arg[c] \in Docs /\ gen[g] \in EntryType /\ gen[g].id = arg[c]
      /\ gen[g].ready /\ ~gen[g].poisoned /\ ~gen[g].err /\ ~gen[g].closing
  BY Zenon DEF FinalizeAcquired, Refused, ProcInv, TypeOK, Procs
<1>2. Detach(arg[c], g, b) /\ LeaveLocked(c, g, e, "holding") /\ Forget(c) /\ UNCHANGED closed
  BY Zenon DEF FinalizeAcquired
<1>3. /\ b \in EntryType /\ b.claimed /\ b.refs = gen[g].refs + 1
      /\ b.id = gen[g].id /\ b.ready = gen[g].ready /\ b.invalidated = gen[g].invalidated
      /\ b.done = gen[g].done /\ b.waiters = gen[g].waiters
      /\ b.doc = gen[g].doc /\ b.err = gen[g].err
      /\ b.closing = gen[g].closing /\ b.poisoned = gen[g].poisoned
      /\ b.destroying = gen[g].destroying /\ b.destroys = gen[g].destroys
  <2>1. gen[g].refs + 1 \in Nat
    BY <1>1 DEF EntryType
  <2> QED
    BY <1>1, <2>1, ClaimFields, Zenon
<1> HIDE DEF b
<1>4. ~Abandons(b)
  BY <1>3, Zenon DEF Abandons
<1>5. /\ e \in EntryType /\ e.claimed /\ e.refs = gen[g].refs + 1
      /\ e.id = gen[g].id /\ e.ready = gen[g].ready /\ e.invalidated = gen[g].invalidated
      /\ e.done = gen[g].done
      /\ e.doc = gen[g].doc /\ e.err = gen[g].err
      /\ (e.closing <=> gen[g].closing) /\ (e.poisoned <=> gen[g].poisoned)
      /\ e.destroying = gen[g].destroying /\ e.destroys = gen[g].destroys
  BY <1>3, <1>4, DropFields, Zenon
<1> HIDE DEF e, g
<1>6. ~Takes(e) /\ takePoisonedDestroyLocked(e) = e
  BY <1>1, <1>5, Zenon DEF Takes, takePoisonedDestroyLocked
<1>7. /\ \A h \in Gens : gen'[h] = IF h = g THEN e ELSE gen[h]
      /\ \A q \in Procs : pc'[q] = IF q = c THEN "holding" ELSE pc[q]
      /\ gen' \in [Gens -> EntryType] /\ pc' \in [Procs -> PCs]
      /\ UNCHANGED <<closed, entries, draining, ret, todo>>
  BY <1>1, <1>2, <1>4, <1>5, <1>6 DEF LeaveLocked, Detach, TypeOK, PCs
<1>8. /\ \A q \in Procs : ent'[q] = ent[q]
      /\ \A q \in Procs : q # c => arg'[q] = arg[q]
      /\ arg' \in [Procs -> Docs \cup {None}] /\ ent' \in [Procs -> Gens \cup {None}]
      /\ ctxDone' \in [Procs -> BOOLEAN]
  BY <1>1, <1>2, <1>7, Zenon DEF Forget, TypeOK
<1>9. \A h \in Gens : h # c /\ h \in Procs /\ pc'[h] = pc[h] /\ ent'[h] = ent[h]
  BY <1>7, <1>8, RegistryAssumption DEF Procs
<1>10. /\ entries[arg[c]] = g /\ gen[g].destroys = 0 /\ gen[g].done = 0
       /\ gen[g].doc /\ ~gen[g].destroying /\ ~closed
  BY <1>1, RegistryAssumption DEF MapInv, LifeInv, DrainInv, ClosedInv
<1>11. TypeOK'
  BY <1>7, <1>8, Zenon DEF TypeOK
<1>12. ProcInv'
  <2>1. \A h \in Gens : gen'[h].id = gen[h].id
    BY <1>5, <1>7, Zenon
  <2> QED
    BY <1>1, <1>7, <1>8, <1>9, <2>1 DEF ProcInv, CallerPCs, Procs
<1>13. LifeInv'
  <2> SUFFICES ASSUME NEW h \in Gens PROVE LifeInv!(h)'
    BY Zenon DEF LifeInv
  <2>1. CASE h = g
    <3>1. gen'[h] = e /\ pc'[h] = pc[h] /\ pc[h] # "unborn"
      BY <1>1, <1>7, <1>9, <2>1, Zenon
    <3>2. /\ e.id \in Docs /\ e.ready /\ e.doc /\ ~e.err /\ ~e.closing /\ ~e.poisoned
          /\ e.destroys = 0 /\ e.done = 0
      BY <1>1, <1>5, <1>10, Zenon
    <3>3. pc[h] \notin {"unborn", "open"}
      BY <1>1, <2>1, Zenon DEF LifeInv
    <3> QED
      BY <3>1, <3>2, <3>3, Zenon
  <2>2. CASE h # g
    BY <1>7, <1>9, <2>2 DEF LifeInv
  <2> QED
    BY <2>1, <2>2, Zenon
<1>14. MapInv'
  BY <1>1, <1>5, <1>7, <1>9 DEF MapInv, TypeOK
<1>15. RefsInv'
  <2> SUFFICES ASSUME NEW h \in Gens PROVE RefsInv!(h)'
    BY Zenon DEF RefsInv
  <2>1. CASE h = g
    <3>1. Holders(h)' = Holders(h) \cup {c} /\ c \notin Holders(h)
      BY <1>1, <1>7, <1>8, <2>1 DEF Holders, Procs, g
    <3>2. Cardinality(Holders(h)') = Cardinality(Holders(h)) + 1
      BY <3>1, HolderAdded, Zenon
    <3> QED
      <4>1. gen[h].refs = Cardinality(Holders(h)) /\ gen'[h] = e
        BY <1>7, <2>1, Zenon DEF RefsInv
      <4>2. e.doc /\ e.claimed /\ ~e.destroying /\ ~e.poisoned /\ ~e.closing
        BY <1>1, <1>5, <1>10, Zenon
      <4> QED
        BY <1>5, <2>1, <3>2, <4>1, <4>2
  <2>2. CASE h # g
    <3>1. Holders(h)' = Holders(h)
      BY <1>1, <1>7, <1>8, <2>2 DEF Holders, Procs, g
    <3> QED
      BY <1>7, <2>2, <3>1, Zenon DEF RefsInv
  <2> QED
    BY <2>1, <2>2, Zenon
<1>16. DrainInv'
  BY <1>1, <1>5, <1>7 DEF DrainInv
<1>17. OwnerInv'
  <2>1. g = ent[c]
    BY DEF g
  <2> QED
    BY <1>1, <1>2, <1>5, <1>6, <1>7, <1>8, LeaveOwner, ZenonT(30)
<1>18. ClosedInv'
  BY <1>7, <1>10, Zenon DEF ClosedInv
<1> QED
  BY <1>11, <1>12, <1>13, <1>14, <1>15, <1>16, <1>17, <1>18

-----------------------------------------------------------------------------
(* Release removes one, and may leave the teardown to its caller.          *)

LEMMA ReleaseInd ==
  ASSUME CallersCount, IInv, NEW c \in Callers, Release(c) PROVE IInv'
<1> DEFINE g == ent[c]
           e == [gen[g] EXCEPT !.refs = @ - 1]
           f == takePoisonedDestroyLocked(e)
<1> USE DEF IInv
<1>1. /\ pc[c] = "holding" /\ c \in Procs /\ g \in Gens /\ pc[g] # "unborn"
      /\ gen[g] \in EntryType /\ gen[g].refs > 0
  BY Zenon DEF Release, ProcInv, TypeOK, Procs
<1>2. /\ LeaveLocked(c, g, e, "idle") /\ Forget(c) /\ UNCHANGED <<closed, entries, draining>>
  BY Zenon DEF Release
<1>3. /\ e \in EntryType /\ e.refs = gen[g].refs - 1
      /\ e.id = gen[g].id /\ e.ready = gen[g].ready /\ e.invalidated = gen[g].invalidated
      /\ e.done = gen[g].done /\ e.waiters = gen[g].waiters /\ e.claimed = gen[g].claimed
      /\ e.doc = gen[g].doc /\ e.err = gen[g].err
      /\ e.closing = gen[g].closing /\ e.poisoned = gen[g].poisoned
      /\ e.destroying = gen[g].destroying /\ e.destroys = gen[g].destroys
  BY <1>1 DEF EntryType
<1> HIDE DEF e
<1>4. /\ f \in EntryType /\ (f.destroying <=> e.destroying \/ Takes(e))
      /\ f.id = gen[g].id /\ f.ready = gen[g].ready /\ f.invalidated = gen[g].invalidated
      /\ f.done = gen[g].done /\ f.waiters = gen[g].waiters /\ f.claimed = gen[g].claimed
      /\ f.doc = gen[g].doc /\ f.err = gen[g].err /\ f.refs = gen[g].refs - 1
      /\ f.closing = gen[g].closing /\ f.poisoned = gen[g].poisoned
      /\ f.destroys = gen[g].destroys
  BY <1>3, TakeFields, Zenon
<1> HIDE DEF f, g
<1>5. Takes(e) => e.poisoned /\ ~e.destroying /\ e.refs = 0 /\ e.ready
  BY DEF Takes
<1>6. /\ gen[g].ready /\ gen[g].doc /\ gen[g].claimed /\ ~gen[g].destroying /\ ~closed
      /\ gen[g].poisoned => g \in draining /\ gen[g].destroys = 0
  BY <1>1, Zenon DEF RefsInv, LifeInv, DrainInv, ClosedInv
<1>7. /\ \A h \in Gens : gen'[h] = IF h = g THEN f ELSE gen[h]
      /\ \A q \in Procs : q # c => pc'[q] = pc[q] /\ ret'[q] = ret[q] /\ todo'[q] = todo[q]
      /\ Takes(e) => pc'[c] = "finish" /\ ret'[c] = "idle"
      /\ ~Takes(e) => pc'[c] = "idle"
  BY <1>1, <1>2 DEF LeaveLocked, TypeOK, f
<1>8. /\ \A q \in Procs : q # c => ent'[q] = ent[q] /\ arg'[q] = arg[q]
      /\ Takes(e) => ent'[c] = g
      /\ arg' \in [Procs -> Docs \cup {None}] /\ ent' \in [Procs -> Gens \cup {None}]
      /\ ctxDone' \in [Procs -> BOOLEAN]
  BY <1>1, <1>2, <1>7, Zenon DEF Forget, TypeOK, g
<1>9. \A h \in Gens : h # c /\ h \in Procs /\ pc'[h] = pc[h] /\ ent'[h] = ent[h] /\ ret'[h] = ret[h]
  BY <1>7, <1>8, RegistryAssumption, Zenon DEF Procs
<1>10. TypeOK'
  <2>1. /\ gen' \in [Gens -> EntryType] /\ pc' \in [Procs -> PCs]
        /\ todo' \in [Procs -> SUBSET Gens]
        /\ ret' \in [Procs -> {"idle", "lookup", "awaitDrain", "exited"}]
    BY <1>1, <1>2, <1>3, LeaveType, Zenon DEF PCs
  <2> QED
    BY <1>1, <1>2, <1>8, <2>1, Zenon DEF TypeOK
<1>11. ProcInv'
  <2>1. \A h \in Gens : gen'[h].id = gen[h].id
    BY <1>3, <1>4, <1>7, Zenon
  <2> QED
    BY <1>1, <1>7, <1>8, <1>9, <2>1 DEF ProcInv, CallerPCs, Procs
<1>12. LifeInv'
  <2> SUFFICES ASSUME NEW h \in Gens PROVE LifeInv!(h)'
    BY Zenon DEF LifeInv
  <2>1. CASE h = g
    BY <1>1, <1>4, <1>6, <1>7, <1>9, <2>1, ZenonT(30) DEF LifeInv
  <2>2. CASE h # g
    BY <1>7, <1>9, <2>2 DEF LifeInv
  <2> QED
    BY <2>1, <2>2, Zenon
<1>13. MapInv'
  BY <1>2, <1>3, <1>4, <1>7, <1>9 DEF MapInv, TypeOK
<1>14. RefsInv'
  <2> SUFFICES ASSUME NEW h \in Gens PROVE RefsInv!(h)'
    BY Zenon DEF RefsInv
  <2>1. CASE h = g
    <3>1. Holders(h)' = Holders(h) \ {c} /\ c \in Holders(h)
      BY <1>1, <1>7, <1>8, <2>1 DEF Holders, Procs, g
    <3>2. Cardinality(Holders(h)') = Cardinality(Holders(h)) - 1
      BY <3>1, HolderRemoved, Zenon
    <3> QED
      <4>1. f.refs > 0 => ~f.destroying
        BY <1>3, <1>4, <1>5, <1>6
      <4>2. gen[h].refs = Cardinality(Holders(h)) /\ gen'[h] = f
        BY <1>7, <2>1, Zenon DEF RefsInv
      <4>3. f.doc /\ f.claimed /\ (f.poisoned => f.invalidated) /\ (~f.poisoned => ~f.closing)
        BY <1>1, <1>4, Zenon DEF RefsInv
      <4> QED
        BY <1>4, <2>1, <3>2, <4>1, <4>2, <4>3
  <2>2. CASE h # g
    <3>1. Holders(h)' = Holders(h)
      BY <1>1, <1>7, <1>8, <2>2, Zenon DEF Holders, Procs, g
    <3> QED
      BY <1>7, <2>2, <3>1, Zenon DEF RefsInv
  <2> QED
    BY <2>1, <2>2, Zenon
<1>15. DrainInv'
  BY <1>2, <1>3, <1>4, <1>5, <1>6, <1>7 DEF DrainInv
<1>16. OwnerInv'
  BY <1>1, <1>2, <1>3, <1>5, <1>6, <1>8, LeaveOwner, ZenonT(30)
<1>17. ClosedInv'
  BY <1>2, <1>6, Zenon DEF ClosedInv
<1> QED
  BY <1>10, <1>11, <1>12, <1>13, <1>14, <1>15, <1>16, <1>17

-----------------------------------------------------------------------------
(* Evict and Close take the teardown of what they retire.                  *)

LEMMA CloseFields ==
  ASSUME NEW e \in EntryType
  PROVE  LET f == [e EXCEPT !.closing = TRUE]
         IN /\ f \in EntryType /\ f.closing
            /\ f.id = e.id /\ f.ready = e.ready /\ f.done = e.done /\ f.invalidated = e.invalidated
            /\ f.doc = e.doc /\ f.err = e.err /\ f.waiters = e.waiters
            /\ f.claimed = e.claimed /\ f.refs = e.refs /\ f.poisoned = e.poisoned
            /\ f.destroying = e.destroying /\ f.destroys = e.destroys
BY Zenon DEF EntryType

LEMMA EvictInd ==
  ASSUME IInv, NEW c \in Callers, NEW d \in Docs, Evict(c, d) PROVE IInv'
<1> USE DEF IInv
<1>1. PICK g \in Gens : g = entries[d]
  BY Zenon DEF Evict, TypeOK
<1> DEFINE f == [gen[g] EXCEPT !.closing = TRUE]
<1>2. /\ pc[c] = "idle" /\ c \in Procs /\ gen[g] \in EntryType /\ gen[g].id = d
      /\ gen[g].ready /\ gen[g].refs = 0 /\ ~gen[g].closing
  BY <1>1, RegistryAssumption, Zenon DEF Evict, Idle, TypeOK, Procs, MapInv
<1>3. /\ gen' = [gen EXCEPT ![g] = f] /\ pc' = [pc EXCEPT ![c] = "evict"]
      /\ ent' = [ent EXCEPT ![c] = g] /\ todo' = [todo EXCEPT ![c] = {g}]
      /\ UNCHANGED <<closed, entries, draining, arg, ctxDone, ret>>
  BY <1>1, Zenon DEF Evict
<1>4. /\ f \in EntryType /\ f.closing
      /\ f.id = gen[g].id /\ f.ready = gen[g].ready /\ f.done = gen[g].done
      /\ f.doc = gen[g].doc /\ f.err = gen[g].err /\ f.waiters = gen[g].waiters
      /\ f.claimed = gen[g].claimed /\ f.refs = gen[g].refs /\ f.poisoned = gen[g].poisoned
      /\ f.destroying = gen[g].destroying /\ f.destroys = gen[g].destroys
  BY <1>2, CloseFields, Zenon
<1> HIDE DEF f
<1>5. /\ gen[g].done = 0 /\ gen[g].destroys = 0 /\ ~gen[g].poisoned /\ ~gen[g].destroying
      /\ pc[g] # "unborn" /\ ~closed
  BY <1>1, <1>2, RegistryAssumption DEF LifeInv, DrainInv, MapInv, ClosedInv
<1>6. /\ \A h \in Gens : gen'[h] = IF h = g THEN f ELSE gen[h]
      /\ \A q \in Procs : q # c => pc'[q] = pc[q] /\ ent'[q] = ent[q] /\ todo'[q] = todo[q]
      /\ pc'[c] = "evict" /\ ent'[c] = g /\ todo'[c] = {g}
  BY <1>2, <1>3, Zenon DEF TypeOK
<1>7. \A h \in Gens : h # c /\ h \in Procs /\ pc'[h] = pc[h] /\ ent'[h] = ent[h]
  BY <1>6, RegistryAssumption, Zenon DEF Procs
<1>8. TypeOK'
  BY <1>2, <1>3, <1>4, Zenon DEF TypeOK, PCs
<1>9. ProcInv'
  <2>1. \A h \in Gens : gen'[h].id = gen[h].id
    BY <1>4, <1>6, Zenon
  <2> QED
    BY <1>2, <1>3, <1>5, <1>6, <1>7, <2>1 DEF ProcInv, CallerPCs, Procs
<1>10. LifeInv'
  <2> SUFFICES ASSUME NEW h \in Gens PROVE LifeInv!(h)'
    BY Zenon DEF LifeInv
  <2>1. CASE h = g
    BY <1>2, <1>4, <1>5, <1>6, <1>7, <2>1, ZenonT(30) DEF LifeInv
  <2>2. CASE h # g
    BY <1>6, <1>7, <2>2 DEF LifeInv
  <2> QED
    BY <2>1, <2>2, Zenon
<1>11. MapInv'
  BY <1>1, <1>2, <1>3, <1>4, <1>6, <1>7 DEF MapInv, TypeOK
<1>12. RefsInv'
  <2> SUFFICES ASSUME NEW h \in Gens PROVE RefsInv!(h)'
    BY Zenon DEF RefsInv
  <2>1. Holders(h)' = Holders(h)
    BY <1>2, <1>6, HoldersKept DEF Procs
  <2> QED
    BY <1>2, <1>4, <1>6, <2>1 DEF RefsInv
<1>13. DrainInv'
  BY <1>3, <1>4, <1>5, <1>6 DEF DrainInv
<1>14. OwnerInv'
  <2>0. \A q \in Procs : pc[q] \in {"finish", "evict"} => ent[q] \in Gens /\ ent[q] # g
    BY <1>2, <1>5 DEF ProcInv, GenPCs, Procs, OwnerInv, FinishInv, EvictInv
  <2>1. FinishInv'
    BY <1>3, <1>6, <2>0 DEF OwnerInv, FinishInv, Procs
  <2>2. ASSUME NEW q \in Callers, pc'[q] = "evict" PROVE EvictInv!(q)!2'
    <3>1. CASE q = c
      <4>1. gen'[ent'[q]] = f /\ ent'[q] = g /\ todo'[q] = {g} /\ entries' = entries
        BY <1>3, <1>6, <3>1, Zenon
      <4>2. f.closing /\ f.ready /\ f.destroys = 0 /\ entries[f.id] = g
        BY <1>1, <1>2, <1>4, <1>5, Zenon
      <4> QED
        BY <4>1, <4>2, Zenon
    <3>2. CASE q # c
      BY <1>3, <1>6, <2>0, <2>2, <3>2 DEF OwnerInv, EvictInv, Procs
    <3> QED
      BY <3>1, <3>2, Zenon
  <2>3. CloseInv'
    BY <1>5, <1>6 DEF OwnerInv, CloseInv, Procs
  <2>4. SoleOwnerInv'
    BY <1>6, <1>7, <2>0 DEF OwnerInv, SoleOwnerInv, Procs
  <2> QED
    BY <2>1, <2>2, <2>3, <2>4, Zenon DEF OwnerInv, EvictInv
<1>15. ClosedInv'
  BY <1>3, <1>5, Zenon DEF ClosedInv
<1> QED
  BY <1>8, <1>9, <1>10, <1>11, <1>12, <1>13, <1>14, <1>15, Zenon

LEMMA CloseInd ==
  ASSUME CallersCount, IInv, NEW c \in Callers, Close(c) PROVE IInv'
<1> USE DEF IInv
<1>1. /\ pc[c] = "idle" /\ c \in Procs /\ ~closed /\ draining = {}
      /\ \A g \in Registered : gen[g].ready /\ gen[g].refs = 0 /\ ~gen[g].closing
  BY Zenon DEF Close, Idle, Procs
<1>2. /\ gen' = [g \in Gens |-> IF g \in Registered THEN [gen[g] EXCEPT !.closing = TRUE] ELSE gen[g]]
      /\ closed' = TRUE /\ pc' = [pc EXCEPT ![c] = "close"]
      /\ todo' = [todo EXCEPT ![c] = Registered]
      /\ UNCHANGED <<entries, draining, ent, arg, ctxDone, ret>>
  BY Zenon DEF Close
<1>3. Registered \subseteq Gens /\ Registered' = Registered
  BY <1>2 DEF Registered, TypeOK
<1>4. \A d \in Docs : entries[d] # None => entries[d] \in Registered
  BY DEF Registered
<1>5. ASSUME NEW g \in Registered PROVE \E d \in Docs : entries[d] = g /\ g # None
  BY DEF Registered
<1>6. ASSUME NEW g \in Gens
      PROVE  LET f == gen'[g] IN
             /\ f \in EntryType
             /\ g \in Registered => f.closing
             /\ g \notin Registered => f.closing = gen[g].closing
             /\ f.id = gen[g].id /\ f.ready = gen[g].ready /\ f.done = gen[g].done
             /\ f.doc = gen[g].doc /\ f.err = gen[g].err /\ f.waiters = gen[g].waiters
             /\ f.claimed = gen[g].claimed /\ f.refs = gen[g].refs /\ f.poisoned = gen[g].poisoned
             /\ f.destroying = gen[g].destroying /\ f.destroys = gen[g].destroys
             /\ f.invalidated = gen[g].invalidated
  <2>1. gen[g] \in EntryType
    BY Zenon DEF TypeOK
  <2>2. CASE g \in Registered
    BY <1>2, <2>1, <2>2, CloseFields, Zenon
  <2>3. CASE g \notin Registered
    BY <1>2, <2>1, <2>3, Zenon
  <2> QED
    BY <2>2, <2>3, Zenon
<1>7. /\ \A q \in Procs : q # c => pc'[q] = pc[q] /\ todo'[q] = todo[q]
      /\ pc'[c] = "close" /\ todo'[c] = Registered
      /\ \A h \in Gens : h # c /\ h \in Procs /\ pc'[h] = pc[h]
  BY <1>1, <1>2, RegistryAssumption, Zenon DEF TypeOK, Procs
<1>8. TypeOK'
  <2>1. gen' \in [Gens -> EntryType]
    BY <1>2, <1>6, Zenon
  <2> QED
    BY <1>1, <1>2, <1>3, <2>1, Zenon DEF TypeOK, PCs
<1>9. ProcInv'
  BY <1>1, <1>2, <1>6, <1>7 DEF ProcInv, CallerPCs, Procs
<1>10. ASSUME NEW g \in Registered
       PROVE  /\ ~gen[g].poisoned /\ gen[g].done = 0 /\ gen[g].destroys = 0 /\ ~gen[g].destroying
  BY <1>1, <1>3, <1>5, <1>10, Zenon DEF MapInv, LifeInv, DrainInv
<1>11. LifeInv'
  <2> SUFFICES ASSUME NEW g \in Gens PROVE LifeInv!(g)'
    BY Zenon DEF LifeInv
  <2>1. CASE g \in Registered
    BY <1>1, <1>6, <1>7, <2>1 DEF LifeInv
  <2>2. CASE g \notin Registered
    BY <1>6, <1>7, <2>2 DEF LifeInv
  <2> QED
    BY <2>1, <2>2, Zenon
<1>12. MapInv'
  <2>1. ASSUME NEW d \in Docs, entries'[d] # None PROVE MapInv!1!(d)!2'
    BY <1>2, <1>3, <1>4, <1>6, <2>1 DEF MapInv
  <2>2. ASSUME NEW g \in Gens PROVE MapInv!2!(g)'
    <3>1. CASE g \in Registered
      <4>1. gen'[g].id = gen[g].id /\ entries[gen[g].id] = g
        BY <1>5, <1>6, <3>1 DEF MapInv
      <4> QED
        BY <1>2, <4>1, Zenon
    <3>2. CASE g \notin Registered
      BY <1>2, <1>6, <1>7, <3>2 DEF MapInv
    <3> QED
      BY <3>1, <3>2, Zenon
  <2> QED
    BY <2>1, <2>2, Zenon DEF MapInv
<1>13. RefsInv'
  <2> SUFFICES ASSUME NEW h \in Gens PROVE RefsInv!(h)'
    BY Zenon DEF RefsInv
  <2>1. Holders(h)' = Holders(h)
    BY <1>1, <1>2, <1>7, HoldersKept DEF Procs
  <2>2. CASE h \in Registered
    BY <1>1, <1>6, <2>1, <2>2 DEF RefsInv
  <2>3. CASE h \notin Registered
    BY <1>6, <2>1, <2>3 DEF RefsInv
  <2> QED
    BY <2>2, <2>3, Zenon
<1>14. DrainInv'
  BY <1>2, <1>6 DEF DrainInv
<1>15. \A q \in Procs : pc[q] \notin {"finish", "evict"}
  <2>1. \A q \in Procs : pc[q] # "finish"
    BY <1>1, Zenon DEF OwnerInv, FinishInv
  <2>2. \A q \in Callers : pc[q] # "evict"
    <3> SUFFICES ASSUME NEW q \in Callers, pc[q] = "evict" PROVE FALSE
      BY Zenon
    <3>1. gen[ent[q]].closing /\ gen[ent[q]].id \in Docs /\ entries[gen[ent[q]].id] = ent[q] /\ ent[q] # None
      BY RegistryAssumption DEF OwnerInv, EvictInv, ProcInv, LifeInv
    <3> QED
      BY <1>1, <1>4, <3>1, Zenon
  <2> QED
    BY <2>1, <2>2, Zenon DEF ProcInv, GenPCs, Procs
<1>16. OwnerInv'
  <2>1. FinishInv' /\ EvictInv'
    BY <1>7, <1>15, Zenon DEF FinishInv, EvictInv, Procs
  <2>2. CloseInv'
    BY <1>1, <1>2, <1>3, <1>6, <1>7, <1>10 DEF OwnerInv, CloseInv, Procs
  <2>3. SoleOwnerInv'
    BY <1>1, <1>7, <1>15 DEF OwnerInv, SoleOwnerInv, CloseInv, Procs
  <2> QED
    BY <2>1, <2>2, <2>3 DEF OwnerInv
<1>17. ClosedInv'
  <2>1. \A d \in Docs : entries'[d] # None => gen'[entries'[d]].closing /\ gen'[entries'[d]].ready
    BY <1>1, <1>2, <1>3, <1>4, <1>6
  <2>2. ASSUME NEW g \in Gens PROVE pc'[g] \notin {"open", "finish"}
    <3>1. CASE pc[g] = "open"
      <4>1. gen[g].id \in Docs /\ ~gen[g].ready /\ ~gen[g].destroying
        BY <3>1, Zenon DEF LifeInv
      <4>2. ~gen[g].poisoned
        BY <1>1, <4>1, Zenon DEF DrainInv
      <4>3. gen[g].done = 0
        BY <4>1, <4>2, Zenon DEF LifeInv
      <4>4. entries[gen[g].id] = g
        BY <3>1, <4>2, <4>3 DEF MapInv
      <4>5. g \in Registered
        BY <1>4, <4>1, <4>4, RegistryAssumption, Zenon
      <4> QED
        BY <1>1, <4>1, <4>5, Zenon
    <3> QED
      BY <1>7, <1>15, <3>1, Zenon
  <2>3. ASSUME NEW q \in Callers PROVE pc'[q] \notin {"finish", "evict", "holding"}
    <3>1. CASE pc[q] = "holding"
      <4>1. ent[q] \in Gens /\ q \in Holders(ent[q]) /\ pc[ent[q]] # "unborn"
        BY <3>1, Zenon DEF ProcInv, Holders
      <4>2. Holders(ent[q]) \in SUBSET Callers /\ Holders(ent[q]) # {}
        BY <4>1, Zenon DEF Holders
      <4>3. Cardinality(Holders(ent[q])) \in Nat /\ Cardinality(Holders(ent[q])) # 0
        BY <4>2, Zenon DEF CallersCount
      <4>4. gen[ent[q]].refs > 0
        BY <4>1, <4>3 DEF RefsInv
      <4>5. ~gen[ent[q]].poisoned /\ ~gen[ent[q]].closing
        BY <1>1, <4>1, <4>4, Zenon DEF RefsInv, DrainInv
      <4>6. gen[ent[q]].id \in Docs /\ entries[gen[ent[q]].id] = ent[q]
        BY <4>1, <4>5, Zenon DEF MapInv, LifeInv
      <4>7. ent[q] \in Registered
        BY <1>4, <4>1, <4>6, RegistryAssumption, Zenon
      <4> QED
        BY <1>1, <4>4, <4>7
    <3> QED
      BY <1>7, <1>15, <3>1, Zenon DEF Procs
  <2> QED
    BY <1>1, <1>2, <2>1, <2>2, <2>3, Zenon DEF ClosedInv
<1> QED
  BY <1>8, <1>9, <1>11, <1>12, <1>13, <1>14, <1>16, <1>17

=============================================================================
