------------------------------ MODULE Registry ------------------------------
(***************************************************************************)
(* The in-process document registry, backend/memory/registry.go.           *)
(*                                                                         *)
(* A registry hands out at most one live document per document id.  Every  *)
(* cache miss creates a GENERATION (the code's *entry), whose document is  *)
(* opened by a goroutine of its own; callers wait for it, take references  *)
(* and release them, while other callers evict, invalidate or close.       *)
(*                                                                         *)
(* One action is one critical section of r.mu, one call of Doc.Destroy     *)
(* (always made outside the lock) or one wakeup of a channel wait.         *)
(***************************************************************************)
EXTENDS Integers, FiniteSets

CONSTANTS
  Callers,  \* goroutines that call the registry, one operation at a time
  Docs,     \* document ids
  Gens,     \* generations (*entry pointers) the allocator may hand out
  None      \* the nil pointer

ASSUME RegistryAssumption ==
  /\ IsFiniteSet(Callers)
  /\ Callers \cap Gens = {}
  /\ None \notin Gens \cup Docs

VARIABLES
  closed,    \* r.closed
  entries,   \* r.entries: the registered generation of each document
  draining,  \* r.draining: poisoned generations not yet torn down
  gen,       \* the fields of every *entry
  pc,        \* where each caller, and the goroutine of each generation, is
  ent,       \* the *entry a process holds across an unlock
  arg,       \* the document id of a pending Acquire
  ctxDone,   \* whether the caller's context is cancelled
  todo,      \* generations whose document the process has yet to Destroy
  ret        \* where a process resumes after finishPoisoned

vars == <<closed, entries, draining, gen, pc, ent, arg, ctxDone, todo, ret>>

\* An *entry as Acquire creates it.  done counts the closes of its channel: a
\* second close is a run-time panic.  destroys counts the calls of Doc.Destroy.
NewEntry(d) ==
  [id |-> d, ready |-> FALSE, invalidated |-> FALSE, done |-> 0, cancelled |-> FALSE,
   waiters |-> 1, claimed |-> FALSE, doc |-> FALSE, err |-> FALSE, refs |-> 0,
   closing |-> FALSE, poisoned |-> FALSE, destroying |-> FALSE, destroys |-> 0]

Procs == Callers \cup Gens

Init ==
  /\ closed = FALSE
  /\ entries = [d \in Docs |-> None]
  /\ draining = {}
  /\ gen = [g \in Gens |-> [NewEntry(None) EXCEPT !.waiters = 0]]
  /\ pc = [p \in Procs |-> IF p \in Callers THEN "idle" ELSE "unborn"]
  /\ ent = [p \in Procs |-> None]
  /\ arg = [p \in Procs |-> None]
  /\ ctxDone = [p \in Procs |-> FALSE]
  /\ todo = [p \in Procs |-> {}]
  /\ ret = [p \in Procs |-> "idle"]

-----------------------------------------------------------------------------
(* The ...Locked helpers, as functions of the entry they are given.        *)

\* Definitions named Fault... are deliberately wrong variants of the definition
\* that follows them: each stands for a plausible slip in that code, to see
\* that a property notices it.

FaultAbandonsOpening(e) ==
  e.waiters = 1 /\ e.refs = 0 /\ ~e.claimed /\ ~e.closing /\ ~e.ready

FaultAbandonsClaimed(e) == e.waiters = 1 /\ ~e.closing

\* dropWaiterLocked abandons the generation: its last waiter leaves and nobody
\* ever took a reference.
Abandons(e) ==
  e.waiters = 1 /\ e.refs = 0 /\ ~e.claimed /\ ~e.closing

dropWaiterLocked(e) ==
  IF Abandons(e)
    THEN [e EXCEPT !.waiters = 0, !.closing = TRUE, !.poisoned = TRUE, !.cancelled = TRUE]
    ELSE [e EXCEPT !.waiters = IF @ = 0 THEN 0 ELSE @ - 1]

FaultDetachClaimed(d, g, e) ==
  /\ entries' = IF e.waiters = 1 /\ e.refs = 0 /\ ~e.closing /\ entries[d] = g
                  THEN [entries EXCEPT ![d] = None] ELSE entries
  /\ draining' = IF Abandons(e) THEN draining \cup {g} ELSE draining

\* What dropWaiterLocked(id, e) does to the registry's two maps.
Detach(d, g, e) ==
  /\ entries' = IF Abandons(e) /\ entries[d] = g THEN [entries EXCEPT ![d] = None] ELSE entries
  /\ draining' = IF Abandons(e) THEN draining \cup {g} ELSE draining

FaultTakesInUse(e) == e.poisoned /\ ~e.destroying /\ e.ready

FaultTakesTwice(e) == e.poisoned /\ e.refs = 0 /\ e.ready

\* takePoisonedDestroyLocked: the caller becomes the one that destroys.
Takes(e) == e.poisoned /\ ~e.destroying /\ e.refs = 0 /\ e.ready

takePoisonedDestroyLocked(e) == IF Takes(e) THEN [e EXCEPT !.destroying = TRUE] ELSE e

\* A process forgets what only its finished call needed.
Forget(p) ==
  LET over == pc'[p] \in {"idle", "holding", "exited"} IN
  /\ arg' = IF over THEN [arg EXCEPT ![p] = None] ELSE arg
  /\ ctxDone' = IF over THEN [ctxDone EXCEPT ![p] = FALSE] ELSE ctxDone
  /\ ent' = IF pc'[p] \in {"idle", "lookup", "exited"} THEN [ent EXCEPT ![p] = None] ELSE ent

\* Process p leaves its critical section on generation g, whose entry is now e:
\* it runs finishPoisoned first if it took the destruction, then goes on at next.
LeaveLocked(p, g, e, next) ==
  /\ gen' = [gen EXCEPT ![g] = takePoisonedDestroyLocked(e)]
  /\ IF Takes(e)
       THEN /\ pc' = [pc EXCEPT ![p] = "finish"]
            /\ ret' = [ret EXCEPT ![p] = next]
            /\ todo' = [todo EXCEPT ![p] = IF e.doc THEN {g} ELSE {}]
       ELSE /\ pc' = [pc EXCEPT ![p] = next]
            /\ UNCHANGED <<ret, todo>>

-----------------------------------------------------------------------------
(* Acquire.                                                                *)

AcquireCall(c, d) ==
  /\ pc[c] = "idle"
  /\ pc' = [pc EXCEPT ![c] = "lookup"]
  /\ arg' = [arg EXCEPT ![c] = d]
  /\ ctxDone' = [ctxDone EXCEPT ![c] = FALSE]
  /\ UNCHANGED <<closed, entries, draining, gen, ent, todo, ret>>

\* The context of a running call is cancelled (its own or its parent's doing).
CancelCtx(c) ==
  /\ pc[c] \in {"lookup", "awaitDone", "awaitEntry", "awaitDrain"}
  /\ ctxDone' = [ctxDone EXCEPT ![c] = TRUE]
  /\ UNCHANGED <<closed, entries, draining, gen, pc, ent, arg, todo, ret>>

\* ctx.Err() or ErrClosed.
AcquireFail(c) ==
  /\ pc[c] = "lookup"
  /\ ctxDone[c] \/ closed
  /\ pc' = [pc EXCEPT ![c] = "idle"]
  /\ Forget(c)
  /\ UNCHANGED <<closed, entries, draining, gen, todo, ret>>

\* The registered generation is being retired: wait for its done channel.
AcquireRetiring(c) ==
  /\ pc[c] = "lookup" /\ ~ctxDone[c] /\ ~closed
  /\ entries[arg[c]] # None
  /\ gen[entries[arg[c]]].closing
  /\ pc' = [pc EXCEPT ![c] = "awaitDone"]
  /\ ent' = [ent EXCEPT ![c] = entries[arg[c]]]
  /\ UNCHANGED <<closed, entries, draining, gen, arg, ctxDone, todo, ret>>

AcquireJoin(c) ==
  /\ pc[c] = "lookup" /\ ~ctxDone[c] /\ ~closed
  /\ entries[arg[c]] # None
  /\ ~gen[entries[arg[c]]].closing
  /\ gen' = [gen EXCEPT ![entries[arg[c]]].waiters = @ + 1]
  /\ pc' = [pc EXCEPT ![c] = "awaitEntry"]
  /\ ent' = [ent EXCEPT ![c] = entries[arg[c]]]
  /\ UNCHANGED <<closed, entries, draining, arg, ctxDone, todo, ret>>

\* A cache miss: a fresh generation, and the goroutine that opens it.
AcquireCreate(c, g) ==
  /\ pc[c] = "lookup" /\ ~ctxDone[c] /\ ~closed
  /\ entries[arg[c]] = None
  /\ pc[g] = "unborn"
  /\ gen' = [gen EXCEPT ![g] = NewEntry(arg[c])]
  /\ entries' = [entries EXCEPT ![arg[c]] = g]
  /\ pc' = [pc EXCEPT ![c] = "awaitEntry", ![g] = "open"]
  /\ ent' = [ent EXCEPT ![c] = g, ![g] = g]
  /\ UNCHANGED <<closed, draining, arg, ctxDone, todo, ret>>

\* The wait for a retired generation ends: look again, or give up.
AwaitDone(c) ==
  /\ pc[c] = "awaitDone"
  /\ \/ gen[ent[c]].done > 0 /\ pc' = [pc EXCEPT ![c] = "lookup"]
     \/ ctxDone[c] /\ pc' = [pc EXCEPT ![c] = "idle"]
  /\ Forget(c)
  /\ UNCHANGED <<closed, entries, draining, gen, todo, ret>>

\* awaitEntry, the ctx.Done case: the waiter leaves without a decision.
AwaitCancelled(c) ==
  /\ pc[c] = "awaitEntry" /\ ctxDone[c]
  /\ LET g == ent[c] IN
       /\ Detach(arg[c], g, gen[g])
       /\ LeaveLocked(c, g, dropWaiterLocked(gen[g]), "idle")
  /\ Forget(c)
  /\ UNCHANGED closed

\* finalizeLocked hands out no handle on e.
Refused(c, e) == ctxDone[c] \/ e.poisoned \/ e.err \/ e.closing

\* finalizeLocked without a reference: the caller's own cancellation and the
\* error of a failed open end the call, a poisoned or retired generation is
\* looked up again.
FinalizeRefused(c) ==
  /\ pc[c] = "awaitEntry"
  /\ LET g == ent[c]
         e == gen[g]
         next == IF ctxDone[c] THEN "idle" ELSE IF e.poisoned THEN "lookup"
                 ELSE IF e.err THEN "idle" ELSE "lookup"
     IN /\ e.ready
        /\ Refused(c, e)
        /\ Detach(arg[c], g, e)
        /\ LeaveLocked(c, g, dropWaiterLocked(e), next)
  /\ Forget(c)
  /\ UNCHANGED closed

\* finalizeLocked hands out a handle.  The reference is taken before the waiter
\* count is released.
FinalizeAcquired(c) ==
  /\ pc[c] = "awaitEntry"
  /\ LET g == ent[c]
         e == gen[g]
         claimed == [e EXCEPT !.claimed = TRUE, !.refs = @ + 1]
     IN /\ e.ready
        /\ ~Refused(c, e)
        /\ Detach(arg[c], g, claimed)
        /\ LeaveLocked(c, g, dropWaiterLocked(claimed), "holding")
  /\ Forget(c)
  /\ UNCHANGED closed

FaultReleaseTwice(c) ==
  /\ pc[c] = "holding"
  /\ gen[ent[c]].refs > 0
  /\ LeaveLocked(c, ent[c], [gen[ent[c]] EXCEPT !.refs = @ - 2], "idle")
  /\ Forget(c)
  /\ UNCHANGED <<closed, entries, draining>>

\* Handle.Release; it panics when the entry has no reference left.
Release(c) ==
  /\ pc[c] = "holding"
  /\ gen[ent[c]].refs > 0
  /\ LeaveLocked(c, ent[c], [gen[ent[c]] EXCEPT !.refs = @ - 1], "idle")
  /\ Forget(c)
  /\ UNCHANGED <<closed, entries, draining>>

-----------------------------------------------------------------------------
(* runOpen: the goroutine of a generation, after OpenFunc returned.        *)

FaultOpenReturnsToNobody(g, failed) ==
  /\ pc[g] = "open"
  /\ LET e == [gen[g] EXCEPT !.ready = TRUE, !.doc = ~failed, !.err = failed]
     IN /\ gen' = [gen EXCEPT ![g] =
             IF failed THEN [e EXCEPT !.closing = TRUE, !.done = @ + 1] ELSE e]
        /\ entries' = IF failed /\ entries[e.id] = g
                        THEN [entries EXCEPT ![e.id] = None] ELSE entries
  /\ pc' = [pc EXCEPT ![g] = "exited"]
  /\ Forget(g)
  /\ UNCHANGED <<closed, draining, ret, todo>>

OpenReturns(g, failed) ==
  /\ pc[g] = "open"
  /\ LET e == [gen[g] EXCEPT !.ready = TRUE, !.doc = ~failed, !.err = failed]
     IN IF e.poisoned
          THEN /\ LeaveLocked(g, g, e, "exited")
               /\ UNCHANGED entries
          ELSE /\ gen' = [gen EXCEPT ![g] =
                    IF failed THEN [e EXCEPT !.closing = TRUE, !.done = @ + 1] ELSE e]
               /\ entries' = IF failed /\ entries[e.id] = g
                               THEN [entries EXCEPT ![e.id] = None] ELSE entries
               /\ pc' = [pc EXCEPT ![g] = "exited"]
               /\ UNCHANGED <<ret, todo>>
  /\ Forget(g)
  /\ UNCHANGED <<closed, draining>>

-----------------------------------------------------------------------------
(* Invalidate, Evict and Close.  A call that returns without doing         *)
(* anything (ErrClosed, ErrInUse, nothing registered) changes no state and *)
(* is a stuttering step.                                                   *)

FaultInvalidateServes(c, d) ==
  /\ pc[c] = "idle" /\ ~closed
  /\ entries[d] # None
  /\ LET g == entries[d] IN
       /\ ~gen[g].closing
       /\ draining' = draining \cup {g}
       /\ LeaveLocked(c, g, [gen[g] EXCEPT !.poisoned = TRUE, !.cancelled = TRUE,
                              !.invalidated = TRUE], "awaitDrain")
       /\ ent' = [ent EXCEPT ![c] = g]
  /\ ctxDone' = [ctxDone EXCEPT ![c] = FALSE]
  /\ UNCHANGED <<closed, entries, arg>>

Invalidate(c, d) ==
  /\ pc[c] = "idle" /\ ~closed
  /\ entries[d] # None
  /\ LET g == entries[d] IN
       /\ ~gen[g].closing
       /\ entries' = [entries EXCEPT ![d] = None]
       /\ draining' = draining \cup {g}
       /\ LeaveLocked(c, g, [gen[g] EXCEPT !.closing = TRUE, !.poisoned = TRUE,
                              !.cancelled = TRUE, !.invalidated = TRUE], "awaitDrain")
       /\ ent' = [ent EXCEPT ![c] = g]
  /\ ctxDone' = [ctxDone EXCEPT ![c] = FALSE]
  /\ UNCHANGED <<closed, arg>>

AwaitDrain(c) ==
  /\ pc[c] = "awaitDrain"
  /\ gen[ent[c]].done > 0 \/ ctxDone[c]
  /\ pc' = [pc EXCEPT ![c] = "idle"]
  /\ Forget(c)
  /\ UNCHANGED <<closed, entries, draining, gen, todo, ret>>

\* A generation Evict and Close may retire: ready, unreferenced, not retiring.
Idle(g) == gen[g].ready /\ gen[g].refs = 0 /\ ~gen[g].closing

Evict(c, d) ==
  /\ pc[c] = "idle"
  /\ entries[d] # None
  /\ Idle(entries[d])
  /\ gen' = [gen EXCEPT ![entries[d]].closing = TRUE]
  /\ pc' = [pc EXCEPT ![c] = "evict"]
  /\ ent' = [ent EXCEPT ![c] = entries[d]]
  /\ todo' = [todo EXCEPT ![c] = {entries[d]}]
  /\ UNCHANGED <<closed, entries, draining, arg, ctxDone, ret>>

Registered == {entries[d] : d \in Docs} \ {None}

FaultCloseOverDraining(c) ==
  /\ pc[c] = "idle" /\ ~closed
  /\ \A g \in Registered : Idle(g)
  /\ closed' = TRUE
  /\ gen' = [g \in Gens |-> IF g \in Registered THEN [gen[g] EXCEPT !.closing = TRUE] ELSE gen[g]]
  /\ pc' = [pc EXCEPT ![c] = "close"]
  /\ todo' = [todo EXCEPT ![c] = Registered]
  /\ UNCHANGED <<entries, draining, ent, arg, ctxDone, ret>>

Close(c) ==
  /\ pc[c] = "idle" /\ ~closed
  /\ draining = {}
  /\ \A g \in Registered : Idle(g)
  /\ closed' = TRUE
  /\ gen' = [g \in Gens |-> IF g \in Registered THEN [gen[g] EXCEPT !.closing = TRUE] ELSE gen[g]]
  /\ pc' = [pc EXCEPT ![c] = "close"]
  /\ todo' = [todo EXCEPT ![c] = Registered]
  /\ UNCHANGED <<entries, draining, ent, arg, ctxDone, ret>>

-----------------------------------------------------------------------------
(* Teardown.  doc.Destroy() runs outside the lock, the rest inside.        *)

Destroy(p, g) ==
  /\ pc[p] \in {"finish", "evict", "close"}
  /\ g \in todo[p]
  /\ gen' = [gen EXCEPT ![g].destroys = @ + 1]
  /\ todo' = [todo EXCEPT ![p] = @ \ {g}]
  /\ UNCHANGED <<closed, entries, draining, pc, ent, arg, ctxDone, ret>>

\* The end of finishPoisoned, and the return to where it was called from.
FinishPoisoned(p) ==
  /\ pc[p] = "finish" /\ todo[p] = {}
  /\ draining' = draining \ {ent[p]}
  /\ gen' = [gen EXCEPT ![ent[p]].done = @ + 1]
  /\ pc' = [pc EXCEPT ![p] = ret[p]]
  /\ ret' = [ret EXCEPT ![p] = "idle"]
  /\ Forget(p)
  /\ UNCHANGED <<closed, entries, todo>>

FaultEvictKeepsEntry(c) ==
  /\ pc[c] = "evict" /\ todo[c] = {}
  /\ gen' = [gen EXCEPT ![ent[c]].done = @ + 1]
  /\ pc' = [pc EXCEPT ![c] = "idle"]
  /\ Forget(c)
  /\ UNCHANGED <<closed, entries, draining, todo, ret>>

FaultEvictWakesNobody(c) ==
  /\ pc[c] = "evict" /\ todo[c] = {}
  /\ entries' = [entries EXCEPT ![gen[ent[c]].id] = IF @ = ent[c] THEN None ELSE @]
  /\ pc' = [pc EXCEPT ![c] = "idle"]
  /\ Forget(c)
  /\ UNCHANGED <<closed, draining, gen, todo, ret>>

FinishEvict(c) ==
  /\ pc[c] = "evict" /\ todo[c] = {}
  /\ LET g == ent[c] IN
       /\ entries' = [entries EXCEPT ![gen[g].id] = IF @ = g THEN None ELSE @]
       /\ gen' = [gen EXCEPT ![g].done = @ + 1]
  /\ pc' = [pc EXCEPT ![c] = "idle"]
  /\ Forget(c)
  /\ UNCHANGED <<closed, draining, todo, ret>>

FinishClose(c) ==
  /\ pc[c] = "close" /\ todo[c] = {}
  /\ gen' = [g \in Gens |-> IF g \in Registered THEN [gen[g] EXCEPT !.done = @ + 1] ELSE gen[g]]
  /\ entries' = [d \in Docs |-> None]
  /\ pc' = [pc EXCEPT ![c] = "idle"]
  /\ Forget(c)
  /\ UNCHANGED <<closed, draining, todo, ret>>

Next ==
  \/ \E c \in Callers, d \in Docs : AcquireCall(c, d) \/ Invalidate(c, d) \/ Evict(c, d)
  \/ \E c \in Callers :
       \/ CancelCtx(c) \/ AcquireFail(c) \/ AcquireRetiring(c) \/ AcquireJoin(c)
       \/ AwaitDone(c) \/ AwaitCancelled(c) \/ FinalizeRefused(c) \/ FinalizeAcquired(c)
       \/ Release(c) \/ AwaitDrain(c) \/ Close(c) \/ FinishEvict(c) \/ FinishClose(c)
  \/ \E c \in Callers, g \in Gens : AcquireCreate(c, g)
  \/ \E g \in Gens, failed \in BOOLEAN : OpenReturns(g, failed)
  \/ \E p \in Procs, g \in Gens : Destroy(p, g)
  \/ \E p \in Procs : FinishPoisoned(p)

Spec == Init /\ [][Next]_vars

-----------------------------------------------------------------------------
(* Fairness.  A goroutine that is in the middle of a teardown, or whose    *)
(* wait is over, is scheduled.  An OpenFunc returns once its context is    *)
(* cancelled (OpenFunc's contract); one that is still wanted may hang for  *)
(* ever.  A holder releases once Done is closed (Handle's contract).       *)

OpenCancelled(g) == gen[g].cancelled /\ \E failed \in BOOLEAN : OpenReturns(g, failed)

ReleaseInvalidated(c) == pc[c] = "holding" /\ gen[ent[c]].invalidated /\ Release(c)

Fairness ==
  /\ \A p \in Procs : WF_vars(FinishPoisoned(p) \/ \E g \in Gens : Destroy(p, g))
  /\ \A c \in Callers : /\ WF_vars(FinishEvict(c) \/ FinishClose(c))
                       /\ WF_vars(AwaitDone(c) \/ AwaitDrain(c))
                       /\ WF_vars(ReleaseInvalidated(c))
  /\ \A g \in Gens : WF_vars(OpenCancelled(g))

FairSpec == Spec /\ Fairness

-----------------------------------------------------------------------------
(* Properties.                                                             *)

PCs == {"idle", "lookup", "awaitDone", "awaitEntry", "holding", "awaitDrain",
        "finish", "evict", "close", "unborn", "open", "exited"}

EntryType ==
  [id : Docs \cup {None}, ready : BOOLEAN, invalidated : BOOLEAN, done : Nat,
   cancelled : BOOLEAN, waiters : Nat, claimed : BOOLEAN, doc : BOOLEAN, err : BOOLEAN,
   refs : Nat, closing : BOOLEAN, poisoned : BOOLEAN, destroying : BOOLEAN, destroys : Nat]

\* The type invariant of the registry's state.
TypeOK ==
  /\ closed \in BOOLEAN
  /\ entries \in [Docs -> Gens \cup {None}]
  /\ draining \in SUBSET Gens
  /\ gen \in [Gens -> EntryType]
  /\ pc \in [Procs -> PCs]
  /\ ent \in [Procs -> Gens \cup {None}]
  /\ arg \in [Procs -> Docs \cup {None}]
  /\ ctxDone \in [Procs -> BOOLEAN]
  /\ todo \in [Procs -> SUBSET Gens]
  /\ ret \in [Procs -> {"idle", "lookup", "awaitDrain", "exited"}]

\* A document is never destroyed while a handle to it is out: not by an Evict or
\* a Close that raced the acquisition, not by an invalidation still draining.
ServedIsAlive ==
  \A c \in Callers : pc[c] = "holding" => gen[ent[c]].doc /\ gen[ent[c]].destroys = 0

\* The registry's promise: whoever holds a handle that was not invalidated holds
\* the registered instance, so two sessions never mutate two documents of one id
\* (finalizeLocked re-checks closing because a waiter keeps its entry pointer).
ServedIsCurrent ==
  \A c \in Callers : pc[c] = "holding" /\ ~gen[ent[c]].invalidated
                        => entries[gen[ent[c]].id] = ent[c]

\* Two live, unpoisoned documents of one id never exist, held or not: a reopen
\* waits for the done channel of the generation it replaces.
OneCurrentDocument ==
  \A g, h \in Gens :
    /\ gen[g].id = gen[h].id /\ gen[g].id # None
    /\ gen[g].doc /\ gen[g].destroys = 0 /\ ~gen[g].poisoned
    /\ gen[h].doc /\ gen[h].destroys = 0 /\ ~gen[h].poisoned
    => g = h

\* Evict, Close, runOpen, Invalidate, Release and a departing waiter can each be
\* the one to tear a generation down; exactly one of them is.  A second close of
\* done panics, and so does a Release that finds no reference.
TornDownOnce ==
  /\ \A g \in Gens : gen[g].done <= 1 /\ gen[g].destroys <= 1
  /\ \A c \in Callers : pc[c] = "holding" => gen[ent[c]].refs > 0

\* done is closed only when the generation is gone: unreachable through the map,
\* unreferenced, and its document (if the open produced one) destroyed.
DoneMeansGone ==
  \A g \in Gens : gen[g].done > 0 =>
    /\ g \notin Registered /\ g \notin draining
    /\ gen[g].refs = 0
    /\ gen[g].doc => gen[g].destroys = 1

\* "Close reports ErrInUse rather than returning while one is still running":
\* once the registry is closed no goroutine of a generation runs, nothing is
\* being drained and nobody holds a handle.
ClosedIsQuiescent ==
  closed => /\ draining = {}
            /\ \A g \in Gens : pc[g] \in {"unborn", "exited"}
            /\ \A c \in Callers : pc[c] \notin {"holding", "finish", "evict"}

\* "This API promises no warming": a ready document that nobody ever acquired is
\* registered only as long as somebody is still waiting for it.
NoWarming ==
  \A g \in Registered : gen[g].ready /\ ~gen[g].closing /\ ~gen[g].claimed
                           => gen[g].waiters > 0

\* Poisoning is for ever: no step un-poisons a generation or hands out a new
\* reference to it, whatever the caller's context does.
PoisonIsFinal ==
  [][\A g \in Gens : gen[g].poisoned =>
       gen'[g].poisoned /\ gen'[g].refs <= gen[g].refs /\ g \notin Registered']_vars

\* Every poisoned generation is eventually torn down, whether it was invalidated
\* with handles out, invalidated while opening, or abandoned by its last waiter.
PoisonedDrains ==
  \A g \in Gens : gen[g].poisoned ~> gen[g].done > 0

\* Nobody is left waiting for a retirement: a caller that found a retiring
\* generation looks again, and Invalidate returns.
RetirementWakes ==
  \A c \in Callers : pc[c] \in {"awaitDone", "awaitDrain"} ~> pc[c] \in {"lookup", "idle"}

\* What Close's comment says of the generations it retires: "Each surviving
\* entry's open context was already cancelled by its last departing waiter".
OpenContextsCancelled ==
  closed => \A g \in Registered : gen[g].cancelled
=============================================================================
