----------------------------- MODULE Awareness ------------------------------
(***************************************************************************)
(* Presence: crdt/awareness.go.  Every peer keeps, for every client it     *)
(* knows of, a state and a clock, and the time since they were last        *)
(* updated.  A peer publishes its own state with a higher clock; it        *)
(* accepts what others say of a client when the clock is higher, or when   *)
(* the clock is the same and the message says the client is gone.  The     *)
(* timer of a ManagedAwareness renews the local state and removes clients  *)
(* that were silent for too long.                                          *)
(*                                                                         *)
(* One action is one critical section of a.mu.  The transport may deliver  *)
(* a message late, repeatedly, out of order or never.                      *)
(***************************************************************************)
EXTENDS Integers, FiniteSets

CONSTANTS
  Clients,   \* client ids; every client is also a peer with an Awareness
  Batches,   \* the sets of clients a message may be about
  Managed,   \* the peers that run the timer of a ManagedAwareness
  Empty,     \* the state {}, which NewAwareness sets
  Values,    \* other states an application sets
  Null,      \* no state: the zero Object
  None,      \* no metadata
  Timeout,   \* OutdatedTimeout, in units of time
  MaxClock,  \* bound on the clocks
  MaxSends   \* bound on the messages sent

ASSUME AwarenessAssumption ==
  /\ Managed \subseteq Clients /\ Batches \subseteq SUBSET Clients
  /\ Empty # Null /\ {Empty, Null} \cap Values = {} /\ None \notin Nat
  /\ Timeout \in Nat \ {0, 1} /\ MaxClock \in Nat /\ MaxSends \in Nat

VARIABLES
  states,   \* states[p][c]: a.states of peer p (Null: absent)
  clock,    \* clock[p][c]: a.meta of peer p, the clock (None: no metadata)
  age,      \* age[p][c]: the time since lastUpdated, at most Timeout; 0 where
            \* nobody reads it (Ages)
  life,     \* "live", "destroying" (destroyed set, not cleared yet), "destroyed"
  timer,    \* where the timer goroutine of p is in tick()
  renew,    \* renewLocal, or the state the tick read back
  stale,    \* the clients the tick decided to remove
  sent      \* the messages sent: client -> clock and state

vars == <<states, clock, age, life, timer, renew, stale, sent>>

\* NewAwareness, which ends with SetLocalState(newObject()).
Init ==
  /\ states = [p \in Clients |-> [c \in Clients |-> IF c = p THEN Empty ELSE Null]]
  /\ clock = [p \in Clients |-> [c \in Clients |-> IF c = p THEN 0 ELSE None]]
  /\ age = [p \in Clients |-> [c \in Clients |-> 0]]
  /\ life = [p \in Clients |-> "live"]
  /\ timer = [p \in Clients |-> "wait"]
  /\ renew = [p \in Clients |-> Null]
  /\ stale = [p \in Clients |-> {}]
  /\ sent = {}

-----------------------------------------------------------------------------
(* The critical sections.                                                  *)

\* Definitions named Fault... are deliberately wrong variants of the definition
\* that follows them, to see that a property notices the difference.

FaultSetLocalStateLate(p, s, force) ==
  LET known == clock[p][p] # None IN
  /\ known => clock[p][p] < MaxClock
  /\ states' = [states EXCEPT ![p][p] = s]
  /\ clock' = [clock EXCEPT ![p][p] = IF known THEN @ + 1 ELSE 0]
  /\ age' = [age EXCEPT ![p][p] = 0]

\* setLocalState; on a destroyed value it does nothing unless forced.
setLocalState(p, s, force) ==
  LET known == clock[p][p] # None IN
  /\ force \/ life[p] = "live"
  /\ known => clock[p][p] < MaxClock
  /\ states' = [states EXCEPT ![p][p] = s]
  /\ clock' = [clock EXCEPT ![p][p] = IF known THEN @ + 1 ELSE 0]
  /\ age' = [age EXCEPT ![p][p] = 0]

FaultRemoveBumpsClock(p, cs) ==
  LET gone == {c \in cs : states[p][c] # Null} IN
  /\ life[p] = "live"
  /\ \A c \in gone : clock[p][c] < MaxClock
  /\ states' = [states EXCEPT ![p] = [c \in Clients |-> IF c \in gone THEN Null ELSE @[c]]]
  /\ clock' = [clock EXCEPT ![p] = [c \in Clients |-> IF c \in gone THEN @[c] + 1 ELSE @[c]]]
  /\ age' = age

\* RemoveAwarenessStates: only the clock of the local client is advanced.
RemoveAwarenessStates(p, cs) ==
  LET gone == {c \in cs : states[p][c] # Null} IN
  /\ life[p] = "live"
  /\ p \in gone => clock[p][p] < MaxClock
  /\ states' = [states EXCEPT ![p] = [c \in Clients |-> IF c \in gone THEN Null ELSE @[c]]]
  /\ clock' = IF p \in gone THEN [clock EXCEPT ![p][p] = @ + 1] ELSE clock
  /\ age' = [age EXCEPT ![p] = [c \in Clients |-> IF c \in gone THEN 0 ELSE @[c]]]

FaultAcceptsSameClock(p, c, e) ==
  LET currClock == IF clock[p][c] = None THEN 0 ELSE clock[p][c] IN
  currClock <= e.clock

\* applyAwarenessEntries takes entry e on client c.
Accepts(p, c, e) ==
  LET currClock == IF clock[p][c] = None THEN 0 ELSE clock[p][c] IN
  \/ currClock < e.clock
  \/ currClock = e.clock /\ e.state = Null /\ states[p][c] # Null

FaultSurvivesNever(p, c, e) == FALSE

\* "never let a remote client remove this local state": it answers with a
\* higher clock instead.
Survives(p, c, e) == e.state = Null /\ c = p /\ states[p][p] # Null

\* applyAwarenessEntries: the entries a message was decoded into, all under one
\* lock; a destroyed value takes none.
applyAwarenessEntries(p, m) ==
  LET taken == {c \in DOMAIN m : Accepts(p, c, m[c])}
      kept  == {c \in taken : Survives(p, c, m[c])}
  IN
  /\ life[p] = "live"
  /\ \A c \in kept : m[c].clock < MaxClock
  /\ states' = [states EXCEPT ![p] = [c \in Clients |->
       IF c \in taken \ kept THEN m[c].state ELSE @[c]]]
  /\ clock' = [clock EXCEPT ![p] = [c \in Clients |->
       IF c \in kept THEN m[c].clock + 1 ELSE IF c \in taken THEN m[c].clock ELSE @[c]]]
  /\ age' = [age EXCEPT ![p] = [c \in Clients |-> IF c \in taken THEN 0 ELSE @[c]]]

-----------------------------------------------------------------------------
(* Calls of the application and of its transport.                          *)

SetLocalState(p, s) ==
  /\ setLocalState(p, s, FALSE)
  /\ UNCHANGED <<life, timer, renew, stale, sent>>

Remove(p, c) ==
  /\ states[p][c] # Null
  /\ RemoveAwarenessStates(p, {c})
  /\ UNCHANGED <<life, timer, renew, stale, sent>>

FaultEncodeOlderClock(p, cs) ==
  /\ Cardinality(sent) < MaxSends
  /\ \A c \in cs : clock[p][c] # None
  /\ sent' = sent \cup {[c \in cs |->
       [clock |-> IF clock[p][c] = 0 THEN 0 ELSE clock[p][c] - 1, state |-> states[p][c]]]}
  /\ UNCHANGED <<states, clock, age, life, timer, renew, stale>>

\* EncodeAwarenessUpdate of some clients p has metadata of.
EncodeAwarenessUpdate(p, cs) ==
  /\ Cardinality(sent) < MaxSends
  /\ \A c \in cs : clock[p][c] # None
  /\ sent' = sent \cup {[c \in cs |-> [clock |-> clock[p][c], state |-> states[p][c]]]}
  /\ UNCHANGED <<states, clock, age, life, timer, renew, stale>>

ApplyAwarenessUpdate(p, m) ==
  /\ applyAwarenessEntries(p, m)
  /\ UNCHANGED <<life, timer, renew, stale, sent>>

\* Destroy claims the flag, emits "destroy", and then clears the local state.
Destroy(p) ==
  /\ life[p] = "live"
  /\ life' = [life EXCEPT ![p] = "destroying"]
  /\ UNCHANGED <<states, clock, age, timer, renew, stale, sent>>

DestroyClear(p) ==
  /\ life[p] = "destroying"
  /\ setLocalState(p, Null, TRUE)
  /\ life' = [life EXCEPT ![p] = "destroyed"]
  /\ UNCHANGED <<timer, renew, stale, sent>>

-----------------------------------------------------------------------------
(* Time, and the tick of the timer goroutine.                              *)

\* The age of an entry without a state, or of the local state of a peer without
\* a timer, is never read.
Ages(p, c) == states[p][c] # Null /\ (c = p => p \in Managed) /\ age[p][c] < Timeout

Elapse ==
  /\ age' = [p \in Clients |-> [c \in Clients |->
       IF Ages(p, c) THEN age[p][c] + 1 ELSE age[p][c]]]
  /\ UNCHANGED <<states, clock, life, timer, renew, stale, sent>>

FaultTickReapsNobody(p) ==
  /\ p \in Managed /\ timer[p] = "wait" /\ life[p] = "live"
  /\ stale' = [stale EXCEPT ![p] = {}]
  /\ timer' = [timer EXCEPT ![p] = "read"]
  /\ UNCHANGED <<states, clock, age, life, renew, sent>>

\* The decision, under the lock: is the local state due for renewal, and which
\* remote clients are past the timeout?
Tick(p) ==
  LET renewLocal == states[p][p] # Null /\ age[p][p] >= Timeout \div 2
      removed == {c \in Clients \ {p} : states[p][c] # Null /\ age[p][c] >= Timeout}
  IN
  /\ p \in Managed /\ timer[p] = "wait" /\ life[p] = "live"
  /\ stale' = [stale EXCEPT ![p] = removed]
  /\ timer' = [timer EXCEPT ![p] = IF renewLocal THEN "read" ELSE "reap"]
  /\ UNCHANGED <<states, clock, age, life, renew, sent>>

\* GetLocalState, in a critical section of its own.
TickRead(p) ==
  /\ timer[p] = "read"
  /\ renew' = [renew EXCEPT ![p] = states[p][p]]
  /\ timer' = [timer EXCEPT ![p] = IF states[p][p] = Null THEN "reap" ELSE "write"]
  /\ UNCHANGED <<states, clock, age, life, stale, sent>>

\* SetLocalState with what was read (left out at the bound on clocks).
TickWrite(p) ==
  /\ timer[p] = "write"
  /\ timer' = [timer EXCEPT ![p] = "reap"]
  /\ renew' = [renew EXCEPT ![p] = Null]
  /\ IF life[p] = "live" /\ clock[p][p] < MaxClock
       THEN setLocalState(p, renew[p], FALSE)
       ELSE UNCHANGED <<states, clock, age>>
  /\ UNCHANGED <<life, stale, sent>>

TickReap(p) ==
  /\ timer[p] = "reap"
  /\ timer' = [timer EXCEPT ![p] = "wait"]
  /\ stale' = [stale EXCEPT ![p] = {}]
  /\ IF life[p] = "live" /\ stale[p] # {}
       THEN RemoveAwarenessStates(p, stale[p])
       ELSE UNCHANGED <<states, clock, age>>
  /\ UNCHANGED <<life, renew, sent>>

Next ==
  \/ Elapse
  \/ \E p \in Clients :
       \/ \E s \in {Empty, Null} \cup Values : SetLocalState(p, s)
       \/ \E c \in Clients : Remove(p, c)
       \/ \E cs \in Batches : EncodeAwarenessUpdate(p, cs)
       \/ \E m \in sent : ApplyAwarenessUpdate(p, m)
       \/ Destroy(p) \/ DestroyClear(p)
       \/ Tick(p) \/ TickRead(p) \/ TickWrite(p) \/ TickReap(p)

Spec == Init /\ [][Next]_vars

\* Time passes and the ticker fires: run() calls tick() every tenth of the
\* timeout for as long as it is not stopped.  Nothing is assumed of the
\* applications or of the transport.
Fairness ==
  /\ WF_vars(Elapse)
  /\ \A p \in Clients : /\ WF_vars(DestroyClear(p))
                         /\ WF_vars(Tick(p)) /\ WF_vars(TickRead(p))
                         /\ WF_vars(TickWrite(p)) /\ WF_vars(TickReap(p))

FairSpec == Spec /\ Fairness

-----------------------------------------------------------------------------
\* GetStates: a remote client past the timeout is not shown, the local one is.
GetStates(p) ==
  {c \in Clients : states[p][c] # Null /\ (c = p \/ age[p][c] < Timeout)}

\* Nobody holds or sends a clock of a client that is ahead of the client's own:
\* a removal decided by another peer does not advance the clock, and the only
\* answer with a higher clock is the client's.  What has a state has a clock.
OwnerIsAhead ==
  \A c \in Clients :
    /\ \A p \in Clients : states[p][c] # Null => clock[p][c] # None
    /\ clock[c][c] # None
    /\ \A p \in Clients : clock[p][c] # None => clock[p][c] <= clock[c][c]
    /\ \A m \in sent : c \in DOMAIN m => m[c].clock <= clock[c][c]

\* What peers hold and messages say of client c.
Told(c) ==
  {[clock |-> clock[p][c], state |-> states[p][c]] : p \in Clients}
    \cup {m[c] : m \in {x \in sent : c \in DOMAIN x}}

\* Two peers, or a peer and a message, that have the same clock of a client
\* have the same state of it, unless one says it is gone.
OneStatePerClock ==
  \A c \in Clients : \A e, f \in Told(c) :
    e.clock = f.clock /\ Null \notin {e.state, f.state} => e.state = f.state

\* A peer that was torn down has withdrawn its state, and nothing, not even a
\* tick or a message that was under way, brings it back.
DestroyedIsSilent ==
  \A p \in Clients : life[p] = "destroyed" => states[p][p] = Null

\* A clock a peer holds never goes back, and a client's state only appears or
\* changes with a higher one: a late or repeated message does not revive a
\* client that was removed.
NoRevival ==
  [][\A p, c \in Clients :
       /\ clock[p][c] # None => clock'[p][c] # None /\ clock'[p][c] >= clock[p][c]
       /\ states'[p][c] \notin {Null, states[p][c]} =>
            clock[p][c] = None \/ clock'[p][c] > clock[p][c]]_vars

\* What others say never changes a peer's own state: applyAwarenessEntries
\* keeps it against a removal, and no message carries a newer one.
LocalStateIsOwn ==
  [][\A p \in Clients :
       (\E m \in sent : ApplyAwarenessUpdate(p, m)) =>
          states'[p][p] = states[p][p]]_vars

\* A peer that was torn down disappears everywhere for good, also when its last
\* message is lost: from GetStates of every peer, and from the states of those
\* that run the timer.
GhostsVanish ==
  \A p \in Clients : \A q \in Clients \ {p} :
    life[p] = "destroyed" ~>
      [](/\ p \notin GetStates(q)
         /\ q \in Managed /\ life[q] = "live" => states[q][p] = Null)

-----------------------------------------------------------------------------
\* What the comment in tick claims, and the code does not do: it removes only
\* clients that are past the timeout when they are removed.
ReapsOnlyStale ==
  [][\A p \in Clients : \A c \in Clients \ {p} :
       TickReap(p) /\ states[p][c] # Null /\ states'[p][c] = Null =>
         age[p][c] >= Timeout]_vars

=============================================================================
