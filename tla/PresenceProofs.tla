--------------------------- MODULE PresenceProofs ---------------------------
(***************************************************************************)
(* Presence is sound for any number of peers, any bounds and any timeout:  *)
(* clocks belong to their owners, a clock stands for one state, a late     *)
(* message revives nobody, and what was destroyed stays silent.  The runs  *)
(* of the managed timer are told apart, for any number of goroutines.      *)
(***************************************************************************)
EXTENDS Awareness, TLAPS

States == {Empty, Null} \cup Values

\* The state without ages and timers, on which nothing here depends.
TypeInv ==
  /\ states \in [Clients -> [Clients -> States]]
  /\ clock \in [Clients -> [Clients -> Nat \cup {None}]]
  /\ life \in [Clients -> {"live", "destroying", "destroyed"}]
  /\ renew \in [Clients -> States]
  /\ \A m \in sent : \A c \in DOMAIN m :
       c \in Clients /\ m[c].clock \in Nat /\ m[c].state \in States

\* OneStatePerClock by cases: two peers, a peer and a message, two messages.
OneStateEach ==
  \A c \in Clients :
    /\ \A p, q \in Clients :
         clock[p][c] = clock[q][c] /\ states[p][c] # Null /\ states[q][c] # Null =>
           states[p][c] = states[q][c]
    /\ \A p \in Clients, m \in sent :
         c \in DOMAIN m /\ clock[p][c] = m[c].clock /\ states[p][c] # Null /\ m[c].state # Null =>
           states[p][c] = m[c].state
    /\ \A m, n \in sent :
         /\ c \in DOMAIN m /\ c \in DOMAIN n /\ m[c].clock = n[c].clock
         /\ m[c].state # Null /\ n[c].state # Null
         => m[c].state = n[c].state

LEMMA OneStateSplit == OneStateEach <=> OneStatePerClock
<1> DEFINE Entry(p, c) == [clock |-> clock[p][c], state |-> states[p][c]]
<1>1. \A c : \A e : e \in Told(c) <=> \/ \E p \in Clients : e = Entry(p, c)
                                     \/ \E m \in sent : c \in DOMAIN m /\ e = m[c]
  BY DEF Told
<1>2. \A p, c : Entry(p, c).clock = clock[p][c] /\ Entry(p, c).state = states[p][c]
  OBVIOUS
<1> HIDE DEF Entry
<1>3. OneStatePerClock => OneStateEach
  BY <1>1, <1>2 DEF OneStatePerClock, OneStateEach
<1>4. OneStateEach => OneStatePerClock
  BY <1>1, <1>2 DEF OneStatePerClock, OneStateEach
<1> QED
  BY <1>3, <1>4

\* The inductive invariant.  A new state gets a clock that nobody has seen, by
\* OwnerIsAhead, and what is copied was told already.
Inv == TypeInv /\ OwnerIsAhead /\ OneStateEach /\ DestroyedIsSilent

LEMMA Initially == ASSUME Init PROVE Inv
<1>1. TypeInv
  BY DEF Init, TypeInv, States
<1>2. OwnerIsAhead
  BY AwarenessAssumption DEF Init, OwnerIsAhead
<1>3. OneStateEach
  BY DEF Init, OneStateEach
<1>4. DestroyedIsSilent
  BY DEF Init, DestroyedIsSilent
<1> QED
  BY <1>1, <1>2, <1>3, <1>4 DEF Inv

-----------------------------------------------------------------------------
(* The critical sections.  Each is described by what becomes of every entry,  *)
(* and then keeps what is said of entries.                                    *)

\* The part of Inv that is about entries.
Entries ==
  /\ states \in [Clients -> [Clients -> States]]
  /\ clock \in [Clients -> [Clients -> Nat \cup {None}]]
  /\ OwnerIsAhead
  /\ OneStateEach

\* What NoRevival asks of a step.
Later ==
  \A p, c \in Clients :
    /\ clock[p][c] # None => clock'[p][c] # None /\ clock'[p][c] >= clock[p][c]
    /\ states'[p][c] \notin {Null, states[p][c]} =>
         clock[p][c] = None \/ clock'[p][c] > clock[p][c]

\* A peer publishes with a clock nobody has seen.
LEMMA PublishKeeps ==
  ASSUME Inv, NEW p \in Clients, NEW s \in States, NEW force,
         setLocalState(p, s, force), UNCHANGED sent
  PROVE  Entries' /\ Later
<1> DEFINE n == clock[p][p] + 1
<1>1. clock[p][p] \in Nat /\ n \in Nat
  BY DEF Inv, TypeInv, OwnerIsAhead
<1>2. /\ states' = [states EXCEPT ![p][p] = s]
      /\ clock' = [clock EXCEPT ![p][p] = n]
  BY <1>1, AwarenessAssumption DEF setLocalState
<1>3. /\ states' \in [Clients -> [Clients -> States]]
      /\ clock' \in [Clients -> [Clients -> Nat \cup {None}]]
  BY <1>1, <1>2 DEF Inv, TypeInv
<1>4. \A q, c \in Clients : q # p \/ c # p =>
        states'[q][c] = states[q][c] /\ clock'[q][c] = clock[q][c]
  BY <1>2 DEF Inv, TypeInv
<1>5. states'[p][p] = s /\ clock'[p][p] = n
  BY <1>2 DEF Inv, TypeInv
<1> HIDE DEF n
<1>6. n > clock[p][p] /\ n # None
  BY <1>1, AwarenessAssumption DEF n
<1>7. OwnerIsAhead'
  <2> SUFFICES ASSUME NEW c \in Clients
               PROVE  /\ \A q \in Clients : states'[q][c] # Null => clock'[q][c] # None
                      /\ clock'[c][c] # None
                      /\ \A q \in Clients : clock'[q][c] # None => clock'[q][c] <= clock'[c][c]
                      /\ \A m \in sent : c \in DOMAIN m => m[c].clock <= clock'[c][c]
    BY DEF OwnerIsAhead
  <2>1. CASE c = p
    <3>1. \A q \in Clients : clock[q][p] # None => clock[q][p] <= n
      BY <1>1, <1>6 DEF Inv, TypeInv, OwnerIsAhead
    <3>2. \A m \in sent : p \in DOMAIN m => m[p].clock <= n
      BY <1>1, <1>6 DEF Inv, TypeInv, OwnerIsAhead
    <3> QED
      BY <2>1, <3>1, <3>2, <1>1, <1>4, <1>5, <1>6 DEF Inv, OwnerIsAhead
  <2>2. CASE c # p
    BY <2>2, <1>4 DEF Inv, OwnerIsAhead
  <2> QED
    BY <2>1, <2>2
<1>8. /\ \A q \in Clients : clock[q][p] # n
      /\ \A m \in sent : p \in DOMAIN m => m[p].clock # n
  BY <1>1, <1>6 DEF Inv, TypeInv, OwnerIsAhead
<1>9. OneStateEach'
  BY <1>4, <1>5, <1>8 DEF Inv, OneStateEach
<1>10. Later
  BY <1>1, <1>4, <1>5, <1>6 DEF Later, Inv, TypeInv
<1> QED
  BY <1>3, <1>7, <1>9, <1>10 DEF Entries

\* A peer removes clients; of the clocks only its own goes on.
LEMMA RemoveKeeps ==
  ASSUME Inv, NEW p \in Clients, NEW cs,
         RemoveAwarenessStates(p, cs), UNCHANGED sent
  PROVE  Entries' /\ Later
<1> DEFINE gone == {c \in cs : states[p][c] # Null}
           n == clock[p][p] + 1
<1>1. clock[p][p] \in Nat /\ n \in Nat
  BY DEF Inv, TypeInv, OwnerIsAhead
<1>2. /\ states' = [states EXCEPT ![p] = [c \in Clients |-> IF c \in gone THEN Null ELSE @[c]]]
      /\ clock' = IF p \in gone THEN [clock EXCEPT ![p][p] = n] ELSE clock
  BY DEF RemoveAwarenessStates
<1>3. /\ states' \in [Clients -> [Clients -> States]]
      /\ clock' \in [Clients -> [Clients -> Nat \cup {None}]]
  BY <1>1, <1>2 DEF Inv, TypeInv, States
<1>4. \A q, c \in Clients :
        /\ states'[q][c] = IF q = p /\ c \in gone THEN Null ELSE states[q][c]
        /\ clock'[q][c] = IF q = p /\ c = p /\ p \in gone THEN n ELSE clock[q][c]
  BY <1>2 DEF Inv, TypeInv
<1> HIDE DEF n, gone
<1>5. n > clock[p][p] /\ n # None
  BY <1>1, AwarenessAssumption DEF n
<1>6. OwnerIsAhead'
  <2>1. \A c \in Clients : clock[c][c] \in Nat /\ clock'[c][c] \in Nat /\ clock'[c][c] >= clock[c][c]
    BY <1>1, <1>4, <1>5 DEF Inv, TypeInv, OwnerIsAhead
  <2>2. \A q, c \in Clients : states'[q][c] # Null => clock'[q][c] # None
    BY <1>4, <1>5 DEF Inv, OwnerIsAhead
  <2>3. \A q, c \in Clients : clock'[q][c] # None => clock'[q][c] <= clock'[c][c]
    BY <2>1, <1>4 DEF Inv, TypeInv, OwnerIsAhead
  <2>4. \A c \in Clients : \A m \in sent : c \in DOMAIN m => m[c].clock <= clock'[c][c]
    BY <2>1 DEF Inv, TypeInv, OwnerIsAhead
  <2> QED
    BY <2>1, <2>2, <2>3, <2>4, AwarenessAssumption DEF OwnerIsAhead
<1>7. OneStateEach'
  BY <1>4 DEF Inv, OneStateEach
<1>8. Later
  BY <1>1, <1>4, <1>5 DEF Later, Inv, TypeInv
<1> QED
  BY <1>3, <1>6, <1>7, <1>8 DEF Entries

\* What a message says of the peer it reaches is no news to that peer: it is
\* taken only if it says the peer is gone, and then it is answered.
LEMMA OwnIsKept ==
  ASSUME Inv, NEW p \in Clients, NEW m \in sent, p \in DOMAIN m, Accepts(p, p, m[p])
  PROVE  Survives(p, p, m[p]) /\ m[p].clock = clock[p][p]
BY DEF Inv, TypeInv, OwnerIsAhead, Accepts, Survives

\* A message: what p takes of another client is what the message says, and of
\* itself it takes nothing but a reason to answer with a higher clock.
LEMMA ApplyKeeps ==
  ASSUME Inv, NEW p \in Clients, NEW m \in sent,
         applyAwarenessEntries(p, m), UNCHANGED sent
  PROVE  /\ Entries' /\ Later
         /\ states'[p][p] = states[p][p]
<1> DEFINE taken == {c \in DOMAIN m : Accepts(p, c, m[c])}
           kept == {c \in taken : Survives(p, c, m[c])}
           n == clock[p][p] + 1
<1>1. /\ clock[p][p] \in Nat /\ n \in Nat
      /\ \A c \in DOMAIN m : c \in Clients /\ m[c].clock \in Nat /\ m[c].state \in States
  BY DEF Inv, TypeInv, OwnerIsAhead
<1>2. kept = taken \cap {p} /\ (p \in taken => m[p].clock + 1 = n)
  BY OwnIsKept DEF Survives
<1>3. \A c \in Clients :
        /\ states'[p][c] = IF c \in taken \ {p} THEN m[c].state ELSE states[p][c]
        /\ clock'[p][c] = IF c \in taken
                            THEN IF c = p THEN n ELSE m[c].clock
                            ELSE clock[p][c]
  BY <1>2 DEF applyAwarenessEntries, Inv, TypeInv
<1>4. \A q, c \in Clients : q # p =>
        states'[q][c] = states[q][c] /\ clock'[q][c] = clock[q][c]
  BY DEF applyAwarenessEntries, Inv, TypeInv
<1>5. /\ states' \in [Clients -> [Clients -> States]]
      /\ clock' \in [Clients -> [Clients -> Nat \cup {None}]]
  BY <1>1, <1>2 DEF applyAwarenessEntries, Inv, TypeInv
<1>6. \A c \in taken :
        /\ c \in DOMAIN m
        /\ clock[p][c] # None => m[c].clock >= clock[p][c]
        /\ m[c].state # Null => clock[p][c] = None \/ m[c].clock > clock[p][c]
  BY <1>1 DEF Accepts, Inv, TypeInv
<1> HIDE DEF taken, kept, n
<1>7. n > clock[p][p] /\ n # None
  BY <1>1, AwarenessAssumption DEF n
<1>8. OwnerIsAhead'
  <2> SUFFICES ASSUME NEW c \in Clients
               PROVE  /\ \A q \in Clients : states'[q][c] # Null => clock'[q][c] # None
                      /\ clock'[c][c] # None
                      /\ \A q \in Clients : clock'[q][c] # None => clock'[q][c] <= clock'[c][c]
                      /\ \A x \in sent : c \in DOMAIN x => x[c].clock <= clock'[c][c]
    BY DEF OwnerIsAhead
  <2>1. CASE c = p
    <3>1. clock'[p][p] \in Nat /\ clock'[p][p] >= clock[p][p]
      BY <1>1, <1>3, <1>7
    <3>2. \A q \in Clients : clock[q][p] # None => clock[q][p] <= clock'[p][p]
      BY <1>1, <3>1 DEF Inv, TypeInv, OwnerIsAhead
    <3>3. \A x \in sent : p \in DOMAIN x => x[p].clock <= clock'[p][p]
      BY <1>1, <3>1 DEF Inv, TypeInv, OwnerIsAhead
    <3>4. clock'[p][p] # None
      BY <3>1, AwarenessAssumption
    <3> QED
      BY <2>1, <3>1, <3>2, <3>3, <3>4, <1>4 DEF Inv, OwnerIsAhead
  <2>2. CASE c # p
    <3>1. clock'[c][c] = clock[c][c]
      BY <2>2, <1>4
    <3>2. c \in taken => c \in DOMAIN m /\ m[c].clock # None
      BY <1>1, <1>6, AwarenessAssumption
    <3> QED
      BY <2>2, <3>1, <3>2, <1>3, <1>4 DEF Inv, OwnerIsAhead
  <2> QED
    BY <2>1, <2>2
<1>9. OneStateEach'
  <2>1. /\ \A q \in Clients : clock[q][p] # n
        /\ \A x \in sent : p \in DOMAIN x => x[p].clock # n
    BY <1>1, <1>7 DEF Inv, TypeInv, OwnerIsAhead
  <2>2. \A c \in taken : c \in DOMAIN m
    BY <1>6
  <2> QED
    BY <2>1, <2>2, <1>3, <1>4 DEF Inv, OneStateEach
<1>10. Later
  <2> SUFFICES ASSUME NEW c \in Clients
               PROVE  /\ clock[p][c] # None => clock'[p][c] # None /\ clock'[p][c] >= clock[p][c]
                      /\ states'[p][c] \notin {Null, states[p][c]} =>
                           clock[p][c] = None \/ clock'[p][c] > clock[p][c]
    BY <1>4 DEF Later, Inv, TypeInv
  <2>1. CASE c = p
    BY <2>1, <1>1, <1>3, <1>7
  <2>2. CASE c # p /\ c \in taken
    BY <2>2, <1>1, <1>3, <1>6, AwarenessAssumption
  <2>3. CASE c # p /\ c \notin taken
    BY <2>3, <1>3, <1>5 DEF Inv, TypeInv
  <2> QED
    BY <2>1, <2>2, <2>3
<1> QED
  BY <1>3, <1>5, <1>8, <1>9, <1>10 DEF Entries

\* A message copies entries of the peer that sends it.
LEMMA EncodeKeeps ==
  ASSUME Inv, NEW p \in Clients, NEW cs \in Batches, EncodeAwarenessUpdate(p, cs)
  PROVE  /\ Entries' /\ Later
         /\ \A m \in sent' : \A c \in DOMAIN m :
              c \in Clients /\ m[c].clock \in Nat /\ m[c].state \in States
<1> DEFINE new == [c \in cs |-> [clock |-> clock[p][c], state |-> states[p][c]]]
<1>1. /\ cs \subseteq Clients /\ DOMAIN new = cs
      /\ \A c \in cs : new[c].clock = clock[p][c] /\ new[c].state = states[p][c]
      /\ \A c \in cs : clock[p][c] # None
  BY AwarenessAssumption DEF EncodeAwarenessUpdate
<1>2. sent' = sent \cup {new} /\ UNCHANGED <<states, clock>>
  BY DEF EncodeAwarenessUpdate
<1> HIDE DEF new
<1>3. OwnerIsAhead'
  BY <1>1, <1>2 DEF Inv, OwnerIsAhead
<1>4. OneStateEach'
  <2>1. \A m \in sent' : m \in sent \/ m = new
    BY <1>2
  <2>2. \A c \in Clients, m \in sent : c \in DOMAIN m /\ c \in DOMAIN new /\ m[c].clock = new[c].clock
          /\ m[c].state # Null /\ new[c].state # Null => m[c].state = new[c].state
    BY <1>1 DEF Inv, OneStateEach
  <2>3. \A c, q \in Clients : c \in DOMAIN new /\ clock[q][c] = new[c].clock
          /\ states[q][c] # Null /\ new[c].state # Null => states[q][c] = new[c].state
    BY <1>1 DEF Inv, OneStateEach
  <2> QED
    BY <1>2, <2>1, <2>2, <2>3 DEF Inv, OneStateEach
<1>5. \A m \in sent' : \A c \in DOMAIN m :
        c \in Clients /\ m[c].clock \in Nat /\ m[c].state \in States
  BY <1>1, <1>2 DEF Inv, TypeInv
<1>6. Later
  BY <1>2 DEF Later, Inv, TypeInv
<1> QED
  BY <1>2, <1>3, <1>4, <1>5, <1>6 DEF Entries, Inv, TypeInv

\* What touches neither states, clocks nor messages.
LEMMA StutterKeeps ==
  ASSUME Inv, UNCHANGED <<states, clock, sent>>
  PROVE  Entries' /\ Later
BY DEF Entries, Later, Inv, TypeInv, OwnerIsAhead, OneStateEach

-----------------------------------------------------------------------------
\* Every step keeps the invariant and moves clocks forward only.
LEMMA StepKeeps ==
  ASSUME Inv, [Next]_vars
  PROVE  Inv' /\ Later
<1> USE DEF Inv, TypeInv, Entries, DestroyedIsSilent
<1>1. ASSUME NEW p \in Clients, NEW s \in {Empty, Null} \cup Values, SetLocalState(p, s)
      PROVE  Inv' /\ Later
  <2>1. Entries' /\ Later /\ UNCHANGED <<life, renew, sent>>
    BY <1>1, PublishKeeps DEF SetLocalState, States
  <2>2. \A q \in Clients : life[q] = "destroyed" => states'[q] = states[q]
    BY <1>1 DEF SetLocalState, setLocalState
  <2> QED
    BY <2>1, <2>2
<1>2. ASSUME NEW p \in Clients, NEW c \in Clients, Remove(p, c)
      PROVE  Inv' /\ Later
  <2>1. Entries' /\ Later /\ UNCHANGED <<life, renew, sent>>
    BY <1>2, RemoveKeeps DEF Remove
  <2>2. \A q \in Clients : life[q] = "destroyed" => states'[q] = states[q]
    BY <1>2 DEF Remove, RemoveAwarenessStates
  <2> QED
    BY <2>1, <2>2
<1>3. ASSUME NEW p \in Clients, NEW cs \in Batches, EncodeAwarenessUpdate(p, cs)
      PROVE  Inv' /\ Later
  <2>1. UNCHANGED <<states, life, renew>>
    BY <1>3 DEF EncodeAwarenessUpdate
  <2> QED
    BY <1>3, <2>1, EncodeKeeps
<1>4. ASSUME NEW p \in Clients, NEW m \in sent, ApplyAwarenessUpdate(p, m)
      PROVE  Inv' /\ Later
  <2>1. Entries' /\ Later /\ UNCHANGED <<life, renew, sent>>
    BY <1>4, ApplyKeeps DEF ApplyAwarenessUpdate
  <2>2. \A q \in Clients : life[q] = "destroyed" => states'[q] = states[q]
    BY <1>4 DEF ApplyAwarenessUpdate, applyAwarenessEntries
  <2> QED
    BY <2>1, <2>2
<1>5. ASSUME NEW p \in Clients, Destroy(p)
      PROVE  Inv' /\ Later
  <2>1. UNCHANGED <<states, clock, renew, sent>> /\ life' = [life EXCEPT ![p] = "destroying"]
    BY <1>5 DEF Destroy
  <2> QED
    BY <2>1, StutterKeeps
<1>6. ASSUME NEW p \in Clients, DestroyClear(p)
      PROVE  Inv' /\ Later
  <2>1. Entries' /\ Later /\ UNCHANGED <<renew, sent>>
    BY <1>6, PublishKeeps DEF DestroyClear, States
  <2>2. /\ life' = [life EXCEPT ![p] = "destroyed"]
        /\ states' = [states EXCEPT ![p][p] = Null]
    BY <1>6 DEF DestroyClear, setLocalState
  <2> QED
    BY <2>1, <2>2
<1>7. ASSUME NEW p \in Clients, TickWrite(p)
      PROVE  Inv' /\ Later
  <2>1. UNCHANGED <<life, sent>> /\ renew' = [renew EXCEPT ![p] = Null]
    BY <1>7 DEF TickWrite
  <2>2. CASE life[p] = "live" /\ clock[p][p] < MaxClock
    <3>1. setLocalState(p, renew[p], FALSE)
      BY <1>7, <2>2 DEF TickWrite
    <3>2. Entries' /\ Later
      BY <2>1, <3>1, PublishKeeps
    <3>3. \A q \in Clients : life[q] = "destroyed" => states'[q] = states[q]
      BY <2>2, <3>1 DEF setLocalState
    <3> QED
      BY <2>1, <3>2, <3>3 DEF States
  <2>3. CASE ~(life[p] = "live" /\ clock[p][p] < MaxClock)
    <3>1. UNCHANGED <<states, clock>>
      BY <1>7, <2>3 DEF TickWrite
    <3> QED
      BY <2>1, <3>1, StutterKeeps DEF States
  <2> QED
    BY <2>2, <2>3
<1>8. ASSUME NEW p \in Clients, TickReap(p)
      PROVE  Inv' /\ Later
  <2>1. UNCHANGED <<life, renew, sent>>
    BY <1>8 DEF TickReap
  <2>2. CASE life[p] = "live" /\ stale[p] # {}
    <3>1. RemoveAwarenessStates(p, stale[p])
      BY <1>8, <2>2 DEF TickReap
    <3>2. Entries' /\ Later
      BY <2>1, <3>1, RemoveKeeps
    <3>3. \A q \in Clients : life[q] = "destroyed" => states'[q] = states[q]
      BY <2>2, <3>1 DEF RemoveAwarenessStates
    <3> QED
      BY <2>1, <3>2, <3>3
  <2>3. CASE ~(life[p] = "live" /\ stale[p] # {})
    <3>1. UNCHANGED <<states, clock>>
      BY <1>8, <2>3 DEF TickReap
    <3> QED
      BY <2>1, <3>1, StutterKeeps
  <2> QED
    BY <2>2, <2>3
<1>9. ASSUME NEW p \in Clients, TickRead(p)
      PROVE  Inv' /\ Later
  <2>1. UNCHANGED <<states, clock, life, sent>> /\ renew' = [renew EXCEPT ![p] = states[p][p]]
    BY <1>9 DEF TickRead
  <2> QED
    BY <2>1, StutterKeeps
<1>10. ASSUME \/ Elapse \/ UNCHANGED vars \/ \E p \in Clients : Tick(p)
       PROVE  Inv' /\ Later
  <2>1. UNCHANGED <<states, clock, life, renew, sent>>
    BY <1>10 DEF Elapse, vars, Tick
  <2> QED
    BY <2>1, StutterKeeps
<1> QED
  BY <1>1, <1>2, <1>3, <1>4, <1>5, <1>6, <1>7, <1>8, <1>9, <1>10 DEF Next

LEMMA Invariance == Spec => []Inv
<1>1. Init => Inv
  BY Initially
<1>2. Inv /\ [Next]_vars => Inv'
  BY StepKeeps
<1> QED
  BY <1>1, <1>2, PTL DEF Spec

\* Nobody holds or sends a clock of a client that is ahead of the client's own,
\* whatever the order in which messages, ticks and Destroy run.
THEOREM ClocksBelongToOwners == Spec => []OwnerIsAhead
<1>1. Inv => OwnerIsAhead
  BY DEF Inv
<1> QED
  BY <1>1, Invariance, PTL

\* A clock of a client stands for one state of it, in every peer and message:
\* setLocalState gives a new state a clock that nobody has seen.
THEOREM ClockNamesState == Spec => []OneStatePerClock
<1>1. Inv => OneStatePerClock
  BY OneStateSplit DEF Inv
<1> QED
  BY <1>1, Invariance, PTL

\* After Destroy has cleared the local state, neither a tick that had already
\* read it nor a message restores it.
THEOREM DestroyedStaysSilent == Spec => []DestroyedIsSilent
<1>1. Inv => DestroyedIsSilent
  BY DEF Inv
<1> QED
  BY <1>1, Invariance, PTL

\* No step sets a clock back, and no state appears or changes without a higher
\* clock, so a late or repeated message does not revive a removed client.
THEOREM NothingIsRevived == Spec => NoRevival
<1>1. Inv /\ [Next]_vars => [Later]_vars
  BY StepKeeps
<1> QED
  BY <1>1, Invariance, PTL DEF Spec, NoRevival, Later

\* applyAwarenessEntries leaves the state of the peer it runs on alone, whoever
\* sent the message and however old it is.
THEOREM OthersCannotChangeMine == Spec => LocalStateIsOwn
<1> DEFINE Own == \A p \in Clients : (\E m \in sent : ApplyAwarenessUpdate(p, m)) =>
                    states'[p][p] = states[p][p]
<1>1. Inv /\ [Next]_vars => [Own]_vars
  BY ApplyKeeps DEF ApplyAwarenessUpdate
<1> QED
  BY <1>1, Invariance, PTL DEF Spec, LocalStateIsOwn

-----------------------------------------------------------------------------
(* The timer.                                                              *)

CONSTANTS Callers, MaxRuns

VARIABLES running, current, onceUsed, closed, live, pc, taken

Timer == INSTANCE ManagedTimer

InStop(t) == pc[t] \in {"close", "join", "reset"}

TimerInv ==
  /\ running \in BOOLEAN /\ onceUsed \in BOOLEAN
  /\ current \in Nat
  /\ closed \subseteq 1 .. current /\ live \subseteq 1 .. current
  /\ pc \in [Callers -> {"idle", "close", "join", "reset", "returned"}]
  /\ taken \in [Callers -> Nat]
  /\ \A t \in Callers : ~InStop(t) => taken[t] = 0
  /\ running => /\ current \in live \ closed
                /\ \A t \in Callers : taken[t] # current
  /\ Timer!StopOwnsItsRun

LEMMA InitTimer == Timer!Init => TimerInv
<1> SUFFICES ASSUME Timer!Init PROVE TimerInv
  OBVIOUS
<1>1. \A t \in Callers : pc[t] = "idle" /\ taken[t] = 0
  BY DEF Timer!Init
<1>2. Timer!StopOwnsItsRun
  BY <1>1 DEF Timer!StopOwnsItsRun
<1>3. ~running /\ running \in BOOLEAN /\ onceUsed \in BOOLEAN
  BY DEF Timer!Init
<1> QED
  BY <1>1, <1>2, <1>3 DEF Timer!Init, TimerInv, InStop

LEMMA StepTimer == TimerInv /\ [Timer!Next]_Timer!vars => TimerInv'
<1> SUFFICES ASSUME TimerInv, [Timer!Next]_Timer!vars PROVE TimerInv'
  OBVIOUS
<1>1. ASSUME NEW t \in Callers, Timer!Start(t) PROVE TimerInv'
  <2>1. current' = current + 1 /\ current' \in Nat /\ current \in Nat
    BY <1>1 DEF Timer!Start, TimerInv
  <2>2. Timer!StopOwnsItsRun'
    BY <1>1, <2>1 DEF Timer!Start, TimerInv, Timer!StopOwnsItsRun
  <2>3. \A u \in Callers : taken'[u] # current'
    BY <1>1, <2>1 DEF Timer!Start, TimerInv, Timer!StopOwnsItsRun, InStop
  <2>4. 1 .. current \subseteq 1 .. current' /\ current' \in 1 .. current'
    BY <2>1
  <2>5. /\ closed' \subseteq 1 .. current' /\ live' \subseteq 1 .. current'
        /\ current' \in live' \ closed'
    BY <1>1, <2>1, <2>4 DEF Timer!Start, TimerInv
  <2>6. \A u \in Callers : ~InStop(u)' => taken'[u] = 0
    BY <1>1 DEF Timer!Start, TimerInv, InStop
  <2> QED
    BY <1>1, <2>1, <2>2, <2>3, <2>5, <2>6 DEF Timer!Start, TimerInv
<1>2. ASSUME NEW t \in Callers, Timer!Stop(t) PROVE TimerInv'
  <2>1. Timer!StopOwnsItsRun'
    BY <1>2 DEF Timer!Stop, TimerInv, Timer!StopOwnsItsRun, InStop
  <2> QED
    BY <1>2, <2>1 DEF Timer!Stop, TimerInv, InStop
<1>3. ASSUME NEW t \in Callers, Timer!StopNothing(t) PROVE TimerInv'
  BY <1>3 DEF Timer!StopNothing, TimerInv, Timer!StopOwnsItsRun, InStop
<1>4. ASSUME NEW t \in Callers, Timer!StopClose(t) PROVE TimerInv'
  <2>1. (taken[t] \in 1 .. current /\ taken[t] # current) \/ ~running
    BY <1>4 DEF Timer!StopClose, TimerInv, Timer!StopOwnsItsRun, InStop
  <2>2. taken[t] \in 1 .. current
    BY <1>4 DEF Timer!StopClose, TimerInv, Timer!StopOwnsItsRun
  <2>3. Timer!StopOwnsItsRun'
    BY <1>4, <2>2 DEF Timer!StopClose, TimerInv, Timer!StopOwnsItsRun
  <2>4. running' => /\ current' \in live' \ closed'
                    /\ \A u \in Callers : taken'[u] # current'
    BY <1>4, <2>1, <2>2 DEF Timer!StopClose, TimerInv, InStop
  <2>5. \A u \in Callers : ~InStop(u)' => taken'[u] = 0
    BY <1>4 DEF Timer!StopClose, TimerInv, InStop
  <2>6. closed' \subseteq 1 .. current' /\ onceUsed' \in BOOLEAN
    BY <1>4, <2>2 DEF Timer!StopClose, TimerInv
  <2> QED
    BY <1>4, <2>3, <2>4, <2>5, <2>6 DEF Timer!StopClose, TimerInv
<1>5. ASSUME NEW t \in Callers, Timer!StopJoin(t) PROVE TimerInv'
  <2>1. \A u \in Callers : /\ InStop(u)' <=> InStop(u)
                           /\ taken'[u] = taken[u]
                           /\ pc'[u] = "close" => pc[u] = "close"
    BY <1>5 DEF Timer!StopJoin, TimerInv, InStop
  <2>2. Timer!StopOwnsItsRun'
    BY <1>5, <2>1 DEF Timer!StopJoin, TimerInv, Timer!StopOwnsItsRun, InStop
  <2>3. pc' \in [Callers -> {"idle", "close", "join", "reset", "returned"}]
    BY <1>5 DEF Timer!StopJoin, TimerInv
  <2> QED
    BY <1>5, <2>1, <2>2, <2>3 DEF Timer!StopJoin, TimerInv
<1>6. ASSUME NEW t \in Callers, Timer!StopReset(t) PROVE TimerInv'
  <2>1. \A u \in Callers : /\ InStop(u)' <=> InStop(u) /\ u # t
                           /\ taken'[u] = IF u = t THEN 0 ELSE taken[u]
                           /\ pc'[u] = "close" => pc[u] = "close"
    BY <1>6 DEF Timer!StopReset, TimerInv, InStop
  <2>2. Timer!StopOwnsItsRun'
    BY <1>6, <2>1 DEF Timer!StopReset, TimerInv, Timer!StopOwnsItsRun, InStop
  <2>3. /\ pc' \in [Callers -> {"idle", "close", "join", "reset", "returned"}]
        /\ taken' \in [Callers -> Nat] /\ onceUsed' \in BOOLEAN
    BY <1>6 DEF Timer!StopReset, TimerInv
  <2>4. running => current # 0
    BY DEF TimerInv
  <2> QED
    BY <1>6, <2>1, <2>2, <2>3, <2>4 DEF Timer!StopReset, TimerInv
<1>7. ASSUME NEW t \in Callers, Timer!Proceed(t) PROVE TimerInv'
  BY <1>7 DEF Timer!Proceed, TimerInv, Timer!StopOwnsItsRun, InStop
<1>8. ASSUME NEW r \in 1 .. MaxRuns, Timer!Exit(r) PROVE TimerInv'
  BY <1>8 DEF Timer!Exit, TimerInv, Timer!StopOwnsItsRun, InStop
<1>9. CASE UNCHANGED Timer!vars
  BY <1>9 DEF Timer!vars, TimerInv, Timer!StopOwnsItsRun, InStop
<1> QED
  BY <1>1, <1>2, <1>3, <1>4, <1>5, <1>6, <1>7, <1>8, <1>9 DEF Timer!Next

\* While m.running holds, the goroutine of the latest Start is alive and no Stop
\* has reached it.
THEOREM TimerIsLive == Timer!Spec => []Timer!RunningIsLive
<1>1. TimerInv => Timer!RunningIsLive
  BY DEF TimerInv, Timer!RunningIsLive
<1> QED
  BY InitTimer, StepTimer, <1>1, PTL DEF Timer!Spec

\* No two calls of Stop take the same run, and close(stop) never panics.
THEOREM StopsAreApart == Timer!Spec => []Timer!StopOwnsItsRun
<1>1. TimerInv => Timer!StopOwnsItsRun
  BY DEF TimerInv
<1> QED
  BY InitTimer, StepTimer, <1>1, PTL DEF Timer!Spec

=============================================================================
