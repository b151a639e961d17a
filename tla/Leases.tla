------------------------------- MODULE Leases -------------------------------
(***************************************************************************)
(* The cluster coordinator, as backend/internal/backendtest/coordinator.go *)
(* implements it, for one document: who holds the lease, how long it still *)
(* lasts, and the last fence it handed out.  A node keeps the fence of the *)
(* lease it believes to hold; nobody tells it when the lease expires.      *)
(***************************************************************************)
EXTENDS Integers

CONSTANTS
  Nodes,     \* backend nodes
  NoOwner,   \* the document has no entry in c.owners
  Ttl,       \* the ttl of every Acquire and Renew, in units of time
  MaxFence   \* bound on the leases granted

ASSUME LeasesAssumption ==
  /\ NoOwner \notin Nodes
  /\ Ttl \in Nat \ {0} /\ MaxFence \in Nat

VARIABLES
  next,   \* c.next: the last fence handed out
  owner,  \* c.owners: the node of the lease, or NoOwner
  left,   \* the time until ExpiresAt; 0 when expired
  fence   \* fence[n]: the fence of the lease n was last given, 0 for none

leaseVars == <<next, owner, left, fence>>

LeaseInit ==
  /\ next = 0
  /\ owner = NoOwner
  /\ left = 0
  /\ fence = [n \in Nodes |-> 0]

\* A wrong variant of Acquire: an expired lease is taken over with its fence.
FaultAcquireKeepsFence(n) ==
  /\ ~(owner # NoOwner /\ left > 0)
  /\ next' = IF next = 0 THEN 1 ELSE next
  /\ owner' = n
  /\ left' = Ttl
  /\ fence' = [fence EXCEPT ![n] = next']

\* Acquire: granted unless a lease is current, always with a new fence.
Acquire(n) ==
  /\ ~(owner # NoOwner /\ left > 0)
  /\ next < MaxFence
  /\ next' = next + 1
  /\ owner' = n
  /\ left' = Ttl
  /\ fence' = [fence EXCEPT ![n] = next']

\* Whether Renew and Release take the lease n shows: the fence of a current
\* lease is the last one handed out.
Shows(n) == owner = n /\ fence[n] = next

Renew(n) ==
  /\ fence[n] # 0 /\ Shows(n) /\ left > 0
  /\ left' = Ttl
  /\ UNCHANGED <<next, owner, fence>>

\* ErrLeaseLost: the node stops serving.
RenewLost(n) ==
  /\ fence[n] # 0 /\ ~(Shows(n) /\ left > 0)
  /\ fence' = [fence EXCEPT ![n] = 0]
  /\ UNCHANGED <<next, owner, left>>

\* Release, of the current lease or in vain; the node gives its fence up.
Release(n) ==
  /\ fence[n] # 0
  /\ owner' = IF Shows(n) THEN NoOwner ELSE owner
  /\ left' = IF Shows(n) THEN 0 ELSE left
  /\ fence' = [fence EXCEPT ![n] = 0]
  /\ UNCHANGED next

\* Time passes.
Advance ==
  /\ left > 0
  /\ left' = left - 1
  /\ UNCHANGED <<next, owner, fence>>

=============================================================================
