--------------------------- MODULE ClusterStores ----------------------------
(***************************************************************************)
(* Fences tell owners apart, saves follow them, and the log store keeps its*)
(* history in order, for any number of nodes, leases, updates and deletions,*)
(* and whatever the nodes do with the stores.                              *)
(***************************************************************************)
EXTENDS Cluster, WellFoundedInduction, TLAPS

-----------------------------------------------------------------------------
(* What Keep keeps, for every sequence and every set of indices.           *)

LEMMA LeastOf ==
  ASSUME NEW T, T \subseteq Nat, T # {}
  PROVE  \E x \in T : \A y \in T : x <= y
<1> DEFINE R == OpToRel(<, Nat)
<1>1. IsWellFoundedOn(R, Nat)
  BY NatLessThanWellFounded
<1>2. \A x, y \in Nat : (x < y) => <<x, y>> \in R
  BY Zenon DEF OpToRel
<1> HIDE DEF R
<1>3. PICK x \in T : \A y \in T : ~(<<y, x>> \in R)
   BY <1>1, WFMin, Zenon
<1>4. \A y \in T : ~(y < x)
  BY <1>2, <1>3, Zenon
<1>5. \A y \in T : x <= y
  BY <1>4
<1> QED
  BY <1>5

\* Induction, for a set: what holds 0 and with n also n + 1 holds every number.
LEMMA NatInd ==
  ASSUME NEW S, 0 \in S, \A n \in Nat : n \in S => n + 1 \in S
  PROVE  Nat \subseteq S
<1> SUFFICES ASSUME Nat \ S # {} PROVE FALSE
  OBVIOUS
<1> DEFINE T == Nat \ S
<1>1. T \subseteq Nat /\ T # {}
  OBVIOUS
<1> HIDE DEF T
<1>2. PICK x \in T : \A y \in T : x <= y
  BY <1>1, LeastOf, Zenon
<1>3. x \in Nat /\ x # 0 /\ x \notin S
  BY <1>2, Zenon DEF T
<1>4. x - 1 \in Nat /\ x - 1 \notin T
  BY <1>2, <1>3, <1>1
<1>5. x - 1 \in S
  BY <1>4, Zenon DEF T
<1> QED
  BY <1>3, <1>4, <1>5

-----------------------------------------------------------------------------
\* One turn of the loop.
Turn(s, I, f, i) ==
  IF i = 0 THEN <<>> ELSE IF i \in I THEN Append(f[i - 1], s[i]) ELSE f[i - 1]

\* The loop is well defined: there is such a function, step by step.
LEMMA KeepDef ==
  ASSUME NEW D, NEW s \in Seq(D), NEW I
  PROVE  \E f : /\ f = [i \in 0 .. Len(s) |-> Turn(s, I, f, i)]
                /\ Keep(s, I) = f[Len(s)]
<1> DEFINE P(n) == \E f : f = [i \in 0 .. n |-> Turn(s, I, f, i)]
           S == {n \in Nat : P(n)}
<1>1. 0 \in S
  <2> DEFINE g == [i \in 0 .. 0 |-> <<>>]
  <2>1. g = [i \in 0 .. 0 |-> Turn(s, I, g, i)]
    BY DEF Turn
  <2> QED
    BY <2>1, Zenon
<1>2. ASSUME NEW n \in Nat, n \in S PROVE n + 1 \in S
  <2>1. PICK f : f = [i \in 0 .. n |-> Turn(s, I, f, i)]
    BY <1>2, Zenon
  <2> DEFINE g == [i \in 0 .. n + 1 |-> IF i <= n THEN f[i] ELSE Turn(s, I, f, i)]
  <2>2. \A i \in 0 .. n + 1 : i # 0 => i - 1 \in 0 .. n + 1 /\ g[i - 1] = f[i - 1]
    OBVIOUS
  <2>3. \A i \in 0 .. n + 1 : Turn(s, I, g, i) = Turn(s, I, f, i)
    BY <2>2, Zenon DEF Turn
  <2>4. \A i \in 0 .. n + 1 : g[i] = Turn(s, I, g, i)
    BY <2>1, <2>3
  <2>5. g = [i \in 0 .. n + 1 |-> Turn(s, I, g, i)]
    BY <2>4, Zenon
  <2> HIDE DEF g
  <2>6. \E f1 : f1 = [i \in 0 .. n + 1 |-> Turn(s, I, f1, i)]
    BY <2>5, Zenon
  <2> QED
    BY <2>6
<1> HIDE DEF S
<1>3. Len(s) \in S
  BY <1>1, <1>2, NatInd
<1>4. P(Len(s))
  BY <1>3, Zenon DEF S
<1> HIDE DEF P
<1>5. \E f : f = [i \in 0 .. Len(s) |-> Turn(s, I, f, i)]
  BY <1>4, Zenon DEF P
<1> DEFINE F == CHOOSE f : f = [i \in 0 .. Len(s) |-> Turn(s, I, f, i)]
<1>6. F = [i \in 0 .. Len(s) |-> Turn(s, I, F, i)]
  BY <1>5, Zenon
<1>7. Keep(s, I) = F[Len(s)]
  BY Zenon DEF Keep, Turn
<1> QED
  BY <1>6, <1>7, Zenon

-----------------------------------------------------------------------------
\* at picks from s the elements out is made of: the indices in I, in order.
Picks(s, I, n, out, at) ==
  /\ at \in [1 .. Len(out) -> I \cap 1 .. n]
  /\ \A k \in 1 .. Len(out) : out[k] = s[at[k]]
  /\ \A j, k \in 1 .. Len(out) : j < k => at[j] < at[k]
  /\ \A i \in I \cap 1 .. n : \E k \in 1 .. Len(out) : at[k] = i

LEMMA PicksMore ==
  ASSUME NEW D, NEW s, NEW I, NEW n \in Nat, n + 1 \in I, s[n + 1] \in D,
         NEW out \in Seq(D), NEW at, Picks(s, I, n, out, at)
  PROVE  /\ Append(out, s[n + 1]) \in Seq(D)
         /\ \E a : Picks(s, I, n + 1, Append(out, s[n + 1]), a)
<1> DEFINE l == Len(out)
           new == Append(out, s[n + 1])
           a == [k \in 1 .. l + 1 |-> IF k <= l THEN at[k] ELSE n + 1]
<1>1. /\ new \in Seq(D) /\ Len(new) = l + 1 /\ new[l + 1] = s[n + 1]
      /\ \A k \in 1 .. l : new[k] = out[k]
      /\ l \in Nat
  OBVIOUS
<1> HIDE DEF l, new
<1>2. /\ \A k \in 1 .. l : at[k] \in I /\ at[k] \in 1 .. n
      /\ \A k \in 1 .. l : out[k] = s[at[k]]
      /\ \A j, k \in 1 .. l : j < k => at[j] < at[k]
      /\ \A i \in I \cap 1 .. n : \E k \in 1 .. l : at[k] = i
  BY Zenon DEF Picks, l
<1>3. /\ DOMAIN a = 1 .. l + 1 /\ a[l + 1] = n + 1
      /\ \A k \in 1 .. l : a[k] = at[k]
      /\ a = [k \in 1 .. l + 1 |-> a[k]]
  BY <1>1
<1> HIDE DEF a
<1>4. \A k \in 1 .. l + 1 : k \in 1 .. l \/ k = l + 1
  BY <1>1
<1>5. \A k \in 1 .. l + 1 : a[k] \in I /\ a[k] \in 1 .. n + 1
  <2>1. \A k \in 1 .. l : a[k] \in I /\ a[k] \in 1 .. n + 1
    <3> TAKE k \in 1 .. l
    <3>1. at[k] \in 1 .. n
      BY <1>2, Zenon
    <3>2. at[k] \in 1 .. n + 1
      BY <3>1
    <3> QED
      BY <1>2, <1>3, <3>2, Zenon
  <2>2. n + 1 \in 1 .. n + 1
    OBVIOUS
  <2> QED
    BY <1>3, <1>4, <2>1, <2>2, Zenon
<1>6. a \in [1 .. l + 1 -> I \cap 1 .. n + 1]
  BY <1>3, <1>5, Zenon
<1>7. \A k \in 1 .. l + 1 : new[k] = s[a[k]]
  BY <1>1, <1>2, <1>3, <1>4, Zenon
<1>8. \A j, k \in 1 .. l + 1 : j < k => a[j] < a[k]
  <2> TAKE j, k \in 1 .. l + 1
  <2> HAVE j < k
  <2>1. j \in 1 .. l
    BY <1>1
  <2>2. CASE k \in 1 .. l
    BY <1>2, <1>3, <2>1, <2>2, Zenon
  <2>3. CASE k = l + 1
    <3>1. at[j] \in 1 .. n
      BY <1>2, <2>1, Zenon
    <3>2. at[j] < n + 1
      BY <3>1
    <3> QED
      BY <1>3, <2>1, <2>3, <3>2, Zenon
  <2> QED
    BY <1>4, <2>2, <2>3, Zenon
<1>9. \A i \in I \cap 1 .. n + 1 : \E k \in 1 .. l + 1 : a[k] = i
  <2> TAKE i \in I \cap 1 .. n + 1
  <2>1. CASE i = n + 1
    BY <1>1, <1>3, <2>1
  <2>2. CASE i # n + 1
    <3>1. i \in I \cap 1 .. n
      BY <2>2
    <3>2. PICK k \in 1 .. l : at[k] = i
      BY <1>2, <3>1, Zenon
    <3>3. k \in 1 .. l + 1
      BY <1>1
    <3> QED
      BY <1>3, <3>2, <3>3, Zenon
  <2> QED
    BY <2>1, <2>2, Zenon
<1>10. Picks(s, I, n + 1, new, a)
  BY <1>1, <1>6, <1>7, <1>8, <1>9, Zenon DEF Picks
<1> QED
  BY <1>1, <1>10, Zenon DEF new

\* Every prefix of the loop keeps what it should of the prefix it has seen.
LEMMA KeepPicks ==
  ASSUME NEW D, NEW s \in Seq(D), NEW I
  PROVE  /\ Keep(s, I) \in Seq(D)
         /\ \E at : Picks(s, I, Len(s), Keep(s, I), at)
<1>1. PICK f : /\ f = [i \in 0 .. Len(s) |-> Turn(s, I, f, i)]
               /\ Keep(s, I) = f[Len(s)]
  BY KeepDef, Zenon
<1>2. Len(s) \in Nat /\ \A i \in 1 .. Len(s) : s[i] \in D
  OBVIOUS
<1> DEFINE P(n) == f[n] \in Seq(D) /\ \E at : Picks(s, I, n, f[n], at)
           S == {n \in Nat : n <= Len(s) => P(n)}
<1>3. 0 \in S
  <2>1. f[0] = <<>>
    BY <1>1, <1>2 DEF Turn
  <2>2. Picks(s, I, 0, <<>>, <<>>)
    BY DEF Picks
  <2>3. \E at : Picks(s, I, 0, <<>>, at)
    BY <2>2, Zenon
  <2>4. P(0)
    BY <2>1, <2>3
  <2> QED
    BY <2>4, Zenon
<1>4. ASSUME NEW n \in Nat, n \in S PROVE n + 1 \in S
  <2> SUFFICES ASSUME n + 1 <= Len(s) PROVE P(n + 1)
    OBVIOUS
  <2>1. f[n] \in Seq(D) /\ n + 1 \in 1 .. Len(s) /\ n \in 0 .. Len(s) /\ n + 1 \in 0 .. Len(s)
    BY <1>2, <1>4
  <2>2. PICK at : Picks(s, I, n, f[n], at)
    BY <1>2, <1>4
  <2>3. f[n + 1] = IF n + 1 \in I THEN Append(f[n], s[n + 1]) ELSE f[n]
    <3>1. f[n + 1] = Turn(s, I, f, n + 1)
      BY <1>1, <2>1, Zenon
    <3>2. n + 1 # 0 /\ (n + 1) - 1 = n
      OBVIOUS
    <3> QED
      BY <3>1, <3>2, Zenon DEF Turn
  <2>4. CASE n + 1 \in I
    BY <1>2, <2>1, <2>2, <2>3, <2>4, PicksMore
  <2>5. CASE n + 1 \notin I
    <3>1. I \cap 1 .. n + 1 = I \cap 1 .. n
      BY <2>5
    <3>2. Picks(s, I, n + 1, f[n], at)
      BY <2>2, <3>1, Zenon DEF Picks
    <3> QED
      BY <2>1, <2>3, <2>5, <3>2, Zenon
  <2> QED
    BY <2>4, <2>5, Zenon
<1> HIDE DEF S
<1>5. Len(s) \in S
  BY <1>2, <1>3, <1>4, NatInd, Zenon
<1> QED
  BY <1>1, <1>2, <1>5 DEF S

\* The indices in I are those after lo, to hi.
IsRange(s, I, lo, hi) ==
  /\ lo <= hi /\ hi <= Len(s)
  /\ \A i \in 1 .. Len(s) : i \in I <=> lo < i /\ i <= hi

Copies(s, lo, hi, out) ==
  /\ Len(out) = hi - lo
  /\ \A k \in 1 .. hi - lo : out[k] = s[lo + k]

\* Of neighbours the loop makes a copy.
LEMMA KeepRange ==
  ASSUME NEW D, NEW s \in Seq(D), NEW I, NEW lo \in Nat, NEW hi \in Nat,
         IsRange(s, I, lo, hi)
  PROVE  Keep(s, I) \in Seq(D) /\ Copies(s, lo, hi, Keep(s, I))
<1> USE DEF IsRange, Copies
<1>1. PICK f : /\ f = [i \in 0 .. Len(s) |-> Turn(s, I, f, i)]
               /\ Keep(s, I) = f[Len(s)]
  BY KeepDef, Zenon
<1>2. Len(s) \in Nat /\ \A i \in 1 .. Len(s) : s[i] \in D
  OBVIOUS
<1> DEFINE M(n) == IF n <= lo THEN lo ELSE IF n <= hi THEN n ELSE hi
           P(n) == /\ f[n] \in Seq(D) /\ Len(f[n]) = M(n) - lo
                   /\ \A k \in 1 .. M(n) - lo : f[n][k] = s[lo + k]
           S == {n \in Nat : n <= Len(s) => P(n)}
<1>3. 0 \in S
  <2>1. f[0] = <<>>
    BY <1>1, <1>2 DEF Turn
  <2>2. P(0)
    BY <2>1
  <2> QED
    BY <2>2, Zenon
<1>4. ASSUME NEW n \in Nat, n \in S PROVE n + 1 \in S
  <2> SUFFICES ASSUME n + 1 <= Len(s) PROVE P(n + 1)
    OBVIOUS
  <2>1. P(n) /\ n + 1 \in 1 .. Len(s) /\ n \in 0 .. Len(s) /\ n + 1 \in 0 .. Len(s)
    BY <1>2, <1>4
  <2>2. f[n + 1] = IF n + 1 \in I THEN Append(f[n], s[n + 1]) ELSE f[n]
    <3>1. f[n + 1] = Turn(s, I, f, n + 1)
      BY <1>1, <2>1, Zenon
    <3>2. n + 1 # 0 /\ (n + 1) - 1 = n
      OBVIOUS
    <3> QED
      BY <3>1, <3>2, Zenon DEF Turn
  <2>3. CASE lo < n + 1 /\ n + 1 <= hi
    <3>1. M(n) = n /\ M(n + 1) = n + 1 /\ n - lo \in Nat
      BY <2>3
    <3> DEFINE out == f[n]
               new == Append(out, s[n + 1])
               l == n - lo
    <3>2. out \in Seq(D) /\ Len(out) = l /\ \A k \in 1 .. l : out[k] = s[lo + k]
      BY <2>1, <3>1, Zenon
    <3>3. f[n + 1] = new /\ s[n + 1] \in D
      BY <1>2, <2>1, <2>2, <2>3, Zenon
    <3> HIDE DEF out
    <3>4. new \in Seq(D) /\ Len(new) = l + 1 /\ new[l + 1] = s[n + 1]
          /\ \A k \in 1 .. l : new[k] = out[k]
      BY <3>2, <3>3
    <3> HIDE DEF new
    <3>5. lo + (l + 1) = n + 1 /\ (n + 1) - lo = l + 1
      OBVIOUS
    <3>6. \A k \in 1 .. l + 1 : k \in 1 .. l \/ k = l + 1
      BY <3>1
    <3>7. \A k \in 1 .. l + 1 : new[k] = s[lo + k]
      BY <3>2, <3>4, <3>5, <3>6, Zenon
    <3> HIDE DEF l
    <3> QED
      BY <3>1, <3>3, <3>4, <3>5, <3>7, Zenon
  <2>4. CASE ~(lo < n + 1 /\ n + 1 <= hi)
    <3>1. M(n + 1) = M(n)
      BY <2>4
    <3>2. f[n + 1] = f[n]
      BY <2>1, <2>2, <2>4, Zenon
    <3> QED
      BY <2>1, <3>1, <3>2, Zenon
  <2> QED
    BY <2>3, <2>4, Zenon
<1> HIDE DEF S
<1>5. Len(s) \in S
  BY <1>2, <1>3, <1>4, NatInd, Zenon
<1>6. M(Len(s)) = hi
  BY <1>2
<1> QED
  BY <1>1, <1>2, <1>5, <1>6 DEF S

LEMMA KeepFirst ==
  ASSUME NEW D, NEW s \in Seq(D), NEW I, NEW k \in 0 .. Len(s),
         \A i \in 1 .. Len(s) : i \in I <=> i <= k
  PROVE  /\ Keep(s, I) \in Seq(D)
         /\ Len(Keep(s, I)) = k
         /\ \A i \in 1 .. k : Keep(s, I)[i] = s[i]
<1>1. k \in Nat /\ k <= Len(s) /\ 0 \in Nat
  OBVIOUS
<1>2. IsRange(s, I, 0, k)
  BY DEF IsRange
<1>3. Keep(s, I) \in Seq(D) /\ Copies(s, 0, k, Keep(s, I))
  BY <1>1, <1>2, KeepRange, Zenon
<1> QED
  BY <1>1, <1>3 DEF Copies

LEMMA KeepLast ==
  ASSUME NEW D, NEW s \in Seq(D), NEW I, NEW k \in 0 .. Len(s),
         \A i \in 1 .. Len(s) : i \in I <=> i > k
  PROVE  Keep(s, I) \in Seq(D) /\ Copies(s, k, Len(s), Keep(s, I))
<1>1. k \in Nat /\ k <= Len(s) /\ Len(s) \in Nat
  OBVIOUS
<1>2. IsRange(s, I, k, Len(s))
  BY DEF IsRange
<1> QED
  BY <1>1, <1>2, KeepRange, Zenon

-----------------------------------------------------------------------------
(* The fences of the leases.                                               *)

\* The inductive invariant: what is to be shown, and that no node has a fence the
\* coordinator has not handed out yet; that makes the next one new.
LeaseInv ==
  /\ next \in Nat
  /\ fence \in [Nodes -> 0 .. next]
  /\ OneHolderPerFence

LEMMA LeaseInitially == ASSUME Init PROVE LeaseInv
BY LeasesAssumption DEF Init, LeaseInit, LeaseInv, OneHolderPerFence

\* Acquire grants a fence no node has.
LEMMA AcquireKeeps ==
  ASSUME LeaseInv, NEW n \in Nodes, Acquire(n)
  PROVE  LeaseInv'
<1>1. next' = next + 1 /\ next' \in Nat /\ owner' = n
  BY DEF LeaseInv, Acquire
<1>2. fence' = [fence EXCEPT ![n] = next']
  BY Zenon DEF Acquire
<1>3. fence' \in [Nodes -> 0 .. next']
  BY <1>1, <1>2 DEF LeaseInv
<1>4. fence'[n] = next' /\ \A m \in Nodes \ {n} : fence'[m] = fence[m]
  BY <1>2 DEF LeaseInv
<1>5. \A m \in Nodes : fence[m] # next'
  BY <1>1 DEF LeaseInv
<1>6. OneHolderPerFence'
  BY <1>1, <1>4, <1>5 DEF LeaseInv, OneHolderPerFence
<1> QED
  BY <1>1, <1>3, <1>6, Zenon DEF LeaseInv

\* A node that gives its fence up disturbs nobody, whether or not the lease goes
\* with it.
LEMMA GivingUpKeeps ==
  ASSUME LeaseInv, NEW n \in Nodes, next' = next,
         fence' = [fence EXCEPT ![n] = 0], owner' \in {owner, NoOwner}
  PROVE  LeaseInv'
<1>1. fence'[n] = 0 /\ \A m \in Nodes \ {n} : fence'[m] = fence[m]
  BY Zenon DEF LeaseInv
<1>2. fence' \in [Nodes -> 0 .. next']
  BY DEF LeaseInv
<1>3. OneHolderPerFence'
  BY <1>1, LeasesAssumption DEF LeaseInv, OneHolderPerFence
<1> QED
  BY <1>2, <1>3, Zenon DEF LeaseInv

LEMMA LeaseStep == ASSUME LeaseInv, [Next]_vars PROVE LeaseInv'
<1>1. CASE UNCHANGED <<next, owner, fence>>
  BY <1>1, Zenon DEF LeaseInv, OneHolderPerFence
<1>2. CASE \E n \in Nodes : Acquire(n)
  BY <1>2, AcquireKeeps
<1>3. CASE \E n \in Nodes : /\ next' = next
                            /\ fence' = [fence EXCEPT ![n] = 0]
                            /\ owner' \in {owner, NoOwner}
  BY <1>3, GivingUpKeeps, Zenon
<1>4. CASE Tick
  BY <1>1, <1>4, Zenon DEF Tick, Advance
<1>5. ASSUME NEW n \in Nodes,
             \/ AcquireLease(n) \/ RenewLease(n) \/ LoseLease(n) \/ ReleaseLease(n)
             \/ Crash(n)
      PROVE  LeaseInv'
  BY <1>1, <1>2, <1>3, <1>5, Zenon
     DEF AcquireLease, RenewLease, Renew, LoseLease, RenewLost, ReleaseLease, Release, Crash
<1>6. ASSUME NEW n \in Nodes, LoadFirst(n) \/ LoadNext(n) \/ LoadFails(n)
      PROVE  LeaseInv'
  BY <1>1, <1>6, Zenon DEF LoadFirst, LoadNext, LoadFails, leaseVars
<1>7. ASSUME NEW n \in Nodes,
             \/ AppendUpdate(n) \/ Refused(n) \/ Encode(n)
             \/ Compact(n) \/ CompactConflict(n) \/ CompactMissing(n) \/ Delete(n)
      PROVE  LeaseInv'
  BY <1>1, <1>3, <1>7, Zenon
     DEF AppendUpdate, Refused, Encode, Compact, CompactConflict, CompactMissing,
         CompactReturns, Delete, Deletes, leaseVars
<1>8. ASSUME NEW n \in Nodes,
             \/ LoadCheckpoint(n) \/ Change(n) \/ SaveCheckpoint(n) \/ DropVector(n)
             \/ DeleteState(n)
      PROVE  LeaseInv'
  BY <1>1, <1>8, Zenon
     DEF LoadCheckpoint, Change, SaveCheckpoint, DropVector, DeleteState, Deletes, leaseVars
<1>9. CASE UNCHANGED vars
  BY <1>1, <1>9, Zenon DEF vars, leaseVars
<1> QED
  BY <1>4, <1>5, <1>6, <1>7, <1>8, <1>9, Zenon DEF Next

\* No two nodes ever hold the same fence, and the holder of the lease has the
\* newest: what Acquire hands out is new, and Renew and Release never bring a
\* fence back.
THEOREM FencesAreUnique == Spec => []OneHolderPerFence
<1>1. Init => LeaseInv
  BY LeaseInitially
<1>2. LeaseInv /\ [Next]_vars => LeaseInv'
  BY LeaseStep
<1>3. LeaseInv => OneHolderPerFence
  BY Zenon DEF LeaseInv
<1> QED
  BY <1>1, <1>2, <1>3, PTL DEF Spec

-----------------------------------------------------------------------------
\* Why saves are in order: the store remembers the fence of the last one, which
\* no deletion takes back.
SaveInv ==
  /\ blob = [state |-> blob.state, fence |-> blob.fence, revision |-> blob.revision]
  /\ blob.fence \in Nat
  /\ savedBy \in Seq(Nat)
  /\ \A i \in DOMAIN savedBy : savedBy[i] <= blob.fence
  /\ SavesByFence

LEMMA SaveInitially == ASSUME Init PROVE SaveInv
BY DEF Init, EmptyStore, SaveInv, SavesByFence

\* A save is accepted with a fence that is not older than the last.
LEMMA SaveKeeps ==
  ASSUME LeaseInv, SaveInv, NEW n \in Nodes, SaveCheckpoint(n)
  PROVE  SaveInv'
<1> DEFINE new == Len(savedBy) + 1
<1>1. fence[n] \in Nat /\ fence[n] >= blob.fence /\ blob.fence \in Nat
  BY DEF LeaseInv, SaveInv, SaveCheckpoint, acceptCheckpointFence
<1>2. blob'.fence = fence[n]
  BY Zenon DEF SaveCheckpoint, saveCheckpoint
<1>3. blob' = [state |-> blob'.state, fence |-> blob'.fence, revision |-> blob'.revision]
  BY Zenon DEF SaveCheckpoint, saveCheckpoint
<1>4. savedBy' = Append(savedBy, fence[n]) /\ savedBy \in Seq(Nat)
  BY Zenon DEF SaveCheckpoint, SaveInv
<1>5. /\ savedBy' \in Seq(Nat) /\ DOMAIN savedBy' = 1 .. new
      /\ DOMAIN savedBy = 1 .. new - 1 /\ new \in Nat
  BY <1>1, <1>4
<1>6. \A i \in 1 .. new - 1 : savedBy'[i] = savedBy[i]
  BY <1>1, <1>4
<1>7. \A i \in 1 .. new - 1 : savedBy'[i] \in Nat /\ savedBy'[i] <= fence[n]
  BY <1>1, <1>4, <1>5, <1>6 DEF SaveInv
<1>8. savedBy'[new] = fence[n]
  BY <1>1, <1>4
<1>9. \A i \in DOMAIN savedBy' : savedBy'[i] <= blob'.fence
  <2>1. \A i \in 1 .. new : i \in 1 .. new - 1 \/ i = new
    BY <1>5
  <2> QED
    BY <1>1, <1>2, <1>5, <1>7, <1>8, <2>1
<1>10. ASSUME NEW i \in DOMAIN savedBy', NEW j \in DOMAIN savedBy', i < j
       PROVE  savedBy'[i] <= savedBy'[j]
  <2>1. i \in 1 .. new - 1
    BY <1>5, <1>10
  <2>2. CASE j \in 1 .. new - 1
    BY <1>5, <1>6, <1>10, <2>1, <2>2, Zenon DEF SaveInv, SavesByFence
  <2>3. CASE j = new
    BY <1>7, <1>8, <2>1, <2>3, Zenon
  <2> QED
    BY <1>5, <2>2, <2>3
<1>11. SavesByFence'
  BY <1>10 DEF SavesByFence
<1> QED
  BY <1>1, <1>2, <1>3, <1>5, <1>9, <1>11, Zenon DEF SaveInv

\* Nothing else that happens to the store takes its fence back.
LEMMA FenceStays ==
  ASSUME SaveInv, NEW state, blob' = [blob EXCEPT !.state = state], savedBy' = savedBy
  PROVE  SaveInv'
BY Zenon DEF SaveInv, SavesByFence

LEMMA SaveStep == ASSUME LeaseInv, SaveInv, [Next]_vars PROVE SaveInv'
<1>1. CASE UNCHANGED <<blob, savedBy>>
  BY <1>1, Zenon DEF SaveInv, SavesByFence
<1>2. CASE Tick
  BY <1>1, <1>2, Zenon DEF Tick, storeVars, blobVars
<1>3. ASSUME NEW n \in Nodes,
             \/ AcquireLease(n) \/ RenewLease(n) \/ LoseLease(n) \/ ReleaseLease(n)
             \/ Crash(n)
      PROVE  SaveInv'
  BY <1>1, <1>3, Zenon
     DEF AcquireLease, RenewLease, LoseLease, ReleaseLease, Crash, storeVars, blobVars
<1>4. ASSUME NEW n \in Nodes, LoadFirst(n) \/ LoadNext(n) \/ LoadFails(n)
      PROVE  SaveInv'
  BY <1>1, <1>4, Zenon DEF LoadFirst, LoadNext, LoadFails, storeVars, blobVars
<1>5. ASSUME NEW n \in Nodes,
             \/ AppendUpdate(n) \/ Refused(n) \/ Encode(n)
             \/ Compact(n) \/ CompactConflict(n) \/ CompactMissing(n) \/ Delete(n)
      PROVE  SaveInv'
  BY <1>1, <1>5, Zenon
     DEF AppendUpdate, Refused, Encode, Compact, CompactConflict, CompactMissing,
         CompactReturns, Delete, storeVars, blobVars
<1>6. ASSUME NEW n \in Nodes, LoadCheckpoint(n) \/ Change(n)
      PROVE  SaveInv'
  BY <1>1, <1>6, Zenon DEF LoadCheckpoint, Change, storeVars, blobVars
<1>7. ASSUME NEW n \in Nodes, SaveCheckpoint(n)
      PROVE  SaveInv'
  BY <1>7, SaveKeeps
<1>8. ASSUME NEW n \in Nodes, DropVector(n) \/ DeleteState(n)
      PROVE  SaveInv'
  <2>1. \E state : blob' = [blob EXCEPT !.state = state]
    BY <1>8, Zenon DEF DropVector, dropVector, DeleteState, deleteState
  <2> QED
    BY <1>8, <2>1, FenceStays, Zenon DEF DropVector, DeleteState
<1>9. CASE UNCHANGED vars
  BY <1>1, <1>9, Zenon DEF vars, storeVars, blobVars
<1> QED
  BY <1>2, <1>3, <1>4, <1>5, <1>6, <1>7, <1>8, <1>9, Zenon DEF Next

\* A superseded owner never replaces the state its successor saved, for any
\* number of nodes, leases, saves and deletions: SaveCheckpoint checks the fence
\* against the one it remembers, and Delete leaves that alone.
THEOREM SuccessorsWin == Spec => []SavesByFence
<1>1. Init => LeaseInv /\ SaveInv
  BY LeaseInitially, SaveInitially
<1>2. LeaseInv /\ SaveInv /\ [Next]_vars => (LeaseInv /\ SaveInv)'
  BY LeaseStep, SaveStep
<1>3. SaveInv => SavesByFence
  BY Zenon DEF SaveInv
<1> QED
  BY <1>1, <1>2, <1>3, PTL DEF Spec

-----------------------------------------------------------------------------
(* The history of the log store and the sessions of the nodes.             *)

Types ==
  /\ phase \in [Nodes -> {"idle", "loading", "serving"}]
  /\ view \in [Nodes -> SUBSET Nat]
  /\ through \in [Nodes -> Nat] /\ offset \in [Nodes -> Nat] /\ promised \in [Nodes -> Nat]
  /\ job \in [Nodes -> Checkpoints \cup {NoCheckpoint}]
  /\ document \in Histories \cup {NoDocument} /\ acked \in Nat
  /\ blob \in [state : Saved \cup {NoDocument}, fence : Nat, revision : Nat]
  /\ saves \in Seq(SUBSET Nat) /\ savedBy \in Seq(Nat)
  /\ erased \in Nat /\ made \in Nat /\ halfway \subseteq Nodes

\* The revision after which the records of a history begin.
Base(d) == IF d.checkpoint = NoCheckpoint THEN 0 ELSE d.checkpoint.revision

\* There is a record for every revision after the base, and none else; an update
\* is called by its revision.
TailInv ==
  /\ document = NoDocument => acked = 0
  /\ document # NoDocument =>
       LET records == document.records IN
       /\ document.revision = acked
       /\ Base(document) + Len(records) = acked
       /\ \A i \in DOMAIN records :
            /\ records[i].revision = Base(document) + i
            /\ records[i].update = Base(document) + i
            /\ records[i].fence <= document.fence
       /\ \A i, j \in DOMAIN records : i < j => records[i].fence <= records[j].fence

\* Who loads or serves has a fence, and who has encoded a checkpoint serves.
SessionInv ==
  /\ profile # "log" => document = NoDocument
  /\ \A n \in Nodes :
       /\ phase[n] # "idle" => fence[n] # 0
       /\ job[n] # NoCheckpoint => phase[n] = "serving"
       /\ phase[n] = "loading" => profile = "log"
       /\ profile # "log" => promised[n] = 0

StoreInv == Types /\ TailInv /\ SessionInv

LEMMA StoreInitially == ASSUME Init PROVE StoreInv
BY ClusterAssumption DEF Init, LeaseInit, EmptyStore, StoreInv, Types, TailInv, SessionInv

\* A page has updates of records.
LEMMA PageTyped ==
  ASSUME NEW d \in Histories, NEW t, NEW o \in Nat
  PROVE  LET page == loadPage(d, t, o) IN
         /\ page.updates \subseteq Nat
         /\ page.next \in Nat
         /\ page.more \in BOOLEAN
<1> DEFINE records == Keep(d.records, Until(d.records, t))
           end == IF Limit > 0 /\ Len(records) > o + Limit THEN o + Limit ELSE Len(records)
<1>1. d.records \in Seq(Records)
  BY DEF Histories
<1>2. records \in Seq(Records)
  BY <1>1, KeepPicks, Zenon
<1>3. loadPage(d, t, o) =
        [updates |-> {records[i].update : i \in o + 1 .. end},
         corrupt |-> o > Len(records), more |-> end < Len(records), next |-> end]
  BY Zenon DEF loadPage
<1> HIDE DEF records
<1>4. end \in Nat /\ end <= Len(records) /\ o + 1 \in Nat \ {0}
  BY <1>2, LimitAssumption
<1> HIDE DEF end
<1>5. \A i \in o + 1 .. end : i \in 1 .. Len(records)
  BY <1>2, <1>4
<1>6. \A i \in o + 1 .. end : records[i].update \in Nat
  <2>1. \A i \in 1 .. Len(records) : records[i] \in Records
    BY <1>2
  <2> TAKE i \in o + 1 .. end
  <2>2. records[i] \in Records
    BY <1>5, <2>1
  <2> QED
    BY <2>2, Zenon DEF Records
<1>7. (end < Len(records)) \in BOOLEAN
  OBVIOUS
<1> QED
  BY <1>3, <1>4, <1>6, <1>7

\* A page of a tail without gaps has what follows the offset.
LEMMA PageOfTail ==
  ASSUME NEW d \in Histories, NEW b \in Nat, NEW t \in Nat, NEW o \in Nat,
         \A i \in DOMAIN d.records : d.records[i].revision = b + i /\ d.records[i].update = b + i,
         b + o <= t, t <= b + Len(d.records)
  PROVE  LET page == loadPage(d, t, o) IN
         /\ page.next \in Nat /\ o <= page.next /\ b + page.next <= t
         /\ page.updates = b + o + 1 .. b + page.next
         /\ page.more \in BOOLEAN
         /\ page.more <=> b + page.next < t
<1> DEFINE all == d.records
           records == Keep(all, Until(all, t))
           k == t - b
           end == IF Limit > 0 /\ Len(records) > o + Limit THEN o + Limit ELSE Len(records)
<1>1. all \in Seq(Records) /\ Len(all) \in Nat /\ DOMAIN all = 1 .. Len(all)
  BY DEF Histories
<1>2. k \in Nat /\ o <= k /\ k <= Len(all)
  BY <1>1
<1> HIDE DEF k
<1>3. \A i \in 1 .. Len(all) : i \in Until(all, t) <=> i <= k
  <2>1. \A i \in 1 .. Len(all) : all[i].revision = b + i
    BY <1>1, Zenon
  <2>2. \A i \in Nat : b + i <= t <=> i <= k
    BY DEF k
  <2> HIDE DEF all
  <2>3. \A i \in 1 .. Len(all) : i \in Until(all, t) <=> b + i <= t
    BY <1>1, <2>1, Zenon DEF Until
  <2>4. \A i \in 1 .. Len(all) : i \in Nat
    BY <1>1
  <2> QED
    BY <2>2, <2>3, <2>4, Zenon
<1>4. /\ records \in Seq(Records) /\ Len(records) = k
      /\ \A i \in 1 .. k : records[i] = all[i]
  <2> HIDE DEF all
  <2>1. k \in 0 .. Len(all)
    BY <1>1, <1>2
  <2> QED
    BY <1>1, <1>3, <2>1, KeepFirst
<1>5. loadPage(d, t, o) =
        [updates |-> {records[i].update : i \in o + 1 .. end},
         corrupt |-> o > Len(records), more |-> end < Len(records), next |-> end]
  BY Zenon DEF loadPage
<1> HIDE DEF records
<1>6. end \in Nat /\ o <= end /\ end <= k
  BY <1>2, <1>4, LimitAssumption
<1> HIDE DEF end
<1>7. \A i \in o + 1 .. end : records[i].update = b + i
  <2>1. \A i \in o + 1 .. end : i \in 1 .. k /\ i \in 1 .. Len(all)
    BY <1>1, <1>2, <1>6
  <2>2. \A i \in 1 .. Len(all) : all[i].update = b + i
    BY <1>1, Zenon
  <2> QED
    BY <1>4, <2>1, <2>2, Zenon
<1>8. {records[i].update : i \in o + 1 .. end} = b + o + 1 .. b + end
  <2>1. \A x \in b + o + 1 .. b + end : x - b \in o + 1 .. end /\ b + (x - b) = x
    BY <1>6
  <2>2. \A i \in o + 1 .. end : b + i \in b + o + 1 .. b + end
    BY <1>6
  <2> QED
    BY <1>7, <2>1, <2>2
<1>9. b + end <= t /\ (end < Len(records) <=> b + end < t)
  BY <1>2, <1>4, <1>6 DEF k
<1>10. (end < Len(records)) \in BOOLEAN
  OBVIOUS
<1> DEFINE page == loadPage(d, t, o)
<1>11. /\ page.updates = {records[i].update : i \in o + 1 .. end}
       /\ page.more = (end < Len(records)) /\ page.next = end
  BY <1>5
<1> HIDE DEF page
<1>12. page.next \in Nat /\ o <= page.next /\ b + page.next <= t
  BY <1>6, <1>9, <1>11, Zenon
<1>13. page.updates = b + o + 1 .. b + page.next
  BY <1>8, <1>11, Zenon
<1>14. page.more \in BOOLEAN /\ (page.more <=> b + page.next < t)
  BY <1>9, <1>10, <1>11, Zenon
<1> QED
  BY <1>12, <1>13, <1>14, Zenon DEF page

\* How a session ends: a lost, released or abandoned lease, a refused mutation, a
\* crash, or a load that fails and leaves the node its fence.
GoesIdle(n) ==
  /\ Idle(n)
  /\ \/ fence' = [fence EXCEPT ![n] = 0]
     \/ fence' = fence /\ phase[n] = "loading"
  /\ next' = next
  /\ halfway' \subseteq halfway
  /\ UNCHANGED <<profile, deletes, document, acked, blob, saves, savedBy, erased, made>>

\* What concerns the lease only.
LeaseOnly == UNCHANGED <<storeVars, nodeVars>> /\ (fence' = fence /\ next' = next)

LEMMA EndsIdle ==
  ASSUME NEW n \in Nodes,
         LoseLease(n) \/ ReleaseLease(n) \/ Crash(n) \/ Refused(n) \/ LoadFails(n)
  PROVE  GoesIdle(n)
<1> USE DEF GoesIdle, leaseVars, storeVars, logVars, blobVars
<1>1. CASE LoseLease(n) \/ ReleaseLease(n)
  BY <1>1, Zenon DEF LoseLease, RenewLost, ReleaseLease, Release
<1>2. CASE Crash(n)
  BY <1>2, Zenon DEF Crash
<1>3. CASE Refused(n)
  BY <1>3, Zenon DEF Refused
<1>4. CASE LoadFails(n)
  BY <1>4, Zenon DEF LoadFails
<1> QED
  BY <1>1, <1>2, <1>3, <1>4, Zenon

LEMMA OnlyTheLease ==
  ASSUME Tick \/ UNCHANGED vars \/ \E n \in Nodes : RenewLease(n)
  PROVE  LeaseOnly
BY Zenon DEF LeaseOnly, Tick, Advance, RenewLease, Renew, vars, leaseVars

\* What the end of a session does to the variables of the node.
LEMMA IdleTyped ==
  ASSUME StoreInv, LeaseInv, NEW n \in Nodes, GoesIdle(n)
  PROVE  StoreInv'
<1>1. Types'
  BY Zenon DEF GoesIdle, Idle, StoreInv, Types
<1>2. TailInv'
  BY Zenon DEF GoesIdle, StoreInv, TailInv, Base
<1>3. SessionInv'
  BY Zenon DEF GoesIdle, Idle, StoreInv, Types, SessionInv, LeaseInv
<1> QED
  BY <1>1, <1>2, <1>3 DEF StoreInv

LEMMA LeaseTyped ==
  ASSUME StoreInv, LeaseInv, LeaseOnly \/ \E n \in Nodes : AcquireLease(n)
  PROVE  StoreInv'
<1> USE DEF storeVars, logVars, blobVars, nodeVars
<1>1. UNCHANGED <<storeVars, nodeVars>>
  BY Zenon DEF LeaseOnly, AcquireLease
<1>2. Types' /\ TailInv'
  BY <1>1, Zenon DEF StoreInv, Types, TailInv, Base
<1>3. \A n \in Nodes : fence'[n] = fence[n] \/ fence'[n] # 0
  BY Zenon DEF LeaseOnly, AcquireLease, Acquire, LeaseInv
<1>4. SessionInv'
  BY <1>1, <1>3, Zenon DEF StoreInv, SessionInv
<1> QED
  BY <1>2, <1>4 DEF StoreInv

LEMMA OrNewTyped ==
  ASSUME StoreInv
  PROVE  OrNew(document) \in Histories
BY DEF StoreInv, Types, OrNew, EmptyHistory, Histories

LEMMA LoadTyped ==
  ASSUME StoreInv, NEW n \in Nodes, LoadFirst(n) \/ LoadNext(n)
  PROVE  StoreInv'
<1> USE DEF storeVars, logVars, blobVars, leaseVars
<1>1. UNCHANGED <<fence, profile, document, acked, blob, saves, savedBy, erased, made, halfway, job>>
  BY Zenon DEF LoadFirst, LoadNext
<1>2. PICK page, first :
        /\ Take(n, page, first) /\ first \subseteq Nat
        /\ page.updates \subseteq Nat /\ page.next \in Nat
  <2>1. CASE LoadFirst(n)
    <3> DEFINE d == OrNew(document)
               first == Covered(d.checkpoint)
               page == loadPage(d, d.revision, 0)
    <3>1. d \in Histories /\ first \subseteq Nat
      BY OrNewTyped, Zenon DEF Histories, Checkpoints, Covered
    <3>2. page.updates \subseteq Nat /\ page.next \in Nat
      BY <3>1, PageTyped, Zenon
    <3>3. Take(n, page, first)
      BY <2>1, Zenon DEF LoadFirst
    <3> HIDE DEF page, first
    <3> QED
      BY <3>1, <3>2, <3>3, Zenon
  <2>2. CASE LoadNext(n)
    <3> DEFINE page == loadPage(document, through[n], offset[n])
    <3>1. document \in Histories /\ offset[n] \in Nat
      BY <2>2, Zenon DEF LoadNext, StoreInv, Types
    <3>2. page.updates \subseteq Nat /\ page.next \in Nat
      BY <3>1, PageTyped, Zenon
    <3>3. Take(n, page, {})
      BY <2>2, Zenon DEF LoadNext
    <3> HIDE DEF page
    <3> QED
      BY <3>2, <3>3
  <2> QED
    BY <2>1, <2>2, Zenon
<1>3. /\ view' \in [Nodes -> SUBSET Nat] /\ offset' \in [Nodes -> Nat]
      /\ phase' \in [Nodes -> {"idle", "loading", "serving"}]
      /\ phase'[n] \in {"loading", "serving"}
      /\ \A m \in Nodes \ {n} : phase'[m] = phase[m]
  BY <1>2, Zenon DEF Take, StoreInv, Types
<1>4. /\ through' \in [Nodes -> Nat] /\ promised' \in [Nodes -> Nat]
      /\ fence[n] # 0 /\ profile = "log" /\ phase[n] # "serving"
  <2>1. CASE LoadFirst(n)
    BY <2>1, OrNewTyped, Zenon DEF LoadFirst, StoreInv, Types, Histories
  <2>2. CASE LoadNext(n)
    BY <2>2, Zenon DEF LoadNext, StoreInv, Types, SessionInv
  <2> QED
    BY <2>1, <2>2, Zenon
<1>5. Types'
  BY <1>1, <1>3, <1>4, Zenon DEF StoreInv, Types
<1>6. TailInv'
  BY <1>1, Zenon DEF StoreInv, TailInv, Base
<1>7. SessionInv'
  BY <1>1, <1>3, <1>4, Zenon DEF StoreInv, SessionInv
<1> QED
  BY <1>5, <1>6, <1>7 DEF StoreInv

\* Append puts one record at the end, with the next revision.
LEMMA AppendTyped ==
  ASSUME StoreInv, LeaseInv, NEW n \in Nodes, AppendUpdate(n)
  PROVE  StoreInv'
<1> DEFINE d == OrNew(document)
           r == d.records
           new == [revision |-> d.revision + 1, update |-> acked', fence |-> fence[n]]
<1> USE DEF storeVars, logVars, blobVars, leaseVars
<1>1. /\ UNCHANGED <<fence, profile, blob, saves, savedBy, erased, made, halfway>>
      /\ UNCHANGED <<phase, offset, job, promised>>
      /\ acked' = acked + 1 /\ profile = "log"
  BY Zenon DEF AppendUpdate
<1>2. d \in Histories /\ fence[n] \in Nat /\ fence[n] >= d.fence
  BY OrNewTyped DEF AppendUpdate, acceptFence, LeaseInv
<1>3. /\ d.revision = acked /\ acked \in Nat /\ Base(d) \in Nat
      /\ Base(d) + Len(r) = acked
      /\ \A i \in DOMAIN r : /\ r[i].revision = Base(d) + i
                             /\ r[i].update = Base(d) + i
                             /\ r[i].fence <= d.fence
      /\ \A i, j \in DOMAIN r : i < j => r[i].fence <= r[j].fence
  <2>1. CASE document = NoDocument
    BY <2>1 DEF StoreInv, TailInv, OrNew, EmptyHistory, Base
  <2>2. CASE document # NoDocument
    <3>1. d = document /\ acked \in Nat
      BY <2>2, Zenon DEF OrNew, StoreInv, Types
    <3>2. Base(d) \in Nat
      BY <1>2 DEF Base, Histories, Checkpoints
    <3> QED
      BY <2>2, <3>1, <3>2, Zenon DEF StoreInv, TailInv
  <2> QED
    BY <2>1, <2>2, Zenon
<1>4. /\ r \in Seq(Records) /\ new \in Records /\ d.fence \in Nat
      /\ \A i \in 1 .. Len(r) : r[i].fence \in Nat
  <2>1. r \in Seq(Records) /\ d.fence \in Nat
    BY <1>2, Zenon DEF Histories
  <2>2. new \in Records
    BY <1>1, <1>2, <1>3 DEF Records
  <2> HIDE DEF r
  <2>3. \A i \in 1 .. Len(r) : r[i] \in Records
    BY <2>1
  <2> QED
    BY <2>1, <2>2, <2>3, Zenon DEF Records
<1>5. /\ document' = [revision |-> acked', fence |-> fence[n], checkpoint |-> d.checkpoint,
                       records |-> Append(r, new)]
  BY <1>1, <1>2, <1>3, Zenon DEF AppendUpdate, appendRecord, Histories
<1>6. document' \in Histories /\ document' # NoDocument
  <2>1. Append(r, new) \in Seq(Records) /\ acked' \in Nat
    BY <1>1, <1>3, <1>4
  <2>2. d.checkpoint \in Checkpoints \cup {NoCheckpoint}
    BY <1>2, Zenon DEF Histories
  <2>3. document' \in Histories
    BY <1>2, <1>5, <2>1, <2>2, Zenon DEF Histories
  <2> QED
    BY <2>3, ClusterAssumption
<1>7. Types'
  <2>1. acked' \in Nat
    BY <1>1, <1>3
  <2>2. view' \in [Nodes -> SUBSET Nat] /\ through' \in [Nodes -> Nat]
    <3>1. /\ view' = [view EXCEPT ![n] = @ \cup {acked'}]
          /\ through' = [through EXCEPT ![n] = IF document'.revision = @ + 1 THEN @ + 1 ELSE @]
      BY Zenon DEF AppendUpdate
    <3>2. view \in [Nodes -> SUBSET Nat] /\ through \in [Nodes -> Nat]
      BY Zenon DEF StoreInv, Types
    <3> QED
      BY <2>1, <3>1, <3>2
  <2> QED
    BY <1>1, <1>6, <2>1, <2>2, Zenon DEF StoreInv, Types
<1>8. TailInv'
  <2> DEFINE q == Append(r, new)
             b == Base(d)
  <2>1. /\ document'.revision = acked' /\ document'.fence = fence[n] /\ document'.records = q
        /\ Base(document') = b /\ Base(document)' = Base(document')
    BY <1>5, Zenon DEF Base
  <2>2. /\ Len(q) = Len(r) + 1 /\ DOMAIN q = 1 .. Len(q) /\ Len(r) \in Nat
        /\ \A i \in 1 .. Len(r) : q[i] = r[i]
        /\ q[Len(r) + 1] = new
        /\ DOMAIN r = 1 .. Len(r)
    BY <1>4
  <2>3. new.revision = b + (Len(r) + 1) /\ new.update = b + (Len(r) + 1) /\ new.fence = fence[n]
    BY <1>1, <1>3, <2>2
  <2> HIDE DEF q, b, r, new, d
  <2>4. \A i \in 1 .. Len(q) : i \in 1 .. Len(r) \/ i = Len(r) + 1
    BY <2>2
  <2>5. \A i \in 1 .. Len(r) : r[i].fence <= fence[n]
    <3> TAKE i \in 1 .. Len(r)
    <3>1. r[i].fence \in Nat /\ r[i].fence <= d.fence
      BY <1>3, <1>4, <2>2, Zenon
    <3>2. d.fence \in Nat /\ fence[n] \in Nat /\ d.fence <= fence[n]
      BY <1>2, <1>4
    <3> QED
      BY <3>1, <3>2
  <2>6. \A i \in DOMAIN q : /\ q[i].revision = b + i /\ q[i].update = b + i
                            /\ q[i].fence <= fence[n]
    BY <1>2, <1>3, <2>2, <2>3, <2>4, <2>5 DEF b
  <2>7. \A i, j \in DOMAIN q : i < j => q[i].fence <= q[j].fence
    <3> TAKE i, j \in DOMAIN q
    <3> HAVE i < j
    <3>1. i \in 1 .. Len(r)
      BY <2>2
    <3>2. CASE j \in 1 .. Len(r)
      BY <1>3, <2>2, <3>1, <3>2, Zenon
    <3>3. CASE j = Len(r) + 1
      BY <2>2, <2>3, <2>5, <3>1, <3>3, Zenon
    <3> QED
      BY <2>2, <2>4, <3>2, <3>3, Zenon
  <2>8. b + Len(q) = acked'
    BY <1>1, <1>3, <2>2 DEF b
  <2> QED
    BY <1>6, <2>1, <2>6, <2>7, <2>8, Zenon DEF TailInv
<1>9. SessionInv'
  BY <1>1, Zenon DEF StoreInv, SessionInv
<1> QED
  BY <1>7, <1>8, <1>9 DEF StoreInv

LEMMA EncodeTyped ==
  ASSUME StoreInv, NEW n \in Nodes, Encode(n)
  PROVE  StoreInv'
<1> USE DEF storeVars, logVars, blobVars, leaseVars
<1>1. /\ UNCHANGED <<fence, profile, document, acked, blob, saves, savedBy, erased, made, halfway>>
      /\ UNCHANGED <<phase, view, through, offset, promised>>
      /\ phase[n] = "serving"
      /\ job' = [job EXCEPT ![n] = [revision |-> through[n], covers |-> view[n]]]
  BY Zenon DEF Encode
<1>2. [revision |-> through[n], covers |-> view[n]] \in Checkpoints
  BY Zenon DEF StoreInv, Types, Checkpoints
<1>3. job' \in [Nodes -> Checkpoints \cup {NoCheckpoint}]
  BY <1>1, <1>2, Zenon DEF StoreInv, Types
<1>4. Types'
  BY <1>1, <1>3, Zenon DEF StoreInv, Types
<1>5. TailInv'
  BY <1>1, Zenon DEF StoreInv, TailInv, Base
<1>6. SessionInv'
  BY <1>1, Zenon DEF StoreInv, Types, SessionInv
<1> QED
  BY <1>4, <1>5, <1>6 DEF StoreInv

\* Compact drops the records up to the basis, and the tail begins after it.
LEMMA CompactedTail ==
  ASSUME StoreInv, LeaseInv, NEW n \in Nodes, Compact(n)
  PROVE  /\ document' \in Histories /\ TailInv'
         /\ document'.checkpoint = job[n]
         /\ job[n] \in Checkpoints
         /\ acked' = acked
<1> DEFINE r == document.records
           b == Base(document)
           c == job[n].revision
           k == c - b
           q == Keep(r, After(r, c))
<1>1. /\ document \in Histories /\ document # NoDocument /\ job[n] \in Checkpoints
      /\ fence[n] \in Nat /\ fence[n] >= document.fence /\ admitsBasis(document, c)
      /\ acked' = acked /\ acked \in Nat
      /\ document' = compactHistory(document, fence[n], c, job[n].covers)
  BY DEF Compact, CompactReturns, acceptFence, StoreInv, Types, LeaseInv
<1>2. /\ document.revision = acked /\ b + Len(r) = acked
      /\ \A i \in DOMAIN r : r[i].revision = b + i /\ r[i].update = b + i /\ r[i].fence <= document.fence
      /\ \A i, j \in DOMAIN r : i < j => r[i].fence <= r[j].fence
  BY <1>1, Zenon DEF StoreInv, TailInv
<1>3. /\ r \in Seq(Records) /\ document.fence \in Nat /\ Len(r) \in Nat /\ DOMAIN r = 1 .. Len(r)
      /\ document = [revision |-> document.revision, fence |-> document.fence,
                      checkpoint |-> document.checkpoint, records |-> r]
  BY <1>1 DEF Histories
<1>4. c \in Nat /\ job[n] = [revision |-> c, covers |-> job[n].covers]
  BY <1>1, Zenon DEF Checkpoints
<1>5. b \in Nat /\ b <= c /\ c <= acked
  BY <1>1, <1>2, <1>4 DEF Base, admitsBasis, Histories, Checkpoints
<1>6. document' = [revision |-> acked, fence |-> fence[n], checkpoint |-> job[n], records |-> q]
  BY <1>1, <1>2, <1>3, <1>4, Zenon DEF compactHistory
<1> HIDE DEF r, b, c
<1>7. k \in 0 .. Len(r) /\ Len(r) - k = acked - c /\ \A i \in Nat : b + (k + i) = c + i
  BY <1>1, <1>2, <1>3, <1>4, <1>5
<1>8. \A i \in 1 .. Len(r) : i \in After(r, c) <=> i > k
  <2>1. \A i \in 1 .. Len(r) : i \in After(r, c) <=> b + i > c
    BY <1>2, <1>3, Zenon DEF After
  <2>2. \A i \in 1 .. Len(r) : b + i > c <=> i > k
    BY <1>3, <1>4, <1>5
  <2> QED
    BY <2>1, <2>2, Zenon
<1> HIDE DEF k
<1>9. q \in Seq(Records) /\ Len(q) = Len(r) - k /\ \A i \in 1 .. Len(r) - k : q[i] = r[k + i]
  <2>1. q \in Seq(Records) /\ Copies(r, k, Len(r), q)
    BY <1>3, <1>7, <1>8, KeepLast, Zenon
  <2> QED
    BY <2>1, Zenon DEF Copies
<1> HIDE DEF q
<1>10. document' \in Histories /\ document' # NoDocument
  <2>1. document' \in Histories
    BY <1>1, <1>6, <1>9 DEF Histories
  <2> QED
    BY <2>1, ClusterAssumption
<1>11. /\ Base(document') = c /\ Base(document)' = Base(document')
       /\ document'.revision = acked /\ document'.fence = fence[n] /\ document'.records = q
       /\ document'.checkpoint = job[n]
  BY <1>1, <1>4, <1>6, ClusterAssumption DEF Base, c
<1>12. DOMAIN q = 1 .. Len(q) /\ \A i \in DOMAIN q : i \in Nat /\ k + i \in DOMAIN r /\ q[i] = r[k + i]
  BY <1>3, <1>7, <1>9
<1>13. \A i \in DOMAIN q : q[i].revision = c + i /\ q[i].update = c + i
  <2> TAKE i \in DOMAIN q
  <2>1. q[i] = r[k + i] /\ r[k + i].revision = b + (k + i) /\ r[k + i].update = b + (k + i)
    BY <1>2, <1>12, Zenon
  <2>2. b + (k + i) = c + i
    BY <1>7, <1>12, Zenon
  <2> QED
    BY <2>1, <2>2, Zenon
<1>14. \A i \in 1 .. Len(r) : r[i].fence \in Nat
  <2>1. \A i \in 1 .. Len(r) : r[i] \in Records
    BY <1>3
  <2> QED
    BY <2>1 DEF Records
<1>15. \A i \in DOMAIN q : q[i].fence <= fence[n]
  <2> TAKE i \in DOMAIN q
  <2>1. r[k + i].fence <= document.fence /\ r[k + i].fence \in Nat
    BY <1>2, <1>3, <1>12, <1>14, Zenon
  <2> QED
    BY <1>1, <1>3, <1>12, <2>1
<1>16. \A i, j \in DOMAIN q : i < j => q[i].fence <= q[j].fence
  <2> TAKE i, j \in DOMAIN q
  <2> HAVE i < j
  <2>1. k + i \in DOMAIN r /\ k + j \in DOMAIN r /\ k + i < k + j
    BY <1>7, <1>12
  <2> QED
    BY <1>2, <1>12, <2>1, Zenon
<1>17. c + Len(q) = acked
  BY <1>1, <1>4, <1>7, <1>9
<1>18. TailInv'
  BY <1>1, <1>10, <1>11, <1>13, <1>15, <1>16, <1>17 DEF TailInv
<1> QED
  BY <1>1, <1>10, <1>11, <1>18, Zenon

LEMMA CompactTyped ==
  ASSUME StoreInv, LeaseInv, NEW n \in Nodes,
         Compact(n) \/ CompactConflict(n) \/ CompactMissing(n)
  PROVE  StoreInv'
<1> USE DEF storeVars, logVars, blobVars, leaseVars
<1>1. /\ UNCHANGED <<fence, profile, acked, blob, saves, savedBy, erased, made, halfway>>
      /\ UNCHANGED <<phase, view, through, offset, promised>>
      /\ job' = [job EXCEPT ![n] = NoCheckpoint]
  BY Zenon DEF Compact, CompactConflict, CompactMissing, CompactReturns
<1>2. /\ document' \in Histories \cup {NoDocument} /\ TailInv'
      /\ document = NoDocument => document' = NoDocument
  <2>1. CASE Compact(n)
    BY <2>1, CompactedTail, Zenon DEF Compact
  <2>2. CASE CompactMissing(n)
    BY <2>2, Zenon DEF CompactMissing, CompactReturns, StoreInv, Types, TailInv, Base
  <2>3. CASE CompactConflict(n)
    <3>1. /\ document \in Histories /\ document # NoDocument /\ fence[n] \in Nat
          /\ document' = [document EXCEPT !.fence = fence[n]]
          /\ fence[n] >= document.fence
      BY <2>3 DEF CompactConflict, CompactReturns, acceptFence, StoreInv, Types, LeaseInv
    <3>2. document' \in Histories /\ document.fence \in Nat /\ document.records \in Seq(Records)
      BY <3>1, Zenon DEF Histories
    <3>3. document' # NoDocument
      BY <3>2, ClusterAssumption
    <3>4. /\ document'.records = document.records /\ document'.checkpoint = document.checkpoint
          /\ document'.revision = document.revision /\ document'.fence = fence[n]
      BY <3>1 DEF Histories
    <3>5. \A i \in DOMAIN document.records : document.records[i].fence <= fence[n]
      <4> DEFINE r == document.records
      <4>1. \A i \in DOMAIN r : r[i] \in Records
        BY <3>2
      <4>2. \A i \in DOMAIN r : r[i].fence \in Nat /\ r[i].fence <= document.fence
        BY <3>1, <4>1, Zenon DEF Records, StoreInv, TailInv
      <4> HIDE DEF r
      <4>3. \A i \in DOMAIN r : r[i].fence <= fence[n]
        BY <3>1, <3>2, <4>2
      <4> QED
        BY <4>3, Zenon DEF r
    <3>6. TailInv'
      BY <1>1, <3>1, <3>3, <3>4, <3>5 DEF StoreInv, TailInv, Base
    <3> QED
      BY <3>1, <3>2, <3>6, Zenon
  <2> QED
    BY <2>1, <2>2, <2>3, Zenon
<1>3. job' \in [Nodes -> Checkpoints \cup {NoCheckpoint}]
  BY <1>1, Zenon DEF StoreInv, Types
<1>4. Types'
  BY <1>1, <1>2, <1>3, Zenon DEF StoreInv, Types
<1>5. SessionInv'
  BY <1>1, <1>2, Zenon DEF StoreInv, Types, SessionInv
<1> QED
  BY <1>2, <1>4, <1>5 DEF StoreInv

LEMMA DeleteTyped ==
  ASSUME StoreInv, NEW n \in Nodes, Delete(n)
  PROVE  StoreInv'
<1> USE DEF storeVars, logVars, blobVars, nodeVars, leaseVars
<1>1. /\ UNCHANGED <<fence, profile, blob, saves, savedBy, erased, made, halfway>>
      /\ UNCHANGED <<phase, view, through, offset, job, promised>>
      /\ document' = NoDocument /\ acked' = 0
  BY Zenon DEF Delete, Deletes
<1>2. Types'
  BY <1>1, Zenon DEF StoreInv, Types
<1>3. TailInv'
  BY <1>1, Zenon DEF TailInv
<1>4. SessionInv'
  BY <1>1, Zenon DEF StoreInv, SessionInv
<1> QED
  BY <1>2, <1>3, <1>4 DEF StoreInv

\* The store of the other profile holds what was encoded.
LEMMA SaveTyped ==
  ASSUME StoreInv, LeaseInv, NEW n \in Nodes,
         SaveCheckpoint(n) \/ DropVector(n) \/ DeleteState(n)
  PROVE  StoreInv'
<1> USE DEF storeVars, logVars, blobVars, nodeVars, leaseVars
<1> DEFINE Blobs == [state : Saved \cup {NoDocument}, fence : Nat, revision : Nat]
<1>1. /\ UNCHANGED <<fence, profile, document, acked, made>>
      /\ UNCHANGED <<phase, view, through, offset, promised>>
  BY Zenon DEF SaveCheckpoint, DropVector, DeleteState, Deletes
<1>2. /\ job' \in [Nodes -> Checkpoints \cup {NoCheckpoint}]
      /\ \A m \in Nodes : job'[m] # NoCheckpoint => job'[m] = job[m]
      /\ halfway' \subseteq Nodes
  BY Zenon DEF SaveCheckpoint, DropVector, DeleteState, Deletes, StoreInv, Types
<1>3. /\ blob' \in Blobs /\ saves' \in Seq(SUBSET Nat) /\ savedBy' \in Seq(Nat)
      /\ erased' \in Nat
  <2>1. CASE SaveCheckpoint(n)
    <3> DEFINE covers == job[n].covers
    <3>1. /\ job[n] # NoCheckpoint /\ blob' = saveCheckpoint(blob, fence[n], covers)
          /\ saves' = Append(saves, covers) /\ savedBy' = Append(savedBy, fence[n])
          /\ erased' = erased
      BY <2>1, Zenon DEF SaveCheckpoint
    <3>2. job[n] \in Checkpoints
      BY <3>1, Zenon DEF StoreInv, Types
    <3>3. covers \in SUBSET Nat /\ fence[n] \in Nat /\ blob.revision + 1 \in Nat
      BY <3>2 DEF StoreInv, Types, Checkpoints, LeaseInv
    <3> HIDE DEF covers
    <3>4. blob' \in Blobs
      BY <3>1, <3>3, Zenon DEF saveCheckpoint, Saved
    <3>5. saves \in Seq(SUBSET Nat) /\ savedBy \in Seq(Nat) /\ erased \in Nat
      BY Zenon DEF StoreInv, Types
    <3> QED
      BY <3>1, <3>3, <3>4, <3>5
  <2>2. CASE DropVector(n)
    <3>1. blob' \in Blobs
      BY <2>2, Zenon DEF DropVector, dropVector, StoreInv, Types, Saved
    <3> QED
      BY <2>2, <3>1, Zenon DEF DropVector, StoreInv, Types
  <2>3. CASE DeleteState(n)
    <3>1. blob' \in Blobs
      BY <2>3, Zenon DEF DeleteState, deleteState, StoreInv, Types
    <3>2. Len(saves) \in Nat
      BY DEF StoreInv, Types
    <3> QED
      BY <2>3, <3>1, <3>2, Zenon DEF DeleteState, StoreInv, Types
  <2> QED
    BY <2>1, <2>2, <2>3, Zenon
<1>4. Types'
  BY <1>1, <1>2, <1>3, Zenon DEF StoreInv, Types
<1>5. TailInv'
  BY <1>1, Zenon DEF StoreInv, TailInv, Base
<1>6. SessionInv'
  BY <1>1, <1>2, Zenon DEF StoreInv, SessionInv
<1> QED
  BY <1>4, <1>5, <1>6 DEF StoreInv

LEMMA ChangeTyped ==
  ASSUME StoreInv, NEW n \in Nodes, LoadCheckpoint(n) \/ Change(n)
  PROVE  StoreInv'
<1> USE DEF storeVars, logVars, blobVars, leaseVars
<1>1. /\ UNCHANGED <<fence, profile, document, acked, blob, saves, savedBy, erased, halfway>>
      /\ UNCHANGED <<through, offset, job, promised>>
      /\ profile # "log" /\ fence[n] # 0
  BY Zenon DEF LoadCheckpoint, Change, StoreInv, SessionInv
<1>2. made' \in Nat
  BY DEF LoadCheckpoint, Change, StoreInv, Types
<1>3. view' \in [Nodes -> SUBSET Nat]
  <2>1. CASE LoadCheckpoint(n)
    <3>1. loadCheckpoint(blob) \in SUBSET Nat
      BY Zenon DEF loadCheckpoint, StoreInv, Types, Saved
    <3> QED
      BY <2>1, <3>1, Zenon DEF LoadCheckpoint, StoreInv, Types
  <2>2. CASE Change(n)
    BY <2>2, <1>2, Zenon DEF Change, StoreInv, Types
  <2> QED
    BY <2>1, <2>2
<1>4. /\ phase' \in [Nodes -> {"idle", "loading", "serving"}]
      /\ phase'[n] = "serving"
      /\ \A m \in Nodes \ {n} : phase'[m] = phase[m]
  BY Zenon DEF LoadCheckpoint, Change, StoreInv, Types
<1>5. Types'
  BY <1>1, <1>2, <1>3, <1>4, Zenon DEF StoreInv, Types
<1>6. TailInv'
  BY <1>1, Zenon DEF StoreInv, TailInv, Base
<1>7. SessionInv'
  BY <1>1, <1>4, Zenon DEF StoreInv, SessionInv
<1> QED
  BY <1>5, <1>6, <1>7 DEF StoreInv

LEMMA StoreStep == ASSUME StoreInv, LeaseInv, [Next]_vars PROVE StoreInv'
<1>1. ASSUME NEW n \in Nodes,
             LoseLease(n) \/ ReleaseLease(n) \/ Crash(n) \/ Refused(n) \/ LoadFails(n)
      PROVE  StoreInv'
  BY <1>1, EndsIdle, IdleTyped, Zenon
<1>2. CASE Tick \/ UNCHANGED vars \/ \E n \in Nodes : RenewLease(n) \/ AcquireLease(n)
  BY <1>2, OnlyTheLease, LeaseTyped
<1> QED
  BY <1>1, <1>2, LoadTyped, AppendTyped, EncodeTyped, CompactTyped, DeleteTyped, SaveTyped,
     ChangeTyped, Zenon
     DEF Next

\* The store keeps the tail of the log in the order of its revisions and of its
\* fences, without a record that the checkpoint has, for any number of nodes,
\* updates, compactions and deletions, prescribed order or not.
THEOREM LogInOrder == Spec => []TailInOrder
<1>1. Init => LeaseInv /\ StoreInv
  BY LeaseInitially, StoreInitially
<1>2. LeaseInv /\ StoreInv /\ [Next]_vars => (LeaseInv /\ StoreInv)'
  BY LeaseStep, StoreStep
<1>3. StoreInv => TailInOrder
  <2> SUFFICES ASSUME StoreInv, document # NoDocument
               PROVE  LET records == document.records IN
                 /\ \A i \in DOMAIN records : records[i].fence <= document.fence
                 /\ \A i, j \in DOMAIN records : i < j =>
                      /\ records[i].revision < records[j].revision
                      /\ records[i].fence <= records[j].fence
                 /\ document.checkpoint # NoCheckpoint =>
                      \A i \in DOMAIN records : records[i].revision > document.checkpoint.revision
    BY Zenon DEF TailInOrder
  <2> DEFINE records == document.records
             b == Base(document)
  <2>1. /\ b \in Nat /\ records \in Seq(Records)
        /\ document.checkpoint # NoCheckpoint => b = document.checkpoint.revision
    BY Zenon DEF StoreInv, Types, Base, Histories, Checkpoints
  <2>2. /\ \A i \in DOMAIN records : records[i].revision = b + i /\ records[i].fence <= document.fence
        /\ \A i, j \in DOMAIN records : i < j => records[i].fence <= records[j].fence
    BY Zenon DEF StoreInv, TailInv
  <2> HIDE DEF records, b
  <2>3. \A i \in DOMAIN records : i \in Nat /\ i > 0
    BY <2>1
  <2>4. \A i, j \in DOMAIN records : i < j => b + i < b + j
    BY <2>1, <2>3
  <2>5. \A i \in DOMAIN records : b + i > b
    BY <2>1, <2>3
  <2> QED
    BY <2>1, <2>2, <2>4, <2>5, Zenon DEF records
<1> QED
  BY <1>1, <1>2, <1>3, PTL DEF Spec

=============================================================================
