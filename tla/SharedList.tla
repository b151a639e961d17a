----------------------------- MODULE SharedList -----------------------------
(***************************************************************************)
(* What a shared list promises its users, with nothing of how it is done:  *)
(* there is one order of all elements ever inserted, into which new ones   *)
(* are put and in which no two are ever swapped.  A replica knows some of  *)
(* the elements and knows some to be dead; it shows those it knows alive,  *)
(* in that order.                                                          *)
(*                                                                         *)
(*   order     the elements ever inserted                                  *)
(*   gone      the elements ever deleted                                   *)
(*   known[r]  the elements replica r has                                  *)
(*   dead[r]   the elements replica r knows to be deleted                  *)
(*   shown[r]  what the user of r sees                                     *)
(*   undoers   the replicas whose user may take back what they did         *)
(***************************************************************************)
EXTENDS Integers, SequencesExt

CONSTANT Replicas

VARIABLES order, gone, known, dead, shown, undoers

absVars == <<order, gone, known, dead, shown, undoers>>

Only(s, set) == SelectSeq(s, LAMBDA x : x \in set)

View == [r \in Replicas |-> Only(order, known[r] \ dead[r])]

Init ==
  /\ gone = {}
  /\ known = [r \in Replicas |-> ToSet(order)]
  /\ dead = [r \in Replicas |-> {}]
  /\ shown = View

New == ToSet(order') \ ToSet(order)

\* Elements come into the order by replica r; the others keep their order.
Grows(r) ==
  /\ Only(order', ToSet(order)) = order
  /\ known' = [known EXCEPT ![r] = @ \cup New]

\* The user of r sees the new elements in one place, all else as before.
Insert(r) ==
  /\ New # {}
  /\ Grows(r)
  /\ UNCHANGED <<gone, dead>>
  /\ \E i \in 0 .. Len(shown[r]) :
       shown'[r] = SubSeq(shown[r], 1, i) \o Only(order', New)
                   \o SubSeq(shown[r], i + 1, Len(shown[r]))

Kills(r, xs) ==
  /\ dead' = [dead EXCEPT ![r] = @ \cup xs]
  /\ gone' = gone \cup xs

\* The user of r removes some neighbours.
Delete(r) ==
  /\ UNCHANGED <<order, known>>
  /\ \E i, j \in 1 .. Len(shown[r]) :
       i <= j /\ Kills(r, {shown[r][k] : k \in i .. j})

\* r takes back own elements, and puts deleted ones back in as new ones.
Restore(r) ==
  /\ r \in undoers
  /\ Grows(r)
  /\ Kills(r, dead'[r] \ dead[r])
  /\ \A x \in dead'[r] \ dead[r] : x[1] = r

\* r hears of elements and of deletions.
Learn(r) ==
  /\ UNCHANGED <<order, gone>>
  /\ known' = [known EXCEPT ![r] = @ \cup known'[r]]
  /\ known'[r] \subseteq ToSet(order)
  /\ dead' = [dead EXCEPT ![r] = @ \cup dead'[r]]
  /\ dead'[r] \subseteq gone

\* r loses its copy; what others were sent is still there.
Forget(r) ==
  /\ UNCHANGED <<order, gone>>
  /\ known' = [known EXCEPT ![r] = {}]
  /\ dead' = [dead EXCEPT ![r] = {}]

Next ==
  /\ UNCHANGED undoers
  /\ \E r \in Replicas :
       Insert(r) \/ Delete(r) \/ Restore(r) \/ Learn(r) \/ Forget(r)
  /\ shown' = View'

Spec == Init /\ [][Next]_absVars
=============================================================================
