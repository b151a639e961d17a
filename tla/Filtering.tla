------------------------------ MODULE Filtering ------------------------------
(***************************************************************************)
(* The loop that appends to a fresh slice what it keeps of another one.    *)
(***************************************************************************)
EXTENDS Integers, Sequences

\* The elements of s at the indices in I, in their order.
Keep(s, I) ==
  LET kept[i \in 0 .. Len(s)] ==
        IF i = 0 THEN <<>>
        ELSE IF i \in I THEN Append(kept[i - 1], s[i]) ELSE kept[i - 1]
  IN  kept[Len(s)]

=============================================================================
