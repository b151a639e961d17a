----------------------------- MODULE DeleteSets -----------------------------
(***************************************************************************)
(* Delete sets and state vectors: crdt/delete_set.go and the state vector  *)
(* codec of merge.go.                                                      *)
(*                                                                         *)
(* A delete set is a sequence of <<client, ranges>> in the order of        *)
(* clientOrder, ranges a sequence of <<clock, length>>.  A state vector is *)
(* a function from client ids to clocks.                                   *)
(***************************************************************************)
EXTENDS Structs, FiniteSets, FiniteSetsExt, TLC

\* Clients from the highest to the lowest, the order of every writer.
Descending(S) == SetToSortSeq(S, LAMBDA x, y : x > y)

DSClients(ds) == {ds[i][1] : i \in DOMAIN ds}

RangesOf(ds, c) ==
  LET at == {i \in DOMAIN ds : ds[i][1] = c}
  IN  IF at = {} THEN <<>> ELSE ds[CHOOSE i \in at : TRUE][2]

\* What a delete set says: the ids it covers.
DSIds(ds) ==
  UNION {{<<b[1], k>> : k \in UNION {r[1] .. r[1] + r[2] - 1 : r \in ToSet(b[2])}}
         : b \in ToSet(ds)}

-----------------------------------------------------------------------------
(* Algebra *)

addToDeleteSet(ds, client, clock, length) ==
  IF client \in DSClients(ds)
  THEN Map(ds, LAMBDA b : IF b[1] = client
                          THEN <<client, Append(b[2], <<clock, length>>)>>
                          ELSE b)
  ELSE Append(ds, <<client, << <<clock, length>> >>>>)

\* The range that covers two overlapping or adjacent ones: the second may end
\* inside the first.
mergeRange(left, right) ==
  <<left[1], Max({left[2], right[1] + right[2] - left[1]})>>

touches(left, right) == left[1] + left[2] >= right[1]

sortAndMergeRanges(ranges) ==
  LET sorted == SortSeq(ranges, LAMBDA a, b : a[1] < b[1])
      step(rs, r) == IF rs # <<>> /\ touches(Last(rs), r)
                     THEN Append(Front(rs), mergeRange(Last(rs), r))
                     ELSE Append(rs, r)
  IN  Fold(step, <<>>, sorted)

sortAndMergeDeleteSet(ds) == Map(ds, LAMBDA b : <<b[1], sortAndMergeRanges(b[2])>>)

mergeDeleteSets(dss) ==
  LET add(ds, b) == IF b[1] \in DSClients(ds)
                    THEN Map(ds, LAMBDA x : IF x[1] = b[1]
                                            THEN <<x[1], x[2] \o b[2]>> ELSE x)
                    ELSE Append(ds, b)
  IN  sortAndMergeDeleteSet(Fold(add, <<>>, Concat(dss)))

\* findIndexDS: binary search for the range that holds a clock; 0 if none.
RECURSIVE findIndexBetween(_, _, _, _)
findIndexBetween(ranges, clock, left, right) ==
  LET mid == (left + right) \div 2
      r   == ranges[mid]
  IN  IF left > right THEN 0
      ELSE IF r[1] > clock THEN findIndexBetween(ranges, clock, left, mid - 1)
      ELSE IF clock < r[1] + r[2] THEN mid
      ELSE findIndexBetween(ranges, clock, mid + 1, right)

findIndexDS(ranges, clock) == findIndexBetween(ranges, clock, 1, Len(ranges))

isDeleted(ds, id) == findIndexDS(RangesOf(ds, id[1]), id[2]) # 0

\* Clients and ranges, whatever the order of the clients.
equalDeleteSets(ds1, ds2) == ToSet(ds1) = ToSet(ds2)

\* Maximal runs of deleted structs of one client's list.
deletedRanges(structs) ==
  LET step(acc, s) ==
        IF ~isDeletedStruct(s) THEN [acc EXCEPT !.open = FALSE]
        ELSE IF acc.open
        THEN [acc EXCEPT !.rs = Append(Front(@), <<Last(@)[1],
                                                   Last(@)[2] + s.length>>)]
        ELSE [rs |-> Append(acc.rs, <<Clock(s), s.length>>), open |-> TRUE]
  IN  Fold(step, [rs |-> <<>>, open |-> FALSE], structs).rs

\* store: client -> sequence of its structs.  order: clients by first insertion.
newDeleteSetFromStructStore(store, order) ==
  SelectSeq(Map(order, LAMBDA c : <<c, deletedRanges(store[c])>>),
            LAMBDA b : b[2] # <<>>)

-----------------------------------------------------------------------------
(* Codec *)

writeRanges(b) ==
  <<Call("resetDS", 0)>> \o Rest(WriteVarUint(b[1]) \o WriteVarUint(Len(b[2])))
  \o Concat(Map(b[2], LAMBDA r : <<Call("dsClock", r[1]),
                                   Call("dsLength", r[2])>>))

writeDeleteSet(ds) ==
  Rest(WriteVarUint(Len(ds)))
  \o Concat(Map(Descending(DSClients(ds)),
                LAMBDA c : writeRanges(<<c, RangesOf(ds, c)>>)))

writeDeleteSetFromStructStore(store) ==
  LET deleted == {c \in DOMAIN store : deletedRanges(store[c]) # <<>>}
  IN  Rest(WriteVarUint(Cardinality(deleted)))
      \o Concat(Map(Descending(deleted),
                    LAMBDA c : writeRanges(<<c, deletedRanges(store[c])>>)))

readRange(d) ==
  LET clock  == readDSClock(d)
      length == readDSLength(clock.d)
  IN  [v |-> <<clock.v, length.v>>, d |-> length.d]

readDeleteSetBlock(d) ==
  LET client == readRest(resetDS(d))
      count  == readRest(client.d)
      ranges == ReadMany(count.d, count.v, readRange)
  IN  [v |-> <<client.v, ranges.v>>, d |-> ranges.d]

readDeleteSet(d) ==
  LET n == readRest(d) IN ReadMany(n.d, n.v, readDeleteSetBlock)

writeStateVector(sv) ==
  Rest(WriteVarUint(Cardinality(DOMAIN sv))
       \o Concat(Map(Descending(DOMAIN sv),
                     LAMBDA c : WriteVarUint(c) \o WriteVarUint(sv[c]))))

readStateVector(d) ==
  LET n       == readRest(d)
      pair(e) == LET c == readRest(e)
                     k == readRest(c.d)
                 IN  [v |-> <<c.v, k.v>>, d |-> k.d]
      ps      == ReadMany(n.d, n.v, pair)
  IN  [v |-> [c \in {p[1] : p \in ToSet(ps.v)} |->
                (CHOOSE p \in ToSet(ps.v) : p[1] = c)[2]],
       d |-> ps.d]

StateOf(sv, c) == IF c \in DOMAIN sv THEN sv[c] ELSE 0
=============================================================================
