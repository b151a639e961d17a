--------------------------- MODULE UpdateAlgebra ----------------------------
(***************************************************************************)
(* Operations on encoded updates that need no document: merge, diff, state *)
(* vector, metadata, format conversion, obfuscation (crdt/updates.go) and  *)
(* snapshots as bytes (crdt/snapshot.go).                                  *)
(*                                                                         *)
(* The lazy reader decodes as the loop advances; its error is looked at    *)
(* before anything is returned, so here an update is decoded first.  The   *)
(* lazy writer cuts the rest stream into one part per client and puts the  *)
(* part's struct count in front of it when it knows it; as the columns of  *)
(* V2 are streams of their own, the outcome is the calls in final order.   *)
(***************************************************************************)
EXTENDS DeleteSets

\* structs and ds of an update, and whether it could be read.
decodeUpdate(version, update) ==
  LET s  == readStructs(newDecoder(version, update), TRUE)
      ds == readDeleteSet(s.d)
  IN  [structs |-> s.v, ds |-> ds.v, ok |-> NoError(ds.d),
       structsOk |-> NoError(s.d), rest |-> s.d.rest]

-----------------------------------------------------------------------------
(* The lazy writer.  unit > 0 makes it note the byte positions of structs,  *)
(* at least unit bytes apart, at which an update can be cut.                *)

newLazyStructWriter(unit) ==
  [client |-> 0, written |-> 0, calls |-> <<>>, positions |-> <<>>,
   parts |-> <<>>, unit |-> unit]

flushLazyStructWriter(w) ==
  IF w.written = 0 THEN w
  ELSE [w EXCEPT !.parts = Append(@, [client |-> w.client, calls |-> w.calls,
                                      written |-> w.written,
                                      positions |-> w.positions]),
                 !.written = 0, !.calls = <<>>, !.positions = <<>>]

Position(clock, startByte, structNo) ==
  [clock |-> clock, startByte |-> startByte, structNo |-> structNo]

writeStructToLazyStructWriter(w0, s, offset) ==
  LET w     == IF w0.client # Client(s) THEN flushLazyStructWriter(w0) ELSE w0
      begun == IF w.written > 0 THEN w.calls
               ELSE <<Call("client", Client(s))>>
                    \o Rest(WriteVarUint(Clock(s) + offset))
      calls == begun \o writeStruct(s, offset)
      here  == Position(Clock(s) + offset, Len(toBytesV1(begun)), w.written)
      note  == /\ w.unit > 0
               /\ \/ w.written = 0
                  \/ Len(toBytesV1(calls)) >= Last(w.positions).startByte + w.unit
  IN  [w EXCEPT !.client = Client(s), !.written = @ + 1, !.calls = calls,
                !.positions = IF note THEN Append(@, here) ELSE @]

finishLazyStructWriting(w0) ==
  LET w == flushLazyStructWriter(w0)
  IN  Rest(WriteVarUint(Len(w.parts)))
      \o Concat(Map(w.parts, LAMBDA p : Rest(WriteVarUint(p.written)) \o p.calls))

writeAll(unit, structs) ==
  Fold(LAMBDA w, s : writeStructToLazyStructWriter(w, s, 0),
       newLazyStructWriter(unit), structs)

-----------------------------------------------------------------------------
(* Merge *)

IsSkip(s) == s.kind = "skip"

\* The part of a struct from diff on.
sliceStruct(s, diff) ==
  LET id == <<Client(s), Clock(s) + diff>>
  IN  CASE s.kind = "gc" -> GC(id, s.length - diff)
        [] s.kind = "skip" -> Skip(id, s.length - diff)
        [] IsItem(s) ->
             Item(id, s.length - diff, <<Client(s), Clock(s) + diff - 1>>,
                  s.rightOrigin, s.parent, s.parentSub,
                  spliceContent(s.content, diff)[2], FALSE)

\* A reader is [rest |-> its structs from curr on, tie |-> insertion order].
Less(a, b) ==
  LET x == Head(a.rest)
      y == Head(b.rest)
  IN  IF Client(x) # Client(y) THEN Client(x) > Client(y)
      ELSE IF Clock(x) # Clock(y) THEN Clock(x) < Clock(y)
      ELSE IF IsSkip(x) # IsSkip(y) THEN ~IsSkip(x)
      ELSE a.tie < b.tie

\* Drops the structs from the front that satisfy p.
DropWhile(s, p(_)) ==
  LET stop == {i \in DOMAIN s : ~p(s[i])}
  IN  IF stop = {} THEN <<>> ELSE SubSeq(s, Min(stop), Len(s))

\* What one turn of the loop does to currWrite (write), to what it has written
\* (out) and to the popped reader's structs (rest): curr comes after write in
\* another client, after a gap, or adjacent to or overlapping it.
Place(t, curr) ==
  LET w    == t.write
      diff == End(w) - Clock(curr)
      w1   == IF diff > 0 /\ IsSkip(w) THEN [w EXCEPT !.length = @ - diff] ELSE w
      c1   == IF diff > 0 /\ ~IsSkip(w) THEN sliceStruct(curr, diff) ELSE curr
  IN  IF Client(curr) # Client(w)
      THEN [write |-> curr, out |-> Append(t.out, w), rest |-> Tail(t.rest)]
      ELSE IF diff < 0 /\ IsSkip(w)
      THEN [t EXCEPT !.write.length = End(curr) - Clock(w)]
      ELSE IF diff < 0
      THEN [t EXCEPT !.write = Skip(<<Client(w), End(w)>>, -diff),
                     !.out = Append(@, w)]
      ELSE IF w1.kind = c1.kind /\ ~IsItem(w1)
      THEN [t EXCEPT !.write = [w1 EXCEPT !.length = @ + c1.length]]
      ELSE [write |-> c1, out |-> Append(t.out, w1), rest |-> Tail(t.rest)]

\* The structs of the same reader that continue what was written.
RECURSIVE Continue(_, _)
Continue(t, client) ==
  IF /\ t.rest # <<>>
     /\ Client(Head(t.rest)) = client
     /\ Clock(Head(t.rest)) = End(t.write)
     /\ ~IsSkip(Head(t.rest))
  THEN Continue([write |-> Head(t.rest), out |-> Append(t.out, t.write),
                 rest |-> Tail(t.rest)], client)
  ELSE t

RECURSIVE mergeLoop(_, _, _, _)
mergeLoop(readers, nextTie, write, out) ==
  LET live    == {i \in DOMAIN readers : readers[i].rest # <<>>}
      i       == CHOOSE k \in live :
                   \A j \in live \ {k} : Less(readers[k], readers[j])
      all     == readers[i].rest
      first   == Client(Head(all))
      rest    == DropWhile(all, LAMBDA s : /\ End(s) <= End(write)
                                           /\ Client(s) >= Client(write))
      wait    == \/ rest = <<>>
                 \/ Client(Head(rest)) # first
                 \/ rest # all /\ Clock(Head(rest)) > End(write)
      t       == IF write = NoStruct
                 THEN [write |-> Head(all), out |-> out, rest |-> Tail(all)]
                 ELSE Place([write |-> write, out |-> out, rest |-> rest],
                            Head(rest))
      after   == IF write # NoStruct /\ wait
                 THEN [write |-> write, out |-> out, rest |-> rest]
                 ELSE Continue(t, first)
      requeue == [rest |-> after.rest, tie |-> nextTie]
  IN  IF live = {} THEN IF write = NoStruct THEN out ELSE Append(out, write)
      ELSE mergeLoop([readers EXCEPT ![i] = requeue],
                     IF after.rest = <<>> THEN nextTie ELSE nextTie - 1,
                     after.write, after.out)

mergeUpdates(version, updates) ==
  LET us      == Map(updates, LAMBDA u : decodeUpdate(version, u))
      readers == [i \in DOMAIN us |->
                    [rest |-> SelectSeq(us[i].structs, LAMBDA s : ~IsSkip(s)),
                     tie |-> i]]
      structs == mergeLoop(readers, -1, NoStruct, <<>>)
      ds      == mergeDeleteSets(Map(us, LAMBDA u : u.ds))
  IN  [ok |-> \A i \in DOMAIN us : us[i].ok,
       update |-> toBytes(version, finishLazyStructWriting(writeAll(0, structs))
                                   \o writeDeleteSet(ds))]

-----------------------------------------------------------------------------
(* State vector and metadata of an update *)

FaultCountStruct(acc, s) ==
  LET new == acc.client # Client(s) \/ acc.first
  IN  [client |-> Client(s), first |-> FALSE,
       stop |-> IF new THEN Clock(s) # 0 ELSE acc.stop,
       clock |-> End(s),
       out |-> IF new /\ acc.clock # 0 THEN Append(acc.out, <<acc.client, acc.clock>>)
               ELSE acc.out]

\* A client counts up to its first gap, and not at all if it starts after 0.
countStruct(acc, s) ==
  LET new  == acc.client # Client(s) \/ acc.first
      stop == (IF new THEN Clock(s) # 0 ELSE acc.stop) \/ IsSkip(s)
  IN  [client |-> Client(s), first |-> FALSE, stop |-> stop,
       clock |-> IF ~stop THEN End(s) ELSE IF new THEN 0 ELSE acc.clock,
       out |-> IF new /\ acc.clock # 0 THEN Append(acc.out, <<acc.client, acc.clock>>)
               ELSE acc.out]

encodeStateVectorFromUpdate(version, update) ==
  LET u    == decodeUpdate(version, update)
      acc  == Fold(countStruct, [client |-> 0, first |-> TRUE, stop |-> FALSE,
                                 clock |-> 0, out |-> <<>>], u.structs)
      out  == IF acc.clock # 0 THEN Append(acc.out, <<acc.client, acc.clock>>)
              ELSE acc.out
  IN  [ok |-> u.structsOk,
       sv |-> WriteVarUint(Len(out))
              \o Concat(Map(out, LAMBDA p : WriteVarUint(p[1])
                                            \o WriteVarUint(p[2])))]

decodeStateVector(bytes) ==
  LET r == readStateVector(newDecoder(1, bytes))
  IN  [ok |-> NoError(r.d), sv |-> r.v]

\* For every client the clock its run of structs starts at and its end.
parseUpdateMeta(version, update) ==
  LET u          == decodeUpdate(version, update)
      step(m, s) == [client |-> Client(s), to |-> (Client(s) :> End(s)) @@ m.to,
                     from |-> IF m.from # <<>> /\ m.client = Client(s) THEN m.from
                              ELSE (Client(s) :> Clock(s)) @@ m.from]
      m          == Fold(step, [client |-> 0, from |-> <<>>, to |-> <<>>], u.structs)
  IN  [ok |-> u.structsOk, from |-> m.from, to |-> m.to]

-----------------------------------------------------------------------------
(* Diff *)

diffOffset(state, s) == Max({state - Clock(s), 0})

\* Leading skips and structs below the state are dropped, the struct that
\* straddles it is written from its offset, the rest of the client in full.
RECURSIVE diffLoop(_, _, _)
diffLoop(w, structs, sv) ==
  LET s     == Head(structs)
      state == StateOf(sv, Client(s))
      tail  == DropWhile(structs, LAMBDA x : Client(x) = Client(s))
      mine  == SubSeq(structs, 2, Len(structs) - Len(tail))
      below == DropWhile(structs, LAMBDA x : Client(x) = Client(s) /\ End(x) <= state)
      first == writeStructToLazyStructWriter(w, s, diffOffset(state, s))
  IN  IF structs = <<>> THEN w
      ELSE IF IsSkip(s) THEN diffLoop(w, Tail(structs), sv)
      ELSE IF End(s) <= state THEN diffLoop(w, below, sv)
      ELSE diffLoop(Fold(LAMBDA x, y : writeStructToLazyStructWriter(x, y, 0),
                         first, mine), tail, sv)

\* An empty state vector stands for the one of an empty document.
targetState(svBytes) == decodeStateVector(IF svBytes = <<>> THEN <<0>> ELSE svBytes)

diffUpdate(version, update, svBytes) ==
  LET target == targetState(svBytes)
      u      == decodeUpdate(version, update)
      w      == diffLoop(newLazyStructWriter(0), u.structs, target.sv)
  IN  [ok |-> target.ok /\ u.ok,
       update |-> toBytes(version, finishLazyStructWriting(w)
                                   \o writeDeleteSet(u.ds))]

(* The same cut into updates of about maxSize bytes.  A part is extended    *)
(* one noted position at a time, all clients in step.                       *)

startByteAt(p, k) ==
  IF k > Len(p.positions) THEN Len(toBytesV1(p.calls))
  ELSE p.positions[k].startByte

\* start and end: for every part the positions, counted from 0, the next
\* update begins and stops at.
RECURSIVE extendParts(_, _, _, _)
extendParts(parts, start, end, maxSize) ==
  LET to   == [i \in DOMAIN parts |->
                 IF end[i] < Len(parts[i].positions) THEN end[i] + 1 ELSE end[i]]
      size == SumSeq([i \in DOMAIN parts |->
                        IF start[i] < Len(parts[i].positions)
                        THEN startByteAt(parts[i], to[i] + 1)
                             - startByteAt(parts[i], start[i] + 1)
                        ELSE 0])
  IN  IF to = end \/ size >= maxSize THEN to
      ELSE extendParts(parts, start, to, maxSize)

structCount(p, from, to) ==
  (IF to >= Len(p.positions) THEN p.written ELSE p.positions[to + 1].structNo)
  - p.positions[from + 1].structNo

generateUpdate(parts, start, end) ==
  LET used    == SelectSeq([i \in DOMAIN parts |-> i], LAMBDA i : end[i] > start[i])
      part(i) == LET p == parts[i] IN
                 WriteVarUint(structCount(p, start[i], end[i]))
                 \o WriteVarUint(p.client)
                 \o WriteVarUint(p.positions[start[i] + 1].clock)
                 \o SubSeq(toBytesV1(p.calls), startByteAt(p, start[i] + 1) + 1,
                           startByteAt(p, end[i] + 1))
  IN  WriteVarUint(Len(used)) \o Concat(Map(used, part))

RECURSIVE generateUpdates(_, _, _)
generateUpdates(parts, start, maxSize) ==
  LET end == extendParts(parts, start, start, maxSize)
  IN  IF \A i \in DOMAIN parts : start[i] >= Len(parts[i].positions) THEN <<>>
      ELSE <<generateUpdate(parts, start, end)>>
           \o generateUpdates(parts, end, maxSize)

\* V1 only.  The delete set goes with the first update, whatever it holds; it
\* is dropped when there is nothing to send.
diffUpdates(update, svBytes, maxSize, unit) ==
  LET target == targetState(svBytes)
      u      == decodeUpdate(1, update)
      w      == flushLazyStructWriter(
                  diffLoop(newLazyStructWriter(unit), u.structs, target.sv))
      us     == generateUpdates(w.parts, [i \in DOMAIN w.parts |-> 0], maxSize)
      ds     == SubSeq(u.rest.b, u.rest.i, Len(u.rest.b))
  IN  IF Len(update) <= maxSize THEN [ok |-> TRUE, updates |-> <<update>>]
      ELSE [ok |-> target.ok /\ u.structsOk,
            updates |-> [i \in DOMAIN us |-> us[i] \o (IF i = 1 THEN ds ELSE <<0>>)]]

-----------------------------------------------------------------------------
(* Conversion between the formats, with a transformation of every struct *)

\* u is the decoded update, structs its structs transformed.
convertUpdateFormatTransform(to, u, structs) ==
  [ok |-> u.ok,
   update |-> toBytes(to, finishLazyStructWriting(writeAll(0, structs))
                          \o writeDeleteSet(u.ds))]

ConvertUpdateFormat(from, to, update) ==
  LET u == decodeUpdate(from, update) IN convertUpdateFormatTransform(to, u, u.structs)

\* The decimal digits of i, as fmt.Sprint writes them.
RECURSIVE digits(_)
digits(i) == IF i < 10 THEN <<48 + i>> ELSE Append(digits(i \div 10), 48 + (i % 10))

\* k's replacement in a cache, made the first time k is seen.
Cached(cache, k, made) == IF k \in DOMAIN cache THEN cache ELSE cache @@ (k :> made)

obfuscateContent(c, o) ==
  CASE c[1] = 1 -> c
    [] c[1] \in {2, 8} -> <<c[1], Map(c[2], LAMBDA v : <<125, o.i>>)>>
    [] c[1] = 3 -> <<3, <<o.i % 256>>>>
    [] c[1] = 4 -> <<4, [k \in 1 .. stringLength(c[2]) |-> 48 + (o.i % 10)]>>
    [] c[1] = 5 -> <<5, <<118, <<>>>>>>
    [] c[1] = 6 -> <<6, o.formatKeys[c[2]], o.formatValues[c[3]]>>
    [] c[1] = 7 -> IF c[2] \in {3, 5} THEN <<7, c[2], o.nodeNames[c[3]]>> ELSE c
    [] c[1] = 9 -> <<9, digits(o.i), <<118, <<>>>>>>

\* The caches after the content and the map key of item s were looked up.
lookUp(o, s) ==
  LET c    == s.content
      node == IF c[1] = 7 /\ c[2] = 3 THEN <<110, 111, 100, 101, 45>>
              ELSE <<104, 111, 111, 107, 45>>
      n    == digits(o.i)
      o1   == IF c[1] # 6 THEN o
              ELSE [o EXCEPT !.formatKeys = Cached(@, c[2], n),
                             !.formatValues =
                               Cached(@, c[3], <<118, << <<<<105>>, <<125, o.i>>>> >>>>)]
      o2   == IF c[1] = 7 /\ c[2] \in {3, 5}
              THEN [o1 EXCEPT !.nodeNames = Cached(@, c[3], node \o n)] ELSE o1
  IN  IF s.parentSub = None THEN o2
      ELSE [o2 EXCEPT !.mapKeys = Cached(@, s.parentSub, n)]

\* newObfuscator: keys and names keep their identity, contents their lengths.
newObfuscator(structs) ==
  LET nulls == (<<126>> :> <<126>>)
      init  == [i |-> 0, mapKeys |-> <<>>, nodeNames |-> <<>>, formatKeys |-> <<>>,
                formatValues |-> nulls, out |-> <<>>]
      step(o0, s) ==
        LET o == lookUp(o0, s)
            t == [s EXCEPT !.content = obfuscateContent(@, o),
                           !.parentSub = IF @ = None THEN @ ELSE o.mapKeys[@]]
        IN  IF ~IsItem(s) THEN [o0 EXCEPT !.out = Append(@, s)]
            ELSE [o EXCEPT !.out = Append(@, t), !.i = @ + 1]
  IN  Fold(step, init, structs).out

obfuscateUpdate(version, update) ==
  LET u == decodeUpdate(version, update)
  IN  convertUpdateFormatTransform(version, u, newObfuscator(u.structs))

-----------------------------------------------------------------------------
(* Snapshots: [ds |-> delete set, sv |-> state vector] *)

encodeSnapshot(version, snap) ==
  LET calls == writeDeleteSet(snap.ds) \o writeStateVector(snap.sv)
  IN  IF version = 1 THEN toBytesV1(calls)
      ELSE writeCallsV2(newUpdateEncoderV2, calls).rest

decodeSnapshot(version, bytes) ==
  LET d  == [version |-> version, rest |-> Reader(bytes), dsCurrVal |-> 0]
      ds == readDeleteSet(d)
      sv == readStateVector(ds.d)
  IN  [ok |-> sv.d.rest.ok, snap |-> [ds |-> ds.v, sv |-> sv.v]]

\* Every struct lies below the snapshot's state and no deletion is new to it.
snapshotContainsUpdate(snap, u) ==
  /\ \A s \in ToSet(u.structs) : StateOf(snap.sv, Client(s)) >= End(s)
  /\ equalDeleteSets(snap.ds, mergeDeleteSets(<<snap.ds, u.ds>>))
=============================================================================
