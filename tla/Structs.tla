------------------------------ MODULE Structs -------------------------------
(***************************************************************************)
(* Structs and their contents: runs of clocks as the document stores them  *)
(* and as updates carry them (crdt/item.go, gc.go, skip.go,                *)
(* content_types.go, struct_decode.go).                                    *)
(*                                                                         *)
(* A content is a tuple whose first member is its reference number:        *)
(*   <<1, n>> deleted     <<2, vs>> JSON        <<3, bytes>> binary        *)
(*   <<4, s>> string      <<5, v>> embed        <<6, key, v>> format       *)
(*   <<7, t, name>> type  <<8, vs>> any         <<9, guid, opts>> document *)
(* A struct is an item, a GC or a Skip; an id is <<client, clock>>.        *)
(***************************************************************************)
EXTENDS UpdateCoders

None == <<>>   \* no origin, no parent, no parentSub

Item(id, length, origin, rightOrigin, parent, parentSub, content, deleted) ==
  [kind |-> "item", id |-> id, length |-> length, origin |-> origin,
   rightOrigin |-> rightOrigin, parent |-> parent, parentSub |-> parentSub,
   content |-> content, deleted |-> deleted, keep |-> FALSE, redone |-> None]

GC(id, length) == [kind |-> "gc", id |-> id, length |-> length]
Skip(id, length) == [kind |-> "skip", id |-> id, length |-> length]
NoStruct == [kind |-> "none"]

Client(s) == s.id[1]
Clock(s) == s.id[2]
End(s) == s.id[2] + s.length
lastID(s) == <<Client(s), End(s) - 1>>
IsItem(s) == s.kind = "item"

\* isDeleted: GC and Skip always are.
isDeletedStruct(s) == IF IsItem(s) THEN s.deleted ELSE TRUE

-----------------------------------------------------------------------------
(* Contents *)

contentLength(c) ==
  CASE c[1] = 1 -> c[2]
    [] c[1] \in {2, 8} -> Len(c[2])
    [] c[1] = 4 -> stringLength(c[2])
    [] OTHER -> 1

isCountable(c) == c[1] \notin {1, 6}

\* Only these can be longer than 1, and so be split or written from an offset.
spliceContent(c, offset) ==
  CASE c[1] = 1 -> << <<1, offset>>, <<1, c[2] - offset>> >>
    [] c[1] \in {2, 8} -> << <<c[1], SubSeq(c[2], 1, offset)>>,
                             <<c[1], SubSeq(c[2], offset + 1, Len(c[2]))>> >>
    [] c[1] = 4 -> << <<4, stringHeader(c[2], offset)>>,
                      <<4, stringTail(c[2], offset)>> >>

\* Contents of these kinds merge with a right neighbour of the same kind.
mergesContent(c, d) == c[1] = d[1] /\ c[1] \in {1, 2, 4, 8}

mergeContentWith(c, d) ==
  IF c[1] = 1 THEN <<1, c[2] + d[2]>> ELSE <<c[1], c[2] \o d[2]>>

keywordUndefined == <<117, 110, 100, 101, 102, 105, 110, 101, 100>>

\* A JSON value in text form, as string value of the encoder: its code is a
\* byte sequence, read back as a string of such runes.
jsonText(v) == IF v = <<127>> THEN keywordUndefined ELSE marshalJSONOrdered(v)

writeStringContent(s, offset) ==
  <<Call("string", IF offset = 0 THEN s ELSE stringTail(s, offset))>>

writeContent(c, offset) ==
  CASE c[1] = 1 -> <<Call("len", c[2] - offset)>>
    [] c[1] = 2 -> <<Call("len", Len(c[2]) - offset)>> \o
                   Map(SubSeq(c[2], offset + 1, Len(c[2])),
                       LAMBDA v : Call("string", jsonText(v)))
    [] c[1] = 3 -> <<Call("buffer", c[2])>>
    [] c[1] = 4 -> writeStringContent(c[2], offset)
    [] c[1] = 5 -> <<Call("json", c[2])>>
    [] c[1] = 6 -> <<Call("key", c[2]), Call("json", c[3])>>
    [] c[1] = 7 -> <<Call("typeRef", c[2])>> \o
                   (IF c[2] \in {3, 5} THEN <<Call("key", c[3])>> ELSE <<>>)
    [] c[1] = 8 -> <<Call("len", Len(c[2]) - offset)>> \o
                   Map(SubSeq(c[2], offset + 1, Len(c[2])),
                       LAMBDA v : Call("any", v))
    [] c[1] = 9 -> <<Call("string", c[2]), Call("any", c[3])>>

readJSONText(d) ==
  LET s == readStringValue(d)
      r == unmarshalJSONOrdered(s.v)
  IN  IF s.v = keywordUndefined THEN [v |-> <<127>>, d |-> s.d]
      ELSE [v |-> r.v, d |-> [s.d EXCEPT !.rest.ok = @ /\ r.d.ok]]

Content(ref, r) == [v |-> <<ref, r.v>>, d |-> r.d]

\* The element names of XML elements and hooks are the only names on the wire.
readContentType(d) ==
  LET t    == readTypeRef(d)
      name == readKey(t.d)
  IN  IF t.v \in {3, 5} THEN [v |-> <<7, t.v, name.v>>, d |-> name.d]
      ELSE [v |-> <<7, t.v, <<>>>>, d |-> t.d]

readContent(d, ref) ==
  LET n == readLength(d)
      k == readKey(d)
      g == readStringValue(d)
      w == readJSONValue(k.d)
      o == readAnyValue(g.d)
  IN  CASE ref = 1 -> Content(1, n)
        [] ref = 2 -> Content(2, ReadMany(n.d, n.v, readJSONText))
        [] ref = 3 -> Content(3, readBuffer(d))
        [] ref = 4 -> Content(4, g)
        [] ref = 5 -> Content(5, readJSONValue(d))
        [] ref = 6 -> [v |-> <<6, k.v, w.v>>, d |-> w.d]
        [] ref = 7 -> readContentType(d)
        [] ref = 8 -> Content(8, ReadMany(n.d, n.v, readAnyValue))
        [] ref = 9 -> [v |-> <<9, g.v, o.v>>,
                       d |-> [o.d EXCEPT !.rest.ok = @ /\ o.v[1] = 118]]
        [] OTHER -> [v |-> <<1, 0>>, d |-> [d EXCEPT !.rest.ok = FALSE]]

-----------------------------------------------------------------------------
(* Writing a struct, from an offset inside it *)

Info(s, origin) ==
  s.content[1] + (IF origin # None THEN 128 ELSE 0)
  + (IF s.rightOrigin # None THEN 64 ELSE 0)
  + (IF s.parentSub # None THEN 32 ELSE 0)

\* A parent is <<"root", name>> or <<"item", id>>.
writeParent(s) ==
  <<Call("parentInfo", s.parent[1] = "root"),
    IF s.parent[1] = "root" THEN Call("string", s.parent[2])
    ELSE Call("leftID", s.parent[2])>>
  \o (IF s.parentSub # None THEN <<Call("string", s.parentSub)>> ELSE <<>>)

\* From an offset the origin is the clock just before it.
writeItem(s, offset) ==
  LET origin == IF offset > 0 THEN <<Client(s), Clock(s) + offset - 1>>
                ELSE s.origin
  IN  <<Call("info", Info(s, origin))>>
      \o (IF origin # None THEN <<Call("leftID", origin)>> ELSE <<>>)
      \o (IF s.rightOrigin # None THEN <<Call("rightID", s.rightOrigin)>>
          ELSE <<>>)
      \o (IF origin = None /\ s.rightOrigin = None THEN writeParent(s)
          ELSE <<>>)
      \o writeContent(s.content, offset)

writeStruct(s, offset) ==
  CASE IsItem(s) -> writeItem(s, offset)
    [] s.kind = "gc" -> <<Call("info", 0), Call("len", s.length - offset)>>
    [] s.kind = "skip" ->
         <<Call("info", 10)>> \o Rest(WriteVarUint(s.length - offset))

-----------------------------------------------------------------------------
(* Reading structs.  A decoded item has no parent and no parentSub when it  *)
(* has an origin to copy them from; it is not yet deleted.                  *)

Bit(info, b) == (info \div b) % 2 = 1

decodeParent(d, info) ==
  LET isKey == readParentInfo(d)
      name  == readStringValue(isKey.d)
      id    == readLeftID(isKey.d)
      p     == IF isKey.v THEN [v |-> <<"root", name.v>>, d |-> name.d]
               ELSE [v |-> <<"item", id.v>>, d |-> id.d]
      sub   == readStringValue(p.d)
  IN  IF Bit(info, 32) THEN [v |-> <<p.v, sub.v>>, d |-> sub.d]
      ELSE [v |-> <<p.v, None>>, d |-> p.d]

decodeItem(d, info, id) ==
  LET o == IF Bit(info, 128) THEN readLeftID(d) ELSE [v |-> None, d |-> d]
      r == IF Bit(info, 64) THEN readRightID(o.d) ELSE [v |-> None, d |-> o.d]
      p == IF Bit(info, 128) \/ Bit(info, 64)
           THEN [v |-> <<None, None>>, d |-> r.d] ELSE decodeParent(r.d, info)
      c == readContent(p.d, info % 32)
  IN  [v |-> Item(id, contentLength(c.v), o.v, r.v, p.v[1], p.v[2], c.v, FALSE),
       d |-> c.d]

decode(d, id) ==
  LET info == readInfo(d)
      n    == readLength(info.d)
      m    == readRest(info.d)
  IN  CASE info.v % 32 = 0 -> [v |-> GC(id, n.v), d |-> n.d]
        [] info.v % 32 = 10 -> [v |-> Skip(id, m.v), d |-> m.d]
        [] OTHER -> decodeItem(info.d, info.v, id)

\* One client block: a count, the client, its first clock and the structs.
\* A GC of length 0 is dropped.
NextBlock(d) ==
  LET count  == readRest(d)
      client == readClient(count.d)
      clock  == readRest(client.d)
      step(r, i) ==
        LET s == decode(r.d, <<client.v, r.clock>>)
        IN  [v |-> IF s.v.kind = "gc" /\ s.v.length = 0 THEN r.v
                   ELSE Append(r.v, s.v),
             d |-> s.d, clock |-> r.clock + s.v.length]
  IN  Fold(step, [v |-> <<>>, d |-> clock.d, clock |-> clock.v],
           [i \in 1 .. count.v |-> i])

\* The structs of an update in the order they are read.  The lazy reader of
\* the update utilities takes a missing header for an update without structs.
readStructs(d, lenient) ==
  LET blocks     == readRest(d)
      step(r, i) == LET b == NextBlock(r.d) IN [v |-> r.v \o b.v, d |-> b.d]
  IN  IF lenient /\ d.rest.ok /\ ~blocks.d.rest.ok
      THEN [v |-> <<>>, d |-> [blocks.d EXCEPT !.rest.ok = TRUE]]
      ELSE Fold(step, [v |-> <<>>, d |-> blocks.d],
                [i \in 1 .. blocks.v |-> i])
=============================================================================
