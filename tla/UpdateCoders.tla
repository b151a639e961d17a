---------------------------- MODULE UpdateCoders ----------------------------
(***************************************************************************)
(* The two update formats: the encoders of crdt/update_encoder.go and the  *)
(* decoders of crdt/update_decoder.go.                                     *)
(*                                                                         *)
(* What writes an update does so through the updateEncoder interface.  A   *)
(* call of a method is a tuple <<method, argument>>; the writers of the    *)
(* other modules return sequences of calls, and an encoder turns calls     *)
(* into bytes.  The V1 encoder appends each to one buffer, the V2 encoder  *)
(* spreads them over nine columns and a rest.                              *)
(***************************************************************************)
EXTENDS Columns

Call(method, argument) == <<method, argument>>
Rest(bytes) == <<Call("rest", bytes)>>

-----------------------------------------------------------------------------
(* V1 *)

writeV1(call) ==
  LET x == call[2] IN
  CASE call[1] \in {"client", "typeRef", "len", "dsClock", "dsLength"} ->
         WriteVarUint(x)
    [] call[1] \in {"leftID", "rightID"} ->
         WriteVarUint(x[1]) \o WriteVarUint(x[2])
    [] call[1] = "info" -> <<x>>
    [] call[1] = "parentInfo" -> WriteVarUint(IF x THEN 1 ELSE 0)
    [] call[1] \in {"string", "key"} -> WriteString(x)
    [] call[1] = "any" -> writeAny(x)
    [] call[1] = "buffer" -> WriteVarUint8Array(x)
    [] call[1] = "json" -> WriteVarUint8Array(marshalJSONOrdered(x))
    [] call[1] = "resetDS" -> <<>>
    [] call[1] = "rest" -> x

toBytesV1(calls) == Concat(Map(calls, writeV1))

-----------------------------------------------------------------------------
(* V2.  keyMap is looked up but never filled, so every key is written anew. *)

newUpdateEncoderV2 ==
  [keyClock |-> NewColumn, client |-> NewColumn, leftClock |-> NewColumn,
   rightClock |-> NewColumn, info |-> NewColumn, string |-> NewColumn,
   parentInfo |-> NewColumn, typeRef |-> NewColumn, len |-> NewColumn,
   rest |-> <<>>, dsCurrVal |-> 0, nextKey |-> 0]

writeRightID(e, x) ==
  [e EXCEPT !.client = uintWriteValue(@, x[1]),
            !.rightClock = diffWriteValue(@, x[2])]

writeDSLength(e, x) ==
  [e EXCEPT !.rest = @ \o WriteVarUint(x - 1), !.dsCurrVal = @ + x]

writeV2(e, call) ==
  LET x == call[2] IN
  CASE call[1] = "client" -> [e EXCEPT !.client = uintWriteValue(@, x)]
    [] call[1] = "leftID" ->
         [e EXCEPT !.client = uintWriteValue(@, x[1]),
                   !.leftClock = diffWriteValue(@, x[2])]
    [] call[1] = "rightID" -> writeRightID(e, x)
    [] call[1] = "info" -> [e EXCEPT !.info = rleWriteValue(@, x)]
    [] call[1] = "parentInfo" ->
         [e EXCEPT !.parentInfo = rleWriteValue(@, IF x THEN 1 ELSE 0)]
    [] call[1] = "typeRef" -> [e EXCEPT !.typeRef = uintWriteValue(@, x)]
    [] call[1] = "len" -> [e EXCEPT !.len = uintWriteValue(@, x)]
    [] call[1] = "string" -> [e EXCEPT !.string = stringWriteValue(@, x)]
    [] call[1] = "key" ->
         [e EXCEPT !.keyClock = diffWriteValue(@, e.nextKey),
                   !.nextKey = @ + 1, !.string = stringWriteValue(@, x)]
    [] call[1] \in {"any", "json"} -> [e EXCEPT !.rest = @ \o writeAny(x)]
    [] call[1] = "buffer" -> [e EXCEPT !.rest = @ \o WriteVarUint8Array(x)]
    [] call[1] = "resetDS" -> [e EXCEPT !.dsCurrVal = 0]
    [] call[1] = "dsClock" ->
         [e EXCEPT !.rest = @ \o WriteVarUint(x - e.dsCurrVal),
                   !.dsCurrVal = x]
    [] call[1] = "dsLength" -> writeDSLength(e, x)
    [] call[1] = "rest" -> [e EXCEPT !.rest = @ \o x]

writeCallsV2(e, calls) == Fold(writeV2, e, calls)

\* A feature flag, the columns with their lengths, and the rest.
bytesOfV2(e) ==
  LET column(bytes) == WriteVarUint8Array(bytes)
  IN  <<0>> \o column(diffBytes(e.keyClock)) \o column(uintBytes(e.client))
      \o column(diffBytes(e.leftClock)) \o column(diffBytes(e.rightClock))
      \o column(rleBytes(e.info)) \o column(stringBytes(e.string))
      \o column(rleBytes(e.parentInfo)) \o column(uintBytes(e.typeRef))
      \o column(uintBytes(e.len)) \o e.rest

toBytesV2(calls) == bytesOfV2(writeCallsV2(newUpdateEncoderV2, calls))

toBytes(version, calls) ==
  IF version = 1 THEN toBytesV1(calls) ELSE toBytesV2(calls)

-----------------------------------------------------------------------------
(* Decoders.  Both have the V2 decoder's shape; V1 reads from rest alone.   *)

ColumnNames == {"keyClock", "client", "leftClock", "rightClock", "info",
                "string", "parentInfo", "typeRef", "len"}

newUpdateDecoderV1(bytes) ==
  [version |-> 1, rest |-> Reader(bytes), dsCurrVal |-> 0, keys |-> <<>>]

newUpdateDecoderV2(bytes) ==
  LET flag == ReadVarUint(Reader(bytes))
      cols == ReadMany(flag.d, 9, ReadVarUint8Array)
  IN  [version |-> 2,
       keyClock |-> ColumnReader(cols.v[1]), client |-> ColumnReader(cols.v[2]),
       leftClock |-> ColumnReader(cols.v[3]),
       rightClock |-> ColumnReader(cols.v[4]), info |-> ColumnReader(cols.v[5]),
       string |-> StringReader(cols.v[6]),
       parentInfo |-> ColumnReader(cols.v[7]),
       typeRef |-> ColumnReader(cols.v[8]), len |-> ColumnReader(cols.v[9]),
       rest |-> cols.d, dsCurrVal |-> 0, keys |-> <<>>]

newDecoder(version, bytes) ==
  IF version = 1 THEN newUpdateDecoderV1(bytes) ELSE newUpdateDecoderV2(bytes)

\* No read of the decoder has failed.
NoError(d) ==
  /\ d.rest.ok
  /\ d.version = 2 => \A c \in ColumnNames : d[c].ok

\* r was read from one stream of the decoder d.
From(d, stream, r) == [v |-> r.v, d |-> [d EXCEPT ![stream] = r.d]]

\* r1 is read from rest in V1, r2 from a column in V2.
Either(d, r1, stream, r2) ==
  IF d.version = 1 THEN From(d, "rest", r1) ELSE From(d, stream, r2)

readRest(d) == From(d, "rest", ReadVarUint(d.rest))
readClient(d) == Either(d, ReadVarUint(d.rest), "client", uintReadValue(d.client))
readInfo(d) == Either(d, ReadByte(d.rest), "info", rleReadValue(d.info))
readStringValue(d) == Either(d, ReadString(d.rest), "string", stringReadValue(d.string))
readTypeRef(d) == Either(d, ReadVarUint(d.rest), "typeRef", uintReadValue(d.typeRef))
readLength(d) == Either(d, ReadVarUint(d.rest), "len", uintReadValue(d.len))
readAnyValue(d) == From(d, "rest", readAny(d.rest))
readBuffer(d) == From(d, "rest", ReadVarUint8Array(d.rest))

readParentInfo(d) ==
  LET r == Either(d, ReadVarUint(d.rest), "parentInfo", rleReadValue(d.parentInfo))
  IN  [v |-> r.v = 1, d |-> r.d]

readIDFrom(d, stream) ==
  LET c == readClient(d)
      k == Either(c.d, ReadVarUint(c.d.rest), stream, diffReadValue(c.d[stream]))
  IN  [v |-> <<c.v, k.v>>, d |-> k.d]

readLeftID(d) == readIDFrom(d, "leftClock")
readRightID(d) == readIDFrom(d, "rightClock")

readJSONValue(d) ==
  LET text == From(d, "rest", ReadVarUint8Array(d.rest))
      r    == unmarshalJSONOrdered(text.v)
  IN  IF d.version = 2 THEN readAnyValue(d)
      ELSE [v |-> r.v, d |-> [text.d EXCEPT !.rest.ok = @ /\ r.d.ok]]

readKey(d) ==
  LET clock == From(d, "keyClock", diffReadValue(d.keyClock))
      key   == readStringValue(clock.d)
  IN  IF d.version = 1 THEN readStringValue(d)
      ELSE IF clock.v \notin 0 .. Len(d.keys)
      THEN [v |-> <<>>, d |-> [d EXCEPT !.keyClock.ok = FALSE]]
      ELSE IF clock.v < Len(d.keys)
      THEN [v |-> d.keys[clock.v + 1], d |-> clock.d]
      ELSE [v |-> key.v, d |-> [key.d EXCEPT !.keys = Append(@, key.v)]]

resetDS(d) == [d EXCEPT !.dsCurrVal = 0]

readDSClock(d) ==
  LET r == readRest(d)
  IN  IF d.version = 1 THEN r
      ELSE [v |-> d.dsCurrVal + r.v, d |-> [r.d EXCEPT !.dsCurrVal = @ + r.v]]

readDSLength(d) ==
  LET r == readRest(d)
  IN  IF d.version = 1 THEN r
      ELSE [v |-> r.v + 1, d |-> [r.d EXCEPT !.dsCurrVal = @ + r.v + 1]]
=============================================================================
