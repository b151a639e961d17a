------------------------------ MODULE FullState -----------------------------
(***************************************************************************)
(* A document as an update: the general encoder with a target state vector *)
(* (crdt/merge.go) and the two encoders of a whole state, which take short *)
(* cuts (crdt/update_encoder.go, client_struct_list.go).                   *)
(***************************************************************************)
EXTENDS Documents

-----------------------------------------------------------------------------
(* The general encoder *)

\* One client's block, from clock on: the first struct may start before it.
writeStructs(structs, client, clock) ==
  LET from  == Max({clock, Clock(structs[1])})
      start == findIndexSS(structs, from)
      n     == Len(structs) - start + 1
  IN  Rest(WriteVarUint(n)) \o <<Call("client", client)>> \o Rest(WriteVarUint(from))
      \o Concat([i \in 1 .. n |->
                   writeStruct(structs[start + i - 1],
                               IF i = 1 THEN from - Clock(structs[start]) ELSE 0)])

\* The clients that are ahead of sv, and those it does not have.
writeClientsStructs(st, sv) ==
  LET ahead   == {c \in DOMAIN sv \cap DOMAIN st : getState(st, c) > sv[c]}
      clients == ahead \cup (DOMAIN st \ DOMAIN sv)
  IN  Rest(WriteVarUint(Cardinality(clients)))
      \o Concat(Map(Descending(clients), LAMBDA c :
                      writeStructs(st[c], c, StateOf(sv, c))))

writeStateAsUpdate(st, sv) ==
  writeClientsStructs(st, sv) \o writeDeleteSetFromStructStore(st)

convertTo(version, from, update) ==
  IF version = from THEN update ELSE ConvertUpdateFormat(from, version, update).update

\* What waits is sent along: the receiver may have what it waits for.
encodeStateAsUpdateWith(version, doc, svBytes) ==
  LET target  == IF svBytes = <<>> THEN <<0>> ELSE svBytes
      primary == toBytes(version, writeStateAsUpdate(doc.st, targetState(target).sv))
      ds      == IF doc.pendingDS = <<>> THEN <<>>
                 ELSE <<convertTo(version, 2, doc.pendingDS)>>
      structs == IF doc.pending = NoPending THEN <<>>
                 ELSE <<convertTo(version, 1,
                                  diffUpdate(1, doc.pending.update, target).update)>>
      updates == <<primary>> \o ds \o structs
  IN  IF Len(updates) = 1 THEN primary ELSE mergeUpdates(version, updates).update

-----------------------------------------------------------------------------
(* The whole state in V1.  The encoder appends to a slice until a value     *)
(* makes it switch to a buffer (rest); it walks over the structs for        *)
(* deletions only if it met one, or did not look at all structs.            *)

newFastUpdateEncoderV1 ==
  [bytes |-> <<>>, rest |-> FALSE, hasDeleted |-> FALSE, scanDeletes |-> FALSE]

idBytes(id) == IF id = None THEN <<>> ELSE WriteVarUint(id[1]) \o WriteVarUint(id[2])

\* The short cut: a string item, written without the encoder's methods.
stringItemV1(s) ==
  LET parent == IF s.parent[1] = "root" THEN <<1>> \o WriteString(s.parent[2])
                ELSE <<0>> \o idBytes(s.parent[2])
  IN  <<Info(s, s.origin)>> \o idBytes(s.origin) \o idBytes(s.rightOrigin)
      \o (IF s.origin # None \/ s.rightOrigin # None THEN <<>>
          ELSE parent \o (IF s.parentSub = None THEN <<>> ELSE WriteString(s.parentSub)))
      \o WriteString(s.content[2])

writeStructsV1(e, s) ==
  LET isString == IsItem(s) /\ s.content[1] = 4
      general  == toBytesV1(writeStruct(s, 0))
  IN  IF e.rest THEN [e EXCEPT !.bytes = @ \o general, !.scanDeletes = TRUE]
      ELSE IF isString
      THEN [e EXCEPT !.bytes = @ \o stringItemV1(s), !.hasDeleted = @ \/ s.deleted]
      ELSE [e EXCEPT !.bytes = @ \o general, !.hasDeleted = @ \/ isDeletedStruct(s),
                     !.scanDeletes = TRUE,
                     !.rest = IsItem(s) /\ s.content[1] \in {8, 9}]

encodeFullStateAsUpdateV1(st) ==
  LET block(e, c) ==
        Fold(writeStructsV1,
             [e EXCEPT !.bytes = @ \o WriteVarUint(Len(st[c])) \o WriteVarUint(c)
                                 \o WriteVarUint(Clock(st[c][1]))], st[c])
      e == Fold(block, [newFastUpdateEncoderV1 EXCEPT
                          !.bytes = WriteVarUint(Cardinality(DOMAIN st))],
                Descending(DOMAIN st))
  IN  e.bytes \o (IF ~e.hasDeleted /\ ~e.scanDeletes THEN <<0>>
                  ELSE toBytesV1(writeDeleteSetFromStructStore(st)))

-----------------------------------------------------------------------------
(* The whole state in V2, by an encoder from a pool.                        *)

FaultResetFullV2Encoder(e) ==
  [newUpdateEncoderV2 EXCEPT !.leftClock.s = e.leftClock.s]

\* Every column is emptied; the next key gets number 0 again.
resetFullV2Encoder(e) ==
  LET reset(col) == [col EXCEPT !.buf = <<>>, !.s = 0, !.count = 0, !.diff = 0,
                                !.text = <<>>]
  IN  [e EXCEPT !.rest = <<>>, !.dsCurrVal = 0, !.nextKey = 0,
                !.keyClock = reset(@), !.client = reset(@), !.leftClock = reset(@),
                !.rightClock = reset(@), !.info = reset(@), !.string = reset(@),
                !.parentInfo = reset(@), !.typeRef = reset(@), !.len = reset(@)]

\* The short cut: a string item that has an origin, written to the columns.
stringItemV2(e, s) ==
  LET clients == (IF s.origin = None THEN <<>> ELSE <<s.origin[1]>>)
                 \o (IF s.rightOrigin = None THEN <<>> ELSE <<s.rightOrigin[1]>>)
      ascii   == \A i \in DOMAIN s.content[2] : s.content[2][i] < 128
      length  == IF ascii THEN s.length ELSE stringLength(s.content[2])
  IN  [e EXCEPT !.info = rleWriteValue(@, Info(s, s.origin)),
                !.client = Fold(uintWriteValue, @, clients),
                !.leftClock = IF s.origin = None THEN @
                              ELSE diffWriteTrusted(@, s.origin[2]),
                !.rightClock = IF s.rightOrigin = None THEN @
                               ELSE diffWriteTrusted(@, s.rightOrigin[2]),
                !.string = [uintWriteValue(@, length) EXCEPT
                              !.text = @ \o s.content[2]]]

writeFullStateStruct(e, s) ==
  IF IsItem(s) /\ s.content[1] = 4 /\ (s.origin # None \/ s.rightOrigin # None)
  THEN stringItemV2(e, s) ELSE writeCallsV2(e, writeStruct(s, 0))

\* The encoder after the state was written, ready to give its bytes and to go
\* back to the pool.
fullStateEncoderV2(st, pooled) ==
  LET block(e, c) ==
        Fold(writeFullStateStruct,
             writeCallsV2(e, Rest(WriteVarUint(Len(st[c]))) \o <<Call("client", c)>>
                             \o Rest(WriteVarUint(Clock(st[c][1])))), st[c])
      e          == Fold(block, writeCallsV2(resetFullV2Encoder(pooled),
                                             Rest(WriteVarUint(Cardinality(DOMAIN st)))),
                         Descending(DOMAIN st))
      hasDeleted == \E c \in DOMAIN st : \E s \in ToSet(st[c]) : isDeletedStruct(s)
  IN  writeCallsV2(e, IF hasDeleted THEN writeDeleteSetFromStructStore(st)
                      ELSE Rest(<<0>>))

encodeFullStateAsUpdateV2(st, pooled) == bytesOfV2(fullStateEncoderV2(st, pooled))

-----------------------------------------------------------------------------
\* EncodeStateAsUpdate and EncodeStateAsUpdateV2.
EncodeStateAsUpdate(version, doc, svBytes, pooled) ==
  IF svBytes = <<>> /\ doc.pendingDS = <<>> /\ doc.pending = NoPending
  THEN IF version = 1 THEN encodeFullStateAsUpdateV1(doc.st)
       ELSE encodeFullStateAsUpdateV2(doc.st, pooled)
  ELSE encodeStateAsUpdateWith(version, doc, svBytes)

EncodeStateVector(doc) == toBytesV1(writeStateVector(getStateVector(doc.st)))
=============================================================================
