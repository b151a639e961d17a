---------------------------- MODULE SyncProtocol ----------------------------
(***************************************************************************)
(* The frames of the sync protocol and the handler of a document for them  *)
(* (protocol/protocol.go, message_info.go, sync.go): SyncStep1 carries a   *)
(* state vector and is answered by SyncStep2 with what the sender lacks;   *)
(* SyncStep2 and Update carry an update to apply.  The protocol knows V1   *)
(* updates only.                                                           *)
(***************************************************************************)
EXTENDS Cleanup

MessageSync == 0
MessageAwareness == 1

SyncMessageNone == -1
SyncMessageStep1 == 0
SyncMessageStep2 == 1
SyncMessageUpdate == 2

WriteMessage(msgType, payload) == WriteVarUint(msgType) \o payload

encodeSyncMessage(messageType, body) ==
  WriteMessage(MessageSync, WriteVarUint(messageType) \o WriteVarUint8Array(body))

EncodeSyncStep1(doc) == encodeSyncMessage(SyncMessageStep1, EncodeStateVector(doc))

EncodeSyncStep2(doc, svBytes) ==
  encodeSyncMessage(SyncMessageStep2,
                    EncodeStateAsUpdate(1, doc, svBytes, newUpdateEncoderV2))

EncodeUpdate(update) == encodeSyncMessage(SyncMessageUpdate, update)

\* The outer type; payload is a reader at what follows it.
readMessageView(frame) ==
  LET t == ReadVarUint(Reader(frame))
  IN  [ok |-> t.d.ok /\ t.v <= 255, type |-> t.v, payload |-> t.d]

Rests(d) == SubSeq(d.b, d.i, Len(d.b))

\* Of an unknown sync message (any type up to 2^31 - 1, which is what integers
\* are here), as of a message of another type, the body is
\* whatever follows.
inspectPayload(msgType, payload) ==
  LET sub   == ReadVarUint(payload)
      known == sub.v \in {SyncMessageStep1, SyncMessageStep2, SyncMessageUpdate}
      info(ok, syncType, body) ==
        [ok |-> ok, type |-> msgType, syncType |-> syncType, body |-> body]
      array(d, syncType) ==
        LET a == ReadVarUint8Array(d) IN info(a.d.ok, syncType, a.v)
  IN  CASE msgType = MessageSync /\ known      -> array(sub.d, sub.v)
        [] msgType = MessageSync /\ ~known     -> info(sub.d.ok, sub.v, Rests(sub.d))
        [] msgType = MessageAwareness          -> array(payload, SyncMessageNone)
        [] OTHER                               -> info(TRUE, SyncMessageNone, Rests(payload))

InspectMessage(frame) ==
  LET view == readMessageView(frame)
      info == inspectPayload(view.type, view.payload)
  IN  [info EXCEPT !.ok = view.ok /\ @]

\* What a handler without awareness and without custom handlers does with a
\* frame: an update to apply, a frame to send back, or neither.
HandleMessage(doc, frame) ==
  LET info    == InspectMessage(frame)
      sync(s) == info.ok /\ info.type = MessageSync /\ info.syncType \in s
  IN  [ok     |-> info.ok,
       reply  |-> IF sync({SyncMessageStep1}) THEN EncodeSyncStep2(doc, info.body)
                  ELSE <<>>,
       update |-> IF sync({SyncMessageStep2, SyncMessageUpdate}) THEN info.body ELSE <<>>]
=============================================================================
