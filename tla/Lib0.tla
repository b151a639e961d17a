-------------------------------- MODULE Lib0 --------------------------------
(***************************************************************************)
(* The byte primitives of the wire formats: variable-length integers,      *)
(* strings, byte arrays and self-describing values (internal/lib0/codec.go,*)
(* crdt/encoding.go, decoding.go, codec_varint.go, json_ordered.go), and   *)
(* the UTF-16 arithmetic on strings (crdt/utils.go).                       *)
(*                                                                         *)
(* A byte buffer is a sequence of 0..255.  A string is the sequence of its *)
(* runes (code points): its length in the document is counted in UTF-16    *)
(* units, its length on the wire in UTF-8 bytes.                           *)
(*                                                                         *)
(* A reader is [b |-> buffer, i |-> next index, ok |-> no error so far]; a *)
(* read operator returns [v |-> value, d |-> reader after it].  An error   *)
(* clears ok, is never cleared again, and the value read is a zero value:  *)
(* the code returns at its first error, so nothing read after it matters.  *)
(***************************************************************************)
EXTENDS Integers, Sequences, SequencesExt

\* op(...op(op(base, s[1]), s[2])..., s[n]), from the left and by value (an
\* intermediate result is a member of a set before it is used), in blocks of 8
\* so that the depth of the recursion stays small.
Fold(op(_, _), base, s) ==
  LET By(f(_), x)     == CHOOSE y \in {f(v) : v \in {x}} : TRUE
      last(k)         == IF 8 * k < Len(s) THEN 8 * k ELSE Len(s)
      block(k, start) ==
        LET f[i \in 8 * k - 8 .. last(k)] ==
              IF i = 8 * k - 8 THEN start
              ELSE By(LAMBDA x : op(x, s[i]), f[i - 1])
        IN  f[last(k)]
      blocks          == (Len(s) + 7) \div 8
      g[k \in 0 .. blocks] ==
        IF k = 0 THEN base ELSE By(LAMBDA x : block(k, x), g[k - 1])
  IN  g[blocks]

\* The concatenation of a sequence of sequences, halves first.
Concat(seqs) ==
  LET cat[p \in (1 .. Len(seqs)) \X (0 .. Len(seqs))] ==
        LET mid == (p[1] + p[2]) \div 2 IN
        IF p[2] < p[1] THEN <<>>
        ELSE IF p[1] = p[2] THEN seqs[p[1]]
        ELSE cat[<<p[1], mid>>] \o cat[<<mid + 1, p[2]>>]
  IN  IF seqs = <<>> THEN <<>> ELSE cat[<<1, Len(seqs)>>]

SumSeq(s) == Fold(LAMBDA x, y : x + y, 0, s)

Map(s, f(_)) == [i \in DOMAIN s |-> f(s[i])]

Reader(bytes) == [b |-> bytes, i |-> 1, ok |-> TRUE]

Remaining(d) == Len(d.b) - d.i + 1

Failed(d, v) == [v |-> v, d |-> [d EXCEPT !.ok = FALSE]]

-----------------------------------------------------------------------------
(* Integers *)

RECURSIVE WriteVarUint(_)
WriteVarUint(n) ==
  IF n < 128 THEN <<n>> ELSE <<128 + (n % 128)>> \o WriteVarUint(n \div 128)

ReadByte(d) ==
  IF Remaining(d) > 0 THEN [v |-> d.b[d.i], d |-> [d EXCEPT !.i = @ + 1]]
  ELSE Failed(d, 0)

RECURSIVE ReadVarUintFrom(_, _, _)
ReadVarUintFrom(d, unit, n) ==
  LET r == ReadByte(d)
      m == n + unit * (r.v % 128)
  IN  IF r.v < 128 THEN [v |-> m, d |-> r.d]
      ELSE ReadVarUintFrom(r.d, unit * 128, m)

ReadVarUint(d) == ReadVarUintFrom(d, 1, 0)

\* A sign and a magnitude, sign in bit 7 of the first byte: magnitude 0 can be
\* negative, which is what the run-length columns use as their marker.
writeVarIntMag(n, negative) ==
  LET first == (n % 64) + (IF negative THEN 64 ELSE 0)
  IN  IF n < 64 THEN <<first>> ELSE <<first + 128>> \o WriteVarUint(n \div 64)

readVarIntSigned(d) ==
  LET r    == ReadByte(d)
      more == ReadVarUintFrom(r.d, 64, r.v % 64)
      sign == (r.v \div 64) % 2 = 1
  IN  IF r.v < 128 THEN [v |-> [mag |-> r.v % 64, neg |-> sign], d |-> r.d]
      ELSE [v |-> [mag |-> more.v, neg |-> sign], d |-> more.d]

writeVarInt(n) == writeVarIntMag(IF n < 0 THEN -n ELSE n, n < 0)

readVarInt(d) ==
  LET r == readVarIntSigned(d)
  IN  [v |-> IF r.v.neg THEN -r.v.mag ELSE r.v.mag, d |-> r.d]

\* Exactly n bytes, or an error.
ReadBytes(d, n) ==
  IF n <= Remaining(d)
  THEN [v |-> SubSeq(d.b, d.i, d.i + n - 1), d |-> [d EXCEPT !.i = @ + n]]
  ELSE Failed(d, <<>>)

WriteVarUint8Array(bytes) == WriteVarUint(Len(bytes)) \o bytes

ReadVarUint8Array(d) == LET n == ReadVarUint(d) IN ReadBytes(n.d, n.v)

-----------------------------------------------------------------------------
(* Strings *)

ReplacementRune == 65533
Supplementary(r) == r >= 65536

\* UTF-8, the unicode/utf8 package of the standard library.
utf8Rune(r) ==
  IF r < 128 THEN <<r>>
  ELSE IF r < 2048 THEN <<192 + (r \div 64), 128 + (r % 64)>>
  ELSE IF r < 65536
  THEN <<224 + (r \div 4096), 128 + ((r \div 64) % 64), 128 + (r % 64)>>
  ELSE <<240 + (r \div 262144), 128 + ((r \div 4096) % 64),
         128 + ((r \div 64) % 64), 128 + (r % 64)>>

utf8(s) == Concat(Map(s, utf8Rune))

RECURSIVE runes(_)
runes(bytes) ==
  IF bytes = <<>> THEN <<>>
  ELSE LET b    == bytes[1]
           size == IF b < 128 THEN 1 ELSE IF b < 224 THEN 2
                   ELSE IF b < 240 THEN 3 ELSE 4
           lead == CASE size = 1 -> b [] size = 2 -> b - 192
                     [] size = 3 -> b - 224 [] size = 4 -> b - 240
           rune == Fold(LAMBDA x, y : x * 64 + y - 128, lead,
                        SubSeq(bytes, 2, size))
       IN  <<rune>> \o runes(SubSeq(bytes, size + 1, Len(bytes)))

width(r) == IF Supplementary(r) THEN 2 ELSE 1

\* Length in UTF-16 units.
stringLength(s) == SumSeq(Map(s, width))

\* The halves of a string at a UTF-16 offset.  An offset inside a surrogate
\* pair replaces the rune by U+FFFD in both halves; one at or past the end
\* leaves everything on the left.
splitStringUTF16(s, offset) ==
  IF offset >= stringLength(s) THEN <<s, <<>>>>
  ELSE LET n == CHOOSE k \in 0 .. Len(s) :
                  /\ stringLength(SubSeq(s, 1, k)) <= offset
                  /\ stringLength(SubSeq(s, 1, k + 1)) > offset
       IN  IF stringLength(SubSeq(s, 1, n)) = offset
           THEN <<SubSeq(s, 1, n), SubSeq(s, n + 1, Len(s))>>
           ELSE <<SubSeq(s, 1, n) \o <<ReplacementRune>>,
                  <<ReplacementRune>> \o SubSeq(s, n + 2, Len(s))>>

stringHeader(s, offset) == splitStringUTF16(s, offset)[1]
stringTail(s, offset) == splitStringUTF16(s, offset)[2]

WriteString(s) == WriteVarUint8Array(utf8(s))

ReadString(d) == LET r == ReadVarUint8Array(d) IN [v |-> runes(r.v), d |-> r.d]

-----------------------------------------------------------------------------
(* Self-describing values.  A value is a tuple <<tag, ...>> whose tag is the *)
(* one writeAny chooses for it: <<127>> undefined, <<126>> null, <<125, n>> *)
(* an integral number, <<124, b>> and <<123, b>> numbers that need a float32 *)
(* or float64 (b their bytes), <<122, b>> a bigint, <<121>> FALSE, <<120>>  *)
(* TRUE, <<119, s>> a string, <<118, ps>> an object with the key/value      *)
(* pairs ps in insertion order, <<117, vs>> an array, <<116, b>> bytes.     *)

maxAnyDepth == 100

RECURSIVE writeAny(_)
writeAny(v) ==
  LET tag     == v[1]
      pair(p) == WriteString(p[1]) \o writeAny(p[2])
  IN  <<tag>> \o
      CASE tag \in {127, 126, 121, 120} -> <<>>
        [] tag = 125 -> writeVarInt(v[2])
        [] tag \in {124, 123, 122} -> v[2]
        [] tag = 119 -> WriteString(v[2])
        [] tag = 118 -> WriteVarUint(Len(v[2])) \o Concat(Map(v[2], pair))
        [] tag = 117 -> WriteVarUint(Len(v[2])) \o Concat(Map(v[2], writeAny))
        [] tag = 116 -> WriteVarUint8Array(v[2])

\* n results of read, from left to right.
ReadMany(d, n, read(_)) ==
  LET step(r, i) == LET x == read(r.d) IN [v |-> Append(r.v, x.v), d |-> x.d]
  IN  Fold(step, [v |-> <<>>, d |-> d], [i \in 1 .. n |-> i])

Tagged(tag, r) == [v |-> <<tag, r.v>>, d |-> r.d]

RECURSIVE readAnyDepth(_, _)

readObjectDepth(d, depth) ==
  LET size    == ReadVarUint(d)
      pair(e) == LET k == ReadString(e)
                     x == readAnyDepth(k.d, depth + 1)
                 IN  [v |-> <<k.v, x.v>>, d |-> x.d]
  IN  ReadMany(size.d, size.v, pair)

\* Every element takes a byte at least.
readArrayDepth(d, depth) ==
  LET size    == ReadVarUint(d)
      elem(e) == readAnyDepth(e, depth + 1)
  IN  IF size.v > Remaining(size.d) THEN Failed(size.d, <<>>)
      ELSE ReadMany(size.d, size.v, elem)

readAnyDepth(d, depth) ==
  LET t == ReadByte(d)
  IN  IF depth > maxAnyDepth \/ t.v \notin 116 .. 127 \/ ~t.d.ok
      THEN Failed(d, <<127>>)
      ELSE CASE t.v \in {127, 126, 121, 120} -> [v |-> <<t.v>>, d |-> t.d]
             [] t.v = 125 -> Tagged(125, readVarInt(t.d))
             [] t.v = 124 -> Tagged(124, ReadBytes(t.d, 4))
             [] t.v \in {123, 122} -> Tagged(t.v, ReadBytes(t.d, 8))
             [] t.v = 119 -> Tagged(119, ReadString(t.d))
             [] t.v = 118 -> Tagged(118, readObjectDepth(t.d, depth))
             [] t.v = 117 -> Tagged(117, readArrayDepth(t.d, depth))
             [] t.v = 116 -> Tagged(116, ReadVarUint8Array(t.d))

readAny(d) == readAnyDepth(d, 0)

(* JSON text, the form of format and embed values in a V1 update and of    *)
(* contentJSON in both.  What the text cannot say is lost: undefined turns *)
(* into null, bytes into their base64 string and a bigint into a number.   *)
(* The characters of the text are abstracted to a self-delimiting code.    *)

RECURSIVE jsonValue(_)
jsonValue(v) ==
  CASE v[1] = 127 -> <<126>>
    [] v[1] = 116 -> <<119, v[2]>>
    [] v[1] = 122 -> <<123, v[2]>>
    [] v[1] = 118 -> <<118, Map(v[2], LAMBDA p : <<p[1], jsonValue(p[2])>>)>>
    [] v[1] = 117 -> <<117, Map(v[2], jsonValue)>>
    [] OTHER -> v

marshalJSONOrdered(v) == writeAny(jsonValue(v))

\* Trailing data after the value is an error.
unmarshalJSONOrdered(text) ==
  LET r == readAny(Reader(text))
  IN  IF Remaining(r.d) = 0 THEN r ELSE Failed(r.d, <<127>>)
=============================================================================
