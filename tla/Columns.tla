------------------------------ MODULE Columns -------------------------------
(***************************************************************************)
(* The column codecs of the V2 format: rle_codec.go, uint_opt_rle_codec.go,*)
(* int_diff_opt_rle_codec.go and string_codec.go.                          *)
(*                                                                         *)
(* An encoder is [buf, s, count, diff, text]: the bytes written, the value *)
(* of the current run, its length, its difference and, for strings, the    *)
(* concatenation.  A decoder is a reader with s, count, diff and text.     *)
(***************************************************************************)
EXTENDS Lib0

NewColumn == [buf |-> <<>>, s |-> 0, count |-> 0, diff |-> 0, text |-> <<>>]

-----------------------------------------------------------------------------
(* rleEncoder: each value once, a run's length only when the next value     *)
(* differs.  started is count > 0: writeValue is the only writer of both.   *)

rleWriteValue(e, v) ==
  IF e.count > 0 /\ e.s = v THEN [e EXCEPT !.count = @ + 1]
  ELSE [e EXCEPT !.buf = @ \o (IF e.count > 0 THEN WriteVarUint(e.count - 1)
                               ELSE <<>>) \o <<v>>,
                 !.count = 1, !.s = v]

rleBytes(e) == e.buf

\* A last run has no length: count -1 repeats its value for ever.
rleReadValue(d) ==
  LET s == ReadByte(d)
      n == ReadVarUint(s.d)
      e == IF d.count # 0 THEN d
           ELSE IF ~s.d.ok THEN s.d
           ELSE IF Remaining(s.d) > 0
           THEN [n.d EXCEPT !.s = s.v, !.count = n.v + 1]
           ELSE [s.d EXCEPT !.s = s.v, !.count = -1]
  IN  [v |-> e.s, d |-> [e EXCEPT !.count = @ - 1]]

-----------------------------------------------------------------------------
(* uintOptRLEEncoder: a negative magnitude announces a run length - 2.      *)

uintFlush(e) ==
  IF e.count = 0 THEN e
  ELSE [e EXCEPT !.buf = @ \o
          IF e.count = 1 THEN writeVarIntMag(e.s, FALSE)
          ELSE writeVarIntMag(e.s, TRUE) \o WriteVarUint(e.count - 2)]

uintWriteValue(e, v) ==
  IF e.count > 0 /\ e.s = v THEN [e EXCEPT !.count = @ + 1]
  ELSE [uintFlush(e) EXCEPT !.count = 1, !.s = v]

\* bytes() flushes, but keeps the run: a second call writes it again.
uintBytes(e) == uintFlush(e).buf

uintReadValue(d) ==
  LET m == readVarIntSigned(d)
      n == ReadVarUint(m.d)
      e == IF d.count # 0 THEN d
           ELSE IF m.v.neg THEN [n.d EXCEPT !.s = m.v.mag, !.count = n.v + 2]
           ELSE [m.d EXCEPT !.s = m.v.mag, !.count = 1]
  IN  [v |-> e.s, d |-> [e EXCEPT !.count = @ - 1]]

-----------------------------------------------------------------------------
(* intDiffOptRLEEncoder: runs of equal differences, doubled to make room    *)
(* for the bit that announces a run length - 2.                             *)

diffFlush(e) ==
  IF e.count = 0 THEN e
  ELSE [e EXCEPT !.buf = @ \o
          writeVarInt(2 * e.diff + (IF e.count # 1 THEN 1 ELSE 0)) \o
          (IF e.count > 1 THEN WriteVarUint(e.count - 2) ELSE <<>>)]

diffWriteValue(e, v) ==
  IF e.count > 0 /\ e.diff = v - e.s
  THEN [e EXCEPT !.s = v, !.count = @ + 1]
  ELSE [diffFlush(e) EXCEPT !.count = 1, !.diff = v - e.s, !.s = v]

\* writeTrusted skips the range check, which clocks of a document always pass.
diffWriteTrusted(e, v) ==
  LET diff == v - e.s
      run  == IF e.count = 0 THEN <<>>
              ELSE writeVarInt(2 * e.diff + (IF e.count # 1 THEN 1 ELSE 0)) \o
                   (IF e.count > 1 THEN WriteVarUint(e.count - 2) ELSE <<>>)
  IN  IF e.count > 0 /\ e.diff = diff
      THEN [e EXCEPT !.s = v, !.count = @ + 1]
      ELSE [e EXCEPT !.buf = @ \o run, !.count = 1, !.diff = diff, !.s = v]

diffBytes(e) == diffFlush(e).buf

\* \div rounds towards minus infinity, as the arithmetic shift does.
diffReadValue(d) ==
  LET m == readVarInt(d)
      n == ReadVarUint(m.d)
      e == IF d.count # 0 THEN d
           ELSE IF m.v % 2 = 1
           THEN [n.d EXCEPT !.diff = m.v \div 2, !.count = n.v + 2]
           ELSE [m.d EXCEPT !.diff = m.v \div 2, !.count = 1]
  IN  [v |-> e.s + e.diff, d |-> [e EXCEPT !.s = @ + e.diff, !.count = @ - 1]]

-----------------------------------------------------------------------------
(* stringEncoder: one string of all the texts, and their lengths in UTF-16  *)
(* units as a uintOptRLE column.                                            *)

stringWriteValue(e, s) ==
  [uintWriteValue(e, stringLength(s)) EXCEPT !.text = @ \o s]

stringBytes(e) == WriteString(e.text) \o uintBytes(e)

\* The text is cut at UTF-16 offsets: a byte-sliced ASCII text and a text held
\* as UTF-16 units give the same cuts.  An overrun is an error.
stringReadValue(d) ==
  LET n    == uintReadValue(d)
      cut  == splitStringUTF16(d.text, n.v)
  IN  IF n.v > stringLength(d.text) THEN Failed(n.d, <<>>)
      ELSE [v |-> cut[1], d |-> [n.d EXCEPT !.text = cut[2]]]

ColumnReader(bytes) ==
  [b |-> bytes, i |-> 1, ok |-> TRUE, s |-> 0, count |-> 0, diff |-> 0,
   text |-> <<>>]

StringReader(bytes) ==
  LET r == ReadString(ColumnReader(bytes)) IN [r.d EXCEPT !.text = r.v]
=============================================================================
