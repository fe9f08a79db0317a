---------------------------- MODULE ByteStrings -----------------------------
(***************************************************************************)
(* Bytes, as far as a codec is concerned: a value is a member of a small   *)
(* set, and a byte is a pair of the value it is a part of and its place in *)
(* it, except that all bytes of zero are alike.  A layout is a sequence of *)
(* names with their widths.                                                *)
(***************************************************************************)
EXTENDS Integers, Sequences, SequencesExt

Byte(v, i) == <<v, IF v = 0 THEN 0 ELSE i>>

Encoded(v, width) == [i \in 1..width |-> Byte(v, i)]

\* Bytes of two values make up a third one, which no record has.
Garbled == 256

Decoded(slice) ==
  IF slice = Encoded(slice[1][1], Len(slice)) THEN slice[1][1] ELSE Garbled

Offset(layout, i) ==
  SumFunctionOnSet([j \in DOMAIN layout |-> layout[j][2]], 1..(i - 1))

Width(layout) == Offset(layout, Len(layout) + 1)

SliceOf(data, layout, i) ==
  SubSeq(data, Offset(layout, i) + 1, Offset(layout, i) + layout[i][2])

Names(layout) == {layout[i][1] : i \in DOMAIN layout}

=============================================================================
