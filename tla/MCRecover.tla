-------------------------------- MODULE MCRecover --------------------------------
(***************************************************************************)
(* Recover on files put together from up to five pieces: marks, a block     *)
(* that is long enough and one that is not, single bits that break or      *)
(* extend them.  As in the format, a mark can overlap the next one.        *)
(***************************************************************************)
EXTENDS Recover, SequencesExt

Header == <<0, 0, 1, 0>>
EndMark == <<0, 1, 1, 0>>
StreamHeader == <<1, 1>>

Segments == {Header, EndMark, <<1, 0, 1, 1, 1>>, <<1>>, <<0>>}

SmallFiles ==
  LET whole(s) == s \o [i \in 1..((-Len(s)) % ByteBits) |-> 0]
  IN  {whole(FlattenSeq(f)) : f \in UNION {[1..n -> Segments] : n \in 0..5}}
=============================================================================
