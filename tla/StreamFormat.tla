----------------------------- MODULE StreamFormat -----------------------------
(***************************************************************************)
(* The .bz2 stream as the compressor writes it and the decompressor reads  *)
(* it: a sequence of tokens [kind, value].                                 *)
(*                                                                         *)
(*    BZh         the three magic bytes                                    *)
(*    level       the block size digit, <<1>> .. <<9>>                     *)
(*    block       the block magic and the block's CRC                      *)
(*    data        the rest of a block, up to its end-of-block symbol       *)
(*    rdata       the same with the "randomised" bit set: only versions    *)
(*                before 0.9.5 wrote such blocks, all still read them      *)
(*    bad         the rest of a block whose coding breaks a rule           *)
(*    end         the end-of-stream magic                                  *)
(*    crc         the CRC of the whole stream                              *)
(*                                                                         *)
(* A CRC is the sequence of bytes it covers, the stream's CRC the sequence *)
(* of the block CRCs folded into it: two CRCs are equal only when what     *)
(* they cover is.  A data token carries the bytes of the block before      *)
(* sorting, so sorting, MTF and Huffman coding are one step each way.      *)
(***************************************************************************)
EXTENDS Integers, Sequences, RunLength
Seqs == INSTANCE SequencesExt

Bytes == 0..255
Token == ({"BZh", "level", "block", "data", "rdata", "bad", "end"} \X Seq(Bytes))
            \cup ({"crc"} \X Seq(Seq(Bytes)))

HeaderTokens(level)   == << <<"BZh", <<>> >>, <<"level", <<level>> >> >>
BlockTokens(crc, blk) == << <<"block", crc>>, <<"data", blk>> >>
TrailerTokens(crcs)   == << <<"end", <<>> >>, <<"crc", crcs>> >>

DataKinds == {"data", "rdata"}

(***************************************************************************)
(* A stream, or the part of one written so far, is framed: one header, at  *)
(* the front; each block's CRC with its data, which decodes to it; one     *)
(* trailer, at the end, whose CRC covers all the blocks in order.  Block   *)
(* number b is then at 2b + 1 and 2b + 2.                                  *)
(***************************************************************************)
Framed(s) ==
  LET kind(i) == s[i][1]
      N       == Len(s)
  IN \A i \in 1..N :
       /\ kind(i) # "bad"
       /\ kind(i) = "BZh" <=> i = 1
       /\ kind(i) = "level" <=> i = 2
       /\ kind(i) = "level" => s[i][2] \in {<<level>> : level \in 1..9}
       /\ kind(i) = "block" <=> (i < N /\ kind(i + 1) \in DataKinds)
       /\ kind(i) \in DataKinds => UnRLE(s[i][2]) = s[i - 1][2]
       /\ kind(i) = "end" <=> i = N - 1 /\ kind(N) = "crc"
       /\ kind(i) = "crc" =>
            /\ i = N
            /\ N = 2 * Len(s[i][2]) + 4
            /\ \A b \in 1..Len(s[i][2]) : s[i][2][b] = s[2 * b + 1][2]

(* A whole stream; blocks hold something, at most `unit' bytes per level,  *)
(* and do not stop between four equal bytes and their count.               *)
WellFormed(s, unit) ==
  /\ Len(s) > 3 /\ Framed(s) /\ s[Len(s)][1] = "crc"
  /\ \A i \in 1..Len(s) : s[i][1] \in DataKinds =>
       /\ Len(s[i][2]) \in 1..(unit * s[2][2][1])
       /\ ~EndsBeforeCount(s[i][2])

(* `s' begins with a header and the blocks `crcs' covers, one after the    *)
(* other: the part of a stream that the trailer completes.                 *)
Laid(s, level, crcs, unit) ==
  /\ Len(s) >= 2 + 2 * Len(crcs)
  /\ s[1][1] = "BZh" /\ s[2][1] = "level" /\ s[2][2] = <<level>>
  /\ \A b \in 1..Len(crcs) :
       /\ s[2 * b + 1][1] = "block" /\ s[2 * b + 1][2] = crcs[b]
       /\ s[2 * b + 2][1] \in DataKinds
       /\ UnRLE(s[2 * b + 2][2]) = crcs[b]
       /\ Len(s[2 * b + 2][2]) \in 1..(unit * level)
       /\ ~EndsBeforeCount(s[2 * b + 2][2])

(* What a whole stream decodes to: what its block CRCs cover. *)
Content(s) ==
  Seqs!FlattenSeq([b \in 1..((Len(s) - 4) \div 2) |-> s[2 * b + 1][2]])
==============================================================================
