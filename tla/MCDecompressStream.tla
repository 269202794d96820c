-------------------------- MODULE MCDecompressStream --------------------------
(***************************************************************************)
(* DecompressStream fed with every stream of up to two small blocks, sound *)
(* or damaged: a wrong token put anywhere, the end cut off, or more input  *)
(* behind the trailer.                                                     *)
(***************************************************************************)
EXTENDS DecompressStream
LOCAL INSTANCE SequencesExt

(* Blocks: a single byte, a run of two, a run of five with its count, and a *)
(* block that stops where a count must follow.                              *)
Pairs     == {<<1>>, <<0, 0>>, <<0, 0, 0, 0, 1>>}
Broken    == {<<0, 0, 0, 0>>, <<0, 1, 1, 1, 1>>, <<0, 0, 0, 0, 0, 0>>}

BlockOf(blk, kind) == << <<"block", UnRLE(blk)>>, <<kind, blk>> >>

Whole(blks, kind) ==
  HeaderTokens(1)
    \o FlattenSeq([b \in 1..Len(blks) |-> BlockOf(blks[b], kind)])
    \o TrailerTokens([b \in 1..Len(blks) |-> UnRLE(blks[b])])

Sounds == {Whole(<<>>, "data")}
            \cup {Whole(<<b>>, kind) : b \in Pairs, kind \in DataKinds}
            \cup {Whole(<<b, c>>, "data") : b \in Pairs, c \in {<<0, 1>>}}

WrongTokens == {<<"BZh", <<>> >>, <<"level", <<0>> >>, <<"block", <<7>> >>,
                <<"bad", <<>> >>, <<"data", <<>> >>, <<"crc", << <<7>> >> >>}

Damaged ==
  {Whole(<<b>>, "data") : b \in Broken}
    \cup {[Whole(<<b>>, "data") EXCEPT ![i] = t] :
             b \in {<<0, 0, 0, 0, 1>>}, i \in 1..6, t \in WrongTokens}
    \cup UNION {{SubSeq(s, 1, n) : n \in 1..(Len(s) - 1)} : s \in Sounds}
    \cup {s \o << <<"BZh", <<>> >> >> : s \in Sounds}

AllSources == Sounds \cup Damaged
==============================================================================
