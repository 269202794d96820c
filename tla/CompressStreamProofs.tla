------------------------- MODULE CompressStreamProofs -------------------------
(***************************************************************************)
(* Proofs about CompressStream, for every block size, run cap, counter     *)
(* width and alphabet: first of its invariants and of what a step may not  *)
(* do, then that what it writes can be read back and that its steps are    *)
(* those of BlockPipe; and about what is built on it: that a file's        *)
(* failure is always reported, that a close answered with BZ_OK leaves a   *)
(* whole stream, and that the one-call functions tell rightly what has     *)
(* happened, for every buffer size, room and length of input.              *)
(***************************************************************************)
EXTENDS OneCallCompress, CompressRefinement, StreamLemmas

USE SymbolsAssumption, RunMaxAssumption, BlockUnitAssumption,
    WordSizeAssumption, BoundsAssumption

------------------------------------------------------------------------------
(***************************************************************************)
(* The pair add_pair_to_block stores is at most five bytes long, and as    *)
(* long as the run when that is short; it holds the byte and, for a long   *)
(* run, the count.                                                         *)
(***************************************************************************)
LEMMA PairType ==
  ASSUME NEW ch \in Bytes, NEW len \in 1..RunMax
  PROVE  /\ Pair(ch, len) \in Seq(Bytes)
         /\ Len(Pair(ch, len)) <= 5
         /\ len <= 1 => Len(Pair(ch, len)) = 1
         /\ {Pair(ch, len)[i] : i \in 1..Len(Pair(ch, len))}
              = {ch} \cup (IF len < 4 THEN {} ELSE {len - 4})
<1>1. CASE len < 4
  <2>1. Pair(ch, len) = Run(ch, len)
    BY <1>1 DEF Pair
  <2>2. /\ Run(ch, len) \in Seq(Bytes)
        /\ Len(Run(ch, len)) = len
        /\ \A i \in 1..len : Run(ch, len)[i] = ch
    BY RunType
  <2>3. {Run(ch, len)[i] : i \in 1..len} = {ch}
    BY <2>2
  <2> QED BY <1>1, <2>1, <2>2, <2>3
<1>2. CASE ~(len < 4)
  <2> DEFINE p == <<ch, ch, ch, ch, len - 4>>
  <2>1. Pair(ch, len) = p
    BY <1>2 DEF Pair
  <2>2. len - 4 \in Bytes
    BY <1>2 DEF Bytes
  <2>3. p \in Seq(Bytes) /\ Len(p) = 5
    BY <2>2
  <2>4. {p[i] : i \in 1..5} = {ch} \cup {len - 4}
    <3>1. p[1] = ch /\ p[2] = ch /\ p[3] = ch /\ p[4] = ch /\ p[5] = len - 4
      OBVIOUS
    <3>2. \A i \in 1..5 : i = 1 \/ i = 2 \/ i = 3 \/ i = 4 \/ i = 5
      OBVIOUS
    <3> HIDE DEF p
    <3> QED BY <3>1, <3>2
  <2> QED BY <1>2, <2>1, <2>3, <2>4
<1> QED BY <1>1, <1>2

(* The tokens BZ2_compressBlock writes are tokens. *)
LEMMA HeaderTokenType ==
  ASSUME NEW level \in 1..9
  PROVE  HeaderTokens(level) \in Seq(Token)
<1>1. <<>> \in Seq(Bytes) /\ <<level>> \in Seq(Bytes)
  BY EmptySeq DEF Bytes
<1>2. <<"BZh", <<>> >> \in Token /\ <<"level", <<level>> >> \in Token
  BY <1>1 DEF Token
<1> QED BY <1>2 DEF HeaderTokens

LEMMA BlockTokenType ==
  ASSUME NEW crc \in Seq(Bytes), NEW blk \in Seq(Bytes)
  PROVE  BlockTokens(crc, blk) \in Seq(Token)
<1>1. <<"block", crc>> \in Token /\ <<"data", blk>> \in Token
  BY DEF Token
<1> QED BY <1>1 DEF BlockTokens

LEMMA TrailerTokenType ==
  ASSUME NEW crcs \in Seq(Seq(Bytes))
  PROVE  TrailerTokens(crcs) \in Seq(Token)
<1>1. <<>> \in Seq(Bytes)
  BY EmptySeq
<1>2. <<"end", <<>> >> \in Token /\ <<"crc", crcs>> \in Token
  BY <1>1 DEF Token
<1> QED BY <1>2 DEF TrailerTokens

------------------------------------------------------------------------------
(* Tokens in a row may be grouped either way. *)
LEMMA TokenRegroup ==
  ASSUME NEW a \in Seq(Token), NEW b \in Seq(Token), NEW d \in Seq(Token)
  PROVE  (a \o b) \o d = a \o (b \o d)
<1> DEFINE l == (a \o b) \o d
           r == a \o (b \o d)
<1>1. l \in Seq(Token) /\ r \in Seq(Token) /\ Len(l) = Len(r)
  OBVIOUS
<1>2. \A i \in 1..Len(l) : l[i] = r[i]
  OBVIOUS
<1> QED BY <1>1, <1>2, SeqEqual

(* Bytes in a row may be grouped either way. *)
LEMMA ByteRegroup ==
  ASSUME NEW a \in Seq(Bytes), NEW b \in Seq(Bytes), NEW d \in Seq(Bytes)
  PROVE  (a \o b) \o d = a \o (b \o d)
<1> DEFINE l == (a \o b) \o d
           r == a \o (b \o d)
<1>1. l \in Seq(Bytes) /\ r \in Seq(Bytes) /\ Len(l) = Len(r)
  OBVIOUS
<1>2. \A i \in 1..Len(l) : l[i] = r[i]
  OBVIOUS
<1> QED BY <1>1, <1>2, SeqEqual

(* The last token of a concatenation is that of its second part, if any. *)
LEMMA LastOfConcat ==
  ASSUME NEW S, NEW s \in Seq(S), NEW t \in Seq(S)
  PROVE  IF t = <<>> THEN s \o t = s
                     ELSE s \o t # <<>> /\ (s \o t)[Len(s \o t)] = t[Len(t)]
<1>1. CASE t = <<>>
  BY <1>1, ConcatEmptySeq
<1>2. CASE t # <<>>
  <2>1. Len(t) \in Nat \ {0} /\ Len(s) \in Nat
    BY <1>2, EmptySeq, LenProperties
  <2>2. /\ s \o t \in Seq(S) /\ Len(s \o t) = Len(s) + Len(t)
        /\ \A i \in 1..(Len(s) + Len(t)) :
              (s \o t)[i] = IF i <= Len(s) THEN s[i] ELSE t[i - Len(s)]
    BY ConcatProperties
  <2>3. (s \o t)[Len(s) + Len(t)] = t[Len(t)]
    BY <2>1, <2>2
  <2> QED BY <1>2, <2>1, <2>2, <2>3, EmptySeq
<1> QED BY <1>1, <1>2

(***************************************************************************)
(* add_pair_to_block keeps the types and adds at most five bytes, one for  *)
(* a run of length 1.                                                      *)
(***************************************************************************)
LEMMA AddPair ==
  ASSUME TypeOK, FillInv, state_in_ch < NoChar, add_pair_to_block
  PROVE  /\ blockCRC' \in Seq(Bytes) /\ block' \in Seq(Bytes)
         /\ inUse' \subseteq Bytes
         /\ Len(block') <= nblock + 5
         /\ state_in_len = 1 => Len(block') = nblock + 1
<1>1. state_in_ch \in Bytes /\ state_in_len \in 1..RunMax /\ state_in_len \in Nat
  BY DEF TypeOK, BlockType, FillInv, NoChar, Bytes
<1>2. Run(state_in_ch, state_in_len) \in Seq(Bytes)
  BY <1>1, RunType
<1>3. /\ Pair(state_in_ch, state_in_len) \in Seq(Bytes)
      /\ Len(Pair(state_in_ch, state_in_len)) <= 5
      /\ state_in_len <= 1 => Len(Pair(state_in_ch, state_in_len)) = 1
  BY <1>1, PairType
<1>4. blockCRC' \in Seq(Bytes)
  BY <1>2, ConcatProperties DEF add_pair_to_block, TypeOK, BlockType
<1>5. /\ block' \in Seq(Bytes)
      /\ Len(block') = nblock + Len(Pair(state_in_ch, state_in_len))
  BY <1>3, ConcatProperties DEF add_pair_to_block, TypeOK, BlockType, nblock
<1>6. inUse' \subseteq Bytes
  <2>1. inUse \subseteq Bytes /\ {state_in_ch} \subseteq Bytes
    BY <1>1 DEF TypeOK, BlockType
  <2>2. (IF state_in_len < 4 THEN {} ELSE {state_in_len - 4}) \subseteq Bytes
    BY <1>1 DEF Bytes
  <2> QED BY <2>1, <2>2 DEF add_pair_to_block
<1>7. nblock \in Nat /\ Len(Pair(state_in_ch, state_in_len)) \in Nat
  BY <1>3, LenProperties DEF nblock, TypeOK, BlockType
<1>8. /\ Len(block') <= nblock + 5
      /\ state_in_len = 1 => Len(block') = nblock + 1
  <2> DEFINE h == Len(Pair(state_in_ch, state_in_len))
  <2>1. h <= 5 /\ (state_in_len = 1 => h = 1) /\ h \in Nat
    BY <1>3, <1>7
  <2>2. Len(block') = nblock + h
    BY <1>5
  <2> HIDE DEF h
  <2> QED BY <1>7, <2>1, <2>2
<1> QED BY <1>4, <1>5, <1>6, <1>8

(***************************************************************************)
(* BZ2_compressBlock keeps the types; it writes nothing, or tokens the     *)
(* last of which tells whether the trailer was among them; what it writes  *)
(* goes, after what was in the bit buffer, to zbits and the bit buffer.    *)
(***************************************************************************)
LEMMA CompressBlock ==
  ASSUME TypeOK, NEW blk \in Seq(Bytes), NEW crc \in Seq(Bytes),
         NEW last \in BOOLEAN, BZ2_compressBlock(blk, crc, last),
         zbits = <<>>, blockNo <= 1 => bsBuff = <<>>
  PROVE  /\ combinedCRC' \in Seq(Seq(Bytes)) /\ zbits' \in Seq(Token)
         /\ bsBuff' \in Seq(Token) /\ stream' \in Seq(Token)
         /\ packed' = packed \o crc /\ packed' \in Seq(Bytes)
         /\ \E written \in Seq(Token) : /\ stream' = stream \o written
                                       /\ zbits' \o bsBuff' = bsBuff \o written
         /\ last => bsBuff' = <<>> /\ Sealed'
         /\ ~last /\ ~Sealed => ~Sealed'
<1> DEFINE crcs    == IF blk = <<>> THEN combinedCRC ELSE Append(combinedCRC, crc)
           header  == IF blockNo = 1 THEN HeaderTokens(blockSize100k) ELSE <<>>
           body    == IF blk = <<>> THEN <<>> ELSE BlockTokens(crc, blk)
           trailer == IF last THEN TrailerTokens(crcs) ELSE <<>>
           written == (header \o body) \o trailer
           bits    == bsBuff \o written
           whole   == IF last \/ bits = <<>> THEN Len(bits) ELSE Len(bits) - 1
<1>1. crcs \in Seq(Seq(Bytes))
  BY AppendProperties DEF TypeOK, StreamType
<1>2. header \in Seq(Token) /\ body \in Seq(Token) /\ trailer \in Seq(Token)
  <2>1. blockSize100k \in 1..9
    BY DEF TypeOK, ControlType
  <2>2. <<>> \in Seq(Token)
    BY EmptySeq
  <2>3. header \in Seq(Token)
    BY <2>1, <2>2, HeaderTokenType
  <2>4. body \in Seq(Token)
    BY <2>2, BlockTokenType
  <2>5. trailer \in Seq(Token)
    <3> HIDE DEF crcs
    <3> QED BY <1>1, <2>2, TrailerTokenType
  <2> QED BY <2>3, <2>4, <2>5
<1>3. written \in Seq(Token)
  BY <1>2, ConcatProperties
<1> HIDE DEF written
<1>4. bits \in Seq(Token) /\ whole \in 0..Len(bits) /\ (last => whole = Len(bits))
  <2>1. bits \in Seq(Token)
    BY <1>3, ConcatProperties DEF TypeOK, StreamType
  <2> HIDE DEF bits
  <2>2. Len(bits) \in Nat /\ (bits # <<>> => Len(bits) > 0)
    BY <2>1, EmptySeq, LenProperties
  <2> QED BY <2>1, <2>2
<1>5. (IF blockNo = 1 THEN <<>> ELSE bsBuff) = bsBuff
  <2>1. blockNo = 1 => blockNo <= 1
    OBVIOUS
  <2> QED BY <2>1
<1>6. /\ combinedCRC' = crcs
      /\ zbits' = <<>> \o SubSeq(bits, 1, whole)
      /\ bsBuff' = SubSeq(bits, whole + 1, Len(bits))
      /\ stream' = stream \o written
      /\ packed' = packed \o crc
  <2>1. (IF blk # <<>> /\ blockNo > 1 THEN <<>> ELSE zbits) = <<>>
    OBVIOUS
  <2> DEFINE kept == IF blk # <<>> /\ blockNo > 1 THEN <<>> ELSE zbits
             b    == (IF blockNo = 1 THEN <<>> ELSE bsBuff) \o written
             w    == IF last \/ b = <<>> THEN Len(b) ELSE Len(b) - 1
  <2>2. /\ combinedCRC' = crcs
        /\ zbits' = kept \o SubSeq(b, 1, w)
        /\ bsBuff' = SubSeq(b, w + 1, Len(b))
        /\ stream' = stream \o written
        /\ packed' = packed \o crc
    BY Zenon DEF BZ2_compressBlock, written
  <2>3. kept = <<>> /\ b = bits
    BY <1>5, <2>1
  <2>4. w = whole
    BY <2>3
  <2> HIDE DEF kept, b, w, bits, whole, crcs
  <2> QED BY <2>2, <2>3, <2>4
<1> HIDE DEF bits, whole, crcs
<1>7. /\ SubSeq(bits, 1, whole) \in Seq(Token)
      /\ bsBuff' \in Seq(Token)
      /\ SubSeq(bits, 1, whole) \o bsBuff' = bits
      /\ last => bsBuff' = <<>>
  BY <1>4, <1>6, CutInTwo
<1>8. zbits' = SubSeq(bits, 1, whole)
  BY <1>6, <1>7, ConcatEmptySeq
<1>9. stream' \in Seq(Token) /\ packed' \in Seq(Bytes)
  BY <1>3, <1>6, ConcatProperties DEF TypeOK, StreamType
<1>10. /\ last => Sealed'
       /\ ~last /\ ~Sealed => ~Sealed'
  <2> HIDE DEF header, body
  <2>1. header \o body \in Seq(Token)
    BY <1>2, ConcatProperties
  <2>2. stream \in Seq(Token)
    BY DEF TypeOK, StreamType
  <2>3. ASSUME last PROVE Sealed'
    <3>1. trailer = TrailerTokens(crcs)
      BY <2>3
    <3>2. trailer # <<>> /\ trailer[Len(trailer)] = <<"crc", crcs>>
      BY <3>1 DEF TrailerTokens
    <3> HIDE DEF trailer
    <3>3. written # <<>> /\ written[Len(written)] = <<"crc", crcs>>
      BY <1>2, <2>1, <3>2, LastOfConcat DEF written
    <3>4. stream' # <<>> /\ stream'[Len(stream')] = <<"crc", crcs>>
      BY <1>3, <1>6, <2>2, <3>3, LastOfConcat
    <3> QED BY <3>4 DEF Sealed
  <2>4. ASSUME ~last, ~Sealed PROVE ~Sealed'
    <3>1. trailer = <<>>
      BY <2>4
    <3>2. written = header \o body
      BY <2>1, <3>1, ConcatEmptySeq DEF written
    <3>3. header # <<>> => header[Len(header)][1] # "crc"
      BY DEF header, HeaderTokens
    <3>4. body # <<>> => body[Len(body)][1] # "crc"
      BY DEF body, BlockTokens
    <3>5. written # <<>> => written[Len(written)][1] # "crc"
      BY <1>2, <3>2, <3>3, <3>4, LastOfConcat
    <3> QED BY <1>3, <1>6, <2>2, <2>4, <3>5, LastOfConcat, SMTT(30) DEF Sealed
  <2> QED BY <2>3, <2>4
<1>11. \E w \in Seq(Token) : stream' = stream \o w /\ zbits' \o bsBuff' = bsBuff \o w
  BY <1>3, <1>6, <1>7, <1>8 DEF bits
<1> QED BY <1>1, <1>6, <1>7, <1>8, <1>9, <1>10, <1>11

------------------------------------------------------------------------------
(***************************************************************************)
(* The invariant holds initially and every action preserves it: one lemma  *)
(* per action, one step per part of the invariant it can disturb.          *)
(***************************************************************************)
LEMMA MaxPositive ==
  ASSUME NEW k \in 1..9
  PROVE  BlockUnit * k - 19 \in Nat /\ BlockUnit * k - 19 >= 1
<1>1. \/ k = 1 \/ k = 2 \/ k = 3 \/ k = 4 \/ k = 5
      \/ k = 6 \/ k = 7 \/ k = 8 \/ k = 9
  OBVIOUS
<1> QED BY <1>1

LEMMA TickType ==
  ASSUME NEW t \in [lo : 0..(WordSize - 1), hi : Nat]
  PROVE  Tick(t) \in [lo : 0..(WordSize - 1), hi : Nat]
BY DEF Tick

LEMMA Empties == /\ <<>> \in Seq(Bytes) /\ <<>> \in Seq(Seq(Bytes))
                 /\ <<>> \in Seq(Token)
                 /\ Len(<<>>) = 0
BY EmptySeq

LEMMA InitInv == Init => IInv
<1> SUFFICES ASSUME Init PROVE IInv
  OBVIOUS
<1>0. Len(<<>>) = 0
  BY Empties
<1>1. TypeOK
  <2>1. StrmType
    BY DEF Init, StrmType, Zero64
  <2>2. ControlType
    <3>1. blockSize100k \in 1..9 /\ blockNo \in Nat /\ heap \subseteq Buffers
      BY DEF Init
    <3>2. mode \in Modes /\ ret \in Codes
      BY DEF Init, Modes, Codes
    <3> QED BY <3>1, <3>2 DEF Init, ControlType
  <2>3. BlockType
    BY Empties DEF Init, BlockType
  <2>4. StreamType
    BY Empties DEF Init, StreamType
  <2> QED BY <2>1, <2>2, <2>3, <2>4 DEF TypeOK
<1>2. FillInv /\ BlockFits
  <2>1. nblockMAX \in Nat /\ nblockMAX >= 1
    BY <1>1, MaxPositive DEF nblockMAX, TypeOK, ControlType
  <2> QED BY <1>0, <2>1 DEF Init, FillInv, BlockFits, nblock
<1>3. LoopInv /\ BitInv
  BY <1>0 DEF Init, LoopInv, BitInv, Sealed, isempty_RL, NoChar, numZ
<1>4. NoInputLost
  BY Empties, ConcatEmptySeq DEF Init, NoInputLost, OpenBlock, PendingRun, NoChar
<1>5. NoOutputLost
  <2>1. SubSeq(<<>>, 0 + 1, Len(<<>>)) = <<>>
    BY <1>0, SubSeqEmpty
  <2> QED BY Empties, <2>1, ConcatEmptySeq DEF Init, NoOutputLost, numZ
<1> QED BY <1>1, <1>2, <1>3, <1>4, <1>5 DEF IInv

LEMMA CallStep ==
  ASSUME IInv, NEW action, NEW ai \in Nat, NEW ao \in Nat,
         BZ2_bzCompress(action, ai, ao)
  PROVE  IInv'
<1>0. TypeOK /\ FillInv /\ LoopInv /\ BitInv /\ BlockFits /\ NoInputLost /\ NoOutputLost
  BY DEF IInv
<1>1. UNCHANGED <<total_in, total_out, state, state_in_ch, state_in_len,
        blockSize100k, heap, block, inUse, blockCRC, blockNo, zbits, bsBuff,
        combinedCRC, stream, packed, state_out_pos, fed, out>>
  BY DEF BZ2_bzCompress, runVars, lifeVars, blockVars, bitVars
<1>2. avail_in' = ai /\ avail_out' = ao
  BY DEF BZ2_bzCompress
<1>3. \/ UNCHANGED <<pc, progress, mode, avail_in_expect>> /\ ret' \in {"PARAM_ERROR", "SEQUENCE_ERROR"}
      \/ /\ mode' \in {"RUNNING", "FLUSHING", "FINISHING"}
         /\ pc' = "loop" /\ progress' = FALSE /\ ret' = "none"
         /\ mode # "IDLE" /\ mode # "NONE"
         /\ avail_in_expect' = avail_in_expect \/ avail_in_expect' = ai
         /\ mode' # mode => mode = "RUNNING"
         /\ mode # "RUNNING" => avail_in_expect' = avail_in_expect
  BY DEF BZ2_bzCompress, Refuse, Enter
<1>4. TypeOK'
  <2>1. StrmType'
    BY <1>0, <1>1, <1>2, <1>3 DEF TypeOK, StrmType
  <2>2. ControlType'
    BY <1>0, <1>1, <1>3 DEF TypeOK, ControlType, Modes, Codes
  <2>3. BlockType' /\ StreamType'
    BY <1>0, <1>1 DEF TypeOK, BlockType, StreamType
  <2> QED BY <2>1, <2>2, <2>3 DEF TypeOK
<1>5. FillInv' /\ BlockFits'
  BY <1>0, <1>1 DEF FillInv, BlockFits, nblock, nblockMAX
<1>6. LoopInv'
  BY <1>0, <1>1, <1>3 DEF LoopInv, Sealed, isempty_RL, numZ, FreshBlock
<1>7. BitInv'
  BY <1>0, <1>1, <1>3 DEF BitInv, Sealed, isempty_RL, numZ
<1>8. NoInputLost' /\ NoOutputLost'
  BY <1>0, <1>1 DEF NoInputLost, NoOutputLost, OpenBlock, PendingRun, numZ
<1> QED BY <1>4, <1>5, <1>6, <1>7, <1>8 DEF IInv

LEMMA SetUpStep ==
  ASSUME IInv, NEW level, NEW got \in SUBSET Buffers, SetUp(level, got),
         avail_in' \in Nat, avail_out' \in Nat
  PROVE  IInv'
<1>0. TypeOK /\ FillInv /\ LoopInv /\ BitInv /\ BlockFits /\ NoInputLost /\ NoOutputLost
  BY DEF IInv
<1>1. /\ pc = "client" /\ mode = "NONE" /\ ret' \in {"PARAM_ERROR", "MEM_ERROR", "OK"}
      /\ UNCHANGED <<pc, progress, avail_in_expect,
           combinedCRC, bsBuff, fed, packed, stream, out>>
  BY DEF SetUp
<1>2. heap' \subseteq Buffers
  BY <1>0 DEF SetUp, lifeVars, TypeOK, ControlType
<1>3. CASE UNCHANGED <<total_in, total_out, mode, state, state_in_ch, state_in_len,
             block, inUse, blockCRC, blockNo, zbits, state_out_pos, blockSize100k>>
  <2>1. TypeOK'
    <3>1. StrmType' /\ BlockType' /\ StreamType'
      BY <1>0, <1>1, <1>3 DEF TypeOK, StrmType, BlockType, StreamType
    <3>2. ControlType'
      BY <1>0, <1>1, <1>2, <1>3 DEF TypeOK, ControlType, Codes
    <3> QED BY <3>1, <3>2 DEF TypeOK
  <2>2. FillInv' /\ BlockFits'
    BY <1>0, <1>3 DEF FillInv, BlockFits, nblock, nblockMAX
  <2>3. LoopInv'
    BY <1>0, <1>1, <1>3 DEF LoopInv, Sealed, isempty_RL, numZ, FreshBlock
  <2>4. BitInv'
    BY <1>0, <1>1, <1>3 DEF BitInv, Sealed, isempty_RL, numZ
  <2>5. NoInputLost' /\ NoOutputLost'
    BY <1>0, <1>1, <1>3 DEF NoInputLost, NoOutputLost, OpenBlock, PendingRun, numZ
  <2> QED BY <2>1, <2>2, <2>3, <2>4, <2>5 DEF IInv
<1>4. CASE /\ mode' = "RUNNING" /\ state' = "INPUT" /\ blockSize100k' = level /\ level \in 1..9
           /\ total_in' = Zero64 /\ total_out' = Zero64
           /\ state_in_ch' = NoChar /\ state_in_len' = 0
           /\ block' = <<>> /\ zbits' = <<>> /\ state_out_pos' = 0 /\ blockCRC' = <<>>
           /\ inUse' = {} /\ blockNo' = blockNo + 1
  <2>0. /\ Len(<<>>) = 0 /\ NoChar = 256
        /\ state = "INPUT" /\ blockNo = 0 /\ zbits = <<>> /\ state_out_pos = 0
        /\ blockCRC = <<>> /\ bsBuff = <<>> /\ isempty_RL /\ ~Sealed
    BY <1>0, <1>1, Empties DEF BitInv, LoopInv, NoChar
  <2>1. TypeOK'
    <3>1. StrmType'
      BY <1>0, <1>1, <1>4 DEF TypeOK, StrmType, Zero64
    <3>2. ControlType'
      BY <1>0, <1>1, <1>2, <1>4 DEF TypeOK, ControlType, Codes, Modes
    <3>3. BlockType'
      BY <1>0, <1>1, <1>4, Empties DEF TypeOK, BlockType
    <3>4. StreamType'
      BY <1>0, <1>1, <1>4, Empties DEF TypeOK, StreamType
    <3> QED BY <3>1, <3>2, <3>3, <3>4 DEF TypeOK
  <2>2. FillInv' /\ BlockFits'
    <3> DEFINE max == nblockMAX'
    <3>1. max \in Nat /\ max >= 1
      BY <2>1, MaxPositive DEF nblockMAX, TypeOK, ControlType
    <3>2. Len(block') = 0
      BY <1>4, <2>0
    <3> HIDE DEF max
    <3>3. ~(Len(block') > 0) /\ ~(Len(block') >= max) /\ Len(block') <= max + 5
      BY <3>1, <3>2
    <3> QED BY <1>4, <3>3 DEF FillInv, BlockFits, nblock, max
  <2>3. LoopInv'
    BY <1>1, <1>4, <2>0 DEF LoopInv, Sealed, isempty_RL
  <2>4. BitInv'
    BY <1>1, <1>4, <2>0 DEF BitInv, Sealed, numZ
  <2>5. NoInputLost'
    <3>1. state_in_ch = NoChar
      BY <1>0, <2>0 DEF isempty_RL, FillInv, TypeOK, BlockType, Bytes
    <3> QED BY <1>0, <1>1, <1>4, <2>0, <3>1 DEF NoInputLost, OpenBlock, PendingRun
  <2>6. NoOutputLost'
    BY <1>0, <1>1, <1>4, <2>0 DEF NoOutputLost, numZ
  <2> QED BY <2>1, <2>2, <2>3, <2>4, <2>5, <2>6 DEF IInv
<1> QED BY <1>3, <1>4 DEF SetUp, prepare_new_block, runVars, blockVars, lifeVars

LEMMA CompressInitStep ==
  ASSUME IInv, NEW level, NEW got \in SUBSET Buffers, BZ2_bzCompressInit(level, got)
  PROVE  IInv'
<1>1. avail_in \in Nat /\ avail_out \in Nat
  BY DEF IInv, TypeOK, StrmType
<1> QED BY <1>1, SetUpStep DEF BZ2_bzCompressInit

LEMMA EndStreamStep == IInv /\ pc = "client" /\ EndStream => IInv'
<1> SUFFICES ASSUME IInv, pc = "client", EndStream PROVE IInv'
  OBVIOUS
<1>0. TypeOK /\ Len(<<>>) = 0
  BY Empties DEF IInv
<1>1. TypeOK'
  <2>1. StrmType'
    BY <1>0 DEF TypeOK, StrmType, EndStream
  <2>2. ControlType'
    <3>1. blockSize100k' \in 1..9 /\ blockNo' \in Nat /\ heap' \subseteq Buffers
      BY <1>0 DEF TypeOK, ControlType, EndStream
    <3>2. mode' \in Modes /\ ret' \in Codes
      BY DEF Modes, Codes, EndStream
    <3> QED BY <1>0, <3>1, <3>2 DEF TypeOK, ControlType, EndStream
  <2>3. BlockType'
    BY Empties DEF BlockType, EndStream
  <2>4. StreamType'
    BY Empties DEF StreamType, EndStream
  <2> QED BY <2>1, <2>2, <2>3, <2>4 DEF TypeOK
<1>2. FillInv' /\ BlockFits'
  <2> DEFINE max == nblockMAX'
  <2>1. max \in Nat /\ max >= 1
    BY <1>1, MaxPositive DEF nblockMAX, TypeOK, ControlType
  <2>2. Len(block') = 0
    BY <1>0 DEF EndStream
  <2> HIDE DEF max
  <2>3. ~(Len(block') > 0) /\ ~(Len(block') >= max) /\ Len(block') <= max + 5
    BY <2>1, <2>2
  <2> QED BY <2>3 DEF FillInv, BlockFits, nblock, max, EndStream
<1>3. LoopInv' /\ BitInv'
  BY <1>0 DEF LoopInv, BitInv, EndStream, Sealed, isempty_RL, NoChar, numZ
<1>4. NoInputLost'
  BY Empties, ConcatEmptySeq DEF EndStream, NoInputLost, OpenBlock, PendingRun, NoChar
<1>5. NoOutputLost'
  <2>1. SubSeq(<<>>, 0 + 1, Len(<<>>)) = <<>>
    BY <1>0, SubSeqEmpty
  <2> QED BY Empties, <2>1, ConcatEmptySeq DEF EndStream, NoOutputLost, numZ
<1> QED BY <1>1, <1>2, <1>3, <1>4, <1>5 DEF IInv

LEMMA EndNothingStep == IInv /\ EndNothing => IInv'
<1> SUFFICES ASSUME IInv, EndNothing PROVE IInv'
  OBVIOUS
<1>0. TypeOK /\ FillInv /\ LoopInv /\ BitInv /\ BlockFits /\ NoInputLost /\ NoOutputLost
  BY DEF IInv
<1>1. /\ ret' = "PARAM_ERROR"
      /\ UNCHANGED <<avail_in, avail_out, total_in, total_out, mode, state,
           avail_in_expect, state_in_ch, state_in_len, blockSize100k, block,
           inUse, blockCRC, combinedCRC, blockNo, zbits, state_out_pos, bsBuff,
           heap, pc, progress, fed, packed, stream, out>>
  BY DEF EndNothing, runVars, lifeVars, blockVars
<1>2. TypeOK'
  <2>1. StrmType' /\ BlockType' /\ StreamType'
    BY <1>0, <1>1 DEF TypeOK, StrmType, BlockType, StreamType
  <2>2. ControlType'
    BY <1>0, <1>1 DEF TypeOK, ControlType, Codes
  <2> QED BY <2>1, <2>2 DEF TypeOK
<1>3. FillInv' /\ BlockFits'
  BY <1>0, <1>1 DEF FillInv, BlockFits, nblock, nblockMAX
<1>4. LoopInv' /\ BitInv'
  BY <1>0, <1>1 DEF LoopInv, BitInv, Sealed, isempty_RL, numZ, FreshBlock
<1>5. NoInputLost' /\ NoOutputLost'
  BY <1>0, <1>1 DEF NoInputLost, NoOutputLost, OpenBlock, PendingRun, numZ
<1> QED BY <1>2, <1>3, <1>4, <1>5 DEF IInv

LEMMA CopyOutputStep == IInv /\ CopyOutput => IInv'
<1> SUFFICES ASSUME IInv, CopyOutput PROVE IInv'
  OBVIOUS
<1>0. TypeOK /\ FillInv /\ LoopInv /\ BitInv /\ BlockFits /\ NoInputLost /\ NoOutputLost
  BY DEF IInv
<1>1. /\ pc = "loop" /\ state = "OUTPUT" /\ avail_out > 0 /\ state_out_pos < numZ
      /\ out' = Append(out, zbits[state_out_pos + 1])
      /\ state_out_pos' = state_out_pos + 1
      /\ avail_out' = avail_out - 1 /\ total_out' = Tick(total_out) /\ progress' = TRUE
      /\ UNCHANGED <<avail_in, avail_in_expect, total_in, fed, mode, state,
           state_in_ch, state_in_len, blockSize100k, heap, block, inUse, blockCRC,
           blockNo, zbits, bsBuff, combinedCRC, stream, packed, pc, ret>>
  BY DEF CopyOutput, CanCopyOut, inVars, runVars, lifeVars, blockVars, bitVars
<1>2. /\ zbits \in Seq(Token) /\ out \in Seq(Token) /\ bsBuff \in Seq(Token)
      /\ state_out_pos \in Nat /\ numZ \in Nat /\ state_out_pos + 1 \in 1..numZ
  BY <1>0, <1>1, LenProperties DEF TypeOK, StreamType, numZ
<1>3. zbits[state_out_pos + 1] \in Token
  BY <1>2, ElementOfSeq DEF numZ
<1>4. TypeOK'
  <2>1. StrmType'
    BY <1>0, <1>1, TickType DEF TypeOK, StrmType
  <2>2. ControlType' /\ BlockType'
    BY <1>0, <1>1 DEF TypeOK, ControlType, BlockType
  <2>3. StreamType'
    BY <1>0, <1>1, <1>2, <1>3, AppendProperties DEF TypeOK, StreamType
  <2> QED BY <2>1, <2>2, <2>3 DEF TypeOK
<1>5. FillInv' /\ BlockFits'
  BY <1>0, <1>1 DEF FillInv, BlockFits, nblock, nblockMAX
<1>6. LoopInv'
  BY <1>0, <1>1, <1>2 DEF LoopInv, Sealed, isempty_RL, numZ, FreshBlock
<1>7. BitInv'
  BY <1>0, <1>1, <1>2 DEF BitInv, Sealed, isempty_RL, numZ
<1>8. NoInputLost'
  BY <1>0, <1>1 DEF NoInputLost, OpenBlock, PendingRun
<1>9. NoOutputLost'
  <2> DEFINE t == zbits[state_out_pos + 1]
             r == SubSeq(zbits, state_out_pos + 1, numZ)
             q == SubSeq(zbits, state_out_pos + 1 + 1, numZ)
  <2>1. stream = (out \o r) \o bsBuff
    BY <1>0 DEF NoOutputLost
  <2>2. r = <<t>> \o q
    BY <1>2, SubSeqRecursiveFirst DEF numZ
  <2>3. q \in Seq(Token)
    <3>1. \A i \in (state_out_pos + 1 + 1)..numZ : zbits[i] \in Token
      BY <1>2, ElementOfSeq DEF numZ
    <3> QED BY <1>2, <3>1, SubSeqProperties
  <2>4. <<t>> \in Seq(Token) /\ Append(out, t) = out \o <<t>>
    BY <1>2, <1>3, AppendIsConcat
  <2> HIDE DEF t, r, q
  <2>5. out \o r = Append(out, t) \o q
    <3>1. (out \o <<t>>) \o q = out \o (<<t>> \o q)
      BY <1>2, <2>3, <2>4, TokenRegroup
    <3> QED BY <2>2, <2>4, <3>1
  <2>6. stream = (Append(out, t) \o q) \o bsBuff
    BY <2>1, <2>5
  <2> QED BY <1>1, <2>6 DEF NoOutputLost, numZ, t, q
<1> QED BY <1>4, <1>5, <1>6, <1>7, <1>8, <1>9 DEF IInv

LEMMA AfterOutputStep == IInv /\ AfterOutput => IInv'
<1> SUFFICES ASSUME IInv, AfterOutput PROVE IInv'
  OBVIOUS
<1>0. TypeOK /\ FillInv /\ LoopInv /\ BitInv /\ BlockFits /\ NoInputLost /\ NoOutputLost
  BY DEF IInv
<1>1. /\ pc = "loop" /\ state = "OUTPUT"
      /\ UNCHANGED <<avail_in, avail_in_expect, total_in, fed, avail_out, total_out,
           mode, state_in_ch, state_in_len, blockSize100k, heap, combinedCRC, bsBuff,
           stream, packed, progress, ret, out>>
  BY DEF AfterOutput, inVars, runVars, lifeVars
<1>2. CASE \/ state_out_pos < numZ
           \/ mode = "FINISHING" /\ avail_in_expect = 0 /\ isempty_RL
  <2>1. /\ pc' = "ret"
        /\ UNCHANGED <<state, block, inUse, blockCRC, blockNo, zbits, state_out_pos>>
    BY <1>2 DEF AfterOutput, blockVars
  <2>2. TypeOK'
    <3>1. StrmType' /\ BlockType' /\ StreamType'
      BY <1>0, <1>1, <2>1 DEF TypeOK, StrmType, BlockType, StreamType
    <3>2. ControlType'
      BY <1>0, <1>1, <2>1 DEF TypeOK, ControlType
    <3> QED BY <3>1, <3>2 DEF TypeOK
  <2>3. FillInv' /\ BlockFits'
    BY <1>0, <1>1, <2>1 DEF FillInv, BlockFits, nblock, nblockMAX
  <2>4. LoopInv'
    BY <1>0, <1>1, <1>2, <2>1 DEF LoopInv, Sealed, isempty_RL, numZ
  <2>5. BitInv'
    BY <1>0, <1>1, <2>1 DEF BitInv, Sealed, isempty_RL, numZ
  <2>6. NoInputLost' /\ NoOutputLost'
    BY <1>0, <1>1, <2>1 DEF NoInputLost, NoOutputLost, OpenBlock, PendingRun, numZ
  <2> QED BY <2>2, <2>3, <2>4, <2>5, <2>6 DEF IInv
<1>3. CASE ~ \/ state_out_pos < numZ
             \/ mode = "FINISHING" /\ avail_in_expect = 0 /\ isempty_RL
  <2>1. /\ block' = <<>> /\ inUse' = {} /\ blockCRC' = <<>> /\ zbits' = <<>>
        /\ state_out_pos' = 0 /\ blockNo' = blockNo + 1 /\ state' = "INPUT"
        /\ pc' = IF mode = "FLUSHING" /\ avail_in_expect = 0 /\ isempty_RL
                 THEN "ret" ELSE "loop"
    BY <1>3 DEF AfterOutput, prepare_new_block
  <2>2. ~Sealed /\ ~Sealed' /\ mode # "NONE" /\ mode # "IDLE" /\ blockNo \in Nat
    BY <1>0, <1>1, <1>3 DEF LoopInv, BitInv, Sealed, TypeOK, ControlType
  <2>3. TypeOK'
    <3>1. StrmType'
      BY <1>0, <1>1 DEF TypeOK, StrmType
    <3>2. ControlType'
      BY <1>0, <1>1, <2>1 DEF TypeOK, ControlType
    <3>3. BlockType' /\ StreamType'
      BY <1>0, <1>1, <2>1, Empties DEF TypeOK, BlockType, StreamType
    <3> QED BY <3>1, <3>2, <3>3 DEF TypeOK
  <2>4. FillInv' /\ BlockFits'
    <3> DEFINE max == nblockMAX'
    <3>1. max \in Nat /\ max >= 1
      BY <2>3, MaxPositive DEF nblockMAX, TypeOK, ControlType
    <3>2. Len(block') = 0
      BY <2>1, Empties
    <3> HIDE DEF max
    <3>3. ~(Len(block') > 0) /\ ~(Len(block') >= max) /\ Len(block') <= max + 5
      BY <3>1, <3>2
    <3> QED BY <1>0, <1>1, <3>3 DEF FillInv, BlockFits, nblock, max
  <2>5. LoopInv'
    BY <1>0, <1>1, <2>1, <2>2 DEF LoopInv, FreshBlock, isempty_RL, TypeOK, ControlType
  <2>6. BitInv'
    <3>1. mode' # "NONE" /\ Len(<<>>) = 0
      BY <1>1, <2>2, Empties
    <3>2. blockNo' >= 2
      BY <1>0, <2>1, <2>2 DEF BitInv
    <3> QED BY <1>1, <2>1, <2>2, <3>1, <3>2 DEF BitInv, numZ
  <2>7. NoInputLost'
    BY <1>0, <1>1, <2>1 DEF NoInputLost, OpenBlock, PendingRun
  <2>8. NoOutputLost'
    <3>1. SubSeq(zbits, state_out_pos + 1, numZ) = <<>>
      <4>1. state_out_pos + 1 \in Int /\ numZ \in Int /\ numZ < state_out_pos + 1
        BY <1>0, <1>3, LenProperties DEF TypeOK, StreamType, numZ
      <4> QED BY <4>1, SubSeqEmpty
    <3>2. SubSeq(<<>>, 0 + 1, Len(<<>>)) = <<>>
      BY Empties, SubSeqEmpty
    <3> QED BY <1>0, <1>1, <2>1, <3>1, <3>2 DEF NoOutputLost, numZ
  <2> QED BY <2>3, <2>4, <2>5, <2>6, <2>7, <2>8 DEF IInv
<1> QED BY <1>2, <1>3

LEMMA CopyInputStep ==
  ASSUME IInv, NEW c \in Symbols, CopyInput(c)
  PROVE  IInv'
<1>0. TypeOK /\ FillInv /\ LoopInv /\ BitInv /\ BlockFits /\ NoInputLost /\ NoOutputLost
  BY DEF IInv
<1>1. /\ pc = "loop" /\ state = "INPUT" /\ ~BlockFull /\ avail_in > 0
      /\ mode # "RUNNING" => avail_in_expect > 0
      /\ fed' = Append(fed, c) /\ avail_in' = avail_in - 1 /\ total_in' = Tick(total_in)
      /\ avail_in_expect' = IF mode = "RUNNING" THEN avail_in_expect
                                               ELSE avail_in_expect - 1
      /\ progress' = TRUE
      /\ UNCHANGED <<state_out_pos, out, total_out, avail_out, mode, state,
           blockSize100k, heap, blockNo, zbits, bsBuff, combinedCRC, stream, packed,
           pc, ret>>
  BY DEF CopyInput, CanCopyIn, outVars, lifeVars, bitVars
<1>2. /\ c \in Bytes /\ fed \in Seq(Bytes) /\ packed \in Seq(Bytes)
      /\ blockCRC \in Seq(Bytes) /\ block \in Seq(Bytes)
      /\ packed \o blockCRC \in Seq(Bytes)
      /\ state_in_ch \in Bytes \cup {NoChar} /\ state_in_len \in 0..RunMax
      /\ NoChar = 256 /\ (state_in_ch = NoChar <=> state_in_len = 0)
  BY <1>0, ConcatProperties DEF TypeOK, BlockType, StreamType, Bytes, NoChar, FillInv
<1>2a. packed \in Seq(Bytes) /\ blockCRC \in Seq(Bytes)
  BY <1>2
<1>2b. packed \o blockCRC \in Seq(Bytes)
  BY <1>2
<1>3. nblock \in Nat /\ nblockMAX \in Nat /\ nblockMAX >= 1
  BY <1>0, <1>2, LenProperties, MaxPositive DEF TypeOK, ControlType, nblock, nblockMAX
<1>4. ~Sealed
  BY <1>0, <1>1 DEF LoopInv
<1>5. fed = (packed \o blockCRC) \o PendingRun
  BY <1>0, <1>1 DEF NoInputLost, OpenBlock
<1>6. fed' = fed \o <<c>> /\ fed' \in Seq(Bytes) /\ <<c>> \in Seq(Bytes)
  BY <1>1, <1>2, AppendIsConcat, AppendProperties
<1>6a. <<c>> \in Seq(Bytes)
  BY <1>6
<1>7. AddCharToBlock(c)
  BY DEF CopyInput
\* What the three outcomes of ADD_CHAR_TO_BLOCK have in common.
<1> DEFINE Typed  == /\ block' \in Seq(Bytes) /\ blockCRC' \in Seq(Bytes)
                     /\ inUse' \subseteq Bytes /\ state_in_ch' \in Bytes
                     /\ state_in_len' \in 1..RunMax
           Filled == \/ Len(block') = nblock
                     \/ Len(block') <= nblock + 5 /\ state_in_len' = 1
           Read   == fed' = (packed \o blockCRC') \o Run(state_in_ch', state_in_len')
           Stored == (c # state_in_ch \/ state_in_len = RunMax) /\ state_in_ch < NoChar
           Begun  == (c # state_in_ch \/ state_in_len = RunMax) /\ ~(state_in_ch < NoChar)
           Grown  == c = state_in_ch /\ state_in_len # RunMax
<1>8. ASSUME Stored PROVE Typed /\ Filled /\ Read
  <2>1. add_pair_to_block /\ state_in_ch' = c /\ state_in_len' = 1
    BY <1>7, <1>8 DEF AddCharToBlock
  <2>2. /\ blockCRC' \in Seq(Bytes) /\ block' \in Seq(Bytes) /\ inUse' \subseteq Bytes
        /\ Len(block') <= nblock + 5
    BY <1>0, <1>8, <2>1, AddPair
  <2> DEFINE r == Run(state_in_ch, state_in_len)
  <2>3. state_in_ch \in Bytes /\ state_in_len \in Nat
    BY <1>2, <1>8
  <2>4. r \in Seq(Bytes)
    BY <2>3, RunType
  <2>5. PendingRun = r
    BY <1>8 DEF PendingRun
  <2>6. blockCRC' = blockCRC \o r
    BY <2>1 DEF add_pair_to_block
  <2>7. fed' = (packed \o blockCRC') \o <<c>>
    <3> HIDE DEF r
    <3>1. (packed \o blockCRC) \o r = packed \o (blockCRC \o r)
      BY <1>2a, <2>4, ByteRegroup
    <3> QED BY <1>5, <1>6, <2>5, <2>6, <3>1
  <2>8. Run(state_in_ch', state_in_len') = <<c>>
    BY <2>1, RunOfOne
  <2>9. Typed
    BY <1>2, <2>1, <2>2
  <2>10. Filled
    BY <2>1, <2>2
  <2>11. Read
    BY <2>7, <2>8
  <2> HIDE DEF Typed, Filled, Read
  <2> QED BY <2>9, <2>10, <2>11
<1>9. ASSUME Begun PROVE Typed /\ Filled /\ Read
  <2>1. UNCHANGED <<block, inUse, blockCRC>> /\ state_in_ch' = c /\ state_in_len' = 1
    <3>1. (IF state_in_ch < NoChar THEN add_pair_to_block ELSE UNCHANGED blockVars)
             /\ state_in_ch' = c /\ state_in_len' = 1
      BY <1>7, <1>9 DEF AddCharToBlock
    <3> QED BY <1>9, <3>1 DEF blockVars
  <2>2. PendingRun = <<>>
    BY <1>9 DEF PendingRun
  <2>3. fed = packed \o blockCRC
    BY <1>2, <1>5, <2>2, ConcatEmptySeq
  <2>4. Run(state_in_ch', state_in_len') = <<c>>
    BY <2>1, RunOfOne
  <2>5. Typed
    BY <1>0, <1>2, <2>1 DEF TypeOK, BlockType
  <2>6. Filled
    BY <2>1 DEF nblock
  <2>7. Read
    BY <1>6, <2>1, <2>3, <2>4
  <2> HIDE DEF Typed, Filled, Read
  <2> QED BY <2>5, <2>6, <2>7
<1>10. ASSUME Grown PROVE Typed /\ Filled /\ Read
  <2>1. /\ UNCHANGED <<block, inUse, blockCRC, state_in_ch>>
        /\ state_in_len' = state_in_len + 1
    BY <1>7, <1>10 DEF AddCharToBlock, blockVars
  <2>2. c < NoChar /\ state_in_len \in Nat /\ state_in_len + 1 \in 1..RunMax
    BY <1>2, <1>10 DEF Bytes
  <2> DEFINE r == Run(c, state_in_len)
  <2>3. PendingRun = r
    BY <1>10, <2>2 DEF PendingRun
  <2>4. r \in Seq(Bytes)
    BY <1>2, <2>2, RunType
  <2>5. Run(c, state_in_len + 1) = r \o <<c>>
    <3>1. Run(c, state_in_len + 1) = Append(r, c)
      BY <1>2, <2>2, RunGrows
    <3> HIDE DEF r
    <3>2. c \in Bytes
      BY <1>2
    <3> QED BY <2>4, <3>1, <3>2, AppendIsConcat
  <2>6. fed' = (packed \o blockCRC) \o (r \o <<c>>)
    <3> HIDE DEF r
    <3>1. ((packed \o blockCRC) \o r) \o <<c>> = (packed \o blockCRC) \o (r \o <<c>>)
      BY <1>2b, <1>6a, <2>4, ByteRegroup
    <3> QED BY <1>5, <1>6, <2>3, <3>1
  <2>7. Typed
    BY <1>0, <1>2, <1>10, <2>1, <2>2 DEF TypeOK, BlockType
  <2>8. Filled
    BY <2>1 DEF nblock
  <2>9. Read
    <3> HIDE DEF r
    <3>1. Run(state_in_ch', state_in_len') = r \o <<c>>
      BY <1>10, <2>1, <2>5
    <3> QED BY <2>1, <2>6, <3>1
  <2> HIDE DEF Typed, Filled, Read
  <2> QED BY <2>7, <2>8, <2>9
<1>11. Typed /\ Filled /\ Read
  <2>1. Stored \/ Begun \/ Grown
    OBVIOUS
  <2> HIDE DEF Typed, Filled, Read, Stored, Begun, Grown
  <2> QED BY <1>8, <1>9, <1>10, <2>1
<1>12. TypeOK'
  <2>1. StrmType'
    BY <1>0, <1>1, TickType DEF TypeOK, StrmType
  <2>2. ControlType' /\ StreamType'
    BY <1>0, <1>1 DEF TypeOK, ControlType, StreamType
  <2>3. BlockType'
    BY <1>6, <1>11 DEF BlockType
  <2> QED BY <2>1, <2>2, <2>3 DEF TypeOK
<1>13. FillInv' /\ BlockFits'
  <2> DEFINE max == nblockMAX  h == nblock
  <2>1. max \in Nat /\ h \in Nat /\ h < max /\ Len(block') \in Nat
    BY <1>1, <1>3, <1>11, LenProperties DEF BlockFull
  <2>2. nblockMAX' = max
    BY <1>1 DEF nblockMAX
  <2>3. state_in_len' \in Nat /\ state_in_len' > 0
    BY <1>11
  <2>4. state_in_ch' # NoChar
    BY <1>2, <1>11 DEF Bytes
  <2>5. Len(block') = h \/ (Len(block') <= h + 5 /\ state_in_len' = 1)
    BY <1>11
  <2> HIDE DEF max, h
  <2>6. /\ Len(block') >= max => state_in_len' = 1
        /\ Len(block') <= max + 4 /\ Len(block') <= max + 5
    BY <2>1, <2>5
  <2> QED BY <2>1, <2>2, <2>3, <2>4, <2>6 DEF FillInv, BlockFits, nblock
<1>14. LoopInv'
  <2>1. mode \in {"RUNNING", "FLUSHING", "FINISHING"}
    BY <1>0, <1>1 DEF LoopInv
  <2>2. ~Sealed'
    BY <1>1, <1>4 DEF Sealed
  <2> QED BY <1>1, <2>1, <2>2 DEF LoopInv
<1>15. BitInv'
  <2>1. mode # "NONE"
    BY <1>0, <1>1 DEF LoopInv
  <2>2. ~Sealed'
    BY <1>1, <1>4 DEF Sealed
  <2> QED BY <1>0, <1>1, <2>1, <2>2 DEF BitInv, numZ
<1>16. NoInputLost'
  <2>1. state_in_ch' < NoChar
    BY <1>2, <1>11 DEF Bytes
  <2> QED BY <1>1, <1>11, <2>1 DEF NoInputLost, OpenBlock, PendingRun
<1>17. NoOutputLost'
  BY <1>0, <1>1 DEF NoOutputLost, numZ
<1> QED BY <1>12, <1>13, <1>14, <1>15, <1>16, <1>17 DEF IInv

(***************************************************************************)
(* A block closed from INPUT: BZ2_compressBlock finds zbits empty, and     *)
(* bsBuff too before the header; what it writes joins what was delivered.  *)
(***************************************************************************)
LEMMA CloseBlock ==
  ASSUME IInv, pc = "loop", state = "INPUT",
         NEW blk \in Seq(Bytes), NEW crc \in Seq(Bytes), NEW last \in BOOLEAN,
         BZ2_compressBlock(blk, crc, last),
         out' = out, state_out_pos' = state_out_pos
  PROVE  /\ StreamType' /\ NoOutputLost'
         /\ state_out_pos' <= numZ'
         /\ packed' = packed \o crc
         /\ last => Sealed' /\ bsBuff' = <<>>
         /\ ~last => ~Sealed'
<1>0. TypeOK /\ LoopInv /\ BitInv /\ NoOutputLost
  BY DEF IInv
<1>1. zbits = <<>> /\ state_out_pos = 0 /\ (blockNo <= 1 => bsBuff = <<>>)
  BY <1>0 DEF BitInv
<1>2. ~Sealed
  BY <1>0 DEF LoopInv
<1>3. /\ combinedCRC' \in Seq(Seq(Bytes)) /\ zbits' \in Seq(Token)
      /\ bsBuff' \in Seq(Token) /\ stream' \in Seq(Token)
      /\ packed' = packed \o crc /\ packed' \in Seq(Bytes)
      /\ \E written \in Seq(Token) : /\ stream' = stream \o written
                                    /\ zbits' \o bsBuff' = bsBuff \o written
      /\ last => bsBuff' = <<>> /\ Sealed'
      /\ ~last /\ ~Sealed => ~Sealed'
  BY <1>0, <1>1, CompressBlock
<1>4. out \in Seq(Token) /\ bsBuff \in Seq(Token)
  BY <1>0 DEF TypeOK, StreamType
<1>4a. out \in Seq(Token)
  BY <1>4
<1>4b. bsBuff \in Seq(Token)
  BY <1>4
<1>4c. zbits' \in Seq(Token) /\ bsBuff' \in Seq(Token)
  BY <1>3
<1>5. state_out_pos' \in Nat /\ out' \in Seq(Token)
  BY <1>1, <1>4
<1>6. StreamType'
  BY <1>3, <1>5 DEF StreamType
<1>7. state_out_pos' <= numZ'
  <2>1. Len(zbits') \in Nat
    BY <1>3, LenProperties
  <2> QED BY <1>1, <2>1 DEF numZ
<1>8. NoOutputLost'
  <2>1. PICK w \in Seq(Token) : stream' = stream \o w /\ zbits' \o bsBuff' = bsBuff \o w
    BY <1>3
  <2>2. stream = out \o bsBuff
    <3>1. SubSeq(<<>>, 0 + 1, Len(<<>>)) = <<>>
      BY Empties, SubSeqEmpty
    <3>2. stream = (out \o <<>>) \o bsBuff
      BY <1>0, <1>1, <3>1 DEF NoOutputLost, numZ
    <3> QED BY <1>4, <3>2, ConcatEmptySeq
  <2>3. (out \o bsBuff) \o w = out \o (bsBuff \o w)
    <3>1. w \in Seq(Token)
      BY <2>1
    <3> QED BY <1>4a, <1>4b, <3>1, TokenRegroup
  <2>4. out \o (zbits' \o bsBuff') = (out \o zbits') \o bsBuff'
    <3> DEFINE z == zbits'
               b == bsBuff'
    <3>1. z \in Seq(Token) /\ b \in Seq(Token) /\ out \in Seq(Token)
      BY <1>4a, <1>4c
    <3> HIDE DEF z, b
    <3>2. out \o (z \o b) = (out \o z) \o b
      BY <3>1, TokenRegroup
    <3> QED BY <3>2 DEF z, b
  <2>5. stream' = (out \o zbits') \o bsBuff'
    BY <2>1, <2>2, <2>3, <2>4
  <2>6. SubSeq(zbits', 1, Len(zbits')) = zbits'
    BY <1>3, SubSeqFull
  <2>7. state_out_pos' + 1 = 1
    BY <1>1
  <2> QED BY <2>5, <2>6, <2>7 DEF NoOutputLost, numZ
<1> QED BY <1>2, <1>3, <1>6, <1>7, <1>8

LEMMA AfterInputStep == IInv /\ AfterInput => IInv'
<1> SUFFICES ASSUME IInv, AfterInput PROVE IInv'
  OBVIOUS
<1>0. TypeOK /\ FillInv /\ LoopInv /\ BitInv /\ BlockFits /\ NoInputLost /\ NoOutputLost
  BY DEF IInv
<1>1. /\ pc = "loop" /\ state = "INPUT" /\ ~CanCopyIn
      /\ UNCHANGED <<avail_in, avail_in_expect, total_in, fed, state_out_pos, out,
           total_out, avail_out, mode, blockSize100k, heap, blockNo, progress, ret>>
  BY DEF AfterInput, inVars, outVars, lifeVars
<1>2. mode \in {"RUNNING", "FLUSHING", "FINISHING"} /\ ~Sealed
  BY <1>0, <1>1 DEF LoopInv
<1>3. nblock \in Nat /\ nblockMAX \in Nat /\ nblockMAX >= 1 /\ avail_in_expect \in Nat
  BY <1>0, LenProperties, MaxPositive
     DEF TypeOK, StrmType, ControlType, BlockType, nblock, nblockMAX
<1>4. /\ packed \in Seq(Bytes) /\ blockCRC \in Seq(Bytes) /\ block \in Seq(Bytes)
      /\ inUse \subseteq Bytes /\ state_in_ch \in Bytes \cup {NoChar}
      /\ state_in_len \in 0..RunMax
      /\ fed = (packed \o blockCRC) \o PendingRun
  BY <1>0, <1>1 DEF TypeOK, BlockType, StreamType, NoInputLost, OpenBlock
<1>5. StrmType'
  BY <1>0, <1>1 DEF TypeOK, StrmType
\* What is left to show when a block has been closed.
<1>6. ASSUME state' = "OUTPUT", pc' = pc,
             state_in_ch' \in Bytes \cup {NoChar}, state_in_len' \in 0..RunMax,
             block' \in Seq(Bytes), inUse' \subseteq Bytes, blockCRC' \in Seq(Bytes),
             StreamType', NoOutputLost', state_out_pos' <= numZ',
             state_in_ch' = NoChar <=> state_in_len' = 0,
             nblock' <= nblockMAX + 5,
             fed = packed' \o PendingRun',
             Sealed' => bsBuff' = <<>>,
             \/ ~isempty_RL' /\ ~Sealed'
             \/ /\ avail_in_expect = 0 /\ isempty_RL'
                /\ \/ mode = "FLUSHING" /\ ~Sealed'
                   \/ mode = "FINISHING" /\ Sealed'
      PROVE  IInv'
  <2>1. ControlType'
    BY <1>0, <1>1, <1>6 DEF TypeOK, ControlType
  <2>2. BlockType'
    BY <1>0, <1>1, <1>6 DEF TypeOK, BlockType
  <2>3. FillInv'
    BY <1>6 DEF FillInv
  <2>4. BlockFits'
    <3>1. nblockMAX' = nblockMAX
      BY <1>1 DEF nblockMAX
    <3> QED BY <1>6, <3>1 DEF BlockFits
  <2>5. LoopInv'
    BY <1>1, <1>2, <1>6 DEF LoopInv
  <2>6. BitInv'
    BY <1>1, <1>2, <1>6, <1>0 DEF BitInv
  <2>7. NoInputLost'
    <3>1. packed' \in Seq(Bytes) /\ OpenBlock' = <<>>
      BY <1>6 DEF StreamType, OpenBlock
    <3>2. packed' \o <<>> = packed'
      BY <3>1, ConcatEmptySeq
    <3> QED BY <1>1, <1>6, <3>1, <3>2 DEF NoInputLost
  <2> QED BY <1>5, <1>6, <2>1, <2>2, <2>3, <2>4, <2>5, <2>6, <2>7 DEF IInv, TypeOK
<1>7. ASSUME EndOfFlushOrFinish PROVE IInv'
  <2> DEFINE last == mode = "FINISHING"
  <2>1. CloseLastBlock /\ state' = "OUTPUT" /\ pc' = pc
    BY <1>7 DEF AfterInput
  <2>2. state_in_ch' = NoChar /\ state_in_len' = 0
    BY <2>1 DEF CloseLastBlock
  <2>3. /\ avail_in_expect = 0 /\ mode \in {"FLUSHING", "FINISHING"}
        /\ isempty_RL' /\ PendingRun' = <<>>
    BY <1>2, <1>7, <2>2 DEF EndOfFlushOrFinish, isempty_RL, PendingRun, NoChar
  <2>4. PICK blk \in Seq(Bytes), crc \in Seq(Bytes) :
          /\ BZ2_compressBlock(blk, crc, last)
          /\ block' = blk /\ blockCRC' = crc /\ inUse' \subseteq Bytes
          /\ Len(block') <= nblockMAX + 5
          /\ fed = packed \o crc
    <3>1. CASE state_in_ch < NoChar
      <4> DEFINE blk == block \o Pair(state_in_ch, state_in_len)
                 crc == blockCRC \o Run(state_in_ch, state_in_len)
      <4>1. add_pair_to_block /\ BZ2_compressBlock(blk, crc, last)
        BY <2>1, <3>1 DEF CloseLastBlock
      <4>2. block' = blk /\ blockCRC' = crc
        BY <4>1 DEF add_pair_to_block
      <4>3. /\ blockCRC' \in Seq(Bytes) /\ block' \in Seq(Bytes) /\ inUse' \subseteq Bytes
            /\ Len(block') <= nblock + 5
            /\ state_in_len = 1 => Len(block') = nblock + 1
        BY <1>0, <3>1, <4>1, AddPair
      <4>4. Len(block') <= nblockMAX + 5
        <5> DEFINE h == nblock  max == nblockMAX  m == Len(block')
        <5>1. h >= max => state_in_len = 1 /\ h <= max + 4
          BY <1>0, <1>1 DEF FillInv
        <5>2. m \in Nat /\ h \in Nat /\ max \in Nat
          BY <1>3, <4>3, LenProperties
        <5>3. m <= h + 5 /\ (state_in_len = 1 => m = h + 1)
          BY <4>3
        <5> HIDE DEF h, max, m
        <5>4. m <= max + 5
          BY <5>1, <5>2, <5>3
        <5> QED BY <5>4 DEF m, max
      <4>5. fed = packed \o crc
        <5> DEFINE r == Run(state_in_ch, state_in_len)
        <5>1. state_in_ch \in Bytes /\ state_in_len \in Nat
          BY <1>4, <3>1 DEF NoChar
        <5>2. r \in Seq(Bytes)
          BY <5>1, RunType
        <5>3. PendingRun = r
          BY <3>1 DEF PendingRun
        <5>4. packed \in Seq(Bytes) /\ blockCRC \in Seq(Bytes)
          BY <1>4
        <5> HIDE DEF r
        <5>5. (packed \o blockCRC) \o r = packed \o (blockCRC \o r)
          BY <5>2, <5>4, ByteRegroup
        <5>6. fed = packed \o (blockCRC \o r)
          BY <1>4, <5>3, <5>5
        <5> QED BY <5>6 DEF r
      <4> HIDE DEF blk, crc
      <4>6. blk \in Seq(Bytes) /\ crc \in Seq(Bytes)
        BY <4>2, <4>3
      <4> QED BY <4>1, <4>2, <4>3, <4>4, <4>5, <4>6
    <3>2. CASE ~(state_in_ch < NoChar)
      <4>1. UNCHANGED <<block, inUse, blockCRC>>
        BY <2>1, <3>2 DEF CloseLastBlock, blockVars
      <4>2. BZ2_compressBlock(block, blockCRC, last)
        BY <2>1, <3>2 DEF CloseLastBlock
      <4>3. PendingRun = <<>>
        BY <3>2 DEF PendingRun
      <4>4. packed \o blockCRC \in Seq(Bytes)
        BY <1>4, ConcatProperties
      <4>5. fed = packed \o blockCRC
        BY <1>4, <4>3, <4>4, ConcatEmptySeq
      <4>6. Len(block') <= nblockMAX + 5
        BY <1>0, <4>1 DEF BlockFits, nblock
      <4> QED BY <1>4, <4>1, <4>2, <4>5, <4>6
    <3> QED BY <3>1, <3>2
  <2>5. last \in BOOLEAN /\ out' = out /\ state_out_pos' = state_out_pos
    BY <1>1
  <2>6. /\ StreamType' /\ NoOutputLost' /\ state_out_pos' <= numZ'
        /\ packed' = packed \o crc
        /\ last => Sealed' /\ bsBuff' = <<>>
        /\ ~last => ~Sealed'
    <3> HIDE DEF last
    <3> QED BY <1>1, <2>4, <2>5, CloseBlock
  <2>7. packed' \in Seq(Bytes) /\ packed' \o <<>> = packed'
    <3>1. packed' \in Seq(Bytes)
      BY <2>6 DEF StreamType
    <3> QED BY <3>1, ConcatEmptySeq
  <2>8. fed = packed' \o PendingRun'
    BY <2>3, <2>4, <2>6, <2>7
  <2>9. /\ state_in_ch' \in Bytes \cup {NoChar} /\ state_in_len' \in 0..RunMax
        /\ block' \in Seq(Bytes) /\ inUse' \subseteq Bytes /\ blockCRC' \in Seq(Bytes)
        /\ state_in_ch' = NoChar <=> state_in_len' = 0
        /\ nblock' <= nblockMAX + 5
    BY <2>2, <2>4 DEF nblock
  <2>10. Sealed' => bsBuff' = <<>>
    BY <2>6
  <2>11. \/ mode = "FLUSHING" /\ ~Sealed'
         \/ mode = "FINISHING" /\ Sealed'
    BY <2>3, <2>6
  <2> HIDE DEF last
  <2> QED BY <1>6, <2>1, <2>3, <2>6, <2>8, <2>9, <2>10, <2>11
<1>8. ASSUME ~EndOfFlushOrFinish, BlockFull PROVE IInv'
  <2>1. CloseFullBlock /\ state' = "OUTPUT" /\ pc' = pc
    BY <1>8 DEF AfterInput
  <2>2. /\ BZ2_compressBlock(block, blockCRC, FALSE)
        /\ UNCHANGED <<state_in_ch, state_in_len, block, inUse, blockCRC>>
    BY <2>1 DEF CloseFullBlock, runVars, blockVars
  <2>3. /\ StreamType' /\ NoOutputLost' /\ state_out_pos' <= numZ'
        /\ packed' = packed \o blockCRC /\ ~Sealed'
    BY <1>1, <1>4, <2>2, CloseBlock
  <2>4. ~isempty_RL /\ isempty_RL' = isempty_RL /\ PendingRun' = PendingRun
    <3>1. state_in_len > 0
      BY <1>0, <1>1, <1>3, <1>8 DEF FillInv, BlockFull
    <3>2. state_in_ch < NoChar
      BY <1>0, <1>4, <3>1 DEF FillInv, Bytes, NoChar
    <3> QED BY <2>2, <3>1, <3>2 DEF isempty_RL, PendingRun
  <2>5. fed = packed' \o PendingRun'
    BY <1>4, <2>3, <2>4
  <2>6. /\ state_in_ch' \in Bytes \cup {NoChar} /\ state_in_len' \in 0..RunMax
        /\ block' \in Seq(Bytes) /\ inUse' \subseteq Bytes /\ blockCRC' \in Seq(Bytes)
        /\ state_in_ch' = NoChar <=> state_in_len' = 0
        /\ nblock' <= nblockMAX + 5
    BY <1>0, <1>4, <2>2 DEF FillInv, BlockFits, nblock
  <2> QED BY <1>6, <2>1, <2>3, <2>4, <2>5, <2>6
<1>9. ASSUME ~EndOfFlushOrFinish, ~BlockFull PROVE IInv'
  <2>1. /\ pc' = "ret"
        /\ UNCHANGED <<state, state_in_ch, state_in_len, block, inUse, blockCRC,
             zbits, bsBuff, combinedCRC, stream, packed>>
    BY <1>9 DEF AfterInput, runVars, blockVars, bitVars
  <2>2. mode = "RUNNING" \/ avail_in_expect > 0
    BY <1>2, <1>3, <1>9 DEF EndOfFlushOrFinish
  <2>3. TypeOK'
    <3>1. BlockType' /\ StreamType'
      BY <1>0, <1>1, <2>1 DEF TypeOK, BlockType, StreamType
    <3>2. ControlType'
      BY <1>0, <1>1, <2>1 DEF TypeOK, ControlType
    <3> QED BY <1>5, <3>1, <3>2 DEF TypeOK
  <2>4. FillInv' /\ BlockFits'
    BY <1>0, <1>1, <2>1 DEF FillInv, BlockFits, nblock, nblockMAX
  <2>5. LoopInv'
    <3>1. ~Sealed'
      BY <1>2, <2>1 DEF Sealed
    <3> QED BY <1>1, <1>2, <2>1, <2>2, <3>1 DEF LoopInv
  <2>6. BitInv'
    BY <1>0, <1>1, <2>1 DEF BitInv, Sealed, isempty_RL, numZ
  <2>7. NoInputLost' /\ NoOutputLost'
    BY <1>0, <1>1, <2>1 DEF NoInputLost, NoOutputLost, OpenBlock, PendingRun, numZ
  <2> QED BY <2>3, <2>4, <2>5, <2>6, <2>7 DEF IInv
<1> QED BY <1>7, <1>8, <1>9

LEMMA ReturnStep == IInv /\ Return => IInv'
<1> SUFFICES ASSUME IInv, Return PROVE IInv'
  OBVIOUS
<1>0. TypeOK /\ FillInv /\ LoopInv /\ BitInv /\ BlockFits /\ NoInputLost /\ NoOutputLost
  BY DEF IInv
<1>1. /\ pc = "ret" /\ pc' = "client"
      /\ UNCHANGED <<avail_in, avail_in_expect, total_in, fed, state_out_pos, out,
           total_out, avail_out, state, state_in_ch, state_in_len, blockSize100k,
           heap, block, inUse, blockCRC, blockNo, zbits, bsBuff, combinedCRC,
           stream, packed, progress>>
  BY DEF Return, inVars, outVars, runVars, lifeVars, blockVars, bitVars
<1>2. /\ mode \in {"RUNNING", "FLUSHING", "FINISHING"}
      /\ \/ mode' = mode
         \/ mode = "FLUSHING" /\ mode' = "RUNNING" /\ ~Unfinished
         \/ mode = "FINISHING" /\ mode' = "IDLE" /\ ~Unfinished
  BY DEF Return
<1>3. ret' \in Codes
  BY DEF Return, Codes
\* A flush or finish that is over leaves nothing to copy, and no run.
<1>4. ~Unfinished =>
        /\ ~(avail_in_expect > 0) /\ isempty_RL /\ ~(state_out_pos < numZ)
        /\ avail_in_expect = 0 /\ state_out_pos = numZ
  <2>1. state_out_pos \in Nat /\ numZ \in Nat /\ avail_in_expect \in Nat
    BY <1>0, LenProperties DEF TypeOK, StrmType, StreamType, numZ
  <2>2. state_out_pos <= numZ
    BY <1>0 DEF BitInv
  <2> QED BY <2>1, <2>2 DEF Unfinished
<1>5. TypeOK'
  <2>1. StrmType' /\ BlockType' /\ StreamType'
    BY <1>0, <1>1 DEF TypeOK, StrmType, BlockType, StreamType
  <2>2. mode' \in Modes
    BY <1>2 DEF Modes
  <2>3. ControlType'
    BY <1>0, <1>1, <1>3, <2>2 DEF TypeOK, ControlType
  <2> QED BY <2>1, <2>3 DEF TypeOK
<1>6. FillInv' /\ BlockFits'
  BY <1>0, <1>1 DEF FillInv, BlockFits, nblock, nblockMAX
<1>7. LoopInv'
  <2>1. /\ Sealed' = Sealed /\ isempty_RL' = isempty_RL /\ numZ' = numZ
    BY <1>1 DEF Sealed, isempty_RL, numZ
  <2>2. CASE mode' = mode
    BY <1>0, <1>1, <2>1, <2>2, <1>2 DEF LoopInv
  <2>3. CASE mode = "FLUSHING" /\ mode' = "RUNNING" /\ ~Unfinished
    <3>1. state = "INPUT" /\ ~Sealed
      BY <1>0, <1>1, <1>4, <2>3 DEF LoopInv, FreshBlock
    <3> QED BY <1>1, <2>1, <2>3, <3>1 DEF LoopInv
  <2>4. CASE mode = "FINISHING" /\ mode' = "IDLE" /\ ~Unfinished
    <3>1. state = "OUTPUT" /\ Sealed
      BY <1>0, <1>1, <1>4, <2>4 DEF LoopInv
    <3> QED BY <1>1, <1>4, <2>1, <2>4, <3>1 DEF LoopInv
  <2> QED BY <1>2, <2>2, <2>3, <2>4
<1>8. BitInv'
  <2>1. mode' # "NONE" /\ mode # "NONE"
    BY <1>2
  <2> QED BY <1>0, <1>1, <2>1 DEF BitInv, Sealed, numZ
<1>9. NoInputLost' /\ NoOutputLost'
  BY <1>0, <1>1 DEF NoInputLost, NoOutputLost, OpenBlock, PendingRun, numZ
<1> QED BY <1>5, <1>6, <1>7, <1>8, <1>9 DEF IInv

LEMMA StutterStep == IInv /\ UNCHANGED vars => IInv'
<1> SUFFICES ASSUME IInv, UNCHANGED vars PROVE IInv'
  OBVIOUS
<1>0. TypeOK /\ FillInv /\ LoopInv /\ BitInv /\ BlockFits /\ NoInputLost /\ NoOutputLost
  BY DEF IInv
<1>1. UNCHANGED <<avail_in, avail_out, total_in, total_out, mode, state,
          avail_in_expect, state_in_ch, state_in_len, blockSize100k, block,
          inUse, blockCRC, combinedCRC, blockNo, zbits, state_out_pos, bsBuff,
          heap, pc, progress, ret, fed, packed, stream, out>>
  BY DEF vars
<1>2. TypeOK'
  <2>1. StrmType' /\ ControlType'
    BY <1>0, <1>1 DEF TypeOK, StrmType, ControlType
  <2>2. BlockType' /\ StreamType'
    BY <1>0, <1>1 DEF TypeOK, BlockType, StreamType
  <2> QED BY <2>1, <2>2 DEF TypeOK
<1>3. FillInv' /\ BlockFits'
  BY <1>0, <1>1 DEF FillInv, BlockFits, nblock, nblockMAX
<1>4. LoopInv' /\ BitInv'
  BY <1>0, <1>1 DEF LoopInv, BitInv, Sealed, isempty_RL, numZ, FreshBlock
<1>5. NoInputLost' /\ NoOutputLost'
  BY <1>0, <1>1 DEF NoInputLost, NoOutputLost, OpenBlock, PendingRun, numZ
<1> QED BY <1>2, <1>3, <1>4, <1>5 DEF IInv

------------------------------------------------------------------------------
(***************************************************************************)
(* The strengthened invariant is an invariant of the compressor, whatever  *)
(* the caller does and however the room it gives cuts the loop.            *)
(***************************************************************************)
THEOREM Inductive == Spec => []IInv
<1>1. Init => IInv
  BY InitInv
<1>2. IInv /\ [Next]_vars => IInv'
  <2> SUFFICES ASSUME IInv, [Next]_vars PROVE IInv'
    OBVIOUS
  <2>1. ASSUME NEW level \in Levels, NEW got \in SUBSET Buffers,
               BZ2_bzCompressInit(level, got)
        PROVE  IInv'
    BY <2>1, CompressInitStep
  <2>2. ASSUME NEW action \in Actions, NEW ai \in 0..ChunkIn,
               NEW ao \in 0..ChunkOut, BZ2_bzCompress(action, ai, ao)
        PROVE  IInv'
    BY <2>2, CallStep, BoundsAssumption
  <2>3. CASE BZ2_bzCompressEnd
    BY <2>3, EndStreamStep, EndNothingStep DEF BZ2_bzCompressEnd
  <2>4. CASE CopyOutput
    BY <2>4, CopyOutputStep
  <2>5. CASE AfterOutput
    BY <2>5, AfterOutputStep
  <2>6. ASSUME NEW c \in Symbols, CopyInput(c) PROVE IInv'
    BY <2>6, CopyInputStep
  <2>7. CASE AfterInput
    BY <2>7, AfterInputStep
  <2>8. CASE Return
    BY <2>8, ReturnStep
  <2>9. CASE UNCHANGED vars
    BY <2>9, StutterStep
  <2> QED BY <2>1, <2>2, <2>3, <2>4, <2>5, <2>6, <2>7, <2>8, <2>9
          DEF Next, Caller, Library
<1> QED BY <1>1, <1>2, PTL DEF Spec

(* Type correctness of the compressor. *)
THEOREM TypeCorrect == Spec => []TypeOK
<1>1. IInv => TypeOK
  BY DEF IInv
<1> QED BY <1>1, Inductive, PTL

(***************************************************************************)
(* The block array is never overrun: the fill test of                      *)
(* copy_input_until_stop comes before a pair of up to five bytes is added, *)
(* and flush_RL adds one more; 19 bytes are held back for this.            *)
(***************************************************************************)
THEOREM BlockNeverOverrun == Spec => []BlockFits
<1>1. IInv => BlockFits
  BY DEF IInv
<1> QED BY <1>1, Inductive, PTL

(* Each byte read is once, and in order, in a closed block, the open block *)
(* or the pending run, across flushes, full blocks and suspended calls.    *)
THEOREM InputConserved == Spec => []NoInputLost
<1>1. IInv => NoInputLost
  BY DEF IInv
<1> QED BY <1>1, Inductive, PTL

(* Each token written has been delivered, or waits in zbits or bsBuff.     *)
THEOREM OutputConserved == Spec => []NoOutputLost
<1>1. IInv => NoOutputLost
  BY DEF IInv
<1> QED BY <1>1, Inductive, PTL

(***************************************************************************)
(* The test by which handle_compress takes the block being output for the  *)
(* last one (bzlib.c:374) is right: the trailer has been written.          *)
(***************************************************************************)
THEOREM LastBlockTestSound == Spec => []LastBlockTest
<1>1. IInv => LastBlockTest
  BY DEF IInv, LoopInv, LastBlockTest
<1> QED BY <1>1, Inductive, PTL

(* All the input is in closed blocks and all the output delivered.         *)
LEMMA EndHasAll == IInv => StreamEndIsComplete
<1> SUFFICES ASSUME IInv, mode = "IDLE"
             PROVE  packed = fed /\ out = stream /\ Sealed
  BY DEF StreamEndIsComplete
<1>1. /\ Sealed /\ state = "OUTPUT" /\ isempty_RL /\ state_out_pos = numZ
      /\ bsBuff = <<>>
  BY DEF IInv, LoopInv, BitInv
<1>2. state_in_ch = NoChar
  BY <1>1 DEF IInv, FillInv, TypeOK, BlockType, isempty_RL, Bytes, NoChar
<1>3. packed \in Seq(Bytes) /\ out \in Seq(Token) /\ numZ \in Nat
  BY LenProperties DEF IInv, TypeOK, StreamType, numZ
<1>4. fed = (packed \o <<>>) \o <<>>
  <2>1. OpenBlock = <<>> /\ PendingRun = <<>>
    BY <1>1, <1>2 DEF OpenBlock, PendingRun, NoChar
  <2> QED BY <2>1 DEF IInv, NoInputLost
<1>5. packed = fed
  BY <1>3, <1>4, ConcatEmptySeq
<1>6. SubSeq(zbits, state_out_pos + 1, numZ) = <<>>
  BY <1>1, <1>3, SubSeqEmpty
<1>7. stream = (out \o <<>>) \o <<>>
  BY <1>1, <1>6 DEF IInv, NoOutputLost
<1>8. out = stream
  BY <1>3, <1>7, ConcatEmptySeq
<1> QED BY <1>1, <1>5, <1>8

(***************************************************************************)
(* BZ_STREAM_END means what it says: all the input is in closed blocks,    *)
(* all the output has been delivered, nothing is left in the bit buffer.   *)
(***************************************************************************)
THEOREM StreamEndComplete == Spec => []StreamEndIsComplete
BY EndHasAll, Inductive, PTL

(***************************************************************************)
(* Only the return of BZ2_bzCompress takes a flush back to RUNNING, and    *)
(* then what the caller handed over is in closed blocks, zbits has been    *)
(* copied out and a fresh block is open.                                   *)
(***************************************************************************)
THEOREM FlushClean == Spec => FlushEndsClean
<1> DEFINE Clean == mode = "FLUSHING" /\ mode' = "RUNNING" =>
                      /\ packed = fed
                      /\ state_out_pos = numZ
                      /\ state = "INPUT" /\ nblock = 0
<1>1. IInv /\ [Next]_vars => [Clean]_vars
  <2> SUFFICES ASSUME IInv, Next, mode = "FLUSHING", mode' = "RUNNING"
               PROVE  packed = fed /\ state_out_pos = numZ /\ state = "INPUT" /\ nblock = 0
    OBVIOUS
  <2>1. Return /\ ~Unfinished
    <3>1. ASSUME NEW level \in Levels, NEW got \in SUBSET Buffers,
                 BZ2_bzCompressInit(level, got)
          PROVE  FALSE
      BY <3>1 DEF BZ2_bzCompressInit, SetUp
    <3>2. ASSUME NEW action \in Actions, NEW ai \in 0..ChunkIn,
                 NEW ao \in 0..ChunkOut, BZ2_bzCompress(action, ai, ao)
          PROVE  FALSE
      BY <3>2 DEF BZ2_bzCompress, Enter, Refuse
    <3>3. ~BZ2_bzCompressEnd /\ ~CopyOutput /\ ~AfterOutput /\ ~AfterInput
      BY DEF BZ2_bzCompressEnd, EndNothing, EndStream, CopyOutput, AfterOutput, AfterInput
    <3>4. ASSUME NEW c \in Symbols, CopyInput(c) PROVE FALSE
      BY <3>4 DEF CopyInput
    <3>5. Return
      BY <3>1, <3>2, <3>3, <3>4 DEF Next, Caller, Library
    <3> QED BY <3>5 DEF Return
  <2>2. /\ TypeOK /\ FillInv /\ LoopInv /\ BitInv /\ NoInputLost
    BY DEF IInv
  <2>3. state_out_pos = numZ /\ ~(avail_in_expect > 0) /\ isempty_RL
    <3>1. state_out_pos \in Nat /\ numZ \in Nat /\ state_out_pos <= numZ
      BY <2>2, LenProperties DEF TypeOK, StreamType, BitInv, numZ
    <3> QED BY <2>1, <3>1 DEF Unfinished
  <2>4. FreshBlock
    <3>1. pc = "ret"
      BY <2>1 DEF Return
    <3>2. ~(state_out_pos < numZ)
      BY <2>1 DEF Unfinished
    <3> QED BY <2>2, <2>3, <3>1, <3>2 DEF LoopInv
  <2>5. state_in_ch = NoChar
    BY <2>2, <2>3 DEF FillInv, TypeOK, BlockType, isempty_RL, Bytes, NoChar
  <2>6. packed = fed
    <3>1. OpenBlock = <<>> /\ PendingRun = <<>>
      BY <2>4, <2>5 DEF FreshBlock, OpenBlock, PendingRun, NoChar
    <3>2. packed \in Seq(Bytes)
      BY <2>2 DEF TypeOK, StreamType
    <3>3. fed = (packed \o <<>>) \o <<>>
      BY <2>2, <3>1 DEF NoInputLost
    <3> QED BY <3>2, <3>3, ConcatEmptySeq
  <2>7. state = "INPUT" /\ nblock = 0
    BY <2>4, Empties DEF FreshBlock, nblock
  <2> QED BY <2>3, <2>6, <2>7
<1> QED BY <1>1, Inductive, PTL DEF Spec, FlushEndsClean

(***************************************************************************)
(* Once a flush or finish has begun, every byte read was announced: what   *)
(* has been read and what is still owed add up to the same from step to    *)
(* step, and the mode is left only when nothing is owed.                   *)
(***************************************************************************)
THEOREM NothingSlipsIn == Spec => NoSlippedInput
<1> DEFINE Owed == mode \in {"FLUSHING", "FINISHING"} /\ mode' # "NONE" =>
                     /\ InputOwed' = InputOwed
                     /\ mode' # mode => avail_in_expect = 0
<1>1. IInv /\ [Next]_vars => [Owed]_vars
  <2> SUFFICES ASSUME IInv, Next, mode \in {"FLUSHING", "FINISHING"}, mode' # "NONE"
               PROVE  /\ InputOwed' = InputOwed
                      /\ mode' # mode => avail_in_expect = 0
    OBVIOUS
  <2>0. fed \in Seq(Bytes) /\ avail_in_expect \in Nat /\ Len(fed) \in Nat
    BY LenProperties DEF IInv, TypeOK, StrmType, BlockType
  <2>1. ASSUME NEW level \in Levels, NEW got \in SUBSET Buffers,
               BZ2_bzCompressInit(level, got)
        PROVE  FALSE
    BY <2>1 DEF BZ2_bzCompressInit, SetUp
  <2>2. ASSUME NEW action \in Actions, NEW ai \in 0..ChunkIn,
               NEW ao \in 0..ChunkOut, BZ2_bzCompress(action, ai, ao)
        PROVE  UNCHANGED <<fed, avail_in_expect, mode>>
    BY <2>2 DEF BZ2_bzCompress, Enter, Refuse
  <2>3. ~BZ2_bzCompressEnd
    BY DEF BZ2_bzCompressEnd, EndNothing, EndStream
  <2>4. CASE CopyOutput \/ AfterOutput \/ AfterInput
    <3>1. UNCHANGED <<fed, avail_in_expect, mode>>
      BY <2>4 DEF CopyOutput, AfterOutput, AfterInput, inVars
    <3> QED BY <3>1 DEF InputOwed
  <2>5. ASSUME NEW c \in Symbols, CopyInput(c)
        PROVE  /\ InputOwed' = InputOwed
               /\ mode' # mode => avail_in_expect = 0
    <3>1. fed' = Append(fed, c) /\ mode' = mode /\ avail_in_expect' = avail_in_expect - 1
      BY <2>5 DEF CopyInput
    <3>2. Len(fed') = Len(fed) + 1
      BY <2>0, <3>1 DEF Bytes
    <3>3. Len(fed') + avail_in_expect' = Len(fed) + avail_in_expect
      BY <2>0, <3>1, <3>2
    <3> QED BY <3>1, <3>3 DEF InputOwed
  <2>6. CASE Return
    <3>1. UNCHANGED <<fed, avail_in_expect>> /\ (mode' # mode => ~Unfinished)
      BY <2>6 DEF Return, inVars
    <3> QED BY <2>0, <3>1 DEF InputOwed, Unfinished
  <2> QED BY <2>1, <2>2, <2>3, <2>4, <2>5, <2>6 DEF Next, Caller, Library, InputOwed
<1> QED BY <1>1, Inductive, PTL DEF Spec, NoSlippedInput

------------------------------------------------------------------------------
(* The strengthened invariant: one lemma per action.                       *)

(* The pending run, stored behind the open block, decodes to itself.       *)
LEMMA PairDecodes ==
  ASSUME IInv, DecodeInv, state = "INPUT", state_in_ch < NoChar
  PROVE  LET blk == block \o Pair(state_in_ch, state_in_len)
             crc == blockCRC \o Run(state_in_ch, state_in_len)
         IN  /\ blk \in Seq(Bytes) /\ crc \in Seq(Bytes) /\ crc # <<>>
             /\ UnRLE(blk) = crc
             /\ ~EndsBeforeCount(blk)
             /\ UnRLEBlock(blk).ch = IF state_in_len < 4 THEN state_in_ch ELSE 256
<1> DEFINE p == Pair(state_in_ch, state_in_len)
           r == Run(state_in_ch, state_in_len)
<1>0. TypeOK /\ FillInv
  BY DEF IInv
<1>1. state_in_ch \in Bytes /\ state_in_len \in 1..RunMax /\ state_in_len \in Nat
  BY <1>0 DEF TypeOK, BlockType, FillInv, NoChar, Bytes
<1>1a. state_in_len \in 1..259
  BY <1>1, RunMaxAssumption
<1>2. block \in Seq(Bytes) /\ blockCRC \in Seq(Bytes)
  BY DEF IInv, TypeOK, BlockType
<1>3. /\ UnRLE(block) = blockCRC
      /\ UnRLEBlock(block).same # 4
      /\ UnRLEBlock(block).ch # state_in_ch
  BY DEF DecodeInv, EndsBeforeCount
<1>4. p \in Seq(Bytes)
  BY <1>1, PairType
<1>5. r \in Seq(Bytes) /\ Len(r) = state_in_len
  BY <1>1, RunType
<1>6. UnRLEBlock(block \o p) = [out  |-> blockCRC \o r,
                                ch   |-> IF state_in_len < 4 THEN state_in_ch ELSE 256,
                                same |-> IF state_in_len < 4 THEN state_in_len ELSE 0]
  <2>1. UnRLEBlock(block \o Pair(state_in_ch, state_in_len))
          = AfterPair(block, state_in_ch, state_in_len)
    <3>1. state_in_ch \in Bytes
      BY <1>1
    <3>2. UnRLEBlock(block).same # 4 /\ UnRLEBlock(block).ch # state_in_ch
      BY <1>3
    <3>3. block \in Seq(Bytes)
      BY <1>2
    <3> QED BY <1>1a, <3>1, <3>2, <3>3, UnRLEPair
  <2> QED BY <1>3, <2>1 DEF AfterPair
<1> HIDE DEF p, r
<1>7. block \o p \in Seq(Bytes)
  BY <1>2, <1>4, ConcatProperties
<1>8. blockCRC \o r \in Seq(Bytes)
  BY <1>2, <1>5, ConcatProperties
<1>9. blockCRC \o r # <<>>
  <2>1. r # <<>>
    BY <1>1, <1>5, EmptySeq
  <2> QED BY <1>2, <1>5, <2>1, ConcatEqualIffEmpty
<1>10. UnRLE(block \o p) = blockCRC \o r
  BY <1>6 DEF UnRLE
<1>11. ~EndsBeforeCount(block \o p)
  <2>1. UnRLEBlock(block \o p).same = IF state_in_len < 4 THEN state_in_len ELSE 0
    BY <1>6
  <2> QED BY <1>1, <2>1 DEF EndsBeforeCount
<1>12. UnRLEBlock(block \o p).ch = IF state_in_len < 4 THEN state_in_ch ELSE 256
  BY <1>6
<1> QED BY <1>7, <1>8, <1>9, <1>10, <1>11, <1>12 DEF p, r

(* Steps that leave the block and what has been written alone.             *)
LEMMA DecodeFrame ==
  DecodeInv /\ UNCHANGED <<state, block, blockCRC, state_in_ch>> => DecodeInv'
BY DEF DecodeInv

LEMMA StreamFrame ==
  /\ StreamInv /\ Started' = Started
  /\ UNCHANGED <<stream, packed, combinedCRC, blockSize100k>>
  => StreamInv'
BY DEF StreamInv, Sealed

LEMMA FreshDecodes ==
  ASSUME block' = <<>>, blockCRC' = <<>>, state_in_ch' \in Bytes \cup {NoChar}
  PROVE  DecodeInv'
<1>1. UnRLEBlock(<<>>) = [out |-> <<>>, ch |-> 256, same |-> 0]
  BY UnRLEEmpty DEF RLEStart
<1>2. UnRLE(<<>>) = <<>> /\ ~EndsBeforeCount(<<>>)
  BY <1>1 DEF UnRLE, EndsBeforeCount
<1> QED BY <1>1, <1>2 DEF DecodeInv, NoChar, Bytes

LEMMA InitFull == Init => FullInv
<1> SUFFICES ASSUME Init PROVE FullInv
  OBVIOUS
<1>1. IInv
  BY InitInv
<1>2. DecodeInv
  <2>1. UnRLEBlock(<<>>) = [out |-> <<>>, ch |-> 256, same |-> 0]
    BY UnRLEEmpty DEF RLEStart
  <2>2. UnRLE(<<>>) = <<>> /\ ~EndsBeforeCount(<<>>)
    BY <2>1 DEF UnRLE, EndsBeforeCount
  <2> QED BY <2>1, <2>2 DEF Init, DecodeInv, NoChar
<1>3. StreamInv
  BY FlattenEmpty DEF Init, StreamInv, Started, Sealed
<1> QED BY <1>1, <1>2, <1>3 DEF FullInv, OwedInv, Init

LEMMA SetUpFull ==
  ASSUME FullInv, IInv', NEW level, NEW got, SetUp(level, got)
  PROVE  FullInv'
<1>1. UNCHANGED <<avail_in_expect, combinedCRC, packed, stream>>
  BY DEF SetUp
<1>2. mode = "NONE" /\ avail_in_expect = 0
  BY DEF SetUp, FullInv, OwedInv
<1>3. state = "INPUT" /\ blockNo = 0 /\ ~Started
  BY <1>2 DEF FullInv, IInv, BitInv, Started
<1>4. CASE UNCHANGED <<mode, state, state_in_ch, block, blockCRC, blockNo, blockSize100k>>
  BY <1>1, <1>2, <1>4, DecodeFrame, StreamFrame DEF FullInv, Started, OwedInv
<1>5. CASE /\ mode' = "RUNNING" /\ state' = "INPUT" /\ blockNo' = blockNo + 1
           /\ state_in_ch' = NoChar /\ block' = <<>> /\ blockCRC' = <<>>
  <2>1. DecodeInv'
    BY <1>5, FreshDecodes
  <2>2. ~Started'
    BY <1>3, <1>5 DEF Started
  <2>3. stream' = <<>> /\ combinedCRC' = <<>> /\ ~Sealed'
    BY <1>1, <1>3 DEF FullInv, StreamInv, Sealed
  <2>4. StreamInv'
    BY <1>1, <2>2, <2>3 DEF FullInv, StreamInv
  <2>5. OwedInv'
    BY <1>1, <1>2 DEF OwedInv
  <2> QED BY <2>1, <2>4, <2>5 DEF FullInv
<1> QED
  BY <1>4, <1>5 DEF SetUp, runVars, blockVars, lifeVars, prepare_new_block

LEMMA CallFull ==
  ASSUME FullInv, IInv', NEW action, NEW ai, NEW ao, BZ2_bzCompress(action, ai, ao)
  PROVE  FullInv'
<1>1. UNCHANGED <<state, state_in_ch, block, blockCRC, blockNo, blockSize100k,
                  stream, packed, combinedCRC>>
  BY DEF BZ2_bzCompress, runVars, lifeVars, blockVars, bitVars
<1>2. OwedInv'
  BY DEF BZ2_bzCompress, Refuse, Enter, FullInv, OwedInv
<1> QED BY <1>1, <1>2, DecodeFrame, StreamFrame DEF FullInv, Started

LEMMA EndStreamFull == FullInv /\ IInv' /\ EndStream => FullInv'
<1> SUFFICES ASSUME FullInv, IInv', EndStream PROVE FullInv'
  OBVIOUS
<1>1. DecodeInv'
  BY FreshDecodes DEF EndStream
<1>2. StreamInv'
  BY FlattenEmpty DEF EndStream, StreamInv, Started, Sealed
<1> QED BY <1>1, <1>2 DEF FullInv, EndStream, OwedInv

LEMMA EndNothingFull == FullInv /\ IInv' /\ EndNothing => FullInv'
BY DecodeFrame, StreamFrame
   DEF FullInv, EndNothing, OwedInv, Started, runVars, blockVars, lifeVars

LEMMA CopyOutputFull == FullInv /\ IInv' /\ CopyOutput => FullInv'
BY DecodeFrame, StreamFrame
   DEF FullInv, CopyOutput, OwedInv, Started, runVars, blockVars, lifeVars, bitVars, inVars

LEMMA AfterOutputFull == FullInv /\ IInv' /\ AfterOutput => FullInv'
<1> SUFFICES ASSUME FullInv, IInv', AfterOutput PROVE FullInv'
  OBVIOUS
<1>1. /\ UNCHANGED <<avail_in_expect, mode, state_in_ch, blockSize100k,
                     combinedCRC, stream, packed>>
      /\ state = "OUTPUT" /\ mode # "NONE"
  BY DEF AfterOutput, inVars, runVars, lifeVars, FullInv, IInv, LoopInv
<1>2. OwedInv'
  BY <1>1 DEF FullInv, OwedInv
<1>3. CASE UNCHANGED <<state, block, blockCRC, blockNo>>
  BY <1>1, <1>2, <1>3, DecodeFrame, StreamFrame DEF FullInv, Started
<1>4. CASE prepare_new_block /\ state' = "INPUT"
  <2>1. DecodeInv'
    BY <1>4, FreshDecodes DEF prepare_new_block, FullInv, IInv, TypeOK, BlockType
  <2>2. Started /\ Started'
    <3>1. blockNo >= 1 /\ blockNo \in Nat
      BY <1>1 DEF FullInv, IInv, BitInv, TypeOK, ControlType
    <3> QED BY <1>1, <1>4, <3>1 DEF Started, prepare_new_block
  <2> QED BY <1>1, <1>2, <2>1, <2>2, StreamFrame DEF FullInv
<1> QED BY <1>3, <1>4 DEF AfterOutput, blockVars

LEMMA CopyInputFull ==
  ASSUME FullInv, IInv', NEW c \in Symbols, CopyInput(c)
  PROVE  FullInv'
<1>1. /\ UNCHANGED <<mode, state, blockNo, blockSize100k, stream, packed, combinedCRC>>
      /\ state = "INPUT" /\ AddCharToBlock(c) /\ pc = "loop"
      /\ mode = "RUNNING" => avail_in_expect' = avail_in_expect
  BY DEF CopyInput, lifeVars, bitVars
<1>1a. c \in Bytes
  BY SymbolsAssumption DEF Bytes
<1>1b. mode \in {"RUNNING", "FLUSHING", "FINISHING"}
  BY <1>1 DEF FullInv, IInv, LoopInv
<1>2. OwedInv'
  BY <1>1, <1>1b DEF FullInv, OwedInv
<1>3. StreamInv'
  BY <1>1, StreamFrame DEF FullInv, Started
<1>4. DecodeInv'
  <2>0. IInv /\ DecodeInv
    BY DEF FullInv
  <2>1. CASE c = state_in_ch /\ UNCHANGED <<state_in_ch, blockVars>>
    BY <1>1, <2>0, <2>1, DecodeFrame DEF blockVars
  <2>2. CASE /\ c # state_in_ch \/ state_in_len = RunMax
             /\ state_in_ch < NoChar /\ add_pair_to_block
             /\ state_in_ch' = c
    <3> DEFINE blk == block \o Pair(state_in_ch, state_in_len)
               crc == blockCRC \o Run(state_in_ch, state_in_len)
    <3>1. /\ crc # <<>> /\ UnRLE(blk) = crc /\ ~EndsBeforeCount(blk)
          /\ UnRLEBlock(blk).ch = IF state_in_len < 4 THEN state_in_ch ELSE 256
      BY <1>1, <2>0, <2>2, PairDecodes
    <3>2. block' = blk /\ blockCRC' = crc
      BY <2>2 DEF add_pair_to_block
    <3> HIDE DEF blk, crc
    <3>3. UnRLEBlock(blk).ch # c
      <4>1. state_in_len \in 0..RunMax
        BY <2>0 DEF IInv, TypeOK, BlockType
      <4>2. state_in_len < 4 => state_in_len # RunMax
        BY <4>1, RunMaxAssumption
      <4>3. c # 256
        BY <1>1a DEF Bytes
      <4> QED BY <2>2, <3>1, <4>2, <4>3
    <3> QED BY <2>2, <3>1, <3>2, <3>3 DEF DecodeInv
  <2>3. CASE ~(state_in_ch < NoChar) /\ UNCHANGED blockVars /\ state_in_ch' = c
    <3>1. block = <<>>
      <4>1. state_in_ch = NoChar
        <5>1. state_in_ch \in Bytes \cup {NoChar}
          BY <2>0 DEF IInv, TypeOK, BlockType
        <5> QED BY <2>3, <5>1 DEF Bytes, NoChar
      <4>2. ~(nblock > 0) /\ nblock \in Nat
        BY <1>1, <2>0, <4>1, LenProperties DEF IInv, FillInv, TypeOK, BlockType, nblock
      <4>3. block \in Seq(Bytes) /\ Len(block) = 0
        BY <2>0, <4>2 DEF IInv, TypeOK, BlockType, nblock
      <4> QED BY <4>3, EmptySeq
    <3>2. block' = <<>>
      BY <2>3, <3>1 DEF blockVars
    <3>3. blockCRC' = <<>>
      <4>1. UnRLE(<<>>) = <<>>
        BY UnRLEEmpty DEF UnRLE, RLEStart
      <4> QED BY <1>1, <2>0, <2>3, <3>1, <4>1 DEF DecodeInv, blockVars
    <3> QED BY <1>1a, <2>3, <3>2, <3>3, FreshDecodes
  <2> QED BY <1>1, <2>1, <2>2, <2>3 DEF AddCharToBlock
<1> QED BY <1>2, <1>3, <1>4 DEF FullInv

(***************************************************************************)
(* BZ2_compressBlock lays the block, if it holds anything, behind what was *)
(* written, the header first when this is block 1, and the trailer last.   *)
(***************************************************************************)
LEMMA CloseLaid ==
  ASSUME FullInv, ~Sealed, state = "INPUT", blockNo >= 1,
         NEW blk \in Seq(Bytes), NEW last \in BOOLEAN, ~EndsBeforeCount(blk),
         blk = <<>> \/ Len(blk) \in 1..(BlockUnit * blockSize100k),
         BZ2_compressBlock(blk, UnRLE(blk), last),
         state' = "OUTPUT", UNCHANGED <<blockNo, blockSize100k>>,
         last <=> Sealed'
  PROVE  StreamInv'
<1> DEFINE crc   == UnRLE(blk)
           crcs  == IF blk = <<>> THEN combinedCRC ELSE Append(combinedCRC, crc)
           hd    == IF blockNo = 1 THEN HeaderTokens(blockSize100k) ELSE <<>>
           body  == IF blk = <<>> THEN <<>> ELSE BlockTokens(crc, blk)
           tail  == IF last THEN TrailerTokens(crcs) ELSE <<>>
           s1    == stream \o hd
           s2    == s1 \o body
           s3    == s2 \o tail
           level == blockSize100k
<1>1. level \in 1..9 /\ BlockUnit \in Nat /\ blockNo \in Nat
  BY BlockUnitAssumption DEF FullInv, IInv, TypeOK, ControlType
<1>2. stream \in Seq(Token)
  BY DEF FullInv, IInv, TypeOK, StreamType
<1>3. combinedCRC \in Seq(Seq(Bytes)) /\ crc \in Seq(Bytes)
  BY UnRLEType DEF FullInv, IInv, TypeOK, StreamType
<1>4. crcs \in Seq(Seq(Bytes))
  <2> HIDE DEF crc
  <2> QED BY <1>3, AppendProperties
<1>5. hd \in Seq(Token) /\ body \in Seq(Token) /\ tail \in Seq(Token)
  <2>1. blk \in Seq(Bytes)
    OBVIOUS
  <2> HIDE DEF crc, crcs, level
  <2>2. /\ HeaderTokens(level) \in Seq(Token) /\ BlockTokens(crc, blk) \in Seq(Token)
        /\ TrailerTokens(crcs) \in Seq(Token)
    <3>1. level \in 1..9 /\ crc \in Seq(Bytes) /\ crcs \in Seq(Seq(Bytes))
      BY <1>1, <1>3, <1>4 DEF level
    <3>2. HeaderTokens(level) \in Seq(Token)
      BY <3>1, HeaderTokenType
    <3>3. BlockTokens(crc, blk) \in Seq(Token)
      BY <2>1, <3>1, BlockTokenType
    <3>4. TrailerTokens(crcs) \in Seq(Token)
      BY <3>1, TrailerTokenType
    <3> QED BY <3>2, <3>3, <3>4
  <2>3. <<>> \in Seq(Token)
    BY Empties
  <2> QED BY <2>2, <2>3 DEF level
<1>6. combinedCRC' = crcs /\ packed' = packed \o crc
      /\ stream' = stream \o ((hd \o body) \o tail)
  BY DEF BZ2_compressBlock
<1>7. s1 \in Seq(Token) /\ Len(s1) = 2 + 2 * Len(combinedCRC)
      /\ Laid(s1, level, combinedCRC, BlockUnit)
  <2>1. CASE blockNo = 1
    <3>1. stream = <<>> /\ combinedCRC = <<>>
      BY <2>1 DEF FullInv, StreamInv, Started
    <3>2. s1 = HeaderTokens(level)
      BY <1>5, <2>1, <3>1, ConcatEmptySeq
    <3>3. Len(combinedCRC) = 0
      BY <3>1, Empties
    <3>4. Len(s1) = 2 /\ s1[1] = <<"BZh", <<>> >> /\ s1[2] = <<"level", <<level>> >>
      <4> DEFINE e1 == <<"BZh", <<>> >>
                 e2 == <<"level", <<level>> >>
      <4>1. s1 = <<e1, e2>>
        BY <3>2 DEF HeaderTokens
      <4> HIDE DEF s1, e1, e2
      <4>2. Len(s1) = 2 /\ s1[1] = e1 /\ s1[2] = e2
        BY <4>1
      <4> QED BY <4>2 DEF e1, e2
    <3>5. \A b \in 1..Len(combinedCRC) : FALSE
      BY <3>3
    <3>6. Laid(s1, level, combinedCRC, BlockUnit)
      <4> HIDE DEF s1, level
      <4> QED BY <3>3, <3>4, <3>5 DEF Laid
    <3> HIDE DEF s1
    <3> QED BY <1>5, <2>1, <3>2, <3>3, <3>4, <3>6
  <2>2. CASE blockNo # 1
    <3>1. Started
      BY <1>1, <2>2 DEF Started
    <3>2. s1 = stream
      BY <1>2, <2>2, ConcatEmptySeq
    <3> QED BY <1>2, <3>1, <3>2 DEF FullInv, StreamInv
  <2> QED BY <2>1, <2>2
<1> HIDE DEF s1
<1>8. s2 \in Seq(Token) /\ Len(s2) = 2 + 2 * Len(crcs) /\ Laid(s2, level, crcs, BlockUnit)
  <2>1. CASE blk = <<>>
    <3>1. s2 = s1
      BY <1>7, <2>1, ConcatEmptySeq
    <3> QED BY <1>7, <2>1, <3>1
  <2>2. CASE blk # <<>>
    <3>1. Len(blk) \in 1..(BlockUnit * level)
      BY <2>2
    <3>2. s2 = s1 \o BlockTokens(UnRLE(blk), blk) /\ crcs = Append(combinedCRC, UnRLE(blk))
      BY <2>2
    <3>3. s2 \in Seq(Token)
      BY <1>5, <1>7, ConcatProperties
    <3> HIDE DEF s2, crcs, level
    <3>4. /\ Laid(s1 \o BlockTokens(UnRLE(blk), blk), level,
                  Append(combinedCRC, UnRLE(blk)), BlockUnit)
          /\ Len(s1 \o BlockTokens(UnRLE(blk), blk))
               = 2 + 2 * Len(Append(combinedCRC, UnRLE(blk)))
      <4>1. /\ s1 \in Seq(Token) /\ level \in 1..9 /\ BlockUnit \in Nat
            /\ combinedCRC \in Seq(Seq(Bytes)) /\ blk \in Seq(Bytes)
            /\ Laid(s1, level, combinedCRC, BlockUnit) /\ Len(s1) = 2 + 2 * Len(combinedCRC)
            /\ ~EndsBeforeCount(blk)
        BY <1>1, <1>3, <1>7
      <4> QED BY <3>1, <4>1, LaidBlock
    <3> QED BY <3>2, <3>3, <3>4
  <2> QED BY <2>1, <2>2
<1> HIDE DEF s2
<1>9. stream' = s3
  <2> HIDE DEF hd, body, tail
  <2>1. stream \o ((hd \o body) \o tail) = (stream \o (hd \o body)) \o tail
    <3>1. hd \o body \in Seq(Token)
      BY <1>5, ConcatProperties
    <3> QED BY <1>2, <1>5, <3>1, TokenRegroup, ZenonT(60)
  <2>2. stream \o (hd \o body) = (stream \o hd) \o body
    BY <1>2, <1>5, TokenRegroup
  <2> QED BY <1>6, <2>1, <2>2 DEF s1, s2
<1>10. Laid(s3, level, crcs, BlockUnit)
  <2> HIDE DEF tail, crcs, level
  <2> QED BY <1>1, <1>4, <1>5, <1>8, LaidKept
<1>11. packed' = Seqs!FlattenSeq(crcs)
  <2> HIDE DEF crc
  <2>1. packed = Seqs!FlattenSeq(combinedCRC) /\ packed \in Seq(Bytes)
    BY DEF FullInv, StreamInv, IInv, TypeOK, StreamType
  <2>2. CASE blk = <<>>
    <3>1. crc = <<>>
      BY <2>2, UnRLEEmpty DEF crc, UnRLE, RLEStart
    <3> QED BY <1>6, <2>1, <2>2, <3>1, ConcatEmptySeq
  <2>3. CASE blk # <<>>
    BY <1>3, <1>6, <2>1, <2>3, FlattenAppend
  <2> QED BY <2>2, <2>3
<1>12. CASE last
  <2>1. tail = << <<"end", <<>> >>, <<"crc", crcs>> >>
    BY <1>12 DEF TrailerTokens
  <2> DEFINE e1 == <<"end", <<>> >>
             e2 == <<"crc", crcs>>
             h  == Len(crcs)
  <2>2. Len(tail) = 2 /\ tail[1] = e1 /\ tail[2] = e2
    BY <2>1
  <2>3. h \in Nat /\ Len(s2) = 2 + 2 * h
    BY <1>4, <1>8, LenProperties
  <2> HIDE DEF tail, e1, e2, h, crcs
  <2>4. /\ Len(s3) = Len(s2) + Len(tail)
        /\ \A i \in 1..(Len(s2) + Len(tail)) :
              s3[i] = IF i <= Len(s2) THEN s2[i] ELSE tail[i - Len(s2)]
    BY <1>5, <1>8, ConcatProperties
  <2> HIDE DEF s3
  <2>5. Len(s3) = 2 * h + 4
    BY <2>2, <2>3, <2>4
  <2>6. s3[2 * h + 3] = tail[1] /\ s3[2 * h + 4] = tail[2]
    BY <2>2, <2>3, <2>4
  <2>7. s3[Len(s3) - 1] = e1 /\ s3[Len(s3)] = e2
    <3>1. Len(s3) - 1 = 2 * h + 3
      BY <2>3, <2>5
    <3> QED BY <2>2, <2>5, <2>6, <3>1
  <2>8. Sealed' /\ Started'
    BY <1>12 DEF Started
  <2> QED BY <1>6, <1>9, <1>10, <1>11, <2>5, <2>7, <2>8 DEF StreamInv, e1, e2, h
<1>13. CASE ~last
  <2>1. s3 = s2
    BY <1>8, <1>13, ConcatEmptySeq
  <2>2. ~Sealed' /\ Started'
    BY <1>13 DEF Started
  <2> HIDE DEF s3, crcs
  <2> QED BY <1>6, <1>8, <1>9, <1>10, <1>11, <2>1, <2>2 DEF StreamInv
<1> QED BY <1>12, <1>13

LEMMA AfterInputFull == FullInv /\ IInv' /\ AfterInput => FullInv'
<1> SUFFICES ASSUME FullInv, IInv', AfterInput PROVE FullInv'
  OBVIOUS
<1>0. IInv /\ DecodeInv /\ StreamInv /\ OwedInv
  BY DEF FullInv
<1>1. /\ pc = "loop" /\ state = "INPUT"
      /\ UNCHANGED <<avail_in_expect, mode, blockSize100k, blockNo>>
  BY DEF AfterInput, inVars, lifeVars
<1>2. mode \in {"RUNNING", "FLUSHING", "FINISHING"} /\ ~Sealed /\ blockNo >= 1
  BY <1>0, <1>1 DEF IInv, LoopInv, BitInv
<1>3. OwedInv'
  BY <1>0, <1>1 DEF OwedInv
<1>4. blockSize100k \in 1..9 /\ BlockUnit \in Nat /\ block \in Seq(Bytes)
  BY <1>0, BlockUnitAssumption DEF IInv, TypeOK, ControlType, BlockType
\* A block that keeps inside the array is no longer than a level allows.
<1>5. ASSUME NEW blk \in Seq(Bytes), Len(blk) <= nblockMAX + 5
      PROVE  blk = <<>> \/ Len(blk) \in 1..(BlockUnit * blockSize100k)
  <2> DEFINE size == BlockUnit * blockSize100k
             h    == Len(blk)
  <2>1. size - 19 \in Nat /\ nblockMAX = size - 19
    BY <1>4, MaxPositive DEF nblockMAX
  <2>2. h \in Nat /\ (h = 0 => blk = <<>>) /\ h <= nblockMAX + 5
    BY <1>5, LenProperties, EmptySeq
  <2> HIDE DEF size, h
  <2>3. size \in Int
    <3>1. BlockUnit * blockSize100k \in Int
      BY <1>4
    <3> QED BY <3>1 DEF size
  <2>4. h = 0 \/ h \in 1..size
    BY <2>1, <2>2, <2>3
  <2> QED BY <2>2, <2>4 DEF size, h
\* Nothing is asked of the block while it is being output.
<1>6. ASSUME state' = "OUTPUT", StreamInv' PROVE FullInv'
  BY <1>3, <1>6 DEF FullInv, DecodeInv
<1>7. ASSUME EndOfFlushOrFinish PROVE FullInv'
  <2> DEFINE last == mode = "FINISHING"
  <2>1. CloseLastBlock /\ state' = "OUTPUT"
    BY <1>7 DEF AfterInput
  <2>2. avail_in_expect' = 0 /\ mode' \in {"FLUSHING", "FINISHING"}
    BY <1>1, <1>2, <1>7 DEF EndOfFlushOrFinish
  <2>3. last <=> Sealed'
    <3>1. state_in_ch' = NoChar
      BY <2>1 DEF CloseLastBlock
    <3>2. mode' = "FINISHING" <=> Sealed'
      BY <2>1, <2>2, <3>1 DEF IInv, LoopInv, isempty_RL, NoChar
    <3> QED BY <1>1, <3>2
  <2>4. PICK blk \in Seq(Bytes) :
          /\ BZ2_compressBlock(blk, UnRLE(blk), last)
          /\ block' = blk /\ ~EndsBeforeCount(blk)
    <3>1. CASE state_in_ch < NoChar
      <4> DEFINE blk == block \o Pair(state_in_ch, state_in_len)
                 crc == blockCRC \o Run(state_in_ch, state_in_len)
      <4>1. add_pair_to_block /\ BZ2_compressBlock(blk, crc, last)
        BY <2>1, <3>1 DEF CloseLastBlock
      <4>2. block' = blk
        BY <4>1 DEF add_pair_to_block
      <4>3. blk \in Seq(Bytes) /\ UnRLE(blk) = crc /\ ~EndsBeforeCount(blk)
        BY <1>0, <1>1, <3>1, PairDecodes
      <4> HIDE DEF blk, crc
      <4> QED BY <4>1, <4>2, <4>3
    <3>2. CASE ~(state_in_ch < NoChar)
      <4>1. block' = block /\ BZ2_compressBlock(block, blockCRC, last)
        BY <2>1, <3>2 DEF CloseLastBlock, blockVars
      <4>2. UnRLE(block) = blockCRC /\ ~EndsBeforeCount(block)
        BY <1>0, <1>1 DEF DecodeInv
      <4> HIDE DEF last
      <4> QED BY <1>4, <4>1, <4>2
    <3> QED BY <3>1, <3>2
  <2>5. Len(blk) <= nblockMAX + 5
    BY <1>1, <2>4 DEF IInv, BlockFits, nblock, nblockMAX
  <2>6. last \in BOOLEAN
    OBVIOUS
  <2> HIDE DEF last
  <2>7. StreamInv'
    BY <1>1, <1>2, <1>5, <2>1, <2>3, <2>4, <2>5, <2>6, CloseLaid
  <2> QED BY <1>6, <2>1, <2>7
<1>8. ASSUME ~EndOfFlushOrFinish, BlockFull PROVE FullInv'
  <2>1. /\ state' = "OUTPUT" /\ BZ2_compressBlock(block, blockCRC, FALSE)
        /\ UNCHANGED <<state_in_ch, state_in_len>>
    BY <1>8 DEF AfterInput, CloseFullBlock, runVars
  <2>2. UnRLE(block) = blockCRC /\ ~EndsBeforeCount(block)
    BY <1>0, <1>1 DEF DecodeInv
  <2>3. Len(block) <= nblockMAX + 5
    BY <1>0 DEF IInv, BlockFits, nblock
  <2>4. ~Sealed'
    <3>1. mode # "FINISHING" \/ avail_in_expect # 0
      BY <1>8 DEF EndOfFlushOrFinish
    <3>2. mode # "IDLE"
      BY <1>2
    <3> QED BY <1>1, <3>1, <3>2 DEF IInv, LoopInv
  <2>5. StreamInv'
    BY <1>1, <1>2, <1>4, <1>5, <2>1, <2>2, <2>3, <2>4, CloseLaid
  <2> QED BY <1>6, <2>1, <2>5
<1>9. ASSUME ~EndOfFlushOrFinish, ~BlockFull PROVE FullInv'
  <2>1. UNCHANGED <<state, state_in_ch, block, blockCRC, combinedCRC, stream, packed>>
    BY <1>9 DEF AfterInput, runVars, blockVars, bitVars
  <2> QED BY <1>0, <1>1, <1>3, <2>1, DecodeFrame, StreamFrame DEF FullInv, Started
<1> QED BY <1>7, <1>8, <1>9

LEMMA ReturnFull == FullInv /\ IInv' /\ Return => FullInv'
<1> SUFFICES ASSUME FullInv, IInv', Return PROVE FullInv'
  OBVIOUS
<1>1. UNCHANGED <<avail_in_expect, state, state_in_ch, block, blockCRC, blockNo,
                  blockSize100k, combinedCRC, stream, packed>>
  BY DEF Return, inVars, runVars, lifeVars, blockVars, bitVars
<1>2. OwedInv'
  <2>1. avail_in_expect \in Nat
    BY DEF FullInv, IInv, TypeOK, StrmType
  <2>2. mode' = mode \/ ~Unfinished
    BY DEF Return
  <2> QED BY <1>1, <2>1, <2>2 DEF FullInv, OwedInv, Unfinished
<1> QED BY <1>1, <1>2, DecodeFrame, StreamFrame DEF FullInv, Started

(* The strengthened invariant holds of every behaviour of the compressor.  *)
THEOREM FullInductive == Spec => []FullInv
<1>1. Init => FullInv
  BY InitFull
<1>2. FullInv /\ IInv' /\ [Next]_vars => FullInv'
  <2> SUFFICES ASSUME FullInv, IInv', [Next]_vars PROVE FullInv'
    OBVIOUS
  <2>1. ASSUME NEW level \in Levels, NEW got \in SUBSET Buffers,
               BZ2_bzCompressInit(level, got)
        PROVE  FullInv'
    BY <2>1, SetUpFull DEF BZ2_bzCompressInit
  <2>2. ASSUME NEW action \in Actions, NEW ai \in 0..ChunkIn,
               NEW ao \in 0..ChunkOut, BZ2_bzCompress(action, ai, ao)
        PROVE  FullInv'
    BY <2>2, CallFull
  <2>3. CASE BZ2_bzCompressEnd
    BY <2>3, EndStreamFull, EndNothingFull DEF BZ2_bzCompressEnd
  <2>4. CASE CopyOutput
    BY <2>4, CopyOutputFull
  <2>5. CASE AfterOutput
    BY <2>5, AfterOutputFull
  <2>6. ASSUME NEW c \in Symbols, CopyInput(c) PROVE FullInv'
    BY <2>6, CopyInputFull
  <2>7. CASE AfterInput
    BY <2>7, AfterInputFull
  <2>8. CASE Return
    BY <2>8, ReturnFull
  <2>9. CASE UNCHANGED vars
    BY <2>9, DecodeFrame, StreamFrame DEF vars, FullInv, OwedInv, Started
  <2> QED BY <2>1, <2>2, <2>3, <2>4, <2>5, <2>6, <2>7, <2>8, <2>9
          DEF Next, Caller, Library
<1> QED BY <1>1, <1>2, Inductive, PTL DEF Spec

(* Without a stream nothing has been read or written. *)
LEMMA NothingYet == FullInv /\ mode = "NONE" => fed = <<>> /\ out = <<>>
<1> SUFFICES ASSUME FullInv, mode = "NONE" PROVE fed = <<>> /\ out = <<>>
  OBVIOUS
<1>1. /\ state = "INPUT" /\ blockNo = 0 /\ isempty_RL /\ blockCRC = <<>>
      /\ zbits = <<>> /\ state_out_pos = 0 /\ bsBuff = <<>>
  BY DEF FullInv, IInv, BitInv
<1>2. stream = <<>> /\ combinedCRC = <<>> /\ packed = Seqs!FlattenSeq(combinedCRC)
  BY <1>1 DEF FullInv, StreamInv, Started
<1>3. packed = <<>>
  BY <1>2, FlattenEmpty
<1>4. state_in_ch = NoChar
  BY <1>1 DEF FullInv, IInv, FillInv, TypeOK, BlockType, isempty_RL, Bytes, NoChar
<1>5. OpenBlock = <<>> /\ PendingRun = <<>>
  BY <1>1, <1>4 DEF OpenBlock, PendingRun, NoChar
<1>6. <<>> \o <<>> = <<>>
  BY Empties, ConcatEmptySeq
<1>7. fed = <<>>
  BY <1>3, <1>5, <1>6 DEF FullInv, IInv, NoInputLost
<1>8. out \in Seq(Token) /\ Len(<<>>) = 0
  BY Empties DEF FullInv, IInv, TypeOK, StreamType
<1>9. SubSeq(<<>>, 0 + 1, Len(<<>>)) = <<>>
  BY <1>8, SubSeqEmpty
<1>10. <<>> = (out \o <<>>) \o <<>>
  BY <1>1, <1>2, <1>9 DEF FullInv, IInv, NoOutputLost, numZ
<1>11. out = <<>>
  BY <1>8, <1>10, ConcatEmptySeq
<1> QED BY <1>7, <1>11

(***************************************************************************)
(* The flags and the counters of the compressor.                           *)
(***************************************************************************)
CountInv == FlagsExact /\ CountersExact

(* One more: the low word goes up, or carries into the high one.           *)
LEMMA TickExact ==
  ASSUME NEW t \in [lo : 0..(WordSize - 1), hi : Nat]
  PROVE  Value(Tick(t)) = Value(t) + 1
<1>1. t.lo \in 0..(WordSize - 1) /\ t.hi \in Nat
  OBVIOUS
<1>2. CASE t.lo + 1 = WordSize
  <2>1. Tick(t) = [lo |-> 0, hi |-> t.hi + 1]
    BY <1>2 DEF Tick
  <2>2. (t.hi + 1) * WordSize = t.hi * WordSize + WordSize /\ t.hi * WordSize \in Int
    BY <1>1
  <2>3. Value(Tick(t)) = (t.hi + 1) * WordSize + 0 /\ Value(t) = t.hi * WordSize + t.lo
    BY <2>1 DEF Value
  <2> QED BY <1>1, <1>2, <2>2, <2>3, SMTT(30)
<1>3. CASE t.lo + 1 # WordSize
  <2>1. Tick(t) = [lo |-> t.lo + 1, hi |-> t.hi]
    BY <1>3 DEF Tick
  <2>2. t.hi * WordSize \in Int
    BY <1>1
  <2>3. Value(Tick(t)) = t.hi * WordSize + (t.lo + 1) /\ Value(t) = t.hi * WordSize + t.lo
    BY <2>1 DEF Value
  <2> QED BY <1>1, <2>2, <2>3
<1> QED BY <1>2, <1>3

LEMMA ZeroExact == Value(Zero64) = 0
BY DEF Value, Zero64

(* What a sequence has in it, when another is put behind it.               *)
LEMMA ElementsOfConcat ==
  ASSUME NEW s \in Seq(Bytes), NEW e \in Seq(Bytes)
  PROVE  {(s \o e)[i] : i \in 1..Len(s \o e)}
           = {s[i] : i \in 1..Len(s)} \cup {e[i] : i \in 1..Len(e)}
<1> DEFINE t == s \o e
<1>1. /\ Len(t) = Len(s) + Len(e) /\ Len(s) \in Nat /\ Len(e) \in Nat
      /\ \A i \in 1..Len(t) : t[i] = IF i <= Len(s) THEN s[i] ELSE e[i - Len(s)]
  BY ConcatProperties, LenProperties
<1> HIDE DEF t
<1>2. \A i \in 1..Len(s) : i \in 1..Len(t) /\ t[i] = s[i]
  BY <1>1
<1>3. \A i \in 1..Len(e) : i + Len(s) \in 1..Len(t) /\ t[i + Len(s)] = e[i]
  BY <1>1
<1>4. \A i \in 1..Len(t) : \/ i \in 1..Len(s) /\ t[i] = s[i]
                           \/ i - Len(s) \in 1..Len(e) /\ t[i] = e[i - Len(s)]
  BY <1>1
<1>5. {t[i] : i \in 1..Len(t)} = {s[i] : i \in 1..Len(s)} \cup {e[i] : i \in 1..Len(e)}
  <2>1. ASSUME NEW x \in {t[i] : i \in 1..Len(t)}
        PROVE  x \in {s[i] : i \in 1..Len(s)} \cup {e[i] : i \in 1..Len(e)}
    BY <1>4
  <2>2. ASSUME NEW x \in {s[i] : i \in 1..Len(s)} PROVE x \in {t[i] : i \in 1..Len(t)}
    BY <1>2
  <2>3. ASSUME NEW x \in {e[i] : i \in 1..Len(e)} PROVE x \in {t[i] : i \in 1..Len(t)}
    BY <1>3
  <2> QED BY <2>1, <2>2, <2>3
<1> QED BY <1>5 DEF t

(* add_pair_to_block flags what it stores. *)
LEMMA PairFlagged ==
  ASSUME IInv, FlagsExact, state_in_ch < NoChar, add_pair_to_block
  PROVE  FlagsExact'
<1> DEFINE pair == Pair(state_in_ch, state_in_len)
<1>1. state_in_ch \in Bytes /\ state_in_len \in 1..RunMax /\ block \in Seq(Bytes)
  BY DEF IInv, TypeOK, BlockType, FillInv, NoChar, Bytes
<1>2. /\ pair \in Seq(Bytes)
      /\ {pair[i] : i \in 1..Len(pair)}
           = {state_in_ch} \cup (IF state_in_len < 4 THEN {} ELSE {state_in_len - 4})
  BY <1>1, PairType
<1>3. block' = block \o pair
  BY DEF add_pair_to_block
<1>4. inUse' = inUse \cup ({state_in_ch} \cup (IF state_in_len < 4 THEN {} ELSE {state_in_len - 4}))
  BY DEF add_pair_to_block
<1> HIDE DEF pair
<1>5. inUse' = {block[i] : i \in 1..Len(block)} \cup {pair[i] : i \in 1..Len(pair)}
  BY <1>2, <1>4 DEF FlagsExact
<1>6. {(block \o pair)[i] : i \in 1..Len(block \o pair)}
        = {block[i] : i \in 1..Len(block)} \cup {pair[i] : i \in 1..Len(pair)}
  BY <1>1, <1>2, ElementsOfConcat
<1> QED BY <1>3, <1>5, <1>6 DEF FlagsExact

(* An empty block has no flags. *)
LEMMA NothingFlagged == block' = <<>> /\ inUse' = {} => FlagsExact'
BY Empties DEF FlagsExact

LEMMA FlagsFrame == FlagsExact /\ UNCHANGED <<block, inUse>> => FlagsExact'
BY DEF FlagsExact

LEMMA CountersFrame ==
  CountersExact /\ UNCHANGED <<total_in, total_out, fed, out>> /\ (mode' # "NONE" => mode # "NONE")
    => CountersExact'
BY DEF CountersExact, Value

LEMMA CountSetUp ==
  ASSUME FullInv, CountInv, NEW level, NEW got, SetUp(level, got)
  PROVE  CountInv'
<1>1. mode = "NONE" /\ UNCHANGED <<fed, out>>
  BY DEF SetUp
<1>2. fed = <<>> /\ out = <<>> /\ Len(<<>>) = 0
  BY <1>1, NothingYet, Empties
<1>3. CASE mode' = "NONE" /\ UNCHANGED <<block, inUse>>
  BY <1>3, FlagsFrame DEF CountInv, CountersExact
<1>4. CASE block' = <<>> /\ inUse' = {} /\ total_in' = Zero64 /\ total_out' = Zero64
  <2>1. CountersExact'
    BY <1>1, <1>2, <1>4, ZeroExact DEF CountersExact, Value
  <2> QED BY <1>4, <2>1, NothingFlagged DEF CountInv
<1> QED BY <1>1, <1>3, <1>4 DEF SetUp, blockVars, prepare_new_block

LEMMA CountCall ==
  ASSUME CountInv, NEW action, NEW ai, NEW ao, BZ2_bzCompress(action, ai, ao)
  PROVE  CountInv'
<1>1. UNCHANGED <<total_in, total_out, fed, out, block, inUse>>
  BY DEF BZ2_bzCompress, blockVars
<1>2. mode' # "NONE" => mode # "NONE"
  BY DEF BZ2_bzCompress, Refuse, Enter
<1> QED BY <1>1, <1>2, FlagsFrame, CountersFrame DEF CountInv

LEMMA CountEnd == CountInv /\ BZ2_bzCompressEnd => CountInv'
<1> SUFFICES ASSUME CountInv, BZ2_bzCompressEnd PROVE CountInv'
  OBVIOUS
<1>1. CASE EndNothing
  BY <1>1, FlagsFrame, CountersFrame DEF EndNothing, blockVars, CountInv
<1>2. CASE EndStream
  BY <1>2, NothingFlagged DEF EndStream, CountInv, CountersExact
<1> QED BY <1>1, <1>2 DEF BZ2_bzCompressEnd

LEMMA CountCopyOutput == FullInv /\ CountInv /\ CopyOutput => CountInv'
<1> SUFFICES ASSUME FullInv, CountInv, CopyOutput PROVE CountInv'
  OBVIOUS
<1>1. /\ UNCHANGED <<block, inUse, total_in, fed, mode>>
      /\ out' = Append(out, zbits[state_out_pos + 1]) /\ total_out' = Tick(total_out)
  BY DEF CopyOutput, inVars, blockVars
<1>2. /\ total_out \in [lo : 0..(WordSize - 1), hi : Nat]
      /\ out \in Seq(Token) /\ zbits \in Seq(Token) /\ state_out_pos \in Nat
      /\ state_out_pos < Len(zbits)
  BY DEF FullInv, IInv, TypeOK, StrmType, StreamType, CopyOutput, CanCopyOut, numZ
<1>3. zbits[state_out_pos + 1] \in Token
  <2>1. state_out_pos + 1 \in 1..Len(zbits)
    BY <1>2, LenProperties
  <2> QED BY <1>2, <2>1, ElementOfSeq
<1>4. Len(out') = Len(out) + 1
  BY <1>1, <1>2, <1>3, AppendProperties
<1>5. Value(total_out)' = Value(total_out) + 1
  <2>1. Value(Tick(total_out)) = Value(total_out) + 1
    BY <1>2, TickExact
  <2> QED BY <1>1, <2>1 DEF Value
<1> QED BY <1>1, <1>4, <1>5, FlagsFrame DEF CountInv, CountersExact, Value

LEMMA CountAfterOutput == FullInv /\ CountInv /\ AfterOutput => CountInv'
<1> SUFFICES ASSUME FullInv, CountInv, AfterOutput PROVE CountInv'
  OBVIOUS
<1>1. UNCHANGED <<total_in, total_out, fed, out, mode>>
  BY DEF AfterOutput, inVars
<1>2. UNCHANGED <<block, inUse>> \/ (block' = <<>> /\ inUse' = {})
  BY DEF AfterOutput, blockVars, prepare_new_block
<1> QED BY <1>1, <1>2, FlagsFrame, NothingFlagged, CountersFrame DEF CountInv

LEMMA CountCopyInput ==
  ASSUME FullInv, CountInv, NEW c \in Symbols, CopyInput(c)
  PROVE  CountInv'
<1>1. /\ UNCHANGED <<out, total_out, mode>> /\ AddCharToBlock(c)
      /\ fed' = Append(fed, c) /\ total_in' = Tick(total_in)
  BY DEF CopyInput, outVars
<1>2. /\ total_in \in [lo : 0..(WordSize - 1), hi : Nat]
      /\ fed \in Seq(Bytes) /\ c \in Bytes
  BY SymbolsAssumption DEF FullInv, IInv, TypeOK, StrmType, BlockType, Bytes
<1>3. Len(fed') = Len(fed) + 1
  BY <1>1, <1>2, AppendProperties
<1>4. Value(total_in)' = Value(total_in) + 1
  <2>1. Value(Tick(total_in)) = Value(total_in) + 1
    BY <1>2, TickExact
  <2> QED BY <1>1, <2>1 DEF Value
<1>5. UNCHANGED <<block, inUse>> \/ (state_in_ch < NoChar /\ add_pair_to_block)
  BY <1>1 DEF AddCharToBlock, blockVars
<1>6. FlagsExact'
  BY <1>5, FlagsFrame, PairFlagged DEF CountInv, FullInv
<1> QED BY <1>1, <1>3, <1>4, <1>6 DEF CountInv, CountersExact, Value

LEMMA CountAfterInput == FullInv /\ CountInv /\ AfterInput => CountInv'
<1> SUFFICES ASSUME FullInv, CountInv, AfterInput PROVE CountInv'
  OBVIOUS
<1>1. UNCHANGED <<total_in, total_out, fed, out, mode>>
  BY DEF AfterInput, inVars, outVars
<1>2. UNCHANGED <<block, inUse>> \/ (state_in_ch < NoChar /\ add_pair_to_block)
  BY DEF AfterInput, CloseLastBlock, CloseFullBlock, blockVars
<1>3. FlagsExact'
  BY <1>2, FlagsFrame, PairFlagged DEF CountInv, FullInv
<1> QED BY <1>1, <1>3, CountersFrame DEF CountInv

LEMMA CountReturn == FullInv /\ CountInv /\ Return => CountInv'
<1> SUFFICES ASSUME FullInv, CountInv, Return PROVE CountInv'
  OBVIOUS
<1>1. UNCHANGED <<total_in, total_out, fed, out, block, inUse>> /\ mode # "NONE"
  BY DEF Return, inVars, outVars, blockVars
<1> QED BY <1>1, FlagsFrame, CountersFrame DEF CountInv

(* The flags and the counters are exact in every behaviour.                *)
THEOREM CountsExact == Spec => []CountInv
<1>1. Init => CountInv
  BY Empties, ZeroExact DEF Init, CountInv, FlagsExact, CountersExact
<1>2. FullInv /\ CountInv /\ [Next]_vars => CountInv'
  <2> SUFFICES ASSUME FullInv, CountInv, [Next]_vars PROVE CountInv'
    OBVIOUS
  <2>1. ASSUME NEW level \in Levels, NEW got \in SUBSET Buffers,
               BZ2_bzCompressInit(level, got)
        PROVE  CountInv'
    BY <2>1, CountSetUp DEF BZ2_bzCompressInit
  <2>2. ASSUME NEW action \in Actions, NEW ai \in 0..ChunkIn,
               NEW ao \in 0..ChunkOut, BZ2_bzCompress(action, ai, ao)
        PROVE  CountInv'
    BY <2>2, CountCall
  <2>3. CASE BZ2_bzCompressEnd
    BY <2>3, CountEnd
  <2>4. CASE CopyOutput
    BY <2>4, CountCopyOutput
  <2>5. CASE AfterOutput
    BY <2>5, CountAfterOutput
  <2>6. ASSUME NEW c \in Symbols, CopyInput(c) PROVE CountInv'
    BY <2>6, CountCopyInput
  <2>7. CASE AfterInput
    BY <2>7, CountAfterInput
  <2>8. CASE Return
    BY <2>8, CountReturn
  <2>9. CASE UNCHANGED vars
    BY <2>9, FlagsFrame, CountersFrame DEF vars, blockVars, CountInv
  <2> QED BY <2>1, <2>2, <2>3, <2>4, <2>5, <2>6, <2>7, <2>8, <2>9
          DEF Next, Caller, Library
<1> QED BY <1>1, <1>2, FullInductive, PTL DEF Spec

(***************************************************************************)
(* Neither a byte taken in nor a token written is lost or doubled, exactly *)
(* the bytes of the block are flagged in inUse, and total_in and total_out *)
(* say how much has been taken in and put out, carries included.           *)
(***************************************************************************)
THEOREM NothingIsLost == Spec => []Conserved
BY InputConserved, OutputConserved, CountsExact, PTL DEF Conserved, CountInv

------------------------------------------------------------------------------
(* What is complete reads back.                                            *)
LEMMA EndReadsBack == FullInv => StreamDecodes
<1> SUFFICES ASSUME FullInv, packed = fed, out = stream, Sealed
             PROVE  WellFormed(out, BlockUnit) /\ Content(out) = fed
  BY EndHasAll DEF FullInv, StreamEndIsComplete, StreamDecodes
<1>1. stream \in Seq(Token) /\ combinedCRC \in Seq(Seq(Bytes))
      /\ blockSize100k \in 1..9 /\ BlockUnit \in Nat
  BY BlockUnitAssumption DEF FullInv, IInv, TypeOK, StreamType, ControlType
<1>2. state = "OUTPUT"
  BY DEF FullInv, IInv, LoopInv
<1>3. Laid(stream, blockSize100k, combinedCRC, BlockUnit)
  BY <1>2 DEF FullInv, StreamInv, Started
<1>4. /\ Len(stream) = 2 * Len(combinedCRC) + 4
      /\ stream[Len(stream) - 1][1] = "end"
      /\ stream[Len(stream)][1] = "crc" /\ stream[Len(stream)][2] = combinedCRC
  BY DEF FullInv, StreamInv
<1>5. packed = Seqs!FlattenSeq(combinedCRC)
  BY DEF FullInv, StreamInv
<1>6. WellFormed(stream, BlockUnit) /\ Content(stream) = Seqs!FlattenSeq(combinedCRC)
  BY <1>1, <1>3, <1>4, LaidIsWhole
<1> QED BY <1>5, <1>6

(***************************************************************************)
(* Once BZ_STREAM_END has been returned the caller holds a whole stream    *)
(* that decodes to what it handed over, in blocks the decompressor has     *)
(* room for, however the calls cut the input and the output.               *)
(***************************************************************************)
THEOREM StreamReadsBack == Spec => []StreamDecodes
BY EndReadsBack, FullInductive, PTL

------------------------------------------------------------------------------
(* The refinement, one lemma for each action that moves the queue.         *)

(* The bytes taken in that no closed block holds. *)
Outside == OpenBlock \o PendingRun

LEMMA OutsideFrame ==
  UNCHANGED <<state, blockCRC, state_in_ch, state_in_len>> => Outside' = Outside
BY DEF Outside, OpenBlock, PendingRun

LEMMA OutsideType ==
  ASSUME FullInv
  PROVE  /\ OpenBlock \in Seq(Bytes) /\ PendingRun \in Seq(Bytes)
         /\ Outside \in Seq(Bytes) /\ fed = packed \o Outside
         /\ fed \in Seq(Bytes) /\ packed \in Seq(Bytes)
         /\ isempty_RL <=> PendingRun = <<>>
<1>0. TypeOK /\ FillInv /\ NoInputLost
  BY DEF FullInv, IInv
<1>1. /\ packed \in Seq(Bytes) /\ blockCRC \in Seq(Bytes)
      /\ state_in_ch \in Bytes \cup {NoChar} /\ state_in_len \in Nat
      /\ fed \in Seq(Bytes)
  BY <1>0, RunMaxAssumption DEF TypeOK, BlockType, StreamType
<1>2. OpenBlock \in Seq(Bytes)
  BY <1>1, Empties DEF OpenBlock
<1>3. CASE state_in_ch < NoChar
  <2>1. state_in_ch \in Bytes
    BY <1>1, <1>3 DEF NoChar
  <2>2. PendingRun = Run(state_in_ch, state_in_len)
    BY <1>3 DEF PendingRun
  <2>3. PendingRun \in Seq(Bytes) /\ Len(PendingRun) = state_in_len
    BY <1>1, <2>1, <2>2, RunType
  <2>4. state_in_len > 0
    <3>1. state_in_ch # NoChar
      BY <2>1 DEF NoChar, Bytes
    <3> QED BY <1>0, <1>1, <3>1 DEF FillInv
  <2>5. PendingRun # <<>> /\ ~isempty_RL
    BY <1>3, <2>3, <2>4, Empties DEF isempty_RL
  <2>6. fed = (packed \o OpenBlock) \o PendingRun
    BY <1>0 DEF NoInputLost
  <2>7. (packed \o OpenBlock) \o PendingRun = packed \o (OpenBlock \o PendingRun)
    <3>1. packed \in Seq(Bytes) /\ OpenBlock \in Seq(Bytes) /\ PendingRun \in Seq(Bytes)
      BY <1>1, <1>2, <2>3
    <3> QED BY <3>1, ByteRegroup
  <2>8. OpenBlock \o PendingRun \in Seq(Bytes)
    BY <1>2, <2>3, ConcatProperties
  <2> QED BY <1>1, <1>2, <2>3, <2>5, <2>6, <2>7, <2>8 DEF Outside
<1>4. CASE ~(state_in_ch < NoChar)
  <2>1. PendingRun = <<>> /\ isempty_RL
    BY <1>4 DEF PendingRun, isempty_RL
  <2> QED BY <1>0, <1>1, <1>2, <2>1, Empties, ConcatProperties, ConcatAssociative
          DEF Outside, NoInputLost
<1> QED BY <1>3, <1>4

(* The same after a step. *)
LEMMA OutsideNext == FullInv' => Outside' \in Seq(Bytes) /\ fed' = packed' \o Outside'
<1> DEFINE Fed == Outside \in Seq(Bytes) /\ fed = packed \o Outside
<1>1. FullInv => Fed
  BY OutsideType
<1> HIDE DEF Fed
<1>2. FullInv' => Fed'
  BY <1>1, PTL
<1> QED BY <1>2 DEF Fed

(* What is left outside when the run is empty and no block is open.        *)
LEMMA NothingOutside ==
  ASSUME FullInv, isempty_RL, state = "OUTPUT" \/ blockCRC = <<>>
  PROVE  Outside = <<>>
<1>1. PendingRun = <<>>
  BY OutsideType
<1>2. OpenBlock = <<>>
  BY DEF OpenBlock
<1> QED BY <1>1, <1>2, Empties, ConcatEmptySeq DEF Outside

(* A concatenation is cut back into its parts.                             *)
LEMMA CutBack ==
  ASSUME NEW S, NEW s \in Seq(S), NEW t \in Seq(S)
  PROVE  /\ SubSeq(s \o t, 1, Len(s)) = s
         /\ SubSeq(s \o t, Len(s) + 1, Len(s \o t)) = t
<1> DEFINE m == Len(s)
           h == Len(t)
           r == s \o t
<1>1. /\ m \in Nat /\ h \in Nat /\ r \in Seq(S) /\ Len(r) = m + h
      /\ \A i \in 1..(m + h) : r[i] = IF i <= m THEN s[i] ELSE t[i - m]
  BY LenProperties, ConcatProperties
<1> HIDE DEF r
<1>2. /\ SubSeq(r, 1, m) \in Seq(S) /\ Len(SubSeq(r, 1, m)) = m
      /\ \A i \in 1..m : SubSeq(r, 1, m)[i] = s[i]
  <2>1. SubSeq(r, 1, m) = [i \in 1..m |-> r[i]]
    BY <1>1
  <2>2. \A i \in 1..m : r[i] \in S
    BY <1>1, ElementOfSeq
  <2> QED BY <1>1, <2>1, <2>2
<1>3. /\ SubSeq(r, m + 1, m + h) \in Seq(S) /\ Len(SubSeq(r, m + 1, m + h)) = h
      /\ \A i \in 1..h : SubSeq(r, m + 1, m + h)[i] = t[i]
  <2>1. SubSeq(r, m + 1, m + h) = [i \in 1..h |-> r[m + i]]
    BY <1>1
  <2>2. \A i \in 1..h : r[m + i] = t[i] /\ t[i] \in S
    BY <1>1, ElementOfSeq
  <2> QED BY <1>1, <2>1, <2>2
<1>4. SubSeq(r, 1, m) = s
  BY <1>1, <1>2, SeqEqual
<1>5. SubSeq(r, m + 1, m + h) = t
  BY <1>1, <1>3, SeqEqual
<1> QED BY <1>1, <1>4, <1>5 DEF r

LEMMA PipeStutter ==
  ASSUME UNCHANGED <<mode, avail_in_expect, combinedCRC, stream>>, Outside' = Outside
  PROVE  UNCHANGED Pipe!vars
<1>1. Sealed' = Sealed
  BY DEF Sealed
<1>2. (OpenBlock \o PendingRun)' = OpenBlock \o PendingRun
  BY DEF Outside
<1> QED BY <1>1, <1>2 DEF Pipe!vars

LEMMA InitRefines == Init => Pipe!Init
<1> SUFFICES ASSUME Init PROVE Pipe!Init
  OBVIOUS
<1>1. OpenBlock \o PendingRun = <<>>
  <2>1. OpenBlock = <<>> /\ PendingRun = <<>>
    BY DEF Init, OpenBlock, PendingRun, NoChar
  <2> QED BY <2>1, Empties, ConcatEmptySeq
<1>2. Sealed = FALSE
  BY DEF Init, Sealed
<1> QED BY <1>1, <1>2 DEF Init, Pipe!Init, Pipe!Closed

(* BZ2_bzCompressInit opens the queue, or fails and leaves it closed.      *)
LEMMA SetUpRefines ==
  ASSUME FullInv, FullInv', NEW level, NEW got, SetUp(level, got)
  PROVE  Pipe!Next \/ UNCHANGED Pipe!vars
<1>1. /\ mode = "NONE"
      /\ UNCHANGED <<avail_in_expect, combinedCRC, stream>>
  BY DEF SetUp
<1>2. state = "INPUT" /\ isempty_RL /\ blockCRC = <<>> /\ Outside = <<>>
  BY <1>1, NothingOutside DEF FullInv, IInv, BitInv
<1>3. CASE UNCHANGED <<mode, state, state_in_ch, state_in_len, blockCRC>>
  BY <1>1, <1>3, OutsideFrame, PipeStutter
<1>4. CASE /\ mode' = "RUNNING" /\ state' = "INPUT" /\ state_in_ch' = NoChar
           /\ blockCRC' = <<>>
  <2>1. OpenBlock' = <<>> /\ PendingRun' = <<>>
    BY <1>4 DEF OpenBlock, PendingRun, NoChar
  <2>2. Outside' = <<>>
    BY <2>1, Empties, ConcatEmptySeq DEF Outside
  <2>3. (OpenBlock \o PendingRun)' = OpenBlock \o PendingRun
    BY <1>2, <2>2 DEF Outside
  <2>4. Sealed' = Sealed
    BY <1>1 DEF Sealed
  <2> QED BY <1>1, <1>4, <2>3, <2>4 DEF Pipe!Next, Pipe!Open
<1> QED BY <1>3, <1>4 DEF SetUp, prepare_new_block, runVars, blockVars

(* A call announces a flush or a finish, or says nothing new.              *)
LEMMA CallRefines ==
  ASSUME FullInv, NEW action, NEW ai \in 0..ChunkIn, NEW ao,
         BZ2_bzCompress(action, ai, ao)
  PROVE  Pipe!Next \/ UNCHANGED Pipe!vars
<1>1. UNCHANGED <<state, blockCRC, state_in_ch, state_in_len, combinedCRC, stream>>
  BY DEF BZ2_bzCompress, runVars, blockVars, bitVars
<1>2. Outside' = Outside
  BY <1>1, OutsideFrame
<1>3. CASE UNCHANGED <<mode, avail_in_expect>>
  BY <1>1, <1>2, <1>3, PipeStutter
<1>4. CASE /\ mode = "RUNNING" /\ mode' \in {"FLUSHING", "FINISHING"}
           /\ avail_in_expect' = ai
  <2>1. avail_in_expect' \in Nat
    BY <1>4, BoundsAssumption
  <2>2. (OpenBlock \o PendingRun)' = OpenBlock \o PendingRun
    BY <1>2 DEF Outside
  <2>3. Sealed' = Sealed
    BY <1>1 DEF Sealed
  <2> QED BY <1>1, <1>4, <2>1, <2>2, <2>3 DEF Pipe!Next, Pipe!Announce
<1> QED BY <1>3, <1>4 DEF BZ2_bzCompress, Refuse, Enter

(* A byte copied in is accepted, behind all that waited.                   *)
LEMMA CopyInputRefines ==
  ASSUME FullInv, FullInv', NEW c \in Symbols, CopyInput(c)
  PROVE  Pipe!Next \/ UNCHANGED Pipe!vars
<1>1. /\ UNCHANGED <<mode, stream, packed, combinedCRC>>
      /\ state = "INPUT" /\ pc = "loop" /\ fed' = Append(fed, c)
      /\ avail_in_expect' = IF mode = "RUNNING" THEN avail_in_expect
                                               ELSE avail_in_expect - 1
      /\ mode # "RUNNING" => avail_in_expect > 0
  BY DEF CopyInput, CanCopyIn, bitVars
<1>2. mode \in {"RUNNING", "FLUSHING", "FINISHING"} /\ ~Sealed /\ Sealed' = Sealed
  BY <1>1 DEF FullInv, IInv, LoopInv, Sealed
<1>3. Outside' = Append(Outside, c)
  <2> DEFINE p == packed
             o == Outside
             q == Outside'
  <2>1. c \in Bytes
    BY SymbolsAssumption DEF Bytes
  <2>2. o \in Seq(Bytes) /\ p \in Seq(Bytes) /\ fed = p \o o
    BY OutsideType
  <2>3. q \in Seq(Bytes) /\ fed' = p \o q
    BY <1>1, OutsideNext
  <2> HIDE DEF p, o, q
  <2>4. p \o Append(o, c) = Append(p \o o, c) /\ Append(o, c) \in Seq(Bytes)
    BY <2>1, <2>2, AppendRegroup, AppendProperties
  <2>5. p \o q = p \o Append(o, c)
    BY <1>1, <2>2, <2>3, <2>4
  <2>6. q = Append(o, c)
    BY <2>2, <2>3, <2>4, <2>5, ConcatSimplifications
  <2> QED BY <2>6 DEF o, q
<1>4. (OpenBlock \o PendingRun)' = Append(OpenBlock \o PendingRun, c)
  BY <1>3 DEF Outside
<1>5. Pipe!Accept(c)
  BY <1>1, <1>2, <1>4 DEF Pipe!Accept
<1> QED BY <1>5 DEF Pipe!Next

(* flush_RL puts all that waited into the block that is closed.            *)
LEMMA LastBlockTakesAll ==
  ASSUME FullInv, FullInv', pc = "loop", state = "INPUT", CloseLastBlock,
         state' = "OUTPUT"
  PROVE  \E blk : /\ BZ2_compressBlock(blk, Outside, mode = "FINISHING")
                  /\ blk = <<>> <=> Outside = <<>>
                  /\ Outside' = <<>>
<1>0. IInv /\ DecodeInv
  BY DEF FullInv
<1>1. UnRLE(<<>>) = <<>>
  BY UnRLEEmpty DEF UnRLE, RLEStart
<1>2. Outside' = <<>>
  <2>1. OpenBlock' = <<>> /\ PendingRun' = <<>>
    BY DEF OpenBlock, PendingRun, NoChar, CloseLastBlock
  <2> QED BY <2>1, Empties, ConcatEmptySeq DEF Outside
<1>3. CASE state_in_ch < NoChar
  <2> DEFINE blk == block \o Pair(state_in_ch, state_in_len)
             crc == blockCRC \o Run(state_in_ch, state_in_len)
  <2>1. BZ2_compressBlock(blk, crc, mode = "FINISHING")
    BY <1>3 DEF CloseLastBlock
  <2>2. crc = Outside
    BY <1>3 DEF Outside, OpenBlock, PendingRun
  <2>3. UnRLE(blk) = crc /\ crc # <<>>
    BY <1>0, <1>3, PairDecodes
  <2> HIDE DEF blk, crc
  <2>4. blk # <<>>
    BY <1>1, <2>3
  <2> QED BY <1>2, <2>1, <2>2, <2>3, <2>4
<1>4. CASE ~(state_in_ch < NoChar)
  <2>1. BZ2_compressBlock(block, blockCRC, mode = "FINISHING")
    BY <1>4 DEF CloseLastBlock
  <2>2. blockCRC \in Seq(Bytes) /\ OpenBlock = blockCRC /\ PendingRun = <<>>
    BY <1>0, <1>4 DEF IInv, TypeOK, BlockType, OpenBlock, PendingRun
  <2>3. Outside = blockCRC
    BY <2>2, ConcatEmptySeq DEF Outside
  <2>4. block = <<>> <=> blockCRC = <<>>
    BY <1>0, <1>1 DEF DecodeInv
  <2> QED BY <1>2, <2>1, <2>3, <2>4
<1> QED BY <1>3, <1>4

(* A block closed for a flush or a full one is cut off the front; the last *)
(* block of a finish seals the stream.                                     *)
LEMMA AfterInputRefines ==
  ASSUME FullInv, FullInv', AfterInput
  PROVE  Pipe!Next \/ UNCHANGED Pipe!vars
<1>1. /\ pc = "loop" /\ state = "INPUT"
      /\ UNCHANGED <<mode, avail_in_expect>>
  BY DEF AfterInput, inVars
<1>2. mode \in {"RUNNING", "FLUSHING", "FINISHING"} /\ ~Sealed
  BY <1>1 DEF FullInv, IInv, LoopInv
<1>3. Outside \in Seq(Bytes) /\ OpenBlock = blockCRC /\ blockCRC \in Seq(Bytes)
      /\ PendingRun \in Seq(Bytes) /\ Outside = blockCRC \o PendingRun
  BY <1>1, OutsideType DEF OpenBlock, Outside
\* Blocks are cut off the front of what waits.
<1>4. ASSUME NEW h \in 1..Len(Outside), ~Sealed',
             combinedCRC' = Append(combinedCRC, SubSeq(Outside, 1, h)),
             Outside' = SubSeq(Outside, h + 1, Len(Outside))
      PROVE  Pipe!Next
  <2>1. /\ combinedCRC' = Append(combinedCRC, SubSeq(OpenBlock \o PendingRun, 1, h))
        /\ (OpenBlock \o PendingRun)'
             = SubSeq(OpenBlock \o PendingRun, h + 1, Len(OpenBlock \o PendingRun))
        /\ h \in 1..Len(OpenBlock \o PendingRun)
    BY <1>4 DEF Outside
  <2>2. Sealed' = Sealed
    BY <1>2, <1>4 DEF Sealed
  <2>3. Pipe!Cut(h)
    BY <1>1, <1>2, <2>1, <2>2 DEF Pipe!Cut
  <2> QED BY <2>1, <2>3 DEF Pipe!Next
<1>5. ASSUME EndOfFlushOrFinish PROVE Pipe!Next \/ UNCHANGED Pipe!vars
  <2>1. CloseLastBlock /\ state' = "OUTPUT"
    BY <1>5 DEF AfterInput
  <2>2. avail_in_expect = 0 /\ mode \in {"FLUSHING", "FINISHING"}
    BY <1>2, <1>5 DEF EndOfFlushOrFinish
  <2>3. PICK blk : /\ BZ2_compressBlock(blk, Outside, mode = "FINISHING")
                   /\ blk = <<>> <=> Outside = <<>>
                   /\ Outside' = <<>>
    BY <1>1, <2>1, LastBlockTakesAll
  <2>4. /\ combinedCRC' = IF Outside = <<>> THEN combinedCRC
                                            ELSE Append(combinedCRC, Outside)
    BY <2>3 DEF BZ2_compressBlock
  <2>5. mode = "FINISHING" <=> Sealed'
    <3>1. state_in_ch' = NoChar
      BY <2>1 DEF CloseLastBlock
    <3> QED BY <1>1, <2>1, <2>2, <3>1 DEF FullInv, IInv, LoopInv, isempty_RL, NoChar
  <2>6. CASE mode = "FINISHING"
    <3>1. Sealed' = TRUE
      BY <2>5, <2>6 DEF Sealed
    <3>2. Pipe!Seal
      BY <1>1, <1>2, <2>2, <2>3, <2>4, <2>6, <3>1 DEF Pipe!Seal, Outside
    <3> QED BY <3>2 DEF Pipe!Next
  <2>7. CASE mode = "FLUSHING" /\ Outside = <<>>
    <3>1. Sealed' = Sealed
      BY <1>2, <2>5, <2>7 DEF Sealed
    <3>2. (OpenBlock \o PendingRun)' = OpenBlock \o PendingRun
      BY <2>3, <2>7 DEF Outside
    <3> QED BY <1>1, <2>4, <2>7, <3>1, <3>2 DEF Pipe!vars
  <2>8. CASE mode = "FLUSHING" /\ Outside # <<>>
    <3> DEFINE h == Len(Outside)
    <3>1. h \in Nat /\ h # 0
      BY <1>3, <2>8, LenProperties, EmptySeq
    <3>2. SubSeq(Outside, 1, h) = Outside /\ SubSeq(Outside, h + 1, h) = <<>>
      BY <1>3, <3>1, SubSeqFull, SubSeqEmpty
    <3>3. h \in 1..Len(Outside)
      BY <3>1
    <3> QED BY <1>4, <2>3, <2>4, <2>5, <2>8, <3>2, <3>3
  <2> QED BY <2>2, <2>6, <2>7, <2>8
<1>6. ASSUME ~EndOfFlushOrFinish, BlockFull PROVE Pipe!Next \/ UNCHANGED Pipe!vars
  <2>1. /\ state' = "OUTPUT" /\ BZ2_compressBlock(block, blockCRC, FALSE)
        /\ UNCHANGED <<state_in_ch, state_in_len>>
    BY <1>6 DEF AfterInput, CloseFullBlock, runVars
  <2>2. block # <<>>
    <3>1. blockSize100k \in 1..9 /\ nblock >= nblockMAX
      BY <1>6 DEF FullInv, IInv, TypeOK, ControlType, BlockFull
    <3>2. nblockMAX >= 1 /\ nblockMAX \in Nat
      BY <3>1, MaxPositive DEF nblockMAX
    <3> QED BY <3>1, <3>2, Empties DEF nblock
  <2>3. blockCRC # <<>>
    BY <1>1, <2>2 DEF FullInv, DecodeInv
  <2>4. combinedCRC' = Append(combinedCRC, blockCRC)
    BY <2>1, <2>2 DEF BZ2_compressBlock
  <2>5. Outside' = PendingRun
    <3>1. OpenBlock' = <<>> /\ PendingRun' = PendingRun
      BY <2>1 DEF OpenBlock, PendingRun
    <3> QED BY <1>3, <3>1, ConcatEmptySeq DEF Outside
  <2>6. ~Sealed'
    BY <1>1, <1>2, <1>6 DEF EndOfFlushOrFinish, FullInv, IInv, LoopInv
  <2> DEFINE h == Len(blockCRC)
  <2>7. /\ SubSeq(Outside, 1, h) = blockCRC
        /\ SubSeq(Outside, h + 1, Len(Outside)) = PendingRun
    BY <1>3, CutBack
  <2>8. h \in 1..Len(Outside)
    <3>1. h \in Nat /\ h # 0 /\ Len(PendingRun) \in Nat
      BY <1>3, <2>3, LenProperties, EmptySeq
    <3>2. Len(Outside) = h + Len(PendingRun)
      BY <1>3, ConcatProperties
    <3> QED BY <3>1, <3>2
  <2> HIDE DEF h
  <2> QED BY <1>4, <2>4, <2>5, <2>6, <2>7, <2>8
<1>7. ASSUME ~EndOfFlushOrFinish, ~BlockFull PROVE UNCHANGED Pipe!vars
  <2>1. UNCHANGED <<state, state_in_ch, state_in_len, blockCRC, combinedCRC, stream>>
    BY <1>7 DEF AfterInput, runVars, blockVars, bitVars
  <2> QED BY <1>1, <2>1, OutsideFrame, PipeStutter
<1> QED BY <1>5, <1>6, <1>7

(* The end of a flush or a finish is told when the queue allows it.        *)
LEMMA ReturnRefines ==
  ASSUME FullInv, Return
  PROVE  Pipe!Next \/ UNCHANGED Pipe!vars
<1>1. UNCHANGED <<avail_in_expect, state, state_in_ch, state_in_len, blockCRC,
                  combinedCRC, stream>> /\ pc = "ret"
  BY DEF Return, inVars, runVars, blockVars, bitVars
<1>2. Outside' = Outside /\ Sealed' = Sealed
  BY <1>1, OutsideFrame DEF Sealed
<1>3. (OpenBlock \o PendingRun)' = OpenBlock \o PendingRun
  BY <1>2 DEF Outside
<1>4. CASE mode' = mode
  BY <1>1, <1>2, <1>4, PipeStutter
<1>5. CASE /\ ~Unfinished
           /\ \/ mode = "FLUSHING"  /\ mode' = "RUNNING"
              \/ mode = "FINISHING" /\ mode' = "IDLE"
  <2>1. /\ avail_in_expect = 0 /\ isempty_RL /\ ~(state_out_pos < numZ)
    BY <1>5 DEF Unfinished, FullInv, IInv, TypeOK, StrmType
  <2>2. CASE mode = "FLUSHING" /\ mode' = "RUNNING"
    <3>1. blockCRC = <<>>
      BY <1>1, <2>1, <2>2 DEF FullInv, IInv, LoopInv, FreshBlock
    <3>2. OpenBlock \o PendingRun = <<>>
      BY <2>1, <3>1, NothingOutside DEF Outside
    <3>3. Pipe!FlushEnd
      BY <1>1, <1>2, <1>3, <2>1, <2>2, <3>2 DEF Pipe!FlushEnd
    <3> QED BY <3>3 DEF Pipe!Next
  <2>3. CASE mode = "FINISHING" /\ mode' = "IDLE"
    <3>1. Sealed
      BY <1>1, <2>1, <2>3 DEF FullInv, IInv, LoopInv
    <3>2. Pipe!FinishEnd
      BY <1>1, <1>2, <1>3, <2>3, <3>1 DEF Pipe!FinishEnd
    <3> QED BY <3>2 DEF Pipe!Next
  <2> QED BY <1>5, <2>2, <2>3
<1> QED BY <1>4, <1>5 DEF Return

LEMMA AfterOutputRefines ==
  ASSUME FullInv, AfterOutput
  PROVE  UNCHANGED Pipe!vars
<1>1. /\ UNCHANGED <<mode, avail_in_expect, combinedCRC, stream, state_in_ch,
                     state_in_len>>
      /\ state = "OUTPUT"
      /\ state' = "OUTPUT" \/ blockCRC' = <<>>
  BY DEF AfterOutput, inVars, runVars, prepare_new_block
<1>2. Outside' = Outside
  BY <1>1 DEF Outside, OpenBlock, PendingRun
<1> QED BY <1>1, <1>2, PipeStutter

LEMMA EndRefines ==
  ASSUME BZ2_bzCompressEnd
  PROVE  Pipe!Next \/ UNCHANGED Pipe!vars
<1>1. CASE EndNothing
  <2>1. UNCHANGED <<mode, avail_in_expect, combinedCRC, stream, state, blockCRC,
                    state_in_ch, state_in_len>>
    BY <1>1 DEF EndNothing, runVars, blockVars
  <2> QED BY <2>1, OutsideFrame, PipeStutter
<1>2. CASE EndStream
  <2>1. OpenBlock' = <<>> /\ PendingRun' = <<>>
    BY <1>2 DEF EndStream, OpenBlock, PendingRun, NoChar
  <2>2. (OpenBlock \o PendingRun)' = <<>>
    BY <2>1, Empties, ConcatEmptySeq
  <2>3. Sealed' = FALSE
    BY <1>2 DEF EndStream, Sealed
  <2>4. Pipe!Drop
    BY <1>2, <2>2, <2>3 DEF EndStream, Pipe!Drop, Pipe!Closed
  <2> QED BY <2>4 DEF Pipe!Next
<1> QED BY <1>1, <1>2 DEF BZ2_bzCompressEnd

(***************************************************************************)
(* The compressor implements the queue: blocks partition the input in      *)
(* order, a flush or a finish takes the bytes announced and no more, a     *)
(* flush ends with nothing outside a block, a stream ends once and sealed. *)
(***************************************************************************)
THEOREM CompressorRefines == Spec => ImplementsPipe
<1>1. Init => Pipe!Init
  BY InitRefines
<1>2. FullInv /\ FullInv' /\ [Next]_vars => [Pipe!Next]_(Pipe!vars)
  <2> SUFFICES ASSUME FullInv, FullInv', [Next]_vars
               PROVE  Pipe!Next \/ UNCHANGED Pipe!vars
    OBVIOUS
  <2>1. ASSUME NEW level \in Levels, NEW got \in SUBSET Buffers,
               BZ2_bzCompressInit(level, got)
        PROVE  Pipe!Next \/ UNCHANGED Pipe!vars
    BY <2>1, SetUpRefines DEF BZ2_bzCompressInit
  <2>2. ASSUME NEW action \in Actions, NEW ai \in 0..ChunkIn,
               NEW ao \in 0..ChunkOut, BZ2_bzCompress(action, ai, ao)
        PROVE  Pipe!Next \/ UNCHANGED Pipe!vars
    BY <2>2, CallRefines
  <2>3. CASE BZ2_bzCompressEnd
    BY <2>3, EndRefines
  <2>4. CASE CopyOutput
    <3>1. UNCHANGED <<mode, avail_in_expect, combinedCRC, stream, state, blockCRC,
                      state_in_ch, state_in_len>>
      BY <2>4 DEF CopyOutput, inVars, runVars, blockVars, bitVars
    <3> QED BY <3>1, OutsideFrame, PipeStutter
  <2>5. CASE AfterOutput
    BY <2>5, AfterOutputRefines
  <2>6. ASSUME NEW c \in Symbols, CopyInput(c)
        PROVE  Pipe!Next \/ UNCHANGED Pipe!vars
    BY <2>6, CopyInputRefines
  <2>7. CASE AfterInput
    BY <2>7, AfterInputRefines
  <2>8. CASE Return
    BY <2>8, ReturnRefines
  <2>9. CASE UNCHANGED vars
    <3>1. UNCHANGED <<mode, avail_in_expect, combinedCRC, stream, state, blockCRC,
                      state_in_ch, state_in_len>>
      BY <2>9 DEF vars
    <3> QED BY <3>1, OutsideFrame, PipeStutter
  <2> QED BY <2>1, <2>2, <2>3, <2>4, <2>5, <2>6, <2>7, <2>8, <2>9
          DEF Next, Caller, Library
<1> QED BY <1>1, <1>2, FullInductive, PTL DEF Spec, ImplementsPipe, Pipe!Spec

------------------------------------------------------------------------------
(* The compressor under both of its callers keeps its invariant.           *)

(* Any call, with any input and room. *)
LEMMA StreamCall ==
  ASSUME FullInv, NEW action, NEW ai \in Nat, NEW ao \in Nat,
         BZ2_bzCompress(action, ai, ao)
  PROVE  FullInv'
<1>1. IInv'
  BY CallStep DEF FullInv
<1> QED BY <1>1, CallFull

LEMMA StreamSetUp ==
  ASSUME FullInv, NEW level, NEW got \in SUBSET Buffers, SetUp(level, got),
         avail_in' \in Nat, avail_out' \in Nat
  PROVE  FullInv'
<1>1. IInv'
  BY SetUpStep DEF FullInv
<1> QED BY <1>1, SetUpFull

LEMMA StreamEnd == FullInv /\ BZ2_bzCompressEnd => FullInv'
<1> SUFFICES ASSUME FullInv, BZ2_bzCompressEnd PROVE FullInv'
  OBVIOUS
<1>1. IInv'
  BY EndStreamStep, EndNothingStep DEF FullInv, BZ2_bzCompressEnd
<1> QED BY <1>1, EndStreamFull, EndNothingFull DEF BZ2_bzCompressEnd

LEMMA StreamLibrary == FullInv /\ Library => FullInv'
<1> SUFFICES ASSUME FullInv, Library PROVE FullInv'
  OBVIOUS
<1>0. IInv
  BY DEF FullInv
<1>1. CASE CopyOutput
  BY <1>0, <1>1, CopyOutputStep, CopyOutputFull
<1>2. CASE AfterOutput
  BY <1>0, <1>2, AfterOutputStep, AfterOutputFull
<1>3. ASSUME NEW c \in Symbols, CopyInput(c) PROVE FullInv'
  <2>1. IInv'
    BY <1>0, <1>3, CopyInputStep
  <2> QED BY <1>3, <2>1, CopyInputFull
<1>4. CASE AfterInput
  BY <1>0, <1>4, AfterInputStep, AfterInputFull
<1>5. CASE Return
  BY <1>0, <1>5, ReturnStep, ReturnFull
<1> QED BY <1>1, <1>2, <1>3, <1>4, <1>5 DEF Library

LEMMA StreamStutter == FullInv /\ UNCHANGED vars => FullInv'
<1> SUFFICES ASSUME FullInv, UNCHANGED vars PROVE FullInv'
  OBVIOUS
<1>1. IInv'
  BY StutterStep DEF FullInv
<1> QED BY <1>1, DecodeFrame, StreamFrame DEF vars, FullInv, OwedInv, Started

(* A caller that lets go of its bz_stream leaves the compressor as it is.  *)
LEMMA StreamForget == FullInv /\ Forget => FullInv'
<1> SUFFICES ASSUME FullInv, Forget PROVE FullInv'
  OBVIOUS
<1>1. /\ UNCHANGED <<mode, state, avail_in_expect, state_in_ch, state_in_len,
           blockSize100k, block, inUse, blockCRC, combinedCRC, blockNo, zbits,
           state_out_pos, bsBuff, heap, pc, progress, fed, packed, stream, out>>
      /\ avail_in' = 0 /\ avail_out' = 0 /\ total_in' = Zero64 /\ total_out' = Zero64
      /\ ret' = "none"
  BY DEF Forget, runVars, lifeVars, blockVars
<1>3. TypeOK /\ FillInv /\ LoopInv /\ BitInv /\ BlockFits /\ NoInputLost /\ NoOutputLost
  BY DEF FullInv, IInv
<1>4. TypeOK'
  <2>1. StrmType'
    <3>1. Zero64 \in [lo : 0..(WordSize - 1), hi : Nat]
      BY WordSizeAssumption DEF Zero64
    <3> QED BY <1>1, <1>3, <3>1 DEF TypeOK, StrmType
  <2>2. ControlType'
    BY <1>1, <1>3 DEF TypeOK, ControlType, Codes
  <2>3. BlockType' /\ StreamType'
    BY <1>1, <1>3 DEF TypeOK, BlockType, StreamType
  <2> QED BY <2>1, <2>2, <2>3 DEF TypeOK
<1>5. FillInv' /\ BlockFits'
  BY <1>1, <1>3 DEF FillInv, BlockFits, nblock, nblockMAX
<1>6. LoopInv' /\ BitInv'
  BY <1>1, <1>3 DEF LoopInv, BitInv, Sealed, isempty_RL, numZ, FreshBlock
<1>7. NoInputLost' /\ NoOutputLost'
  BY <1>1, <1>3 DEF NoInputLost, NoOutputLost, OpenBlock, PendingRun, numZ
<1>8. IInv'
  BY <1>4, <1>5, <1>6, <1>7 DEF IInv
<1> QED BY <1>1, <1>8, DecodeFrame, StreamFrame DEF FullInv, OwedInv, Started

------------------------------------------------------------------------------
(* What the actions of the compressor say of what the file interface sees. *)

Typed ==
  /\ avail_in \in Nat /\ avail_out \in Nat /\ avail_in_expect \in Nat
  /\ mode \in Modes /\ ret \in Codes /\ progress \in BOOLEAN
  /\ out \in Seq(Token) /\ Len(out) \in Nat
  /\ fed \in Seq(Bytes) /\ Len(fed) \in Nat
  /\ state_out_pos \in Nat /\ numZ \in Nat /\ block \in Seq(Bytes)

LEMMA StreamTyped == FullInv => Typed
BY LenProperties
   DEF FullInv, IInv, TypeOK, StrmType, ControlType, BlockType, StreamType, Typed, numZ

LEMMA StreamTypedNext == FullInv' => Typed'
BY LenProperties
   DEF FullInv, IInv, TypeOK, StrmType, ControlType, BlockType, StreamType, Typed, numZ

(* A front part is left alone by what is put at the end. *)
LEMMA FrontKept ==
  ASSUME NEW S, NEW s \in Seq(S), NEW e \in S, NEW m \in Nat, m <= Len(s)
  PROVE  SubSeq(Append(s, e), 1, m) = SubSeq(s, 1, m)
<1> DEFINE t == Append(s, e)  p == SubSeq(s, 1, m)  q == SubSeq(t, 1, m)
<1>1. /\ Len(s) \in Nat /\ t \in Seq(S) /\ Len(t) = Len(s) + 1
      /\ \A i \in 1..Len(s) : t[i] = s[i]
  BY LenProperties, AppendProperties
<1> HIDE DEF t
<1>2. p \in Seq(S) /\ Len(p) = m /\ \A i \in 1..m : p[i] = s[i]
  BY <1>1, SubSeqProperties
<1>3. q \in Seq(S) /\ Len(q) = m /\ \A i \in 1..m : q[i] = t[i]
  BY <1>1, SubSeqProperties
<1> HIDE DEF p, q
<1>4. \A i \in 1..m : p[i] = q[i]
  BY <1>1, <1>2, <1>3, SMTT(30)
<1>5. p = q
  BY <1>2, <1>3, <1>4, SeqEqual
<1> QED BY <1>5 DEF p, q, t

(* The trailer alone is something to copy out. *)
LEMMA TrailerWaits ==
  ASSUME FullInv, pc = "loop", state = "INPUT", NEW blk \in Seq(Bytes),
         NEW crc \in Seq(Bytes), BZ2_compressBlock(blk, crc, TRUE)
  PROVE  zbits' \in Seq(Token) /\ Len(zbits') \in Nat \ {0}
<1>1. TypeOK /\ zbits = <<>> /\ (blockNo <= 1 => bsBuff = <<>>) /\ ~Sealed
  BY DEF FullInv, IInv, BitInv, LoopInv
<1>2. /\ zbits' \in Seq(Token) /\ bsBuff' = <<>> /\ Sealed'
      /\ \E written \in Seq(Token) : /\ stream' = stream \o written
                                    /\ zbits' \o bsBuff' = bsBuff \o written
  BY <1>1, CompressBlock
<1>3. PICK written \in Seq(Token) : /\ stream' = stream \o written
                                   /\ zbits' \o bsBuff' = bsBuff \o written
  BY <1>2
<1>4. bsBuff \in Seq(Token) /\ stream \in Seq(Token)
  BY <1>1 DEF TypeOK, StreamType
<1>5. Len(zbits') = Len(bsBuff) + Len(written) /\ Len(bsBuff) \in Nat /\ Len(written) \in Nat
  <2>1. zbits' \o bsBuff' = zbits'
    BY <1>2, ConcatEmptySeq
  <2>2. Len(zbits') = Len(bsBuff \o written)
    BY <1>3, <2>1
  <2> QED BY <1>4, <2>2, ConcatProperties, LenProperties
<1>6. ASSUME Len(zbits') = 0 PROVE FALSE
  <2>1. written = <<>>
    <3>1. \A a, b \in Nat : a + b = 0 => b = 0
      OBVIOUS
    <3>2. Len(bsBuff) + Len(written) = 0
      BY <1>5, <1>6
    <3>3. Len(written) = 0
      BY <1>5, <3>1, <3>2
    <3> QED BY <3>3, EmptySeq
  <2>2. stream' = stream
    BY <1>3, <1>4, <2>1, ConcatEmptySeq
  <2> QED BY <1>1, <1>2, <2>2 DEF Sealed
<1> QED BY <1>2, <1>5, <1>6

------------------------------------------------------------------------------
(***************************************************************************)
(* The file interface, one lemma for each of its actions.                  *)
(***************************************************************************)

(* BZ_RUN and BZ_FINISH of a stream that can take them enter the loop.     *)
LEMMA RunEnters ==
  ASSUME FullInv, mode = "RUNNING", NEW ai, NEW ao, BZ2_bzCompress("RUN", ai, ao)
  PROVE  /\ pc' = "loop" /\ progress' = FALSE /\ mode' = "RUNNING"
         /\ avail_in' = ai /\ avail_out' = ao
         /\ UNCHANGED <<fed, out, state, block, total_out, state_out_pos>>
BY DEF BZ2_bzCompress, Enter, Refuse, blockVars

LEMMA FinishEnters ==
  ASSUME FullInv, NEW ai \in Nat, NEW ao \in Nat, BZ2_bzCompress("FINISH", ai, ao),
         \/ mode = "RUNNING"
         \/ mode = "FINISHING" /\ avail_in_expect = ai /\ Unfinished
  PROVE  /\ pc' = "loop" /\ progress' = FALSE /\ mode' = "FINISHING"
         /\ avail_in' = ai /\ avail_out' = ao /\ avail_in_expect' = ai
         /\ UNCHANGED <<fed, out, state, block, total_out, state_out_pos>>
         /\ state' = "OUTPUT" => Unfinished'
<1>1. /\ pc' = "loop" /\ progress' = FALSE /\ mode' = "FINISHING"
      /\ avail_in' = ai /\ avail_out' = ao /\ avail_in_expect' = ai
      /\ UNCHANGED <<fed, out, state, block, total_out, state_out_pos, zbits,
                     state_in_ch, state_in_len>>
  BY DEF BZ2_bzCompress, Enter, Refuse, blockVars, runVars, bitVars
<1>2. ASSUME state' = "OUTPUT" PROVE Unfinished'
  <2>1. CASE mode = "RUNNING"
    <3>1. ~isempty_RL
      BY <1>1, <1>2, <2>1 DEF FullInv, IInv, LoopInv
    <3> QED BY <1>1, <3>1 DEF Unfinished, isempty_RL
  <2>2. CASE mode = "FINISHING" /\ avail_in_expect = ai /\ Unfinished
    BY <1>1, <2>2 DEF Unfinished, isempty_RL, numZ
  <2> QED BY <2>1, <2>2
<1> QED BY <1>1, <1>2

LEMMA OpenStep ==
  ASSUME FullInv, FullInv', FileInv, NEW f, NEW level, NEW gotFile, NEW got,
         BZ2_bzWriteOpen(f, level, gotFile, got)
  PROVE  FileInv'
<1>1. at = "app" /\ ~open /\ mode = "NONE" /\ pc = "client" /\ ~ferror
  BY DEF BZ2_bzWriteOpen, FileInv, RestInv, FailInv
<1>2. CASE /\ lastErr' \in {"PARAM_ERROR", "IO_ERROR", "MEM_ERROR"}
           /\ UNCHANGED <<vars, open, at, ferror, file, given, abandon>>
  <2>1. FileType'
    BY <1>2 DEF FileInv, FileType, Codes
  <2>2. FailInv' /\ RestInv' /\ LoopsInv' /\ EndInv'
    BY <1>1, <1>2 DEF FailInv, RestInv, LoopsInv, EndInv, vars
  <2> QED BY <2>1, <2>2 DEF FileInv
<1>3. CASE /\ SetUp(level, got) /\ avail_in' = 0
           /\ open' = (ret' = "OK") /\ Answer(ret')
           /\ ferror' = FALSE /\ file' = <<>> /\ given' = 0 /\ UNCHANGED abandon
  <2>1. /\ ret' \in Codes /\ at' = "app" /\ lastErr' = ret'
        /\ pc' = "client" /\ fed' = fed /\ out' = out
        /\ ret' = "OK" => mode' = "RUNNING"
        /\ ret' # "OK" => mode' = "NONE"
    BY <1>1, <1>3 DEF SetUp, Answer, Codes
  <2>2. fed = <<>> /\ out = <<>>
    BY <1>1, NothingYet
  <2>3. FileType'
    BY <1>3, <2>1, EmptySeq DEF FileInv, FileType
  <2>4. FailInv' /\ RestInv' /\ LoopsInv' /\ EndInv'
    BY <1>3, <2>1, <2>2, EmptySeq DEF FailInv, RestInv, LoopsInv, EndInv, AllWritten
  <2> QED BY <2>3, <2>4 DEF FileInv
<1> QED BY <1>2, <1>3 DEF BZ2_bzWriteOpen

(* What fwrite leaves in the file: all of `out', or else a front part.     *)
LEMMA FileAfter ==
  ASSUME FullInv, FileInv, at \in {"write", "finish"}
  PROVE  /\ Fwrite => file' = out
         /\ FwriteFailed => file' \in Seq(Token) /\ ferror' = TRUE
<1>1. /\ out \in Seq(Token) /\ Len(out) \in Nat /\ avail_out \in Nat
      /\ file \in Seq(Token) /\ Len(file) \in Nat
      /\ BZ_MAX_UNUSED \in Nat /\ avail_out <= BZ_MAX_UNUSED
      /\ Len(file) + (BZ_MAX_UNUSED - avail_out) = Len(out)
      /\ file = SubSeq(out, 1, Len(file))
  BY StreamTyped, LenProperties, BufferAssumption
     DEF Typed, FileInv, FileType, LoopsInv
<1> DEFINE k == Len(file)
<1>2. k \in 0..Len(out) /\ Len(out) - n + 1 = k + 1
  BY <1>1 DEF n
<1>3. chunk = SubSeq(out, k + 1, Len(out))
  BY <1>2 DEF chunk
<1> HIDE DEF k
<1>4. /\ SubSeq(out, 1, k) \o SubSeq(out, k + 1, Len(out)) = out
      /\ SubSeq(out, k + 1, Len(out)) \in Seq(Token)
  BY <1>1, <1>2, CutInTwo
<1>5. ASSUME Fwrite PROVE file' = out
  <2>1. file' = file \o chunk /\ file = SubSeq(out, 1, k)
    BY <1>1, <1>5 DEF Fwrite, k
  <2> QED BY <1>3, <1>4, <2>1
<1>6. ASSUME FwriteFailed PROVE file' \in Seq(Token) /\ ferror' = TRUE
  <2>1. PICK j \in 0..(n - 1) : file' = file \o SubSeq(chunk, 1, j)
    BY <1>6 DEF FwriteFailed
  <2>2. chunk \in Seq(Token) /\ Len(chunk) = n /\ n \in Nat
    <3>1. n = Len(out) - k /\ k \in 0..Len(out) /\ Len(out) - k \in Nat
      BY <1>1, <1>2 DEF n, k
    <3>2. Len(SubSeq(out, k + 1, Len(out))) = Len(out) - k
      BY <1>1, <3>1, SubSeqProperties
    <3>3. chunk \in Seq(Token) /\ Len(chunk) = Len(out) - k
      BY <1>3, <1>4, <3>2
    <3>4. n = Len(out) - k /\ Len(out) - k \in Nat
      BY <3>1
    <3> HIDE DEF n, chunk
    <3> QED BY <3>3, <3>4
  <2> HIDE DEF n, chunk
  <2>3. j \in 0..Len(chunk)
    BY <2>2
  <2>4. SubSeq(chunk, 1, j) \in Seq(Token)
    BY <2>2, <2>3, CutInTwo
  <2> QED BY <1>1, <1>6, <2>1, <2>4, ConcatProperties DEF FwriteFailed
<1> QED BY <1>5, <1>6

(* The answer to a call that is refused or has failed. *)
LEMMA FailStep ==
  ASSUME FullInv, FileInv, pc = "client", open, mode # "NONE",
         NEW c \in Codes \cup {"IO_ERROR"}, Answer(c), UNCHANGED <<vars, open, given>>,
         abandon' \in BOOLEAN, file' \in Seq(Token), ferror' \in BOOLEAN,
         ferror' => c # "OK",
         ~ferror' => mode = "RUNNING" /\ avail_in = 0 /\ file' = out /\ Len(fed) = given
  PROVE  FileInv'
<1>1. at' = "app" /\ lastErr' = c /\ UNCHANGED <<pc, mode, avail_in, out, fed, open, given>>
  BY DEF Answer, vars
<1>2. FileType'
  BY <1>1 DEF FileInv, FileType
<1> QED BY <1>1, <1>2 DEF FileInv, FailInv, RestInv, LoopsInv, EndInv, AllWritten

LEMMA WriteStep ==
  ASSUME FullInv, FullInv', FileInv, NEW count \in Int, BZ2_bzWrite(count)
  PROVE  FileInv'
<1>1. at = "app" /\ open /\ pc = "client" /\ FileType /\ UNCHANGED open
  BY DEF BZ2_bzWrite, FileInv, RestInv
<1>2. ~ferror => /\ mode = "RUNNING" /\ avail_in = 0 /\ file = out /\ Len(fed) = given
  BY <1>1 DEF FileInv, RestInv, AllWritten
<1>4. CASE Refused("PARAM_ERROR") \/ (ferror /\ Refused("IO_ERROR")) \/ (~ferror /\ Refused("OK"))
  <2>1. UNCHANGED <<vars, ferror, file, given, abandon, open>>
    BY <1>1, <1>4 DEF Refused
  <2>2. at' = "app" /\ lastErr' \in Codes \cup {"IO_ERROR"} /\ (ferror => lastErr' # "OK")
    BY <1>4 DEF Refused, Answer, Codes
  <2>3. UNCHANGED <<pc, mode, avail_in, out, fed>>
    BY <2>1 DEF vars
  <2>4. FileType'
    BY <1>1, <2>1, <2>2 DEF FileType
  <2> QED BY <1>1, <1>2, <2>1, <2>2, <2>3, <2>4
          DEF FileInv, FailInv, RestInv, LoopsInv, EndInv, AllWritten
<1>5. CASE /\ count > 0 /\ ~ferror /\ Call("RUN", count)
           /\ at' = "write" /\ lastErr' = "OK" /\ given' = given + count
           /\ UNCHANGED <<ferror, file, abandon>>
  <2>1. /\ pc' = "loop" /\ progress' = FALSE /\ mode' = "RUNNING"
        /\ avail_in' = count /\ avail_out' = BZ_MAX_UNUSED
        /\ UNCHANGED <<fed, out>>
    BY <1>2, <1>5, RunEnters DEF Call
  <2>2. /\ out \in Seq(Token) /\ Len(out) \in Nat /\ Len(fed) \in Nat
        /\ BZ_MAX_UNUSED \in Nat /\ count \in Nat
    BY <1>5, StreamTyped, BufferAssumption DEF Typed
  <2>3. SubSeq(out, 1, Len(out)) = out
    BY <2>2, SubSeqFull
  <2>4. FileType'
    <3>1. given' \in Nat
      BY <1>1, <1>5, <2>2 DEF FileType
    <3> QED BY <1>1, <1>5, <3>1 DEF FileType, Codes
  <2>5. FailInv' /\ RestInv' /\ EndInv'
    BY <1>1, <1>5 DEF FailInv, RestInv, EndInv
  <2>6. LoopsInv'
    BY <1>2, <1>5, <2>1, <2>2, <2>3 DEF LoopsInv
  <2> QED BY <2>4, <2>5, <2>6 DEF FileInv
<1>6. \/ Refused("PARAM_ERROR") \/ (ferror /\ Refused("IO_ERROR")) \/ (~ferror /\ Refused("OK"))
      \/ /\ count > 0 /\ ~ferror /\ Call("RUN", count)
         /\ at' = "write" /\ lastErr' = "OK" /\ given' = given + count
         /\ UNCHANGED <<ferror, file, abandon>>
  BY DEF BZ2_bzWrite
<1> QED BY <1>4, <1>5, <1>6


(* The file holds all of `out' and the loop goes round once more.          *)
LEMMA LoopOn ==
  ASSUME FullInv, FullInv', FileInv, at \in {"write", "finish"}, pc = "client", Fwrite,
         NEW ai \in Nat, ai = avail_in,
         pc' = "loop", progress' = FALSE, avail_in' = ai, avail_out' = BZ_MAX_UNUSED,
         UNCHANGED <<fed, out, at, lastErr, open, given, abandon>>,
         \/ at = "write" /\ mode' = "RUNNING" /\ ai > 0
         \/ /\ at = "finish" /\ mode' = "FINISHING" /\ avail_in_expect' = 0
            /\ state' = "OUTPUT" => Unfinished'
  PROVE  FileInv'
<1>1. file' = out /\ ferror' = ferror /\ open /\ ~ferror
  BY FileAfter DEF Fwrite, FileInv, FailInv
<1>2. /\ out \in Seq(Token) /\ Len(out) \in Nat /\ Len(fed) \in Nat /\ BZ_MAX_UNUSED \in Nat
  BY StreamTyped, BufferAssumption DEF Typed
<1>3. SubSeq(out, 1, Len(out)) = out
  BY <1>2, SubSeqFull
<1>4. FileType'
  BY <1>1, <1>2 DEF FileInv, FileType
<1>5. lastErr = "OK" /\ Len(fed) + avail_in = given
  BY DEF FileInv, LoopsInv
<1>6. FailInv' /\ RestInv' /\ EndInv'
  BY <1>1 DEF FailInv, RestInv, EndInv
<1>7. /\ Len(file') + (BZ_MAX_UNUSED - avail_out') = Len(out')
      /\ file' = SubSeq(out', 1, Len(file'))
  BY <1>1, <1>2, <1>3
<1>8. at = "finish" => ~abandon /\ avail_in = 0
  BY DEF FileInv, LoopsInv
<1>9. LoopsInv'
  BY <1>2, <1>5, <1>7, <1>8 DEF LoopsInv
<1> QED BY <1>4, <1>6, <1>9 DEF FileInv

LEMMA AfterRunStep == FullInv /\ FullInv' /\ FileInv /\ AfterRun => FileInv'
<1> SUFFICES ASSUME FullInv, FullInv', FileInv, AfterRun PROVE FileInv'
  OBVIOUS
<1>1. /\ at = "write" /\ pc = "client" /\ open /\ ~ferror /\ mode = "RUNNING"
      /\ ret = "RUN_OK" /\ Len(fed) + avail_in = given
      /\ UNCHANGED <<open, given, abandon>> /\ file \in Seq(Token) /\ abandon \in BOOLEAN
  BY DEF AfterRun, FileInv, FileType, FailInv, LoopsInv
<1>2. /\ Fwrite => file' = out
      /\ FwriteFailed => file' \in Seq(Token) /\ ferror' = TRUE
  BY <1>1, FileAfter
<1>3. out \in Seq(Token) /\ avail_in \in Nat /\ Len(fed) \in Nat
  BY StreamTyped DEF Typed
<1>4. CASE FwriteFailed /\ Answer("IO_ERROR") /\ UNCHANGED vars
  BY <1>1, <1>2, <1>4, FailStep
<1>5. CASE Fwrite /\ avail_in = 0 /\ Answer("OK") /\ UNCHANGED vars
  <2>1. file' = out /\ ferror' = FALSE /\ Len(fed) = given
    BY <1>1, <1>2, <1>3, <1>5 DEF Fwrite
  <2> QED BY <1>1, <1>3, <1>5, <2>1, FailStep DEF Codes
<1>6. CASE Fwrite /\ avail_in > 0 /\ Call("RUN", avail_in) /\ UNCHANGED <<at, lastErr>>
  <2>1. /\ pc' = "loop" /\ progress' = FALSE /\ mode' = "RUNNING"
        /\ avail_in' = avail_in /\ avail_out' = BZ_MAX_UNUSED /\ UNCHANGED <<fed, out>>
    BY <1>1, <1>6, RunEnters DEF Call
  <2> QED BY <1>1, <1>3, <1>6, <2>1, LoopOn
<1> QED BY <1>1, <1>4, <1>5, <1>6 DEF AfterRun

LEMMA CloseStep ==
  ASSUME FullInv, FullInv', FileInv, NEW giveUp \in BOOLEAN, BZ2_bzWriteClose64(giveUp)
  PROVE  FileInv'
<1>1. /\ at = "app" /\ open /\ pc = "client" /\ abandon' = giveUp
      /\ UNCHANGED <<open, ferror, file, given>>
      /\ FileType
  BY DEF BZ2_bzWriteClose64, FileInv, RestInv
<1>2. ~ferror => /\ mode = "RUNNING" /\ avail_in = 0 /\ file = out /\ Len(fed) = given
  BY <1>1 DEF FileInv, RestInv, AllWritten
<1>3. /\ out \in Seq(Token) /\ Len(out) \in Nat /\ Len(fed) \in Nat /\ BZ_MAX_UNUSED \in Nat
  BY StreamTyped, BufferAssumption DEF Typed
<1>4. CASE ferror /\ Answer("IO_ERROR") /\ UNCHANGED vars
  <2>1. at' = "app" /\ lastErr' = "IO_ERROR" /\ pc' = "client"
    BY <1>1, <1>4 DEF Answer, vars
  <2>2. FileType'
    BY <1>1, <2>1 DEF FileType
  <2> QED BY <1>1, <1>4, <2>1, <2>2 DEF FileInv, FailInv, RestInv, LoopsInv, EndInv
<1>5. CASE /\ ~ferror /\ ~giveUp /\ lastErr = "OK" /\ Call("FINISH", avail_in)
           /\ at' = "finish" /\ UNCHANGED lastErr
  <2>1. /\ pc' = "loop" /\ progress' = FALSE /\ mode' = "FINISHING"
        /\ avail_in' = 0 /\ avail_out' = BZ_MAX_UNUSED /\ avail_in_expect' = 0
        /\ UNCHANGED <<fed, out>>
        /\ state' = "OUTPUT" => Unfinished'
    BY <1>2, <1>3, <1>5, FinishEnters DEF Call
  <2>2. FileType'
    BY <1>1, <1>5 DEF FileType
  <2>3. FailInv' /\ RestInv' /\ EndInv'
    BY <1>1, <1>5, <2>1 DEF FailInv, RestInv, EndInv
  <2>4. file' = out' /\ SubSeq(out, 1, Len(out)) = out
    BY <1>1, <1>2, <1>3, <1>5, <2>1, SubSeqFull
  <2>5. LoopsInv'
    BY <1>1, <1>2, <1>3, <1>5, <2>1, <2>4 DEF LoopsInv
  <2> QED BY <2>2, <2>3, <2>5 DEF FileInv
<1>6. CASE /\ ~ferror /\ (giveUp \/ lastErr # "OK") /\ at' = "close"
           /\ UNCHANGED <<vars, lastErr>>
  <2>1. pc' = "client" /\ UNCHANGED <<mode, out, fed>>
    BY <1>1, <1>6 DEF vars
  <2>2. FileType'
    BY <1>1, <1>6 DEF FileType
  <2> QED BY <1>1, <1>2, <1>6, <2>1, <2>2 DEF FileInv, FailInv, RestInv, LoopsInv, EndInv
<1> QED BY <1>4, <1>5, <1>6 DEF BZ2_bzWriteClose64

LEMMA AfterFinishStep == FullInv /\ FullInv' /\ FileInv /\ AfterFinish => FileInv'
<1> SUFFICES ASSUME FullInv, FullInv', FileInv, AfterFinish PROVE FileInv'
  OBVIOUS
<1>1. /\ at = "finish" /\ pc = "client" /\ open /\ ~ferror /\ avail_in = 0
      /\ avail_in_expect = 0 /\ lastErr = "OK" /\ Len(fed) + avail_in = given
      /\ UNCHANGED <<open, given, abandon>> /\ FileType
      /\ \/ ret = "FINISH_OK" /\ mode = "FINISHING" /\ Unfinished
         \/ ret = "STREAM_END" /\ mode = "IDLE"
  BY DEF AfterFinish, FileInv, FailInv, LoopsInv, EndInv
<1>2. /\ Fwrite => file' = out
      /\ FwriteFailed => file' \in Seq(Token) /\ ferror' = TRUE
  BY <1>1, FileAfter
<1>3. out \in Seq(Token) /\ avail_in \in Nat /\ Len(fed) \in Nat /\ BZ_MAX_UNUSED \in Nat
  BY StreamTyped, BufferAssumption DEF Typed
<1>4. CASE FwriteFailed /\ Answer("IO_ERROR") /\ UNCHANGED vars
  <2>1. abandon \in BOOLEAN /\ mode # "NONE"
    BY <1>1 DEF FileType
  <2> QED BY <1>1, <1>2, <1>4, <2>1, FailStep
<1>5. CASE ret = "STREAM_END" /\ Fwrite /\ at' = "close" /\ UNCHANGED <<vars, lastErr>>
  <2>1. /\ file' = out /\ ferror' = ferror /\ pc' = "client" /\ Len(fed) = given
        /\ mode = "IDLE" /\ UNCHANGED <<mode, out, fed>>
    BY <1>1, <1>2, <1>3, <1>5 DEF Fwrite, vars
  <2>2. FileType'
    BY <1>1, <1>3, <1>5, <2>1 DEF FileType
  <2> QED BY <1>1, <1>5, <2>1, <2>2
          DEF FileInv, FailInv, RestInv, LoopsInv, EndInv, AllWritten
<1>6. CASE ret = "FINISH_OK" /\ Fwrite /\ Call("FINISH", avail_in) /\ UNCHANGED <<at, lastErr>>
  <2>1. mode = "FINISHING" /\ avail_in_expect = avail_in /\ Unfinished
    BY <1>1, <1>6
  <2>2. /\ pc' = "loop" /\ progress' = FALSE /\ mode' = "FINISHING"
        /\ avail_in' = avail_in /\ avail_out' = BZ_MAX_UNUSED /\ avail_in_expect' = avail_in
        /\ UNCHANGED <<fed, out>>
        /\ state' = "OUTPUT" => Unfinished'
    BY <1>3, <1>6, <2>1, FinishEnters DEF Call
  <2> QED BY <1>1, <1>3, <1>6, <2>2, LoopOn
<1> QED BY <1>1, <1>4, <1>5, <1>6 DEF AfterFinish

LEMMA CloseFileStep == FullInv /\ FullInv' /\ FileInv /\ CloseFile => FileInv'
<1> SUFFICES ASSUME FullInv, FullInv', FileInv, CloseFile PROVE FileInv'
  OBVIOUS
<1>1. /\ at = "close" /\ pc = "client" /\ open /\ ~ferror /\ FileType
      /\ UNCHANGED <<file, given>> /\ at' = "app"
  BY DEF CloseFile, Answer, FileInv, FailInv
<1>2. CASE ferror' = TRUE /\ Answer("IO_ERROR") /\ UNCHANGED <<vars, open, abandon>>
  <2>1. pc' = "client" /\ lastErr' = "IO_ERROR"
    BY <1>1, <1>2 DEF vars, Answer
  <2>2. FileType'
    BY <1>1, <1>2, <2>1 DEF FileType
  <2> QED BY <1>1, <1>2, <2>1, <2>2 DEF FileInv, FailInv, RestInv, LoopsInv, EndInv
<1>3. CASE /\ BZ2_bzCompressEnd /\ Answer("OK") /\ open' = FALSE /\ abandon' = FALSE
           /\ UNCHANGED ferror
  <2>1. pc' = "client" /\ mode' = "NONE" /\ lastErr' = "OK"
    BY <1>1, <1>3 DEF BZ2_bzCompressEnd, EndNothing, EndStream, Answer
  <2>2. FileType'
    BY <1>1, <1>3, <2>1 DEF FileType, Codes
  <2> QED BY <1>1, <1>3, <2>1, <2>2 DEF FileInv, FailInv, RestInv, LoopsInv, EndInv
<1> QED BY <1>2, <1>3 DEF CloseFile


(* After the last block of a finish there is something to copy out. *)
LEMMA LastBlockWaits ==
  ASSUME FullInv, pc = "loop", state = "INPUT", CloseLastBlock, mode = "FINISHING",
         UNCHANGED state_out_pos
  PROVE  state_out_pos' = 0 /\ state_out_pos' < numZ'
<1>1. /\ TypeOK /\ FillInv /\ state_out_pos = 0
      /\ block \in Seq(Bytes) /\ blockCRC \in Seq(Bytes)
  BY DEF FullInv, IInv, BitInv, TypeOK, BlockType
<1>2. \E blk \in Seq(Bytes), crc \in Seq(Bytes) : BZ2_compressBlock(blk, crc, TRUE)
  <2>1. CASE state_in_ch < NoChar
    <3> DEFINE blk == block \o Pair(state_in_ch, state_in_len)
               crc == blockCRC \o Run(state_in_ch, state_in_len)
    <3>1. add_pair_to_block /\ BZ2_compressBlock(blk, crc, TRUE)
      BY <2>1 DEF CloseLastBlock
    <3>2. block' = blk /\ blockCRC' = crc
      BY <3>1 DEF add_pair_to_block
    <3>3. block' \in Seq(Bytes) /\ blockCRC' \in Seq(Bytes)
      BY <1>1, <2>1, <3>1, AddPair
    <3> HIDE DEF blk, crc
    <3> QED BY <3>1, <3>2, <3>3
  <2>2. CASE ~(state_in_ch < NoChar)
    <3>1. BZ2_compressBlock(block, blockCRC, TRUE)
      BY <2>2 DEF CloseLastBlock
    <3> QED BY <1>1, <3>1
  <2> QED BY <2>1, <2>2
<1>3. PICK blk \in Seq(Bytes), crc \in Seq(Bytes) : BZ2_compressBlock(blk, crc, TRUE)
  BY <1>2
<1>4. Len(zbits') \in Nat \ {0}
  BY <1>3, TrailerWaits
<1> QED BY <1>1, <1>4 DEF numZ

(* Inside a call only the loops of BZ2_bzWrite and of the close are at work. *)
InLoops == /\ at \in {"write", "finish"} /\ open /\ ~ferror
           /\ at = "write" => mode = "RUNNING"
           /\ at = "finish" => mode = "FINISHING" /\ avail_in = 0 /\ avail_in_expect = 0

LEMMA LoopsOnly == FileInv /\ pc # "client" => InLoops /\ lastErr = "OK"
BY DEF FileInv, FileType, RestInv, FailInv, LoopsInv, InLoops

LEMMA LoopsFrame ==
  ASSUME FileInv, InLoops, UNCHANGED fileVars, LoopsInv',
         at = "finish" => pc' # "client" \/ EndInv'
  PROVE  FileInv'
<1>1. UNCHANGED <<open, at, lastErr, ferror, abandon, file, given>>
  BY DEF fileVars
<1>2. FileType' /\ FailInv' /\ RestInv' /\ EndInv'
  BY <1>1 DEF FileInv, FileType, FailInv, RestInv, EndInv, InLoops
<1> QED BY <1>2 DEF FileInv

LEMMA FileCopyOutput ==
  ASSUME FullInv, FullInv', FileInv, CopyOutput, UNCHANGED fileVars
  PROVE  FileInv'
<1>1. /\ pc = "loop" /\ pc' = "loop" /\ progress' = TRUE
      /\ UNCHANGED <<mode, avail_in, avail_in_expect, fed>>
      /\ out' = Append(out, zbits[state_out_pos + 1])
      /\ avail_out' = avail_out - 1 /\ avail_out > 0
  BY DEF CopyOutput, inVars, CanCopyOut
<1>2. UNCHANGED <<open, at, lastErr, ferror, abandon, file, given>>
  BY DEF fileVars
<1>3. /\ out \in Seq(Token) /\ Len(out) \in Nat /\ out' \in Seq(Token)
      /\ avail_out \in Nat /\ BZ_MAX_UNUSED \in Nat
      /\ file \in Seq(Token) /\ Len(file) \in Nat
  BY StreamTyped, StreamTypedNext, BufferAssumption, LenProperties
     DEF Typed, FileInv, FileType
<1>4. zbits[state_out_pos + 1] \in Token
  <2>1. zbits \in Seq(Token) /\ state_out_pos \in Nat /\ state_out_pos < Len(zbits)
    BY DEF FullInv, IInv, TypeOK, StreamType, CopyOutput, CanCopyOut, numZ
  <2>2. Len(zbits) \in Nat
    BY <2>1, LenProperties
  <2>3. state_out_pos + 1 \in 1..Len(zbits)
    BY <2>1, <2>2
  <2> QED BY <2>1, <2>3, ElementOfSeq
<1>5. InLoops /\ lastErr = "OK"
  BY <1>1, LoopsOnly
<1>6. /\ avail_out <= BZ_MAX_UNUSED
      /\ Len(file) + (BZ_MAX_UNUSED - avail_out) = Len(out)
      /\ file = SubSeq(out, 1, Len(file))
      /\ Len(fed) + avail_in = given
      /\ at = "finish" => ~abandon
  BY <1>5 DEF FileInv, LoopsInv, InLoops
<1>7. Len(out') = Len(out) + 1
  BY <1>1, <1>3, <1>4, AppendProperties
<1>8. SubSeq(out', 1, Len(file)) = SubSeq(out, 1, Len(file))
  <2>1. Len(file) <= Len(out)
    BY <1>3, <1>6
  <2> QED BY <1>1, <1>3, <1>4, <2>1, FrontKept
<1>9. /\ avail_out' <= BZ_MAX_UNUSED
      /\ Len(file') + (BZ_MAX_UNUSED - avail_out') = Len(out')
      /\ file' = SubSeq(out', 1, Len(file'))
  <2>1. avail_out' = avail_out - 1 /\ avail_out \in Nat /\ Len(file') = Len(file)
    BY <1>1, <1>2, <1>3
  <2>2. avail_out' <= BZ_MAX_UNUSED
    BY <1>3, <1>6, <2>1
  <2>3. Len(file') + (BZ_MAX_UNUSED - avail_out') = Len(out')
    BY <1>3, <1>6, <1>7, <2>1, SMTT(30)
  <2>4. file' = file /\ file = SubSeq(out', 1, Len(file))
    BY <1>2, <1>6, <1>8
  <2> QED BY <2>2, <2>3, <2>4
<1>10. LoopsInv'
  BY <1>1, <1>2, <1>5, <1>6, <1>9 DEF LoopsInv, InLoops
<1> QED BY <1>1, <1>5, <1>10, LoopsFrame

LEMMA FileAfterOutput ==
  ASSUME FullInv, FileInv, AfterOutput, UNCHANGED fileVars
  PROVE  FileInv'
<1>1. /\ pc = "loop" /\ state = "OUTPUT" /\ ~CanCopyOut
      /\ UNCHANGED <<mode, avail_in, avail_in_expect, fed, avail_out, progress, out>>
  BY DEF AfterOutput, inVars
<1>2. UNCHANGED <<open, at, lastErr, ferror, abandon, file, given>>
  BY DEF fileVars
<1>3. InLoops /\ lastErr = "OK"
  BY <1>1, LoopsOnly
<1>4. avail_out \in Nat /\ state_out_pos \in Nat /\ numZ \in Nat /\ BZ_MAX_UNUSED \in Nat \ {0}
  BY StreamTyped, BufferAssumption DEF Typed
<1>5. pc' \in {"loop", "ret"} /\ (pc' = "loop" => state' = "INPUT")
  BY DEF AfterOutput
<1>6. pc' = "ret" => progress
  <2> SUFFICES ASSUME pc' = "ret", ~progress PROVE FALSE
    BY <1>3 DEF FileInv, LoopsInv, InLoops, Typed, FullInv, IInv, TypeOK, ControlType
  <2>1. avail_out = BZ_MAX_UNUSED /\ (at = "finish" => Unfinished)
    BY <1>1, <1>3 DEF FileInv, LoopsInv, InLoops
  <2>2. ~(state_out_pos < numZ)
    BY <1>1, <1>4, <2>1 DEF CanCopyOut
  <2>3. mode = "FINISHING" /\ isempty_RL
    BY <1>3, <2>2 DEF AfterOutput, InLoops
  <2>4. Unfinished /\ avail_in_expect = 0
    BY <1>3, <2>1, <2>3 DEF InLoops
  <2> QED BY <2>2, <2>3, <2>4 DEF Unfinished
<1>7. LoopsInv'
  BY <1>1, <1>2, <1>3, <1>5, <1>6 DEF FileInv, LoopsInv, InLoops
<1> QED BY <1>3, <1>5, <1>7, LoopsFrame

LEMMA FileCopyInput ==
  ASSUME FullInv, FullInv', FileInv, NEW c \in Symbols, CopyInput(c), UNCHANGED fileVars
  PROVE  FileInv'
<1>1. /\ pc = "loop" /\ pc' = "loop" /\ progress' = TRUE /\ CanCopyIn
      /\ UNCHANGED <<mode, out, avail_out>>
      /\ fed' = Append(fed, c) /\ avail_in' = avail_in - 1
  BY DEF CopyInput, outVars
<1>2. UNCHANGED <<open, at, lastErr, ferror, abandon, file, given>>
  BY DEF fileVars
<1>3. fed \in Seq(Bytes) /\ Len(fed) \in Nat /\ avail_in \in Nat
  BY StreamTyped DEF Typed
<1>4. InLoops /\ lastErr = "OK"
  BY <1>1, LoopsOnly
<1>5. at = "write"
  BY <1>1, <1>3, <1>4 DEF InLoops, CanCopyIn
<1>6. Len(fed') = Len(fed) + 1
  BY <1>1, <1>3, SymbolsAssumption, AppendProperties DEF Bytes
<1>7. Len(fed') + avail_in' = given'
  BY <1>1, <1>2, <1>3, <1>4, <1>6 DEF FileInv, LoopsInv, InLoops
<1>8. LoopsInv'
  BY <1>1, <1>2, <1>4, <1>5, <1>7 DEF FileInv, LoopsInv, InLoops
<1> QED BY <1>4, <1>5, <1>8, LoopsFrame

LEMMA FileAfterInput ==
  ASSUME FullInv, FileInv, AfterInput, UNCHANGED fileVars
  PROVE  FileInv'
<1>1. /\ pc = "loop" /\ state = "INPUT" /\ ~CanCopyIn
      /\ UNCHANGED <<mode, avail_in, avail_in_expect, fed, avail_out, progress, out,
                     state_out_pos>>
  BY DEF AfterInput, inVars, outVars
<1>2. UNCHANGED <<open, at, lastErr, ferror, abandon, file, given>>
  BY DEF fileVars
<1>3. InLoops /\ lastErr = "OK"
  BY <1>1, LoopsOnly
<1>4. avail_in \in Nat /\ progress \in BOOLEAN
  BY StreamTyped DEF Typed
<1>5. CASE at = "write"
  <2>1. \/ pc' = "loop" /\ state' = "OUTPUT"
        \/ pc' = "ret" /\ ~BlockFull
    BY <1>1 DEF AfterInput
  <2>2. pc' = "ret" => progress
    BY <1>1, <1>3, <1>4, <1>5, <2>1 DEF CanCopyIn, FileInv, LoopsInv, InLoops
  <2>3. LoopsInv'
    BY <1>1, <1>2, <1>3, <1>5, <2>1, <2>2 DEF FileInv, LoopsInv, InLoops
  <2> QED BY <1>3, <1>5, <2>3, LoopsFrame
<1>6. CASE at = "finish"
  <2>1. CloseLastBlock /\ state' = "OUTPUT" /\ pc' = "loop" /\ mode = "FINISHING"
    BY <1>1, <1>3, <1>6 DEF AfterInput, EndOfFlushOrFinish, InLoops
  <2>2. Unfinished'
    BY <1>1, <2>1, LastBlockWaits DEF Unfinished
  <2>3. LoopsInv'
    BY <1>1, <1>2, <1>3, <1>6, <2>1, <2>2 DEF FileInv, LoopsInv, InLoops
  <2> QED BY <1>3, <1>6, <2>1, <2>3, LoopsFrame
<1> QED BY <1>3, <1>5, <1>6 DEF InLoops

LEMMA FileReturn ==
  ASSUME FullInv, FileInv, Return, UNCHANGED fileVars
  PROVE  FileInv'
<1>1. /\ pc = "ret" /\ pc' = "client"
      /\ UNCHANGED <<avail_in, avail_in_expect, fed, avail_out, progress, out>>
      /\ UNCHANGED <<state_in_ch, state_in_len, state_out_pos, zbits>>
  BY DEF Return, inVars, outVars, runVars, bitVars
<1>2. UNCHANGED <<open, at, lastErr, ferror, abandon, file, given>>
  BY DEF fileVars
<1>3. InLoops /\ lastErr = "OK" /\ progress
  BY <1>1, LoopsOnly DEF FileInv, LoopsInv, InLoops
<1>4. Unfinished' = Unfinished
  BY <1>1 DEF Unfinished, isempty_RL, numZ
<1>5. at = "write" => mode' = "RUNNING" /\ ret' = "RUN_OK"
  BY <1>3 DEF Return, InLoops
<1>6. at = "finish" => \/ ret' = "FINISH_OK" /\ mode' = "FINISHING" /\ Unfinished'
                       \/ ret' = "STREAM_END" /\ mode' = "IDLE"
  BY <1>3, <1>4 DEF Return, InLoops
<1>7. LoopsInv'
  BY <1>1, <1>2, <1>3, <1>5 DEF FileInv, LoopsInv, InLoops
<1>8. EndInv'
  BY <1>2, <1>3, <1>6 DEF EndInv, InLoops
<1> QED BY <1>3, <1>7, <1>8, LoopsFrame

LEMMA FileLibrary ==
  FullInv /\ FullInv' /\ FileInv /\ Library /\ UNCHANGED fileVars => FileInv'
BY FileCopyOutput, FileAfterOutput, FileCopyInput, FileAfterInput, FileReturn DEF Library

LEMMA FileStutter == FileInv /\ UNCHANGED allVars => FileInv'
<1> SUFFICES ASSUME FileInv, UNCHANGED allVars PROVE FileInv'
  OBVIOUS
<1>1. /\ UNCHANGED <<open, at, lastErr, ferror, abandon, file, given>>
      /\ UNCHANGED <<pc, mode, avail_in, avail_out, out, fed, progress, ret, state>>
      /\ UNCHANGED <<avail_in_expect, state_in_ch, state_in_len, state_out_pos, zbits>>
  BY DEF allVars, vars, fileVars
<1>2. FileType' /\ FailInv' /\ RestInv'
  BY <1>1 DEF FileInv, FileType, FailInv, RestInv, AllWritten
<1>3. Unfinished' = Unfinished
  BY <1>1 DEF Unfinished, isempty_RL, numZ
<1>4. LoopsInv' /\ EndInv'
  BY <1>1, <1>3 DEF FileInv, LoopsInv, EndInv, AllWritten
<1> QED BY <1>2, <1>4 DEF FileInv

(* The compressor underneath keeps its own. *)
LEMMA FileStream == FullInv /\ FileNext => FullInv'
<1> SUFFICES ASSUME FullInv, FileNext PROVE FullInv'
  OBVIOUS
<1>0. avail_in \in Nat /\ avail_out \in Nat /\ BZ_MAX_UNUSED \in Nat
  BY StreamTyped, BufferAssumption DEF Typed
<1>1. ASSUME NEW f, NEW level, NEW gotFile, NEW got \in SUBSET Buffers,
             BZ2_bzWriteOpen(f, level, gotFile, got)
      PROVE  FullInv'
  <2>1. CASE UNCHANGED vars
    BY <2>1, StreamStutter
  <2>2. CASE SetUp(level, got) /\ avail_in' = 0 /\ UNCHANGED avail_out
    BY <1>0, <2>2, StreamSetUp
  <2> QED BY <1>1, <2>1, <2>2 DEF BZ2_bzWriteOpen
<1>2. ASSUME NEW action, NEW ai \in Nat, Call(action, ai) PROVE FullInv'
  BY <1>0, <1>2, StreamCall DEF Call
<1>3. ASSUME NEW len \in Int, BZ2_bzWrite(len) PROVE FullInv'
  <2>1. UNCHANGED vars \/ (len \in Nat /\ Call("RUN", len))
    BY <1>3 DEF BZ2_bzWrite, Refused
  <2> QED BY <1>2, <2>1, StreamStutter
<1>4. ASSUME NEW giveUp, BZ2_bzWriteClose64(giveUp) PROVE FullInv'
  <2>1. UNCHANGED vars \/ Call("FINISH", avail_in)
    BY <1>4 DEF BZ2_bzWriteClose64
  <2> QED BY <1>0, <1>2, <2>1, StreamStutter
<1>5. CASE AfterRun \/ AfterFinish
  <2>1. UNCHANGED vars \/ Call("RUN", avail_in) \/ Call("FINISH", avail_in)
    BY <1>5 DEF AfterRun, AfterFinish
  <2> QED BY <1>0, <1>2, <2>1, StreamStutter
<1>6. CASE CloseFile
  <2>1. UNCHANGED vars \/ BZ2_bzCompressEnd
    BY <1>6 DEF CloseFile
  <2> QED BY <2>1, StreamStutter, StreamEnd
<1>7. CASE Library
  BY <1>7, StreamLibrary
<1>8. -1..ChunkIn \subseteq Int
  OBVIOUS
<1> QED BY <1>1, <1>3, <1>4, <1>5, <1>6, <1>7, <1>8 DEF FileNext, Application, Interface

LEMMA FileStep == FullInv /\ FullInv' /\ FileInv /\ FileNext => FileInv'
<1> SUFFICES ASSUME FullInv, FullInv', FileInv, FileNext PROVE FileInv'
  OBVIOUS
<1>1. ASSUME NEW len \in -1..ChunkIn, BZ2_bzWrite(len) PROVE FileInv'
  <2>1. len \in Int
    OBVIOUS
  <2> QED BY <1>1, <2>1, WriteStep
<1> QED BY <1>1, OpenStep, CloseStep, AfterRunStep, AfterFinishStep, CloseFileStep, FileLibrary
       DEF FileNext, Application, Interface


------------------------------------------------------------------------------
(***************************************************************************)
(* The one-call functions.                                                 *)
(***************************************************************************)

(* Only the last token of a whole stream is the CRC of the trailer, and    *)
(* before there is one nothing is.                                         *)
LEMMA CRCIsLast ==
  ASSUME FullInv, Started, NEW i \in 1..Len(stream), i < Len(stream)
  PROVE  stream[i][1] # "crc"
<1> DEFINE crcs == combinedCRC  nb == Len(crcs)  N == Len(stream)
<1>1. /\ stream \in Seq(Token) /\ N \in Nat /\ crcs \in Seq(Seq(Bytes)) /\ nb \in Nat
  BY LenProperties DEF FullInv, IInv, TypeOK, StreamType
<1>2. /\ stream[1][1] = "BZh" /\ stream[2][1] = "level"
      /\ \A b \in 1..nb : /\ stream[2 * b + 1][1] = "block"
                          /\ stream[2 * b + 2][1] \in DataKinds
  BY DEF FullInv, StreamInv, Laid
<1>3. \/ N = 2 + 2 * nb
      \/ N = 2 * nb + 4 /\ stream[N - 1][1] = "end"
  BY DEF FullInv, StreamInv
<1> HIDE DEF N, nb, crcs
<1>4. i \in Nat /\ 1 <= i /\ i < N
  BY <1>1 DEF N
<1>5. CASE i <= 2
  BY <1>2, <1>4, <1>5
<1>6. CASE i = N - 1 /\ stream[N - 1][1] = "end"
  BY <1>6
<1>7. CASE 2 < i /\ i <= 2 + 2 * nb
  <2>1. \E b \in 1..nb : i = 2 * b + 1 \/ i = 2 * b + 2
    <3>1. \E b \in Nat : i = 2 * b + 1 \/ i = 2 * b + 2
      <4>1. LET b == (i - 1) \div 2 IN b \in Nat /\ (i = 2 * b + 1 \/ i = 2 * b + 2)
        BY <1>4
      <4> QED BY <4>1
    <3>2. PICK b \in Nat : i = 2 * b + 1 \/ i = 2 * b + 2
      BY <3>1
    <3>3. b \in 1..nb
      BY <1>1, <1>4, <1>7, <3>2
    <3> QED BY <3>2, <3>3
  <2>2. PICK b \in 1..nb : i = 2 * b + 1 \/ i = 2 * b + 2
    BY <2>1
  <2> QED BY <1>2, <2>2 DEF DataKinds
<1>8. i <= 2 + 2 * nb \/ (i = N - 1 /\ stream[N - 1][1] = "end")
  BY <1>1, <1>3, <1>4
<1> QED BY <1>4, <1>5, <1>6, <1>7, <1>8

(* What is put behind a sequence leaves its elements where they are. *)
LEMMA FrontOfConcat ==
  ASSUME NEW S, NEW s \in Seq(S), NEW t \in Seq(S)
  PROVE  /\ s \o t \in Seq(S) /\ Len(s \o t) = Len(s) + Len(t)
         /\ \A i \in 1..Len(s) : (s \o t)[i] = s[i]
<1> DEFINE m == Len(s)  l == Len(t)  r == s \o t
<1>1. /\ m \in Nat /\ l \in Nat /\ r \in Seq(S) /\ Len(r) = m + l
      /\ \A i \in 1..(m + l) : r[i] = IF i <= m THEN s[i] ELSE t[i - m]
  BY LenProperties, ConcatProperties
<1> HIDE DEF m, l, r
<1>2. \A i \in 1..m : r[i] = s[i]
  BY <1>1
<1> QED BY <1>1, <1>2 DEF m, l, r

(* While tokens wait to be copied out, what the caller has is no stream.   *)
LEMMA FrontIsNotWhole ==
  ASSUME FullInv, state = "OUTPUT", state_out_pos < numZ
  PROVE  ~WellFormed(out, BlockUnit)
<1> DEFINE rest == SubSeq(zbits, state_out_pos + 1, numZ)
<1>1. /\ out \in Seq(Token) /\ zbits \in Seq(Token) /\ bsBuff \in Seq(Token)
      /\ stream \in Seq(Token) /\ state_out_pos \in Nat /\ numZ = Len(zbits)
      /\ stream = (out \o rest) \o bsBuff
  BY DEF FullInv, IInv, TypeOK, StreamType, NoOutputLost, numZ
<1>2. numZ \in Nat /\ Len(out) \in Nat /\ Len(bsBuff) \in Nat
  BY <1>1, LenProperties
<1>3. rest \in Seq(Token) /\ Len(rest) = numZ - state_out_pos
  <2>1. state_out_pos + 1 \in 1..(Len(zbits) + 1) /\ numZ \in 0..Len(zbits)
    BY <1>1, <1>2
  <2>2. \A m \in (state_out_pos + 1)..numZ : m \in 1..Len(zbits)
    BY <1>1, <1>2
  <2> QED BY <1>1, <1>2, <2>1, <2>2, SubSeqProperties
<1>4. Len(rest) \in Nat /\ Len(rest) > 0
  BY <1>1, <1>2, <1>3
<1> HIDE DEF rest
<1>5. /\ out \o rest \in Seq(Token) /\ Len(out \o rest) = Len(out) + Len(rest)
      /\ \A i \in 1..Len(out) : (out \o rest)[i] = out[i]
  BY <1>1, <1>3, FrontOfConcat
<1>6. /\ Len(stream) = (Len(out) + Len(rest)) + Len(bsBuff)
      /\ \A i \in 1..Len(out \o rest) : stream[i] = (out \o rest)[i]
  BY <1>1, <1>5, FrontOfConcat
<1>7. Len(out) < Len(stream)
  BY <1>2, <1>4, <1>6
<1> SUFFICES ASSUME WellFormed(out, BlockUnit) PROVE FALSE
  OBVIOUS
<1>8. Len(out) > 3 /\ out[Len(out)][1] = "crc"
  BY DEF WellFormed
<1>9. Len(out) \in 1..Len(out) /\ Len(out) \in 1..Len(out \o rest)
  BY <1>2, <1>4, <1>5, <1>8
<1>10. stream[Len(out)] = out[Len(out)]
  BY <1>5, <1>6, <1>9
<1>11. Len(out) \in 1..Len(stream)
  BY <1>2, <1>4, <1>6, <1>8
<1>12. stream[Len(out)][1] # "crc"
  BY <1>7, <1>11, CRCIsLast DEF Started
<1> QED BY <1>8, <1>10, <1>12

LEMMA OneCallerStep == OneCaller => FullInv' /\ OneInv'
<1> SUFFICES ASSUME OneCaller PROVE FullInv' /\ OneInv'
  OBVIOUS
<1>1. PICK e \in {BuffToBuff} \cup Exports, level \in Levels, n_in \in 0..InBound,
           r \in Rooms, got \in {Buffers, {}} : OneCall(e, level, n_in, r, got)
  BY DEF OneCaller
<1>2. PICK size \in BlockSizes(e, level) : SetUp(size, got)
  BY <1>1 DEF OneCall
<1>3. /\ Init /\ FullInv /\ source = <<>> /\ dest = <<>>
      /\ open = FALSE /\ at = "app" /\ lastErr = "OK" /\ ferror = FALSE
      /\ abandon = FALSE /\ file = <<>> /\ given = 0
  BY InitFull DEF OneCaller, OneInit, FileInit
<1>4. /\ avail_in' = 0 /\ avail_out' = 0
      /\ entry' = e /\ sourceLen' = n_in /\ room' = r /\ destLen' = r
      /\ \/ ret' = "OK" /\ step' = "start" /\ code' = "none"
         \/ ret' # "OK" /\ step' = "out" /\ code' = ret'
      /\ UNCHANGED <<open, at, lastErr, ferror, abandon, file, given, source, dest>>
  BY <1>1 DEF OneCall, fileVars
<1>5. FullInv'
  <2>1. got \in SUBSET Buffers /\ 0 \in Nat
    OBVIOUS
  <2> QED BY <1>2, <1>3, <1>4, <2>1, StreamSetUp
<1>6. /\ pc' = "client" /\ UNCHANGED <<fed, out>>
      /\ ret' \in {"OK", "PARAM_ERROR", "MEM_ERROR"}
      /\ ret' # "OK" => mode' = "NONE"
      /\ ret' = "OK" => /\ mode' = "RUNNING" /\ state' = "INPUT" /\ block' = <<>>
                        /\ total_out' = Zero64
  BY <1>2, <1>3 DEF SetUp, prepare_new_block, Init
<1>7. fed' = <<>> /\ out' = <<>>
  BY <1>3, <1>6 DEF Init
<1>8. OneType'
  <2>1. r \in 0..(WordSize - 1) /\ r \in Nat /\ n_in \in Nat
    BY RoomAssumption, WordSizeAssumption, BoundsAssumption
  <2>2. <<>> \in Seq(Bytes) /\ <<>> \in Seq(Token)
    BY EmptySeq
  <2> QED BY <1>3, <1>4, <2>1, <2>2 DEF OneType
<1>9. e # "none"
  BY DEF BuffToBuff, Exports, Enhanced
<1>10. IdleFile'
  BY <1>3, <1>4 DEF IdleFile
<1>11. StartInv' /\ CallInv' /\ DoneInv'
  BY <1>4, <1>6, <1>7 DEF StartInv, CallInv, DoneInv
<1>12. OneCallTells'
  BY <1>4, <1>6 DEF OneCallTells
<1> QED BY <1>4, <1>5, <1>6, <1>8, <1>9, <1>10, <1>11, <1>12 DEF OneInv

(* What a step inside a call leaves alone. *)
LEMMA InsideFrame ==
  ASSUME OneInv, step = "in", UNCHANGED <<fileVars, callVars>>, CallInv', DoneInv'
  PROVE  OneInv'
<1>1. UNCHANGED <<entry, step, sourceLen, room, code, destLen, source, dest>>
  BY DEF callVars
<1>2. UNCHANGED <<open, at, lastErr, ferror, abandon, file, given>>
  BY DEF fileVars
<1>3. entry # "none" /\ OneType /\ IdleFile
  BY DEF OneInv
<1>4. OneType' /\ IdleFile' /\ StartInv' /\ OneCallTells'
  BY <1>1, <1>2, <1>3 DEF OneType, IdleFile, StartInv, OneCallTells
<1> QED BY <1>1, <1>3, <1>4 DEF OneInv

LEMMA TheCallStep == FullInv /\ OneInv /\ TheCall => FullInv' /\ OneInv'
<1> SUFFICES ASSUME FullInv, OneInv, TheCall PROVE FullInv' /\ OneInv'
  OBVIOUS
<1>1. /\ step = "start" /\ step' = "in"
      /\ BZ2_bzCompress("FINISH", sourceLen, room)
      /\ UNCHANGED <<fileVars, entry, sourceLen, room, code, destLen, source, dest>>
  BY DEF TheCall
<1>2. /\ pc = "client" /\ mode = "RUNNING" /\ state = "INPUT" /\ block = <<>>
      /\ fed = <<>> /\ out = <<>> /\ total_out = Zero64
      /\ OneType /\ IdleFile /\ entry # "none"
  BY <1>1 DEF OneInv, StartInv
<1>3. sourceLen \in Nat /\ room \in Nat
  BY <1>2, WordSizeAssumption DEF OneType
<1>4. FullInv'
  BY <1>1, <1>3, StreamCall
<1>5. /\ pc' = "loop" /\ progress' = FALSE /\ mode' = "FINISHING"
      /\ avail_in' = sourceLen /\ avail_out' = room /\ avail_in_expect' = sourceLen
      /\ UNCHANGED <<fed, out, state, block, total_out, state_out_pos>>
  BY <1>1, <1>2, <1>3, FinishEnters
<1>6. CallInv' /\ DoneInv'
  <2>1. Len(fed') = 0 /\ Len(out') = 0
    BY <1>2, <1>5, EmptySeq
  <2>2. total_out' = [lo |-> Len(out'), hi |-> 0]
    BY <1>2, <1>5, <2>1 DEF Zero64
  <2>3. Len(fed') + avail_in' = sourceLen' /\ Len(out') + avail_out' = room'
    BY <1>1, <1>3, <1>5, <2>1
  <2> QED BY <1>1, <1>2, <1>5, <2>2, <2>3 DEF CallInv, DoneInv
<1>7. UNCHANGED <<open, at, lastErr, ferror, abandon, file, given>>
  BY <1>1 DEF fileVars
<1>8. OneType' /\ IdleFile' /\ StartInv' /\ OneCallTells'
  BY <1>1, <1>2, <1>7 DEF OneType, IdleFile, StartInv, OneCallTells
<1> QED BY <1>1, <1>2, <1>4, <1>6, <1>8 DEF OneInv


LEMMA InsideCopyOutput ==
  ASSUME FullInv, OneInv, step = "in", CopyOutput, UNCHANGED <<fileVars, callVars>>
  PROVE  OneInv'
<1>1. /\ pc = "loop" /\ pc' = "loop" /\ progress' = TRUE
      /\ UNCHANGED <<mode, avail_in, avail_in_expect, fed>>
      /\ out' = Append(out, zbits[state_out_pos + 1])
      /\ avail_out' = avail_out - 1 /\ avail_out > 0
      /\ total_out' = Tick(total_out)
  BY DEF CopyOutput, inVars, CanCopyOut
<1>2. UNCHANGED <<step, sourceLen, room>>
  BY DEF callVars
<1>3. CallInv /\ room \in 0..(WordSize - 1) /\ WordSize \in Nat
  BY WordSizeAssumption DEF OneInv, OneType
<1>4. out \in Seq(Token) /\ Len(out) \in Nat /\ avail_out \in Nat
  BY StreamTyped DEF Typed
<1>5. Len(out') = Len(out) + 1
  BY <1>1, <1>4
<1>6. /\ avail_in = avail_in_expect /\ Len(fed) + avail_in = sourceLen
      /\ Len(out) + avail_out = room
      /\ total_out = [lo |-> Len(out), hi |-> 0] /\ mode = "FINISHING"
  BY <1>1, <1>3 DEF CallInv
<1>7. total_out' = [lo |-> Len(out'), hi |-> 0]
  <2>1. Len(out) + 1 < WordSize
    BY <1>1, <1>3, <1>4, <1>6
  <2>2. total_out.lo = Len(out) /\ total_out.hi = 0
    BY <1>6
  <2>3. total_out.lo + 1 # WordSize
    BY <1>3, <1>4, <2>1, <2>2
  <2> QED BY <1>1, <1>5, <2>2, <2>3 DEF Tick
<1>8. Len(out') + avail_out' = room
  BY <1>1, <1>4, <1>5, <1>6
<1>9. CallInv' /\ DoneInv'
  BY <1>1, <1>2, <1>6, <1>7, <1>8 DEF CallInv, DoneInv
<1> QED BY <1>9, InsideFrame

LEMMA InsideAfterOutput ==
  ASSUME FullInv, OneInv, step = "in", AfterOutput, UNCHANGED <<fileVars, callVars>>
  PROVE  OneInv'
<1>1. /\ pc = "loop" /\ state = "OUTPUT" /\ ~CanCopyOut
      /\ UNCHANGED <<mode, avail_in, avail_in_expect, fed, avail_out, progress, out,
                     total_out, state_in_ch, state_in_len>>
  BY DEF AfterOutput, inVars, runVars
<1>2. UNCHANGED <<step, sourceLen, room>>
  BY DEF callVars
<1>3. CallInv
  BY DEF OneInv
<1>4. avail_out \in Nat /\ state_out_pos \in Nat /\ numZ \in Nat /\ progress \in BOOLEAN
  BY StreamTyped DEF Typed
<1>5. /\ avail_in = avail_in_expect /\ Len(fed) + avail_in = sourceLen
      /\ Len(out) + avail_out = room
      /\ total_out = [lo |-> Len(out), hi |-> 0] /\ mode = "FINISHING"
      /\ ~progress => /\ avail_in = sourceLen /\ avail_out = room
                      /\ avail_in = 0 /\ state_out_pos < numZ
  BY <1>1, <1>3 DEF CallInv
<1>6. CASE /\ \/ state_out_pos < numZ
              \/ mode = "FINISHING" /\ avail_in_expect = 0 /\ isempty_RL
           /\ pc' = "ret"
           /\ UNCHANGED <<state, blockVars, blockNo, zbits, state_out_pos>>
  <2>1. /\ numZ' = numZ /\ state' = "OUTPUT" /\ pc' = "ret" /\ Unfinished' = Unfinished
        /\ state_out_pos' = state_out_pos
    BY <1>1, <1>6 DEF numZ, Unfinished, isempty_RL
  <2>2. \/ avail_out = 0 /\ state_out_pos < numZ
        \/ progress /\ ~Unfinished
    <3>1. CASE state_out_pos < numZ
      BY <1>1, <1>4, <3>1 DEF CanCopyOut
    <3>2. CASE ~(state_out_pos < numZ)
      BY <1>4, <1>5, <1>6, <3>2 DEF Unfinished
    <3> QED BY <3>1, <3>2
  <2>3. CallInv' /\ DoneInv'
    BY <1>1, <1>2, <1>5, <2>1, <2>2 DEF CallInv, DoneInv
  <2> QED BY <2>3, InsideFrame
<1>7. CASE ~(state_out_pos < numZ) /\ prepare_new_block /\ state' = "INPUT" /\ pc' = "loop"
  <2>1. block' = <<>> /\ progress
    BY <1>4, <1>5, <1>7 DEF prepare_new_block
  <2>2. CallInv' /\ DoneInv'
    BY <1>1, <1>2, <1>5, <1>7, <2>1 DEF CallInv, DoneInv
  <2> QED BY <2>2, InsideFrame
<1> QED BY <1>5, <1>6, <1>7 DEF AfterOutput

LEMMA InsideCopyInput ==
  ASSUME FullInv, OneInv, step = "in", NEW c \in Symbols, CopyInput(c),
         UNCHANGED <<fileVars, callVars>>
  PROVE  OneInv'
<1>1. /\ pc = "loop" /\ pc' = "loop" /\ progress' = TRUE
      /\ UNCHANGED <<mode, out, avail_out, total_out>>
      /\ fed' = Append(fed, c) /\ avail_in' = avail_in - 1
      /\ mode # "RUNNING" => avail_in_expect' = avail_in_expect - 1
  BY DEF CopyInput, outVars
<1>2. UNCHANGED <<step, sourceLen, room>>
  BY DEF callVars
<1>3. fed \in Seq(Bytes) /\ Len(fed) \in Nat /\ avail_in \in Nat
  BY StreamTyped DEF Typed
<1>4. CallInv
  BY DEF OneInv
<1>5. /\ avail_in = avail_in_expect /\ Len(fed) + avail_in = sourceLen
      /\ Len(out) + avail_out = room
      /\ total_out = [lo |-> Len(out), hi |-> 0] /\ mode = "FINISHING"
  BY <1>1, <1>4 DEF CallInv
<1>6. Len(fed') = Len(fed) + 1
  BY <1>1, <1>3
<1>7. Len(fed') + avail_in' = sourceLen /\ avail_in' = avail_in_expect'
  BY <1>1, <1>3, <1>5, <1>6
<1>8. CallInv' /\ DoneInv'
  BY <1>1, <1>2, <1>5, <1>7 DEF CallInv, DoneInv
<1> QED BY <1>8, InsideFrame

LEMMA InsideAfterInput ==
  ASSUME FullInv, OneInv, step = "in", AfterInput, UNCHANGED <<fileVars, callVars>>
  PROVE  OneInv'
<1>1. /\ pc = "loop" /\ state = "INPUT" /\ ~CanCopyIn
      /\ UNCHANGED <<mode, avail_in, avail_in_expect, fed, avail_out, progress, out,
                     total_out, state_out_pos>>
  BY DEF AfterInput, inVars, outVars
<1>2. UNCHANGED <<step, sourceLen, room>>
  BY DEF callVars
<1>3. CallInv
  BY DEF OneInv
<1>4. /\ avail_in = avail_in_expect /\ Len(fed) + avail_in = sourceLen
      /\ Len(out) + avail_out = room
      /\ total_out = [lo |-> Len(out), hi |-> 0] /\ mode = "FINISHING"
      /\ ~progress => avail_in = sourceLen /\ avail_out = room /\ block = <<>>
  BY <1>1, <1>3 DEF CallInv
<1>5. avail_in \in Nat
  BY StreamTyped DEF Typed
<1>6. CASE EndOfFlushOrFinish
  <2>1. CloseLastBlock /\ state' = "OUTPUT" /\ pc' = "loop"
    BY <1>1, <1>6 DEF AfterInput
  <2>2. state_out_pos' < numZ' /\ avail_in = 0
    BY <1>1, <1>4, <1>6, <2>1, LastBlockWaits DEF EndOfFlushOrFinish
  <2>3. CallInv' /\ DoneInv'
    BY <1>1, <1>2, <1>4, <2>1, <2>2 DEF CallInv, DoneInv
  <2> QED BY <2>3, InsideFrame
<1>7. CASE ~EndOfFlushOrFinish
  <2>1. avail_in > 0 /\ avail_in_expect > 0
    BY <1>4, <1>5, <1>7 DEF EndOfFlushOrFinish
  <2>2. BlockFull
    BY <1>1, <2>1 DEF CanCopyIn
  <2>3. block # <<>>
    <3>1. blockSize100k \in 1..9
      BY DEF FullInv, IInv, TypeOK, ControlType
    <3>2. nblockMAX \in Nat /\ nblockMAX >= 1
      BY <3>1, BlockUnitAssumption DEF nblockMAX
    <3>3. Len(<<>>) = 0
      BY EmptySeq
    <3> QED BY <2>2, <3>2, <3>3 DEF BlockFull, nblock
  <2>4. state' = "OUTPUT" /\ pc' = "loop" /\ progress
    BY <1>1, <1>4, <2>2, <2>3, StreamTyped DEF AfterInput, Typed
  <2>5. CallInv' /\ DoneInv'
    BY <1>1, <1>2, <1>4, <2>4 DEF CallInv, DoneInv
  <2> QED BY <2>5, InsideFrame
<1> QED BY <1>6, <1>7

LEMMA InsideReturn ==
  ASSUME FullInv, OneInv, step = "in", Return, UNCHANGED <<fileVars, callVars>>
  PROVE  OneInv'
<1>1. /\ pc = "ret" /\ pc' = "client"
      /\ UNCHANGED <<avail_in, avail_in_expect, fed, avail_out, progress, out, total_out,
                     state, state_out_pos, zbits>>
  BY DEF Return, inVars, outVars, bitVars
<1>2. UNCHANGED <<step, sourceLen, room>>
  BY DEF callVars
<1>3. CallInv
  BY DEF OneInv
<1>4. /\ avail_in = avail_in_expect /\ Len(fed) + avail_in = sourceLen
      /\ Len(out) + avail_out = room
      /\ total_out = [lo |-> Len(out), hi |-> 0] /\ mode = "FINISHING"
      /\ ~progress => /\ avail_in = sourceLen /\ avail_out = room
                      /\ state = "OUTPUT" => avail_in = 0
      /\ \/ avail_out = 0 /\ state = "OUTPUT" /\ state_out_pos < numZ
         \/ progress /\ ~Unfinished
  BY <1>1, <1>3 DEF CallInv
<1>5. CallInv'
  BY <1>1, <1>2, <1>4 DEF CallInv
<1>6. numZ' = numZ /\ (state_out_pos < numZ => Unfinished)
  BY <1>1 DEF numZ, Unfinished
<1>7. DoneInv'
  <2>1. CASE ~progress
    <3>1. ret' = "SEQUENCE_ERROR" /\ mode' = "FINISHING"
      BY <1>4, <2>1 DEF Return
    <3> QED BY <1>1, <1>2, <1>4, <2>1, <3>1 DEF DoneInv
  <2>2. CASE progress /\ Unfinished
    <3>1. ret' = "FINISH_OK" /\ mode' = "FINISHING"
      BY <1>4, <2>2 DEF Return
    <3> QED BY <1>1, <1>2, <1>4, <1>6, <2>2, <3>1 DEF DoneInv
  <2>3. CASE progress /\ ~Unfinished
    <3>1. ret' = "STREAM_END" /\ mode' = "IDLE"
      BY <1>4, <2>3 DEF Return
    <3> QED BY <3>1 DEF DoneInv
  <2>4. progress \in BOOLEAN
    BY StreamTyped DEF Typed
  <2> QED BY <2>1, <2>2, <2>3, <2>4
<1> QED BY <1>5, <1>7, InsideFrame

LEMMA InsideLibrary ==
  FullInv /\ OneInv /\ step = "in" /\ Library /\ UNCHANGED <<fileVars, callVars>> => OneInv'
BY InsideCopyOutput, InsideAfterOutput, InsideCopyInput, InsideAfterInput, InsideReturn
   DEF Library

LEMMA TheAnswerStep == FullInv /\ OneInv /\ TheAnswer => OneInv'
<1> SUFFICES ASSUME FullInv, OneInv, TheAnswer PROVE OneInv'
  OBVIOUS
<1>1. /\ step = "in" /\ pc = "client" /\ step' = "out"
      /\ source' = fed /\ dest' = out
      /\ UNCHANGED <<open, at, lastErr, ferror, abandon, file, given>>
      /\ UNCHANGED <<entry, sourceLen, room>>
      /\ BZ2_bzCompressEnd
  BY DEF TheAnswer, fileVars
<1>2. /\ OneType /\ IdleFile /\ CallInv /\ DoneInv /\ entry # "none"
  BY <1>1 DEF OneInv
<1>3. /\ Len(fed) + avail_in = sourceLen /\ avail_in = avail_in_expect
      /\ Len(out) + avail_out = room /\ total_out.lo = Len(out)
  BY <1>1, <1>2 DEF CallInv
<1>4. /\ avail_in \in Nat /\ avail_out \in Nat /\ avail_in_expect \in Nat
      /\ fed \in Seq(Bytes) /\ out \in Seq(Token) /\ Len(fed) \in Nat /\ Len(out) \in Nat
      /\ room \in Nat
  BY <1>2, StreamTyped, WordSizeAssumption DEF Typed, OneType
<1>5. mode # "NONE"
  BY <1>1, <1>2 DEF DoneInv
<1>6. mode' = "NONE" /\ pc' = "client"
  BY <1>1, <1>5 DEF BZ2_bzCompressEnd, EndNothing, EndStream
<1>7. IF entry = BuffToBuff
      THEN /\ code' = BuffToBuffCode
           /\ destLen' = IF code' = "OK" THEN room - avail_out ELSE room
      ELSE /\ code' = ExportCode
           /\ destLen' = IF code' = "OK" THEN total_out.lo ELSE room
  BY DEF TheAnswer
<1>8. destLen' \in {room, Len(out)} /\ (code' = "OK" => destLen' = Len(out))
  BY <1>3, <1>4, <1>7
<1>9. OneType'
  BY <1>1, <1>2, <1>4, <1>8 DEF OneType
<1>10. OneCallTells'
  <2>1. CASE ret = "STREAM_END" /\ mode = "IDLE"
    <3>1. code' = "OK"
      BY <1>7, <2>1 DEF BuffToBuffCode, ExportCode
    <3>2. WellFormed(out, BlockUnit) /\ Content(out) = fed
      BY <2>1, EndReadsBack DEF StreamDecodes
    <3>3. avail_in_expect = 0
      BY <2>1 DEF FullInv, OwedInv
    <3>4. Len(fed) = sourceLen
      BY <1>3, <1>4, <3>3
    <3>5. Finished'
      BY <1>1, <3>2, <3>4 DEF Finished
    <3> QED BY <1>1, <1>8, <3>1, <3>5 DEF OneCallTells
  <2>2. CASE /\ ret = "FINISH_OK" /\ mode = "FINISHING"
             /\ avail_out = 0 /\ state = "OUTPUT" /\ state_out_pos < numZ
    <3>1. code' = IF entry = BuffToBuff THEN "OUTBUFF_FULL" ELSE "OK"
      BY <1>7, <2>2 DEF BuffToBuffCode, ExportCode
    <3>2. Len(out) = room
      BY <1>3, <1>4, <2>2
    <3>3. ~Finished'
      BY <1>1, <2>2, FrontIsNotWhole DEF Finished
    <3>4. entry # BuffToBuff => ~(destLen' < room')
      BY <1>1, <1>4, <1>8, <3>1, <3>2
    <3> QED BY <1>1, <1>8, <3>1, <3>2, <3>3, <3>4 DEF OneCallTells
  <2>3. CASE ret = "SEQUENCE_ERROR" /\ sourceLen = 0 /\ room = 0
    <3>1. code' = "SEQUENCE_ERROR"
      BY <1>7, <2>3 DEF BuffToBuffCode, ExportCode
    <3> QED BY <1>1, <2>3, <3>1 DEF OneCallTells
  <2> QED BY <1>1, <1>2, <2>1, <2>2, <2>3 DEF DoneInv
<1>11. IdleFile' /\ StartInv' /\ CallInv' /\ DoneInv'
  BY <1>1, <1>2 DEF IdleFile, StartInv, CallInv, DoneInv
<1> QED BY <1>1, <1>2, <1>6, <1>9, <1>10, <1>11 DEF OneInv

LEMMA ForgetStep == FullInv /\ OneInv /\ Forget => OneInv'
<1> SUFFICES ASSUME FullInv, OneInv, Forget PROVE OneInv'
  OBVIOUS
<1>1. /\ entry # "none" /\ step = "out" /\ entry' = "none" /\ step' = "out"
      /\ sourceLen' = 0 /\ room' = 0 /\ destLen' = 0 /\ source' = <<>> /\ dest' = <<>>
      /\ UNCHANGED <<open, at, lastErr, ferror, abandon, file, given>>
      /\ UNCHANGED <<mode, pc>>
  BY DEF Forget, fileVars
<1>2. IdleFile /\ mode = "NONE" /\ pc = "client"
  BY <1>1 DEF OneInv
<1>3. OneType'
  BY <1>1, EmptySeq, WordSizeAssumption DEF OneType
<1>4. FileType'
  BY <1>1, <1>2, EmptySeq DEF IdleFile, FileType, Codes
<1>5. FileInv'
  BY <1>1, <1>2, <1>4 DEF IdleFile, FileInv, FailInv, RestInv, LoopsInv, EndInv
<1> QED BY <1>1, <1>3, <1>5 DEF OneInv, StartInv, CallInv, DoneInv, OneCallTells

LEMMA OneFileStep ==
  FullInv /\ OneInv /\ entry = "none" /\ FileNext /\ UNCHANGED callVars => FullInv' /\ OneInv'
<1> SUFFICES ASSUME FullInv, OneInv, entry = "none", FileNext, UNCHANGED callVars
             PROVE  FullInv' /\ OneInv'
  OBVIOUS
<1>1. UNCHANGED <<entry, step, sourceLen, room, code, destLen, source, dest>>
  BY DEF callVars
<1>2. FileInv /\ OneType /\ step = "out"
  BY DEF OneInv
<1>3. FullInv' /\ FileInv'
  BY <1>2, FileStream, FileStep
<1>4. OneType'
  BY <1>1, <1>2 DEF OneType
<1> QED BY <1>1, <1>2, <1>3, <1>4 DEF OneInv, StartInv, CallInv, DoneInv, OneCallTells

LEMMA OneStutter == FullInv /\ OneInv /\ UNCHANGED oneVars => FullInv' /\ OneInv'
<1> SUFFICES ASSUME FullInv, OneInv, UNCHANGED oneVars PROVE FullInv' /\ OneInv'
  OBVIOUS
<1>1. /\ UNCHANGED <<vars, fileVars>> /\ UNCHANGED allVars
      /\ UNCHANGED <<entry, step, sourceLen, room, code, destLen, source, dest>>
  BY DEF oneVars, allVars, callVars
<1>2. UNCHANGED <<open, at, lastErr, ferror, abandon, file, given>>
  BY <1>1 DEF fileVars
<1>3. UNCHANGED <<pc, mode, state, block, fed, out, total_out, avail_in, avail_out,
                  avail_in_expect, progress, state_out_pos, zbits, state_in_ch,
                  state_in_len, ret>>
  BY <1>1 DEF vars
<1>4. FullInv'
  BY <1>1, StreamStutter
<1>5. FileInv => FileInv'
  BY <1>1, FileStutter
<1>6. OneType' /\ (IdleFile => IdleFile')
  BY <1>1, <1>2 DEF OneInv, OneType, IdleFile
<1>7. numZ' = numZ /\ Unfinished' = Unfinished
  BY <1>3 DEF numZ, Unfinished, isempty_RL
<1>8. StartInv' /\ CallInv' /\ DoneInv'
  BY <1>1, <1>3, <1>7 DEF OneInv, StartInv, CallInv, DoneInv
<1>9. OneCallTells'
  BY <1>1 DEF OneInv, OneCallTells, Finished
<1> QED BY <1>1, <1>3, <1>4, <1>5, <1>6, <1>8, <1>9 DEF OneInv

LEMMA OneInitInv == OneInit => FullInv /\ OneInv
<1> SUFFICES ASSUME OneInit PROVE FullInv /\ OneInv
  OBVIOUS
<1>1. /\ Init /\ open = FALSE /\ at = "app" /\ lastErr = "OK" /\ ferror = FALSE
      /\ abandon = FALSE /\ file = <<>> /\ given = 0
      /\ entry = "none" /\ step = "out" /\ sourceLen = 0 /\ room = 0
      /\ destLen = 0 /\ source = <<>> /\ dest = <<>>
  BY DEF OneInit, FileInit
<1>2. pc = "client" /\ mode = "NONE"
  BY <1>1 DEF Init
<1>3. OneType /\ FileType
  <2>1. /\ <<>> \in Seq(Bytes) /\ <<>> \in Seq(Token)
        /\ 0 \in 0..(WordSize - 1) /\ 0 \in Nat
    BY EmptySeq, WordSizeAssumption
  <2>2. OneType
    BY <1>1, <2>1 DEF OneType
  <2>3. FileType
    BY <1>1, <2>1 DEF FileType, Codes
  <2> QED BY <2>2, <2>3
<1>4. FileInv
  BY <1>1, <1>2, <1>3 DEF FileInv, FailInv, RestInv, LoopsInv, EndInv
<1>5. FullInv
  BY <1>1, InitFull
<1> QED BY <1>1, <1>3, <1>4, <1>5 DEF OneInv, StartInv, CallInv, DoneInv, OneCallTells

LEMMA OneNextStep == FullInv /\ OneInv /\ [OneNext]_oneVars => FullInv' /\ OneInv'
<1> SUFFICES ASSUME FullInv, OneInv, OneNext PROVE FullInv' /\ OneInv'
  BY OneStutter
<1>1. CASE OneCaller
  BY <1>1, OneCallerStep
<1>2. CASE TheCall
  BY <1>2, TheCallStep
<1>3. CASE TheAnswer
  <2>1. BZ2_bzCompressEnd
    BY <1>3 DEF TheAnswer
  <2> QED BY <1>3, <2>1, StreamEnd, TheAnswerStep
<1>4. CASE step = "in" /\ Library /\ UNCHANGED <<fileVars, callVars>>
  BY <1>4, StreamLibrary, InsideLibrary
<1>5. CASE Forget
  BY <1>5, StreamForget, ForgetStep
<1>6. CASE entry = "none" /\ FileNext /\ UNCHANGED callVars
  BY <1>6, OneFileStep
<1> QED BY <1>1, <1>2, <1>3, <1>4, <1>5, <1>6 DEF OneNext, OneStep

------------------------------------------------------------------------------
(***************************************************************************)
(* The strengthened invariants hold of everything built on the compressor: *)
(* of the compressor itself under the file interface and the one-call      *)
(* functions, and of what those keep.                                      *)
(***************************************************************************)
THEOREM OneInductive == OneSpec => [](FullInv /\ OneInv)
BY OneInitInv, OneNextStep, PTL DEF OneSpec

(***************************************************************************)
(* After fwrite or fflush has failed no call of the file interface answers *)
(* BZ_OK before another file is opened, whatever the application calls.    *)
(***************************************************************************)
THEOREM FailuresReported == OneSpec => []FailureReported
<1>1. OneInv => FailureReported
  BY DEF OneInv, IdleFile, FileInv, FailInv, FailureReported
<1> QED BY <1>1, OneInductive, PTL

(***************************************************************************)
(* The one-call functions tell rightly what has happened: BZ_OK of         *)
(* BZ2_bzBuffToBuffCompress is a whole stream for all the input, and so is *)
(* BZ_OK of an export with room left; BZ_OUTBUFF_FULL never is.            *)
(***************************************************************************)
THEOREM OneCallTold == OneSpec => []OneCallTells
<1>1. OneInv => OneCallTells
  BY DEF OneInv
<1> QED BY <1>1, OneInductive, PTL

(***************************************************************************)
(* BZ2_bzWriteClose64 answered with BZ_OK leaves a file that is a whole    *)
(* stream and decodes to all the bytes written, unless it was told to      *)
(* abandon it or followed an error.                                        *)
(***************************************************************************)
THEOREM ClosesWhole == OneSpec => ClosedIsWhole
<1> DEFINE Whole == open /\ ~open' /\ ~abandon /\ lastErr = "OK" =>
                      /\ WellFormed(file, BlockUnit) /\ Content(file) = fed
                      /\ Len(fed) = given
<1>1. FullInv /\ OneInv /\ [OneNext]_oneVars => [Whole]_allVars
  <2> SUFFICES ASSUME FullInv, OneInv, [OneNext]_oneVars, open, ~open', ~abandon,
                      lastErr = "OK"
               PROVE  /\ WellFormed(file, BlockUnit) /\ Content(file) = fed
                      /\ Len(fed) = given
    OBVIOUS
  <2>1. ~(UNCHANGED fileVars) /\ ~(UNCHANGED oneVars)
    BY DEF fileVars, oneVars, allVars
  <2>2. entry = "none" /\ FileNext
    BY <2>1 DEF OneNext, OneCaller, OneCall, OneStep, TheCall, TheAnswer, Forget
  <2>3. CloseFile
    BY <2>1, <2>2 DEF FileNext, Application, Interface, BZ2_bzWriteOpen, BZ2_bzWrite,
                      BZ2_bzWriteClose64, AfterRun, AfterFinish
  <2>4. FileInv /\ at = "close"
    BY <2>2, <2>3 DEF OneInv, CloseFile
  <2>5. mode = "IDLE" /\ file = out /\ Len(fed) = given
    BY <2>4 DEF FileInv, EndInv, AllWritten
  <2> QED BY <2>5, EndReadsBack DEF StreamDecodes
<1> QED BY <1>1, OneInductive, PTL DEF OneSpec, ClosedIsWhole
==============================================================================
