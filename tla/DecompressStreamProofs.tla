------------------------ MODULE DecompressStreamProofs ------------------------
(***************************************************************************)
(* Proofs about DecompressStream, for every set of streams, block unit,    *)
(* counter width and size of the caller's buffers.                         *)
(***************************************************************************)
EXTENDS DecompressStream, StreamLemmas

USE SourcesAssumption, BlockUnitAssumption, ChunkAssumption, WordSizeAssumption

------------------------------------------------------------------------------
(* The counters: the low word wraps, and the carry makes up for it. *)
LEMMA ModSmall ==
  \A x \in Nat : x < WordSize + WordSize =>
     x % WordSize = IF x < WordSize THEN x ELSE x - WordSize
OBVIOUS

LEMMA AdvanceExact ==
  ASSUME NEW t \in Counter, NEW n \in Nat, n < WordSize
  PROVE  /\ Advance(t, n) \in Counter
         /\ Value(Advance(t, n)) = Value(t) + n
<1> DEFINE lo == (t.lo + n) % WordSize
<1>1. t.lo \in 0..(WordSize - 1) /\ t.hi \in Nat /\ t.lo + n \in Nat
  BY DEF Counter
<1>2. lo = IF t.lo + n < WordSize THEN t.lo + n ELSE t.lo + n - WordSize
  <2> DEFINE x == t.lo + n
  <2>1. x \in Nat /\ x < WordSize + WordSize
    BY <1>1
  <2> HIDE DEF x
  <2>2. x % WordSize = IF x < WordSize THEN x ELSE x - WordSize
    BY <2>1, ModSmall
  <2> QED BY <1>1, <2>1, <2>2 DEF x, lo
<1>3. Advance(t, n) = [lo |-> lo, hi |-> IF lo < t.lo THEN t.hi + 1 ELSE t.hi]
  BY DEF Advance
<1> HIDE DEF lo
<1>4. lo \in 0..(WordSize - 1) /\ (lo < t.lo <=> ~(t.lo + n < WordSize))
  BY <1>1, <1>2
<1>5. CASE t.lo + n < WordSize
  <2>1. Advance(t, n) = [lo |-> t.lo + n, hi |-> t.hi]
    BY <1>2, <1>3, <1>4, <1>5
  <2> QED BY <1>1, <1>5, <2>1 DEF Counter, Value
<1>6. CASE ~(t.lo + n < WordSize)
  <2>1. Advance(t, n) = [lo |-> t.lo + n - WordSize, hi |-> t.hi + 1]
    BY <1>2, <1>3, <1>4, <1>6
  <2>2. (t.hi + 1) * WordSize = t.hi * WordSize + WordSize
    BY <1>1
  <2>3. t.hi * WordSize \in Int
    BY <1>1
  <2>4. Value(Advance(t, n)) = (t.hi + 1) * WordSize + (t.lo + n - WordSize)
    BY <2>1 DEF Value
  <2>5. Value(t) = t.hi * WordSize + t.lo
    BY DEF Value
  <2>6. Value(Advance(t, n)) = Value(t) + n
    BY <1>1, <2>2, <2>3, <2>4, <2>5, SMTT(30)
  <2> QED BY <1>1, <1>6, <2>1, <2>6 DEF Counter
<1> QED BY <1>5, <1>6

(* A token holds a sequence of bytes, unless it is the stream's CRC. *)
LEMMA TokenValue ==
  ASSUME NEW t \in Token, t[1] # "crc"
  PROVE  t[2] \in Seq(Bytes)
BY DEF Token

LEMMA Empties == /\ <<>> \in Seq(Bytes) /\ <<>> \in Seq(Seq(Bytes))
                 /\ <<>> \in Seq(Token)
                 /\ Len(<<>>) = 0
BY EmptySeq

(* Whatever index is asked for, BZ_GET stays in the block. *)
LEMMA GetByte ==
  ASSUME tt \in Seq(Bytes), nblock >= 1, NEW u \in Int
  PROVE  BZ_GET(u) \in Bytes
<1>1. nblock \in Nat \ {0} /\ u - 1 \in Int
  BY LenProperties DEF nblock
<1>2. (u - 1) % nblock \in 0..(nblock - 1)
  BY <1>1
<1>3. ((u - 1) % nblock) + 1 \in 1..Len(tt)
  BY <1>1, <1>2 DEF nblock
<1> QED BY <1>3, ElementOfSeq DEF BZ_GET

LEMMA NoSnapshotType ==
  NoSnapshot \in [avail_out : Nat, out : Seq(Bytes), nblock_used : Nat,
                  len : 0..259, ch : Bytes, crc : Seq(Bytes)]
<1>1. 0 \in Bytes /\ <<>> \in Seq(Bytes)
  BY Empties DEF Bytes
<1> QED BY <1>1 DEF NoSnapshot

LEMMA InitInv == Init => IInv
<1> SUFFICES ASSUME Init PROVE IInv
  OBVIOUS
<1>0. 0 \in Bytes /\ Zero64 \in Counter /\ Len(<<>>) = 0
  BY Empties DEF Bytes, Zero64, Counter
<1>1. TypeOK
  <2>1. StrmType
    BY <1>0, Empties DEF Init, StrmType
  <2>2. ControlType
    <3>1. heap \subseteq Tables \cup {"DState"} /\ 0 \in 0..9
      BY DEF Init
    <3>2. state = "NONE" /\ ret = "none" /\ pc = "client"
      BY DEF Init
    <3>3. ret \in Codes
      BY <3>2 DEF Codes
    <3> QED BY <3>1, <3>2, <3>3 DEF Init, ControlType
  <2>3. BlockType
    BY <1>0, Empties DEF Init, BlockType
  <2>4. SavedType
    BY NoSnapshotType DEF Init, SavedType
  <2> QED BY <2>1, <2>2, <2>3, <2>4 DEF TypeOK
<1>2. CallInv /\ CopyInv /\ BlockInTable /\ Allocated
  BY DEF Init, CallInv, CopyInv, BlockInTable, Allocated
<1> QED BY <1>1, <1>2 DEF IInv

------------------------------------------------------------------------------
(* What the caller does. *)
LEMMA DecompressInitStep ==
  ASSUME IInv, NEW src \in Seq(Token), NEW small, NEW got,
         SetUp(src, small, got), avail_in' \in Nat
  PROVE  IInv'
<1>0. TypeOK /\ CallInv /\ CopyInv /\ BlockInTable /\ Allocated
  BY DEF IInv
<1>1. /\ pc = "client" /\ state = "NONE"
      /\ UNCHANGED <<avail_out, blockSize100k, blockRandomised, tt,
           nblock_used, state_out_len, state_out_ch, calculatedBlockCRC,
           storedBlockCRC, calculatedCombinedCRC, pc, saved, pos, out>>
      /\ \/ /\ ret' \in {"PARAM_ERROR", "MEM_ERROR"}
            /\ UNCHANGED <<state, smallDecompress, heap, total_in, total_out, source>>
         \/ /\ heap' = {"DState"} /\ state' = "MAGIC"
            /\ smallDecompress' \in BOOLEAN
            /\ total_in' = Zero64 /\ total_out' = Zero64
            /\ source' = src /\ ret' = "OK"
  BY DEF SetUp, blockVars, runVars, crcVars
<1>2. pos = 0 /\ out = <<>> /\ source = <<>> /\ heap = {}
  BY <1>0, <1>1 DEF CallInv, Allocated
<1>3. Zero64 \in Counter /\ Value(Zero64) = 0
  BY DEF Zero64, Counter, Value
<1>4. TypeOK'
  <2>1. src \in Seq(Token) /\ Len(src) \in Nat /\ Len(<<>>) = 0
    BY LenProperties, Empties
  <2>2. StrmType'
    <3>1. /\ avail_in' \in Nat /\ avail_out \in Nat /\ out \in Seq(Bytes)
          /\ total_in \in Counter /\ total_out \in Counter
      BY <1>0 DEF TypeOK, StrmType
    <3>2. source' \in Seq(Token) /\ Len(source') \in Nat
      BY <1>0, <1>1, <1>2, <2>1 DEF TypeOK, StrmType
    <3>3. pos' \in 0..Len(source')
      BY <1>1, <1>2, <3>2
    <3> QED BY <1>1, <1>3, <3>1, <3>2, <3>3 DEF StrmType
  <2>3. ControlType'
    BY <1>0, <1>1 DEF TypeOK, ControlType, Codes, Errors, Parsing
  <2>4. BlockType' /\ SavedType'
    BY <1>0, <1>1 DEF TypeOK, BlockType, SavedType
  <2> QED BY <2>2, <2>3, <2>4 DEF TypeOK
<1>5. CallInv'
  BY <1>0, <1>1, <1>2, <1>3 DEF CallInv
<1>6. CopyInv'
  BY <1>0, <1>1, <1>2, <1>3, Empties DEF CopyInv
<1>7. BlockInTable' /\ Allocated'
  BY <1>0, <1>1, <1>2 DEF BlockInTable, Allocated
<1> QED BY <1>4, <1>5, <1>6, <1>7 DEF IInv

LEMMA CallStep ==
  ASSUME IInv, NEW ai \in Nat, NEW ao \in 0..(WordSize - 1),
         BZ2_bzDecompress(ai, ao)
  PROVE  IInv'
<1>0. TypeOK /\ CallInv /\ CopyInv /\ BlockInTable /\ Allocated
  BY DEF IInv
<1>1. /\ pc = "client" /\ pos + ai <= Len(source)
      /\ avail_in' = ai /\ avail_out' = ao
      /\ UNCHANGED <<total_in, total_out, state, smallDecompress, blockSize100k,
           heap, blockRandomised, tt, nblock_used, state_out_len, state_out_ch,
           calculatedBlockCRC, storedBlockCRC, calculatedCombinedCRC, source,
           pos, out>>
  BY DEF BZ2_bzDecompress, lifeVars, blockVars, runVars, crcVars
<1>2. \/ /\ ret' \in {"PARAM_ERROR", "SEQUENCE_ERROR"}
         /\ UNCHANGED <<pc, saved>>
      \/ /\ state = "OUTPUT" /\ pc' = "unRLE" /\ ret' = "none"
         /\ saved' = [Snapshot EXCEPT !.avail_out = ao]
      \/ state \in Parsing /\ pc' = "parse" /\ ret' = "none" /\ UNCHANGED saved
  BY DEF BZ2_bzDecompress
<1>3. [Snapshot EXCEPT !.avail_out = ao]
        = [avail_out |-> ao, out |-> out, nblock_used |-> nblock_used,
           len |-> state_out_len, ch |-> state_out_ch, crc |-> calculatedBlockCRC]
  BY DEF Snapshot
<1>4. TypeOK'
  <2>1. StrmType'
    BY <1>0, <1>1 DEF TypeOK, StrmType
  <2>2. ControlType'
    BY <1>0, <1>1, <1>2 DEF TypeOK, ControlType, Codes
  <2>3. BlockType'
    BY <1>0, <1>1 DEF TypeOK, BlockType
  <2>4. SavedType'
    <3>1. /\ ao \in Nat /\ out \in Seq(Bytes) /\ nblock_used \in Nat
          /\ state_out_len \in 0..259 /\ state_out_ch \in Bytes
          /\ calculatedBlockCRC \in Seq(Bytes)
      BY <1>0 DEF TypeOK, StrmType, BlockType
    <3>2. [Snapshot EXCEPT !.avail_out = ao]
            \in [avail_out : Nat, out : Seq(Bytes), nblock_used : Nat,
                 len : 0..259, ch : Bytes, crc : Seq(Bytes)]
      BY <1>3, <3>1, SMTT(30)
    <3> QED BY <1>0, <1>2, <3>2 DEF TypeOK, SavedType
  <2> QED BY <2>1, <2>2, <2>3, <2>4 DEF TypeOK
<1>5. CallInv'
  BY <1>0, <1>1, <1>2 DEF CallInv, Parsing
<1>6. CopyInv'
  <2>1. ao \in Nat /\ ao < WordSize /\ Len(out) \in Nat
    BY <1>0, LenProperties DEF TypeOK, StrmType
  <2>2. CASE state = "OUTPUT" /\ pc' = "unRLE"
    <3>1. /\ saved'.avail_out = ao /\ saved'.out = out
          /\ saved'.nblock_used = nblock_used
      BY <1>1, <1>2, <1>3, <2>2 DEF Parsing
    <3>2. nblock_used \in 1..(nblock + 2)
      BY <1>0, <2>2 DEF BlockInTable
    <3>3. Value(total_out) = Len(out)
      BY <1>0, <1>1, <2>2 DEF CopyInv
    <3> QED BY <1>1, <2>1, <2>2, <3>1, <3>2, <3>3 DEF CopyInv, nblock
  <2>3. CASE ~(state = "OUTPUT" /\ pc' = "unRLE")
    BY <1>0, <1>1, <1>2, <2>3 DEF CopyInv
  <2> QED BY <2>2, <2>3
<1>7. BlockInTable' /\ Allocated'
  BY <1>0, <1>1 DEF BlockInTable, Allocated, nblock, nblockMAX, Needed
<1> QED BY <1>4, <1>5, <1>6, <1>7 DEF IInv

LEMMA EndStep ==
  ASSUME IInv, BZ2_bzDecompressEnd
  PROVE  IInv'
<1>0. TypeOK /\ CallInv /\ CopyInv /\ BlockInTable /\ Allocated
  BY DEF IInv
<1>1. CASE EndNothing
  <2>1. /\ ret' = "PARAM_ERROR" /\ pc = "client"
        /\ UNCHANGED <<avail_in, total_in, pos, source, avail_out, total_out, out,
             state, smallDecompress, blockSize100k, heap, blockRandomised, tt,
             nblock_used, state_out_len, state_out_ch, calculatedBlockCRC,
             storedBlockCRC, calculatedCombinedCRC, pc, saved>>
    BY <1>1 DEF BZ2_bzDecompressEnd, EndNothing, inVars, outVars, lifeVars,
                blockVars, runVars, crcVars
  <2>2. TypeOK'
    BY <1>0, <2>1 DEF TypeOK, StrmType, ControlType, BlockType, SavedType, Codes
  <2>3. CallInv' /\ CopyInv'
    BY <1>0, <2>1 DEF CallInv, CopyInv, nblock, Fast
  <2>4. BlockInTable' /\ Allocated'
    BY <1>0, <2>1 DEF BlockInTable, Allocated, nblock, nblockMAX, Needed
  <2> QED BY <2>2, <2>3, <2>4 DEF IInv
<1>2. CASE EndStream
  <2>1. /\ pc = "client" /\ heap' = heap \ (Tables \cup {"DState"})
        /\ state' = "NONE" /\ smallDecompress' = FALSE /\ blockSize100k' = 0
        /\ blockRandomised' = FALSE /\ tt' = <<>>
        /\ nblock_used' = 0 /\ state_out_len' = 0 /\ state_out_ch' = 0
        /\ storedBlockCRC' = <<>> /\ calculatedBlockCRC' = <<>>
        /\ calculatedCombinedCRC' = <<>>
        /\ ret' = "OK" /\ source' = <<>> /\ pos' = 0 /\ out' = <<>>
        /\ UNCHANGED <<avail_in, avail_out, total_in, total_out, pc, saved>>
    BY <1>2 DEF BZ2_bzDecompressEnd, EndStream
  <2>2. heap' = {}
    BY <1>0, <2>1 DEF TypeOK, ControlType
  <2>3. TypeOK'
    <3>1. StrmType'
      BY <1>0, <2>1, Empties DEF TypeOK, StrmType
    <3>2. ControlType'
      <4>1. ret' \in Codes
        BY <2>1 DEF Codes
      <4>2. heap' \subseteq Tables \cup {"DState"} /\ 0 \in 0..9
        BY <2>2
      <4> QED BY <1>0, <2>1, <4>1, <4>2 DEF TypeOK, ControlType
    <3>3. BlockType'
      BY <1>0, <2>1, Empties DEF TypeOK, BlockType, Bytes
    <3>4. SavedType'
      BY <1>0, <2>1 DEF TypeOK, SavedType
    <3> QED BY <3>1, <3>2, <3>3, <3>4 DEF TypeOK
  <2>4. CallInv' /\ CopyInv'
    BY <2>1 DEF CallInv, CopyInv
  <2>5. BlockInTable' /\ Allocated'
    BY <2>1, <2>2 DEF BlockInTable, Allocated
  <2> QED BY <2>3, <2>4, <2>5 DEF IInv
<1> QED BY <1>1, <1>2 DEF BZ2_bzDecompressEnd

------------------------------------------------------------------------------
(* BZ2_decompress. *)

(* A token taken is a token of the input, and is counted. *)
LEMMA TakeStep ==
  ASSUME TypeOK, CallInv, pc = "parse", Take
  PROVE  /\ Next_token \in Token
         /\ avail_in' \in Nat /\ total_in' \in Counter /\ pos' \in 0..Len(source)
         /\ pos' + avail_in' <= Len(source) /\ Value(total_in') = pos'
<1>1. /\ avail_in \in Nat /\ avail_in > 0 /\ total_in \in Counter /\ pos \in Nat
      /\ source \in Seq(Token) /\ Len(source) \in Nat
      /\ pos + avail_in <= Len(source)
      /\ Value(total_in) = pos
  BY LenProperties DEF TypeOK, StrmType, CallInv, Take, Parsing
<1>2. /\ avail_in' = avail_in - 1 /\ pos' = pos + 1
      /\ total_in' = Advance(total_in, 1)
  BY DEF Take
<1>3. Advance(total_in, 1) \in Counter /\ Value(Advance(total_in, 1)) = Value(total_in) + 1
  BY <1>1, AdvanceExact
<1>4. pos + 1 \in 1..Len(source)
  BY <1>1
<1>5. Next_token \in Token
  BY <1>1, <1>4, ElementOfSeq DEF Next_token
<1> QED BY <1>1, <1>2, <1>3, <1>5

(* What the steps of BZ2_decompress outside a block's data have in common. *)
LEMMA ParseStep ==
  ASSUME TypeOK, CallInv, CopyInv, pc = "parse",
         avail_in' \in Nat, total_in' \in Counter, pos' \in 0..Len(source),
         pos' + avail_in' <= Len(source), Value(total_in') = pos',
         UNCHANGED <<source, outVars, smallDecompress, blockVars, runVars>>,
         state' \in Parsing \cup {"IDLE"}, blockSize100k' \in 0..9,
         heap' \subseteq Tables \cup {"DState"}, "DState" \in heap',
         storedBlockCRC' \in Seq(Bytes), calculatedCombinedCRC' \in Seq(Seq(Bytes)),
         \/ Stay /\ state' \in Parsing
         \/ pc' = "client" /\ ret' \in Codes /\ saved' = NoSnapshot
  PROVE  TypeOK' /\ CallInv' /\ CopyInv' /\ BlockInTable'
<1>1. UNCHANGED <<source, avail_out, total_out, out, smallDecompress,
        blockRandomised, tt, nblock_used, state_out_len, state_out_ch,
        calculatedBlockCRC>>
  BY DEF outVars, blockVars, runVars
<1>2. \/ UNCHANGED <<pc, ret, saved>> /\ state' \in Parsing
      \/ pc' = "client" /\ ret' \in Codes /\ saved' = NoSnapshot
  BY DEF Stay
<1>3. state' # "NONE" /\ state' # "OUTPUT" /\ state # "NONE" /\ state # "OUTPUT"
  BY DEF Parsing, CallInv
<1>4. TypeOK'
  <2>1. StrmType'
    BY <1>1 DEF TypeOK, StrmType
  <2>2. ControlType'
    <3>1. ret' \in Codes /\ pc' \in {"client", "parse", "unRLE"}
      BY <1>2 DEF TypeOK, ControlType
    <3>2. state' \in Parsing \cup {"NONE", "OUTPUT", "IDLE"}
      OBVIOUS
    <3>3. smallDecompress' \in BOOLEAN /\ blockRandomised' \in BOOLEAN
      BY <1>1 DEF TypeOK, ControlType
    <3> QED BY <3>1, <3>2, <3>3 DEF ControlType
  <2>3. BlockType'
    BY <1>1 DEF TypeOK, BlockType
  <2>4. SavedType'
    BY <1>2, NoSnapshotType DEF TypeOK, SavedType
  <2> QED BY <2>1, <2>2, <2>3, <2>4 DEF TypeOK
<1>5. CallInv'
  <2>1. pc' = "parse" => state' \in Parsing
    BY <1>2
  <2>2. pc' # "client" => pc' = "parse" /\ ret' = "none"
    BY <1>2 DEF CallInv
  <2>3. pos' + avail_in' <= Len(source') /\ (pc' # "client" => avail_out' < WordSize)
    BY <1>1, <1>2 DEF CallInv
  <2> QED BY <1>3, <2>1, <2>2, <2>3 DEF CallInv
<1>6. CopyInv'
  <2>1. Value(total_out) = Len(out)
    BY <1>3 DEF CopyInv
  <2> QED BY <1>1, <1>3, <2>1 DEF CopyInv
<1>7. BlockInTable'
  BY <1>3 DEF BlockInTable
<1> QED BY <1>4, <1>5, <1>6, <1>7

LEMMA NeedInputStep ==
  ASSUME IInv, NeedInput
  PROVE  IInv'
<1>0. TypeOK /\ CallInv /\ CopyInv /\ BlockInTable /\ Allocated
  BY DEF IInv
<1>1. /\ pc = "parse" /\ pc' = "client" /\ ret' = "OK" /\ saved' = NoSnapshot
      /\ UNCHANGED <<avail_in, total_in, pos, source, outVars, state, smallDecompress,
           blockSize100k, heap, blockVars, runVars, storedBlockCRC,
           calculatedCombinedCRC>>
  BY DEF NeedInput, Give, inVars, lifeVars, crcVars
<1>2. /\ avail_in \in Nat /\ total_in \in Counter /\ pos \in 0..Len(source)
      /\ pos + avail_in <= Len(source) /\ Value(total_in) = pos
      /\ state \in Parsing /\ "DState" \in heap
  BY <1>0, <1>1 DEF TypeOK, StrmType, CallInv, Parsing
<1>3. /\ blockSize100k \in 0..9 /\ heap \subseteq Tables \cup {"DState"}
      /\ storedBlockCRC \in Seq(Bytes) /\ calculatedCombinedCRC \in Seq(Seq(Bytes))
      /\ "OK" \in Codes
  BY <1>0 DEF TypeOK, ControlType, BlockType, Codes
<1>4. TypeOK' /\ CallInv' /\ CopyInv' /\ BlockInTable'
  BY <1>0, <1>1, <1>2, <1>3, ParseStep
<1>5. Allocated'
  BY <1>0, <1>1 DEF Allocated, Needed
<1> QED BY <1>4, <1>5 DEF IInv

(* The four steps that take a token outside a block's data. *)
LEMMA ReadMagicStep ==
  ASSUME IInv, ReadMagic
  PROVE  IInv'
<1>0. TypeOK /\ CallInv /\ CopyInv /\ BlockInTable /\ Allocated
  BY DEF IInv
<1>1. /\ pc = "parse" /\ state = "MAGIC" /\ Take
      /\ \/ state' = "LEVEL" /\ Stay
         \/ Give("DATA_ERROR_MAGIC") /\ state' = state
      /\ UNCHANGED <<source, outVars, smallDecompress, blockSize100k, heap,
           blockVars, runVars, storedBlockCRC, calculatedCombinedCRC>>
  BY DEF ReadMagic, Take, crcVars
<1>2. /\ blockSize100k \in 0..9 /\ heap \subseteq Tables \cup {"DState"}
      /\ storedBlockCRC \in Seq(Bytes) /\ calculatedCombinedCRC \in Seq(Seq(Bytes))
      /\ "DState" \in heap
  BY <1>0, <1>1 DEF TypeOK, ControlType, BlockType, CallInv
<1>3. /\ state' \in Parsing
      /\ \/ Stay /\ state' \in Parsing
         \/ pc' = "client" /\ ret' \in Codes /\ saved' = NoSnapshot
  BY <1>1 DEF Give, Codes, Errors, Parsing
<1>4. /\ avail_in' \in Nat /\ total_in' \in Counter /\ pos' \in 0..Len(source)
      /\ pos' + avail_in' <= Len(source) /\ Value(total_in') = pos'
  BY <1>0, <1>1, TakeStep
<1>5. TypeOK' /\ CallInv' /\ CopyInv' /\ BlockInTable'
  BY <1>0, <1>1, <1>2, <1>3, <1>4, ParseStep
<1>6. Allocated'
  BY <1>0, <1>1 DEF Allocated, Needed
<1> QED BY <1>5, <1>6 DEF IInv

LEMMA ReadLevelStep ==
  ASSUME IInv, NEW got \in SUBSET Tables, ReadLevel(got)
  PROVE  IInv'
<1>0. TypeOK /\ CallInv /\ CopyInv /\ BlockInTable /\ Allocated
  BY DEF IInv
<1>1. /\ pc = "parse" /\ state = "LEVEL" /\ Take /\ got \subseteq Needed
      /\ UNCHANGED <<source, outVars, smallDecompress, blockVars, runVars,
           storedBlockCRC, calculatedCombinedCRC>>
      /\ \/ /\ Give("DATA_ERROR_MAGIC")
            /\ UNCHANGED <<state, blockSize100k, heap>>
         \/ /\ IsLevel(Next_token)
            /\ blockSize100k' = Next_token[2][1]
            /\ heap' = heap \cup got
            /\ \/ got = Needed /\ state' = "BLKHDR" /\ Stay
               \/ Give("MEM_ERROR") /\ state' = state
  BY DEF ReadLevel, Take, crcVars
<1>2. /\ heap \subseteq Tables \cup {"DState"} /\ "DState" \in heap
      /\ heap \subseteq {"DState"} \cup Needed
      /\ storedBlockCRC \in Seq(Bytes) /\ calculatedCombinedCRC \in Seq(Seq(Bytes))
      /\ blockSize100k \in 0..9
  BY <1>0, <1>1 DEF TypeOK, ControlType, BlockType, CallInv, Allocated
<1>3. blockSize100k' \in 0..9
  <2>1. ASSUME IsLevel(Next_token) PROVE Next_token[2][1] \in 0..9
    BY <2>1 DEF IsLevel
  <2> QED BY <1>1, <1>2, <2>1
<1>4. heap' \subseteq Tables \cup {"DState"} /\ "DState" \in heap'
  BY <1>1, <1>2
<1>5. /\ state' \in Parsing
      /\ \/ Stay /\ state' \in Parsing
         \/ pc' = "client" /\ ret' \in Codes /\ saved' = NoSnapshot
  BY <1>1 DEF Give, Codes, Errors, Parsing
<1>6. /\ avail_in' \in Nat /\ total_in' \in Counter /\ pos' \in 0..Len(source)
      /\ pos' + avail_in' <= Len(source) /\ Value(total_in') = pos'
  BY <1>0, <1>1, TakeStep
<1>7. TypeOK' /\ CallInv' /\ CopyInv' /\ BlockInTable'
  BY <1>0, <1>1, <1>2, <1>3, <1>4, <1>5, <1>6, ParseStep
<1>8. Allocated'
  <2>1. Needed' = Needed
    BY <1>1 DEF Needed
  <2>2. CASE state' = "LEVEL"
    BY <1>1, <1>2, <2>1, <2>2 DEF Allocated
  <2>3. CASE state' = "BLKHDR"
    BY <1>1, <1>2, <2>1, <2>3 DEF Allocated
  <2> QED BY <1>1, <2>2, <2>3
<1> QED BY <1>7, <1>8 DEF IInv

LEMMA ReadBlockHeaderStep ==
  ASSUME IInv, ReadBlockHeader
  PROVE  IInv'
<1>0. TypeOK /\ CallInv /\ CopyInv /\ BlockInTable /\ Allocated
  BY DEF IInv
<1>1. /\ pc = "parse" /\ state = "BLKHDR" /\ Take
      /\ UNCHANGED <<source, outVars, smallDecompress, blockSize100k, heap,
           blockVars, runVars, calculatedCombinedCRC>>
      /\ \/ /\ Next_token[1] = "block" /\ storedBlockCRC' = Next_token[2]
            /\ state' = "DATA" /\ Stay
         \/ state' = "ENDHDR" /\ Stay /\ UNCHANGED storedBlockCRC
         \/ Give("DATA_ERROR") /\ UNCHANGED <<state, storedBlockCRC>>
  BY DEF ReadBlockHeader, Take
<1>2. /\ blockSize100k \in 0..9 /\ heap \subseteq Tables \cup {"DState"}
      /\ storedBlockCRC \in Seq(Bytes) /\ calculatedCombinedCRC \in Seq(Seq(Bytes))
      /\ "DState" \in heap
  BY <1>0, <1>1 DEF TypeOK, ControlType, BlockType, CallInv
<1>3. /\ state' \in Parsing
      /\ \/ Stay /\ state' \in Parsing
         \/ pc' = "client" /\ ret' \in Codes /\ saved' = NoSnapshot
  BY <1>1 DEF Give, Codes, Errors, Parsing
<1>4. /\ avail_in' \in Nat /\ total_in' \in Counter /\ pos' \in 0..Len(source)
      /\ pos' + avail_in' <= Len(source) /\ Value(total_in') = pos'
      /\ Next_token \in Token
  BY <1>0, <1>1, TakeStep
<1>5. storedBlockCRC' \in Seq(Bytes)
  BY <1>1, <1>2, <1>4, TokenValue
<1>6. TypeOK' /\ CallInv' /\ CopyInv' /\ BlockInTable'
  BY <1>0, <1>1, <1>2, <1>3, <1>4, <1>5, ParseStep
<1>7. Allocated'
  BY <1>0, <1>1 DEF Allocated, Needed
<1> QED BY <1>6, <1>7 DEF IInv

LEMMA ReadStreamCRCStep ==
  ASSUME IInv, ReadStreamCRC
  PROVE  IInv'
<1>0. TypeOK /\ CallInv /\ CopyInv /\ BlockInTable /\ Allocated
  BY DEF IInv
<1>1. /\ pc = "parse" /\ state = "ENDHDR" /\ Take /\ state' = "IDLE"
      /\ pc' = "client" /\ saved' = NoSnapshot /\ ret' \in {"STREAM_END", "DATA_ERROR"}
      /\ UNCHANGED <<source, outVars, smallDecompress, blockSize100k, heap,
           blockVars, runVars, storedBlockCRC, calculatedCombinedCRC>>
  BY DEF ReadStreamCRC, Take, Give, crcVars
<1>2. /\ blockSize100k \in 0..9 /\ heap \subseteq Tables \cup {"DState"}
      /\ storedBlockCRC \in Seq(Bytes) /\ calculatedCombinedCRC \in Seq(Seq(Bytes))
      /\ "DState" \in heap
  BY <1>0, <1>1 DEF TypeOK, ControlType, BlockType, CallInv
<1>3. ret' \in Codes
  BY <1>1 DEF Codes, Errors
<1>4. /\ avail_in' \in Nat /\ total_in' \in Counter /\ pos' \in 0..Len(source)
      /\ pos' + avail_in' <= Len(source) /\ Value(total_in') = pos'
  BY <1>0, <1>1, TakeStep
<1>5. TypeOK' /\ CallInv' /\ CopyInv' /\ BlockInTable'
  BY <1>0, <1>1, <1>2, <1>3, <1>4, ParseStep
<1>6. Allocated'
  BY <1>0, <1>1 DEF Allocated, Needed
<1> QED BY <1>5, <1>6 DEF IInv

LEMMA ReadBlockDataStep ==
  ASSUME IInv, ReadBlockData
  PROVE  IInv'
<1>0. TypeOK /\ CallInv /\ CopyInv /\ BlockInTable /\ Allocated
  BY DEF IInv
<1>1. /\ pc = "parse" /\ state = "DATA" /\ Take
      /\ UNCHANGED <<source, avail_out, total_out, out, smallDecompress,
           blockSize100k, heap, storedBlockCRC, calculatedCombinedCRC>>
  BY DEF ReadBlockData, Take, outVars, crcVars
<1>2. /\ blockSize100k \in 0..9 /\ heap \subseteq Tables \cup {"DState"}
      /\ storedBlockCRC \in Seq(Bytes) /\ calculatedCombinedCRC \in Seq(Seq(Bytes))
      /\ "DState" \in heap
  BY <1>0, <1>1 DEF TypeOK, ControlType, BlockType, CallInv
<1>3. /\ avail_in' \in Nat /\ total_in' \in Counter /\ pos' \in 0..Len(source)
      /\ pos' + avail_in' <= Len(source) /\ Value(total_in') = pos'
      /\ Next_token \in Token
  BY <1>0, <1>1, TakeStep
<1>4. CASE /\ Give("DATA_ERROR")
           /\ UNCHANGED <<state, blockVars, runVars>>
  <2>1. /\ state' \in Parsing
        /\ pc' = "client" /\ ret' \in Codes /\ saved' = NoSnapshot
    BY <1>1, <1>4 DEF Give, Codes, Errors, Parsing
  <2>2. TypeOK' /\ CallInv' /\ CopyInv' /\ BlockInTable'
    <3>1. UNCHANGED outVars
      BY <1>1 DEF outVars
    <3> QED BY <1>0, <1>1, <1>2, <1>3, <1>4, <2>1, <3>1, ParseStep
  <2>3. Allocated'
    BY <1>0, <1>1, <1>4 DEF Allocated, Needed
  <2> QED BY <2>2, <2>3 DEF IInv
<1>5. CASE /\ BlockAcceptable(Next_token)
           /\ blockRandomised' = (Next_token[1] = "rdata")
           /\ tt' = Next_token[2]
           /\ state_out_len' = 0 /\ state_out_ch' = 0
           /\ calculatedBlockCRC' = <<>>
           /\ nblock_used' = 1
           /\ state' = "OUTPUT"
           /\ pc' = "unRLE"
           /\ saved' = [avail_out |-> avail_out, out |-> out, nblock_used |-> 1,
                        len |-> 0, ch |-> 0, crc |-> <<>>]
           /\ UNCHANGED ret
  <2>1. tt' \in Seq(Bytes) /\ Len(tt') \in Nat /\ Len(tt') >= 1 /\ Len(tt') <= nblockMAX
    <3>1. Next_token[1] # "crc" /\ Next_token[2] # <<>> /\ Len(Next_token[2]) <= nblockMAX
      BY <1>5 DEF BlockAcceptable, DataKinds
    <3>2. Next_token[2] \in Seq(Bytes)
      BY <1>3, <3>1, TokenValue
    <3>3. tt' \in Seq(Bytes) /\ tt' # <<>> /\ Len(tt') <= nblockMAX
      BY <1>5, <3>1, <3>2
    <3>4. Len(tt') \in Nat /\ Len(tt') # 0
      BY <3>3, LenProperties, EmptySeq
    <3> QED BY <3>3, <3>4
  <2>2. /\ avail_out \in Nat /\ out \in Seq(Bytes) /\ total_out \in Counter
        /\ Len(out) \in Nat /\ 0 \in Bytes /\ <<>> \in Seq(Bytes)
    BY <1>0, LenProperties, Empties DEF TypeOK, StrmType, Bytes
  <2>3. TypeOK'
    <3>1. StrmType'
      BY <1>0, <1>1, <1>3 DEF TypeOK, StrmType
    <3>2. ControlType'
      <4>1. blockRandomised' \in BOOLEAN
        BY <1>5
      <4>2. state' \in Parsing \cup {"NONE", "OUTPUT", "IDLE"}
        BY <1>5
      <4>3. pc' \in {"client", "parse", "unRLE"}
        BY <1>5
      <4> QED BY <1>0, <1>1, <1>5, <4>1, <4>2, <4>3 DEF TypeOK, ControlType
    <3>3. BlockType'
      BY <1>1, <1>2, <1>5, <2>1, <2>2 DEF BlockType
    <3>4. SavedType'
      <4>1. [avail_out |-> avail_out, out |-> out, nblock_used |-> 1,
             len |-> 0, ch |-> 0, crc |-> <<>>]
              \in [avail_out : Nat, out : Seq(Bytes), nblock_used : Nat,
                   len : 0..259, ch : Bytes, crc : Seq(Bytes)]
        BY <2>2
      <4> QED BY <1>5, <4>1 DEF SavedType
    <3> QED BY <3>1, <3>2, <3>3, <3>4 DEF TypeOK
  <2>4. CallInv'
    BY <1>0, <1>1, <1>2, <1>3, <1>5 DEF CallInv
  <2>5. CopyInv'
    <3>1. Value(total_out) = Len(out)
      BY <1>0, <1>1 DEF CopyInv
    <3>2. avail_out < WordSize
      BY <1>0, <1>1 DEF CallInv
    <3>3. saved'.avail_out = avail_out /\ saved'.out = out /\ saved'.nblock_used = 1
      BY <1>5
    <3>4. 1 \in 1..(Len(tt') + 2)
      BY <2>1
    <3> QED BY <1>1, <2>2, <3>1, <3>2, <3>3, <3>4 DEF CopyInv, nblock
  <2>6. BlockInTable'
    <3>1. nblockMAX' = nblockMAX
      BY <1>1 DEF nblockMAX
    <3>2. nblockMAX \in Nat
      BY <1>2 DEF nblockMAX
    <3> QED BY <1>5, <2>1, <3>1, <3>2 DEF BlockInTable, nblock
  <2>7. Allocated'
    BY <1>0, <1>1, <1>5 DEF Allocated, Needed
  <2> QED BY <2>3, <2>4, <2>5, <2>6, <2>7 DEF IInv
<1> QED BY <1>4, <1>5 DEF ReadBlockData

------------------------------------------------------------------------------
(* The output functions. *)

(* What they find and leave alone. *)
LEMMA OutputFrame ==
  ASSUME IInv, pc = "unRLE"
  PROVE  /\ state = "OUTPUT" /\ ret = "none" /\ "DState" \in heap
         /\ pos + avail_in <= Len(source) /\ avail_out < WordSize
         /\ Value(total_in) = pos
         /\ tt \in Seq(Bytes) /\ nblock \in Nat /\ nblock >= 1 /\ nblock <= nblockMAX
         /\ nblock_used \in 1..(nblock + 2)
         /\ avail_out \in Nat /\ out \in Seq(Bytes) /\ Len(out) \in Nat
         /\ saved.avail_out \in Nat /\ saved.out \in Seq(Bytes)
         /\ Len(saved.out) \in Nat
         /\ avail_out <= saved.avail_out /\ saved.avail_out < WordSize
         /\ saved.nblock_used \in 1..(nblock + 2)
         /\ Len(out) + avail_out = Len(saved.out) + saved.avail_out
         /\ Value(total_out) = IF Fast THEN Len(saved.out) ELSE Len(out)
<1>1. state = "OUTPUT"
  BY DEF IInv, CallInv
<1>2. saved.avail_out \in Nat /\ saved.out \in Seq(Bytes)
  BY DEF IInv, TypeOK, SavedType
<1>3. tt \in Seq(Bytes) /\ avail_out \in Nat /\ out \in Seq(Bytes)
  BY DEF IInv, TypeOK, StrmType, BlockType
<1>4. nblock \in Nat /\ Len(out) \in Nat /\ Len(saved.out) \in Nat
  BY <1>2, <1>3, LenProperties DEF nblock
<1>5. nblock >= 1 /\ nblock <= nblockMAX /\ nblock_used \in 1..(nblock + 2)
  BY <1>1, <1>4 DEF IInv, BlockInTable
<1> QED BY <1>1, <1>2, <1>3, <1>4, <1>5 DEF IInv, CallInv, CopyInv

LEMMA PutByteStep ==
  ASSUME IInv, PutByte
  PROVE  IInv'
<1>0. TypeOK /\ CallInv /\ CopyInv /\ BlockInTable /\ Allocated
  BY DEF IInv
<1>1. /\ pc = "unRLE" /\ state_out_len > 0 /\ avail_out > 0
      /\ out' = Append(out, state_out_ch)
      /\ calculatedBlockCRC' = Append(calculatedBlockCRC, state_out_ch)
      /\ state_out_len' = state_out_len - 1 /\ avail_out' = avail_out - 1
      /\ total_out' = IF Fast THEN total_out ELSE Advance(total_out, 1)
      /\ UNCHANGED <<avail_in, total_in, pos, source, state, smallDecompress,
           blockSize100k, heap, blockRandomised, tt, nblock_used, state_out_ch,
           storedBlockCRC, calculatedCombinedCRC, pc, saved, ret>>
  BY DEF PutByte, inVars, lifeVars, blockVars, crcVars
<1>2. /\ state = "OUTPUT" /\ avail_out \in Nat /\ out \in Seq(Bytes) /\ Len(out) \in Nat
      /\ avail_out < WordSize /\ saved.avail_out \in Nat /\ Len(saved.out) \in Nat
      /\ avail_out <= saved.avail_out /\ saved.avail_out < WordSize
      /\ saved.nblock_used \in 1..(nblock + 2)
      /\ Len(out) + avail_out = Len(saved.out) + saved.avail_out
      /\ Value(total_out) = IF Fast THEN Len(saved.out) ELSE Len(out)
  BY <1>1, OutputFrame
<1>3. state_out_ch \in Bytes /\ total_out \in Counter
  BY <1>0 DEF TypeOK, StrmType, BlockType
<1>4. out' \in Seq(Bytes) /\ Len(out') = Len(out) + 1
  BY <1>1, <1>2, <1>3, AppendProperties
<1>5. /\ Advance(total_out, 1) \in Counter
      /\ Value(Advance(total_out, 1)) = Value(total_out) + 1
  BY <1>3, AdvanceExact
<1>6. Fast' = Fast /\ nblock' = nblock
  BY <1>1 DEF Fast, nblock
<1>7. TypeOK'
  <2>1. StrmType'
    <3>1. total_out' \in Counter /\ avail_out' \in Nat
      BY <1>1, <1>2, <1>3, <1>5
    <3> QED BY <1>0, <1>1, <1>4, <3>1 DEF TypeOK, StrmType
  <2>2. ControlType'
    BY <1>0, <1>1 DEF TypeOK, ControlType
  <2>3. BlockType'
    <3>1. calculatedBlockCRC' \in Seq(Bytes)
      BY <1>0, <1>1, <1>3, AppendProperties DEF TypeOK, BlockType
    <3>2. state_out_len' \in 0..259
      BY <1>0, <1>1 DEF TypeOK, BlockType
    <3> QED BY <1>0, <1>1, <3>1, <3>2 DEF TypeOK, BlockType
  <2>4. SavedType'
    BY <1>0, <1>1 DEF TypeOK, SavedType
  <2> QED BY <2>1, <2>2, <2>3, <2>4 DEF TypeOK
<1>8. CallInv'
  <2>1. avail_out' < WordSize
    BY <1>1, <1>2
  <2> QED BY <1>0, <1>1, <1>2, <2>1 DEF CallInv
<1>9. CopyInv'
  <2>1. /\ avail_out' <= saved.avail_out
        /\ Len(out') + avail_out' = Len(saved.out) + saved.avail_out
    BY <1>1, <1>2, <1>4
  <2>2. Value(total_out') = IF Fast THEN Len(saved.out) ELSE Len(out')
    BY <1>1, <1>2, <1>4, <1>5
  <2> QED BY <1>1, <1>2, <1>6, <2>1, <2>2 DEF CopyInv
<1>10. BlockInTable' /\ Allocated'
  BY <1>0, <1>1 DEF BlockInTable, Allocated, nblock, nblockMAX, Needed
<1> QED BY <1>7, <1>8, <1>9, <1>10 DEF IInv

(* A run is taken from at most three bytes, or five: never past the byte   *)
(* after the wrap-around.                                                  *)
LEMMA NewRunStep ==
  ASSUME IInv, NewRun
  PROVE  IInv'
<1>0. TypeOK /\ CallInv /\ CopyInv /\ BlockInTable /\ Allocated
  BY DEF IInv
<1>1. /\ pc = "unRLE" /\ nblock_used <= nblock /\ state_out_ch' = k0
      /\ UNCHANGED <<avail_in, total_in, pos, source, avail_out, total_out, out,
           state, smallDecompress, blockSize100k, heap, blockRandomised, tt,
           calculatedBlockCRC, storedBlockCRC, calculatedCombinedCRC, pc, saved, ret>>
  BY DEF NewRun, inVars, outVars, lifeVars, blockVars, crcVars
<1>2. /\ state = "OUTPUT" /\ tt \in Seq(Bytes) /\ nblock \in Nat /\ nblock >= 1
      /\ nblock_used \in 1..(nblock + 2)
  BY <1>1, OutputFrame
<1>3. state_out_ch' \in Bytes /\ BZ_GET(nblock_used + 4) \in Bytes
  <2>1. nblock_used \in Int /\ nblock_used + 4 \in Int
    BY <1>2
  <2> QED BY <1>1, <1>2, <2>1, GetByte DEF k0
<1>4. state_out_len' \in 0..259 /\ nblock_used' \in 1..(nblock + 2)
  <2>1. CASE \E n \in 1..3 :
               /\ \A j \in 1..(n - 1) : ~EndsRun(nblock_used + j)
               /\ state_out_len' = n
               /\ nblock_used' = nblock_used + n
    <3>1. PICK n \in 1..3 : /\ \A j \in 1..(n - 1) : ~EndsRun(nblock_used + j)
                            /\ state_out_len' = n
                            /\ nblock_used' = nblock_used + n
      BY <2>1
    <3>2. \A j \in 1..(n - 1) : nblock_used + j # nblock + 1
      BY <3>1 DEF EndsRun
    <3>3. nblock_used + n <= nblock + 1
      <4>1. n = 1 \/ n = 2 \/ n = 3
        OBVIOUS
      <4>2. CASE n = 1
        BY <1>1, <1>2, <4>2
      <4>3. CASE n = 2
        <5>1. nblock_used + 1 # nblock + 1
          BY <3>2, <4>3
        <5> QED BY <1>1, <1>2, <4>3, <5>1
      <4>4. CASE n = 3
        <5>1. nblock_used + 1 # nblock + 1 /\ nblock_used + 2 # nblock + 1
          BY <3>2, <4>4
        <5> QED BY <1>1, <1>2, <4>4, <5>1
      <4> QED BY <4>1, <4>2, <4>3, <4>4
    <3> QED BY <1>2, <3>1, <3>3
  <2>2. CASE /\ \A j \in 1..3 : ~EndsRun(nblock_used + j)
             /\ state_out_len' = BZ_GET(nblock_used + 4) + 4
             /\ nblock_used' = nblock_used + 5
    <3>1. /\ nblock_used + 1 # nblock + 1 /\ nblock_used + 2 # nblock + 1
          /\ nblock_used + 3 # nblock + 1
      BY <2>2 DEF EndsRun
    <3>2. nblock_used + 5 \in 1..(nblock + 2)
      BY <1>1, <1>2, <3>1
    <3>3. \A b \in Bytes : b + 4 \in 0..259
      BY DEF Bytes
    <3>4. BZ_GET(nblock_used + 4) + 4 \in 0..259
      BY <1>3, <3>3
    <3> QED BY <2>2, <3>2, <3>4
  <2> QED BY <2>1, <2>2 DEF NewRun
<1>5. TypeOK'
  <2>1. StrmType' /\ ControlType' /\ SavedType'
    BY <1>0, <1>1 DEF TypeOK, StrmType, ControlType, SavedType
  <2>2. BlockType'
    BY <1>0, <1>1, <1>2, <1>3, <1>4 DEF TypeOK, BlockType
  <2> QED BY <2>1, <2>2 DEF TypeOK
<1>6. CallInv' /\ CopyInv'
  BY <1>0, <1>1 DEF CallInv, CopyInv, Fast, nblock
<1>7. BlockInTable'
  <2>1. nblock' = nblock /\ nblockMAX' = nblockMAX
    BY <1>1 DEF nblock, nblockMAX
  <2> QED BY <1>0, <1>1, <1>4, <2>1 DEF BlockInTable
<1>8. Allocated'
  BY <1>0, <1>1 DEF Allocated, Needed
<1> QED BY <1>5, <1>6, <1>7, <1>8 DEF IInv

LEMMA OverrunStep ==
  ASSUME IInv, Overrun
  PROVE  IInv'
<1>0. TypeOK /\ CallInv /\ CopyInv /\ BlockInTable /\ Allocated
  BY DEF IInv
<1>1. /\ pc = "unRLE" /\ pc' = "client" /\ ret' = "DATA_ERROR" /\ saved' = NoSnapshot
      /\ UNCHANGED <<avail_in, total_in, pos, source, total_out, state,
           smallDecompress, blockSize100k, heap, blockRandomised, tt,
           storedBlockCRC, calculatedCombinedCRC>>
      /\ IF Fast
         THEN /\ avail_out' = saved.avail_out /\ out' = saved.out
              /\ nblock_used' = saved.nblock_used
              /\ state_out_len' = saved.len /\ state_out_ch' = saved.ch
              /\ calculatedBlockCRC' = saved.crc
         ELSE UNCHANGED <<avail_out, out, nblock_used, state_out_len, state_out_ch,
                          calculatedBlockCRC>>
  BY DEF Overrun, Give, inVars, lifeVars, blockVars, runVars, crcVars
<1>2. /\ state = "OUTPUT" /\ avail_out \in Nat /\ out \in Seq(Bytes)
      /\ saved.avail_out \in Nat /\ saved.out \in Seq(Bytes)
      /\ nblock \in Nat /\ nblock_used \in 1..(nblock + 2)
      /\ saved.nblock_used \in 1..(nblock + 2)
      /\ Value(total_out) = IF Fast THEN Len(saved.out) ELSE Len(out)
  BY <1>1, OutputFrame
<1>3. /\ saved.nblock_used \in Nat /\ saved.len \in 0..259 /\ saved.ch \in Bytes
      /\ saved.crc \in Seq(Bytes)
  BY <1>0 DEF TypeOK, SavedType
<1>4. /\ avail_out' \in Nat /\ out' \in Seq(Bytes) /\ nblock_used' \in Nat
      /\ state_out_len' \in 0..259 /\ state_out_ch' \in Bytes
      /\ calculatedBlockCRC' \in Seq(Bytes)
      /\ nblock_used' \in 1..(nblock + 2) /\ Value(total_out) = Len(out')
  <2> HIDE DEF nblock, Fast, Value
  <2>1. CASE Fast
    <3>1. /\ avail_out' = saved.avail_out /\ out' = saved.out
          /\ nblock_used' = saved.nblock_used
          /\ state_out_len' = saved.len /\ state_out_ch' = saved.ch
          /\ calculatedBlockCRC' = saved.crc /\ total_out' = total_out
      BY <1>1, <2>1
    <3>2. Value(total_out) = Len(saved.out)
      BY <1>2, <2>1
    <3> QED BY <1>2, <1>3, <3>1, <3>2
  <2>2. CASE ~Fast
    <3>1. /\ nblock_used \in Nat /\ state_out_len \in 0..259 /\ state_out_ch \in Bytes
          /\ calculatedBlockCRC \in Seq(Bytes)
      BY <1>0 DEF TypeOK, BlockType
    <3> QED BY <1>1, <1>2, <2>2, <3>1
  <2> QED BY <2>1, <2>2
<1>5. TypeOK'
  <2>1. StrmType'
    BY <1>0, <1>1, <1>4 DEF TypeOK, StrmType
  <2>2. ControlType'
    BY <1>0, <1>1 DEF TypeOK, ControlType, Codes, Errors
  <2>3. BlockType'
    BY <1>0, <1>1, <1>4 DEF TypeOK, BlockType
  <2>4. SavedType'
    BY <1>1, NoSnapshotType DEF SavedType
  <2> QED BY <2>1, <2>2, <2>3, <2>4 DEF TypeOK
<1>6. CallInv' /\ CopyInv'
  BY <1>0, <1>1, <1>2, <1>4 DEF CallInv, CopyInv
<1>7. BlockInTable'
  <2>1. nblock' = nblock /\ nblockMAX' = nblockMAX
    BY <1>1 DEF nblock, nblockMAX
  <2> QED BY <1>0, <1>1, <1>4, <2>1 DEF BlockInTable
<1>8. Allocated'
  BY <1>0, <1>1 DEF Allocated, Needed
<1> QED BY <1>5, <1>6, <1>7, <1>8 DEF IInv

LEMMA ReturnStep ==
  ASSUME IInv, ReturnNotCorrupt
  PROVE  IInv'
<1>0. TypeOK /\ CallInv /\ CopyInv /\ BlockInTable /\ Allocated
  BY DEF IInv
<1>1. /\ pc = "unRLE" /\ saved' = NoSnapshot
      /\ UNCHANGED <<avail_in, total_in, pos, source, avail_out, out,
           smallDecompress, blockSize100k, heap, blockRandomised, tt,
           nblock_used, state_out_len, state_out_ch, calculatedBlockCRC,
           storedBlockCRC>>
      /\ total_out' = IF Fast THEN Advance(total_out, saved.avail_out - avail_out)
                              ELSE total_out
      /\ \/ /\ pc' = "client" /\ ret' \in {"OK", "DATA_ERROR"}
            /\ UNCHANGED <<state, calculatedCombinedCRC>>
         \/ /\ pc' = "parse" /\ ret' = ret /\ state' = "BLKHDR"
            /\ calculatedCombinedCRC'
                 = Append(calculatedCombinedCRC, calculatedBlockCRC)
  BY DEF ReturnNotCorrupt, Give, inVars, lifeVars, blockVars, runVars
<1>2. /\ state = "OUTPUT" /\ avail_out \in Nat /\ out \in Seq(Bytes) /\ Len(out) \in Nat
      /\ saved.avail_out \in Nat /\ saved.out \in Seq(Bytes) /\ Len(saved.out) \in Nat
      /\ avail_out <= saved.avail_out /\ saved.avail_out < WordSize
      /\ Len(out) + avail_out = Len(saved.out) + saved.avail_out
      /\ Value(total_out) = IF Fast THEN Len(saved.out) ELSE Len(out)
      /\ ret = "none"
  BY <1>1, OutputFrame
<1>3. total_out' \in Counter /\ Value(total_out') = Len(out)
  <2> DEFINE n == saved.avail_out - avail_out
  <2>1. n \in Nat /\ n < WordSize /\ Len(out) = Len(saved.out) + n
    <3> DEFINE room == saved.avail_out  before == Len(saved.out)  after == Len(out)
    <3>1. /\ room \in Nat /\ before \in Nat /\ after \in Nat /\ avail_out \in Nat
          /\ avail_out <= room /\ room < WordSize /\ after + avail_out = before + room
      BY <1>2
    <3> HIDE DEF room, before, after
    <3>2. /\ room - avail_out \in Nat /\ room - avail_out < WordSize
          /\ after = before + (room - avail_out)
      BY <3>1
    <3> QED BY <3>2 DEF room, before, after
  <2>2. total_out \in Counter /\ Value(total_out) \in Nat
    BY <1>0, <1>2 DEF TypeOK, StrmType
  <2> HIDE DEF n
  <2>3. /\ Advance(total_out, n) \in Counter
        /\ Value(Advance(total_out, n)) = Value(total_out) + n
    BY <2>1, <2>2, AdvanceExact
  <2>4. total_out' = IF Fast THEN Advance(total_out, n) ELSE total_out
    BY <1>1 DEF n
  <2> QED BY <1>2, <2>1, <2>2, <2>3, <2>4
<1>4. calculatedCombinedCRC' \in Seq(Seq(Bytes))
  <2>1. /\ calculatedCombinedCRC \in Seq(Seq(Bytes))
        /\ calculatedBlockCRC \in Seq(Bytes)
    BY <1>0 DEF TypeOK, BlockType
  <2>2. Append(calculatedCombinedCRC, calculatedBlockCRC) \in Seq(Seq(Bytes))
    BY <2>1, AppendProperties
  <2> QED BY <1>1, <2>1, <2>2
<1>5. state' \in {"OUTPUT", "BLKHDR"} /\ (pc' # "client" => state' = "BLKHDR")
  BY <1>1, <1>2
<1>6. TypeOK'
  <2>1. StrmType'
    BY <1>0, <1>1, <1>3 DEF TypeOK, StrmType
  <2>2. ControlType'
    <3>1. /\ ret' \in Codes /\ pc' \in {"client", "parse", "unRLE"}
          /\ state' \in Parsing \cup {"NONE", "OUTPUT", "IDLE"}
      BY <1>1, <1>2, <1>5 DEF Codes, Errors, Parsing
    <3> QED BY <1>0, <1>1, <3>1 DEF TypeOK, ControlType
  <2>3. BlockType'
    BY <1>0, <1>1, <1>4 DEF TypeOK, BlockType
  <2>4. SavedType'
    BY <1>1, NoSnapshotType DEF SavedType
  <2> QED BY <2>1, <2>2, <2>3, <2>4 DEF TypeOK
<1>7. CallInv'
  BY <1>0, <1>1, <1>2, <1>5 DEF CallInv, Parsing
<1>8. CopyInv'
  <2>1. ~(pc' = "unRLE")
    BY <1>1
  <2> QED BY <1>1, <1>3, <2>1 DEF CopyInv
<1>9. BlockInTable' /\ Allocated'
  BY <1>0, <1>1, <1>2, <1>5 DEF BlockInTable, Allocated, nblock, nblockMAX, Needed
<1> QED BY <1>6, <1>7, <1>8, <1>9 DEF IInv

------------------------------------------------------------------------------
LEMMA StutterStep == IInv /\ UNCHANGED vars => IInv'
<1> SUFFICES ASSUME IInv, UNCHANGED vars PROVE IInv'
  OBVIOUS
<1>1. TypeOK'
  BY DEF IInv, vars, TypeOK, StrmType, ControlType, BlockType, SavedType
<1>2. CallInv' /\ CopyInv'
  BY DEF IInv, vars, CallInv, CopyInv, Fast, nblock
<1>3. BlockInTable' /\ Allocated'
  BY DEF IInv, vars, BlockInTable, Allocated, nblock, nblockMAX, Needed
<1> QED BY <1>1, <1>2, <1>3 DEF IInv

(* IInv holds in every reachable state of the decompressor. *)
THEOREM Inductive == Spec => []IInv
<1>1. IInv /\ [Next]_vars => IInv'
  <2> SUFFICES ASSUME IInv, [Next]_vars PROVE IInv'
    OBVIOUS
  <2>1. ASSUME NEW src \in Sources, NEW small \in 0..2, NEW got \in BOOLEAN,
               BZ2_bzDecompressInit(src, small, got)
        PROVE  IInv'
    <3>1. src \in Seq(Token) /\ SetUp(src, small, got) /\ avail_in' \in Nat
      BY <2>1 DEF BZ2_bzDecompressInit, IInv, TypeOK, StrmType
    <3> QED BY <3>1, DecompressInitStep
  <2>2. ASSUME NEW ai \in 0..ChunkIn, NEW ao \in 0..ChunkOut, BZ2_bzDecompress(ai, ao)
        PROVE  IInv'
    <3>1. ai \in Nat /\ ao \in 0..(WordSize - 1)
      OBVIOUS
    <3> QED BY <2>2, <3>1, CallStep
  <2>3. CASE BZ2_bzDecompressEnd
    BY <2>3, EndStep
  <2>4. CASE Parse
    BY <2>4, NeedInputStep, ReadMagicStep, ReadLevelStep, ReadBlockHeaderStep,
       ReadBlockDataStep, ReadStreamCRCStep DEF Parse
  <2>5. CASE UnRLEOutput
    BY <2>5, PutByteStep, NewRunStep, OverrunStep, ReturnStep DEF UnRLEOutput
  <2>6. CASE UNCHANGED vars
    BY <2>6, StutterStep
  <2> QED BY <2>1, <2>2, <2>3, <2>4, <2>5, <2>6 DEF Next, Caller, Library
<1> QED BY <1>1, InitInv, PTL DEF Spec

(* The decompressor's state has its types. *)
THEOREM TypeCorrect == Spec => []TypeOK
<1>1. IInv => TypeOK
  BY DEF IInv
<1> QED BY <1>1, Inductive, PTL

(***************************************************************************)
(* Whatever the input, a block lies within the table of its level, and the *)
(* output functions take at most one byte past the wrap-around.            *)
(***************************************************************************)
THEOREM TableNeverOverrun == Spec => []BlockInTable
<1>1. IInv => BlockInTable
  BY DEF IInv
<1> QED BY <1>1, Inductive, PTL

(* The tables are those of the mode asked for; BZ2_bzDecompressEnd frees   *)
(* all, also after an allocation has failed half way.                      *)
THEOREM NothingLeaks == Spec => []Allocated
<1>1. IInv => Allocated
  BY DEF IInv
<1> QED BY <1>1, Inductive, PTL

(***************************************************************************)
(* Between calls total_in and total_out count the bytes read and given     *)
(* out, by whichever function, also after a FAST call that failed.         *)
(***************************************************************************)
THEOREM CountersExact == Spec => []TotalsExact
<1>1. IInv => TotalsExact
  <2> SUFFICES ASSUME IInv, pc = "client", state # "NONE"
               PROVE  /\ total_in.hi  * WordSize + total_in.lo  = pos
                      /\ total_out.hi * WordSize + total_out.lo = Len(out)
    BY DEF TotalsExact
  <2>1. Value(total_in) = pos /\ Value(total_out) = Len(out)
    BY DEF IInv, CallInv, CopyInv
  <2> QED BY <2>1 DEF Value
<1> QED BY <1>1, Inductive, PTL

(***************************************************************************)
(* BZ_OK means that input or room ran out: no call with both of them left  *)
(* returns it.                                                             *)
(***************************************************************************)
THEOREM OkIsStuck == Spec => OkMeansStuck
<1> DEFINE Stuck == pc # "client" /\ ret' = "OK" => avail_in' = 0 \/ avail_out' = 0
<1>1. IInv /\ [Next]_vars => [Stuck]_vars
  <2> SUFFICES ASSUME IInv, Next, pc # "client", ret' = "OK"
               PROVE  avail_in' = 0 \/ avail_out' = 0
    OBVIOUS
  <2>0. ret = "none"
    BY DEF IInv, CallInv
  <2>1. ~Caller
    BY DEF Caller, BZ2_bzDecompressInit, SetUp, BZ2_bzDecompress, BZ2_bzDecompressEnd
  <2>2. CASE NeedInput
    BY <2>2 DEF NeedInput, inVars
  <2>3. ~ReadMagic /\ ~ReadBlockHeader /\ ~ReadBlockData /\ ~ReadStreamCRC
    BY <2>0 DEF ReadMagic, ReadBlockHeader, ReadBlockData, ReadStreamCRC, Give, Stay
  <2>4. ASSUME NEW got \in SUBSET Tables, ReadLevel(got) PROVE FALSE
    BY <2>0, <2>4 DEF ReadLevel, Give, Stay
  <2>5. ~PutByte /\ ~NewRun /\ ~Overrun
    BY <2>0 DEF PutByte, NewRun, Overrun, Give
  <2>6. CASE ReturnNotCorrupt
    <3>1. pc = "unRLE" /\ Stopped /\ avail_out' = avail_out /\ ~BlockDone
      BY <2>0, <2>6 DEF ReturnNotCorrupt, Give
    <3>2. avail_out \in Nat
      BY <3>1, OutputFrame
    <3>3. avail_out = 0
      BY <3>1, <3>2 DEF Stopped, BlockDone, MayAdvance
    <3> QED BY <3>1, <3>3
  <2> QED BY <2>1, <2>2, <2>3, <2>4, <2>5, <2>6 DEF Next, Library, Parse, UnRLEOutput
<1> QED BY <1>1, Inductive, PTL DEF Spec, OkMeansStuck

------------------------------------------------------------------------------
(***************************************************************************)
(* What a caller is told and given: proofs of OutputAccounted,             *)
(* StreamEndSound and SoundAccepted.                                       *)
(***************************************************************************)

(* The rules of Framed, read off the first `n' tokens of `s'. *)
Rules(s, n) ==
  /\ n \in Nat /\ n > 3 /\ s[n][1] = "crc"
  /\ \A i \in 1..n :
       /\ s[i][1] # "bad"
       /\ s[i][1] = "BZh" <=> i = 1
       /\ s[i][1] = "level" <=> i = 2
       /\ s[i][1] = "level" => s[i][2] \in {<<level>> : level \in 1..9}
       /\ s[i][1] = "block" => i < n /\ s[i + 1][1] \in DataKinds
       /\ i < n /\ s[i + 1][1] \in DataKinds => s[i][1] = "block"
       /\ s[i][1] = "end" <=> i = n - 1 /\ s[n][1] = "crc"
       /\ s[i][1] = "crc" => /\ i = n /\ n = 2 * Len(s[i][2]) + 4
                            /\ \A b \in 1..Len(s[i][2]) : s[i][2][b] = s[2 * b + 1][2]
  /\ \A i \in 2..n : s[i][1] \in DataKinds =>
       /\ UnRLE(s[i][2]) = s[i - 1][2]
       /\ Len(s[i][2]) \in 1..(BlockUnit * s[2][2][1])
       /\ ~EndsBeforeCount(s[i][2])

LEMMA SoundRules ==
  ASSUME NEW s \in Seq(Token), NEW n \in 1..Len(s),
         WellFormed(SubSeq(s, 1, n), BlockUnit)
  PROVE  Rules(s, n)
<1> DEFINE p == SubSeq(s, 1, n)
<1>1. n \in Nat /\ n >= 1 /\ Len(s) \in Nat
  BY LenProperties
<1>2. Len(p) = n /\ \A i \in 1..n : p[i] = s[i]
  BY <1>1
<1> HIDE DEF p
<1>3. /\ n > 3 /\ Framed(p) /\ p[n][1] = "crc"
      /\ \A i \in 1..n : p[i][1] \in DataKinds =>
           /\ Len(p[i][2]) \in 1..(BlockUnit * p[2][2][1])
           /\ ~EndsBeforeCount(p[i][2])
  BY <1>2 DEF WellFormed, p
<1>4. n \in 1..n /\ 2 \in 1..n /\ p[n] = s[n] /\ p[2] = s[2]
  BY <1>1, <1>2, <1>3
<1>5. \A i \in 1..n :
        /\ p[i][1] # "bad"
        /\ p[i][1] = "BZh" <=> i = 1
        /\ p[i][1] = "level" <=> i = 2
        /\ p[i][1] = "level" => p[i][2] \in {<<level>> : level \in 1..9}
        /\ p[i][1] = "block" <=> (i < n /\ p[i + 1][1] \in DataKinds)
        /\ p[i][1] \in DataKinds => UnRLE(p[i][2]) = p[i - 1][2]
        /\ p[i][1] = "end" <=> i = n - 1 /\ p[n][1] = "crc"
        /\ p[i][1] = "crc" => /\ i = n /\ n = 2 * Len(p[i][2]) + 4
                             /\ \A b \in 1..Len(p[i][2]) : p[i][2][b] = p[2 * b + 1][2]
  BY <1>2, <1>3, Zenon DEF Framed
<1>6. ASSUME NEW i \in 1..n
      PROVE  /\ s[i][1] # "bad"
             /\ s[i][1] = "BZh" <=> i = 1
             /\ s[i][1] = "level" <=> i = 2
             /\ s[i][1] = "level" => s[i][2] \in {<<level>> : level \in 1..9}
             /\ s[i][1] = "block" => i < n /\ s[i + 1][1] \in DataKinds
             /\ i < n /\ s[i + 1][1] \in DataKinds => s[i][1] = "block"
             /\ s[i][1] = "end" <=> i = n - 1 /\ s[n][1] = "crc"
             /\ s[i][1] = "crc" =>
                  /\ i = n /\ n = 2 * Len(s[i][2]) + 4
                  /\ \A b \in 1..Len(s[i][2]) : s[i][2][b] = s[2 * b + 1][2]
  <2>1. p[i] = s[i] /\ p[n] = s[n]
    BY <1>2, <1>4
  <2>2. i < n => i + 1 \in 1..n /\ p[i + 1] = s[i + 1]
    BY <1>1, <1>2
  <2>3. ASSUME s[i][1] = "crc"
        PROVE  /\ i = n /\ n = 2 * Len(s[i][2]) + 4
               /\ \A b \in 1..Len(s[i][2]) : s[i][2][b] = s[2 * b + 1][2]
    <3>1. /\ i = n /\ n = 2 * Len(s[i][2]) + 4
          /\ \A b \in 1..Len(s[i][2]) : s[i][2][b] = p[2 * b + 1][2]
      <4>1. p[i][1] = "crc"
        BY <2>1, <2>3
      <4>2. /\ i = n /\ n = 2 * Len(p[i][2]) + 4
            /\ \A b \in 1..Len(p[i][2]) : p[i][2][b] = p[2 * b + 1][2]
        BY <1>5, <4>1, Zenon
      <4> QED BY <2>1, <4>2, Zenon
    <3> DEFINE m == Len(s[i][2])
    <3>2. ASSUME NEW b \in 1..m PROVE p[2 * b + 1] = s[2 * b + 1]
      <4>1. n = 2 * m + 4
        BY <3>1
      <4> HIDE DEF m
      <4>2. 2 * b + 1 \in 1..n
        <5>1. CASE m \in Int
          BY <1>1, <4>1, <5>1
        <5>2. CASE m \notin Int
          <6>1. SUFFICES m \in Int
            BY <5>2
          <6>2. s[i] \in Token
            BY <1>1, ElementOfSeq
          <6>3. s[i][2] \in Seq(Seq(Bytes))
            BY <2>3, <6>2 DEF Token
          <6> QED BY <6>3, LenProperties DEF m
        <5> QED BY <5>1, <5>2
      <4> QED BY <1>2, <4>2
    <3> QED BY <3>1, <3>2
  <2> QED BY <1>5, <2>1, <2>2, <2>3
<1>7. ASSUME NEW i \in 2..n, s[i][1] \in DataKinds
      PROVE  /\ UnRLE(s[i][2]) = s[i - 1][2]
             /\ Len(s[i][2]) \in 1..(BlockUnit * s[2][2][1])
             /\ ~EndsBeforeCount(s[i][2])
  <2>1. i \in 1..n /\ i - 1 \in 1..n
    BY <1>1
  <2>2. p[i] = s[i] /\ p[i - 1] = s[i - 1] /\ p[2] = s[2]
    BY <1>2, <1>4, <2>1
  <2> QED BY <1>3, <1>5, <1>7, <2>1, <2>2
<1>8. s[n][1] = "crc"
  BY <1>3, <1>4
<1> QED BY <1>1, <1>3, <1>6, <1>7, <1>8 DEF Rules

(* No token that has been read ends a whole stream. *)
LEMMA ReadOnSound ==
  ASSUME TypeOK, ParseInv, Going, state \in Parsing \cup {"OUTPUT"},
         NEW n, Rules(source, n)
  PROVE  pos < n /\ pos \in Nat
<1>1. pos \in Nat /\ n \in Nat /\ n > 3 /\ source[n][1] = "crc"
  BY DEF TypeOK, StrmType, Rules
<1>2. \A i \in 1..pos : source[i][1] # "crc"
  BY DEF ParseInv
<1>3. n \notin 1..pos
  BY <1>1, <1>2
<1> QED BY <1>1, <1>3

(* The token behind the ones read is the one that the label waits for.     *)
LEMMA SoundHeader ==
  ASSUME TypeOK, ParseInv, Going, NEW n, Rules(source, n), pos < Len(source)
  PROVE  /\ state = "MAGIC" => Next_token[1] = "BZh"
         /\ state = "LEVEL" => IsLevel(Next_token)
         /\ state = "BLKHDR" => Next_token[1] \in {"block", "end"}
<1>0. source \in Seq(Token) /\ pos \in Nat /\ n \in Nat /\ n > 3 /\ Len(source) \in Nat
  BY LenProperties DEF TypeOK, StrmType, Rules
<1>1. CASE state = "MAGIC"
  <2>1. pos = 0 /\ pos + 1 = 1 /\ 1 \in 1..n
    BY <1>0, <1>1 DEF ParseInv, Parsing
  <2>2. source[1][1] = "BZh"
    BY <2>1 DEF Rules
  <2> QED BY <1>1, <2>1, <2>2 DEF Next_token
<1>2. CASE state = "LEVEL"
  <2>1. pos + 1 = 2 /\ 2 \in 1..n
    BY <1>0, <1>2 DEF ParseInv, Parsing
  <2>2. source[2][1] = "level" /\ source[2][2] \in {<<level>> : level \in 1..9}
    BY <2>1 DEF Rules
  <2>3. \E level \in 1..9 : source[2][2] = <<level>>
    BY <2>2
  <2> QED BY <1>2, <2>1, <2>2, <2>3 DEF Next_token, IsLevel
<1>3. CASE state = "BLKHDR"
  <2> DEFINE q == pos + 1
  <2>1. pos < n
    BY <1>3, ReadOnSound DEF Parsing
  <2>2. calculatedCombinedCRC \in Seq(Seq(Bytes)) /\ Blocks \in Nat
        /\ pos = 2 * Blocks + 2 /\ LaidSoFar
    BY <1>3, LenProperties DEF TypeOK, BlockType, Blocks, ParseInv, Parsing
  <2>3. q \in 1..n /\ pos \in 1..n /\ q # 1 /\ q # 2 /\ q \in 1..Len(source)
    BY <1>0, <2>1, <2>2
  <2>4. source[q] \in Token
    BY <1>0, <2>3, ElementOfSeq
  <2>5. source[pos][1] \in {"level", "data", "rdata"}
    <3>1. CASE Blocks = 0
      <4>1. pos = 2
        BY <2>2, <3>1
      <4> QED BY <2>2, <4>1 DEF LaidSoFar, Laid
    <3>2. CASE Blocks # 0
      <4>1. Blocks \in 1..Blocks
        BY <2>2, <3>2
      <4>2. source[2 * Blocks + 2][1] \in DataKinds
        BY <2>2, <4>1 DEF LaidSoFar, Laid, Blocks
      <4> QED BY <2>2, <4>2 DEF DataKinds
    <3> QED BY <3>1, <3>2
  <2>6. source[q][1] # "crc"
    <3> SUFFICES ASSUME source[q][1] = "crc" PROVE FALSE
      OBVIOUS
    <3>1. q = n
      BY <2>3 DEF Rules
    <3>2. pos = n - 1
      BY <1>0, <3>1
    <3>3. source[pos][1] = "end"
      BY <2>3, <3>2 DEF Rules
    <3> QED BY <2>5, <3>3
  <2>7. source[q][1] \notin DataKinds
    <3> SUFFICES ASSUME source[q][1] \in DataKinds PROVE FALSE
      OBVIOUS
    <3>1. source[pos][1] = "block"
      BY <2>1, <2>3 DEF Rules
    <3> QED BY <2>5, <3>1
  <2>8. source[q][1] # "bad" /\ source[q][1] # "BZh" /\ source[q][1] # "level"
    BY <2>3 DEF Rules
  <2>9. source[q][1] \in {"BZh", "level", "block", "data", "rdata", "bad", "end", "crc"}
    BY <2>4 DEF Token
  <2>10. source[q][1] \in {"block", "end"}
    BY <2>6, <2>7, <2>8, <2>9 DEF DataKinds
  <2> QED BY <1>3, <2>10 DEF Next_token
<1> QED BY <1>1, <1>2, <1>3

LEMMA SoundBlock ==
  ASSUME TypeOK, ParseInv, Going, NEW n, Rules(source, n), pos < Len(source)
  PROVE  /\ state = "DATA" => BlockAcceptable(Next_token)
         /\ state = "ENDHDR" => Next_token = <<"crc", calculatedCombinedCRC>>
<1>0. source \in Seq(Token) /\ pos \in Nat /\ n \in Nat /\ n > 3 /\ Len(source) \in Nat
  BY LenProperties DEF TypeOK, StrmType, Rules
<1>1. calculatedCombinedCRC \in Seq(Seq(Bytes)) /\ Blocks \in Nat
  BY LenProperties DEF TypeOK, BlockType, Blocks
<1> DEFINE q == pos + 1
<1>2. q \in 1..Len(source) /\ source[q] \in Token
  BY <1>0, ElementOfSeq
<1>3. CASE state = "DATA"
  <2>1. pos < n /\ pos = 2 * Blocks + 3 /\ source[pos][1] = "block" /\ LaidSoFar
    BY <1>3, ReadOnSound DEF ParseInv, Parsing
  <2>2. pos \in 1..n /\ q \in 2..n
    BY <1>0, <1>1, <2>1
  <2>3. source[q][1] \in DataKinds
    BY <2>1, <2>2 DEF Rules
  <2>4. Len(source[q][2]) \in 1..(BlockUnit * source[2][2][1])
    BY <2>2, <2>3 DEF Rules
  <2>5. source[2][2][1] = blockSize100k /\ blockSize100k \in 1..9
    BY <2>1 DEF LaidSoFar, Laid
  <2>6. Len(source[q][2]) \in 1..nblockMAX
    BY <2>4, <2>5 DEF nblockMAX
  <2>7. nblockMAX \in Int
    BY <2>5 DEF nblockMAX
  <2>8. source[q][2] # <<>> /\ Len(source[q][2]) <= nblockMAX
    BY <2>6, <2>7, Empties
  <2> QED BY <1>3, <2>3, <2>8 DEF Next_token, BlockAcceptable
<1>4. CASE state = "ENDHDR"
  <2> DEFINE x == source[q][2]
  <2>1. pos < n /\ pos = 2 * Blocks + 3 /\ source[pos][1] = "end" /\ LaidSoFar
    BY <1>4, ReadOnSound DEF ParseInv, Parsing
  <2>2. pos \in 1..n
    BY <1>0, <1>1, <2>1
  <2>3. pos = n - 1 /\ source[n][1] = "crc"
    BY <2>1, <2>2 DEF Rules
  <2>4. q = n /\ n \in 1..n
    BY <1>0, <2>3
  <2>5. /\ source[q][1] = "crc" /\ n = 2 * Len(x) + 4
        /\ \A b \in 1..Len(x) : x[b] = source[2 * b + 1][2]
    BY <2>3, <2>4 DEF Rules
  <2>6. x \in Seq(Seq(Bytes)) /\ source[q] = <<"crc", x>>
    BY <1>2, <2>5 DEF Token
  <2>7. Len(x) \in Nat
    BY <2>6, LenProperties
  <2>8. Len(x) = Blocks
    <3> DEFINE m == Len(x)
    <3>1. m \in Nat /\ n = 2 * m + 4
      BY <2>5, <2>7
    <3> HIDE DEF m
    <3>2. m = Blocks
      BY <1>1, <2>1, <2>4, <3>1
    <3> QED BY <3>2 DEF m
  <2>9. \A b \in 1..Blocks : source[2 * b + 1][2] = calculatedCombinedCRC[b]
    BY <2>1 DEF LaidSoFar, Laid, Blocks
  <2>10. \A b \in 1..Len(x) : x[b] = calculatedCombinedCRC[b]
    BY <2>5, <2>8, <2>9
  <2>11. x = calculatedCombinedCRC
    <3> HIDE DEF x
    <3> QED BY <1>1, <2>6, <2>8, <2>10, SeqEqual DEF Blocks
  <2> QED BY <1>4, <2>6, <2>11 DEF Next_token
<1> QED BY <1>3, <1>4

(* The block being given out is one of the sound stream's. *)
LEMMA SoundOutput ==
  ASSUME TypeOK, ParseInv, Going, NEW n, Rules(source, n), state = "OUTPUT"
  PROVE  UnRLE(tt) = storedBlockCRC /\ ~EndsBeforeCount(tt)
<1>1. pos < n /\ pos \in Nat
  BY ReadOnSound
<1>2. /\ pos = 2 * Blocks + 4 /\ source[pos - 1][2] = storedBlockCRC
      /\ source[pos][1] \in DataKinds /\ source[pos][2] = tt
  BY DEF ParseInv
<1>3. Blocks \in Nat /\ n \in Nat
  BY LenProperties DEF TypeOK, BlockType, Blocks, Rules
<1>4. pos \in 2..n
  BY <1>1, <1>2, <1>3
<1> QED BY <1>2, <1>4 DEF Rules

LEMMA NotSound ==
  ASSUME TypeOK, ~\E n : Rules(source, n)
  PROVE  ~Sound
<1>1. source \in Seq(Token)
  BY DEF TypeOK, StrmType
<1> QED BY <1>1, SoundRules DEF Sound

(* Steps that leave alone what a part of the invariant is about. *)
LEMMA AccountFrame ==
  /\ AccountInv
  /\ UNCHANGED <<state, out, calculatedCombinedCRC, calculatedBlockCRC>>
  /\ pc' = "unRLE" => UNCHANGED <<pc, saved>>
  => AccountInv'
BY DEF AccountInv, OutputAccounted

LEMMA ParseFrame ==
  /\ ParseInv
  /\ UNCHANGED <<state, pos, source, blockSize100k, calculatedCombinedCRC,
                 storedBlockCRC, tt>>
  /\ Going' => Going
  /\ ret' = "STREAM_END" => ret = "STREAM_END"
  => ParseInv'
BY DEF ParseInv, LaidSoFar, Blocks

LEMMA BlockFrame ==
  BlockInv /\ UNCHANGED <<state, tt, runVars>> /\ (Going' => Going) => BlockInv'
BY DEF BlockInv, Used, runVars, nblock

LEMMA SoundFrame ==
  /\ SoundAccepted /\ UNCHANGED source
  /\ ret' \in {"DATA_ERROR", "DATA_ERROR_MAGIC"} => ret' = ret \/ ~Sound
  => SoundAccepted'
BY DEF SoundAccepted, Sound

(* Once an error has been told nothing more is promised. *)
LEMMA ErrorTold == ret' \in Errors => ParseInv' /\ BlockInv'
BY DEF ParseInv, BlockInv, Going, Errors

LEMMA InitFull == Init => FullInv
<1> SUFFICES ASSUME Init PROVE FullInv
  OBVIOUS
<1>1. IInv
  BY InitInv
<1>2. AccountInv /\ ParseInv /\ BlockInv /\ SoundAccepted
  BY DEF Init, AccountInv, OutputAccounted, ParseInv, BlockInv, SoundAccepted, Parsing
<1> QED BY <1>1, <1>2 DEF FullInv

LEMMA DecompressInitFull ==
  ASSUME FullInv, IInv', NEW src, NEW small, NEW got,
         SetUp(src, small, got)
  PROVE  FullInv'
<1>0. TypeOK /\ CallInv /\ AccountInv
  BY DEF FullInv, IInv
<1>1. /\ pc = "client" /\ pc' = "client" /\ state = "NONE"
      /\ UNCHANGED <<calculatedCombinedCRC, pos, out>>
  BY DEF SetUp, crcVars
<1>2. pos = 0 /\ out = <<>> /\ calculatedCombinedCRC = <<>>
  BY <1>0, <1>1 DEF CallInv, AccountInv
<1>3. CASE ret' \in {"PARAM_ERROR", "MEM_ERROR"} /\ UNCHANGED <<state, source>>
  <2>1. AccountInv'
    BY <1>0, <1>1, <1>2, <1>3 DEF AccountInv, OutputAccounted
  <2>2. ParseInv' /\ BlockInv' /\ SoundAccepted'
    BY <1>1, <1>3 DEF ParseInv, BlockInv, SoundAccepted, Parsing
  <2> QED BY <2>1, <2>2 DEF FullInv
<1>4. CASE ret' = "OK" /\ state' = "MAGIC"
  <2>1. AccountInv'
    <3>1. Seqs!FlattenSeq(<<>>) \o <<>> = <<>>
      BY FlattenEmpty, Empties, ConcatEmptySeq
    <3> QED BY <1>1, <1>2, <1>4, <3>1 DEF AccountInv, OutputAccounted
  <2>2. ParseInv'
    <3>1. \A i \in 1..0 : FALSE
      OBVIOUS
    <3> QED BY <1>1, <1>2, <1>4, <3>1 DEF ParseInv
  <2>3. BlockInv' /\ SoundAccepted'
    BY <1>4 DEF BlockInv, SoundAccepted
  <2> QED BY <2>1, <2>2, <2>3 DEF FullInv
<1> QED BY <1>3, <1>4 DEF SetUp

LEMMA CallFull ==
  ASSUME FullInv, IInv', NEW ai, NEW ao, BZ2_bzDecompress(ai, ao)
  PROVE  FullInv'
<1>0. AccountInv /\ ParseInv /\ BlockInv /\ SoundAccepted
  BY DEF FullInv
<1>1. /\ UNCHANGED <<state, out, calculatedCombinedCRC, calculatedBlockCRC>>
      /\ UNCHANGED <<pos, source, blockSize100k, storedBlockCRC, tt>>
      /\ UNCHANGED runVars
      /\ pc = "client"
  BY DEF BZ2_bzDecompress, lifeVars, blockVars, runVars, crcVars
<1>2. ret' \in {"PARAM_ERROR", "SEQUENCE_ERROR", "none"}
  BY DEF BZ2_bzDecompress
<1>3. state # "NONE" => Going
  BY DEF BZ2_bzDecompress, Going
<1>4. ret' # "STREAM_END" /\ ret' \notin {"DATA_ERROR", "DATA_ERROR_MAGIC"}
  BY <1>2
<1>5. SoundAccepted'
  BY <1>4 DEF SoundAccepted
<1>6. AccountInv'
  <2>1. OutputAccounted' /\ (state' = "NONE" => calculatedCombinedCRC' = <<>>)
    BY <1>0, <1>1 DEF AccountInv, OutputAccounted
  <2>2. ASSUME state' = "OUTPUT"
        PROVE  saved'.out = out /\ saved'.crc = calculatedBlockCRC
    <3>1. state = "OUTPUT"
      BY <1>1, <2>2
    <3>2. saved' = [Snapshot EXCEPT !.avail_out = ao]
      BY <3>1 DEF BZ2_bzDecompress, Parsing
    <3> QED BY <3>2 DEF Snapshot
  <2>3. state' = "OUTPUT" => out = Seqs!FlattenSeq(calculatedCombinedCRC) \o calculatedBlockCRC
    BY <1>0, <1>1 DEF AccountInv, OutputAccounted
  <2>4. state' = "OUTPUT" => saved'.out = Seqs!FlattenSeq(calculatedCombinedCRC') \o saved'.crc
    BY <1>1, <2>2, <2>3
  <2> QED BY <2>1, <2>4 DEF AccountInv
<1>7. CASE state = "NONE"
  <2>1. ParseInv' /\ BlockInv'
    BY <1>1, <1>4, <1>7 DEF ParseInv, BlockInv, Parsing
  <2> QED BY <1>5, <1>6, <2>1 DEF FullInv
<1>8. CASE state # "NONE"
  <2>1. ParseInv'
    BY <1>0, <1>1, <1>3, <1>4, <1>8, ParseFrame
  <2>2. BlockInv'
    BY <1>0, <1>1, <1>3, <1>8, BlockFrame
  <2> QED BY <1>5, <1>6, <2>1, <2>2 DEF FullInv
<1> QED BY <1>7, <1>8

LEMMA EndFull == FullInv /\ IInv' /\ BZ2_bzDecompressEnd => FullInv'
<1> SUFFICES ASSUME FullInv, IInv', BZ2_bzDecompressEnd PROVE FullInv'
  OBVIOUS
<1>1. CASE EndNothing
  <2>1. UNCHANGED <<state, out, calculatedCombinedCRC, calculatedBlockCRC, pc, saved>>
        /\ state = "NONE" /\ ret' = "PARAM_ERROR"
    BY <1>1 DEF EndNothing, outVars, crcVars, runVars
  <2>2. AccountInv'
    BY <2>1, AccountFrame DEF FullInv
  <2>3. ParseInv' /\ BlockInv' /\ SoundAccepted'
    BY <2>1 DEF ParseInv, BlockInv, SoundAccepted, Parsing
  <2> QED BY <2>2, <2>3 DEF FullInv
<1>2. CASE EndStream
  <2>1. state' = "NONE" /\ ret' = "OK" /\ calculatedCombinedCRC' = <<>>
    BY <1>2 DEF EndStream
  <2>2. AccountInv' /\ ParseInv' /\ BlockInv' /\ SoundAccepted'
    BY <2>1 DEF AccountInv, OutputAccounted, ParseInv, BlockInv, SoundAccepted, Parsing
  <2> QED BY <2>2 DEF FullInv
<1> QED BY <1>1, <1>2 DEF BZ2_bzDecompressEnd

LEMMA NeedInputFull == FullInv /\ IInv' /\ NeedInput => FullInv'
<1> SUFFICES ASSUME FullInv, IInv', NeedInput PROVE FullInv'
  OBVIOUS
<1>1. UNCHANGED <<state, pos, source, blockSize100k, calculatedCombinedCRC,
                  storedBlockCRC, tt, runVars, calculatedBlockCRC, out>>
      /\ ret' = "OK" /\ pc' = "client" /\ pc = "parse"
  BY DEF NeedInput, Give, inVars, outVars, lifeVars, blockVars, runVars, crcVars
<1>2. Going
  BY <1>1 DEF FullInv, IInv, CallInv, Going, Errors
<1> QED BY <1>1, <1>2, AccountFrame, ParseFrame, BlockFrame, SoundFrame DEF FullInv

(* What a step of BZ2_decompress that takes a token finds and leaves. *)
LEMMA Taken ==
  ASSUME FullInv, pc = "parse", Take
  PROVE  /\ TypeOK /\ CallInv /\ AccountInv /\ ParseInv /\ Going
         /\ state \in Parsing /\ ret = "none"
         /\ pos \in Nat /\ pos < Len(source) /\ pos' = pos + 1
         /\ source \in Seq(Token) /\ Next_token \in Token
         /\ UNCHANGED source /\ UNCHANGED out
         /\ Next_token[1] # "crc" => \A i \in 1..pos' : source[i][1] # "crc"
<1>1. TypeOK /\ CallInv /\ AccountInv /\ ParseInv
  BY DEF FullInv, IInv
<1>2. state \in Parsing /\ ret = "none"
  BY <1>1 DEF CallInv
<1>3. Going
  BY <1>2 DEF Going, Errors
<1>4. /\ pos \in Nat /\ pos' = pos + 1 /\ source \in Seq(Token) /\ Len(source) \in Nat
      /\ avail_in \in Nat /\ avail_in > 0 /\ pos + avail_in <= Len(source)
  BY <1>1, LenProperties DEF TypeOK, StrmType, CallInv, Take
<1>5. pos < Len(source)
  BY <1>4
<1>6. Next_token \in Token
  BY <1>1, TakeStep
<1>7. UNCHANGED source /\ UNCHANGED out
  BY DEF Take, outVars
<1>8. \A i \in 1..pos : source[i][1] # "crc"
  BY <1>1, <1>2, <1>3 DEF ParseInv
<1>9. ASSUME Next_token[1] # "crc", NEW i \in 1..pos' PROVE source[i][1] # "crc"
  <2>1. i \in 1..pos \/ i = pos + 1
    BY <1>4
  <2> QED BY <1>8, <1>9, <2>1 DEF Next_token
<1> QED BY <1>1, <1>2, <1>3, <1>4, <1>5, <1>6, <1>7, <1>9

(* Outside a block the caller has the accepted blocks, no more. *)
LEMMA AccountParse ==
  /\ AccountInv /\ state \notin {"OUTPUT", "NONE"}
  /\ state' \notin {"OUTPUT", "NONE"}
  /\ UNCHANGED out /\ UNCHANGED calculatedCombinedCRC
  => AccountInv'
BY DEF AccountInv, OutputAccounted

(* A data error is told of an input that starts with no sound stream. *)
LEMMA Refused ==
  ASSUME FullInv, IInv', AccountInv', UNCHANGED source,
         ret' \in {"DATA_ERROR", "DATA_ERROR_MAGIC"}, ~\E n : Rules(source, n)
  PROVE  FullInv'
<1>1. ~Sound
  BY NotSound DEF FullInv, IInv
<1>2. SoundAccepted'
  BY <1>1, SoundFrame DEF FullInv
<1>3. ParseInv' /\ BlockInv'
  BY ErrorTold DEF Errors
<1> QED BY <1>2, <1>3 DEF FullInv

LEMMA ReadMagicFull == FullInv /\ IInv' /\ ReadMagic => FullInv'
<1> SUFFICES ASSUME FullInv, IInv', ReadMagic PROVE FullInv'
  OBVIOUS
<1>0. pc = "parse" /\ state = "MAGIC" /\ Take
  BY DEF ReadMagic
<1>1. /\ TypeOK /\ AccountInv /\ ParseInv /\ Going /\ ret = "none" /\ pos \in Nat
      /\ pos < Len(source) /\ pos' = pos + 1 /\ UNCHANGED source /\ UNCHANGED out
      /\ Next_token[1] # "crc" => \A i \in 1..pos' : source[i][1] # "crc"
  BY <1>0, Taken
<1>2. UNCHANGED calculatedCombinedCRC /\ state' \in {"MAGIC", "LEVEL"}
  BY <1>0 DEF ReadMagic, crcVars
<1>3. AccountInv'
  BY <1>0, <1>1, <1>2, AccountParse
<1>4. CASE Next_token[1] = "BZh" /\ state' = "LEVEL" /\ Stay
  <2>1. pos = 0 /\ pos' = 1 /\ calculatedCombinedCRC = <<>>
    BY <1>0, <1>1 DEF ParseInv, Parsing
  <2>2. source[1][1] = "BZh" /\ \A i \in 1..pos' : source[i][1] # "crc"
    BY <1>1, <1>4, <2>1 DEF Next_token
  <2>3. ret' = "none"
    BY <1>1, <1>4 DEF Stay
  <2>4. ParseInv'
    BY <1>1, <1>2, <1>4, <2>1, <2>2, <2>3 DEF ParseInv
  <2>5. BlockInv' /\ SoundAccepted'
    BY <1>4, <2>3 DEF BlockInv, SoundAccepted
  <2> QED BY <1>3, <2>4, <2>5 DEF FullInv
<1>5. CASE Next_token[1] # "BZh" /\ Give("DATA_ERROR_MAGIC")
  <2>1. ~\E n : Rules(source, n)
    BY <1>0, <1>1, <1>5, SoundHeader
  <2>2. ret' \in {"DATA_ERROR", "DATA_ERROR_MAGIC"}
    BY <1>5 DEF Give
  <2> QED BY <1>1, <1>3, <2>1, <2>2, Refused
<1> QED BY <1>4, <1>5 DEF ReadMagic

LEMMA ReadLevelFull ==
  ASSUME FullInv, IInv', NEW got, ReadLevel(got)
  PROVE  FullInv'
<1>0. pc = "parse" /\ state = "LEVEL" /\ Take
  BY DEF ReadLevel
<1>1. /\ TypeOK /\ AccountInv /\ ParseInv /\ Going /\ ret = "none" /\ pos \in Nat
      /\ pos < Len(source) /\ pos' = pos + 1 /\ UNCHANGED source /\ UNCHANGED out
      /\ source \in Seq(Token)
      /\ Next_token[1] # "crc" => \A i \in 1..pos' : source[i][1] # "crc"
  BY <1>0, Taken
<1>2. UNCHANGED calculatedCombinedCRC /\ state' \in {"LEVEL", "BLKHDR"}
  BY <1>0 DEF ReadLevel, crcVars
<1>3. AccountInv'
  BY <1>0, <1>1, <1>2, AccountParse
<1>4. CASE /\ IsLevel(Next_token) /\ blockSize100k' = Next_token[2][1]
           /\ state' = "BLKHDR" /\ Stay
  <2>1. /\ pos = 1 /\ pos' = 2 /\ source[1][1] = "BZh"
        /\ calculatedCombinedCRC = <<>> /\ calculatedCombinedCRC' = <<>>
    BY <1>0, <1>1, <1>2 DEF ParseInv, Parsing
  <2>2. Next_token = source[2]
    BY <2>1 DEF Next_token
  <2>3. \E level \in 1..9 : source[2][2] = <<level>> /\ source[2][1] = "level"
    BY <1>4, <2>2 DEF IsLevel
  <2>4. /\ source[2][1] = "level" /\ source[2][2] = <<blockSize100k'>>
        /\ blockSize100k' \in 1..9
    BY <1>4, <2>2, <2>3
  <2>5. \A i \in 1..pos' : source'[i][1] # "crc"
    BY <1>1, <2>2, <2>4
  <2>6. Blocks' = 0 /\ Len(<<>>) = 0
    BY <2>1, Empties DEF Blocks
  <2>7. Len(source) \in Nat /\ Len(source) >= 2
    BY <1>1, <2>1, LenProperties
  <2>8. LaidSoFar'
    <3>1. Laid(source, blockSize100k', <<>>, BlockUnit)
      BY <2>1, <2>4, <2>6, <2>7 DEF Laid
    <3> QED BY <1>1, <2>1, <2>4, <3>1 DEF LaidSoFar
  <2>9. ret' = "none"
    BY <1>1, <1>4 DEF Stay
  <2>10. pos' = 2 * Blocks' + 2
    BY <2>1, <2>6
  <2>11. ParseInv'
    BY <1>4, <2>5, <2>8, <2>9, <2>10 DEF ParseInv
  <2>12. BlockInv' /\ SoundAccepted'
    BY <1>4, <2>9 DEF BlockInv, SoundAccepted
  <2> QED BY <1>3, <2>11, <2>12 DEF FullInv
<1>5. CASE ~IsLevel(Next_token) /\ Give("DATA_ERROR_MAGIC")
  <2>1. ~\E n : Rules(source, n)
    BY <1>0, <1>1, <1>5, SoundHeader
  <2>2. ret' \in {"DATA_ERROR", "DATA_ERROR_MAGIC"}
    BY <1>5 DEF Give
  <2> QED BY <1>1, <1>3, <2>1, <2>2, Refused
<1>6. CASE Give("MEM_ERROR")
  <2>1. ret' = "MEM_ERROR"
    BY <1>6 DEF Give
  <2>2. ParseInv' /\ BlockInv'
    BY <2>1, ErrorTold DEF Errors
  <2>3. SoundAccepted'
    BY <2>1 DEF SoundAccepted
  <2> QED BY <1>3, <2>2, <2>3 DEF FullInv
<1> QED BY <1>4, <1>5, <1>6 DEF ReadLevel

LEMMA ReadBlockHeaderFull == FullInv /\ IInv' /\ ReadBlockHeader => FullInv'
<1> SUFFICES ASSUME FullInv, IInv', ReadBlockHeader PROVE FullInv'
  OBVIOUS
<1>0. pc = "parse" /\ state = "BLKHDR" /\ Take
  BY DEF ReadBlockHeader
<1>1. /\ TypeOK /\ AccountInv /\ ParseInv /\ Going /\ ret = "none" /\ pos \in Nat
      /\ pos < Len(source) /\ pos' = pos + 1 /\ UNCHANGED source /\ UNCHANGED out
      /\ Next_token[1] # "crc" => \A i \in 1..pos' : source[i][1] # "crc"
  BY <1>0, Taken
<1>2. /\ UNCHANGED calculatedCombinedCRC /\ UNCHANGED blockSize100k
      /\ state' \in {"BLKHDR", "DATA", "ENDHDR"}
  BY <1>0 DEF ReadBlockHeader
<1>3. AccountInv'
  BY <1>0, <1>1, <1>2, AccountParse
<1>4. /\ LaidSoFar /\ pos = 2 * Blocks + 2 /\ Blocks \in Nat
      /\ LaidSoFar' /\ Blocks' = Blocks
  <2>1. LaidSoFar /\ pos = 2 * Blocks + 2
    BY <1>0, <1>1 DEF ParseInv, Parsing
  <2>2. Blocks \in Nat
    BY <1>1, LenProperties DEF TypeOK, BlockType, Blocks
  <2>3. LaidSoFar' /\ Blocks' = Blocks
    BY <1>1, <1>2, <2>1 DEF LaidSoFar, Blocks
  <2> QED BY <2>1, <2>2, <2>3
<1>5. pos' = 2 * Blocks' + 3 /\ Next_token = source'[pos']
  BY <1>1, <1>4 DEF Next_token
<1>6. CASE \/ /\ Next_token[1] = "block" /\ storedBlockCRC' = Next_token[2]
              /\ state' = "DATA" /\ Stay
           \/ Next_token[1] = "end" /\ state' = "ENDHDR" /\ Stay
  <2>1. ret' = "none"
    BY <1>1, <1>6 DEF Stay
  <2>2. \A i \in 1..pos' : source'[i][1] # "crc"
    BY <1>1, <1>6
  <2>3. ParseInv'
    BY <1>4, <1>5, <1>6, <2>1, <2>2 DEF ParseInv
  <2>4. BlockInv' /\ SoundAccepted'
    BY <1>6, <2>1 DEF BlockInv, SoundAccepted
  <2> QED BY <1>3, <2>3, <2>4 DEF FullInv
<1>7. CASE Next_token[1] \notin {"block", "end"} /\ Give("DATA_ERROR")
  <2>1. ~\E n : Rules(source, n)
    BY <1>0, <1>1, <1>7, SoundHeader
  <2>2. ret' \in {"DATA_ERROR", "DATA_ERROR_MAGIC"}
    BY <1>7 DEF Give
  <2> QED BY <1>1, <1>3, <2>1, <2>2, Refused
<1> QED BY <1>6, <1>7 DEF ReadBlockHeader

LEMMA ReadBlockDataFull == FullInv /\ IInv' /\ ReadBlockData => FullInv'
<1> SUFFICES ASSUME FullInv, IInv', ReadBlockData PROVE FullInv'
  OBVIOUS
<1>0. pc = "parse" /\ state = "DATA" /\ Take
  BY DEF ReadBlockData
<1>1. /\ TypeOK /\ AccountInv /\ ParseInv /\ Going /\ ret = "none" /\ pos \in Nat
      /\ pos < Len(source) /\ pos' = pos + 1 /\ UNCHANGED source /\ UNCHANGED out
      /\ Next_token \in Token
      /\ Next_token[1] # "crc" => \A i \in 1..pos' : source[i][1] # "crc"
  BY <1>0, Taken
<1>2. /\ UNCHANGED calculatedCombinedCRC /\ UNCHANGED blockSize100k
      /\ UNCHANGED storedBlockCRC
  BY <1>0 DEF ReadBlockData, crcVars
<1>3. /\ LaidSoFar /\ pos = 2 * Blocks + 3 /\ Blocks \in Nat
      /\ source[pos][1] = "block" /\ source[pos][2] = storedBlockCRC
      /\ LaidSoFar' /\ Blocks' = Blocks
  <2>1. /\ LaidSoFar /\ pos = 2 * Blocks + 3
        /\ source[pos][1] = "block" /\ source[pos][2] = storedBlockCRC
    BY <1>0, <1>1 DEF ParseInv, Parsing
  <2>2. Blocks \in Nat
    BY <1>1, LenProperties DEF TypeOK, BlockType, Blocks
  <2>3. LaidSoFar' /\ Blocks' = Blocks
    BY <1>1, <1>2, <2>1 DEF LaidSoFar, Blocks
  <2> QED BY <2>1, <2>2, <2>3
<1>4. CASE /\ BlockAcceptable(Next_token) /\ tt' = Next_token[2]
           /\ state_out_len' = 0 /\ state_out_ch' = 0
           /\ calculatedBlockCRC' = <<>> /\ nblock_used' = 1
           /\ state' = "OUTPUT"
           /\ saved' = [avail_out |-> avail_out, out |-> out, nblock_used |-> 1,
                        len |-> 0, ch |-> 0, crc |-> <<>>]
           /\ UNCHANGED ret
  <2>1. ret' = "none"
    BY <1>1, <1>4
  <2>2. AccountInv'
    <3>1. out = Seqs!FlattenSeq(calculatedCombinedCRC)
      BY <1>0, <1>1, <2>1 DEF AccountInv, OutputAccounted
    <3>2. calculatedCombinedCRC \in Seq(Seq(Bytes)) /\ <<>> \in Seq(Bytes)
      BY <1>1, Empties DEF TypeOK, BlockType
    <3>3. Seqs!FlattenSeq(calculatedCombinedCRC) \in Seq(Bytes)
      BY <3>2, FlattenAppend
    <3>4. Seqs!FlattenSeq(calculatedCombinedCRC) \o <<>> = Seqs!FlattenSeq(calculatedCombinedCRC)
      BY <3>3, ConcatEmptySeq
    <3>5. saved'.out = out /\ saved'.crc = <<>>
      BY <1>4
    <3> QED BY <1>1, <1>2, <1>4, <3>1, <3>4, <3>5 DEF AccountInv, OutputAccounted
  <2>3. ParseInv'
    <3>1. Next_token[1] \in DataKinds /\ Next_token[1] # "crc"
      BY <1>4 DEF BlockAcceptable, DataKinds
    <3>2. \A i \in 1..pos' : source'[i][1] # "crc"
      BY <1>1, <3>1
    <3>3. /\ pos' = 2 * Blocks' + 4 /\ pos' - 1 = pos
          /\ source'[pos'] = Next_token
      BY <1>1, <1>3 DEF Next_token
    <3>4. source'[pos' - 1][1] = "block" /\ source'[pos' - 1][2] = storedBlockCRC'
      BY <1>1, <1>2, <1>3, <3>3
    <3>5. source'[pos'][1] \in DataKinds /\ source'[pos'][2] = tt'
      BY <1>4, <3>1, <3>3
    <3> QED BY <1>3, <1>4, <2>1, <3>2, <3>3, <3>4, <3>5 DEF ParseInv, Parsing
  <2>4. BlockInv'
    <3>1. Used' = RLEStart
      <4>1. SubSeq(tt', 1, nblock_used' - 1) = <<>>
        BY <1>4
      <4> QED BY <4>1, UnRLEEmpty DEF Used
    <3>2. tt' \in Seq(Bytes) /\ nblock' \in Nat /\ nblock' >= 1
      <4>1. TypeOK' /\ BlockInTable'
        BY DEF IInv
      <4>2. tt' \in Seq(Bytes)
        BY <4>1 DEF TypeOK, BlockType
      <4>3. nblock' \in Nat
        BY <4>2, LenProperties DEF nblock
      <4> QED BY <1>4, <4>1, <4>2, <4>3 DEF BlockInTable
    <3>3. nblock_used' # nblock' + 2
      <4>1. nblock_used' = 1
        BY <1>4
      <4>2. nblock' \in Nat /\ nblock' >= 1
        BY <3>2
      <4>3. \A m \in Nat : m >= 1 => 1 # m + 2
        OBVIOUS
      <4>4. 1 # nblock' + 2
        BY <4>2, <4>3
      <4> QED BY <4>1, <4>4
    <3>4. Used'.same # 4 /\ Used'.ch = 256
      BY <3>1 DEF RLEStart
    <3>5. Used'.out = <<>>
      BY <3>1 DEF RLEStart
    <3>6. calculatedBlockCRC' \o Run(state_out_ch', state_out_len') = <<>>
      <4>1. Run(state_out_ch', state_out_len') = <<>>
        BY <1>4 DEF Run
      <4> QED BY <1>4, <4>1, Empties, ConcatEmptySeq
    <3>7. tt'[nblock_used'] \in Bytes
      <4>1. 1 \in 1..Len(tt')
        BY <3>2 DEF nblock
      <4> QED BY <1>4, <3>2, <4>1, ElementOfSeq
    <3>8. Used'.ch # tt'[nblock_used']
      <4>1. \A b \in Bytes : 256 # b
        BY DEF Bytes
      <4> QED BY <3>4, <3>7, <4>1
    <3> QED BY <3>3, <3>4, <3>5, <3>6, <3>8 DEF BlockInv
  <2>5. SoundAccepted'
    BY <2>1 DEF SoundAccepted
  <2> QED BY <2>2, <2>3, <2>4, <2>5 DEF FullInv
<1>5. CASE ~BlockAcceptable(Next_token) /\ Give("DATA_ERROR") /\ UNCHANGED state
  <2>1. ~\E n : Rules(source, n)
    BY <1>0, <1>1, <1>5, SoundBlock
  <2>2. ret' \in {"DATA_ERROR", "DATA_ERROR_MAGIC"}
    BY <1>5 DEF Give
  <2>3. AccountInv'
    BY <1>0, <1>1, <1>2, <1>5, AccountParse
  <2> QED BY <1>1, <2>1, <2>2, <2>3, Refused
<1> QED BY <1>4, <1>5 DEF ReadBlockData

LEMMA ReadStreamCRCFull == FullInv /\ IInv' /\ ReadStreamCRC => FullInv'
<1> SUFFICES ASSUME FullInv, IInv', ReadStreamCRC PROVE FullInv'
  OBVIOUS
<1>0. pc = "parse" /\ state = "ENDHDR" /\ Take /\ state' = "IDLE"
  BY DEF ReadStreamCRC
<1>1. /\ TypeOK /\ AccountInv /\ ParseInv /\ Going /\ ret = "none" /\ pos \in Nat
      /\ pos < Len(source) /\ pos' = pos + 1 /\ UNCHANGED source /\ UNCHANGED out
  BY <1>0, Taken
<1>2. UNCHANGED calculatedCombinedCRC /\ UNCHANGED blockSize100k
  BY <1>0 DEF ReadStreamCRC, crcVars
<1>3. AccountInv'
  BY <1>0, <1>1, <1>2, AccountParse
<1>4. CASE Next_token = <<"crc", calculatedCombinedCRC>> /\ Give("STREAM_END")
  <2>1. LaidSoFar /\ pos = 2 * Blocks + 3 /\ source[pos][1] = "end"
    BY <1>0, <1>1 DEF ParseInv, Parsing
  <2>2. Blocks \in Nat
    BY <1>1, LenProperties DEF TypeOK, BlockType, Blocks
  <2>3. LaidSoFar' /\ Blocks' = Blocks
    BY <1>1, <1>2, <2>1 DEF LaidSoFar, Blocks
  <2>4. pos' = 2 * Blocks' + 4 /\ pos' - 1 = pos /\ source'[pos'] = Next_token
    BY <1>1, <2>1, <2>2, <2>3 DEF Next_token
  <2>5. ret' = "STREAM_END"
    BY <1>4 DEF Give
  <2>6. source'[pos' - 1][1] = "end"
    BY <1>1, <2>1, <2>4
  <2>7. source'[pos'][1] = "crc" /\ source'[pos'][2] = calculatedCombinedCRC'
    BY <1>2, <1>4, <2>4
  <2>8. ParseInv'
    BY <1>0, <2>3, <2>4, <2>6, <2>7 DEF ParseInv, Parsing
  <2>9. BlockInv' /\ SoundAccepted'
    BY <1>0, <2>5 DEF BlockInv, SoundAccepted
  <2> QED BY <1>3, <2>8, <2>9 DEF FullInv
<1>5. CASE Next_token # <<"crc", calculatedCombinedCRC>> /\ Give("DATA_ERROR")
  <2>1. ~\E n : Rules(source, n)
    BY <1>0, <1>1, <1>5, SoundBlock
  <2>2. ret' \in {"DATA_ERROR", "DATA_ERROR_MAGIC"}
    BY <1>5 DEF Give
  <2> QED BY <1>1, <1>3, <2>1, <2>2, Refused
<1> QED BY <1>4, <1>5 DEF ReadStreamCRC

------------------------------------------------------------------------------
(* The output functions: the block's bytes used so far, and what they give. *)

(* What they find. *)
LEMMA GivingOut ==
  ASSUME FullInv, pc = "unRLE"
  PROVE  /\ TypeOK /\ AccountInv /\ ParseInv /\ BlockInv /\ SoundAccepted
         /\ state = "OUTPUT" /\ ret = "none" /\ Going
         /\ tt \in Seq(Bytes) /\ nblock \in Nat /\ nblock = Len(tt) /\ nblock >= 1
         /\ nblock <= nblockMAX /\ nblock_used \in 1..(nblock + 2)
         /\ calculatedBlockCRC \in Seq(Bytes) /\ state_out_ch \in Bytes
         /\ state_out_len \in 0..259
         /\ calculatedCombinedCRC \in Seq(Seq(Bytes))
         /\ Seqs!FlattenSeq(calculatedCombinedCRC) \in Seq(Bytes)
         /\ out = Seqs!FlattenSeq(calculatedCombinedCRC) \o calculatedBlockCRC
<1>1. IInv /\ TypeOK /\ AccountInv /\ ParseInv /\ BlockInv /\ SoundAccepted
  BY DEF FullInv, IInv
<1>2. /\ state = "OUTPUT" /\ ret = "none" /\ tt \in Seq(Bytes) /\ nblock \in Nat
      /\ nblock >= 1 /\ nblock <= nblockMAX /\ nblock_used \in 1..(nblock + 2)
  BY <1>1, OutputFrame
<1>3. Going
  BY <1>2 DEF Going, Errors
<1>4. /\ calculatedBlockCRC \in Seq(Bytes) /\ state_out_ch \in Bytes
      /\ state_out_len \in 0..259 /\ calculatedCombinedCRC \in Seq(Seq(Bytes))
  BY <1>1 DEF TypeOK, BlockType
<1>5. Seqs!FlattenSeq(calculatedCombinedCRC) \in Seq(Bytes)
  BY <1>4, FlattenAppend
<1>6. out = Seqs!FlattenSeq(calculatedCombinedCRC) \o calculatedBlockCRC
  BY <1>1, <1>2 DEF AccountInv, OutputAccounted
<1> QED BY <1>1, <1>2, <1>3, <1>4, <1>5, <1>6 DEF nblock

(* The first byte of a run is put out, the rest stays. *)
LEMMA FirstOfRun ==
  ASSUME NEW s \in Seq(Bytes), NEW c \in Bytes, NEW n \in Nat, n > 0
  PROVE  s \o Run(c, n) = Append(s, c) \o Run(c, n - 1)
<1>1. n - 1 \in Nat /\ 1 \in Nat /\ 1 + (n - 1) = n
  OBVIOUS
<1>2. Run(c, 1 + (n - 1)) = Run(c, 1) \o Run(c, n - 1)
  BY <1>1, RunSum
<1>3. Run(c, n) = <<c>> \o Run(c, n - 1)
  BY <1>1, <1>2, RunOfOne
<1>4. <<c>> \in Seq(Bytes) /\ Run(c, n - 1) \in Seq(Bytes)
  BY <1>1, RunType
<1>5. (s \o <<c>>) \o Run(c, n - 1) = s \o (<<c>> \o Run(c, n - 1))
  BY <1>4, ConcatAssociative
<1>6. Append(s, c) = s \o <<c>>
  BY AppendIsConcat
<1> QED BY <1>3, <1>5, <1>6

LEMMA PutByteFull == FullInv /\ IInv' /\ PutByte => FullInv'
<1> SUFFICES ASSUME FullInv, IInv', PutByte PROVE FullInv'
  OBVIOUS
<1>1. /\ pc = "unRLE" /\ state_out_len > 0
      /\ out' = Append(out, state_out_ch)
      /\ calculatedBlockCRC' = Append(calculatedBlockCRC, state_out_ch)
      /\ state_out_len' = state_out_len - 1
      /\ UNCHANGED <<state, pos, source, blockSize100k, calculatedCombinedCRC,
                     storedBlockCRC, tt>>
      /\ UNCHANGED <<nblock_used, state_out_ch, pc, saved, ret>>
  BY DEF PutByte, inVars, lifeVars, blockVars, crcVars
<1>2. /\ AccountInv /\ ParseInv /\ BlockInv /\ SoundAccepted /\ state = "OUTPUT"
      /\ ret = "none" /\ Going /\ calculatedBlockCRC \in Seq(Bytes)
      /\ state_out_ch \in Bytes /\ state_out_len \in 0..259
      /\ Seqs!FlattenSeq(calculatedCombinedCRC) \in Seq(Bytes)
      /\ out = Seqs!FlattenSeq(calculatedCombinedCRC) \o calculatedBlockCRC
  BY <1>1, GivingOut
<1>3. AccountInv'
  <2>1. out' = Seqs!FlattenSeq(calculatedCombinedCRC) \o calculatedBlockCRC'
    <3> DEFINE before == Seqs!FlattenSeq(calculatedCombinedCRC)
    <3>1. before \in Seq(Bytes) /\ out = before \o calculatedBlockCRC
      BY <1>2
    <3> HIDE DEF before
    <3>2. before \o Append(calculatedBlockCRC, state_out_ch)
            = Append(before \o calculatedBlockCRC, state_out_ch)
      BY <1>2, <3>1, AppendRegroup
    <3>3. out' = before \o calculatedBlockCRC'
      BY <1>1, <3>1, <3>2
    <3> QED BY <3>3 DEF before
  <2> QED BY <1>1, <1>2, <2>1 DEF AccountInv, OutputAccounted
<1>4. ParseInv'
  BY <1>1, <1>2, ParseFrame
<1>5. SoundAccepted'
  BY <1>1, <1>2, SoundFrame
<1>6. BlockInv'
  <2>1. Used' = Used /\ nblock' = nblock
    BY <1>1 DEF Used, nblock
  <2>2. CASE nblock_used = nblock + 2
    BY <1>1, <1>2, <2>1, <2>2 DEF BlockInv
  <2>3. CASE nblock_used # nblock + 2
    <3>1. /\ Used.same # 4
          /\ Used.out = calculatedBlockCRC \o Run(state_out_ch, state_out_len)
          /\ nblock_used <= nblock => Used.ch # tt[nblock_used]
      BY <1>2, <2>3 DEF BlockInv
    <3>2. state_out_len \in Nat /\ state_out_len > 0
      BY <1>1, <1>2
    <3>3. calculatedBlockCRC \o Run(state_out_ch, state_out_len)
            = calculatedBlockCRC' \o Run(state_out_ch, state_out_len - 1)
      BY <1>1, <1>2, <3>2, FirstOfRun
    <3>4. Used'.out = calculatedBlockCRC' \o Run(state_out_ch', state_out_len')
      BY <1>1, <2>1, <3>1, <3>3
    <3> QED BY <1>1, <2>1, <2>3, <3>1, <3>4 DEF BlockInv
  <2> QED BY <2>2, <2>3
<1> QED BY <1>3, <1>4, <1>5, <1>6 DEF FullInv

(* An overrun is found only in a block that stops where a count must follow. *)
LEMMA OverrunFull == FullInv /\ IInv' /\ Overrun => FullInv'
<1> SUFFICES ASSUME FullInv, IInv', Overrun PROVE FullInv'
  OBVIOUS
<1>1. /\ pc = "unRLE" /\ nblock_used > nblock + 1 /\ Give("DATA_ERROR")
      /\ UNCHANGED <<state, source, calculatedCombinedCRC>>
      /\ IF Fast THEN out' = saved.out /\ calculatedBlockCRC' = saved.crc
                 ELSE UNCHANGED out /\ UNCHANGED calculatedBlockCRC
  BY DEF Overrun, inVars, runVars, crcVars
<1>2. /\ TypeOK /\ AccountInv /\ ParseInv /\ BlockInv /\ Going /\ state = "OUTPUT"
      /\ nblock \in Nat /\ nblock_used \in 1..(nblock + 2)
  BY <1>1, GivingOut
<1>3. EndsBeforeCount(tt)
  <2>1. nblock_used = nblock + 2
    BY <1>1, <1>2
  <2> QED BY <1>2, <2>1 DEF BlockInv
<1>4. ~\E n : Rules(source, n)
  BY <1>2, <1>3, SoundOutput
<1>5. AccountInv'
  <2>1. pc' = "client"
    BY <1>1 DEF Give
  <2>2. /\ out = Seqs!FlattenSeq(calculatedCombinedCRC) \o calculatedBlockCRC
        /\ saved.out = Seqs!FlattenSeq(calculatedCombinedCRC) \o saved.crc
    BY <1>1, <1>2 DEF AccountInv, OutputAccounted
  <2>3. out' = Seqs!FlattenSeq(calculatedCombinedCRC) \o calculatedBlockCRC'
    BY <1>1, <2>2
  <2> QED BY <1>1, <1>2, <2>1, <2>3 DEF AccountInv, OutputAccounted
<1>6. ret' \in {"DATA_ERROR", "DATA_ERROR_MAGIC"}
  BY <1>1 DEF Give
<1> QED BY <1>1, <1>4, <1>5, <1>6, Refused

(* A block given out whole decodes to what its CRC was calculated from. *)
LEMMA WholeBlock ==
  ASSUME FullInv, pc = "unRLE", BlockDone
  PROVE  UnRLE(tt) = calculatedBlockCRC /\ ~EndsBeforeCount(tt)
<1>1. /\ BlockInv /\ Going /\ state = "OUTPUT" /\ tt \in Seq(Bytes) /\ nblock \in Nat
      /\ nblock = Len(tt) /\ calculatedBlockCRC \in Seq(Bytes) /\ state_out_ch \in Bytes
  BY GivingOut
<1>2. nblock_used = nblock + 1 /\ state_out_len = 0
  BY DEF BlockDone
<1>3. nblock_used # nblock + 2 /\ nblock_used - 1 = nblock
  BY <1>1, <1>2
<1>4. Used.same # 4 /\ Used.out = calculatedBlockCRC \o Run(state_out_ch, state_out_len)
  BY <1>1, <1>3 DEF BlockInv
<1>5. Run(state_out_ch, state_out_len) = <<>>
  BY <1>2 DEF Run
<1>6. Used.out = calculatedBlockCRC
  BY <1>1, <1>4, <1>5, ConcatEmptySeq
<1>7. SubSeq(tt, 1, nblock) = tt
  BY <1>1, PrefixNext
<1>8. Used = UnRLEBlock(tt)
  BY <1>3, <1>7 DEF Used
<1> QED BY <1>4, <1>6, <1>8 DEF UnRLE, EndsBeforeCount

LEMMA ReturnFull == FullInv /\ IInv' /\ ReturnNotCorrupt => FullInv'
<1> SUFFICES ASSUME FullInv, IInv', ReturnNotCorrupt PROVE FullInv'
  OBVIOUS
<1>1. /\ pc = "unRLE"
      /\ UNCHANGED <<pos, source, blockSize100k, storedBlockCRC, tt>>
      /\ UNCHANGED runVars /\ UNCHANGED calculatedBlockCRC /\ UNCHANGED out
  BY DEF ReturnNotCorrupt, inVars, lifeVars, blockVars, runVars
<1>2. /\ TypeOK /\ AccountInv /\ ParseInv /\ BlockInv /\ SoundAccepted
      /\ state = "OUTPUT" /\ ret = "none" /\ Going
      /\ tt \in Seq(Bytes) /\ nblock \in Nat /\ nblock = Len(tt) /\ nblock >= 1
      /\ nblock <= nblockMAX /\ calculatedBlockCRC \in Seq(Bytes)
      /\ calculatedCombinedCRC \in Seq(Seq(Bytes))
      /\ out = Seqs!FlattenSeq(calculatedCombinedCRC) \o calculatedBlockCRC
  BY <1>1, GivingOut
<1>3. CASE ~BlockDone /\ Give("OK") /\ UNCHANGED <<state, calculatedCombinedCRC>>
  <2>1. ret' = "OK" /\ pc' = "client"
    BY <1>3 DEF Give
  <2>2. AccountInv'
    BY <1>1, <1>2, <1>3, <2>1, AccountFrame
  <2>3. ParseInv'
    BY <1>1, <1>2, <1>3, <2>1, ParseFrame
  <2>4. BlockInv'
    BY <1>1, <1>2, <1>3, BlockFrame
  <2>5. SoundAccepted'
    BY <2>1 DEF SoundAccepted
  <2> QED BY <2>2, <2>3, <2>4, <2>5 DEF FullInv
<1>4. CASE /\ BlockDone /\ calculatedBlockCRC # storedBlockCRC /\ Give("DATA_ERROR")
           /\ UNCHANGED <<state, calculatedCombinedCRC>>
  <2>1. ret' \in {"DATA_ERROR", "DATA_ERROR_MAGIC"} /\ pc' = "client"
    BY <1>4 DEF Give
  <2>2. AccountInv'
    BY <1>1, <1>2, <1>4, <2>1, AccountFrame
  <2>3. UnRLE(tt) # storedBlockCRC
    BY <1>1, <1>4, WholeBlock
  <2>4. ~\E n : Rules(source, n)
    BY <1>2, <2>3, SoundOutput
  <2> QED BY <1>1, <2>1, <2>2, <2>4, Refused
<1>5. CASE /\ BlockDone /\ calculatedBlockCRC = storedBlockCRC
           /\ calculatedCombinedCRC' = Append(calculatedCombinedCRC, calculatedBlockCRC)
           /\ state' = "BLKHDR" /\ UNCHANGED ret
  <2> DEFINE crcs == calculatedCombinedCRC  more == Append(crcs, UnRLE(tt))
  <2>1. /\ UnRLE(tt) = calculatedBlockCRC /\ ~EndsBeforeCount(tt)
        /\ calculatedCombinedCRC' = more
    BY <1>1, <1>5, WholeBlock
  <2>2. AccountInv'
    <3>1. Seqs!FlattenSeq(Append(calculatedCombinedCRC, calculatedBlockCRC))
            = Seqs!FlattenSeq(calculatedCombinedCRC) \o calculatedBlockCRC
      BY <1>2, FlattenAppend
    <3> QED BY <1>1, <1>2, <1>5, <3>1 DEF AccountInv, OutputAccounted
  <2>3. /\ LaidSoFar /\ pos = 2 * Blocks + 4 /\ \A i \in 1..pos : source[i][1] # "crc"
        /\ source[pos - 1][1] = "block" /\ source[pos - 1][2] = storedBlockCRC
        /\ source[pos][1] \in DataKinds /\ source[pos][2] = tt
    BY <1>2 DEF ParseInv, Parsing
  <2>4. /\ Blocks \in Nat /\ Blocks = Len(crcs) /\ Len(crcs) \in Nat
        /\ source \in Seq(Token) /\ Len(source) \in Nat /\ pos <= Len(source)
        /\ BlockUnit \in Nat /\ blockSize100k \in 1..9
    BY <1>2, <2>3, LenProperties DEF TypeOK, StrmType, BlockType, Blocks, LaidSoFar
  <2>5. /\ Laid(source, blockSize100k, crcs, BlockUnit) /\ Len(source) >= 4 + 2 * Len(crcs)
        /\ pos - 1 = 2 * Len(crcs) + 3 /\ pos = 2 * Len(crcs) + 4
    BY <2>3, <2>4 DEF LaidSoFar
  <2>6. /\ source[2 * Len(crcs) + 3][1] = "block"
        /\ source[2 * Len(crcs) + 3][2] = UnRLE(tt)
        /\ source[2 * Len(crcs) + 4][1] \in DataKinds
        /\ source[2 * Len(crcs) + 4][2] = tt
    BY <1>5, <2>1, <2>3, <2>5
  <2>7. Len(tt) \in 1..(BlockUnit * blockSize100k)
    BY <1>2, <2>4 DEF nblockMAX
  <2>8. crcs \in Seq(Seq(Bytes))
    BY <1>2
  <2> HIDE DEF crcs
  <2>9. Len(more) = Len(crcs) + 1 /\ Laid(source, blockSize100k, more, BlockUnit)
    <3>1. source \in Seq(Token) /\ BlockUnit \in Nat /\ blockSize100k \in 1..9
      BY <2>4
    <3>2. tt \in Seq(Bytes) /\ ~EndsBeforeCount(tt)
      BY <1>2, <2>1
    <3>3. Laid(source, blockSize100k, crcs, BlockUnit) /\ Len(source) >= 4 + 2 * Len(crcs)
      BY <2>5
    <3> QED BY <2>6, <2>7, <2>8, <3>1, <3>2, <3>3, LaidMore, SMTT(40)
  <2>10. LaidSoFar' /\ pos' = 2 * Blocks' + 2
    <3>1. Blocks' = Len(crcs) + 1
      BY <2>1, <2>9 DEF Blocks
    <3>2. pos = 2 * (Len(crcs) + 1) + 2
      BY <2>4, <2>5
    <3>3. pos' = 2 * Blocks' + 2
      BY <1>1, <3>1, <3>2
    <3> QED BY <1>1, <2>1, <2>4, <2>9, <3>3 DEF LaidSoFar
  <2>11. ret' = "none"
    BY <1>2, <1>5
  <2>12. ParseInv'
    BY <1>1, <1>5, <2>3, <2>10, <2>11 DEF ParseInv
  <2>13. BlockInv' /\ SoundAccepted'
    BY <1>5, <2>11 DEF BlockInv, SoundAccepted
  <2> QED BY <2>2, <2>12, <2>13 DEF FullInv
<1> QED BY <1>3, <1>4, <1>5 DEF ReturnNotCorrupt

(* Within the block BZ_GET yields its bytes. *)
LEMMA GetPlain ==
  ASSUME tt \in Seq(Bytes), NEW i \in 1..nblock
  PROVE  BZ_GET(i) = tt[i]
<1>1. nblock \in Nat \ {0} /\ i - 1 \in 0..(nblock - 1)
  BY LenProperties DEF nblock
<1>2. (i - 1) % nblock = i - 1
  BY <1>1
<1>3. ((i - 1) % nblock) + 1 = i
  BY <1>2
<1> QED BY <1>3 DEF BZ_GET

(* What NewRun leaves alone. *)
LEMMA NewRunFrame ==
  ASSUME FullInv, IInv', NewRun, BlockInv'
  PROVE  FullInv'
<1>1. /\ pc = "unRLE"
      /\ UNCHANGED <<state, out, calculatedCombinedCRC, calculatedBlockCRC>>
      /\ UNCHANGED <<pos, source, blockSize100k, storedBlockCRC, tt>>
      /\ UNCHANGED <<pc, saved, ret>>
  BY DEF NewRun, inVars, outVars, lifeVars, blockVars, crcVars
<1>2. AccountInv /\ ParseInv /\ SoundAccepted /\ ret = "none" /\ Going
  BY <1>1, GivingOut
<1>3. AccountInv'
  BY <1>1, <1>2, AccountFrame
<1>4. ParseInv'
  BY <1>1, <1>2, ParseFrame
<1>5. SoundAccepted'
  BY <1>1, <1>2, SoundFrame
<1> QED BY <1>3, <1>4, <1>5 DEF FullInv

(* What a new run starts from: all that was decoded is given out, and the  *)
(* next byte is not the one before.                                        *)
LEMMA RunStarts ==
  ASSUME FullInv, NewRun
  PROVE  /\ nblock_used \in 1..nblock /\ nblock \in Nat /\ nblock = Len(tt)
         /\ tt \in Seq(Bytes) /\ k0 = tt[nblock_used] /\ k0 \in Bytes
         /\ SubSeq(tt, 1, nblock_used - 1) \in Seq(Bytes)
         /\ Used.same # 4 /\ Used.ch # k0 /\ Used.out = calculatedBlockCRC
         /\ calculatedBlockCRC \in Seq(Bytes)
         /\ \A v \in 1..nblock : ~EndsRun(v) => tt[v] = k0
         /\ UNCHANGED <<tt, calculatedBlockCRC>> /\ state_out_ch' = k0
<1>1. /\ pc = "unRLE" /\ state_out_len = 0 /\ nblock_used <= nblock
      /\ UNCHANGED <<tt, calculatedBlockCRC>> /\ state_out_ch' = k0
  BY DEF NewRun, blockVars
<1>2. /\ BlockInv /\ Going /\ state = "OUTPUT" /\ tt \in Seq(Bytes) /\ nblock \in Nat
      /\ nblock = Len(tt) /\ nblock_used \in 1..(nblock + 2)
      /\ calculatedBlockCRC \in Seq(Bytes) /\ state_out_ch \in Bytes
  BY <1>1, GivingOut
<1>3. nblock_used \in 1..nblock /\ nblock_used # nblock + 2 /\ nblock_used - 1 \in Nat
      /\ nblock_used - 1 <= Len(tt)
  BY <1>1, <1>2
<1>4. k0 = tt[nblock_used]
  BY <1>2, <1>3, GetPlain DEF k0
<1>5. k0 \in Bytes
  <2>1. nblock_used \in 1..Len(tt)
    BY <1>2, <1>3
  <2> QED BY <1>2, <1>4, <2>1, ElementOfSeq
<1>6. SubSeq(tt, 1, nblock_used - 1) \in Seq(Bytes)
  BY <1>2, <1>3, PrefixNext
<1>7. /\ Used.same # 4 /\ Used.ch # tt[nblock_used]
      /\ Used.out = calculatedBlockCRC \o Run(state_out_ch, state_out_len)
  BY <1>1, <1>2, <1>3 DEF BlockInv
<1>8. Run(state_out_ch, state_out_len) = <<>>
  BY <1>1 DEF Run
<1>9. Used.out = calculatedBlockCRC
  BY <1>2, <1>7, <1>8, ConcatEmptySeq
<1>10. ASSUME NEW v \in 1..nblock, ~EndsRun(v) PROVE tt[v] = k0
  BY <1>2, <1>10, GetPlain DEF EndsRun
<1> QED BY <1>1, <1>2, <1>3, <1>4, <1>5, <1>6, <1>7, <1>9, <1>10

(* The first n of four equal bytes, the next of which is tt[nblock_used].  *)
LEMMA RunTaken ==
  ASSUME FullInv, NewRun, NEW n \in 1..4,
         \A j \in 1..(n - 1) : ~EndsRun(nblock_used + j)
  PROVE  /\ nblock_used + n - 1 <= nblock
         /\ UnRLEBlock(SubSeq(tt, 1, nblock_used + n - 1))
              = [out |-> calculatedBlockCRC \o Run(k0, n), ch |-> k0, same |-> n]
<1> DEFINE u == nblock_used  prev == SubSeq(tt, 1, u - 1)  k == k0
<1>1. /\ u \in 1..nblock /\ nblock \in Nat /\ nblock = Len(tt) /\ tt \in Seq(Bytes)
      /\ k = tt[u] /\ k \in Bytes /\ prev \in Seq(Bytes)
      /\ Used.same # 4 /\ Used.ch # k /\ Used.out = calculatedBlockCRC
      /\ \A v \in 1..nblock : ~EndsRun(v) => tt[v] = k
  BY RunStarts
<1>2. UnRLEBlock(prev).same # 4 /\ UnRLEBlock(prev).ch # k
      /\ UnRLE(prev) = calculatedBlockCRC
  BY <1>1 DEF Used, UnRLE
<1>3. \A j \in 1..(n - 1) : u + j # nblock + 1
  BY DEF EndsRun
<1>4. u + n - 1 <= nblock
  <2>1. n = 1 \/ n = 2 \/ n = 3 \/ n = 4
    OBVIOUS
  <2>2. n > 1 => u + 1 # nblock + 1
    BY <1>3
  <2>3. n > 2 => u + 2 # nblock + 1
    BY <1>3
  <2>4. n > 3 => u + 3 # nblock + 1
    BY <1>3
  <2> HIDE DEF u
  <2> QED BY <1>1, <2>1, <2>2, <2>3, <2>4
<1>5. ASSUME NEW j \in 1..n PROVE tt[(u - 1) + j] = k
  <2>1. CASE j = 1
    <3>1. (u - 1) + j = u
      BY <1>1, <2>1
    <3> QED BY <1>1, <3>1
  <2>2. CASE j # 1
    <3>1. j - 1 \in 1..(n - 1) /\ u + (j - 1) = (u - 1) + j
      BY <1>1, <2>2
    <3>2. (u - 1) + j \in 1..nblock
      BY <1>1, <1>4
    <3>3. ~EndsRun(u + (j - 1))
      BY <3>1
    <3>4. ~EndsRun((u - 1) + j)
      BY <3>1, <3>3
    <3> QED BY <1>1, <3>2, <3>4
  <2> QED BY <2>1, <2>2
<1>6. u - 1 \in Nat /\ (u - 1) + n = u + n - 1 /\ (u - 1) + n <= Len(tt) /\ n \in Nat
  BY <1>1, <1>4
<1> HIDE DEF k
<1>7. SubSeq(tt, 1, (u - 1) + n) = prev \o Run(k, n)
  <2> DEFINE w == u - 1
  <2>1. w \in Nat /\ w + n <= Len(tt) /\ n \in Nat
    BY <1>6
  <2>2. \A j \in 1..n : tt[w + j] = k
    BY <1>5
  <2>3. tt \in Seq(Bytes) /\ k \in Bytes
    BY <1>1
  <2> HIDE DEF w
  <2>4. SubSeq(tt, 1, w + n) = SubSeq(tt, 1, w) \o Run(k, n)
    BY <2>1, <2>2, <2>3, PrefixRun, ZenonT(60)
  <2> QED BY <2>4 DEF w
<1> HIDE DEF prev
<1>8. UnRLEBlock(prev \o Run(k, n))
        = [out |-> UnRLE(prev) \o Run(k, n), ch |-> k, same |-> n]
  BY <1>1, <1>2, UnRLECopies
<1>9. UnRLEBlock(SubSeq(tt, 1, u + n - 1))
        = [out |-> calculatedBlockCRC \o Run(k, n), ch |-> k, same |-> n]
  BY <1>2, <1>6, <1>7, <1>8
<1> QED BY <1>4, <1>9 DEF k

(* A run of one to three bytes ends at another byte or with the block. *)
LEMMA ShortRunFull ==
  ASSUME FullInv, IInv', NewRun, NEW n \in 1..3, EndsRun(nblock_used + n),
         \A j \in 1..(n - 1) : ~EndsRun(nblock_used + j),
         state_out_len' = n, nblock_used' = nblock_used + n
  PROVE  BlockInv'
<1> DEFINE u == nblock_used
<1>1. /\ u \in 1..nblock /\ nblock \in Nat /\ nblock = Len(tt) /\ tt \in Seq(Bytes)
      /\ UNCHANGED <<tt, calculatedBlockCRC>> /\ state_out_ch' = k0
  BY RunStarts
<1>2. /\ u + n - 1 <= nblock
      /\ UnRLEBlock(SubSeq(tt, 1, u + n - 1))
           = [out |-> calculatedBlockCRC \o Run(k0, n), ch |-> k0, same |-> n]
  <2>1. n \in 1..4
    OBVIOUS
  <2> QED BY <2>1, RunTaken
<1>3. nblock' = nblock /\ nblock_used' = u + n
  BY <1>1 DEF nblock
<1>4. nblock_used' # nblock' + 2
  BY <1>1, <1>2, <1>3
<1>5. Used' = [out |-> calculatedBlockCRC \o Run(k0, n), ch |-> k0, same |-> n]
  <2>1. Used' = UnRLEBlock(SubSeq(tt, 1, u + n - 1))
    BY <1>1, <1>3 DEF Used
  <2> QED BY <1>2, <2>1
<1>6. ASSUME nblock_used' <= nblock' PROVE k0 # tt[nblock_used']
  <2>1. u + n \in 1..nblock
    BY <1>1, <1>3, <1>6
  <2>2. BZ_GET(u + n) = tt[u + n]
    BY <1>1, <2>1, GetPlain
  <2>3. BZ_GET(u + n) # k0
    <3>1. u + n # nblock + 1
      BY <1>1, <2>1
    <3> QED BY <3>1 DEF EndsRun
  <2> QED BY <1>3, <2>2, <2>3
<1>7. /\ Used'.same # 4
      /\ Used'.out = calculatedBlockCRC' \o Run(state_out_ch', state_out_len')
      /\ nblock_used' <= nblock' => Used'.ch # tt'[nblock_used']
  <2>1. n # 4
    OBVIOUS
  <2> QED BY <1>1, <1>5, <1>6, <2>1
<1> QED BY <1>4, <1>7 DEF BlockInv

(* Four equal bytes are followed by a count, or the block has ended. *)
LEMMA LongRunFull ==
  ASSUME FullInv, IInv', NewRun,
         \A j \in 1..3 : ~EndsRun(nblock_used + j),
         state_out_len' = BZ_GET(nblock_used + 4) + 4,
         nblock_used' = nblock_used + 5
  PROVE  BlockInv'
<1> DEFINE u == nblock_used  pre == SubSeq(tt, 1, u + 3)
<1>1. /\ u \in 1..nblock /\ nblock \in Nat /\ nblock = Len(tt) /\ tt \in Seq(Bytes)
      /\ k0 \in Bytes /\ calculatedBlockCRC \in Seq(Bytes)
      /\ UNCHANGED <<tt, calculatedBlockCRC>> /\ state_out_ch' = k0
  BY RunStarts
<1>2. /\ u + 3 <= nblock
      /\ UnRLEBlock(pre)
           = [out |-> calculatedBlockCRC \o Run(k0, 4), ch |-> k0, same |-> 4]
  <2>1. 4 \in 1..4 /\ \A j \in 1..(4 - 1) : ~EndsRun(u + j)
    OBVIOUS
  <2>2. u + 4 - 1 = u + 3
    BY <1>1
  <2>3. /\ u + 4 - 1 <= nblock
        /\ UnRLEBlock(SubSeq(tt, 1, u + 4 - 1))
             = [out |-> calculatedBlockCRC \o Run(k0, 4), ch |-> k0, same |-> 4]
    BY <2>1, RunTaken
  <2> QED BY <2>2, <2>3
<1>3. nblock' = nblock /\ nblock_used' = u + 5
  BY <1>1 DEF nblock
<1>4. u + 3 \in Nat /\ u + 3 <= Len(tt) /\ (u + 3) + 1 = u + 4
  BY <1>1, <1>2
<1>5. /\ pre \in Seq(Bytes)
      /\ u + 4 <= Len(tt) => SubSeq(tt, 1, u + 4) = Append(pre, tt[u + 4])
      /\ u + 3 = Len(tt) => pre = tt
  <2> DEFINE w == u + 3
  <2>1. w \in Nat /\ w <= Len(tt)
    BY <1>4
  <2> HIDE DEF w
  <2>2. /\ SubSeq(tt, 1, w) \in Seq(Bytes)
        /\ w + 1 <= Len(tt) => SubSeq(tt, 1, w + 1) = Append(SubSeq(tt, 1, w), tt[w + 1])
        /\ w = Len(tt) => SubSeq(tt, 1, w) = tt
    BY <1>1, <2>1, PrefixNext
  <2> QED BY <1>4, <2>2 DEF w
<1>6. CASE u + 3 = nblock
  <2>1. nblock_used' = nblock' + 2
    BY <1>1, <1>3, <1>6
  <2>2. pre = tt
    BY <1>1, <1>5, <1>6
  <2> HIDE DEF pre
  <2>3. EndsBeforeCount(tt)
    BY <1>2, <2>2 DEF EndsBeforeCount
  <2> QED BY <1>1, <2>1, <2>3 DEF BlockInv
<1>7. CASE u + 3 # nblock
  <2> DEFINE c == tt[u + 4]
  <2>1. u + 4 \in 1..nblock
    BY <1>1, <1>2, <1>7
  <2>2. BZ_GET(u + 4) = c /\ c \in Bytes
    BY <1>1, <2>1, GetPlain, ElementOfSeq
  <2>3. SubSeq(tt, 1, u + 4) = Append(pre, c)
    BY <1>1, <1>5, <2>1
  <2> HIDE DEF c, pre
  <2>4. UnRLEBlock(Append(pre, c))
          = [out |-> (calculatedBlockCRC \o Run(k0, 4)) \o Run(k0, c),
             ch |-> 256, same |-> 0]
    <3> DEFINE acc == UnRLEBlock(pre)
    <3>1. UnRLEBlock(Append(pre, c)) = UnRLEByte(acc, c)
      BY <1>5, <2>2, UnRLEAppend
    <3>2. /\ acc.out = calculatedBlockCRC \o Run(k0, 4) /\ acc.ch = k0
          /\ acc.same = 4
      BY <1>2
    <3> HIDE DEF acc
    <3>3. UnRLEByte(acc, c) = [out |-> acc.out \o Run(acc.ch, c), ch |-> 256, same |-> 0]
      BY <3>2 DEF UnRLEByte
    <3> QED BY <3>1, <3>2, <3>3
  <2>5. c \in Nat /\ 4 \in Nat /\ 4 + c = c + 4
    BY <2>2 DEF Bytes
  <2>6. (calculatedBlockCRC \o Run(k0, 4)) \o Run(k0, c)
          = calculatedBlockCRC \o Run(k0, c + 4)
    <3>1. Run(k0, 4) \in Seq(Bytes) /\ Run(k0, c) \in Seq(Bytes)
      BY <1>1, <2>5, RunType
    <3>2. Run(k0, 4 + c) = Run(k0, 4) \o Run(k0, c)
      BY <1>1, <2>5, RunSum
    <3>3. (calculatedBlockCRC \o Run(k0, 4)) \o Run(k0, c)
            = calculatedBlockCRC \o (Run(k0, 4) \o Run(k0, c))
      <4> DEFINE x == Run(k0, 4)  y == Run(k0, c)
      <4>1. x \in Seq(Bytes) /\ y \in Seq(Bytes) /\ calculatedBlockCRC \in Seq(Bytes)
        BY <1>1, <3>1
      <4> HIDE DEF x, y
      <4>2. (calculatedBlockCRC \o x) \o y = calculatedBlockCRC \o (x \o y)
        BY <4>1, ConcatAssociative, SMTT(40)
      <4> QED BY <4>2 DEF x, y
    <3> QED BY <2>5, <3>2, <3>3
  <2>7. Used' = [out |-> calculatedBlockCRC \o Run(k0, c + 4), ch |-> 256, same |-> 0]
    <3>1. nblock_used' - 1 = u + 4
      BY <1>1, <1>3
    <3>2. Used' = UnRLEBlock(SubSeq(tt, 1, u + 4))
      BY <1>1, <3>1 DEF Used
    <3> QED BY <2>3, <2>4, <2>6, <3>2
  <2>8. nblock_used' # nblock' + 2
    BY <1>1, <1>3, <2>1
  <2>9. Used'.out = calculatedBlockCRC' \o Run(state_out_ch', state_out_len')
    <3>1. state_out_len' = c + 4
      BY <2>2
    <3> QED BY <1>1, <2>7, <3>1
  <2>10. ASSUME nblock_used' <= nblock' PROVE Used'.ch # tt'[nblock_used']
    <3>1. u + 5 \in 1..Len(tt)
      BY <1>1, <1>3, <2>10
    <3>2. tt[u + 5] \in Bytes
      BY <1>1, <3>1, ElementOfSeq
    <3>3. \A b \in Bytes : 256 # b
      BY DEF Bytes
    <3> QED BY <1>1, <1>3, <2>7, <3>2, <3>3
  <2>11. Used'.same # 4
    BY <2>7
  <2> QED BY <2>8, <2>9, <2>10, <2>11 DEF BlockInv
<1> QED BY <1>6, <1>7

LEMMA NewRunFull == FullInv /\ IInv' /\ NewRun => FullInv'
<1> SUFFICES ASSUME FullInv, IInv', NewRun PROVE BlockInv'
  BY NewRunFrame
<1>1. CASE \E n \in 1..3 :
             /\ EndsRun(nblock_used + n)
             /\ \A j \in 1..(n - 1) : ~EndsRun(nblock_used + j)
             /\ state_out_len' = n
             /\ nblock_used' = nblock_used + n
  BY <1>1, ShortRunFull
<1>2. CASE /\ \A j \in 1..3 : ~EndsRun(nblock_used + j)
           /\ state_out_len' = BZ_GET(nblock_used + 4) + 4
           /\ nblock_used' = nblock_used + 5
  BY <1>2, LongRunFull
<1> QED BY <1>1, <1>2 DEF NewRun

------------------------------------------------------------------------------
LEMMA StutterFull == FullInv /\ UNCHANGED vars => FullInv'
<1> SUFFICES ASSUME FullInv, UNCHANGED vars PROVE FullInv'
  OBVIOUS
<1>1. /\ UNCHANGED <<state, out, calculatedCombinedCRC, calculatedBlockCRC>>
      /\ UNCHANGED <<pos, source, blockSize100k, storedBlockCRC, tt>>
      /\ UNCHANGED <<pc, saved, ret>> /\ UNCHANGED runVars
  BY DEF vars, runVars
<1>2. /\ (Going' <=> Going) /\ IInv
      /\ AccountInv /\ ParseInv /\ BlockInv /\ SoundAccepted
  BY <1>1 DEF Going, FullInv
<1>3. IInv'
  BY <1>2, StutterStep
<1>4. AccountInv'
  BY <1>1, <1>2, AccountFrame
<1>5. ParseInv'
  BY <1>1, <1>2, ParseFrame
<1>6. BlockInv'
  BY <1>1, <1>2, BlockFrame
<1>7. SoundAccepted'
  BY <1>1, <1>2, SoundFrame
<1> QED BY <1>3, <1>4, <1>5, <1>6, <1>7 DEF FullInv

(* FullInv holds in every reachable state: each step keeps it, given that  *)
(* IInv holds after it too.                                                *)
THEOREM FullInductive == Spec => []FullInv
<1>1. FullInv /\ IInv' /\ [Next]_vars => FullInv'
  <2> SUFFICES ASSUME FullInv, IInv', [Next]_vars PROVE FullInv'
    OBVIOUS
  <2>1. CASE Caller
    <3>1. ASSUME NEW src \in Sources, NEW small \in 0..2, NEW got \in BOOLEAN,
                 BZ2_bzDecompressInit(src, small, got)
          PROVE  FullInv'
      BY <3>1, DecompressInitFull DEF BZ2_bzDecompressInit
    <3>2. ASSUME NEW ai \in 0..ChunkIn, NEW ao \in 0..ChunkOut,
                 BZ2_bzDecompress(ai, ao)
          PROVE  FullInv'
      BY <3>2, CallFull
    <3> QED BY <2>1, <3>1, <3>2, EndFull DEF Caller
  <2>2. CASE Parse
    BY <2>2, NeedInputFull, ReadMagicFull, ReadLevelFull, ReadBlockHeaderFull,
       ReadBlockDataFull, ReadStreamCRCFull DEF Parse
  <2>3. CASE UnRLEOutput
    BY <2>3, PutByteFull, NewRunFull, OverrunFull, ReturnFull DEF UnRLEOutput
  <2>4. CASE UNCHANGED vars
    BY <2>4, StutterFull
  <2> QED BY <2>1, <2>2, <2>3, <2>4 DEF Next, Library
<1> QED BY <1>1, InitFull, Inductive, PTL DEF Spec

(***************************************************************************)
(* The caller's buffers hold the accepted blocks and what has been given   *)
(* out of the current one, also after a FAST call that failed.             *)
(***************************************************************************)
THEOREM BuffersExact == Spec => []OutputAccounted
<1>1. FullInv => OutputAccounted
  BY DEF FullInv, AccountInv
<1> QED BY <1>1, FullInductive, PTL

(* At BZ_STREAM_END the tokens read are what LaidIsWhole asks for.        *)
LEMMA EndDecodes == FullInv => StreamEndSound
<1> DEFINE read == SubSeq(source, 1, pos)  crcs == calculatedCombinedCRC
<1> SUFFICES ASSUME FullInv, ret = "STREAM_END"
             PROVE  WellFormed(read, BlockUnit) /\ out = Content(read)
  BY DEF StreamEndSound
<1>1. TypeOK /\ AccountInv /\ ParseInv
  BY DEF FullInv, IInv
<1>2. /\ source \in Seq(Token) /\ Len(source) \in Nat /\ pos \in 0..Len(source)
      /\ crcs \in Seq(Seq(Bytes)) /\ Len(crcs) \in Nat /\ BlockUnit \in Nat
  BY <1>1, LenProperties DEF TypeOK, StrmType, BlockType
<1>3. /\ state = "IDLE" /\ Laid(source, blockSize100k, crcs, BlockUnit)
      /\ blockSize100k \in 1..9
      /\ pos = 2 * Len(crcs) + 4 /\ source[pos - 1][1] = "end"
      /\ source[pos][1] = "crc" /\ source[pos][2] = crcs
  BY <1>1 DEF ParseInv, LaidSoFar, Blocks
<1>4. Seqs!FlattenSeq(crcs) \in Seq(Bytes)
  BY <1>2, Empties, FlattenAppend
<1>5. out = Seqs!FlattenSeq(crcs)
  <2> DEFINE all == Seqs!FlattenSeq(crcs)
  <2>1. out = all \o <<>>
    BY <1>1, <1>3 DEF AccountInv, OutputAccounted
  <2>2. all \in Seq(Bytes)
    BY <1>4
  <2> HIDE DEF all
  <2>3. out = all
    BY <2>1, <2>2, ConcatEmptySeq
  <2> QED BY <2>3 DEF all
<1> HIDE DEF crcs
<1>6. pos \in Nat /\ pos <= Len(source) /\ pos >= 2 + 2 * Len(crcs)
  BY <1>2, <1>3
<1>7. /\ Laid(read, blockSize100k, crcs, BlockUnit) /\ read \in Seq(Token)
      /\ Len(read) = pos /\ \A i \in 1..pos : read[i] = source[i]
  <2>1. source \in Seq(Token) /\ BlockUnit \in Nat /\ crcs \in Seq(Seq(Bytes))
    BY <1>2
  <2>2. Laid(source, blockSize100k, crcs, BlockUnit) /\ blockSize100k \in 1..9
    BY <1>3
  <2> QED BY <1>6, <2>1, <2>2, LaidPrefix, SMTT(40)
<1> HIDE DEF read
<1>8. pos \in 1..pos /\ pos - 1 \in 1..pos
  BY <1>2, <1>3
<1>9. read[pos - 1][1] = "end" /\ read[pos][1] = "crc" /\ read[pos][2] = crcs
  BY <1>3, <1>7, <1>8
<1>10. WellFormed(read, BlockUnit) /\ Content(read) = Seqs!FlattenSeq(crcs)
  <2>1. read \in Seq(Token) /\ blockSize100k \in 1..9 /\ BlockUnit \in Nat
    BY <1>2, <1>3, <1>7
  <2>2. crcs \in Seq(Seq(Bytes)) /\ Laid(read, blockSize100k, crcs, BlockUnit)
    BY <1>2, <1>7
  <2>3. /\ Len(read) = 2 * Len(crcs) + 4 /\ read[Len(read) - 1][1] = "end"
        /\ read[Len(read)][1] = "crc" /\ read[Len(read)][2] = crcs
    BY <1>3, <1>7, <1>9
  <2> QED BY <2>1, <2>2, <2>3, LaidIsWhole
<1> QED BY <1>5, <1>10

(***************************************************************************)
(* BZ_STREAM_END: what has been read is one whole, sound stream, and the   *)
(* caller has all of its content.                                          *)
(***************************************************************************)
THEOREM EndIsSound == Spec => []StreamEndSound
BY EndDecodes, FullInductive, PTL

(***************************************************************************)
(* A sound stream is not refused, in whatever pieces it comes and with     *)
(* whatever room, in either mode.                                          *)
(***************************************************************************)
THEOREM SoundIsAccepted == Spec => []SoundAccepted
<1>1. FullInv => SoundAccepted
  BY DEF FullInv
<1> QED BY <1>1, FullInductive, PTL
==============================================================================
