------------------------ MODULE OneCallDecompressProofs ------------------------
(***************************************************************************)
(* Proofs about everything that calls the decompressor, the file interface *)
(* of BzRead and the one-call functions of OneCallDecompress: that both    *)
(* ends of a stream are told for what they are, that the unused bytes are  *)
(* those behind the trailer, and that BZ2_bzBuffToBuffDecompress tells     *)
(* rightly what has happened, for every file, buffer size and room.        *)
(***************************************************************************)
EXTENDS OneCallDecompress, DecompressStreamProofs

------------------------------------------------------------------------------
(* The decompressor under both of its callers keeps its invariant.         *)

LEMMA StreamCall ==
  ASSUME FullInv, NEW ai \in Nat, NEW ao \in 0..(WordSize - 1),
         BZ2_bzDecompress(ai, ao)
  PROVE  FullInv'
<1>1. IInv'
  BY CallStep DEF FullInv
<1> QED BY <1>1, CallFull

LEMMA StreamSetUp ==
  ASSUME FullInv, NEW src \in Seq(Token), NEW small, NEW got,
         SetUp(src, small, got), avail_in' \in Nat
  PROVE  FullInv'
<1>1. IInv'
  BY DecompressInitStep DEF FullInv
<1> QED BY <1>1, DecompressInitFull

LEMMA StreamEnd == FullInv /\ BZ2_bzDecompressEnd => FullInv'
<1> SUFFICES ASSUME FullInv, BZ2_bzDecompressEnd PROVE FullInv'
  OBVIOUS
<1>1. IInv'
  BY EndStep DEF FullInv
<1> QED BY <1>1, EndFull

LEMMA StreamLibrary == FullInv /\ Library => FullInv'
<1> SUFFICES ASSUME FullInv, Library PROVE FullInv'
  OBVIOUS
<1>0. IInv
  BY DEF FullInv
<1>1. CASE NeedInput
  BY <1>0, <1>1, NeedInputStep, NeedInputFull
<1>2. CASE ReadMagic
  BY <1>0, <1>2, ReadMagicStep, ReadMagicFull
<1>3. ASSUME NEW got \in SUBSET Tables, ReadLevel(got) PROVE FullInv'
  <2>1. IInv'
    BY <1>0, <1>3, ReadLevelStep
  <2> QED BY <1>3, <2>1, ReadLevelFull
<1>4. CASE ReadBlockHeader
  BY <1>0, <1>4, ReadBlockHeaderStep, ReadBlockHeaderFull
<1>5. CASE ReadBlockData
  BY <1>0, <1>5, ReadBlockDataStep, ReadBlockDataFull
<1>6. CASE ReadStreamCRC
  BY <1>0, <1>6, ReadStreamCRCStep, ReadStreamCRCFull
<1>7. CASE PutByte
  BY <1>0, <1>7, PutByteStep, PutByteFull
<1>8. CASE NewRun
  BY <1>0, <1>8, NewRunStep, NewRunFull
<1>9. CASE Overrun
  BY <1>0, <1>9, OverrunStep, OverrunFull
<1>10. CASE ReturnNotCorrupt
  BY <1>0, <1>10, ReturnStep, ReturnFull
<1> QED BY <1>1, <1>2, <1>3, <1>4, <1>5, <1>6, <1>7, <1>8, <1>9, <1>10
        DEF Library, Parse, UnRLEOutput

(* A caller that lets go of its bz_stream leaves no stream behind.         *)
LEMMA StreamForget == FullInv /\ state = "NONE" /\ pc = "client" /\ Forget => FullInv'
<1> SUFFICES ASSUME FullInv, state = "NONE", pc = "client", Forget PROVE FullInv'
  OBVIOUS
<1>1. /\ UNCHANGED <<state, smallDecompress, blockSize100k, heap, blockRandomised, tt,
           nblock_used, state_out_len, state_out_ch, calculatedBlockCRC,
           storedBlockCRC, calculatedCombinedCRC, pc, saved, source, pos, out>>
      /\ avail_in' = 0 /\ avail_out' = 0 /\ total_in' = Zero64 /\ total_out' = Zero64
      /\ ret' = "none"
  BY DEF Forget, lifeVars, blockVars, runVars, crcVars
<1>2. TypeOK /\ CallInv /\ CopyInv /\ BlockInTable /\ Allocated /\ AccountInv
  BY DEF FullInv, IInv
<1>3. TypeOK'
  <2>1. Zero64 \in Counter
    BY WordSizeAssumption DEF Zero64, Counter
  <2>2. StrmType'
    BY <1>1, <1>2, <2>1 DEF TypeOK, StrmType
  <2>3. ControlType'
    BY <1>1, <1>2 DEF TypeOK, ControlType, Codes
  <2>4. BlockType' /\ SavedType'
    BY <1>1, <1>2 DEF TypeOK, BlockType, SavedType
  <2> QED BY <2>2, <2>3, <2>4 DEF TypeOK
<1>4. CallInv' /\ CopyInv'
  BY <1>1, <1>2 DEF CallInv, CopyInv
<1>5. BlockInTable' /\ Allocated'
  BY <1>1, <1>2 DEF BlockInTable, Allocated
<1>6. IInv'
  BY <1>3, <1>4, <1>5 DEF IInv
<1>7. AccountInv'
  BY <1>1, <1>2 DEF AccountInv, OutputAccounted
<1>8. ParseInv' /\ BlockInv' /\ SoundAccepted'
  BY <1>1 DEF ParseInv, BlockInv, SoundAccepted, Parsing
<1> QED BY <1>6, <1>7, <1>8 DEF FullInv


------------------------------------------------------------------------------
(* What the actions of the decompressor say of what its callers see.       *)

Typed ==
  /\ avail_in \in Nat /\ avail_out \in Nat /\ ret \in Codes
  /\ out \in Seq(Bytes) /\ Len(out) \in Nat
  /\ source \in Seq(Token) /\ Len(source) \in Nat /\ pos \in 0..Len(source)

LEMMA StreamTyped == FullInv => Typed
BY LenProperties DEF FullInv, IInv, TypeOK, StrmType, ControlType, Typed

LEMMA StreamTypedNext == FullInv' => Typed'
BY LenProperties DEF FullInv, IInv, TypeOK, StrmType, ControlType, Typed

LEMMA NothingYet == FullInv /\ state = "NONE" => pos = 0 /\ out = <<>> /\ source = <<>>
BY DEF FullInv, IInv, CallInv

(* A step inside a call: what is read is taken from the input, what is put *)
(* out from the room, and BZ_OK is answered only when stuck.               *)
LibraryMoves ==
  /\ pc # "client" /\ ret = "none" /\ state # "NONE" /\ state' # "NONE"
  /\ source' = source /\ pos' + avail_in' = pos + avail_in
  /\ Len(out') + avail_out' = Len(out) + avail_out
  /\ ret' = "OK" => \/ state' \in Parsing /\ avail_in' = 0
                    \/ state' = "OUTPUT" /\ avail_out' = 0 /\ ~BlockDone'
  /\ ret' \notin Errors => out' = out \/ \E b \in Bytes : out' = Append(out, b)

LEMMA ParseMoves ==
  ASSUME FullInv, pc = "parse", Take, UNCHANGED <<avail_out, out>>,
         state' # "NONE", ret' # "OK"
  PROVE  LibraryMoves
<1>1. /\ ret = "none" /\ state # "NONE" /\ avail_in \in Nat /\ pos \in Nat
  <2>1. CallInv /\ Typed
    BY StreamTyped DEF FullInv, IInv
  <2>2. ret = "none" /\ state # "NONE"
    BY <2>1 DEF CallInv, Parsing
  <2> QED BY <2>1, <2>2 DEF Typed
<1>2. source' = source /\ avail_in > 0 /\ avail_in' = avail_in - 1 /\ pos' = pos + 1
  BY DEF Take
<1>3. pos' + avail_in' = pos + avail_in
  BY <1>1, <1>2
<1> QED BY <1>1, <1>2, <1>3 DEF LibraryMoves

LEMMA LibraryMovesOn == FullInv /\ FullInv' /\ Library => LibraryMoves
<1> SUFFICES ASSUME FullInv, FullInv', Library PROVE LibraryMoves
  OBVIOUS
<1>0. Typed /\ Typed' /\ IInv
  BY StreamTyped, StreamTypedNext DEF FullInv
<1>1. pc # "client" => ret = "none" /\ state # "NONE"
  BY <1>0 DEF IInv, CallInv, Parsing, TypeOK, ControlType
<1>2. CASE NeedInput
  <2>1. /\ pc = "parse" /\ avail_in = 0 /\ ret' = "OK"
        /\ UNCHANGED <<source, pos, avail_in, avail_out, out, state>>
    BY <1>2 DEF NeedInput, Give, inVars, outVars
  <2>2. state \in Parsing
    BY <1>0, <2>1 DEF IInv, CallInv
  <2> QED BY <1>0, <1>1, <2>1, <2>2 DEF LibraryMoves, Parsing
<1>3. CASE ReadMagic
  <2>1. /\ pc = "parse" /\ Take /\ UNCHANGED <<avail_out, out>>
        /\ state' # "NONE" /\ ret' # "OK"
    BY <1>1, <1>3 DEF ReadMagic, Take, outVars, Give, Stay
  <2> QED BY <2>1, ParseMoves
<1>4. ASSUME NEW got \in SUBSET Tables, ReadLevel(got) PROVE LibraryMoves
  <2>1. /\ pc = "parse" /\ Take /\ UNCHANGED <<avail_out, out>>
        /\ state' # "NONE" /\ ret' # "OK"
    BY <1>1, <1>4 DEF ReadLevel, Take, outVars, Give, Stay
  <2> QED BY <2>1, ParseMoves
<1>5. CASE ReadBlockHeader
  <2>1. /\ pc = "parse" /\ Take /\ UNCHANGED <<avail_out, out>>
        /\ state' # "NONE" /\ ret' # "OK"
    BY <1>1, <1>5 DEF ReadBlockHeader, Take, outVars, Give, Stay
  <2> QED BY <2>1, ParseMoves
<1>6. CASE ReadBlockData
  <2>1. /\ pc = "parse" /\ Take /\ UNCHANGED <<avail_out, out>>
        /\ state' # "NONE" /\ ret' # "OK"
    BY <1>1, <1>6 DEF ReadBlockData, Take, outVars, Give
  <2> QED BY <2>1, ParseMoves
<1>7. CASE ReadStreamCRC
  <2>1. /\ pc = "parse" /\ Take /\ UNCHANGED <<avail_out, out>>
        /\ state' # "NONE" /\ ret' # "OK"
    BY <1>1, <1>7 DEF ReadStreamCRC, Take, outVars, Give
  <2> QED BY <2>1, ParseMoves
<1>8. CASE PutByte
  <2>1. /\ pc = "unRLE" /\ avail_out > 0 /\ out' = Append(out, state_out_ch)
        /\ avail_out' = avail_out - 1
        /\ UNCHANGED <<source, pos, avail_in, state, ret>>
    BY <1>8 DEF PutByte, inVars
  <2>2. state_out_ch \in Bytes
    BY <1>0 DEF IInv, TypeOK, BlockType
  <2>3. Len(out') = Len(out) + 1
    BY <1>0, <2>1, <2>2, AppendProperties DEF Typed
  <2>4. Len(out') + avail_out' = Len(out) + avail_out
    BY <1>0, <2>1, <2>3 DEF Typed
  <2> QED BY <1>1, <2>1, <2>2, <2>4 DEF LibraryMoves
<1>9. CASE NewRun
  <2>1. /\ pc = "unRLE"
        /\ UNCHANGED <<source, pos, avail_in, avail_out, out, state, ret>>
    BY <1>9 DEF NewRun, inVars, outVars
  <2> QED BY <1>1, <2>1 DEF LibraryMoves
<1>10. CASE Overrun
  <2>1. /\ pc = "unRLE" /\ ret' = "DATA_ERROR"
        /\ UNCHANGED <<source, pos, avail_in, state>>
        /\ \/ avail_out' = saved.avail_out /\ out' = saved.out
           \/ UNCHANGED <<avail_out, out>>
    BY <1>10 DEF Overrun, Give, inVars
  <2>2. Len(out) + avail_out = Len(saved.out) + saved.avail_out
    BY <1>0, <2>1, OutputFrame
  <2>3. Len(out') + avail_out' = Len(out) + avail_out
    BY <2>1, <2>2
  <2> QED BY <1>1, <2>1, <2>3 DEF LibraryMoves, Errors
<1>11. CASE ReturnNotCorrupt
  <2>1. /\ pc = "unRLE" /\ Stopped
        /\ UNCHANGED <<source, pos, avail_in, avail_out, out, tt, nblock_used, state_out_len>>
        /\ \/ ~BlockDone /\ ret' = "OK" /\ state' = state
           \/ ret' = "DATA_ERROR" /\ state' = state
           \/ ret' = ret /\ state' = "BLKHDR"
    BY <1>11 DEF ReturnNotCorrupt, Give, inVars, blockVars, runVars
  <2>2. BlockDone' = BlockDone /\ state = "OUTPUT"
    BY <1>0, <2>1, OutputFrame DEF BlockDone, nblock
  <2>3. ~BlockDone => avail_out = 0
    BY <1>0, <2>1 DEF Stopped, BlockDone, MayAdvance, Typed
  <2>4. ret' = "OK" => state' = "OUTPUT" /\ avail_out' = 0 /\ ~BlockDone'
    BY <1>1, <2>1, <2>2, <2>3
  <2> QED BY <1>1, <2>1, <2>2, <2>4 DEF LibraryMoves
<1> QED BY <1>2, <1>3, <1>4, <1>5, <1>6, <1>7, <1>8, <1>9, <1>10, <1>11
        DEF Library, Parse, UnRLEOutput


(* All of the input has been read and the stream has not ended: there is no *)
(* whole, sound stream at its start.                                        *)
LEMMA NoEndRead ==
  ASSUME FullInv, Going, state \in Parsing \cup {"OUTPUT"}, pos = Len(source)
  PROVE  ~Sound
<1>1. TypeOK /\ ParseInv /\ source \in Seq(Token) /\ Len(source) \in Nat
  BY LenProperties DEF FullInv, IInv, TypeOK, StrmType
<1> SUFFICES ASSUME NEW n \in 1..Len(source),
                    WellFormed(SubSeq(source, 1, n), BlockUnit)
             PROVE  FALSE
  BY DEF Sound
<1>2. Rules(source, n)
  BY <1>1, SoundRules
<1>3. pos < n
  BY <1>1, <1>2, ReadOnSound
<1> QED BY <1>1, <1>3

LEMMA SetUpTells ==
  ASSUME NEW src, NEW small, NEW got, SetUp(src, small, got)
  PROVE  /\ pc = "client" /\ pc' = "client" /\ state = "NONE"
         /\ UNCHANGED <<pos, out, avail_out>>
         /\ \/ ret' = "OK" /\ state' = "MAGIC" /\ source' = src
            \/ ret' \in {"PARAM_ERROR", "MEM_ERROR"} /\ state' = "NONE"
BY DEF SetUp

LEMMA CallTells ==
  ASSUME FullInv, NEW ai \in Nat, NEW ao, BZ2_bzDecompress(ai, ao), state # "NONE"
  PROVE  /\ pc = "client" /\ Going /\ avail_in' = ai /\ avail_out' = ao
         /\ UNCHANGED <<state, source, pos, out>>
         /\ \/ ret' = "none" /\ pc' # "client"
            \/ ret' = "SEQUENCE_ERROR" /\ pc' = "client"
<1>1. state \in Parsing \cup {"OUTPUT", "IDLE"}
  BY DEF FullInv, IInv, TypeOK, ControlType
<1> QED BY <1>1 DEF BZ2_bzDecompress, Going

LEMMA EndTells ==
  ASSUME BZ2_bzDecompressEnd, state # "NONE"
  PROVE  pc = "client" /\ pc' = "client" /\ state' = "NONE"
BY DEF BZ2_bzDecompressEnd, EndNothing, EndStream

(* BZ2_bzRead gives the decompressor new room between two calls of it.      *)
LEMMA StreamRoom ==
  ASSUME FullInv, pc = "client", avail_out' \in Nat,
         UNCHANGED <<avail_in, total_in, total_out, state, lifeVars, blockVars,
                     runVars, crcVars, pc, saved, ret, source, pos, out>>
  PROVE  FullInv'
<1>1. UNCHANGED <<avail_in, total_in, total_out, state, smallDecompress, blockSize100k,
           heap, blockRandomised, tt, nblock_used, state_out_len, state_out_ch,
           calculatedBlockCRC, storedBlockCRC, calculatedCombinedCRC, pc, saved, ret,
           source, pos, out>>
  BY DEF lifeVars, blockVars, runVars, crcVars
<1>2. TypeOK /\ CallInv /\ CopyInv /\ BlockInTable /\ Allocated
  BY DEF FullInv, IInv
<1>3. TypeOK'
  BY <1>1, <1>2 DEF TypeOK, StrmType, ControlType, BlockType, SavedType
<1>4. CallInv' /\ CopyInv' /\ BlockInTable' /\ Allocated'
  BY <1>1, <1>2 DEF CallInv, CopyInv, BlockInTable, Allocated, Value, nblock, nblockMAX,
                    Needed
<1>5. IInv'
  BY <1>3, <1>4 DEF IInv
<1>6. UNCHANGED runVars /\ Going' = Going
  BY <1>1 DEF Going
<1>7. AccountInv'
  BY <1>1, AccountFrame DEF FullInv
<1>8. ParseInv' /\ BlockInv'
  BY <1>1, <1>6, ParseFrame, BlockFrame DEF FullInv
<1>9. SoundAccepted'
  BY <1>1, SoundFrame DEF FullInv
<1> QED BY <1>5, <1>7, <1>8, <1>9 DEF FullInv

------------------------------------------------------------------------------
(* The file interface: each of its steps keeps ReadInv.                     *)

LEMMA NewFileStep ==
  ASSUME ReadInv, NEW f \in Files, NewFile(f)
  PROVE  ReadInv'
<1>1. /\ at = "app" /\ open = FALSE /\ file' = f /\ offset' = 0 /\ unused' = 0
      /\ ready' = TRUE /\ ferror' = FALSE
      /\ UNCHANGED <<open, at, lastErr, len, received, state, pc, ret>>
  BY DEF NewFile, vars, ReadInv, ReadType
<1>2. ReadType /\ TurnInv
  BY DEF ReadInv
<1>3. f \in Seq(Token) /\ Len(f) \in Nat
  BY FilesAssumption, LenProperties
<1>4. offset' \in 0..Len(file') /\ unused' \in 0..offset'
  BY <1>1, <1>3
<1>5. ReadType'
  BY <1>1, <1>2, <1>3, <1>4 DEF ReadType
<1>6. TurnInv'
  BY <1>1, <1>2 DEF TurnInv
<1> QED BY <1>1, <1>5, <1>6 DEF ReadInv, PlaceInv, GivenInv, EndsTold

LEMMA ReadOpenStep ==
  ASSUME FullInv, ReadInv, NEW small, NEW gotFile, NEW got,
         BZ2_bzReadOpen(small, gotFile, got)
  PROVE  FullInv' /\ ReadInv'
<1>1. /\ at = "app" /\ open = FALSE
      /\ UNCHANGED <<ferror, file, offset, unused, len>>
  BY DEF BZ2_bzReadOpen, ReadInv, ReadType
<1>2. ReadType /\ TurnInv
  BY DEF ReadInv
<1>3. CASE /\ UNCHANGED <<vars, open, at, ready, received>>
           /\ lastErr' \in {"PARAM_ERROR", "IO_ERROR", "MEM_ERROR"}
  <2>1. FullInv'
    BY <1>3, StutterFull
  <2>2. UNCHANGED <<state, pc, ret>>
    BY <1>3 DEF vars
  <2>3. ReadType'
    BY <1>1, <1>2, <1>3 DEF ReadType, Codes, Errors
  <2>4. TurnInv'
    BY <1>1, <1>2, <1>3, <2>2 DEF TurnInv
  <2> QED BY <1>1, <1>3, <2>1, <2>3, <2>4 DEF ReadInv, PlaceInv, GivenInv, EndsTold
<1>4. CASE /\ SetUp(SubSeq(file, offset - unused + 1, Len(file)), small, got)
           /\ avail_in' = unused
           /\ open' = (ret' = "OK") /\ at' = "app" /\ lastErr' = ret'
           /\ ready' = (ret' # "OK")
           /\ received' = <<>>
  <2> DEFINE k == offset - unused
             src == SubSeq(file, k + 1, Len(file))
  <2>1. /\ file \in Seq(Token) /\ Len(file) \in Nat /\ offset \in 0..Len(file)
        /\ unused \in 0..offset
    BY <1>2, LenProperties DEF ReadType
  <2>2. k \in 0..Len(file) /\ unused \in Nat
    BY <2>1
  <2>3. Len(src) = Len(file) - k
    BY <2>1, <2>2
  <2>4. src \in Seq(Token)
    BY <2>1, <2>2, CutInTwo
  <2>5. SetUp(src, small, got)
    BY <1>4
  <2> HIDE DEF src
  <2>6. FullInv'
    BY <1>4, <2>2, <2>4, <2>5, StreamSetUp
  <2>7. /\ pc = "client" /\ pc' = "client" /\ state = "NONE"
        /\ UNCHANGED <<pos, out, avail_out>>
        /\ \/ ret' = "OK" /\ state' = "MAGIC" /\ source' = src
           \/ ret' \in {"PARAM_ERROR", "MEM_ERROR"} /\ state' = "NONE"
    BY <2>5, SetUpTells
  <2>8. pos' = 0 /\ out' = <<>>
    BY <2>7, NothingYet
  <2>9. ReadType'
    <3>1. lastErr' \in Codes /\ open' \in BOOLEAN /\ ready' \in BOOLEAN
      BY <1>4, <2>7 DEF Codes, Errors
    <3>2. received' \in Seq(Bytes)
      BY <1>4, EmptySeq
    <3> QED BY <1>1, <1>2, <1>4, <3>1, <3>2 DEF ReadType
  <2>10. TurnInv'
    BY <1>4, <2>7 DEF TurnInv, Parsing
  <2>11. PlaceInv'
    <3> SUFFICES ASSUME open' PROVE Len(source') <= Len(file')
                                      /\ Start' + pos' + avail_in' = offset'
      BY DEF PlaceInv
    <3>1. source' = src
      BY <1>4, <2>7
    <3>2. Start' = k
      BY <1>1, <2>1, <2>2, <2>3, <3>1 DEF Start
    <3> QED BY <1>1, <1>4, <2>1, <2>2, <2>3, <2>8, <3>1, <3>2
  <2>12. GivenInv'
    BY <1>4, <2>8 DEF GivenInv
  <2>13. EndsTold'
    BY <1>4, <2>7 DEF EndsTold
  <2> QED BY <2>6, <2>9, <2>10, <2>11, <2>12, <2>13 DEF ReadInv
<1> QED BY <1>3, <1>4 DEF BZ2_bzReadOpen, Answer

LEMMA ReadStep ==
  ASSUME FullInv, ReadInv, NEW n \in -1..ChunkOut, BZ2_bzRead(n)
  PROVE  FullInv' /\ ReadInv'
<1>1. /\ at = "app" /\ open /\ lastErr = "OK" /\ ~ready
      /\ UNCHANGED <<open, ferror, file, offset, unused, ready, received>>
  BY DEF BZ2_bzRead
<1>2. ReadType /\ TurnInv /\ PlaceInv /\ GivenInv
  BY DEF ReadInv
<1>3. pc = "client" /\ received = out
  BY <1>1, <1>2 DEF TurnInv, GivenInv
<1>4. CASE /\ at' = "app" /\ lastErr' \in {"PARAM_ERROR", "OK"}
           /\ UNCHANGED <<vars, len>>
  <2>1. FullInv'
    BY <1>4, StutterFull
  <2>2. UNCHANGED <<state, pc, ret, source, pos, avail_in, out>>
    BY <1>4 DEF vars
  <2>3. ReadType'
    BY <1>1, <1>2, <1>4 DEF ReadType, Codes, Errors
  <2>4. TurnInv' /\ PlaceInv'
    BY <1>1, <1>2, <1>4, <2>2 DEF TurnInv, PlaceInv, Start
  <2>5. GivenInv' /\ EndsTold'
    BY <1>1, <1>3, <1>4, <2>2 DEF GivenInv, EndsTold
  <2> QED BY <2>1, <2>3, <2>4, <2>5 DEF ReadInv
<1>5. CASE /\ n > 0
           /\ at' = "loop" /\ len' = n /\ lastErr' = "OK" /\ avail_out' = n
           /\ UNCHANGED <<avail_in, total_in, total_out, state, lifeVars, blockVars,
                          runVars, crcVars, pc, saved, ret, source, pos, out>>
  <2>1. n \in Nat /\ n \in 0..(WordSize - 1)
    BY <1>5, ChunkAssumption, WordSizeAssumption
  <2>2. FullInv'
    BY <1>3, <1>5, <2>1, StreamRoom
  <2>3. ReadType'
    BY <1>1, <1>2, <1>5, <2>1 DEF ReadType, Codes
  <2>4. TurnInv' /\ PlaceInv'
    BY <1>1, <1>2, <1>3, <1>5 DEF TurnInv, PlaceInv, Start
  <2>5. out \in Seq(Bytes) /\ Len(out) \in Nat
    BY StreamTyped DEF Typed
  <2>6. SubSeq(out, 1, Len(out)) = out
    BY <2>5, SubSeqFull
  <2>7. GivenInv'
    BY <1>1, <1>3, <1>5, <2>1, <2>5, <2>6 DEF GivenInv
  <2>8. EndsTold'
    BY <1>5 DEF EndsTold
  <2> QED BY <2>2, <2>3, <2>4, <2>7, <2>8 DEF ReadInv
<1> QED BY <1>4, <1>5 DEF BZ2_bzRead, Answer


(* The loop calls the decompressor with what is in bzf->buf, `ai'.          *)
LEMMA TurnStep ==
  ASSUME FullInv, ReadInv, at = "loop", NEW ai \in Nat, Decompress(ai),
         offset' = offset + ai - avail_in, offset' \in offset..Len(file),
         ferror' \in BOOLEAN,
         UNCHANGED <<open, file, unused, ready, len, received>>
  PROVE  FullInv' /\ ReadInv'
<1>1. ReadType /\ TurnInv /\ PlaceInv /\ GivenInv /\ Typed
  BY StreamTyped DEF ReadInv
<1>2. /\ BZ2_bzDecompress(ai, avail_out) /\ at' = "call" /\ lastErr' = lastErr
  BY DEF Decompress
<1>3. open /\ ~ready /\ lastErr = "OK" /\ state # "NONE"
  BY <1>1 DEF TurnInv
<1>4. /\ Going /\ avail_in' = ai /\ avail_out' = avail_out
      /\ UNCHANGED <<state, source, pos, out>>
      /\ \/ ret' = "none" /\ pc' # "client"
         \/ ret' = "SEQUENCE_ERROR" /\ pc' = "client"
  BY <1>2, <1>3, CallTells
<1>5. FullInv'
  <2>1. avail_out <= len /\ len \in 0..(WordSize - 1) /\ avail_out \in Nat
    BY <1>1, <1>4 DEF GivenInv, ReadType, Typed
  <2>2. avail_out \in 0..(WordSize - 1)
    BY <2>1, WordSizeAssumption
  <2> QED BY <1>2, <2>2, StreamCall
<1>6. ReadType'
  <2>1. offset' \in 0..Len(file') /\ unused' \in 0..offset'
    <3>1. offset \in 0..Len(file) /\ unused \in 0..offset /\ Len(file) \in Nat
      BY <1>1, LenProperties DEF ReadType
    <3> QED BY <3>1
  <2> QED BY <1>1, <1>2, <2>1 DEF ReadType
<1>7. TurnInv'
  BY <1>1, <1>2, <1>3, <1>4 DEF TurnInv
<1>8. PlaceInv'
  <2>1. Start' = Start /\ Len(source) <= Len(file)
    BY <1>1, <1>3, <1>4 DEF Start, PlaceInv
  <2>2. Start + pos + avail_in = offset
    BY <1>1, <1>3 DEF PlaceInv
  <2>3. Start \in Int /\ pos \in Nat /\ avail_in \in Nat /\ offset \in Nat
    BY <1>1, LenProperties DEF Start, Typed, ReadType
  <2>4. Start' + pos' + avail_in' = offset'
    BY <1>4, <2>1, <2>2, <2>3
  <2> QED BY <1>4, <2>1, <2>4 DEF PlaceInv
<1>9. GivenInv'
  BY <1>1, <1>2, <1>4 DEF GivenInv
<1>10. EndsTold'
  BY <1>2, <1>3 DEF EndsTold
<1> QED BY <1>5, <1>6, <1>7, <1>8, <1>9, <1>10 DEF ReadInv

(* The call returns from the top of the loop.                               *)
LEMMA LeaveStep ==
  ASSUME FullInv, ReadInv, at = "loop", at' = "app", lastErr' = "IO_ERROR",
         offset' \in offset..Len(file), ferror' \in BOOLEAN,
         UNCHANGED <<vars, open, file, unused, ready, len, received>>
  PROVE  FullInv' /\ ReadInv'
<1>1. ReadType /\ TurnInv /\ PlaceInv
  BY DEF ReadInv
<1>2. FullInv' /\ UNCHANGED <<state, pc, ret, source>>
  BY StutterFull DEF vars
<1>3. ReadType'
  <2>1. offset \in 0..Len(file) /\ unused \in 0..offset /\ Len(file) \in Nat
    BY <1>1, LenProperties DEF ReadType
  <2>2. offset' \in 0..Len(file') /\ unused' \in 0..offset'
    BY <2>1
  <2> QED BY <1>1, <2>2 DEF ReadType
<1>4. TurnInv' /\ PlaceInv' /\ GivenInv' /\ EndsTold'
  BY <1>1, <1>2 DEF TurnInv, PlaceInv, GivenInv, EndsTold
<1> QED BY <1>2, <1>3, <1>4 DEF ReadInv

LEMMA LoopTopStep ==
  ASSUME FullInv, ReadInv, LoopTop
  PROVE  FullInv' /\ ReadInv'
<1>1. /\ at = "loop" /\ UNCHANGED <<open, file, unused, ready, len, received>>
  BY DEF LoopTop
<1>2. /\ offset \in 0..Len(file) /\ Len(file) \in Nat /\ avail_in \in Nat
      /\ ferror \in BOOLEAN
  BY StreamTyped, LenProperties DEF ReadInv, ReadType, Typed
<1>3. offset < Len(file) => Fill \in 1..(Len(file) - offset)
  BY <1>2, BufferAssumption DEF Fill
<1>4. ~AtEnd => offset < Len(file)
  BY <1>2 DEF AtEnd
<1>5. CASE ferror /\ Answer("IO_ERROR") /\ UNCHANGED <<vars, ferror, offset>>
  <2>1. /\ at' = "app" /\ lastErr' = "IO_ERROR" /\ UNCHANGED vars
        /\ ferror' = ferror /\ offset' = offset
    BY <1>5 DEF Answer
  <2> QED BY <1>1, <1>2, <2>1, LeaveStep
<1>6. CASE Decompress(avail_in) /\ UNCHANGED <<ferror, offset>>
  <2>1. offset' = offset + avail_in - avail_in /\ offset' \in offset..Len(file)
    BY <1>2, <1>6
  <2> QED BY <1>1, <1>2, <1>6, <2>1, TurnStep
<1>7. CASE /\ avail_in = 0 /\ \E fails \in BOOLEAN : myfeof(fails)
           /\ Decompress(0) /\ UNCHANGED offset
  <2>1. ferror' \in BOOLEAN
    BY <1>2, <1>7 DEF myfeof
  <2>2. offset' = offset + 0 - avail_in /\ offset' \in offset..Len(file)
    BY <1>2, <1>7
  <2> QED BY <1>1, <1>7, <2>1, <2>2, TurnStep
<1>8. CASE /\ avail_in = 0 /\ ~AtEnd /\ offset' = offset + Fill
           /\ Decompress(Fill) /\ UNCHANGED ferror
  <2>1. Fill \in Nat /\ offset' = offset + Fill - avail_in
    BY <1>2, <1>3, <1>4, <1>8
  <2>2. offset' \in offset..Len(file)
    BY <1>2, <1>3, <1>4, <1>8
  <2> QED BY <1>1, <1>2, <1>8, <2>1, <2>2, TurnStep
<1>9. CASE /\ ~AtEnd /\ (\E k \in 0..(Fill - 1) : offset' = offset + k)
           /\ ferror' = TRUE /\ Answer("IO_ERROR") /\ UNCHANGED vars
  <2>1. at' = "app" /\ lastErr' = "IO_ERROR"
    BY <1>9 DEF Answer
  <2>2. offset' \in offset..Len(file)
    BY <1>2, <1>3, <1>4, <1>9
  <2> QED BY <1>1, <1>9, <2>1, <2>2, LeaveStep
<1> QED BY <1>5, <1>6, <1>7, <1>8, <1>9 DEF LoopTop

(* What the call has put into buf completes what the calls have returned.   *)
LEMMA AllGiven ==
  ASSUME FullInv, ReadInv, at = "call", Going
  PROVE  received \o SubSeq(out, Len(out) - (len - avail_out) + 1, Len(out)) = out
<1>1. /\ avail_out <= len /\ Len(received) + len = Len(out) + avail_out
      /\ received = SubSeq(out, 1, Len(received))
  BY DEF ReadInv, GivenInv
<1>2. /\ out \in Seq(Bytes) /\ Len(out) \in Nat /\ avail_out \in Nat
      /\ Len(received) \in Nat /\ len \in Int
  <2>1. received \in Seq(Bytes) /\ len \in 0..(WordSize - 1)
    BY DEF ReadInv, ReadType
  <2> QED BY <2>1, StreamTyped, LenProperties, WordSizeAssumption DEF Typed
<1> DEFINE k == Len(received)
<1>3. k \in 0..Len(out) /\ Len(out) - (len - avail_out) = k
  BY <1>1, <1>2
<1> HIDE DEF k
<1>4. SubSeq(out, 1, k) \o SubSeq(out, k + 1, Len(out)) = out
  BY <1>2, <1>3, CutInTwo
<1>5. received = SubSeq(out, 1, k)
  BY <1>1 DEF k
<1> QED BY <1>3, <1>4, <1>5

LEMMA AfterCallStep ==
  ASSUME FullInv, ReadInv, AfterCall
  PROVE  FullInv' /\ ReadInv'
<1>1. /\ at = "call" /\ pc = "client"
      /\ UNCHANGED <<vars, open, file, offset, unused, ready, len>>
  BY DEF AfterCall
<1>2. ReadType /\ TurnInv /\ PlaceInv /\ GivenInv /\ Typed
  BY StreamTyped DEF ReadInv
<1>3. open /\ ~ready /\ lastErr = "OK"
  BY <1>1, <1>2 DEF TurnInv
<1>4. FullInv' /\ UNCHANGED <<state, pc, ret, source, pos, avail_in, avail_out, out>>
  BY <1>1, StutterFull DEF vars
<1>5. ferror' \in BOOLEAN /\ lastErr' \in Codes \cup {"UNEXPECTED_EOF"}
  <2>1. ferror \in BOOLEAN /\ ret \in Codes /\ lastErr \in Codes
    BY <1>2, <1>3 DEF ReadType, Typed, Codes
  <2>2. "OK" \in Codes /\ "STREAM_END" \in Codes
    BY DEF Codes
  <2> QED BY <2>1, <2>2 DEF AfterCall, myfeof, Answer, AnswerBytes
<1>6. at' \in {"app", "loop"} /\ (at' = "loop" => lastErr' = "OK")
  BY <1>3 DEF AfterCall, Answer, AnswerBytes
<1>7. ret \in {"OK", "STREAM_END"} => Going
  BY DEF Going, Errors
<1>8. \/ received' = received
      \/ received' = out /\ ret \in {"OK", "STREAM_END"}
  BY <1>1, <1>7, AllGiven DEF AfterCall, AnswerBytes
<1>9. ReadType'
  BY <1>1, <1>2, <1>5, <1>6, <1>8 DEF ReadType, Typed
<1>10. TurnInv'
  BY <1>1, <1>2, <1>3, <1>4, <1>6 DEF TurnInv
<1>11. PlaceInv'
  BY <1>1, <1>2, <1>3, <1>4 DEF PlaceInv, Start
<1>12. at' = "app" /\ lastErr' \in {"OK", "STREAM_END"} => received' = out
  BY <1>1, <1>7, AllGiven DEF AfterCall, Answer, AnswerBytes
<1>13. at' = "loop" => received' = received
  BY DEF AfterCall, Answer, AnswerBytes
<1>14. GivenInv'
  BY <1>1, <1>2, <1>4, <1>6, <1>12, <1>13 DEF GivenInv, Going
<1>15. EndsTold'
  <2>1. ASSUME lastErr' = "STREAM_END" PROVE EndIsWhole'
    <3>1. ret = "STREAM_END" /\ received' = out
      BY <1>3, <1>12, <2>1 DEF AfterCall, Answer, AnswerBytes
    <3>2. StreamEndSound
      BY EndDecodes
    <3> QED BY <1>4, <3>1, <3>2 DEF EndIsWhole, StreamEndSound
  <2>2. ASSUME lastErr' = "UNEXPECTED_EOF", ~ferror' PROVE AtEnd' /\ ~Sound'
    <3>1. ret = "OK" /\ avail_in = 0 /\ AtEnd
      <4>1. ret \in Codes /\ "UNEXPECTED_EOF" \notin Codes
        BY <1>2 DEF Typed, Codes, Errors
      <4> QED BY <1>3, <2>2, <4>1 DEF AfterCall, Answer, AnswerBytes, myfeof
    <3>2. state \in Parsing \cup {"OUTPUT"} /\ Going
      BY <1>1, <1>2, <1>3, <1>7, <3>1 DEF TurnInv
    <3>3. pos = Len(source)
      <4>1. Len(file) - Len(source) + pos + avail_in = Len(file)
        BY <1>2, <1>3, <3>1 DEF PlaceInv, Start, AtEnd
      <4>2. Len(file) \in Nat
        BY <1>2, LenProperties DEF ReadType
      <4> QED BY <1>2, <3>1, <4>1, <4>2 DEF Typed
    <3>4. ~Sound
      BY <3>2, <3>3, NoEndRead
    <3> QED BY <1>1, <1>4, <3>1, <3>4 DEF AtEnd, Sound
  <2> QED BY <2>1, <2>2 DEF EndsTold
<1> QED BY <1>4, <1>9, <1>10, <1>11, <1>14, <1>15 DEF ReadInv


LEMMA GetUnusedStep ==
  ASSUME FullInv, ReadInv, BZ2_bzReadGetUnused
  PROVE  FullInv' /\ ReadInv'
<1>1. /\ at = "app" /\ open /\ at' = "app"
      /\ UNCHANGED <<vars, open, ferror, file, offset, len, received>>
      /\ \/ lastErr' = "SEQUENCE_ERROR" /\ UNCHANGED <<unused, ready>>
         \/ /\ lastErr = "STREAM_END" /\ lastErr' = "OK"
            /\ unused' = avail_in /\ ready' = TRUE
  BY DEF BZ2_bzReadGetUnused, Answer
<1>2. ReadType /\ TurnInv /\ PlaceInv /\ GivenInv /\ Typed
  BY StreamTyped DEF ReadInv
<1>3. FullInv' /\ UNCHANGED <<state, pc, ret, source, pos, avail_in, out>>
  BY <1>1, StutterFull DEF vars
<1>4. unused' \in 0..offset
  <2>1. CASE unused' = unused
    BY <1>2, <2>1 DEF ReadType
  <2>2. CASE lastErr = "STREAM_END" /\ unused' = avail_in
    <3>1. Len(file) - Len(source) + pos + avail_in = offset /\ Len(source) <= Len(file)
      BY <1>1, <1>2, <2>2 DEF PlaceInv, Start
    <3>2. Len(file) \in Nat /\ offset \in Nat
      BY <1>2, LenProperties DEF ReadType
    <3> QED BY <1>2, <2>2, <3>1, <3>2 DEF Typed
  <2> QED BY <1>1, <2>1, <2>2
<1>5. ReadType'
  BY <1>1, <1>2, <1>4 DEF ReadType, Codes
<1>6. TurnInv' /\ PlaceInv'
  BY <1>1, <1>2, <1>3 DEF TurnInv, PlaceInv, Start
<1>7. GivenInv' /\ EndsTold'
  BY <1>1, <1>2, <1>3 DEF GivenInv, EndsTold
<1> QED BY <1>3, <1>5, <1>6, <1>7 DEF ReadInv

LEMMA CloseStep ==
  ASSUME FullInv, ReadInv, BZ2_bzReadClose
  PROVE  FullInv' /\ ReadInv'
<1>1. /\ at = "app" /\ open /\ BZ2_bzDecompressEnd
      /\ at' = "app" /\ lastErr' = "OK" /\ open' = FALSE /\ received' = <<>>
      /\ UNCHANGED <<ferror, file, offset, unused, ready, len>>
  BY DEF BZ2_bzReadClose, Answer
<1>2. ReadType /\ TurnInv
  BY DEF ReadInv
<1>3. FullInv'
  BY <1>1, StreamEnd
<1>4. state' = "NONE" /\ pc' = "client"
  BY <1>1, <1>2, EndTells DEF TurnInv
<1>5. ReadType'
  BY <1>1, <1>2, EmptySeq DEF ReadType, Codes
<1>6. TurnInv'
  BY <1>1, <1>4 DEF TurnInv
<1> QED BY <1>1, <1>3, <1>5, <1>6 DEF ReadInv, PlaceInv, GivenInv, EndsTold

(* What has been put out stays, whatever is put behind it.                  *)
LEMMA PrefixKept ==
  ASSUME NEW S, NEW s \in Seq(S), NEW e \in S, NEW k \in 0..Len(s)
  PROVE  SubSeq(Append(s, e), 1, k) = SubSeq(s, 1, k)
<1> DEFINE l == SubSeq(Append(s, e), 1, k)
           r == SubSeq(s, 1, k)
<1>1. /\ Len(s) \in Nat /\ Append(s, e) \in Seq(S) /\ Len(Append(s, e)) = Len(s) + 1
      /\ \A i \in 1..Len(s) : Append(s, e)[i] = s[i]
  BY LenProperties, AppendProperties
<1>2. k \in Nat /\ k <= Len(s)
  BY <1>1
<1>3. l \in Seq(S) /\ r \in Seq(S)
  BY <1>1, <1>2, CutInTwo
<1>4. Len(l) = k /\ \A i \in 1..k : l[i] = Append(s, e)[i]
  BY <1>1, <1>2
<1>5. Len(r) = k /\ \A i \in 1..k : r[i] = s[i]
  BY <1>1, <1>2
<1>6. \A i \in 1..k : l[i] = r[i]
  BY <1>1, <1>2, <1>4, <1>5
<1> HIDE DEF l, r
<1> QED BY <1>3, <1>4, <1>5, <1>6, SeqEqual

LEMMA InsideStep ==
  ASSUME FullInv, ReadInv, Library, UNCHANGED fileVars
  PROVE  FullInv' /\ ReadInv'
<1>1. UNCHANGED <<open, at, lastErr, ferror, file, offset, unused, ready, len, received>>
  BY DEF fileVars
<1>2. ReadType /\ TurnInv /\ PlaceInv /\ GivenInv
  BY DEF ReadInv
<1>3. FullInv' /\ Typed /\ Typed'
  BY StreamLibrary, StreamTyped, StreamTypedNext
<1>4. LibraryMoves
  BY <1>3, LibraryMovesOn
<1>5. /\ pc # "client" /\ ret = "none" /\ state # "NONE" /\ state' # "NONE"
      /\ source' = source /\ pos' + avail_in' = pos + avail_in
      /\ Len(out') + avail_out' = Len(out) + avail_out
  BY <1>4 DEF LibraryMoves
<1>6. at = "call" /\ open /\ ~ready /\ lastErr = "OK" /\ Going
  <2>1. at = "call"
    BY <1>2, <1>5 DEF TurnInv, ReadType
  <2> QED BY <1>2, <1>5, <2>1 DEF TurnInv, Going, Errors
<1>7. ReadType'
  BY <1>1, <1>2 DEF ReadType
<1>8. TurnInv'
  <2>1. ret' = "OK" => state' \in Parsing \cup {"OUTPUT"}
    BY <1>4 DEF LibraryMoves
  <2> QED BY <1>1, <1>5, <1>6, <2>1 DEF TurnInv
<1>9. PlaceInv'
  <2>1. Start' = Start
    BY <1>1, <1>5 DEF Start
  <2>2. Start + pos + avail_in = offset /\ Len(source) <= Len(file)
    BY <1>2, <1>6 DEF PlaceInv
  <2>3. Start \in Int
    BY <1>2, <1>3, LenProperties DEF Start, Typed, ReadType
  <2>4. pos \in Nat /\ avail_in \in Nat /\ pos' \in Nat /\ avail_in' \in Nat
    BY <1>3 DEF Typed
  <2>5. offset' = offset
    BY <1>1
  <2> DEFINE q == pos'
             b == avail_in'
  <2>6. q + b = pos + avail_in /\ q \in Nat /\ b \in Nat
    BY <1>5, <2>4
  <2> HIDE DEF q, b
  <2>7. Start + q + b = offset
    BY <2>2, <2>3, <2>4, <2>6
  <2>8. Start' + pos' + avail_in' = offset'
    BY <2>1, <2>5, <2>7 DEF q, b
  <2> QED BY <1>1, <1>5, <2>2, <2>8 DEF PlaceInv
<1>10. GivenInv'
  <2> SUFFICES ASSUME Going'
               PROVE  /\ avail_out' <= len
                      /\ Len(received) + len = Len(out') + avail_out'
                      /\ received = SubSeq(out', 1, Len(received))
    BY <1>1, <1>6 DEF GivenInv
  <2>1. /\ avail_out <= len /\ Len(received) + len = Len(out) + avail_out
        /\ received = SubSeq(out, 1, Len(received))
    BY <1>2, <1>6 DEF GivenInv
  <2>2. /\ Len(received) \in Nat /\ Len(out) \in Nat /\ Len(out') \in Nat
        /\ avail_out \in Nat /\ avail_out' \in Nat /\ len \in Int /\ out \in Seq(Bytes)
    BY <1>2, <1>3, LenProperties, WordSizeAssumption DEF ReadType, Typed
  <2>3. Len(received) \in 0..Len(out)
    BY <2>1, <2>2
  <2>4. out' = out \/ \E b \in Bytes : out' = Append(out, b)
    BY <1>4 DEF LibraryMoves, Going
  <2>5. Len(out') >= Len(out)
    <3>1. ASSUME NEW b \in Bytes PROVE Len(Append(out, b)) = Len(out) + 1
      BY <2>2, AppendProperties
    <3> QED BY <2>2, <2>4, <3>1
  <2>6. SubSeq(out', 1, Len(received)) = SubSeq(out, 1, Len(received))
    BY <2>2, <2>3, <2>4, PrefixKept
  <2>7. avail_out' <= len
    BY <1>5, <2>1, <2>2, <2>5
  <2>8. Len(received) + len = Len(out') + avail_out'
    BY <1>5, <2>1
  <2> QED BY <2>1, <2>6, <2>7, <2>8
<1>11. EndsTold'
  BY <1>1, <1>6 DEF EndsTold
<1> QED BY <1>3, <1>7, <1>8, <1>9, <1>10, <1>11 DEF ReadInv

LEMMA FileStep == FullInv /\ ReadInv /\ FileNext => FullInv' /\ ReadInv'
<1> SUFFICES ASSUME FullInv, ReadInv, FileNext PROVE FullInv' /\ ReadInv'
  OBVIOUS
<1>1. ASSUME NEW f \in Files, NewFile(f) PROVE FullInv' /\ ReadInv'
  <2>1. UNCHANGED vars
    BY <1>1 DEF NewFile
  <2> QED BY <1>1, <2>1, NewFileStep, StutterFull
<1>2. ASSUME NEW small \in 0..2, NEW gotFile \in BOOLEAN, NEW got \in BOOLEAN,
             BZ2_bzReadOpen(small, gotFile, got)
      PROVE  FullInv' /\ ReadInv'
  BY <1>2, ReadOpenStep
<1>3. ASSUME NEW n \in -1..ChunkOut, BZ2_bzRead(n) PROVE FullInv' /\ ReadInv'
  BY <1>3, ReadStep
<1>4. CASE BZ2_bzReadGetUnused
  BY <1>4, GetUnusedStep
<1>5. CASE BZ2_bzReadClose
  BY <1>5, CloseStep
<1>6. CASE LoopTop
  BY <1>6, LoopTopStep
<1>7. CASE AfterCall
  BY <1>7, AfterCallStep
<1>8. CASE Library /\ UNCHANGED fileVars
  BY <1>8, InsideStep
<1> QED BY <1>1, <1>2, <1>3, <1>4, <1>5, <1>6, <1>7, <1>8
        DEF FileNext, Application, Interface

LEMMA FileStutter == ReadInv /\ UNCHANGED <<vars, fileVars>> => ReadInv'
<1> SUFFICES ASSUME ReadInv, UNCHANGED <<vars, fileVars>> PROVE ReadInv'
  OBVIOUS
<1>1. UNCHANGED <<open, at, lastErr, ferror, file, offset, unused, ready, len, received>>
  BY DEF fileVars
<1>2. UNCHANGED <<state, pc, ret, source, pos, avail_in, avail_out, out>>
  BY DEF vars
<1>3. ReadType' /\ TurnInv'
  BY <1>1, <1>2 DEF ReadInv, ReadType, TurnInv
<1>4. PlaceInv' /\ GivenInv'
  BY <1>1, <1>2 DEF ReadInv, PlaceInv, GivenInv, Start, Going
<1>5. EndsTold'
  BY <1>1, <1>2 DEF ReadInv, EndsTold, EndIsWhole, AtEnd, Sound
<1> QED BY <1>3, <1>4, <1>5 DEF ReadInv

------------------------------------------------------------------------------
(* What a whole stream at the start of the input says of the one call.      *)

(* Only one front part of a sequence can be a whole stream: its CRC is the  *)
(* only one in it.                                                          *)
LEMMA OneFront ==
  ASSUME NEW s, NEW n, NEW m, Rules(s, n), Rules(s, m)
  PROVE  n = m
<1>1. n \in Nat /\ m \in Nat /\ n > 3 /\ m > 3 /\ s[n][1] = "crc" /\ s[m][1] = "crc"
  BY DEF Rules
<1>2. CASE n <= m
  <2>1. n \in 1..m
    BY <1>1, <1>2
  <2> QED BY <1>1, <2>1 DEF Rules
<1>3. CASE m <= n
  <2>1. m \in 1..n
    BY <1>1, <1>3
  <2> QED BY <1>1, <2>1 DEF Rules
<1> QED BY <1>1, <1>2, <1>3

LEMMA StreamRules ==
  ASSUME FullInv, source = input, NEW n \in Streams
  PROVE  n \in 1..Len(source) /\ Rules(source, n)
<1>1. source \in Seq(Token)
  BY StreamTyped DEF Typed
<1>2. n \in 1..Len(source) /\ WellFormed(SubSeq(source, 1, n), BlockUnit)
  BY DEF Streams
<1> QED BY <1>1, <1>2, SoundRules

LEMMA NoStreams == source = input /\ ~Sound => Streams = {}
BY DEF Streams, Sound

(* The stream that has ended is the one that the input starts with.         *)
LEMMA WholeRead ==
  ASSUME FullInv, source = input, ret = "STREAM_END"
  PROVE  Streams # {} /\ out = Content(Whole_in)
<1>1. WellFormed(SubSeq(source, 1, pos), BlockUnit) /\ out = Content(SubSeq(source, 1, pos))
  BY EndDecodes DEF StreamEndSound
<1>2. source \in Seq(Token) /\ Len(source) \in Nat /\ pos \in 0..Len(source)
  BY StreamTyped DEF Typed
<1>3. pos # 0
  <2>1. SUFFICES ASSUME pos = 0 PROVE FALSE
    OBVIOUS
  <2>2. Len(SubSeq(source, 1, 0)) = 0
    BY <1>2
  <2>3. Len(SubSeq(source, 1, pos)) > 3
    BY <1>1 DEF WellFormed
  <2> QED BY <2>1, <2>2, <2>3
<1>4. pos \in 1..Len(source)
  BY <1>2, <1>3
<1>5. pos \in Streams
  BY <1>1, <1>4 DEF Streams
<1> DEFINE m == CHOOSE n \in Streams : TRUE
<1>6. m \in Streams
  BY <1>5
<1> HIDE DEF m
<1>7. m = pos
  BY <1>5, <1>6, StreamRules, OneFront
<1>8. Whole_in = SubSeq(source, 1, pos)
  BY <1>7 DEF m, Whole_in
<1> QED BY <1>1, <1>5, <1>8

(* A block not yet given out to its end decodes to more than its CRC covers.*)
LEMMA MoreToCome ==
  ASSUME FullInv, Going, state = "OUTPUT", ~BlockDone, ~EndsBeforeCount(tt)
  PROVE  /\ Len(calculatedBlockCRC) \in Nat /\ Len(UnRLE(tt)) \in Nat
         /\ Len(calculatedBlockCRC) < Len(UnRLE(tt))
<1>1. /\ tt \in Seq(Bytes) /\ Len(tt) \in Nat /\ nblock_used \in 1..(Len(tt) + 2)
      /\ state_out_ch \in Bytes /\ state_out_len \in Nat
      /\ calculatedBlockCRC \in Seq(Bytes) /\ Len(calculatedBlockCRC) \in Nat
  BY LenProperties DEF FullInv, IInv, TypeOK, BlockType, BlockInTable, nblock
<1> DEFINE u == nblock_used - 1
           r == Run(state_out_ch, state_out_len)
           d == UnRLEBlock(SubSeq(tt, 1, u))
<1>2. /\ nblock_used # Len(tt) + 2
      /\ d.same # 4 /\ d.out = calculatedBlockCRC \o r
  BY <1>1 DEF FullInv, BlockInv, Used, nblock
<1>3. u \in 0..Len(tt) /\ nblock_used = u + 1
  BY <1>1, <1>2
<1> HIDE DEF u
<1>4. r \in Seq(Bytes) /\ Len(r) = state_out_len
  BY <1>1, RunType
<1> HIDE DEF r
<1>5. Len(d.out) = Len(calculatedBlockCRC) + state_out_len
  BY <1>1, <1>2, <1>4, ConcatProperties
<1> HIDE DEF d
<1>6. CASE u = Len(tt)
  <2>1. SubSeq(tt, 1, u) = tt
    BY <1>1, <1>6, SubSeqFull
  <2>2. d.out = UnRLE(tt)
    BY <2>1 DEF d, UnRLE
  <2>3. state_out_len > 0
    BY <1>1, <1>3, <1>6 DEF BlockDone, nblock
  <2> QED BY <1>1, <1>5, <2>2, <2>3
<1>7. CASE u < Len(tt)
  <2>1. u \in Nat /\ u + 1 <= Len(tt) /\ u + 1 \in 0..Len(tt)
    BY <1>1, <1>3, <1>7
  <2>2. /\ SubSeq(tt, 1, u) \in Seq(Bytes) /\ tt[u + 1] \in Bytes
        /\ SubSeq(tt, 1, u + 1) = Append(SubSeq(tt, 1, u), tt[u + 1])
    BY <1>1, <2>1, PrefixAppend
  <2>3. d \in RLEState
    BY <2>2, UnRLEType DEF d
  <2>4. UnRLEBlock(SubSeq(tt, 1, u + 1)) = UnRLEByte(d, tt[u + 1])
    BY <2>2, UnRLEAppend DEF d
  <2>5. UnRLE(SubSeq(tt, 1, u + 1)) = UnRLEByte(d, tt[u + 1]).out
    BY <2>4 DEF UnRLE
  <2>6. Len(UnRLEByte(d, tt[u + 1]).out) = Len(d.out) + 1
    BY <1>2, <2>2, <2>3, UnRLEByteLonger DEF d
  <2>7. /\ Len(UnRLE(SubSeq(tt, 1, u + 1))) \in Nat /\ Len(UnRLE(tt)) \in Nat
        /\ Len(UnRLE(SubSeq(tt, 1, u + 1))) <= Len(UnRLE(tt))
    BY <1>1, <2>1, UnRLELonger
  <2>8. Len(d.out) + 1 <= Len(UnRLE(tt))
    BY <2>5, <2>6, <2>7
  <2> QED BY <1>1, <1>5, <2>7, <2>8
<1> QED BY <1>1, <1>3, <1>6, <1>7

(* The blocks of a whole stream are those that its CRC covers.              *)
LEMMA CoversContent ==
  ASSUME FullInv, NEW n \in 1..Len(source), Rules(source, n)
  PROVE  /\ source[n][2] \in Seq(Seq(Bytes)) /\ n = 2 * Len(source[n][2]) + 4
         /\ \A b \in 1..Len(source[n][2]) : source[n][2][b] = source[2 * b + 1][2]
         /\ Content(SubSeq(source, 1, n)) = Seqs!FlattenSeq(source[n][2])
<1>1. source \in Seq(Token) /\ Len(source) \in Nat
  BY StreamTyped DEF Typed
<1>2. n \in Nat /\ n > 3 /\ n \in 1..n /\ source[n][1] = "crc"
  BY DEF Rules
<1>3. source[n] \in Token
  BY <1>1, ElementOfSeq
<1>4. source[n][2] \in Seq(Seq(Bytes))
  BY <1>2, <1>3 DEF Token
<1> DEFINE x == source[n][2]
<1>5. n = 2 * Len(x) + 4 /\ \A b \in 1..Len(x) : x[b] = source[2 * b + 1][2]
  BY <1>2 DEF Rules
<1>6. x \in Seq(Seq(Bytes)) /\ Len(x) \in Nat
  BY <1>4, LenProperties
<1> HIDE DEF x
<1> DEFINE p == SubSeq(source, 1, n)
<1>7. Len(p) = n /\ \A i \in 1..n : p[i] = source[i]
  BY <1>1, <1>2
<1> HIDE DEF p
<1>8. (Len(p) - 4) \div 2 = Len(x)
  BY <1>2, <1>5, <1>6, <1>7
<1>9. \A b \in 1..Len(x) : p[2 * b + 1][2] = x[b]
  <2> TAKE b \in 1..Len(x)
  <2>1. 2 * b + 1 \in 1..n
    BY <1>2, <1>5, <1>6
  <2> QED BY <1>5, <1>7, <2>1
<1>10. [b \in 1..((Len(p) - 4) \div 2) |-> p[2 * b + 1][2]] = [b \in 1..Len(x) |-> x[b]]
  BY <1>8, <1>9
<1>11. [b \in 1..Len(x) |-> x[b]] = x
  BY <1>6
<1>12. Content(p) = Seqs!FlattenSeq(x)
  BY <1>10, <1>11 DEF Content
<1> QED BY <1>4, <1>5, <1>12 DEF x, p

(* Stopped for want of room inside a block, the call has put out less than  *)
(* the stream holds.                                                        *)
LEMMA LargerThanOut ==
  ASSUME FullInv, Going, state = "OUTPUT", ~BlockDone,
         NEW n \in 1..Len(source), Rules(source, n)
  PROVE  Len(Content(SubSeq(source, 1, n))) > Len(out)
<1>1. TypeOK /\ ParseInv /\ AccountInv /\ Typed
  BY StreamTyped DEF FullInv, IInv
<1>2. UnRLE(tt) = storedBlockCRC /\ ~EndsBeforeCount(tt)
  BY <1>1, SoundOutput
<1>3. pos < n /\ pos \in Nat
  BY <1>1, ReadOnSound
<1> DEFINE x == source[n][2]
           c == calculatedCombinedCRC
           k == Len(c)
<1>4. /\ x \in Seq(Seq(Bytes)) /\ n = 2 * Len(x) + 4
      /\ \A b \in 1..Len(x) : x[b] = source[2 * b + 1][2]
      /\ Content(SubSeq(source, 1, n)) = Seqs!FlattenSeq(x)
  BY CoversContent
<1>5. c \in Seq(Seq(Bytes)) /\ k \in Nat
  BY <1>1, LenProperties DEF TypeOK, BlockType
<1>6. /\ pos = 2 * k + 4 /\ source[pos - 1][2] = storedBlockCRC
      /\ \A b \in 1..k : source[2 * b + 1][2] = c[b]
  BY <1>1 DEF ParseInv, LaidSoFar, Laid, Blocks, Parsing
<1>7. out = Seqs!FlattenSeq(c) \o calculatedBlockCRC
  BY <1>1 DEF AccountInv, OutputAccounted
<1> HIDE DEF x, c, k
<1>8. Len(x) \in Nat
  BY <1>4, LenProperties
<1> DEFINE m == Len(x)
<1>9. k + 1 <= Len(x) /\ k + 1 \in 1..Len(x) /\ k + 1 \in 0..Len(x)
  <2>1. 2 * k + 4 < 2 * m + 4 /\ k \in Nat /\ m \in Nat
    BY <1>3, <1>4, <1>5, <1>6, <1>8
  <2> HIDE DEF m
  <2>2. k + 1 <= m /\ k + 1 \in 1..m /\ k + 1 \in 0..m
    BY <2>1
  <2> QED BY <2>2 DEF m
<1> HIDE DEF m
<1>10. /\ SubSeq(x, 1, k) \in Seq(Seq(Bytes)) /\ Len(SubSeq(x, 1, k)) = k
       /\ SubSeq(x, 1, k + 1) = Append(SubSeq(x, 1, k), x[k + 1])
  BY <1>4, <1>5, <1>9, PrefixAppend
<1>11. SubSeq(x, 1, k) = c
  <2>1. \A b \in 1..k : SubSeq(x, 1, k)[b] = x[b]
    BY <1>4, <1>5, <1>8, <1>9
  <2>2. \A b \in 1..k : x[b] = c[b]
    BY <1>4, <1>5, <1>6, <1>8, <1>9
  <2>3. Len(c) = k
    BY DEF k
  <2> QED BY <1>5, <1>10, <2>1, <2>2, <2>3, SeqEqual
<1>12. x[k + 1] = UnRLE(tt)
  <2>1. x[k + 1] = source[2 * (k + 1) + 1][2]
    BY <1>4, <1>9
  <2>2. 2 * (k + 1) + 1 = pos - 1
    BY <1>5, <1>6
  <2> QED BY <1>2, <1>6, <2>1, <2>2
<1> DEFINE y == UnRLE(tt)
<1>13. y \in Seq(Bytes)
  BY <1>1, UnRLEType DEF TypeOK, BlockType
<1>14. /\ Len(calculatedBlockCRC) \in Nat /\ Len(y) \in Nat
       /\ Len(calculatedBlockCRC) < Len(y) /\ calculatedBlockCRC \in Seq(Bytes)
  BY <1>1, <1>2, MoreToCome DEF TypeOK, BlockType
<1> HIDE DEF y
<1>15. SubSeq(x, 1, k + 1) = Append(c, y)
  BY <1>10, <1>11, <1>12 DEF y
<1>16. /\ Seqs!FlattenSeq(c) \in Seq(Bytes)
       /\ Seqs!FlattenSeq(Append(c, y)) = Seqs!FlattenSeq(c) \o y
  BY <1>5, <1>13, FlattenAppend
<1>17. Len(Seqs!FlattenSeq(SubSeq(x, 1, k + 1))) <= Len(Seqs!FlattenSeq(x))
  BY <1>4, <1>9, FlattenLonger
<1> DEFINE f == Seqs!FlattenSeq(c)
           g == Seqs!FlattenSeq(x)
<1>18. f \in Seq(Bytes) /\ Len(f) \in Nat /\ Len(f \o y) <= Len(g) /\ out = f \o calculatedBlockCRC
  BY <1>7, <1>15, <1>16, <1>17, LenProperties
<1>19. g \in Seq(Bytes) /\ Len(g) \in Nat
  BY <1>4, <1>9, FlattenLonger, LenProperties
<1> HIDE DEF f, g
<1>20. Len(f \o y) = Len(f) + Len(y) /\ Len(out) = Len(f) + Len(calculatedBlockCRC)
  BY <1>13, <1>14, <1>18, ConcatProperties
<1>21. Len(g) > Len(out)
  BY <1>14, <1>18, <1>19, <1>20
<1> QED BY <1>4, <1>21 DEF g

------------------------------------------------------------------------------
(* The one-call functions: each of their steps keeps OneInv.                *)

LEMMA OneCallerStep == OneCaller => FullInv' /\ OneInv'
<1> SUFFICES ASSUME OneCaller PROVE FullInv' /\ OneInv'
  OBVIOUS
<1>1. /\ Init /\ FullInv /\ open = FALSE /\ at = "app" /\ lastErr = "OK"
      /\ ferror = FALSE /\ file = <<>> /\ offset = 0 /\ unused = 0 /\ ready = FALSE
      /\ len = 0 /\ received = <<>>
  BY InitFull DEF OneCaller, OneInit, FileInit
<1>2. PICK e \in {BuffToBuff, Method} \cup Exports, src \in Files, small \in 0..2,
           r \in 0..(WordSize - 1), got \in BOOLEAN : OneCall(e, src, small, r, got)
  <2>1. ASSUME NEW e \in {BuffToBuff} \cup Exports, NEW src \in Files, NEW small \in 0..2,
               NEW r \in Rooms, NEW got \in BOOLEAN, OneCall(e, src, small, r, got)
        PROVE  r \in 0..(WordSize - 1)
    BY RoomAssumption
  <2>2. ASSUME NEW src \in Files PROVE estimatedSize(src) \in 0..(WordSize - 1)
    <3> DEFINE guess == Len(src) * Generous
               most == IF guess > LeastRoom THEN guess ELSE LeastRoom
    <3>1. Len(src) \in Nat /\ Generous \in Nat /\ LeastRoom \in Nat
      BY <2>2, FilesAssumption, LenProperties, RoomAssumption
    <3>2. guess \in Nat
      BY <3>1
    <3>3. most \in Nat
      BY <3>1, <3>2
    <3> HIDE DEF guess, most
    <3>4. most % WordSize \in 0..(WordSize - 1)
      BY <3>3, WordSizeAssumption
    <3> QED BY <3>4 DEF estimatedSize, guess, most
  <2>3. 0 \in 0..2
    OBVIOUS
  <2> QED BY <2>1, <2>2, <2>3 DEF OneCaller
<1>3. /\ SetUp(src, Mode(e, src, small), got) /\ avail_in' = 0
      /\ entry' = e /\ room' = r /\ input' = src /\ dest' = <<>>
      /\ \/ ret' = "OK" /\ step' = "start" /\ code' = "none"
         \/ ret' # "OK" /\ step' = "out" /\ code' = Failed(e, ret')
      /\ UNCHANGED <<open, at, lastErr, ferror, file, offset, unused, ready, len, received>>
  BY <1>2 DEF OneCall, fileVars
<1>4. src \in Seq(Token)
  BY FilesAssumption
<1>5. FullInv'
  <2>1. avail_in' \in Nat
    BY <1>3
  <2> QED BY <1>1, <1>3, <1>4, <2>1, StreamSetUp
<1>6. /\ pc' = "client" /\ UNCHANGED <<pos, out>>
      /\ \/ ret' = "OK" /\ state' = "MAGIC" /\ source' = src
         \/ ret' \in {"PARAM_ERROR", "MEM_ERROR"} /\ state' = "NONE"
  BY <1>3, SetUpTells
<1>7. pos' = 0 /\ out' = <<>>
  BY <1>1, <1>6 DEF Init
<1>8. OneType' /\ e # "none"
  BY <1>3, <1>4 DEF OneType, BuffToBuff, Method, Exports
<1>9. IdleFile'
  BY <1>1, <1>3 DEF IdleFile
<1>10. StartInv' /\ BufferInv' /\ StuckInv'
  BY <1>3, <1>6, <1>7 DEF StartInv, BufferInv, StuckInv
<1>11. OneCallTells'
  <2>1. entry' = BuffToBuff /\ step' = "out" => code' \in {"PARAM_ERROR", "MEM_ERROR"}
    BY <1>3, <1>6 DEF Failed, BuffToBuff, Method
  <2> QED BY <2>1 DEF OneCallTells
<1> QED BY <1>3, <1>5, <1>6, <1>8, <1>9, <1>10, <1>11 DEF OneInv

(* What a step on the stream within a call leaves alone.                    *)
LEMMA WithinFrame ==
  ASSUME OneInv, step # "out", step' = "in",
         UNCHANGED <<fileVars, entry, room, code, input, dest>>,
         BufferInv', StuckInv'
  PROVE  OneInv'
<1>1. UNCHANGED <<open, at, lastErr, ferror, file, offset, unused, ready, len, received>>
  BY DEF fileVars
<1>2. entry # "none" /\ OneType /\ IdleFile
  BY DEF OneInv
<1>3. OneType' /\ IdleFile' /\ StartInv' /\ OneCallTells'
  BY <1>1, <1>2 DEF OneType, IdleFile, StartInv, OneCallTells
<1> QED BY <1>2, <1>3 DEF OneInv

LEMMA TheCallStep == FullInv /\ OneInv /\ TheCall => FullInv' /\ OneInv'
<1> SUFFICES ASSUME FullInv, OneInv, TheCall PROVE FullInv' /\ OneInv'
  OBVIOUS
<1>1. /\ step = "start" /\ step' = "in" /\ BZ2_bzDecompress(Len(input), room)
      /\ UNCHANGED <<fileVars, entry, room, code, input, dest>>
  BY DEF TheCall
<1>2. /\ pc = "client" /\ state = "MAGIC" /\ pos = 0 /\ out = <<>> /\ source = input
      /\ OneType
  BY <1>1 DEF OneInv, StartInv
<1>3. Len(input) \in Nat /\ room \in 0..(WordSize - 1)
  BY <1>2, LenProperties DEF OneType
<1>4. FullInv'
  BY <1>1, <1>3, StreamCall
<1>5. /\ avail_in' = Len(input) /\ avail_out' = room /\ UNCHANGED <<state, source, pos, out>>
      /\ ret' # "OK"
  BY <1>1, <1>2, <1>3, CallTells
<1>6. BufferInv' /\ StuckInv'
  <2>1. Len(out') = 0 /\ room \in Nat
    BY <1>2, <1>3, <1>5, EmptySeq, WordSizeAssumption
  <2>2. 0 + Len(input) = Len(input) /\ 0 + room = room
    BY <1>3, <2>1
  <2> QED BY <1>1, <1>2, <1>5, <2>1, <2>2 DEF BufferInv, StuckInv
<1> QED BY <1>1, <1>4, <1>6, WithinFrame

LEMMA InsideCallStep ==
  ASSUME FullInv, OneInv, step = "in", Library, UNCHANGED <<fileVars, callVars>>
  PROVE  FullInv' /\ OneInv'
<1>1. UNCHANGED <<entry, step, room, code, input, dest>>
  BY DEF callVars
<1>2. FullInv' /\ Typed /\ Typed'
  BY StreamLibrary, StreamTyped, StreamTypedNext
<1>3. LibraryMoves
  BY <1>2, LibraryMovesOn
<1>4. BufferInv
  BY DEF OneInv
<1>5. /\ state' # "NONE" /\ source' = source /\ pos' + avail_in' = pos + avail_in
      /\ Len(out') + avail_out' = Len(out) + avail_out
  BY <1>3 DEF LibraryMoves
<1>6. BufferInv'
  BY <1>1, <1>4, <1>5 DEF BufferInv
<1>7. StuckInv'
  BY <1>3 DEF LibraryMoves, StuckInv
<1> QED BY <1>1, <1>2, <1>6, <1>7, WithinFrame

(* The answer says rightly what has happened.                               *)
LEMMA AnswerTells ==
  ASSUME FullInv, OneInv, step = "in", pc = "client", entry = BuffToBuff
  PROVE  /\ BuffToBuffCode = "OK" => Streams # {} /\ out = Content(Whole_in)
         /\ BuffToBuffCode = "OUTBUFF_FULL" =>
              /\ Len(out) = room
              /\ Streams # {} => Len(Content(Whole_in)) > room
         /\ BuffToBuffCode = "UNEXPECTED_EOF" => Streams = {} /\ Len(out) < room
         /\ BuffToBuffCode \in {"DATA_ERROR", "DATA_ERROR_MAGIC"} => Streams = {}
<1>1. /\ source = input /\ pos + avail_in = Len(source) /\ Len(out) + avail_out = room
      /\ Typed
  BY StreamTyped DEF OneInv, BufferInv
<1>2. ret = "OK" => \/ state \in Parsing /\ avail_in = 0
                    \/ state = "OUTPUT" /\ avail_out = 0 /\ ~BlockDone
  BY DEF OneInv, StuckInv
<1>3. ret = "OK" => Going
  BY DEF Going, Errors
<1>4. ASSUME ret = "OK", state \in Parsing, avail_in = 0 PROVE Streams = {}
  <2>1. pos = Len(source)
    BY <1>1, <1>4 DEF Typed
  <2> QED BY <1>1, <1>3, <1>4, <2>1, NoEndRead, NoStreams
<1>5. ASSUME ret = "OK", state = "OUTPUT", ~BlockDone, avail_out = 0, Streams # {}
      PROVE  Len(Content(Whole_in)) > room
  <2> DEFINE m == CHOOSE n \in Streams : TRUE
  <2>1. m \in Streams
    BY <1>5
  <2>2. Whole_in = SubSeq(input, 1, m)
    BY DEF Whole_in
  <2> HIDE DEF m
  <2>3. m \in 1..Len(source) /\ Rules(source, m)
    BY <1>1, <2>1, StreamRules
  <2>4. Len(Content(SubSeq(source, 1, m))) > Len(out)
    BY <1>3, <1>5, <2>3, LargerThanOut
  <2>5. Len(out) = room
    BY <1>1, <1>5 DEF Typed
  <2> QED BY <1>1, <2>2, <2>4, <2>5
<1>6. CASE ret = "STREAM_END"
  <2>1. BuffToBuffCode = "OK"
    BY <1>6 DEF BuffToBuffCode
  <2> QED BY <1>1, <1>6, <2>1, WholeRead
<1>7. CASE ret = "OK" /\ avail_out > 0
  <2>1. BuffToBuffCode = "UNEXPECTED_EOF"
    BY <1>7 DEF BuffToBuffCode, OverflowOrEof
  <2>2. Streams = {}
    BY <1>1, <1>2, <1>4, <1>7 DEF Typed
  <2>3. Len(out) < room
    BY <1>1, <1>7 DEF Typed
  <2> QED BY <2>1, <2>2, <2>3
<1>8. CASE ret = "OK" /\ ~(avail_out > 0)
  <2>1. BuffToBuffCode = "OUTBUFF_FULL"
    BY <1>8 DEF BuffToBuffCode, OverflowOrEof
  <2>2. Len(out) = room
    BY <1>1, <1>8 DEF Typed
  <2>3. Streams # {} => Len(Content(Whole_in)) > room
    BY <1>2, <1>4, <1>5, <1>8
  <2> QED BY <2>1, <2>2, <2>3
<1>9. CASE ret \notin {"OK", "STREAM_END"}
  <2>1. BuffToBuffCode = ret /\ ret \in Codes
    BY <1>1, <1>9 DEF BuffToBuffCode, Typed
  <2>2. ret \in {"DATA_ERROR", "DATA_ERROR_MAGIC"} => Streams = {}
    BY <1>1, NoStreams DEF FullInv, SoundAccepted
  <2> QED BY <1>9, <2>1, <2>2 DEF Codes, Errors
<1> QED BY <1>6, <1>7, <1>8, <1>9

LEMMA TheAnswerStep == FullInv /\ OneInv /\ TheAnswer => FullInv' /\ OneInv'
<1> SUFFICES ASSUME FullInv, OneInv, TheAnswer PROVE FullInv' /\ OneInv'
  OBVIOUS
<1>1. /\ step = "in" /\ pc = "client" /\ step' = "out" /\ BZ2_bzDecompressEnd
      /\ UNCHANGED <<open, at, lastErr, ferror, file, offset, unused, ready, len, received>>
      /\ UNCHANGED <<entry, room, input>>
  BY DEF TheAnswer, fileVars
<1>2. OneType /\ entry # "none" /\ IdleFile /\ state # "NONE"
  BY <1>1 DEF OneInv, BufferInv
<1>3. FullInv'
  BY <1>1, StreamEnd
<1>4. state' = "NONE" /\ pc' = "client"
  BY <1>1, <1>2, EndTells
<1>5. OneType' /\ IdleFile'
  BY <1>1, <1>2 DEF OneType, IdleFile
<1>6. StartInv' /\ BufferInv' /\ StuckInv'
  BY <1>1 DEF StartInv, BufferInv, StuckInv
<1>7. Streams' = Streams /\ Whole_in' = Whole_in
  BY <1>1 DEF Streams, Whole_in
<1>8. OneCallTells'
  <2> SUFFICES ASSUME entry = BuffToBuff
               PROVE  /\ code' = "OK" => Streams # {} /\ dest' = Content(Whole_in)
                      /\ code' = "OUTBUFF_FULL" =>
                           /\ Len(dest') = room
                           /\ Streams # {} => Len(Content(Whole_in)) > room
                      /\ code' = "UNEXPECTED_EOF" => Streams = {} /\ Len(dest') < room
                      /\ code' \in {"DATA_ERROR", "DATA_ERROR_MAGIC"} => Streams = {}
    BY <1>1, <1>7 DEF OneCallTells
  <2>1. BuffToBuff # Method /\ BuffToBuff \notin Exports
    BY DEF BuffToBuff, Method, Exports
  <2>2. code' = CASE entry = BuffToBuff  -> BuffToBuffCode
                  [] entry \in Exports   -> ExportCode
                  [] entry = Method      -> MethodCode
    BY DEF TheAnswer
  <2>3. code' = BuffToBuffCode
    BY <2>1, <2>2
  <2>4. dest' = out
    BY DEF TheAnswer
  <2> QED BY <1>1, <2>3, <2>4, AnswerTells
<1> QED BY <1>1, <1>2, <1>3, <1>4, <1>5, <1>6, <1>8 DEF OneInv

LEMMA ForgetStep == FullInv /\ OneInv /\ Forget => FullInv' /\ OneInv'
<1> SUFFICES ASSUME FullInv, OneInv, Forget PROVE FullInv' /\ OneInv'
  OBVIOUS
<1>1. /\ entry # "none" /\ step = "out" /\ entry' = "none" /\ step' = "out"
      /\ room' = 0 /\ code' = "none" /\ input' = <<>>
      /\ UNCHANGED <<open, at, lastErr, ferror, file, offset, unused, ready, len, received>>
      /\ UNCHANGED <<state, pc>>
  BY DEF Forget, fileVars
<1>2. IdleFile /\ state = "NONE" /\ pc = "client"
  BY <1>1 DEF OneInv
<1>3. FullInv'
  BY <1>2, StreamForget
<1>4. OneType'
  BY <1>1, EmptySeq, WordSizeAssumption DEF OneType
<1>5. ReadType'
  <2>1. /\ <<>> \in Seq(Token) /\ <<>> \in Seq(Bytes) /\ Len(<<>>) = 0
        /\ 0 \in 0..0 /\ 0 \in 0..(WordSize - 1)
    BY EmptySeq, WordSizeAssumption
  <2> QED BY <1>1, <1>2, <2>1 DEF IdleFile, ReadType, Codes
<1>6. ReadInv'
  BY <1>1, <1>2, <1>5 DEF IdleFile, ReadInv, TurnInv, PlaceInv, GivenInv, EndsTold
<1> QED BY <1>1, <1>3, <1>4, <1>6 DEF OneInv, StartInv, BufferInv, StuckInv, OneCallTells,
                                      BuffToBuff

LEMMA OneFileStep ==
  FullInv /\ OneInv /\ entry = "none" /\ FileNext /\ UNCHANGED callVars => FullInv' /\ OneInv'
<1> SUFFICES ASSUME FullInv, OneInv, entry = "none", FileNext, UNCHANGED callVars
             PROVE  FullInv' /\ OneInv'
  OBVIOUS
<1>1. UNCHANGED <<entry, step, room, code, input, dest>>
  BY DEF callVars
<1>2. ReadInv /\ OneType /\ step = "out"
  BY DEF OneInv
<1>3. FullInv' /\ ReadInv'
  BY <1>2, FileStep
<1>4. OneType'
  BY <1>1, <1>2 DEF OneType
<1> QED BY <1>1, <1>2, <1>3, <1>4 DEF OneInv, StartInv, BufferInv, StuckInv, OneCallTells,
                                      BuffToBuff

LEMMA OneStutter == FullInv /\ OneInv /\ UNCHANGED oneVars => FullInv' /\ OneInv'
<1> SUFFICES ASSUME FullInv, OneInv, UNCHANGED oneVars PROVE FullInv' /\ OneInv'
  OBVIOUS
<1>1. /\ UNCHANGED <<vars, fileVars>> /\ UNCHANGED vars
      /\ UNCHANGED <<entry, step, room, code, input, dest>>
  BY DEF oneVars, allVars, callVars
<1>2. UNCHANGED <<open, at, lastErr, ferror, file, offset, unused, ready, len, received>>
  BY <1>1 DEF fileVars
<1>3. UNCHANGED <<state, pc, ret, source, pos, avail_in, avail_out, out, tt, nblock_used,
                  state_out_len>>
  BY <1>1 DEF vars
<1>4. FullInv'
  BY <1>1, StutterFull
<1>5. ReadInv => ReadInv'
  BY <1>1, FileStutter
<1>6. OneType' /\ (IdleFile => IdleFile')
  BY <1>1, <1>2 DEF OneInv, OneType, IdleFile
<1>7. StartInv' /\ BufferInv'
  BY <1>1, <1>3 DEF OneInv, StartInv, BufferInv
<1>8. StuckInv'
  <2>1. BlockDone' = BlockDone
    BY <1>3 DEF BlockDone, nblock
  <2> QED BY <1>1, <1>3, <2>1 DEF OneInv, StuckInv
<1>9. OneCallTells'
  BY <1>1 DEF OneInv, OneCallTells, Streams, Whole_in
<1> QED BY <1>1, <1>3, <1>4, <1>5, <1>6, <1>7, <1>8, <1>9 DEF OneInv

LEMMA OneInitInv == OneInit => FullInv /\ OneInv
<1> SUFFICES ASSUME OneInit PROVE FullInv /\ OneInv
  OBVIOUS
<1>1. /\ Init /\ open = FALSE /\ at = "app" /\ lastErr = "OK" /\ ferror = FALSE
      /\ file = <<>> /\ offset = 0 /\ unused = 0 /\ ready = FALSE
      /\ len = 0 /\ received = <<>>
      /\ entry = "none" /\ step = "out" /\ room = 0 /\ input = <<>>
  BY DEF OneInit, FileInit
<1>2. pc = "client" /\ state = "NONE"
  BY <1>1 DEF Init
<1>3. OneType /\ ReadType
  <2>1. /\ <<>> \in Seq(Token) /\ <<>> \in Seq(Bytes) /\ Len(<<>>) = 0
        /\ 0 \in 0..0 /\ 0 \in 0..(WordSize - 1)
    BY EmptySeq, WordSizeAssumption
  <2>2. OneType
    BY <1>1, <2>1 DEF OneType
  <2>3. ReadType
    BY <1>1, <2>1 DEF ReadType, Codes
  <2> QED BY <2>2, <2>3
<1>4. ReadInv
  BY <1>1, <1>2, <1>3 DEF ReadInv, TurnInv, PlaceInv, GivenInv, EndsTold
<1>5. FullInv
  BY <1>1, InitFull
<1> QED BY <1>1, <1>3, <1>4, <1>5
        DEF OneInv, StartInv, BufferInv, StuckInv, OneCallTells, BuffToBuff

LEMMA OneNextStep == FullInv /\ OneInv /\ [OneNext]_oneVars => FullInv' /\ OneInv'
<1> SUFFICES ASSUME FullInv, OneInv, OneNext PROVE FullInv' /\ OneInv'
  BY OneStutter
<1>1. CASE OneCaller
  BY <1>1, OneCallerStep
<1>2. CASE TheCall
  BY <1>2, TheCallStep
<1>3. CASE TheAnswer
  BY <1>3, TheAnswerStep
<1>4. CASE step = "in" /\ Library /\ UNCHANGED <<fileVars, callVars>>
  BY <1>4, InsideCallStep
<1>5. CASE Forget
  BY <1>5, ForgetStep
<1>6. CASE entry = "none" /\ FileNext /\ UNCHANGED callVars
  BY <1>6, OneFileStep
<1> QED BY <1>1, <1>2, <1>3, <1>4, <1>5, <1>6 DEF OneNext, OneStep

------------------------------------------------------------------------------
(***************************************************************************)
(* The strengthened invariants hold of the decompressor under all of its   *)
(* callers, and of what those keep.                                        *)
(***************************************************************************)
THEOREM OneInductive == OneSpec => [](FullInv /\ OneInv)
BY OneInitInv, OneNextStep, PTL DEF OneSpec

(***************************************************************************)
(* BZ2_bzRead tells both ends of a stream for what they are, across        *)
(* refills of bzf->buf and calls of any length: BZ_STREAM_END is all of a  *)
(* whole, sound stream, BZ_UNEXPECTED_EOF a file that stops inside one.    *)
(***************************************************************************)
THEOREM EndsAreTold == OneSpec => []EndsTold
<1>1. OneInv => EndsTold
  BY DEF OneInv, ReadInv, IdleFile, EndsTold
<1> QED BY <1>1, OneInductive, PTL

(***************************************************************************)
(* BZ2_bzBuffToBuffDecompress tells rightly what its one call has ended in:*)
(* BZ_OK is all of a sound stream, BZ_OUTBUFF_FULL never one that fits,    *)
(* BZ_UNEXPECTED_EOF and the data errors never one at all.                 *)
(***************************************************************************)
THEOREM OneCallTold == OneSpec => []OneCallTells
<1>1. OneInv => OneCallTells
  BY DEF OneInv
<1> QED BY <1>1, OneInductive, PTL

(***************************************************************************)
(* What BZ2_bzReadGetUnused hands on starts right behind the trailer of    *)
(* the stream that has ended.                                              *)
(***************************************************************************)
THEOREM UnusedIsExact == OneSpec => UnusedExact
<1> DEFINE Behind == open /\ ~ready /\ ready' =>
                       WellFormed(SubSeq(source, 1, offset - unused' - Start), BlockUnit)
<1>1. FullInv /\ OneInv /\ [OneNext]_oneVars => [Behind]_allVars
  <2> SUFFICES ASSUME FullInv, OneInv, [OneNext]_oneVars, open, ~ready, ready'
               PROVE  WellFormed(SubSeq(source, 1, offset - unused' - Start), BlockUnit)
    OBVIOUS
  <2>1. ~(UNCHANGED fileVars) /\ ~(UNCHANGED oneVars)
    BY DEF fileVars, oneVars, allVars
  <2>2. entry = "none" /\ FileNext
    BY <2>1 DEF OneNext, OneCaller, OneCall, OneStep, TheCall, TheAnswer, Forget
  <2>3. BZ2_bzReadGetUnused
    BY <2>1, <2>2 DEF FileNext, Application, Interface, NewFile, BZ2_bzReadOpen, BZ2_bzRead,
                      BZ2_bzReadClose, LoopTop, AfterCall
  <2>4. lastErr = "STREAM_END" /\ unused' = avail_in
    BY <2>3 DEF BZ2_bzReadGetUnused
  <2>5. ReadInv /\ Typed
    BY <2>2, StreamTyped DEF OneInv
  <2>6. WellFormed(SubSeq(source, 1, pos), BlockUnit)
    BY <2>4, <2>5 DEF ReadInv, EndsTold, EndIsWhole
  <2>7. Start + pos + avail_in = offset /\ Start \in Int /\ pos \in Nat /\ avail_in \in Nat
    BY <2>4, <2>5, LenProperties DEF ReadInv, PlaceInv, ReadType, Start, Typed
  <2>8. offset - unused' - Start = pos
    BY <2>4, <2>7
  <2> QED BY <2>6, <2>8
<1> QED BY <1>1, OneInductive, PTL DEF OneSpec, UnusedExact
==============================================================================
