---------------------------- MODULE CompressStream ----------------------------
(***************************************************************************)
(* The streaming compressor of libbzip2: BZ2_bzCompressInit,               *)
(* BZ2_bzCompress and BZ2_bzCompressEnd (bzlib.c) with the block framing   *)
(* of BZ2_compressBlock and its bit buffer (compress.c).                   *)
(*                                                                         *)
(* A caller owns the bz_stream: before each call it sets avail_in and      *)
(* avail_out as it likes and names an action.  Inside the call the library *)
(* runs the loop of handle_compress; every byte it copies in or out is one *)
(* step here, so a call that stops for lack of room stops at any point.    *)
(*                                                                         *)
(* Data is abstracted.  A CRC is the sequence of bytes it was computed     *)
(* over, and combinedCRC the sequence of block CRCs folded into it.  The   *)
(* compressed stream is a sequence of tokens instead of bits: two for the  *)
(* stream header, two for a block, two for the trailer.  bsW empties       *)
(* bsBuff only before it adds new bits, so the last token written always   *)
(* stays behind in bsBuff until the next write.                            *)
(***************************************************************************)
EXTENDS Integers, Sequences, RunLength, StreamFormat

CONSTANTS
  Symbols,       \* the byte values the caller's data is made of
  RunMax,        \* longest run one pair stands for: 255
  BlockUnit,     \* bytes of block per unit of blockSize100k: 100000
  WordSize,      \* values of one half of a total_in/total_out counter: 2^32
  Levels,        \* blockSize100k values callers ask for, legal or not
  InBound,       \* bound: bytes a caller hands over in one stream
  ChunkIn,       \* bound: largest avail_in
  ChunkOut,      \* bound: largest avail_out
  BlockNoBound   \* bound: the caller starts no flush once blockNo is this

ASSUME SymbolsAssumption   == Symbols \subseteq 0..255
ASSUME RunMaxAssumption    == RunMax \in 4..255
ASSUME BlockUnitAssumption == BlockUnit \in Nat /\ BlockUnit > 19
ASSUME WordSizeAssumption  == WordSize \in Nat /\ WordSize > 1
ASSUME LevelsAssumption    == Levels \subseteq Int
ASSUME BoundsAssumption    == /\ InBound \in Nat
                              /\ ChunkIn \in Nat
                              /\ ChunkOut \in Nat
                              /\ BlockNoBound \in Nat

VARIABLES
  avail_in, avail_out,       \* bz_stream: what the caller's buffers still hold
  total_in, total_out,       \* bz_stream: 64-bit counters as [lo, hi] pairs
  mode,                      \* EState.mode, or "NONE" while strm->state = NULL
  state,                     \* EState.state: "INPUT" or "OUTPUT"
  avail_in_expect,           \* input announced by BZ_FLUSH or BZ_FINISH, unread
  state_in_ch, state_in_len, \* the run being collected; 256 means no byte
  blockSize100k,
  block,                     \* block[0 .. nblock-1]
  inUse,                     \* the bytes flagged in inUse[256]
  blockCRC, combinedCRC,
  blockNo,
  zbits, state_out_pos,      \* zbits[0 .. numZ-1] and how much was copied out
  bsBuff,                    \* the bits bsW has not moved to zbits yet
  heap,                      \* what BZ2_bzCompressInit allocated
  pc,                        \* "client" between calls, "loop" or "ret" inside
  progress,                  \* progress_in || progress_out
  ret,                       \* the value the last call returned
  fed, packed, stream, out   \* history: bytes read; bytes in closed blocks;
                             \* tokens written; tokens the caller received

runVars   == <<state_in_ch, state_in_len>>
blockVars == <<block, inUse, blockCRC>>
bitVars   == <<zbits, bsBuff, combinedCRC, stream, packed>>
outVars   == <<state_out_pos, out, total_out, avail_out>>
inVars    == <<avail_in, avail_in_expect, total_in, fed>>
lifeVars  == <<blockSize100k, heap>>
vars == <<avail_in, avail_out, total_in, total_out, mode, state,
          avail_in_expect, state_in_ch, state_in_len, blockSize100k, block,
          inUse, blockCRC, combinedCRC, blockNo, zbits, state_out_pos, bsBuff,
          heap, pc, progress, ret, fed, packed, stream, out>>

NoChar  == 256
Buffers == {"EState", "arr1", "arr2", "ftab"}
Modes   == {"NONE", "IDLE", "RUNNING", "FLUSHING", "FINISHING"}
Codes   == {"none", "OK", "RUN_OK", "FLUSH_OK", "FINISH_OK", "STREAM_END",
            "SEQUENCE_ERROR", "PARAM_ERROR", "MEM_ERROR"}

nblock    == Len(block)
numZ      == Len(zbits)
nblockMAX == BlockUnit * blockSize100k - 19

isempty_RL == ~(state_in_ch < NoChar /\ state_in_len > 0)

(* A 64-bit counter kept as two words: lo wraps, and carries into hi. *)
Tick(t) == IF t.lo + 1 = WordSize THEN [lo |-> 0, hi |-> t.hi + 1]
                                  ELSE [lo |-> t.lo + 1, hi |-> t.hi]
Zero64  == [lo |-> 0, hi |-> 0]

------------------------------------------------------------------------------
(***************************************************************************)
(* BZ2_compressBlock on the block `blk' with CRC `crc': the header when    *)
(* this is block number 1, the block when it holds anything, the trailer   *)
(* when it is the last.  bsInitWrite empties the bit buffer before the     *)
(* header, bsFinishWrite after the trailer.                                *)
(***************************************************************************)
BZ2_compressBlock(blk, crc, last) ==
  LET crcs    == IF blk = <<>> THEN combinedCRC ELSE Append(combinedCRC, crc)
      kept    == IF blk # <<>> /\ blockNo > 1 THEN <<>> ELSE zbits
      written == (IF blockNo = 1 THEN HeaderTokens(blockSize100k) ELSE <<>>)
                   \o (IF blk = <<>> THEN <<>> ELSE BlockTokens(crc, blk))
                   \o (IF last THEN TrailerTokens(crcs) ELSE <<>>)
      bits    == (IF blockNo = 1 THEN <<>> ELSE bsBuff) \o written
      whole   == IF last \/ bits = <<>> THEN Len(bits) ELSE Len(bits) - 1
  IN /\ combinedCRC' = crcs
     /\ zbits'  = kept \o SubSeq(bits, 1, whole)
     /\ bsBuff' = SubSeq(bits, whole + 1, Len(bits))
     /\ stream' = stream \o written
     /\ packed' = packed \o crc

(* prepare_new_block *)
prepare_new_block ==
  /\ block' = <<>>
  /\ zbits' = <<>>
  /\ state_out_pos' = 0
  /\ blockCRC' = <<>>
  /\ inUse' = {}
  /\ blockNo' = blockNo + 1

(* add_pair_to_block: the pending run enters the block and its CRC. *)
add_pair_to_block ==
  /\ blockCRC' = blockCRC \o Run(state_in_ch, state_in_len)
  /\ block' = block \o Pair(state_in_ch, state_in_len)
  /\ inUse' = inUse \cup {state_in_ch}
                 \cup (IF state_in_len < 4 THEN {} ELSE {state_in_len - 4})

AddCharToBlock_NoCap(c) ==  \* mutant: no test of state_in_len = 255
  \/ /\ c # state_in_ch
     /\ IF state_in_ch < NoChar THEN add_pair_to_block ELSE UNCHANGED blockVars
     /\ state_in_ch' = c
     /\ state_in_len' = 1
  \/ /\ c = state_in_ch
     /\ state_in_len' = state_in_len + 1
     /\ UNCHANGED <<state_in_ch, blockVars>>

(* ADD_CHAR_TO_BLOCK *)
AddCharToBlock(c) ==
  \/ /\ c # state_in_ch \/ state_in_len = RunMax
     /\ IF state_in_ch < NoChar THEN add_pair_to_block ELSE UNCHANGED blockVars
     /\ state_in_ch' = c
     /\ state_in_len' = 1
  \/ /\ c = state_in_ch /\ state_in_len # RunMax
     /\ state_in_len' = state_in_len + 1
     /\ UNCHANGED <<state_in_ch, blockVars>>

------------------------------------------------------------------------------
Init ==
  /\ avail_in = 0 /\ avail_out = 0 /\ total_in = Zero64 /\ total_out = Zero64
  /\ mode = "NONE" /\ state = "INPUT" /\ avail_in_expect = 0
  /\ state_in_ch = NoChar /\ state_in_len = 0
  /\ blockSize100k = 1
  /\ block = <<>> /\ inUse = {} /\ blockCRC = <<>> /\ combinedCRC = <<>>
  /\ blockNo = 0 /\ zbits = <<>> /\ state_out_pos = 0 /\ bsBuff = <<>>
  /\ heap = {} /\ pc = "client" /\ progress = FALSE /\ ret = "none"
  /\ fed = <<>> /\ packed = <<>> /\ stream = <<>> /\ out = <<>>

(***************************************************************************)
(* BZ2_bzCompressInit with `got' the allocations that succeed: a level out *)
(* of range is a parameter error, a failed allocation gives back the       *)
(* others.  init_RL and prepare_new_block start block number 1.            *)
(***************************************************************************)
SetUp(level, got) ==
  /\ pc = "client" /\ mode = "NONE"
  /\ UNCHANGED <<pc, progress, avail_in_expect, combinedCRC, bsBuff,
                 fed, packed, stream, out>>
  /\ \/ /\ level \notin 1..9
        /\ ret' = "PARAM_ERROR"
        /\ UNCHANGED <<total_in, total_out, mode, state, runVars, blockVars,
                       blockNo, zbits, state_out_pos, lifeVars>>
     \/ /\ level \in 1..9
        /\ got # Buffers
        /\ ret' = "MEM_ERROR"
        /\ heap' = IF "EState" \in got
                   THEN got \ {"arr1", "arr2", "ftab", "EState"} ELSE {}
        /\ UNCHANGED <<total_in, total_out, mode, state, runVars, blockVars,
                       blockNo, zbits, state_out_pos, blockSize100k>>
     \/ /\ level \in 1..9
        /\ got = Buffers
        /\ heap' = got
        /\ mode' = "RUNNING"
        /\ state' = "INPUT"
        /\ blockSize100k' = level
        /\ total_in' = Zero64 /\ total_out' = Zero64
        /\ state_in_ch' = NoChar /\ state_in_len' = 0
        /\ prepare_new_block
        /\ ret' = "OK"

(* Called on a bz_stream of the caller's, whose buffers are left alone. *)
BZ2_bzCompressInit(level, got) ==
  SetUp(level, got) /\ UNCHANGED <<avail_in, avail_out>>

(***************************************************************************)
(* BZ2_bzCompress up to handle_compress: the caller puts ai bytes of input *)
(* and ao bytes of room in the bz_stream and asks for `action'.  The       *)
(* library refuses, or notes how much input a flush or finish covers and   *)
(* enters the loop.                                                        *)
(***************************************************************************)
Refuse(code) ==
  /\ ret' = code
  /\ UNCHANGED <<pc, progress, mode, avail_in_expect>>

Enter(newMode, expect) ==
  /\ mode' = newMode
  /\ avail_in_expect' = expect
  /\ pc' = "loop"
  /\ progress' = FALSE
  /\ ret' = "none"

BZ2_bzCompress_NewExpect(action, ai, ao) ==  \* mutant: each call announces anew
  /\ pc = "client"
  /\ Len(fed) + ai <= InBound
  /\ action = "FLUSH" /\ mode = "RUNNING" => blockNo < BlockNoBound
  /\ avail_in' = ai /\ avail_out' = ao
  /\ \/ mode = "RUNNING" /\ action = "RUN"    /\ Enter("RUNNING", avail_in_expect)
     \/ mode \in {"RUNNING", "FLUSHING"}  /\ action = "FLUSH"  /\ Enter("FLUSHING", ai)
     \/ mode \in {"RUNNING", "FINISHING"} /\ action = "FINISH" /\ Enter("FINISHING", ai)
  /\ UNCHANGED <<total_in, total_out, state, runVars, lifeVars, blockVars,
                 blockNo, bitVars, state_out_pos, fed, out>>

BZ2_bzCompress(action, ai, ao) ==
  /\ pc = "client"
  /\ Len(fed) + ai <= InBound
  /\ action = "FLUSH" /\ mode = "RUNNING" => blockNo < BlockNoBound
  /\ avail_in' = ai /\ avail_out' = ao
  /\ \/ mode = "NONE" /\ Refuse("PARAM_ERROR")
     \/ mode = "IDLE" /\ Refuse("SEQUENCE_ERROR")
     \/ mode = "RUNNING" /\ action = "RUN"    /\ Enter("RUNNING", avail_in_expect)
     \/ mode = "RUNNING" /\ action = "FLUSH"  /\ Enter("FLUSHING", ai)
     \/ mode = "RUNNING" /\ action = "FINISH" /\ Enter("FINISHING", ai)
     \/ mode = "RUNNING" /\ action = "OTHER"  /\ Refuse("PARAM_ERROR")
     \/ /\ mode = "FLUSHING"
        /\ \/ (action # "FLUSH" \/ avail_in_expect # ai) /\ Refuse("SEQUENCE_ERROR")
           \/ action = "FLUSH" /\ avail_in_expect = ai /\ Enter(mode, ai)
     \/ /\ mode = "FINISHING"
        /\ \/ (action # "FINISH" \/ avail_in_expect # ai) /\ Refuse("SEQUENCE_ERROR")
           \/ action = "FINISH" /\ avail_in_expect = ai /\ Enter(mode, ai)
  /\ UNCHANGED <<total_in, total_out, state, runVars, lifeVars, blockVars,
                 blockNo, bitVars, state_out_pos, fed, out>>

------------------------------------------------------------------------------
(* handle_compress, one step per byte copied and one per turn of its loop.  *)

CanCopyOut == avail_out > 0 /\ state_out_pos < numZ

(* One byte in copy_output_until_stop. *)
CopyOutput ==
  /\ pc = "loop" /\ state = "OUTPUT" /\ CanCopyOut
  /\ out' = Append(out, zbits[state_out_pos + 1])
  /\ state_out_pos' = state_out_pos + 1
  /\ avail_out' = avail_out - 1
  /\ total_out' = Tick(total_out)
  /\ progress' = TRUE
  /\ UNCHANGED <<inVars, mode, state, runVars, lifeVars, blockVars, blockNo,
                 bitVars, pc, ret>>

AfterOutput_DropsRest ==  \* mutant: no test that zbits has been copied out
  /\ pc = "loop" /\ state = "OUTPUT" /\ ~CanCopyOut
  /\ IF mode = "FINISHING" /\ avail_in_expect = 0 /\ isempty_RL
     THEN /\ pc' = "ret"
          /\ UNCHANGED <<state, blockVars, blockNo, zbits, state_out_pos>>
     ELSE /\ prepare_new_block
          /\ state' = "INPUT"
          /\ pc' = "loop"
  /\ UNCHANGED <<inVars, avail_out, total_out, mode, runVars, lifeVars,
                 combinedCRC, bsBuff, stream, packed, progress, ret, out>>

(* What handle_compress does once copy_output_until_stop has stopped. *)
AfterOutput ==
  /\ pc = "loop" /\ state = "OUTPUT" /\ ~CanCopyOut
  /\ IF \/ state_out_pos < numZ
        \/ mode = "FINISHING" /\ avail_in_expect = 0 /\ isempty_RL
     THEN /\ pc' = "ret"
          /\ UNCHANGED <<state, blockVars, blockNo, zbits, state_out_pos>>
     ELSE /\ prepare_new_block
          /\ state' = "INPUT"
          /\ pc' = IF mode = "FLUSHING" /\ avail_in_expect = 0 /\ isempty_RL
                   THEN "ret" ELSE "loop"
  /\ UNCHANGED <<inVars, avail_out, total_out, mode, runVars, lifeVars,
                 combinedCRC, bsBuff, stream, packed, progress, ret, out>>

BlockFull_OffByOne == nblock > nblockMAX  \* mutant
BlockFull == nblock >= nblockMAX

CanCopyIn == /\ ~BlockFull
             /\ avail_in > 0
             /\ mode # "RUNNING" => avail_in_expect > 0

CopyInput_KeepsExpect(c) ==  \* mutant: avail_in_expect is not counted down
  /\ pc = "loop" /\ state = "INPUT" /\ CanCopyIn
  /\ AddCharToBlock(c)
  /\ fed' = Append(fed, c)
  /\ avail_in' = avail_in - 1
  /\ total_in' = Tick(total_in)
  /\ progress' = TRUE
  /\ UNCHANGED <<avail_in_expect, outVars, mode, state, lifeVars, blockNo,
                 bitVars, pc, ret>>

(* One byte in copy_input_until_stop. *)
CopyInput(c) ==
  /\ pc = "loop" /\ state = "INPUT" /\ CanCopyIn
  /\ AddCharToBlock(c)
  /\ fed' = Append(fed, c)
  /\ avail_in' = avail_in - 1
  /\ total_in' = Tick(total_in)
  /\ avail_in_expect' =
       IF mode = "RUNNING" THEN avail_in_expect ELSE avail_in_expect - 1
  /\ progress' = TRUE
  /\ UNCHANGED <<outVars, mode, state, lifeVars, blockNo, bitVars, pc, ret>>

(***************************************************************************)
(* What handle_compress does once copy_input_until_stop has stopped: close *)
(* the block of a flush or finish, after flush_RL has put the pending run  *)
(* into it; or close a full block, which leaves the pending run for the    *)
(* next one; or return for want of input.                                  *)
(***************************************************************************)
EndOfFlushOrFinish == mode # "RUNNING" /\ avail_in_expect = 0

CloseLastBlock ==
  LET some == state_in_ch < NoChar
      blk  == IF some THEN block \o Pair(state_in_ch, state_in_len) ELSE block
      crc  == IF some THEN blockCRC \o Run(state_in_ch, state_in_len)
                      ELSE blockCRC
  IN /\ IF some THEN add_pair_to_block ELSE UNCHANGED blockVars
     /\ state_in_ch' = NoChar /\ state_in_len' = 0
     /\ BZ2_compressBlock(blk, crc, mode = "FINISHING")

CloseFullBlock_DropsRun ==  \* mutant: init_RL without flush_RL
  /\ BZ2_compressBlock(block, blockCRC, FALSE)
  /\ state_in_ch' = NoChar /\ state_in_len' = 0
  /\ UNCHANGED blockVars

CloseFullBlock ==
  /\ BZ2_compressBlock(block, blockCRC, FALSE)
  /\ UNCHANGED <<runVars, blockVars>>

AfterInput ==
  /\ pc = "loop" /\ state = "INPUT" /\ ~CanCopyIn
  /\ IF EndOfFlushOrFinish \/ BlockFull
     THEN /\ IF EndOfFlushOrFinish THEN CloseLastBlock ELSE CloseFullBlock
          /\ state' = "OUTPUT"
          /\ UNCHANGED pc
     ELSE /\ pc' = "ret"
          /\ UNCHANGED <<state, runVars, blockVars, bitVars>>
  /\ UNCHANGED <<inVars, outVars, mode, lifeVars, blockNo, progress, ret>>

------------------------------------------------------------------------------
(* BZ2_bzCompress after handle_compress. *)

Unfinished_NoOutputTest == avail_in_expect > 0 \/ ~isempty_RL  \* mutant

Unfinished == \/ avail_in_expect > 0
              \/ ~isempty_RL
              \/ state_out_pos < numZ

Return ==
  /\ pc = "ret"
  /\ pc' = "client"
  /\ \/ /\ mode = "RUNNING"
        /\ ret' = IF progress THEN "RUN_OK" ELSE "PARAM_ERROR"
        /\ UNCHANGED mode
     \/ /\ mode = "FLUSHING"
        /\ ret'  = IF Unfinished THEN "FLUSH_OK" ELSE "RUN_OK"
        /\ mode' = IF Unfinished THEN mode ELSE "RUNNING"
     \/ /\ mode = "FINISHING" /\ ~progress
        /\ ret' = "SEQUENCE_ERROR"
        /\ UNCHANGED mode
     \/ /\ mode = "FINISHING" /\ progress
        /\ ret'  = IF Unfinished THEN "FINISH_OK" ELSE "STREAM_END"
        /\ mode' = IF Unfinished THEN mode ELSE "IDLE"
  /\ UNCHANGED <<inVars, outVars, state, runVars, lifeVars, blockVars, blockNo,
                 bitVars, progress>>

(* BZ2_bzCompressEnd: a null strm->state is a parameter error; otherwise    *)
(* everything is freed and strm->state becomes NULL.                        *)
EndNothing ==
  /\ mode = "NONE"
  /\ ret' = "PARAM_ERROR"
  /\ UNCHANGED <<avail_in, avail_out, total_in, total_out, mode, state,
                 avail_in_expect, runVars, lifeVars, blockVars, combinedCRC,
                 blockNo, zbits, state_out_pos, bsBuff, pc, progress,
                 fed, packed, stream, out>>

EndStream ==
  /\ mode # "NONE"
  /\ heap' = heap \ {"arr1", "arr2", "ftab", "EState"}
  /\ mode' = "NONE" /\ state' = "INPUT" /\ avail_in_expect' = 0
  /\ state_in_ch' = NoChar /\ state_in_len' = 0
  /\ blockSize100k' = 1
  /\ block' = <<>> /\ inUse' = {} /\ blockCRC' = <<>> /\ combinedCRC' = <<>>
  /\ blockNo' = 0 /\ zbits' = <<>> /\ state_out_pos' = 0 /\ bsBuff' = <<>>
  /\ progress' = FALSE /\ ret' = "OK"
  /\ fed' = <<>> /\ packed' = <<>> /\ stream' = <<>> /\ out' = <<>>
  /\ UNCHANGED <<avail_in, avail_out, total_in, total_out, pc>>

BZ2_bzCompressEnd == pc = "client" /\ (EndNothing \/ EndStream)

Actions == {"RUN", "FLUSH", "FINISH", "OTHER"}

Caller ==
  \/ \E level \in Levels, got \in SUBSET Buffers : BZ2_bzCompressInit(level, got)
  \/ \E action \in Actions, ai \in 0..ChunkIn,
        ao \in 0..ChunkOut : BZ2_bzCompress(action, ai, ao)
  \/ BZ2_bzCompressEnd

Library ==
  \/ CopyOutput
  \/ AfterOutput
  \/ \E c \in Symbols : CopyInput(c)
  \/ AfterInput
  \/ Return

Next == Caller \/ Library

Spec == Init /\ [][Next]_vars

(***************************************************************************)
(* A call in progress runs to its end.  The caller that has begun a flush  *)
(* or a finish persists with it as the manual asks (manual.xml:1305 and    *)
(* 1276): again and again it repeats the call with the input it announced  *)
(* and at least one byte of room.  It may do anything else in between.     *)
(***************************************************************************)
PersistWith(action) ==
  /\ mode \in {"RUNNING", "FLUSHING", "FINISHING"}
  /\ BZ2_bzCompress(action, avail_in_expect, ChunkOut)

Fairness == /\ WF_vars(Library)
            /\ SF_vars(mode = "FLUSHING"  /\ PersistWith("FLUSH"))
            /\ SF_vars(mode = "FINISHING" /\ PersistWith("FINISH"))

FairSpec == Spec /\ Fairness

------------------------------------------------------------------------------
(* Properties. *)

StrmType ==
  /\ avail_in \in Nat /\ avail_out \in Nat /\ avail_in_expect \in Nat
  /\ total_in  \in [lo : 0..(WordSize - 1), hi : Nat]
  /\ total_out \in [lo : 0..(WordSize - 1), hi : Nat]
ControlType ==
  /\ mode \in Modes /\ state \in {"INPUT", "OUTPUT"}
  /\ pc \in {"client", "loop", "ret"} /\ progress \in BOOLEAN /\ ret \in Codes
  /\ blockSize100k \in 1..9 /\ blockNo \in Nat /\ heap \subseteq Buffers
BlockType ==
  /\ state_in_ch \in Bytes \cup {NoChar} /\ state_in_len \in 0..RunMax
  /\ block \in Seq(Bytes) /\ inUse \subseteq Bytes
  /\ blockCRC \in Seq(Bytes) /\ fed \in Seq(Bytes)
StreamType ==
  /\ zbits \in Seq(Token) /\ state_out_pos \in Nat /\ bsBuff \in Seq(Token)
  /\ combinedCRC \in Seq(Seq(Bytes)) /\ packed \in Seq(Bytes)
  /\ stream \in Seq(Token) /\ out \in Seq(Token)

(* Types of the bz_stream, the EState and the history. *)
TypeOK == StrmType /\ ControlType /\ BlockType /\ StreamType

(***************************************************************************)
(* The block array is never overrun.  The fill test (bzlib.c:300, 316)     *)
(* precedes the add, a pair is up to five bytes long, and flush_RL adds    *)
(* one more pair behind a block that may already be past nblockMAX: the    *)
(* block still ends at nblockMAX + 5, inside the 19 bytes held back.       *)
(***************************************************************************)
BlockFits == nblock <= nblockMAX + 5

(***************************************************************************)
(* Every byte read is, in order and once, in a closed block, in the open   *)
(* block or in the pending run, however the calls cut the input up.  A     *)
(* block being output has been closed and its bytes are in `packed'.       *)
(***************************************************************************)
PendingRun   == IF state_in_ch < NoChar THEN Run(state_in_ch, state_in_len)
                                        ELSE <<>>
OpenBlock    == IF state = "INPUT" THEN blockCRC ELSE <<>>
NoInputLost  == fed = packed \o OpenBlock \o PendingRun

(***************************************************************************)
(* Every token written is, in order and once, delivered, in zbits waiting  *)
(* to be copied out, or left in bsBuff: none is lost when zbits is reset   *)
(* for the next block or when the caller's room runs out.                  *)
(***************************************************************************)
NoOutputLost ==
  stream = out \o SubSeq(zbits, state_out_pos + 1, numZ) \o bsBuff

(***************************************************************************)
(* The symbol map of the block is made from inUse, and the caller learns   *)
(* from total_in and total_out how far both sides have come: exactly the   *)
(* bytes stored are flagged, counts of long runs included, and the two     *)
(* words of a counter together say what has been taken in or put out, also *)
(* when the low word has wrapped (bzlib.c:307, 328, 357).                  *)
(***************************************************************************)
FlagsExact == inUse = {block[i] : i \in 1..Len(block)}

Value(t) == t.hi * WordSize + t.lo
CountersExact ==
  mode # "NONE" => Value(total_in) = Len(fed) /\ Value(total_out) = Len(out)

(***************************************************************************)
(* Nothing is lost between the caller's two buffers, wherever the calls    *)
(* cut: neither a byte taken in nor a token written; and the flags and the *)
(* counters tell of all of it.                                             *)
(***************************************************************************)
Conserved == NoInputLost /\ NoOutputLost /\ FlagsExact /\ CountersExact

(* The trailer has been written. *)
Sealed == stream # <<>> /\ stream[Len(stream)][1] = "crc"

(***************************************************************************)
(* handle_compress takes "FINISHING, no input left, no run pending" to     *)
(* mean that the block being output is the last one (bzlib.c:374).  That   *)
(* is sound only because a block closed for any other reason leaves input  *)
(* or a run behind it: when the test holds, the trailer has been written.  *)
(***************************************************************************)
LastBlockTest ==
  state = "OUTPUT" /\ mode = "FINISHING" /\ avail_in_expect = 0 /\ isempty_RL
    => Sealed

(***************************************************************************)
(* After BZ_STREAM_END the caller has the whole stream: all input is in    *)
(* blocks, nothing is left in zbits or bsBuff, the trailer is out.         *)
(***************************************************************************)
StreamEndIsComplete ==
  mode = "IDLE" => /\ packed = fed
                   /\ out = stream
                   /\ Sealed

(***************************************************************************)
(* Once BZ_STREAM_END has been returned, what the caller received is a     *)
(* stream that decodes to what it handed over, in blocks the decompressor  *)
(* has room for, however both sides were cut into calls.                   *)
(***************************************************************************)
StreamDecodes ==
  mode = "IDLE" => WellFormed(out, BlockUnit) /\ Content(out) = fed

(***************************************************************************)
(* A flush ends (back to RUNNING, bzlib.c:451) only when everything the    *)
(* caller had handed over is in closed blocks, zbits has been copied out,  *)
(* and a fresh block is open.                                              *)
(***************************************************************************)
FlushEndsClean ==
  [][mode = "FLUSHING" /\ mode' = "RUNNING" =>
       /\ packed = fed
       /\ state_out_pos = numZ
       /\ state = "INPUT" /\ nblock = 0]_vars

(***************************************************************************)
(* Input beyond what a flush or finish announced is never read: once the   *)
(* mode is left RUNNING, at most avail_in_expect bytes more enter, cheating*)
(* calls (bzlib.c:446, 456) included.                                      *)
(***************************************************************************)
InputOwed == Len(fed) + avail_in_expect
NoSlippedInput ==
  [][(mode \in {"FLUSHING", "FINISHING"} /\ mode' # "NONE") =>
       /\ InputOwed' = InputOwed
       /\ (mode' # mode => avail_in_expect = 0)]_vars

(* A caller that persists gets to the end of a finish, and of a flush.     *)
RequestsEnd == /\ mode = "FINISHING" ~> mode \in {"IDLE", "NONE"}
               /\ mode = "FLUSHING" ~> mode \in {"RUNNING", "NONE"}

------------------------------------------------------------------------------
(***************************************************************************)
(* The inductive strengthening of the invariants above.                    *)
(*                                                                         *)
(* FillInv: a block in which something has been stored has a run waiting   *)
(* behind it, and a full block one of length 1, since only the byte that   *)
(* ends a run stores it.  LoopInv: why a block can be in OUTPUT, and what  *)
(* the loop leaves behind when it stops.  BitInv: what prepare_new_block   *)
(* and the two ends of the bit buffer guarantee.                           *)
(***************************************************************************)
FillInv ==
  /\ state_in_ch = NoChar <=> state_in_len = 0
  /\ state = "INPUT" /\ nblock > 0 => state_in_len > 0
  /\ state = "INPUT" /\ nblock >= nblockMAX =>
        state_in_len = 1 /\ nblock <= nblockMAX + 4

FreshBlock == state = "INPUT" /\ block = <<>> /\ blockCRC = <<>>

LoopInv ==
  /\ pc # "client" => mode \in {"RUNNING", "FLUSHING", "FINISHING"}
  /\ state = "OUTPUT" => \/ ~isempty_RL
                         \/ mode = "FLUSHING" /\ avail_in_expect = 0
                         \/ Sealed
  /\ Sealed => /\ state = "OUTPUT" /\ mode \in {"FINISHING", "IDLE"}
               /\ avail_in_expect = 0 /\ isempty_RL
  /\ mode = "IDLE" => Sealed /\ state_out_pos = numZ
  /\ pc = "ret" =>
        \/ mode = "RUNNING"
        \/ avail_in_expect > 0
        \/ state = "OUTPUT" /\ state_out_pos < numZ
        \/ mode = "FLUSHING" /\ FreshBlock /\ isempty_RL
        \/ mode = "FINISHING" /\ state = "OUTPUT" /\ isempty_RL

BitInv ==
  /\ state = "INPUT" => zbits = <<>> /\ state_out_pos = 0
  /\ state_out_pos <= numZ
  /\ state = "INPUT" /\ blockNo <= 1 => bsBuff = <<>>
  /\ Sealed => bsBuff = <<>>
  /\ mode # "NONE" => blockNo >= 1
  /\ mode = "NONE" => /\ state = "INPUT" /\ blockNo = 0 /\ isempty_RL
                      /\ block = <<>> /\ blockCRC = <<>>

IInv == /\ TypeOK /\ FillInv /\ LoopInv /\ BitInv
        /\ BlockFits /\ NoInputLost /\ NoOutputLost

(***************************************************************************)
(* What StreamDecodes and the refinement need besides.  DecodeInv: the     *)
(* block decodes to what its CRC covers, and the run collected behind it   *)
(* cannot be taken for a part of its last one.  StreamInv: the tokens      *)
(* written are the header, the blocks combinedCRC covers and, at the end,  *)
(* the trailer.  OwedInv: nothing is owed outside a flush or a finish.     *)
(***************************************************************************)
DecodeInv ==
  state = "INPUT" =>
    /\ UnRLE(block) = blockCRC
    /\ ~EndsBeforeCount(block)
    /\ state_in_ch < NoChar => UnRLEBlock(block).ch # state_in_ch
    /\ block # <<>> => blockCRC # <<>>

Started == state = "OUTPUT" \/ blockNo > 1

StreamInv ==
  /\ ~Started => stream = <<>> /\ combinedCRC = <<>>
  /\ Started => Laid(stream, blockSize100k, combinedCRC, BlockUnit)
  /\ Started /\ ~Sealed => Len(stream) = 2 + 2 * Len(combinedCRC)
  /\ Sealed => /\ Len(stream) = 2 * Len(combinedCRC) + 4
               /\ stream[Len(stream) - 1] = <<"end", <<>> >>
               /\ stream[Len(stream)] = <<"crc", combinedCRC>>
  /\ packed = Seqs!FlattenSeq(combinedCRC)

OwedInv == mode \in {"NONE", "RUNNING", "IDLE"} => avail_in_expect = 0

FullInv == IInv /\ DecodeInv /\ StreamInv /\ OwedInv
==============================================================================
