--------------------------- MODULE DecompressStream ---------------------------
(***************************************************************************)
(* The streaming decompressor of libbzip2: BZ2_bzDecompressInit,           *)
(* BZ2_bzDecompress and BZ2_bzDecompressEnd (bzlib.c) with the parsing of  *)
(* BZ2_decompress (decompress.c).                                          *)
(*                                                                         *)
(* BZ2_decompress is a coroutine: it takes input as it comes, returns when *)
(* there is none, and resumes at the label kept in DState.state.  A step   *)
(* here takes one token of StreamFormat, so a call stops between any two.  *)
(* The two unRLE_obuf_to_output functions give a decoded block out byte by *)
(* byte and stop when the caller's room is used up.  The FAST one works on *)
(* local copies of the DState, which it writes back only when it returns   *)
(* "no corruption"; the SMALL one, and both for randomised blocks, work on *)
(* the DState and test for room first.                                     *)
(***************************************************************************)
EXTENDS Integers, Sequences, RunLength, StreamFormat

CONSTANTS
  Sources,     \* token sequences a caller may hand over, sound or damaged
  BlockUnit,   \* bytes of block per unit of blockSize100k: 100000
  WordSize,    \* values of one half of a total_in/total_out counter: 2^32
  ChunkIn,     \* bound: largest avail_in
  ChunkOut     \* bound: largest avail_out

ASSUME SourcesAssumption   == \A s \in Sources : s \in Seq(Token)
ASSUME BlockUnitAssumption == BlockUnit \in Nat \ {0}
ASSUME ChunkAssumption     == ChunkIn \in Nat /\ ChunkOut \in Nat
ASSUME WordSizeAssumption  == WordSize \in Nat /\ WordSize > 1 /\ WordSize > ChunkOut

VARIABLES
  avail_in, avail_out,       \* bz_stream: what the caller's buffers still hold
  total_in, total_out,       \* bz_stream: 64-bit counters as [lo, hi] pairs
  state,                     \* DState.state, or "NONE" while strm->state = NULL
  smallDecompress,
  blockSize100k, blockRandomised,
  tt,                        \* the decoded block: tt, or ll16 and ll4
  nblock_used,               \* bytes taken from it, k0 included
  state_out_len, state_out_ch,  \* the run being given out
  storedBlockCRC, calculatedBlockCRC, calculatedCombinedCRC,
  heap,                      \* what the decompressor has allocated
  pc,                        \* "client" between calls, "parse" or "unRLE" inside
  saved,                     \* what the FAST function's caller still sees
  ret,                       \* the value the last call returned
  source, pos, out           \* history: the input, tokens read, bytes received

blockVars == <<blockRandomised, tt>>
runVars   == <<nblock_used, state_out_len, state_out_ch, calculatedBlockCRC>>
crcVars   == <<storedBlockCRC, calculatedCombinedCRC>>
lifeVars  == <<smallDecompress, blockSize100k, heap>>
inVars    == <<avail_in, total_in, pos, source>>
outVars   == <<avail_out, total_out, out>>
vars == <<avail_in, avail_out, total_in, total_out, state, smallDecompress,
          blockSize100k, blockRandomised, tt, nblock_used, state_out_len,
          state_out_ch, storedBlockCRC, calculatedBlockCRC,
          calculatedCombinedCRC, heap, pc, saved, ret, source, pos, out>>

Tables  == {"tt", "ll16", "ll4"}
Errors  == {"DATA_ERROR", "DATA_ERROR_MAGIC", "MEM_ERROR"}
Codes   == Errors \cup {"none", "OK", "STREAM_END", "SEQUENCE_ERROR", "PARAM_ERROR"}
Parsing == {"MAGIC", "LEVEL", "BLKHDR", "DATA", "ENDHDR"}
Zero64  == [lo |-> 0, hi |-> 0]

Advance_NoCarry(t, n) == [lo |-> (t.lo + n) % WordSize, hi |-> t.hi]  \* mutant

(* A counter advanced by `n' as the code does it: the sum is cut to a word, *)
(* and a sum below the old value is a carry.                                *)
Advance(t, n) ==
  LET lo == (t.lo + n) % WordSize
  IN [lo |-> lo, hi |-> IF lo < t.lo THEN t.hi + 1 ELSE t.hi]

nblock    == Len(tt)                      \* save_nblock
nblockMAX == BlockUnit * blockSize100k

(* The u-th byte BZ_GET_FAST or BZ_GET_SMALL yields: T^(-1) is a cycle      *)
(* through the block, so past the end it starts again.                      *)
BZ_GET(u) == tt[((u - 1) % nblock) + 1]
k0        == BZ_GET(nblock_used)

Fast == ~smallDecompress /\ ~blockRandomised

(* What FAST leaves in the DState and bz_stream while it runs on copies. *)
Snapshot == [avail_out |-> avail_out, out |-> out, nblock_used |-> nblock_used,
             len |-> state_out_len, ch |-> state_out_ch,
             crc |-> calculatedBlockCRC]
NoSnapshot == [avail_out |-> 0, out |-> <<>>, nblock_used |-> 0,
               len |-> 0, ch |-> 0, crc |-> <<>>]

------------------------------------------------------------------------------
Init ==
  /\ avail_in = 0 /\ avail_out = 0 /\ total_in = Zero64 /\ total_out = Zero64
  /\ state = "NONE" /\ smallDecompress = FALSE /\ blockSize100k = 0
  /\ blockRandomised = FALSE /\ tt = <<>>
  /\ nblock_used = 0 /\ state_out_len = 0 /\ state_out_ch = 0
  /\ storedBlockCRC = <<>> /\ calculatedBlockCRC = <<>>
  /\ calculatedCombinedCRC = <<>>
  /\ heap = {} /\ pc = "client" /\ saved = NoSnapshot /\ ret = "none"
  /\ source = <<>> /\ pos = 0 /\ out = <<>>

(***************************************************************************)
(* BZ2_bzDecompressInit: `small' is the parameter as given, and `got' says *)
(* whether the DState can be allocated.  The tables wait for the header.   *)
(***************************************************************************)
SetUp(src, small, got) ==
  /\ pc = "client" /\ state = "NONE"
  /\ \/ /\ small \notin {0, 1}
        /\ ret' = "PARAM_ERROR"
        /\ UNCHANGED <<state, smallDecompress, heap, total_in, total_out, source>>
     \/ /\ small \in {0, 1} /\ ~got
        /\ ret' = "MEM_ERROR"
        /\ UNCHANGED <<state, smallDecompress, heap, total_in, total_out, source>>
     \/ /\ small \in {0, 1} /\ got
        /\ heap' = {"DState"}
        /\ state' = "MAGIC"
        /\ smallDecompress' = (small = 1)
        /\ total_in' = Zero64 /\ total_out' = Zero64
        /\ source' = src
        /\ ret' = "OK"
  /\ UNCHANGED <<avail_out, blockSize100k, blockVars, runVars, crcVars, pc,
                 saved, pos, out>>

(* Called on a bz_stream of the caller's, whose buffers are left alone. *)
BZ2_bzDecompressInit(src, small, got) ==
  SetUp(src, small, got) /\ UNCHANGED avail_in

(***************************************************************************)
(* BZ2_bzDecompress up to its loop.  After an error the caller makes no    *)
(* other call than BZ2_bzDecompressEnd (manual.xml:1567, 1594).            *)
(***************************************************************************)
BZ2_bzDecompress(ai, ao) ==
  /\ pc = "client"
  /\ state # "NONE" => ret \notin Errors
  /\ pos + ai <= Len(source)
  /\ avail_in' = ai /\ avail_out' = ao
  /\ \/ /\ state = "NONE"
        /\ ret' = "PARAM_ERROR"
        /\ UNCHANGED <<pc, saved>>
     \/ /\ state = "IDLE"
        /\ ret' = "SEQUENCE_ERROR"
        /\ UNCHANGED <<pc, saved>>
     \/ /\ state = "OUTPUT"
        /\ pc' = "unRLE"
        /\ saved' = [Snapshot EXCEPT !.avail_out = ao]
        /\ ret' = "none"
     \/ /\ state \in Parsing
        /\ pc' = "parse"
        /\ ret' = "none"
        /\ UNCHANGED saved
  /\ UNCHANGED <<total_in, total_out, state, lifeVars, blockVars, runVars,
                 crcVars, source, pos, out>>

(* The call returns `code' to the caller. *)
Give(code) == pc' = "client" /\ ret' = code /\ saved' = NoSnapshot
Stay       == UNCHANGED <<pc, ret, saved>>

------------------------------------------------------------------------------
(* BZ2_decompress, one step per token; GET_BITS takes the bytes.            *)

Next_token == source[pos + 1]

Take ==
  /\ avail_in > 0
  /\ avail_in' = avail_in - 1
  /\ total_in' = Advance(total_in, 1)
  /\ pos' = pos + 1
  /\ UNCHANGED <<source, outVars, smallDecompress>>

NeedInput_ForgetsLabel ==  \* mutant: the next call starts anew
  /\ pc = "parse" /\ avail_in = 0
  /\ Give("OK")
  /\ state' = "MAGIC"
  /\ UNCHANGED <<inVars, outVars, lifeVars, blockVars, runVars, crcVars>>

(* No input: the label stays, and the next call resumes there. *)
NeedInput ==
  /\ pc = "parse" /\ avail_in = 0
  /\ Give("OK")
  /\ UNCHANGED <<inVars, outVars, state, lifeVars, blockVars, runVars, crcVars>>

ReadMagic ==
  /\ pc = "parse" /\ state = "MAGIC" /\ Take
  /\ \/ Next_token[1] = "BZh" /\ state' = "LEVEL" /\ Stay
     \/ Next_token[1] # "BZh" /\ Give("DATA_ERROR_MAGIC") /\ UNCHANGED state
  /\ UNCHANGED <<blockSize100k, heap, blockVars, runVars, crcVars>>

(* The header's last byte says how large the tables are, which are then     *)
(* allocated; `got' are the allocations that succeed.                       *)
Needed == IF smallDecompress THEN {"ll16", "ll4"} ELSE {"tt"}
IsLevel(t) == t[1] = "level" /\ \E level \in 1..9 : t[2] = <<level>>

ReadLevel(got) ==
  /\ pc = "parse" /\ state = "LEVEL" /\ Take
  /\ got \subseteq Needed
  /\ \/ /\ ~IsLevel(Next_token)
        /\ Give("DATA_ERROR_MAGIC")
        /\ UNCHANGED <<state, blockSize100k, heap>>
     \/ /\ IsLevel(Next_token)
        /\ blockSize100k' = Next_token[2][1]
        /\ heap' = heap \cup got
        /\ \/ got = Needed /\ state' = "BLKHDR" /\ Stay
           \/ got # Needed /\ Give("MEM_ERROR") /\ UNCHANGED state
  /\ UNCHANGED <<blockVars, runVars, crcVars>>

(* A block's magic and CRC, or the magic of the end of the stream. *)
ReadBlockHeader ==
  /\ pc = "parse" /\ state = "BLKHDR" /\ Take
  /\ \/ /\ Next_token[1] = "block"
        /\ storedBlockCRC' = Next_token[2]
        /\ state' = "DATA"
        /\ Stay
     \/ /\ Next_token[1] = "end"
        /\ state' = "ENDHDR"
        /\ Stay
        /\ UNCHANGED storedBlockCRC
     \/ /\ Next_token[1] \notin {"block", "end"}
        /\ Give("DATA_ERROR")
        /\ UNCHANGED <<state, storedBlockCRC>>
  /\ UNCHANGED <<blockSize100k, heap, blockVars, runVars, calculatedCombinedCRC>>

BlockAcceptable_OffByOne(t) ==  \* mutant: nblock > nblockMAX instead of >=
  t[1] \in DataKinds /\ t[2] # <<>> /\ Len(t[2]) <= nblockMAX + 1

(* The rest of a block: a block that breaks a rule of the coding, is longer *)
(* than the table, or is empty (origPtr >= nblock) is a data error.         *)
BlockAcceptable(t) ==
  t[1] \in DataKinds /\ t[2] # <<>> /\ Len(t[2]) <= nblockMAX

ReadBlockData ==
  /\ pc = "parse" /\ state = "DATA" /\ Take
  /\ \/ /\ BlockAcceptable(Next_token)
        /\ blockRandomised' = (Next_token[1] = "rdata")
        /\ tt' = Next_token[2]
        /\ state_out_len' = 0 /\ state_out_ch' = 0
        /\ calculatedBlockCRC' = <<>>
        /\ nblock_used' = 1
        /\ state' = "OUTPUT"
        /\ pc' = "unRLE"
        /\ saved' = [avail_out |-> avail_out, out |-> out, nblock_used |-> 1,
                     len |-> 0, ch |-> 0, crc |-> <<>>]
        /\ UNCHANGED ret
     \/ /\ ~BlockAcceptable(Next_token)
        /\ Give("DATA_ERROR")
        /\ UNCHANGED <<state, blockVars, runVars>>
  /\ UNCHANGED <<blockSize100k, heap, crcVars>>

ReadStreamCRC_Unchecked ==  \* mutant: the stream CRC is not compared
  /\ pc = "parse" /\ state = "ENDHDR" /\ Take
  /\ state' = "IDLE"
  /\ Give("STREAM_END")
  /\ UNCHANGED <<blockSize100k, heap, blockVars, runVars, crcVars>>

(* The stream's CRC, which BZ2_bzDecompress compares with its own. *)
ReadStreamCRC ==
  /\ pc = "parse" /\ state = "ENDHDR" /\ Take
  /\ state' = "IDLE"
  /\ Give(IF Next_token = <<"crc", calculatedCombinedCRC>> THEN "STREAM_END"
                                                           ELSE "DATA_ERROR")
  /\ UNCHANGED <<blockSize100k, heap, blockVars, runVars, crcVars>>

------------------------------------------------------------------------------
(* unRLE_obuf_to_output_FAST and _SMALL. *)

(* FAST tests for room only when it has a byte to put. *)
MayAdvance == avail_out > 0 \/ Fast

PutByte_OneMore ==  \* mutant: the run's length is tested one late
  /\ pc = "unRLE" /\ state_out_len >= 0 /\ avail_out > 0
  /\ out' = Append(out, state_out_ch)
  /\ calculatedBlockCRC' = Append(calculatedBlockCRC, state_out_ch)
  /\ state_out_len' = state_out_len - 1
  /\ avail_out' = avail_out - 1
  /\ total_out' = IF Fast THEN total_out ELSE Advance(total_out, 1)
  /\ UNCHANGED <<inVars, state, lifeVars, blockVars, nblock_used, state_out_ch,
                 crcVars, pc, saved, ret>>

PutByte ==
  /\ pc = "unRLE" /\ state_out_len > 0 /\ avail_out > 0
  /\ out' = Append(out, state_out_ch)
  /\ calculatedBlockCRC' = Append(calculatedBlockCRC, state_out_ch)
  /\ state_out_len' = state_out_len - 1
  /\ avail_out' = avail_out - 1
  /\ total_out' = IF Fast THEN total_out ELSE Advance(total_out, 1)
  /\ UNCHANGED <<inVars, state, lifeVars, blockVars, nblock_used, state_out_ch,
                 crcVars, pc, saved, ret>>

NewRun_NoEndTest ==  \* mutant: the end of the block is not looked for in a run
  /\ pc = "unRLE" /\ state_out_len = 0 /\ MayAdvance
  /\ nblock_used <= nblock
  /\ state_out_ch' = k0
  /\ \/ \E n \in 1..3 :
          /\ BZ_GET(nblock_used + n) # k0
          /\ \A j \in 1..(n - 1) : BZ_GET(nblock_used + j) = k0
          /\ state_out_len' = n
          /\ nblock_used' = nblock_used + n
     \/ /\ \A j \in 1..3 : BZ_GET(nblock_used + j) = k0
        /\ state_out_len' = BZ_GET(nblock_used + 4) + 4
        /\ nblock_used' = nblock_used + 5
  /\ UNCHANGED <<inVars, outVars, state, lifeVars, blockVars, calculatedBlockCRC,
                 crcVars, pc, saved, ret>>

(* A run of 1..3 ends at another byte or with the block; four equal bytes   *)
(* are followed by a count, and by the byte that starts the next run.       *)
EndsRun(u) == u = nblock + 1 \/ BZ_GET(u) # k0

NewRun ==
  /\ pc = "unRLE" /\ state_out_len = 0 /\ MayAdvance
  /\ nblock_used <= nblock
  /\ state_out_ch' = k0
  /\ \/ \E n \in 1..3 :
          /\ EndsRun(nblock_used + n)
          /\ \A j \in 1..(n - 1) : ~EndsRun(nblock_used + j)
          /\ state_out_len' = n
          /\ nblock_used' = nblock_used + n
     \/ /\ \A j \in 1..3 : ~EndsRun(nblock_used + j)
        /\ state_out_len' = BZ_GET(nblock_used + 4) + 4
        /\ nblock_used' = nblock_used + 5
  /\ UNCHANGED <<inVars, outVars, state, lifeVars, blockVars, calculatedBlockCRC,
                 crcVars, pc, saved, ret>>

Overrun_KeepsRoom ==  \* mutant: FAST has written next_out and avail_out back
  /\ pc = "unRLE" /\ state_out_len = 0 /\ MayAdvance
  /\ nblock_used > nblock + 1
  /\ Give("DATA_ERROR")
  /\ IF Fast
     THEN /\ nblock_used' = saved.nblock_used
          /\ state_out_len' = saved.len
          /\ state_out_ch' = saved.ch
          /\ calculatedBlockCRC' = saved.crc
     ELSE UNCHANGED runVars
  /\ UNCHANGED <<inVars, outVars, state, lifeVars, blockVars, crcVars>>

(* More bytes were taken than the block has: corrupt.  FAST returns without *)
(* writing its copies back.                                                 *)
Overrun ==
  /\ pc = "unRLE" /\ state_out_len = 0 /\ MayAdvance
  /\ nblock_used > nblock + 1
  /\ Give("DATA_ERROR")
  /\ IF Fast
     THEN /\ avail_out' = saved.avail_out
          /\ out' = saved.out
          /\ nblock_used' = saved.nblock_used
          /\ state_out_len' = saved.len
          /\ state_out_ch' = saved.ch
          /\ calculatedBlockCRC' = saved.crc
     ELSE UNCHANGED <<avail_out, out, runVars>>
  /\ UNCHANGED <<inVars, total_out, state, lifeVars, blockVars, crcVars>>

(* Both return False at the end of the block or for want of room.  FAST     *)
(* only now adds the bytes it has put to total_out.                         *)
Stopped == \/ state_out_len > 0 /\ avail_out = 0
           \/ state_out_len = 0 /\ nblock_used = nblock + 1
           \/ ~MayAdvance

BlockDone == nblock_used = nblock + 1 /\ state_out_len = 0

ReturnNotCorrupt_OncePerCall ==  \* mutant: no second block within a call
  /\ pc = "unRLE" /\ Stopped
  /\ total_out' = IF Fast THEN Advance(total_out, saved.avail_out - avail_out)
                          ELSE total_out
  /\ \/ /\ ~BlockDone
        /\ Give("OK")
        /\ UNCHANGED <<state, calculatedCombinedCRC>>
     \/ /\ BlockDone
        /\ Give("OK")
        /\ state' = "BLKHDR"
        /\ calculatedCombinedCRC' = Append(calculatedCombinedCRC, calculatedBlockCRC)
  /\ UNCHANGED <<inVars, avail_out, out, lifeVars, blockVars, runVars, storedBlockCRC>>

ReturnNotCorrupt ==
  /\ pc = "unRLE" /\ Stopped
  /\ total_out' = IF Fast THEN Advance(total_out, saved.avail_out - avail_out)
                          ELSE total_out
  /\ \/ /\ ~BlockDone
        /\ Give("OK")
        /\ UNCHANGED <<state, calculatedCombinedCRC>>
     \/ /\ BlockDone
        /\ calculatedBlockCRC # storedBlockCRC
        /\ Give("DATA_ERROR")
        /\ UNCHANGED <<state, calculatedCombinedCRC>>
     \/ /\ BlockDone
        /\ calculatedBlockCRC = storedBlockCRC
        /\ calculatedCombinedCRC' = Append(calculatedCombinedCRC, calculatedBlockCRC)
        /\ state' = "BLKHDR"
        /\ pc' = "parse" /\ saved' = NoSnapshot /\ UNCHANGED ret
  /\ UNCHANGED <<inVars, avail_out, out, lifeVars, blockVars, runVars, storedBlockCRC>>

------------------------------------------------------------------------------
EndNothing ==
  /\ state = "NONE"
  /\ ret' = "PARAM_ERROR"
  /\ UNCHANGED <<inVars, outVars, state, lifeVars, blockVars, runVars, crcVars,
                 pc, saved>>

EndStream ==
  /\ state # "NONE"
  /\ heap' = heap \ (Tables \cup {"DState"})
  /\ state' = "NONE" /\ smallDecompress' = FALSE /\ blockSize100k' = 0
  /\ blockRandomised' = FALSE /\ tt' = <<>>
  /\ nblock_used' = 0 /\ state_out_len' = 0 /\ state_out_ch' = 0
  /\ storedBlockCRC' = <<>> /\ calculatedBlockCRC' = <<>>
  /\ calculatedCombinedCRC' = <<>>
  /\ ret' = "OK"
  /\ source' = <<>> /\ pos' = 0 /\ out' = <<>>
  /\ UNCHANGED <<avail_in, avail_out, total_in, total_out, pc, saved>>

(* BZ2_bzDecompressEnd *)
BZ2_bzDecompressEnd == pc = "client" /\ (EndNothing \/ EndStream)

Caller ==
  \/ \E src \in Sources, small \in 0..2, got \in BOOLEAN :
       BZ2_bzDecompressInit(src, small, got)
  \/ \E ai \in 0..ChunkIn, ao \in 0..ChunkOut : BZ2_bzDecompress(ai, ao)
  \/ BZ2_bzDecompressEnd

Parse == \/ NeedInput
         \/ ReadMagic
         \/ \E got \in SUBSET Tables : ReadLevel(got)
         \/ ReadBlockHeader
         \/ ReadBlockData
         \/ ReadStreamCRC

UnRLEOutput == PutByte \/ NewRun \/ Overrun \/ ReturnNotCorrupt

Library == Parse \/ UnRLEOutput

Next == Caller \/ Library

Spec == Init /\ [][Next]_vars

(***************************************************************************)
(* A call in progress runs to its end.  The caller goes on as the manual   *)
(* asks (manual.xml:1544, 1552): with input while it has any, and with at  *)
(* least one byte of room at each call.                                    *)
(***************************************************************************)
GoOn == /\ state \in Parsing \cup {"OUTPUT"}
        /\ \E ai \in 0..ChunkIn, ao \in 1..ChunkOut :
             /\ ai > 0 \/ pos = Len(source)
             /\ BZ2_bzDecompress(ai, ao)

Fairness == WF_vars(Library) /\ SF_vars(GoOn)

FairSpec == Spec /\ Fairness

------------------------------------------------------------------------------
(* Properties. *)

Counter == [lo : 0..(WordSize - 1), hi : Nat]

StrmType ==
  /\ avail_in \in Nat /\ avail_out \in Nat
  /\ total_in \in Counter /\ total_out \in Counter
  /\ source \in Seq(Token) /\ pos \in 0..Len(source) /\ out \in Seq(Bytes)
ControlType ==
  /\ state \in Parsing \cup {"NONE", "OUTPUT", "IDLE"}
  /\ smallDecompress \in BOOLEAN /\ blockRandomised \in BOOLEAN
  /\ blockSize100k \in 0..9 /\ heap \subseteq Tables \cup {"DState"}
  /\ pc \in {"client", "parse", "unRLE"} /\ ret \in Codes
BlockType ==
  /\ tt \in Seq(Bytes) /\ nblock_used \in Nat
  /\ state_out_len \in 0..259 /\ state_out_ch \in Bytes
  /\ storedBlockCRC \in Seq(Bytes) /\ calculatedBlockCRC \in Seq(Bytes)
  /\ calculatedCombinedCRC \in Seq(Seq(Bytes))
SavedType ==
  saved \in [avail_out : Nat, out : Seq(Bytes), nblock_used : Nat,
             len : 0..259, ch : Bytes, crc : Seq(Bytes)]

(* Types of the bz_stream, the DState and the history. *)
TypeOK == StrmType /\ ControlType /\ BlockType /\ SavedType

(***************************************************************************)
(* The caller's buffers hold the accepted blocks, in order, and what has   *)
(* been given out of the current one.  After data errors too: a FAST call  *)
(* that fails takes its output back by leaving avail_out and next_out.     *)
(***************************************************************************)
OutputAccounted ==
  state # "NONE" =>
    out = Seqs!FlattenSeq(calculatedCombinedCRC)
            \o (IF state = "OUTPUT" THEN calculatedBlockCRC ELSE <<>>)

(***************************************************************************)
(* BZ_STREAM_END is returned only for a whole, sound stream, of which the  *)
(* caller then has all the content, and no input behind its trailer has    *)
(* been read: it belongs to the next stream (BZ2_bzReadGetUnused).         *)
(***************************************************************************)
StreamEndSound ==
  ret = "STREAM_END" => LET read == SubSeq(source, 1, pos)
                        IN WellFormed(read, BlockUnit) /\ out = Content(read)

(* The input starts with a whole, sound stream. *)
Sound == \E n \in 1..Len(source) : WellFormed(SubSeq(source, 1, n), BlockUnit)

(***************************************************************************)
(* A sound stream is never refused, however input and room are cut up.     *)
(***************************************************************************)
SoundAccepted == ret \in {"DATA_ERROR", "DATA_ERROR_MAGIC"} => ~Sound

(***************************************************************************)
(* What lies past the end of the table is never read as a block, and at    *)
(* most one byte past the wrap-around is taken before the overrun is seen. *)
(***************************************************************************)
BlockInTable ==
  state = "OUTPUT" => /\ nblock \in 1..nblockMAX
                      /\ nblock_used \in 1..(nblock + 2)

(* Between calls the 64-bit counters, carry included, count the bytes.     *)
TotalsExact ==
  pc = "client" /\ state # "NONE" =>
    /\ total_in.hi  * WordSize + total_in.lo  = pos
    /\ total_out.hi * WordSize + total_out.lo = Len(out)

(* The tables are those of the mode asked for, from the header on, and all *)
(* is freed in the end, also after an allocation has failed half way.      *)
Allocated ==
  /\ state = "NONE" => heap = {}
  /\ state \in {"MAGIC", "LEVEL"} => heap \subseteq {"DState"} \cup Needed
  /\ state \in {"BLKHDR", "DATA", "ENDHDR", "OUTPUT", "IDLE"} =>
        heap = {"DState"} \cup Needed

(***************************************************************************)
(* BZ_OK means that the call stopped for want of input or of room: a call  *)
(* with both makes progress.  BZ2_bzBuffToBuffDecompress tells             *)
(* BZ_UNEXPECTED_EOF from BZ_OUTBUFF_FULL by it, BZ2_bzRead loops by it.   *)
(***************************************************************************)
OkMeansStuck ==
  [][pc # "client" /\ ret' = "OK" => avail_in' = 0 \/ avail_out' = 0]_vars

(* A caller that goes on reaches the end of a sound stream.                *)
DecodeEnds ==
  (state # "NONE" /\ Sound) ~> (state \in {"NONE", "IDLE"} \/ ret = "MEM_ERROR")

------------------------------------------------------------------------------
(***************************************************************************)
(* The inductive strengthening of TypeOK, BlockInTable, TotalsExact and    *)
(* Allocated.  CallInv: where a call in progress can be, and what it was   *)
(* given.  CopyInv: while FAST runs on its copies, total_out is behind by  *)
(* what avail_out has gone down, and what it would fall back to on an      *)
(* overrun is a state of the block too.                                    *)
(***************************************************************************)
Value(t) == t.hi * WordSize + t.lo

CallInv ==
  /\ pc = "parse" => state \in Parsing
  /\ pc = "unRLE" => state = "OUTPUT"
  /\ pc # "client" => /\ ret = "none" /\ pos + avail_in <= Len(source)
                      /\ avail_out < WordSize
  /\ state = "NONE" => source = <<>> /\ pos = 0 /\ out = <<>>
  /\ state # "NONE" => Value(total_in) = pos /\ "DState" \in heap

CopyInv ==
  /\ state = "OUTPUT" /\ pc = "unRLE" =>
       /\ avail_out <= saved.avail_out /\ saved.avail_out < WordSize
       /\ saved.nblock_used \in 1..(nblock + 2)
       /\ Len(out) + avail_out = Len(saved.out) + saved.avail_out
  /\ state # "NONE" =>
       Value(total_out) = IF state = "OUTPUT" /\ pc = "unRLE" /\ Fast
                            THEN Len(saved.out) ELSE Len(out)

IInv == TypeOK /\ CallInv /\ CopyInv /\ BlockInTable /\ Allocated

(***************************************************************************)
(* What the properties about answers need besides, while no error has been *)
(* told.  AccountInv: OutputAccounted, and the same of what FAST falls     *)
(* back to.  ParseInv: what has been read is a header and the blocks that  *)
(* calculatedCombinedCRC covers, then what the label says.  BlockInv: the  *)
(* bytes of the block used so far decode to what its CRC covers and the    *)
(* rest of the run, and the next byte starts a run; one byte too many has  *)
(* been taken only from a block that stops where a count must follow.      *)
(***************************************************************************)
AccountInv ==
  /\ OutputAccounted
  /\ state = "NONE" => calculatedCombinedCRC = <<>>
  /\ state = "OUTPUT" /\ pc = "unRLE" =>
        saved.out = Seqs!FlattenSeq(calculatedCombinedCRC) \o saved.crc

Going == ret \notin Errors
Blocks == Len(calculatedCombinedCRC)

LaidSoFar == Laid(source, blockSize100k, calculatedCombinedCRC, BlockUnit)
                /\ blockSize100k \in 1..9

ParseInv ==
  /\ Going /\ state \in Parsing \cup {"OUTPUT"} =>
       /\ \A i \in 1..pos : source[i][1] # "crc"
       /\ state \in {"MAGIC", "LEVEL"} => calculatedCombinedCRC = <<>>
       /\ state = "MAGIC" => pos = 0
       /\ state = "LEVEL" => pos = 1 /\ source[1][1] = "BZh"
       /\ state \notin {"MAGIC", "LEVEL"} => LaidSoFar
       /\ state = "BLKHDR" => pos = 2 * Blocks + 2
       /\ state = "DATA" => /\ pos = 2 * Blocks + 3
                            /\ source[pos][1] = "block"
                            /\ source[pos][2] = storedBlockCRC
       /\ state = "OUTPUT" => /\ pos = 2 * Blocks + 4
                              /\ source[pos - 1][1] = "block"
                              /\ source[pos - 1][2] = storedBlockCRC
                              /\ source[pos][1] \in DataKinds
                              /\ source[pos][2] = tt
       /\ state = "ENDHDR" => pos = 2 * Blocks + 3 /\ source[pos][1] = "end"
  /\ ret = "STREAM_END" =>
       /\ state = "IDLE" /\ LaidSoFar /\ pos = 2 * Blocks + 4
       /\ source[pos - 1][1] = "end"
       /\ source[pos][1] = "crc" /\ source[pos][2] = calculatedCombinedCRC

Used == UnRLEBlock(SubSeq(tt, 1, nblock_used - 1))

BlockInv ==
  Going /\ state = "OUTPUT" =>
    IF nblock_used = nblock + 2
    THEN EndsBeforeCount(tt)
    ELSE /\ Used.same # 4
         /\ Used.out = calculatedBlockCRC \o Run(state_out_ch, state_out_len)
         /\ nblock_used <= nblock => Used.ch # tt[nblock_used]

FullInv == IInv /\ AccountInv /\ ParseInv /\ BlockInv /\ SoundAccepted
==============================================================================
