--------------------------- MODULE OneCallDecompress ---------------------------
(***************************************************************************)
(* The functions that decompress a buffer in one call, beside the file     *)
(* interface on the same decompressor: BZ2_bzBuffToBuffDecompress          *)
(* (bzlib.c 1299-1345), the WASM exports bzip2_decompress_buffer and       *)
(* bzip2_decompress_buffer_optimized (src/wasm_module.c,                   *)
(* src/wasm_simd_optimized.c), and the method decompress of the TypeScript *)
(* class Bzip2 (src/lib/index.ts), which calls the first of these exports. *)
(*                                                                         *)
(* Each sets a stream up, calls BZ2_bzDecompress just once with all the    *)
(* input and all the room, decides from its code and from avail_out what   *)
(* has happened, and ends the stream.  They share nothing with a BZFILE:   *)
(* a behaviour is either the file interface's or theirs.                   *)
(***************************************************************************)
EXTENDS BzRead

CONSTANTS
  Rooms,        \* values of *destLen on entry
  Generous,     \* what decompress multiplies the input's length by: 10
  LeastRoom,    \* and the least it allocates: 64 KB
  SmallInput    \* the optimized export takes small mode below this: 65536

(* *destLen is an unsigned int. *)
ASSUME RoomAssumption ==
  /\ Rooms \subseteq 0..(WordSize - 1) /\ Generous \in Nat /\ LeastRoom \in Nat
  /\ SmallInput \in Nat

VARIABLES
  entry,        \* the function called, "none" while there has been none
  step,         \* "out", "start" after the Init, "in" during BZ2_bzDecompress
  room,         \* *destLen on entry
  code,         \* what it answered, "thrown" for an exception of decompress
  input, dest   \* history: what it was given, and put into dest

callVars == <<entry, step, room, code, input, dest>>
oneVars  == <<allVars, callVars>>

BuffToBuff == "BZ2_bzBuffToBuffDecompress"
Exports    == {"bzip2_decompress_buffer", "bzip2_decompress_buffer_optimized"}
Method     == "Bzip2.decompress"

OneInit == /\ FileInit
           /\ entry = "none" /\ step = "out" /\ room = 0 /\ code = "none"
           /\ input = <<>> /\ dest = <<>>

(* decompress guesses the room from the length of its input; _malloc and    *)
(* setValue take 32 bits of it.                                             *)
estimatedSize(src) ==
  LET guess == Len(src) * Generous
  IN  (IF guess > LeastRoom THEN guess ELSE LeastRoom) % WordSize

(* The mode asked of BZ2_bzDecompressInit; decompress asks for 0. *)
Mode(e, src, small) ==
  IF /\ e = "bzip2_decompress_buffer_optimized"
     /\ small # 0 \/ Len(src) < SmallInput
  THEN 1
  ELSE IF e \in {Method, "bzip2_decompress_buffer_optimized"} THEN 0 ELSE small

Failed(e, c) == IF e = Method THEN "thrown" ELSE c

(* Up to BZ2_bzDecompress.  A failed Init is the answer. *)
OneCall(e, src, small, r, got) ==
  /\ e = Method => r = estimatedSize(src)
  /\ entry' = e /\ room' = r /\ input' = src /\ dest' = <<>>
  /\ SetUp(src, Mode(e, src, small), got)
  /\ avail_in' = 0
  /\ \/ ret' = "OK" /\ step' = "start" /\ code' = "none"
     \/ ret' # "OK" /\ step' = "out" /\ code' = Failed(e, ret')
  /\ UNCHANGED fileVars

TheCall ==
  /\ step = "start" /\ step' = "in"
  /\ BZ2_bzDecompress(Len(input), room)
  /\ UNCHANGED <<fileVars, entry, room, code, input, dest>>

(***************************************************************************)
(* What BZ2_bzBuffToBuffDecompress makes of BZ_OK, which says that input   *)
(* or room has run out: with room left it was the input.                   *)
(***************************************************************************)
OverflowOrEof_ByInput ==  \* mutant: avail_in is looked at
  IF avail_in = 0 THEN "UNEXPECTED_EOF" ELSE "OUTBUFF_FULL"

OverflowOrEof == IF avail_out > 0 THEN "UNEXPECTED_EOF" ELSE "OUTBUFF_FULL"

BuffToBuffCode == CASE ret = "STREAM_END" -> "OK"
                    [] ret = "OK"         -> OverflowOrEof
                    [] OTHER              -> ret

ExportCode == IF ret \in {"OK", "STREAM_END"} THEN "OK" ELSE ret

(* *output_len is total_out_lo32, and decompress throws if that is 0.      *)
MethodCode ==
  IF ExportCode = "OK" /\ total_out.lo # 0 THEN "OK" ELSE "thrown"

TheAnswer ==
  /\ step = "in" /\ pc = "client"
  /\ code' = CASE entry = BuffToBuff  -> BuffToBuffCode
               [] entry \in Exports   -> ExportCode
               [] entry = Method      -> MethodCode
  /\ dest' = IF entry = BuffToBuff THEN out ELSE SubSeq(out, 1, total_out.lo)
  /\ step' = "out"
  /\ BZ2_bzDecompressEnd
  /\ UNCHANGED <<fileVars, entry, room, input>>

------------------------------------------------------------------------------
(* A call on a buffer starts where nothing else has been called.           *)
OneCaller ==
  /\ OneInit
  /\ \/ \E e \in {BuffToBuff} \cup Exports, src \in Files, small \in 0..2,
           r \in Rooms, got \in BOOLEAN : OneCall(e, src, small, r, got)
     \/ \E src \in Files, got \in BOOLEAN :
          OneCall(Method, src, 0, estimatedSize(src), got)

(* The stream was a local variable; the caller lets go of the rest.        *)
Forget ==
  /\ entry # "none" /\ step = "out"
  /\ entry' = "none" /\ room' = 0 /\ code' = "none" /\ input' = <<>> /\ dest' = <<>>
  /\ avail_in' = 0 /\ avail_out' = 0 /\ total_in' = Zero64 /\ total_out' = Zero64
  /\ ret' = "none"
  /\ UNCHANGED <<fileVars, step, state, lifeVars, blockVars, runVars, crcVars, pc,
                 saved, source, pos, out>>

OneStep == \/ TheCall
           \/ TheAnswer
           \/ step = "in" /\ Library /\ UNCHANGED <<fileVars, callVars>>

OneNext == \/ entry = "none" /\ FileNext /\ UNCHANGED callVars
           \/ OneCaller
           \/ OneStep
           \/ Forget

(* The fairness of the file interface.                                     *)
OneSpec == /\ OneInit /\ [][OneNext]_oneVars
           /\ WF_oneVars(entry = "none" /\ Interface /\ UNCHANGED callVars)
           /\ SF_oneVars(entry = "none" /\ ReadOn /\ UNCHANGED callVars)

------------------------------------------------------------------------------
(* Properties. *)

(* The parts of the input that are whole, sound streams from its start. *)
Streams == {n \in 1..Len(input) : WellFormed(SubSeq(input, 1, n), BlockUnit)}
Whole_in == SubSeq(input, 1, CHOOSE n \in Streams : TRUE)

(***************************************************************************)
(* BZ2_bzBuffToBuffDecompress tells the four things apart that one call of *)
(* BZ2_bzDecompress can end in, from a code that is the same for two of    *)
(* them: BZ_OK is all of a sound stream, which is never answered anything  *)
(* else if it fits; BZ_OUTBUFF_FULL has filled the room, a sound stream    *)
(* being then larger; BZ_UNEXPECTED_EOF has found no end.                  *)
(***************************************************************************)
OneCallTells ==
  entry = BuffToBuff /\ step = "out" =>
    /\ code = "OK" => Streams # {} /\ dest = Content(Whole_in)
    /\ code = "OUTBUFF_FULL" =>
         /\ Len(dest) = room
         /\ Streams # {} => Len(Content(Whole_in)) > room
    /\ code = "UNEXPECTED_EOF" => Streams = {} /\ Len(dest) < room
    /\ code \in {"DATA_ERROR", "DATA_ERROR_MAGIC"} => Streams = {}

------------------------------------------------------------------------------
(* What the documentation says and the code does not do. *)

(***************************************************************************)
(* README.md:161: decompress decompresses "with automatic validation".     *)
(* The export answers BZ_OK when input or room has run out, so decompress  *)
(* returns the front part of a stream that was cut short or does not fit   *)
(* its guess, with no CRC compared.                                        *)
(***************************************************************************)
DecompressValidates ==
  entry = Method /\ step = "out" /\ code = "OK" =>
    Streams # {} /\ dest = Content(Whole_in)

------------------------------------------------------------------------------
(***************************************************************************)
(* The inductive strengthening of OneCallTells, with ReadInv for the file  *)
(* interface when that is in use.  BufferInv: the one call has all of the  *)
(* input, and what it has read and put out adds up to it and to the room.  *)
(* StuckInv: it has returned BZ_OK for want of input while parsing, or of  *)
(* room with more of a block to give out.                                  *)
(***************************************************************************)
OneType ==
  /\ entry \in {"none", BuffToBuff, Method} \cup Exports
  /\ step \in {"out", "start", "in"}
  /\ room \in 0..(WordSize - 1) /\ input \in Seq(Token)

IdleFile ==
  /\ open = FALSE /\ at = "app" /\ lastErr = "OK" /\ ferror = FALSE
  /\ file = <<>> /\ offset = 0 /\ unused = 0 /\ ready = FALSE
  /\ len = 0 /\ received = <<>>

StartInv ==
  step = "start" =>
    pc = "client" /\ state = "MAGIC" /\ pos = 0 /\ out = <<>> /\ source = input

BufferInv ==
  step = "in" => /\ state # "NONE" /\ source = input
                 /\ pos + avail_in = Len(source) /\ Len(out) + avail_out = room

StuckInv ==
  step = "in" /\ pc = "client" /\ ret = "OK" =>
    \/ state \in Parsing /\ avail_in = 0
    \/ state = "OUTPUT" /\ avail_out = 0 /\ ~BlockDone

OneInv ==
  /\ OneType
  /\ entry = "none" => step = "out" /\ ReadInv
  /\ entry # "none" => IdleFile /\ (step = "out" => state = "NONE" /\ pc = "client")
  /\ StartInv /\ BufferInv /\ StuckInv /\ OneCallTells
==============================================================================
