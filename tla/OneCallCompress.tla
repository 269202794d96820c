---------------------------- MODULE OneCallCompress ----------------------------
(***************************************************************************)
(* The functions that compress a buffer in one call, beside the file       *)
(* interface on the same compressor: BZ2_bzBuffToBuffCompress (bzlib.c     *)
(* 1249-1295) and the WASM exports bzip2_compress_buffer, ..._optimized    *)
(* and ..._enhanced (src/wasm_module.c, src/wasm_simd_optimized.c,         *)
(* src/blocksort_simd.c).                                                  *)
(*                                                                         *)
(* Each sets a stream up, calls BZ2_bzCompress just once with BZ_FINISH,   *)
(* all the input and all the room, decides from its code what has          *)
(* happened, and ends the stream.                                          *)
(***************************************************************************)
EXTENDS BzWrite

CONSTANTS Rooms   \* values of *destLen on entry

ASSUME RoomAssumption == Rooms \subseteq 0..(WordSize - 1)   \* unsigned int

VARIABLES
  entry,        \* the function called, "none" while there has been none
  step,         \* "out", "start" after the Init, "in" during BZ2_bzCompress
  sourceLen,    \* bytes of input it was given
  room,         \* *destLen on entry
  code,         \* what it answered
  destLen,      \* *destLen on return
  source, dest  \* history: the bytes taken, and what was put into dest

callVars == <<entry, step, sourceLen, room, code, destLen, source, dest>>
oneVars  == <<allVars, callVars>>

BuffToBuff == "BZ2_bzBuffToBuffCompress"
Enhanced   == "bzip2_compress_buffer_enhanced"
Exports    == {"bzip2_compress_buffer", "bzip2_compress_buffer_optimized", Enhanced}

OneInit == /\ FileInit
           /\ entry = "none" /\ step = "out" /\ sourceLen = 0 /\ room = 0
           /\ code = "none" /\ destLen = 0 /\ source = <<>> /\ dest = <<>>

(* The enhanced export takes level 0 as "choose": 1, 6 or 9 by the length.  *)
BlockSizes(e, level) == IF e = Enhanced /\ level = 0 THEN {1, 6, 9} ELSE {level}

(* Up to BZ2_bzCompress.  A failed Init is the answer. *)
OneCall(e, level, n_in, r, got) ==
  /\ entry' = e /\ sourceLen' = n_in /\ room' = r /\ destLen' = r
  /\ \E size \in BlockSizes(e, level) : SetUp(size, got)
  /\ avail_in' = 0 /\ avail_out' = 0
  /\ \/ ret' = "OK" /\ step' = "start" /\ code' = "none"
     \/ ret' # "OK" /\ step' = "out" /\ code' = ret'
  /\ UNCHANGED <<fileVars, source, dest>>

TheCall ==
  /\ step = "start" /\ step' = "in"
  /\ BZ2_bzCompress("FINISH", sourceLen, room)
  /\ UNCHANGED <<fileVars, entry, sourceLen, room, code, destLen, source, dest>>

BuffToBuffCode_AnyFinish ==  \* mutant: BZ_FINISH_OK is let through
  IF ret \in {"STREAM_END", "FINISH_OK"} THEN "OK" ELSE ret

BuffToBuffCode == CASE ret = "STREAM_END" -> "OK"
                    [] ret = "FINISH_OK"  -> "OUTBUFF_FULL"
                    [] OTHER              -> ret

ExportCode == IF ret \in {"FINISH_OK", "STREAM_END"} THEN "OK" ELSE ret

TheAnswer ==
  /\ step = "in" /\ pc = "client"
  /\ IF entry = BuffToBuff
     THEN /\ code' = BuffToBuffCode
          /\ destLen' = IF code' = "OK" THEN room - avail_out ELSE room
     ELSE /\ code' = ExportCode
          /\ destLen' = IF code' = "OK" THEN total_out.lo ELSE room
  /\ source' = fed /\ dest' = out
  /\ step' = "out"
  /\ BZ2_bzCompressEnd
  /\ UNCHANGED <<fileVars, entry, sourceLen, room>>

(* The stream was a local variable; the caller lets go of the rest.        *)
Forget ==
  /\ entry # "none" /\ step = "out"
  /\ entry' = "none" /\ sourceLen' = 0 /\ room' = 0 /\ code' = "none"
  /\ destLen' = 0 /\ source' = <<>> /\ dest' = <<>>
  /\ avail_in' = 0 /\ avail_out' = 0 /\ total_in' = Zero64 /\ total_out' = Zero64
  /\ ret' = "none"
  /\ UNCHANGED <<fileVars, step, mode, state, avail_in_expect, runVars, lifeVars,
                 blockVars, combinedCRC, blockNo, zbits, state_out_pos, bsBuff, pc,
                 progress, fed, packed, stream>>
  /\ UNCHANGED out

------------------------------------------------------------------------------
(* A call on a buffer starts where nothing else has been called.           *)
OneCaller ==
  /\ OneInit
  /\ \E e \in {BuffToBuff} \cup Exports, level \in Levels, n_in \in 0..InBound,
        r \in Rooms, got \in {Buffers, {}} : OneCall(e, level, n_in, r, got)

OneStep == \/ TheCall
           \/ TheAnswer
           \/ step = "in" /\ Library /\ UNCHANGED <<fileVars, callVars>>

OneNext == \/ entry = "none" /\ FileNext /\ UNCHANGED callVars
           \/ OneCaller
           \/ OneStep
           \/ Forget

(* The fairness of the file interface.                                     *)
OneSpec == /\ OneInit /\ [][OneNext]_oneVars
           /\ WF_oneVars(entry = "none" /\ Interface /\ UNCHANGED callVars)

------------------------------------------------------------------------------
(* Properties. *)

Finished == Len(source) = sourceLen /\ WellFormed(dest, BlockUnit)
              /\ Content(dest) = source

(***************************************************************************)
(* What the one call of BZ2_bzCompress has come to is told rightly.  BZ_OK *)
(* of BZ2_bzBuffToBuffCompress is a whole stream for all of the input, of  *)
(* destLen bytes, BZ_OUTBUFF_FULL a room filled with the front of one.  An *)
(* export answers BZ_OK to both, and they can be told apart only by        *)
(* destLen: less than the room means whole.  BZ_SEQUENCE_ERROR is answered *)
(* only to no input with no room, where BZ_FINISH makes no progress.       *)
(***************************************************************************)
OneCallTells ==
  entry # "none" /\ step = "out" =>
    /\ code = "OK" => Len(dest) = destLen
    /\ code = "OK" /\ (entry = BuffToBuff \/ destLen < room) => Finished
    /\ code = "OUTBUFF_FULL" => Len(dest) = room /\ ~Finished
    /\ code = "SEQUENCE_ERROR" => sourceLen = 0 /\ room = 0
    /\ code \in {"OK", "OUTBUFF_FULL", "SEQUENCE_ERROR", "PARAM_ERROR", "MEM_ERROR"}

------------------------------------------------------------------------------
(***************************************************************************)
(* The inductive strengthening of OneCallTells, and FileInv for the file   *)
(* interface when that is in use.  CallInv: the one call of BZ2_bzCompress *)
(* stops for want of room or with the trailer out, since it is given just  *)
(* the input it has announced; it moves nothing only if there is neither   *)
(* input nor room.                                                         *)
(***************************************************************************)
OneType ==
  /\ entry \in {"none", BuffToBuff} \cup Exports
  /\ step \in {"out", "start", "in"}
  /\ sourceLen \in Nat /\ room \in 0..(WordSize - 1) /\ destLen \in Nat
  /\ source \in Seq(Bytes) /\ dest \in Seq(Token)

IdleFile == /\ open = FALSE /\ at = "app" /\ lastErr = "OK" /\ ferror = FALSE
            /\ abandon = FALSE /\ file = <<>> /\ given = 0

StartInv ==
  step = "start" =>
    /\ pc = "client" /\ mode = "RUNNING" /\ state = "INPUT" /\ block = <<>>
    /\ fed = <<>> /\ out = <<>> /\ total_out = Zero64

CallInv ==
  step = "in" =>
    /\ avail_in = avail_in_expect /\ Len(fed) + avail_in = sourceLen
    /\ Len(out) + avail_out = room
    /\ total_out = [lo |-> Len(out), hi |-> 0]
    /\ pc # "client" => mode = "FINISHING"
    /\ pc # "client" /\ ~progress =>
         /\ avail_in = sourceLen /\ avail_out = room
         /\ state = "INPUT" => block = <<>>
         /\ state = "OUTPUT" => avail_in = 0 /\ state_out_pos < numZ
    /\ pc = "ret" => \/ avail_out = 0 /\ state = "OUTPUT" /\ state_out_pos < numZ
                     \/ progress /\ ~Unfinished

DoneInv ==
  step = "in" /\ pc = "client" =>
    \/ ret = "STREAM_END" /\ mode = "IDLE"
    \/ /\ ret = "FINISH_OK" /\ mode = "FINISHING"
       /\ avail_out = 0 /\ state = "OUTPUT" /\ state_out_pos < numZ
    \/ ret = "SEQUENCE_ERROR" /\ mode = "FINISHING" /\ sourceLen = 0 /\ room = 0

OneInv ==
  /\ OneType
  /\ entry = "none" => step = "out" /\ FileInv
  /\ entry # "none" => IdleFile /\ (step = "out" => mode = "NONE" /\ pc = "client")
  /\ StartInv /\ CallInv /\ DoneInv /\ OneCallTells
==============================================================================
