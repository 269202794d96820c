-------------------------------- MODULE BzWrite --------------------------------
(***************************************************************************)
(* The writing half of libbzip2's file interface, on top of the streaming  *)
(* compressor: BZ2_bzWriteOpen, BZ2_bzWrite and BZ2_bzWriteClose64         *)
(* (bzlib.c 918-1085).                                                     *)
(*                                                                         *)
(* Each of them is a loop of BZ2_bzCompress calls, and what bzf->buf holds *)
(* after a call goes to the file before the next.  The file may fail at    *)
(* any fwrite or fflush, and its error indicator then stays set.           *)
(***************************************************************************)
EXTENDS CompressStream

CONSTANTS
  BZ_MAX_UNUSED   \* tokens bzf->buf holds: 5000 bytes

ASSUME BufferAssumption == BZ_MAX_UNUSED \in Nat \ {0}

VARIABLES
  open,      \* the application holds a BZFILE*
  at,        \* "app" between its calls, "write", "finish" or "close" inside
  lastErr,   \* bzf->lastErr, and *bzerror: BZ_SETERR sets both
  ferror,    \* the error indicator of bzf->handle
  abandon,   \* the parameter of the BZ2_bzWriteClose64 in progress
  file,      \* history: tokens handed to bzf->handle
  given      \* history: bytes in the calls of BZ2_bzWrite made so far

fileVars == <<open, at, lastErr, ferror, abandon, file, given>>
allVars  == <<vars, fileVars>>

FileInit ==
  /\ Init
  /\ open = FALSE /\ at = "app" /\ lastErr = "OK"
  /\ ferror = FALSE /\ abandon = FALSE /\ file = <<>> /\ given = 0

(* BZ_SETERR, and the call returns. *)
Answer(code) == at' = "app" /\ lastErr' = code

------------------------------------------------------------------------------
(***************************************************************************)
(* BZ2_bzWriteOpen: `f' is no file, one in error, or a good one; `gotFile' *)
(* says whether the bzFile can be allocated.                               *)
(***************************************************************************)
BZ2_bzWriteOpen(f, level, gotFile, got) ==
  /\ at = "app" /\ ~open /\ mode = "NONE"
  /\ \/ /\ f = "none" \/ level \notin 1..9
        /\ lastErr' = "PARAM_ERROR"
        /\ UNCHANGED <<vars, open, at, ferror, file, given>>
     \/ /\ f = "failed" /\ level \in 1..9
        /\ lastErr' = "IO_ERROR"
        /\ UNCHANGED <<vars, open, at, ferror, file, given>>
     \/ /\ f = "good" /\ level \in 1..9 /\ ~gotFile
        /\ lastErr' = "MEM_ERROR"
        /\ UNCHANGED <<vars, open, at, ferror, file, given>>
     \/ /\ f = "good" /\ level \in 1..9 /\ gotFile
        /\ SetUp(level, got)
        /\ avail_in' = 0 /\ UNCHANGED avail_out
        /\ open' = (ret' = "OK")
        /\ Answer(ret')
        /\ ferror' = FALSE /\ file' = <<>> /\ given' = 0
  /\ UNCHANGED abandon

(* The stream is given an empty buffer, and what input it has left. *)
Call(action, ai) == BZ2_bzCompress(action, ai, BZ_MAX_UNUSED)

Refused(code) == Answer(code) /\ UNCHANGED <<vars, ferror, file, given, abandon>>

(* BZ2_bzWrite up to its loop; a negative `len' stands for it and for a     *)
(* null buf.                                                                *)
BZ2_bzWrite(len) ==
  /\ at = "app" /\ open
  /\ \/ len < 0 /\ Refused("PARAM_ERROR")
     \/ len >= 0 /\ ferror /\ Refused("IO_ERROR")
     \/ len = 0 /\ ~ferror /\ Refused("OK")
     \/ /\ len > 0 /\ ~ferror
        /\ Call("RUN", len)
        /\ at' = "write" /\ lastErr' = "OK"
        /\ given' = given + len
        /\ UNCHANGED <<ferror, file, abandon>>
  /\ UNCHANGED open

(***************************************************************************)
(* fwrite of what the last call put into bzf->buf.  A failure leaves some  *)
(* front part of it in the file, and is seen in ferror.                    *)
(***************************************************************************)
n == BZ_MAX_UNUSED - avail_out
chunk == SubSeq(out, Len(out) - n + 1, Len(out))

Fwrite       == file' = file \o chunk /\ UNCHANGED ferror
FwriteFailed == /\ n > 0 /\ ferror' = TRUE
                /\ \E k \in 0..(n - 1) : file' = file \o SubSeq(chunk, 1, k)

AfterRun_NoFileTest ==  \* mutant: the result of fwrite is not looked at
  /\ at = "write" /\ pc = "client" /\ ret = "RUN_OK"
  /\ (Fwrite \/ FwriteFailed)
  /\ \/ avail_in = 0 /\ Answer("OK") /\ UNCHANGED vars
     \/ avail_in > 0 /\ Call("RUN", avail_in) /\ UNCHANGED <<at, lastErr>>
  /\ UNCHANGED <<open, given, abandon>>

AfterRun_Retries ==  \* mutant: a failed fwrite is tried again, on a file in error
  /\ at = "write" /\ pc = "client" /\ ret = "RUN_OK" /\ ~ferror
  /\ \/ /\ n > 0 /\ ferror' = TRUE
        /\ UNCHANGED <<vars, at, lastErr, file>>
     \/ Fwrite /\ avail_in = 0 /\ Answer("OK") /\ UNCHANGED vars
     \/ /\ Fwrite /\ avail_in > 0 /\ Call("RUN", avail_in)
        /\ UNCHANGED <<at, lastErr>>
  /\ UNCHANGED <<open, given, abandon>>

(* The rest of the loop of BZ2_bzWrite. *)
AfterRun ==
  /\ at = "write" /\ pc = "client"
  /\ \/ /\ ret # "RUN_OK"
        /\ Answer(ret)
        /\ UNCHANGED <<vars, ferror, file>>
     \/ /\ ret = "RUN_OK" /\ FwriteFailed
        /\ Answer("IO_ERROR")
        /\ UNCHANGED vars
     \/ /\ ret = "RUN_OK" /\ Fwrite /\ avail_in = 0
        /\ Answer("OK")
        /\ UNCHANGED vars
     \/ /\ ret = "RUN_OK" /\ Fwrite /\ avail_in > 0
        /\ Call("RUN", avail_in)
        /\ UNCHANGED <<at, lastErr>>
  /\ UNCHANGED <<open, given, abandon>>

------------------------------------------------------------------------------
(***************************************************************************)
(* BZ2_bzWriteClose64.  A file in error is not closed at all.  After an    *)
(* error, or if told to abandon it, the stream is not finished.            *)
(***************************************************************************)
BZ2_bzWriteClose64(giveUp) ==
  /\ at = "app" /\ open
  /\ abandon' = giveUp
  /\ \/ /\ ferror
        /\ Answer("IO_ERROR")
        /\ UNCHANGED vars
     \/ /\ ~ferror /\ ~giveUp /\ lastErr = "OK"
        /\ Call("FINISH", avail_in)
        /\ at' = "finish"
        /\ UNCHANGED lastErr
     \/ /\ ~ferror /\ (giveUp \/ lastErr # "OK")
        /\ at' = "close"
        /\ UNCHANGED <<vars, lastErr>>
  /\ UNCHANGED <<open, ferror, file, given>>

AfterFinish_EndFirst ==  \* mutant: the test for the end comes before the fwrite
  /\ at = "finish" /\ pc = "client"
  /\ \/ /\ ret = "STREAM_END"
        /\ at' = "close"
        /\ UNCHANGED <<vars, lastErr, file, ferror>>
     \/ /\ ret = "FINISH_OK" /\ Fwrite
        /\ Call("FINISH", avail_in)
        /\ UNCHANGED <<at, lastErr>>
  /\ UNCHANGED <<open, given, abandon>>

AfterFinish ==
  /\ at = "finish" /\ pc = "client"
  /\ \/ /\ ret \notin {"FINISH_OK", "STREAM_END"}
        /\ Answer(ret)
        /\ UNCHANGED <<vars, ferror, file>>
     \/ /\ ret \in {"FINISH_OK", "STREAM_END"} /\ FwriteFailed
        /\ Answer("IO_ERROR")
        /\ UNCHANGED vars
     \/ /\ ret = "STREAM_END" /\ Fwrite
        /\ at' = "close"
        /\ UNCHANGED <<vars, lastErr>>
     \/ /\ ret = "FINISH_OK" /\ Fwrite
        /\ Call("FINISH", avail_in)
        /\ UNCHANGED <<at, lastErr>>
  /\ UNCHANGED <<open, given, abandon>>

(* The fflush, which may fail too, and the end of the bzFile. *)
CloseFile ==
  /\ at = "close" /\ pc = "client"
  /\ \/ /\ ~abandon
        /\ ferror' = TRUE
        /\ Answer("IO_ERROR")
        /\ UNCHANGED <<vars, open, abandon>>
     \/ /\ BZ2_bzCompressEnd
        /\ Answer("OK")
        /\ open' = FALSE /\ abandon' = FALSE
        /\ UNCHANGED ferror
  /\ UNCHANGED <<file, given>>

------------------------------------------------------------------------------
Application ==
  \/ \E f \in {"none", "failed", "good"}, level \in Levels, gotFile \in BOOLEAN,
        got \in SUBSET Buffers : BZ2_bzWriteOpen(f, level, gotFile, got)
  \/ \E len \in -1..ChunkIn : BZ2_bzWrite(len)
  \/ \E giveUp \in BOOLEAN : BZ2_bzWriteClose64(giveUp)

Interface ==
  \/ AfterRun
  \/ AfterFinish
  \/ CloseFile
  \/ Library /\ UNCHANGED fileVars

FileNext == Application \/ Interface

(* A call in progress runs to its end; the application need not go on.     *)
FileSpec == FileInit /\ [][FileNext]_allVars /\ WF_allVars(Interface)

------------------------------------------------------------------------------
(* Properties. *)

(***************************************************************************)
(* Once the file has failed no call answers BZ_OK until another file is    *)
(* opened: the application learns of the failure at the latest when it     *)
(* closes (bzlib.c:1069), however it goes about it.                        *)
(***************************************************************************)
FailureReported == ferror /\ at = "app" => open /\ lastErr # "OK"

(***************************************************************************)
(* A close that is not told to abandon and follows no error answers BZ_OK  *)
(* only when the file holds a whole stream that decodes to all the bytes   *)
(* written to it.                                                          *)
(***************************************************************************)
ClosedIsWhole ==
  [][open /\ ~open' /\ ~abandon /\ lastErr = "OK" =>
       /\ WellFormed(file, BlockUnit) /\ Content(file) = fed
       /\ Len(fed) = given]_allVars

(* Every call returns. *)
CallsReturn == at # "app" ~> at = "app"

------------------------------------------------------------------------------
(***************************************************************************)
(* The inductive strengthening of FailureReported and ClosedIsWhole.       *)
(*                                                                         *)
(* FailInv: no call is in progress on a file in error.  RestInv: between   *)
(* calls on a good file, all of `out' has gone to it and all input has     *)
(* been taken.  LoopsInv: inside the two loops the file is behind by what  *)
(* is in bzf->buf, and a call of BZ2_bzCompress that has moved nothing yet *)
(* still has all it was given, so that none returns without progress.      *)
(* EndInv: what finishing a stream leaves behind.                          *)
(***************************************************************************)
FileType ==
  /\ open \in BOOLEAN /\ ferror \in BOOLEAN /\ abandon \in BOOLEAN
  /\ at \in {"app", "write", "finish", "close"}
  /\ lastErr \in Codes \cup {"IO_ERROR"}
  /\ file \in Seq(Token) /\ given \in Nat

FailInv == /\ at # "app" => open /\ ~ferror
           /\ ferror => open /\ lastErr # "OK"

AllWritten == file = out /\ Len(fed) = given

RestInv ==
  /\ at \in {"app", "close"} => pc = "client"
  /\ ~open => mode = "NONE"
  /\ at = "app" /\ open /\ ~ferror =>
        mode = "RUNNING" /\ avail_in = 0 /\ AllWritten

LoopsInv ==
  /\ at \in {"write", "finish"} =>
       /\ lastErr = "OK" /\ avail_out <= BZ_MAX_UNUSED
       /\ Len(file) + (BZ_MAX_UNUSED - avail_out) = Len(out)
       /\ file = SubSeq(out, 1, Len(file))
       /\ Len(fed) + avail_in = given
       /\ pc # "client" /\ ~progress => avail_out = BZ_MAX_UNUSED
       /\ pc = "ret" => progress
  /\ at = "write" =>
       /\ mode = "RUNNING"
       /\ pc = "client" => ret = "RUN_OK"
       /\ pc = "loop" /\ ~progress => avail_in > 0
  /\ at = "finish" =>
       /\ ~abandon /\ avail_in = 0 /\ avail_in_expect = 0
       /\ pc # "client" => mode = "FINISHING"
       /\ pc = "loop" /\ ~progress /\ state = "OUTPUT" => Unfinished

EndInv ==
  /\ at = "finish" /\ pc = "client" =>
       \/ ret = "FINISH_OK" /\ mode = "FINISHING" /\ Unfinished
       \/ ret = "STREAM_END" /\ mode = "IDLE"
  /\ at = "close" /\ ~abandon /\ lastErr = "OK" => mode = "IDLE" /\ AllWritten

FileInv == FileType /\ FailInv /\ RestInv /\ LoopsInv /\ EndInv
================================================================================
