-------------------------------- MODULE BzRead ---------------------------------
(***************************************************************************)
(* The reading half of libbzip2's file interface, on top of the streaming  *)
(* decompressor: BZ2_bzReadOpen, BZ2_bzRead, BZ2_bzReadGetUnused and       *)
(* BZ2_bzReadClose (bzlib.c 1089-1240).                                    *)
(*                                                                         *)
(* BZ2_bzRead is a loop that refills bzf->buf from the file when the       *)
(* decompressor has used it up.  What it has read beyond the end of one    *)
(* stream the application hands to the next BZ2_bzReadOpen.  The buffer is *)
(* modelled by its count, avail_in; `source', from which the decompressor  *)
(* takes its input, is what the file holds from the start of the stream.   *)
(* Any fgetc or fread may fail, and the error indicator then stays set.    *)
(***************************************************************************)
EXTENDS DecompressStream

CONSTANTS
  Files,          \* token sequences a file may hold
  BZ_MAX_UNUSED   \* tokens bzf->buf holds: 5000 bytes

ASSUME FilesAssumption  == \A f \in Files : f \in Seq(Token)
ASSUME BufferAssumption == BZ_MAX_UNUSED \in Nat \ {0}

VARIABLES
  open,      \* the application holds a BZFILE*
  at,        \* "app" between its calls, "loop" or "call" inside BZ2_bzRead
  lastErr,   \* bzf->lastErr, and *bzerror: BZ_SETERR sets both
  ferror,    \* the error indicator of bzf->handle
  file,      \* what bzf->handle holds
  offset,    \* tokens read from it
  unused,    \* tokens the application keeps for the next BZ2_bzReadOpen
  ready,     \* it has them, or the file has not been read from yet
  len,       \* the parameter of the BZ2_bzRead in progress
  received   \* history: bytes the calls on this BZFILE have returned

fileVars == <<open, at, lastErr, ferror, file, offset, unused, ready, len, received>>
allVars  == <<vars, fileVars>>

FileInit ==
  /\ Init
  /\ open = FALSE /\ at = "app" /\ lastErr = "OK" /\ ferror = FALSE
  /\ file = <<>> /\ offset = 0 /\ unused = 0 /\ ready = FALSE
  /\ len = 0 /\ received = <<>>

(* BZ_SETERR, and the call returns. *)
Answer(code) == at' = "app" /\ lastErr' = code

(* The application opens another file, once it has closed its BZFILE. *)
NewFile(f) ==
  /\ at = "app" /\ ~open
  /\ file' = f /\ offset' = 0 /\ unused' = 0 /\ ready' = TRUE /\ ferror' = FALSE
  /\ UNCHANGED <<vars, open, at, lastErr, len, received>>

------------------------------------------------------------------------------
(***************************************************************************)
(* BZ2_bzReadOpen with the unused tokens of the stream before.  A null f   *)
(* is refused as a wrong `small' is; `gotFile' and `got' say whether the   *)
(* bzFile and the DState can be allocated.                                 *)
(***************************************************************************)
BZ2_bzReadOpen(small, gotFile, got) ==
  /\ at = "app" /\ ~open /\ ready
  /\ \/ /\ \/ small \notin {0, 1} /\ lastErr' = "PARAM_ERROR"
           \/ small \in {0, 1} /\ ferror /\ lastErr' = "IO_ERROR"
           \/ small \in {0, 1} /\ ~ferror /\ ~gotFile /\ lastErr' = "MEM_ERROR"
        /\ UNCHANGED <<vars, open, at, ready, received>>
     \/ /\ small \in {0, 1} /\ ~ferror /\ gotFile
        /\ SetUp(SubSeq(file, offset - unused + 1, Len(file)), small, got)
        /\ avail_in' = unused
        /\ open' = (ret' = "OK")
        /\ Answer(ret')
        /\ ready' = (ret' # "OK")
        /\ received' = <<>>
  /\ UNCHANGED <<ferror, file, offset, unused, len>>

(***************************************************************************)
(* BZ2_bzRead up to its loop; a negative `n' stands for it and for a null  *)
(* buf.  After an error, or once it has asked for the unused tokens, the   *)
(* application only closes (manual.xml:1869, 1914).                        *)
(***************************************************************************)
BZ2_bzRead(n) ==
  /\ at = "app" /\ open /\ lastErr = "OK" /\ ~ready
  /\ \/ /\ n <= 0
        /\ Answer(IF n < 0 THEN "PARAM_ERROR" ELSE "OK")
        /\ UNCHANGED <<vars, len>>
     \/ /\ n > 0
        /\ at' = "loop" /\ len' = n /\ lastErr' = "OK"
        /\ avail_out' = n
        /\ UNCHANGED <<avail_in, total_in, total_out, state, lifeVars, blockVars,
                       runVars, crcVars, pc, saved, ret, source, pos, out>>
  /\ UNCHANGED <<open, ferror, file, offset, unused, ready, received>>

(* fgetc at the end of the file, or with a read error, gives EOF. *)
AtEnd         == offset = Len(file)
myfeof(fails) == (fails \/ AtEnd) /\ ferror' = (ferror \/ fails)

(* What fread puts into bzf->buf. *)
Fill == IF BZ_MAX_UNUSED < Len(file) - offset THEN BZ_MAX_UNUSED
                                              ELSE Len(file) - offset

Decompress(ai) ==
  /\ BZ2_bzDecompress(ai, avail_out)
  /\ at' = "call"
  /\ UNCHANGED lastErr

LoopTop_AlwaysFills ==  \* mutant: no test that the buffer has been used up
  /\ at = "loop" /\ ~ferror
  /\ offset' = offset + Fill
  /\ Decompress(IF AtEnd THEN avail_in ELSE Fill)
  /\ UNCHANGED <<open, ferror, file, unused, ready, len, received>>

LoopTop_OneFill ==  \* mutant: the buffer is filled once for each call
  /\ at = "loop" /\ ~ferror
  /\ IF avail_in = 0 /\ ~AtEnd /\ avail_out = len
     THEN offset' = offset + Fill /\ Decompress(Fill)
     ELSE UNCHANGED offset /\ Decompress(avail_in)
  /\ UNCHANGED <<open, ferror, file, unused, ready, len, received>>

(***************************************************************************)
(* The loop of BZ2_bzRead up to BZ2_bzDecompress, which is called without  *)
(* input at the end of the file.  fread may fail after some tokens.        *)
(***************************************************************************)
LoopTop ==
  /\ at = "loop"
  /\ \/ /\ ferror
        /\ Answer("IO_ERROR")
        /\ UNCHANGED <<vars, ferror, offset>>
     \/ /\ ~ferror /\ avail_in > 0
        /\ Decompress(avail_in)
        /\ UNCHANGED <<ferror, offset>>
     \/ /\ ~ferror /\ avail_in = 0
        /\ \E fails \in BOOLEAN : myfeof(fails)
        /\ Decompress(0)
        /\ UNCHANGED offset
     \/ /\ ~ferror /\ avail_in = 0 /\ ~AtEnd
        /\ offset' = offset + Fill
        /\ Decompress(Fill)
        /\ UNCHANGED ferror
     \/ /\ ~ferror /\ avail_in = 0 /\ ~AtEnd
        /\ \E k \in 0..(Fill - 1) : offset' = offset + k
        /\ ferror' = TRUE
        /\ Answer("IO_ERROR")
        /\ UNCHANGED vars
  /\ UNCHANGED <<open, file, unused, ready, len, received>>

(* The call returns `code' with the bytes it has put into buf. *)
AnswerBytes(code) ==
  /\ Answer(code)
  /\ received' = received
        \o SubSeq(out, Len(out) - (len - avail_out) + 1, Len(out))

AfterCall_EndIsOk ==  \* mutant: a full buffer goes before the end of the stream
  /\ at = "call" /\ pc = "client"
  /\ \/ /\ ret \notin {"OK", "STREAM_END"}
        /\ Answer(ret)
        /\ UNCHANGED received
     \/ /\ ret = "OK" /\ AtEnd /\ avail_in = 0 /\ avail_out > 0
        /\ Answer("UNEXPECTED_EOF")
        /\ UNCHANGED received
     \/ /\ ret = "STREAM_END"
        /\ Answer("STREAM_END") /\ received' = received
     \/ /\ ret = "OK" /\ ~(AtEnd /\ avail_in = 0 /\ avail_out > 0)
        /\ \/ avail_out = 0 /\ AnswerBytes("OK")
           \/ avail_out > 0 /\ at' = "loop" /\ UNCHANGED <<lastErr, received>>
  /\ UNCHANGED <<vars, ferror, open, file, offset, unused, ready, len>>

(***************************************************************************)
(* The rest of the loop.  myfeof is asked after every BZ_OK, whether or    *)
(* not input and room are left, so ferror may be set by any of them.       *)
(***************************************************************************)
AfterCall ==
  /\ at = "call" /\ pc = "client"
  /\ \/ /\ ret \notin {"OK", "STREAM_END"}
        /\ Answer(ret)
        /\ UNCHANGED <<ferror, received>>
     \/ /\ ret = "OK" /\ avail_in = 0 /\ avail_out > 0
        /\ \E fails \in BOOLEAN : myfeof(fails)
        /\ Answer("UNEXPECTED_EOF")
        /\ UNCHANGED received
     \/ /\ ret = "STREAM_END"
        /\ AnswerBytes("STREAM_END")
        /\ UNCHANGED ferror
     \/ /\ ret = "OK" /\ avail_out = 0
        /\ AnswerBytes("OK")
        /\ ferror' \in {ferror, TRUE}
     \/ /\ ret = "OK" /\ avail_out > 0 /\ avail_in = 0 /\ ~AtEnd
        /\ at' = "loop"
        /\ UNCHANGED <<lastErr, ferror, received>>
     \/ /\ ret = "OK" /\ avail_out > 0 /\ avail_in > 0
        /\ at' = "loop"
        /\ ferror' \in {ferror, TRUE}
        /\ UNCHANGED <<lastErr, received>>
  /\ UNCHANGED <<vars, open, file, offset, unused, ready, len>>

------------------------------------------------------------------------------
(* BZ2_bzReadGetUnused, with the copy of the buffer the application makes.  *)
BZ2_bzReadGetUnused ==
  /\ at = "app" /\ open
  /\ \/ /\ lastErr # "STREAM_END"
        /\ Answer("SEQUENCE_ERROR")
        /\ UNCHANGED <<unused, ready>>
     \/ /\ lastErr = "STREAM_END"
        /\ Answer("OK")
        /\ unused' = avail_in /\ ready' = TRUE
  /\ UNCHANGED <<vars, open, ferror, file, offset, len, received>>

BZ2_bzReadClose ==
  /\ at = "app" /\ open
  /\ BZ2_bzDecompressEnd
  /\ Answer("OK") /\ open' = FALSE /\ received' = <<>>
  /\ UNCHANGED <<ferror, file, offset, unused, ready, len>>

Application ==
  \/ \E f \in Files : NewFile(f)
  \/ \E small \in 0..2, gotFile, got \in BOOLEAN : BZ2_bzReadOpen(small, gotFile, got)
  \/ \E n \in -1..ChunkOut : BZ2_bzRead(n)
  \/ BZ2_bzReadGetUnused
  \/ BZ2_bzReadClose

Interface ==
  \/ LoopTop
  \/ AfterCall
  \/ Library /\ UNCHANGED fileVars

FileNext == Application \/ Interface

(***************************************************************************)
(* A call in progress runs to its end, and the application that may read   *)
(* goes on reading: at least one byte, again and again.                    *)
(***************************************************************************)
ReadOn == \E n \in 1..ChunkOut : BZ2_bzRead(n)

FileSpec == /\ FileInit /\ [][FileNext]_allVars
            /\ WF_allVars(Interface) /\ SF_allVars(ReadOn)

------------------------------------------------------------------------------
(* Properties. *)

(* Where in the file the stream being read starts. *)
Start == Len(file) - Len(source)

(* The whole, sound stream has been given to the application by the calls   *)
(* so far.                                                                  *)
EndIsWhole == LET read == SubSeq(source, 1, pos)
              IN WellFormed(read, BlockUnit) /\ received = Content(read)

(***************************************************************************)
(* Both ends of a stream are told for what they are.  BZ_STREAM_END: the   *)
(* application has all the content of a whole, sound stream, across refills*)
(* and reads.  BZ_UNEXPECTED_EOF: the whole file has been read and it      *)
(* stops inside a stream; not for a full buffer at the end of the file,    *)
(* nor for a block that ends with it.  (A read error that myfeof meets is  *)
(* taken for the end of the file: bzlib.c:908.)                            *)
(***************************************************************************)
EndsTold ==
  open => /\ lastErr = "STREAM_END" => EndIsWhole
          /\ lastErr = "UNEXPECTED_EOF" /\ ~ferror => AtEnd /\ ~Sound

(***************************************************************************)
(* BZ2_bzReadGetUnused hands on all that was read beyond the trailer: the  *)
(* next stream starts right behind the one that ended.                     *)
(***************************************************************************)
UnusedExact ==
  [][open /\ ~ready /\ ready' =>
       WellFormed(SubSeq(source, 1, offset - unused' - Start), BlockUnit)]_allVars

(* An application that reads on gets to the end of a sound stream, unless   *)
(* the file or an allocation fails it.                                      *)
ReadEnds ==
  (open /\ Sound /\ ~ready) ~> (~open \/ ferror \/ lastErr # "OK")

------------------------------------------------------------------------------
(***************************************************************************)
(* The inductive strengthening of EndsTold.  TurnInv: who is in the middle *)
(* of a call, and where BZ_OK leaves the stream.  PlaceInv: the position   *)
(* in the file is the stream's with what waits in bzf->buf, unless a       *)
(* failed fread has lost some.  GivenInv: what the calls have returned,    *)
(* and what the one in progress has put out, is all of `out'.              *)
(***************************************************************************)
ReadType ==
  /\ open \in BOOLEAN /\ ferror \in BOOLEAN /\ ready \in BOOLEAN
  /\ at \in {"app", "loop", "call"}
  /\ lastErr \in Codes \cup {"IO_ERROR", "UNEXPECTED_EOF"}
  /\ file \in Seq(Token) /\ offset \in 0..Len(file) /\ unused \in 0..offset
  /\ len \in 0..(WordSize - 1) /\ received \in Seq(Bytes)

TurnInv ==
  /\ open <=> state # "NONE"
  /\ at # "call" => pc = "client"
  /\ at # "app" => open /\ ~ready /\ lastErr = "OK"
  /\ open /\ pc = "client" /\ ret = "OK" => state \in Parsing \cup {"OUTPUT"}

PlaceInv ==
  /\ open => Len(source) <= Len(file)
  /\ open /\ lastErr \in {"OK", "STREAM_END", "UNEXPECTED_EOF"} =>
        Start + pos + avail_in = offset

GivenInv ==
  /\ at = "app" /\ open /\ lastErr \in {"OK", "STREAM_END"} => received = out
  /\ at # "app" /\ Going =>
        /\ avail_out <= len
        /\ Len(received) + len = Len(out) + avail_out
        /\ received = SubSeq(out, 1, Len(received))

ReadInv == ReadType /\ TurnInv /\ PlaceInv /\ GivenInv /\ EndsTold
================================================================================
