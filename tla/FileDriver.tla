------------------------------- MODULE FileDriver -------------------------------
(***************************************************************************)
(* The bzip2 command (bzip2.c): main takes the files of its command line   *)
(* one after another through compress, uncompress or testf, which look at  *)
(* the names, open the files, run a stream from one to the other and then  *)
(* remove what is no longer wanted.                                        *)
(*                                                                         *)
(* Every call of the C library may fail, output waits in a stdio buffer    *)
(* that may fail to be written later, a signal may come between any two    *)
(* steps, the process may be killed, and another process may create a file *)
(* with the name of an output.                                             *)
(*                                                                         *)
(* A file's data are Pieces pieces; <<n, form, j>> is the j-th piece of    *)
(* what input n becomes, either processed ("new") or copied as it is.      *)
(***************************************************************************)
EXTENDS Naturals, Sequences, FiniteSets
LOCAL INSTANCE SequencesExt

CONSTANTS
  Inputs,     \* names of input files
  Outputs,    \* names of output files
  Stdout,     \* the output of SM_F2O
  Pieces,     \* pieces in the data of a file
  ArgCount    \* most names on the command line

ASSUME NamesAssumption ==
  /\ Inputs \cap Outputs = {} /\ Stdout \notin Inputs \cup Outputs
  /\ "other" \notin Inputs      \* marks what another process wrote
  /\ Pieces \in Nat \ {0} /\ ArgCount \in Nat

VARIABLES
  op, src,      \* opMode "Z", "UNZ" or "TEST"; srcMode "F2F" or "F2O"
  force, keep,  \* forceOverwrite, keepInputFiles
  args,         \* the names on the command line
  outOf,        \* the output name made from an input name
  kind,         \* what each input file holds
  pc,           \* where the program is
  fileNo,       \* numFilesProcessed
  dir,          \* names of the files that exist
  disk,         \* what the outputs hold
  buf,          \* what waits in the stdio buffer of the output
  got,          \* pieces of the present file handed to fwrite
  step,         \* how far the closing of the files is
  handle,       \* outputHandleJustInCase: "null", "open", or "closed" (dangling)
  armed,        \* deleteOutputOnInterrupt
  failCode,     \* the argument of cleanUpAndFail
  exitValue, unzFailsExist, testFailsExist

settings == <<op, src, force, keep, args, outOf, kind>>
results  == <<exitValue, unzFailsExist, testFailsExist>>
vars == <<settings, pc, fileNo, dir, disk, buf, got, step, handle, armed, failCode, results>>

Name == args[fileNo]
Out  == IF src = "F2F" THEN outOf[Name] ELSE Stdout

Kinds == {"good", "trailing", "notbz", "corrupt", "short"}

Piece(n, form, j)  == <<n, form, j>>
Data(n, form, len) == [j \in 1..len |-> Piece(n, form, j)]
Other == <<Piece("other", "new", 1)>>   \* what another process wrote

(* A suffix is added to compress, so different inputs have different        *)
(* outputs; a.bz2 and a.tbz2 may well uncompress to one name.               *)
Init ==
  /\ op \in {"Z", "UNZ", "TEST"} /\ src \in {"F2F", "F2O"} /\ ~(op = "TEST" /\ src = "F2O")
  /\ force \in BOOLEAN /\ keep \in BOOLEAN /\ (keep => op # "TEST" /\ src = "F2F")
  /\ args \in UNION {[1..n -> Inputs] : n \in 1..ArgCount}
  /\ outOf \in [Inputs -> Outputs]
  /\ op = "Z" => \A n, m \in Inputs : outOf[n] = outOf[m] => n = m
  /\ kind \in [Inputs -> IF op = "Z" THEN {"good"} ELSE Kinds]
  /\ dir \in {Inputs \cup existing : existing \in SUBSET Outputs}
  /\ disk = [o \in Outputs \cup {Stdout} |-> IF o \in dir THEN Other ELSE <<>>]
  /\ pc = "next" /\ fileNo = 0 /\ buf = <<>> /\ got = 0 /\ step = 1
  /\ handle = "null" /\ armed = FALSE /\ failCode = 0
  /\ exitValue = 0 /\ unzFailsExist = FALSE /\ testFailsExist = FALSE

setExit(v) == exitValue' = IF v > exitValue THEN v ELSE exitValue
Fail(ec)   == pc' = "cleanup" /\ failCode' = ec
Goto(l)    == pc' = l /\ UNCHANGED failCode
Skip(v)    == setExit(v) /\ UNCHANGED <<unzFailsExist, testFailsExist>> /\ Goto("next")

------------------------------------------------------------------------------
(* The loops of main over its arguments. *)
NextFile ==
  /\ pc = "next" /\ fileNo < Len(args)
  /\ fileNo' = fileNo + 1 /\ got' = 0 /\ armed' = FALSE
  /\ Goto("check")
  /\ UNCHANGED <<settings, dir, disk, buf, step, handle, results>>

(* The end of main; exit writes what stdout still holds, and nobody looks   *)
(* whether it could.                                                        *)
Finish ==
  /\ pc = "next" /\ fileNo = Len(args)
  /\ Goto("exited")
  /\ setExit(IF (op = "UNZ" /\ unzFailsExist) \/ (op = "TEST" /\ testFailsExist) THEN 2 ELSE 0)
  /\ disk' \in {disk, [disk EXCEPT ![Stdout] = @ \o buf]} /\ buf' = <<>>
  /\ UNCHANGED <<settings, fileNo, dir, got, step, handle, armed, unzFailsExist, testFailsExist>>

(* The tests at the start of compress, uncompress and testf that send a     *)
(* file back: it does not exist, is a directory, has the suffix already or  *)
(* other links, the output exists.                                          *)
Refuse ==
  /\ pc = "check"
  /\ Skip(1)
  /\ UNCHANGED <<settings, fileNo, dir, disk, buf, got, step, handle, armed>>

(* The tests are passed. An existing output is removed with -f, whose       *)
(* result nobody looks at; then stat may fail.                              *)
Accept ==
  /\ pc = "check" /\ Name \in dir
  /\ op # "TEST" /\ src = "F2F" /\ Out \in dir => force
  /\ dir' \in IF op # "TEST" /\ src = "F2F" /\ force THEN {dir, dir \ {Out}} ELSE {dir}
  /\ Goto("open") \/ (op # "TEST" /\ src = "F2F" /\ Fail(1))
  /\ UNCHANGED <<settings, fileNo, disk, buf, got, step, handle, armed, results>>

OpenFails ==
  /\ pc = "open" /\ Skip(1)
  /\ \/ UNCHANGED <<dir, disk>>
     \/ /\ op # "TEST" /\ src = "F2F"      \* the output is there, the input is not
        /\ Out \notin dir /\ dir' = dir \cup {Out} /\ disk' = [disk EXCEPT ![Out] = <<>>]
  /\ UNCHANGED <<settings, fileNo, buf, got, step, handle, armed>>

fopen_output_Truncating(name) ==  \* mutant: without O_EXCL
  dir' = dir \cup {name} /\ disk' = [disk EXCEPT ![name] = <<>>]

fopen_output_safely(name) ==
  /\ name \notin dir
  /\ dir' = dir \cup {name} /\ disk' = [disk EXCEPT ![name] = <<>>]

Open ==
  /\ pc = "open" /\ Name \in dir
  /\ IF op # "TEST" /\ src = "F2F" THEN fopen_output_safely(Out) ELSE UNCHANGED <<dir, disk>>
  /\ Goto(IF op = "TEST" THEN "stream" ELSE "arm")
  /\ UNCHANGED <<settings, fileNo, buf, got, step, handle, armed, results>>

(* The handles are sane: from here on a failure deletes the output. *)
Arm ==
  /\ pc = "arm" /\ Goto("stream")
  /\ handle' = "open" /\ armed' = TRUE
  /\ UNCHANGED <<settings, fileNo, dir, disk, buf, got, step, results>>

------------------------------------------------------------------------------
(* fwrite: the piece waits, or goes to the file with all that waited, or    *)
(* fails; compressStream, uncompressStream and libbzip2 look at once.       *)
fwrite(piece) ==
  \/ buf' = Append(buf, piece) /\ UNCHANGED <<disk, pc, failCode>>
  \/ /\ disk' = [disk EXCEPT ![Out] = @ \o Append(buf, piece)] /\ buf' = <<>>
     /\ UNCHANGED <<pc, failCode>>
  \/ buf' = <<>> /\ UNCHANGED disk /\ Fail(1)

(* One round of the loops of compressStream and uncompressStream. *)
Deliver ==
  /\ pc = "stream" /\ op # "TEST" /\ kind[Name] # "notbz" /\ got < Pieces
  /\ fwrite(Piece(Name, "new", got + 1)) /\ got' = got + 1
  /\ UNCHANGED <<settings, fileNo, dir, step, handle, armed, results>>

(* An error of fread or ferror, or memory that cannot be had. *)
ReadFails ==
  /\ pc \in {"stream", "copy"} /\ Fail(1)
  /\ UNCHANGED <<settings, fileNo, dir, disk, buf, got, step, handle, armed, results>>

EndOfData ==
  /\ pc = "stream" /\ op # "TEST" /\ kind[Name] = "good" /\ got = Pieces
  /\ Goto("close") /\ step' = 1
  /\ UNCHANGED <<settings, fileNo, dir, disk, buf, got, handle, armed, results>>

(* BZ_DATA_ERROR and BZ_UNEXPECTED_EOF: crcError, compressedStreamEOF. *)
BadData ==
  /\ pc = "stream" /\ op # "TEST" /\ kind[Name] \in {"corrupt", "short"}
  /\ Fail(2)
  /\ UNCHANGED <<settings, fileNo, dir, disk, buf, got, step, handle, armed, results>>

(* BZ_DATA_ERROR_MAGIC: no stream at all, or something behind the streams. *)
AtMagic ==
  /\ pc = "stream" /\ op # "TEST"
  /\ kind[Name] = "notbz" \/ (kind[Name] = "trailing" /\ got = Pieces)

(* Both files are closed, and whether the rest of the output could be       *)
(* written is not looked at.                                                *)
MagicCloses ==
  /\ AtMagic /\ ~force
  /\ IF src = "F2F"
     THEN /\ disk' \in {disk, [disk EXCEPT ![Out] = @ \o buf]}
          /\ buf' = <<>> /\ handle' = "closed"
     ELSE UNCHANGED <<disk, buf, handle>>
  /\ Goto("return")
  /\ UNCHANGED <<settings, fileNo, dir, got, step, armed, results>>

(* trycat: rewind, and copy the file as it is behind what was written. *)
TryCat ==
  /\ AtMagic /\ force
  /\ got' = 0 /\ Goto("copy")
  /\ UNCHANGED <<settings, fileNo, dir, disk, buf, step, handle, armed, results>>

CopyRaw ==
  /\ pc = "copy" /\ got < Pieces
  /\ fwrite(Piece(Name, "raw", got + 1)) /\ got' = got + 1
  /\ UNCHANGED <<settings, fileNo, dir, step, handle, armed, results>>

EndOfCopy ==
  /\ pc = "copy" /\ got = Pieces
  /\ Goto("close") /\ step' = 1
  /\ UNCHANGED <<settings, fileNo, dir, disk, buf, got, handle, armed, results>>

(* How each of the two functions closes its files; stdout stays open. *)
Closing ==
  CASE op = "Z" /\ src = "F2F" -> <<"flush", "attr", "fclose", "null", "closeIn">>
    [] op # "Z" /\ src = "F2F" -> <<"attr", "closeIn", "flush", "fclose", "null">>
    [] op = "Z" /\ src = "F2O" -> <<"flush", "closeIn">>
    [] op # "Z" /\ src = "F2O" -> <<"closeIn", "flush">>

CloseStepUnchecked ==  \* mutant: what fflush and fclose return is not looked at
  \/ /\ Closing[step] \in {"flush", "fclose"}
     /\ \/ disk' = [disk EXCEPT ![Out] = @ \o buf]
        \/ UNCHANGED disk
     /\ buf' = <<>> /\ handle' = IF Closing[step] = "flush" THEN handle ELSE "closed"
  \/ Closing[step] = "null" /\ handle' = "null" /\ UNCHANGED <<disk, buf>>
  \/ Closing[step] \in {"attr", "closeIn"} /\ UNCHANGED <<disk, buf, handle>>

CloseStepWorks ==
  \/ /\ Closing[step] \in {"flush", "fclose"}
     /\ disk' = [disk EXCEPT ![Out] = @ \o buf] /\ buf' = <<>>
     /\ handle' = IF Closing[step] = "flush" THEN handle ELSE "closed"
  \/ Closing[step] = "null" /\ handle' = "null" /\ UNCHANGED <<disk, buf>>
  \/ Closing[step] \in {"attr", "closeIn"} /\ UNCHANGED <<disk, buf, handle>>

Close ==
  /\ pc = "close" /\ step <= Len(Closing)
  /\ \/ /\ CloseStepWorks /\ step' = step + 1
        /\ Goto(IF step = Len(Closing) THEN "return" ELSE "close")
     \/ /\ Closing[step] # "null" /\ Fail(1) /\ UNCHANGED <<step, disk>>
        /\ buf' = IF Closing[step] \in {"flush", "fclose"} THEN <<>> ELSE buf
        /\ handle' = IF Closing[step] = "fclose" THEN "null" ELSE handle
  /\ UNCHANGED <<settings, fileNo, dir, got, armed, results>>

------------------------------------------------------------------------------
magicNumberOK == kind[Name] = "notbz" => force

(* compress and uncompress after their stream. *)
Return ==
  /\ pc = "return"
  /\ handle' = "null"
  /\ unzFailsExist' = (unzFailsExist \/ ~magicNumberOK)
  /\ armed' = (armed /\ magicNumberOK /\ src = "F2F")
  /\ Goto(IF magicNumberOK THEN IF src = "F2F" THEN "times" ELSE "next" ELSE "badMagic")
  /\ UNCHANGED <<settings, fileNo, dir, disk, buf, got, step, exitValue, testFailsExist>>

applySavedTimeInfoToOutputFile ==
  /\ pc = "times"
  /\ Goto("disarm") \/ Fail(1)
  /\ UNCHANGED <<settings, fileNo, dir, disk, buf, got, step, handle, armed, results>>

Disarm ==
  /\ pc = "disarm"
  /\ armed' = FALSE
  /\ Goto(IF keep THEN "next" ELSE "removeInput")
  /\ UNCHANGED <<settings, fileNo, dir, disk, buf, got, step, handle, results>>

RemoveInput ==
  /\ pc = "removeInput"
  /\ \/ dir' = dir \ {Name} /\ Goto("next")
     \/ UNCHANGED dir /\ Fail(1)
  /\ UNCHANGED <<settings, fileNo, disk, buf, got, step, handle, armed, results>>

(* The input was no bzip2 file: the output goes. *)
BadMagic_ExitZero ==  \* mutant: the file counts as done
  /\ pc = "badMagic" /\ unzFailsExist' = FALSE
  /\ \/ /\ dir' = IF src = "F2F" THEN dir \ {Out} ELSE dir
        /\ Goto("next") /\ UNCHANGED exitValue
     \/ src = "F2F" /\ UNCHANGED <<dir, exitValue>> /\ Fail(1)
  /\ UNCHANGED <<settings, fileNo, disk, buf, got, step, handle, armed, testFailsExist>>

BadMagic ==
  /\ pc = "badMagic"
  /\ \/ /\ dir' = IF src = "F2F" THEN dir \ {Out} ELSE dir
        /\ setExit(2) /\ Goto("next")
     \/ src = "F2F" /\ UNCHANGED <<dir, exitValue>> /\ Fail(1)
  /\ UNCHANGED <<settings, fileNo, disk, buf, got, step, handle, armed, unzFailsExist, testFailsExist>>

(* What testStream answers, which reads to the end or to the first error. *)
testStream == kind[Name] \notin {"notbz", "corrupt", "short"}

Test ==
  /\ pc = "stream" /\ op = "TEST"
  /\ testFailsExist' = (testFailsExist \/ ~testStream)
  /\ Goto("next")
  /\ UNCHANGED <<settings, fileNo, dir, disk, buf, got, step, handle, armed, exitValue, unzFailsExist>>

------------------------------------------------------------------------------
Ended == pc \in {"exited", "killed"}

(* cleanUpAndFail deletes the output only while the input exists. *)
DeletesOutput == src = "F2F" /\ op # "TEST" /\ armed /\ Name \in dir

(* cleanUpAndFail. An open output is closed and deleted, if it can be; what *)
(* stdout holds is written by exit. To close what is closed already may     *)
(* bring the process down.                                                  *)
cleanUpAndFail ==
  /\ pc = "cleanup"
  /\ \/ /\ dir' \in IF DeletesOutput THEN {dir, dir \ {Out}} ELSE {dir}
        /\ disk' \in IF fileNo > 0 THEN {disk, [disk EXCEPT ![Out] = @ \o buf]} ELSE {disk}
        /\ setExit(failCode) /\ Goto("exited")
     \/ /\ DeletesOutput /\ handle = "closed"
        /\ Goto("killed") /\ UNCHANGED <<dir, disk, exitValue>>
  /\ buf' = <<>>
  /\ UNCHANGED <<settings, fileNo, got, step, handle, armed, unzFailsExist, testFailsExist>>

(* mySignalCatcher, installed for SM_F2F only. *)
Signal ==
  /\ src = "F2F" /\ ~Ended /\ pc # "cleanup" /\ Fail(1)
  /\ UNCHANGED <<settings, fileNo, dir, disk, buf, got, step, handle, armed, results>>

(* mySIGSEGVorSIGBUScatcher, or a signal nobody catches: nothing is written *)
(* or deleted any more.                                                     *)
Kill ==
  /\ ~Ended /\ Goto("killed") /\ buf' = <<>>
  /\ UNCHANGED <<settings, fileNo, dir, disk, got, step, handle, armed, results>>

(* Another process makes a file with the name of an output. *)
OtherCreates(o) ==
  /\ o \notin dir /\ ~Ended
  /\ dir' = dir \cup {o} /\ disk' = [disk EXCEPT ![o] = Other]
  /\ UNCHANGED <<settings, pc, fileNo, buf, got, step, handle, armed, failCode, results>>

Step ==
  \/ NextFile \/ Finish \/ Refuse \/ Accept \/ OpenFails \/ Open \/ Arm
  \/ Deliver \/ ReadFails \/ EndOfData \/ BadData \/ MagicCloses \/ TryCat \/ CopyRaw \/ EndOfCopy
  \/ Close \/ Return \/ applySavedTimeInfoToOutputFile \/ Disarm \/ RemoveInput \/ BadMagic \/ Test
  \/ cleanUpAndFail

Next == Step \/ Signal \/ Kill \/ \E o \in Outputs : OtherCreates(o)

Spec == Init /\ [][Next]_vars

------------------------------------------------------------------------------
(* What the output of input n holds when all went well. *)
Whole(n) == Data(n, IF kind[n] = "notbz" THEN "raw" ELSE "new", Pieces)

(* With -f a second input may replace the output of the first. *)
Replaceable(n) == force /\ \E m \in Inputs : m # n /\ outOf[m] = outOf[n]

(* An input that has been removed is whole in its output file: at no moment *)
(* does a signal, a kill or a failing call find the data in neither. (The   *)
(* order of fclose, its test and remove in compress and uncompress.         *)
(* Streams with something behind them are the business of                   *)
(* NoErrorGetsHere.)                                                        *)
NothingLost ==
  \A n \in Inputs :
    n \notin dir /\ kind[n] # "trailing" /\ ~Replaceable(n)
      => outOf[n] \in dir /\ disk[outOf[n]] = Whole(n)

(* A file another process made is neither overwritten nor deleted, also     *)
(* when it appears between fileExists and open; only -f removes it, before  *)
(* the output is opened. (O_EXCL in fopen_output_safely, and                *)
(* deleteOutputOnInterrupt set after it.)                                   *)
OthersKept ==
  [][\A o \in Outputs :
       o \in dir /\ disk[o] = Other /\ ~(force /\ pc = "check")
         => o \in dir' /\ disk'[o] = Other]_vars

(* Exit status 0 means that every named file was whole and was dealt with   *)
(* as asked: data on stdout in the order of the names, outputs in place,    *)
(* inputs gone, or kept with -k.                                            *)
StatusTells ==
  pc = "exited" /\ exitValue = 0 =>
    LET named == {args[j] : j \in 1..Len(args)} IN
    /\ op = "TEST" => \A n \in named : kind[n] \in {"good", "trailing"}
    /\ op # "TEST" /\ src = "F2F" =>
         \A n \in named : (n \in dir <=> keep)
           /\ (kind[n] = "trailing" \/ Replaceable(n) \/ disk[outOf[n]] = Whole(n))
    /\ op # "TEST" /\ src = "F2O" /\ (\A n \in named : kind[n] # "trailing") =>
         disk[Stdout] = FlattenSeq([j \in 1..Len(args) |-> Whole(args[j])])

(* bzip2.c:1289 and 1466, where the input is about to be removed: "If there *)
(* was an I/O error, we won't get here."                                    *)
NoErrorGetsHere ==
  pc \in {"times", "disarm", "removeInput"} /\ ~force => disk[Out] = Whole(Name)
=============================================================================
