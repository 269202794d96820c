-------------------------------- MODULE Recover --------------------------------
(***************************************************************************)
(* bzip2recover (bzip2recover.c): a first pass over the bits of a damaged  *)
(* file notes where blocks begin and end, a second one copies each block   *)
(* into a file of its own, as a stream of one block.                       *)
(*                                                                         *)
(* The sizes of the format are scaled down: a mark has L bits (48), a CRC  *)
(* CrcLen (32), a byte ByteBits (8).  Positions count from 0 as in the     *)
(* code, so bit p of the file is bits[p + 1].                              *)
(***************************************************************************)
EXTENDS Integers, Sequences, FiniteSets
LOCAL INSTANCE SequencesExt

CONSTANTS
  Files,          \* the files to recover, as sequences of bits
  BLOCK_HEADER, BLOCK_ENDMARK,   \* the two marks, sequences of L bits
  BZh9,           \* the bits of the stream header
  CrcLen,
  MinBits,        \* 130: a shorter block is not believed
  MinLast,        \* 40: the same for what follows the last mark
  BZ_MAX_HANDLED_BLOCKS,
  ByteBits,
  WordSize        \* 2^64, the values of MaybeUInt64

L == Len(BLOCK_HEADER)

Bits == {0, 1}

(* A file has fewer bits than a MaybeUInt64 can count. Two marks may        *)
(* overlap, but by less than half: 0x314159265359 and 0x177245385090 share  *)
(* at most three bits.                                                      *)
ASSUME FormatAssumption ==
  /\ Files \subseteq Seq(Bits) /\ BZh9 \in Seq(Bits)
  /\ BLOCK_HEADER \in Seq(Bits) /\ BLOCK_ENDMARK \in Seq(Bits)
  /\ Len(BLOCK_ENDMARK) = L /\ CrcLen \in 1..L /\ MinBits \in Nat /\ MinBits >= L - 1
  /\ MinLast \in Nat /\ ByteBits \in Nat \ {0} /\ BZ_MAX_HANDLED_BLOCKS \in Nat \ {0}
  /\ WordSize \in Nat /\ \A f \in Files : Len(f) < WordSize
  /\ \A m, o \in {BLOCK_HEADER, BLOCK_ENDMARK}, d \in 1..(L \div 2) :
       \E i \in 1..(L - d) : m[d + i] # o[i]

VARIABLES
  bits,          \* the damaged file
  pc,            \* "scan", "split", or how the program ended
  bitsRead, window,             \* bits read; the last L of them (buffHi, buffLo)
  currBlock, bStart, bEnd,      \* the table of everything between marks
  rbCtr, rbStart, rbEnd,        \* the table of the blocks to write
  wrBlock, blockCRC,
  bsWr,          \* the bits put into the open output file
  isOpen,        \* outFile # NULL
  files          \* history: <<wrBlock, bits>> of the files closed

scanVars  == <<currBlock, bStart, bEnd, rbCtr, rbStart, rbEnd>>
splitVars == <<wrBlock, blockCRC, bsWr, isOpen, files>>
vars == <<bits, pc, bitsRead, window, scanVars, splitVars>>

Slots == 0..BZ_MAX_HANDLED_BLOCKS   \* the last one lies behind the arrays

Init ==
  /\ bits \in Files
  /\ pc = "scan" /\ bitsRead = 0 /\ window = [i \in 1..L |-> 0]
  /\ currBlock = 0 /\ rbCtr = 0
  /\ bStart = [k \in Slots |-> 0] /\ bEnd = [k \in Slots |-> 0]
  /\ rbStart = [k \in Slots |-> 0] /\ rbEnd = [k \in Slots |-> 0]
  /\ wrBlock = 0 /\ blockCRC = <<>> /\ bsWr = <<>> /\ isOpen = FALSE /\ files = <<>>

bsGetBit       == bits[bitsRead + 1]
AtEOF          == bitsRead >= Len(bits)
Shift(b)       == Append(Tail(window), b)
Minus(x, y)    == (x - y) % WordSize
Full_Off == currBlock > BZ_MAX_HANDLED_BLOCKS   \* mutant: one too late
Full     == currBlock >= BZ_MAX_HANDLED_BLOCKS
IsMark(w)      == w \in {BLOCK_HEADER, BLOCK_ENDMARK}

------------------------------------------------------------------------------
(* Where a mark ends: the block before it ends L + 1 bits back, the next    *)
(* one begins here.                                                         *)
EndBefore_Off(read) ==  \* mutant: the mark is one bit shorter
  IF read > L + 1 THEN read - L ELSE 0
EndBefore(read) == IF read > L + 1 THEN read - (L + 1) ELSE 0

Believed(first, last) == Minus(last, first) >= MinBits

(* A store into bEnd behind its end falls into the array that follows, or   *)
(* into memory nobody uses.                                                 *)
BeyondEnd(v) == {rbStart} \cup (IF currBlock = BZ_MAX_HANDLED_BLOCKS
                                THEN {[rbStart EXCEPT ![0] = v]} ELSE {})

ScanBit ==
  /\ pc = "scan" /\ ~AtEOF
  /\ window' = Shift(bsGetBit) /\ bitsRead' = bitsRead + 1
  /\ IF ~IsMark(window') THEN UNCHANGED <<pc, scanVars>>
     ELSE LET last == EndBefore(bitsRead')
              take == currBlock > 0 /\ Believed(bStart[currBlock], last)
          IN  /\ bEnd' = [bEnd EXCEPT ![currBlock] = last]
              /\ \E r \in BeyondEnd(last) :
                   rbStart' = IF take THEN [r EXCEPT ![rbCtr] = bStart[currBlock]] ELSE r
              /\ rbEnd' = IF take THEN [rbEnd EXCEPT ![rbCtr] = last] ELSE rbEnd
              /\ rbCtr' = IF take THEN rbCtr + 1 ELSE rbCtr
              /\ IF Full
                 THEN pc' = "tooManyBlocks" /\ UNCHANGED <<currBlock, bStart>>
                 ELSE /\ currBlock' = currBlock + 1
                      /\ bStart' = [bStart EXCEPT ![currBlock + 1] = bitsRead']
                      /\ UNCHANGED pc
  /\ UNCHANGED <<bits, splitVars>>

(* The end of the file: what follows the last mark is noted, not written,   *)
(* and the file is opened again.                                            *)
ScanEnd ==
  /\ pc = "scan" /\ AtEOF
  /\ IF Minus(bitsRead + 1, bStart[currBlock]) >= MinLast
     THEN bEnd' = [bEnd EXCEPT ![currBlock] = bitsRead] /\ UNCHANGED currBlock
                                                       /\ rbStart' \in BeyondEnd(bitsRead)
     ELSE currBlock' = currBlock - 1 /\ UNCHANGED <<bEnd, rbStart>>
  /\ pc' = IF rbCtr < 1 THEN "noBlocks" ELSE "split"
  /\ bitsRead' = 0
  /\ UNCHANGED <<bits, window, bStart, rbCtr, rbEnd, splitVars>>

------------------------------------------------------------------------------
Trailer(crc) == BLOCK_ENDMARK \o crc

(* bsClose fills the last byte with zeros. *)
Padded(s) == s \o [i \in 1..((-Len(s)) % ByteBits) |-> 0]

(* One bit of the second pass: it may be the last of a CRC, goes to the     *)
(* open file, and may be the last of a block or the last before one.        *)
SplitBit ==
  LET b    == bsGetBit
      crc  == IF bitsRead = L - 1 + rbStart[wrBlock] THEN SubSeq(window', 1, CrcLen) ELSE blockCRC
      put  == IF isOpen /\ bitsRead >= rbStart[wrBlock] /\ bitsRead <= rbEnd[wrBlock]
              THEN Append(bsWr, b) ELSE bsWr
  IN
  /\ pc = "split" /\ ~AtEOF
  /\ window' = Shift(b) /\ bitsRead' = bitsRead + 1 /\ blockCRC' = crc
  /\ \/ /\ bitsRead' = rbEnd[wrBlock] + 1
        /\ files' = IF isOpen THEN Append(files, <<wrBlock, Padded(put \o Trailer(crc))>>) ELSE files
        /\ isOpen' = FALSE /\ bsWr' = <<>>
        /\ IF wrBlock >= rbCtr
           THEN pc' = "finished" /\ UNCHANGED wrBlock
           ELSE wrBlock' = wrBlock + 1 /\ UNCHANGED pc
     \/ /\ bitsRead' # rbEnd[wrBlock] + 1 /\ bitsRead' = rbStart[wrBlock]
        /\ isOpen' = TRUE /\ bsWr' = BZh9 \o BLOCK_HEADER
        /\ UNCHANGED <<pc, wrBlock, files>>
     \/ /\ bitsRead' \notin {rbEnd[wrBlock] + 1, rbStart[wrBlock]}
        /\ bsWr' = put
        /\ UNCHANGED <<pc, wrBlock, isOpen, files>>
  /\ UNCHANGED <<bits, scanVars>>

SplitEnd ==
  /\ pc = "split" /\ AtEOF
  /\ pc' = "finished"
  /\ UNCHANGED <<bits, bitsRead, window, scanVars, splitVars>>

(* readError, writeError, mallocFail, or an output file that exists. *)
Fails ==
  /\ pc \in {"scan", "split"} /\ pc' = "failed"
  /\ UNCHANGED <<bits, bitsRead, window, scanVars, splitVars>>

Next == ScanBit \/ ScanEnd \/ SplitBit \/ SplitEnd \/ Fails

Spec == Init /\ [][Next]_vars

------------------------------------------------------------------------------
(* Positions just behind the marks among the first n bits, in order. The    *)
(* window is zero at first, so a mark that begins with zeros may lack some  *)
(* at the very start of a file.                                             *)
Read       == [i \in 1..L |-> 0] \o bits
MarksIn(n) == FlattenSeq([p \in 1..n |-> IF IsMark(SubSeq(Read, p + 1, p + L)) THEN <<p>> ELSE <<>>])
Marks      == MarksIn(Len(bits))

(* What lies between the n-th mark and the next one. *)
Between(n) == SubSeq(bits, Marks[n] + 1, Marks[n + 1] - L)

(* The file for one block: a stream of that block alone, with its CRC as    *)
(* the CRC of the stream.                                                   *)
OneBlockStream(s) ==
  Padded(BZh9 \o BLOCK_HEADER \o s \o BLOCK_ENDMARK \o SubSeq(s, 1, CrcLen))

(* The files for the blocks between the first n + 1 marks. *)
Found(n) == FlattenSeq([k \in 1..n |-> IF Len(Between(k)) > MinBits
                                       THEN <<OneBlockStream(Between(k))>> ELSE <<>>])
Expected == Found(Len(Marks) - 1)

(* Every file closed is the next block between two marks, bit for bit, and  *)
(* when the program has finished none is missing, whatever the damage is,   *)
(* also where marks overlap or touch and the difference of positions wraps. *)
(* A file with as many marks as the tables hold, or more, is left to the     *)
(* next property.                                                           *)
BlocksExtracted ==
  Len(Marks) < BZ_MAX_HANDLED_BLOCKS /\ pc # "scan" =>
    LET written == [k \in 1..Len(files) |-> files[k][2]] IN
    /\ IsPrefix(written, Expected)
    /\ pc \in {"finished", "noBlocks"} => written = Expected

(* The tables at their limit: the test of currBlock comes before the        *)
(* increment and the store, so one entry behind the arrays may be touched,  *)
(* never a second, the blocks to write always have a place, and a file with *)
(* more marks than the tables hold is refused before anything is written.   *)
TooManyRefused ==
  /\ currBlock <= BZ_MAX_HANDLED_BLOCKS /\ rbCtr <= BZ_MAX_HANDLED_BLOCKS
  /\ pc # "scan" /\ Len(Marks) > BZ_MAX_HANDLED_BLOCKS
       => pc \in {"tooManyBlocks", "failed"} /\ files = <<>>
=============================================================================
