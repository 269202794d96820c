----------------------------- MODULE RecoverProofs -----------------------------
(***************************************************************************)
(* bzip2recover extracts every block between two marks, and refuses a file *)
(* with too many: proofs for every file, any two marks that overlap by     *)
(* less than half, and tables of any size.                                 *)
(*                                                                         *)
(* For the first pass the inductive invariant relates the tables to the    *)
(* marks passed so far (CountInv, ScanInv): the blocks to write, taken in  *)
(* order without those whose marks overlap, are the blocks found.  For the *)
(* second it says of the open file what it holds, and of the files closed  *)
(* that they are those of the entries before wrBlock (SplitInv).  That the *)
(* second pass meets the end of every entry it waits for rests on Entry:   *)
(* the ends are in order and never before the place where it waits.        *)
(***************************************************************************)
EXTENDS Recover, SequenceTheorems, TLAPS
LOCAL INSTANCE SequencesExt
Lemmas == INSTANCE StreamLemmas

------------------------------------------------------------------------------
(* The inductive invariant. *)

Mark(p)  == IsMark(SubSeq(Read, p + 1, p + L))
Tables   == [Slots -> Nat]

TypeInv ==
  /\ bits \in Files
  /\ pc \in {"scan", "split", "noBlocks", "tooManyBlocks", "finished", "failed"}
  /\ bitsRead \in 0..Len(bits)
  /\ window \in Seq(Bits) /\ Len(window) = L
  /\ currBlock \in -1..BZ_MAX_HANDLED_BLOCKS
  /\ bStart \in Tables /\ bEnd \in Tables /\ rbStart \in Tables /\ rbEnd \in Tables
  /\ rbCtr \in 0..BZ_MAX_HANDLED_BLOCKS /\ wrBlock \in 0..rbCtr
  /\ blockCRC \in Seq(Bits) /\ bsWr \in Seq(Bits) /\ isOpen \in BOOLEAN
  /\ files \in Seq(Nat \X Seq(Bits))

(* The window holds the bits read last. *)
WindowInv ==
  pc \in {"scan", "split"} =>
    \A i \in 1..L : bitsRead - L + i >= 1 => window[i] = bits[bitsRead - L + i]

(* In the first pass currBlock counts the marks passed so far.              *)
CountInv ==
  /\ pc = "scan" => /\ \A i \in 1..L : window[i] = Read[bitsRead + i]
                    /\ currBlock = Len(MarksIn(bitsRead))
                    /\ rbCtr = 0 \/ rbCtr < currBlock
                    /\ wrBlock = 0 /\ ~isOpen
  /\ pc \in {"scan", "noBlocks", "tooManyBlocks"} => files = <<>>
  /\ pc \in {"split", "noBlocks", "finished"} \/ files # <<>> => Len(Marks) <= BZ_MAX_HANDLED_BLOCKS

(* The table of the blocks to write: a believed block is long, or it is one *)
(* whose marks overlap, and ends before it starts.                          *)
IsLong(first, last) == last - first >= MinBits
Entry(k) ==
  /\ rbStart[k] >= 1 /\ rbEnd[k] < Len(bits)
  /\ IsLong(rbStart[k], rbEnd[k]) \/ rbEnd[k] < rbStart[k]
  /\ k > 0 => rbEnd[k - 1] < rbEnd[k] /\ rbEnd[k - 1] + 1 < rbStart[k]

(* The files for the first n entries. *)
Block(b, first, last) == SubSeq(b, first + 1, last + 1)
WrittenOf(b, start, end, n) ==
  FlattenSeq([k \in 1..n |-> IF IsLong(start[k - 1], end[k - 1])
                             THEN <<OneBlockStream(Block(b, start[k - 1], end[k - 1]))>> ELSE <<>>])
Written(n) == WrittenOf(bits, rbStart, rbEnd, n)
Closed     == [k \in 1..Len(files) |-> files[k][2]]

TableInv ==
  /\ \A k \in 0..(rbCtr - 1) : Entry(k)
  /\ \A k \in Slots : k >= rbCtr => rbStart[k] = 0 /\ rbEnd[k] = 0

ScanInv ==
  pc = "scan" =>
    /\ TableInv
    /\ currBlock = 0 => bStart[0] = 0
    /\ currBlock > 0 => /\ bStart[currBlock] \in 1..bitsRead
                        /\ bStart[currBlock] = MarksIn(bitsRead)[currBlock]
                        /\ Mark(bStart[currBlock])
                        /\ Found(currBlock - 1) = Written(rbCtr)
    /\ currBlock > 1 => 2 * bStart[currBlock] > L + 1
    /\ rbCtr > 0 => rbEnd[rbCtr - 1] <= EndBefore(bStart[currBlock])

(* In the second pass the file of block wrBlock is open from its first bit  *)
(* to its last.                                                             *)
SplitInv ==
  pc = "split" /\ Len(Marks) < BZ_MAX_HANDLED_BLOCKS =>
    /\ TableInv /\ rbCtr > 0
    /\ Written(rbCtr) = Expected
    /\ Closed = Written(wrBlock)
    /\ wrBlock < rbCtr => bitsRead <= rbEnd[wrBlock]
    /\ wrBlock > 0 => bitsRead >= rbEnd[wrBlock - 1] + 1
    /\ isOpen <=> wrBlock < rbCtr /\ rbStart[wrBlock] <= bitsRead
    /\ isOpen => /\ bsWr = BZh9 \o BLOCK_HEADER \o SubSeq(bits, rbStart[wrBlock] + 1, bitsRead)
                 /\ bitsRead >= rbStart[wrBlock] + L =>
                      blockCRC = SubSeq(bits, rbStart[wrBlock] + 1, rbStart[wrBlock] + CrcLen)

IInv == /\ TypeInv /\ WindowInv /\ CountInv /\ ScanInv /\ SplitInv
        /\ BlocksExtracted

------------------------------------------------------------------------------
(* Sequences put together from parts. *)

(* The first n parts, one after the other. *)
Joined(f, n) == FlattenSeq([k \in 1..n |-> f[k]])

LEMMA JoinedNext ==
  ASSUME NEW S, NEW f \in [Nat -> Seq(S)], NEW n \in Nat
  PROVE  /\ Joined(f, n) \in Seq(S) /\ Joined(f, 0) = <<>>
         /\ Joined(f, n + 1) = Joined(f, n) \o f[n + 1]
<1> DEFINE parts(m) == [k \in 1..m |-> f[k]]
<1>1. \A t : FlattenSeq(t) = Lemmas!Seqs!FlattenSeq(t)
  BY DEF FlattenSeq, Lemmas!Seqs!FlattenSeq
<1>2. parts(n) \in Seq(Seq(S)) /\ f[n + 1] \in Seq(S)
  OBVIOUS
<1>3. parts(n + 1) = Append(parts(n), f[n + 1])
  OBVIOUS
<1>4. parts(0) = <<>>
  OBVIOUS
<1>5. /\ Joined(f, n) = FlattenSeq(parts(n)) /\ Joined(f, n + 1) = FlattenSeq(parts(n + 1))
      /\ Joined(f, 0) = FlattenSeq(parts(0))
  BY DEF Joined
<1> HIDE DEF parts
<1> QED BY <1>1, <1>2, <1>3, <1>4, <1>5, Lemmas!FlattenEmpty, Lemmas!FlattenAppend

Begins(s, t) == Len(s) <= Len(t) /\ \A i \in 1..Len(s) : s[i] = t[i]

LEMMA BeginsConcat ==
  ASSUME NEW S, NEW s \in Seq(S), NEW t \in Seq(S), NEW u \in Seq(S), Begins(s, t)
  PROVE  Begins(s, t \o u)
<1>1. /\ Len(s) \in Nat /\ Len(t) \in Nat /\ Len(u) \in Nat
      /\ Len(s) <= Len(t) /\ \A i \in 1..Len(s) : s[i] = t[i]
  BY LenProperties DEF Begins
<1>2. Len(t \o u) = Len(t) + Len(u) /\ \A i \in 1..Len(t) : (t \o u)[i] = t[i]
  <2>1. \A i \in 1..(Len(t) + Len(u)) : (t \o u)[i] = IF i <= Len(t) THEN t[i] ELSE u[i - Len(t)]
    BY ConcatProperties
  <2>2. Len(t \o u) = Len(t) + Len(u)
    BY ConcatProperties
  <2>3. \A i \in 1..Len(t) : i \in 1..(Len(t) + Len(u)) /\ i <= Len(t)
    BY <1>1
  <2> QED BY <2>1, <2>2, <2>3
<1>3. \A i \in 1..Len(s) : i \in 1..Len(t)
  BY <1>1
<1>4. Len(s) <= Len(t \o u)
  BY <1>1, <1>2
<1>5. \A i \in 1..Len(s) : s[i] = (t \o u)[i]
  BY <1>1, <1>2, <1>3
<1> QED BY <1>4, <1>5 DEF Begins

(* Fewer parts are a beginning of more. *)
LEMMA JoinedBegins ==
  ASSUME NEW S, NEW f \in [Nat -> Seq(S)], NEW n \in Nat, NEW m \in Nat, n <= m
  PROVE  Begins(Joined(f, n), Joined(f, m))
<1> DEFINE T == {d \in Nat : Begins(Joined(f, n), Joined(f, n + d))}
<1>0. \A d \in Nat : Joined(f, n + d) \in Seq(S) /\ Joined(f, n + (d + 1)) = Joined(f, n + d) \o f[(n + d) + 1]
  <2> TAKE d \in Nat
  <2>1. n + d \in Nat /\ n + (d + 1) = (n + d) + 1
    OBVIOUS
  <2> QED BY <2>1, JoinedNext
<1>1. 0 \in T
  <2>1. n + 0 = n /\ 0 \in Nat /\ Len(Joined(f, n)) <= Len(Joined(f, n))
    BY <1>0, LenProperties
  <2> QED BY <2>1 DEF Begins
<1>2. ASSUME NEW d \in Nat, d \in T PROVE d + 1 \in T
  <2>0. (n + d) + 1 \in Nat
    OBVIOUS
  <2>1. Joined(f, n) \in Seq(S) /\ f[(n + d) + 1] \in Seq(S)
    BY <2>0, JoinedNext
  <2>2. Begins(Joined(f, n), Joined(f, n + d))
    BY <1>2
  <2>3. Begins(Joined(f, n), Joined(f, n + (d + 1)))
    BY <1>0, <2>1, <2>2, BeginsConcat
  <2> QED BY <2>3
<1>3. m - n \in T
  <2> HIDE DEF T
  <2>1. \A d \in Nat : d \in T
    BY <1>1, <1>2, Lemmas!SetInduction
  <2> QED BY <2>1
<1> QED BY <1>3

LEMMA BeginsPrefix ==
  ASSUME NEW S, NEW s \in Seq(S), NEW t \in Seq(S), Begins(s, t)
  PROVE  IsPrefix(s, t)
<1> DEFINE n == Len(s)
<1>1. n \in Nat /\ n <= Len(t) /\ \A i \in 1..n : s[i] = t[i] /\ s[i] \in S
  BY LenProperties, ElementOfSeq DEF Begins
<1> HIDE DEF n
<1>2. /\ SubSeq(s, 1, n) \in Seq(S) /\ SubSeq(t, 1, n) \in Seq(S)
      /\ Len(SubSeq(s, 1, n)) = Len(SubSeq(t, 1, n))
      /\ Len(SubSeq(s, 1, n)) = n
      /\ \A i \in 1..n : SubSeq(s, 1, n)[i] = SubSeq(t, 1, n)[i]
  BY <1>1, SubSeqProperties
<1>3. SubSeq(s, 1, n) = SubSeq(t, 1, n)
  BY <1>2, SeqEqual
<1> QED BY <1>1, <1>3 DEF n, IsPrefix

------------------------------------------------------------------------------
(* The bits of the file, the window and the marks. *)

LEMMA Sizes ==
  /\ L \in Nat /\ L >= 1 /\ CrcLen \in 1..L /\ MinBits \in Nat /\ MinBits >= L - 1
  /\ BZ_MAX_HANDLED_BLOCKS \in Nat /\ BZ_MAX_HANDLED_BLOCKS >= 1
  /\ BLOCK_HEADER \in Seq(Bits) /\ BLOCK_ENDMARK \in Seq(Bits) /\ BZh9 \in Seq(Bits)
  /\ Len(BLOCK_HEADER) = L /\ Len(BLOCK_ENDMARK) = L
<1>1. L \in Nat
  BY FormatAssumption DEF L
<1> QED BY <1>1, FormatAssumption DEF L

LEMMA FileBits ==
  ASSUME bits \in Files
  PROVE  /\ bits \in Seq(Bits) /\ Len(bits) \in Nat /\ Len(bits) < WordSize
         /\ \A i \in 1..Len(bits) : bits[i] \in Bits
<1>1. bits \in Seq(Bits) /\ Len(bits) < WordSize
  BY FormatAssumption
<1> QED BY <1>1, LenProperties, ElementOfSeq

LEMMA ReadFacts ==
  ASSUME bits \in Files
  PROVE  /\ Read \in Seq(Bits) /\ Len(Read) = L + Len(bits)
         /\ \A i \in 1..L : Read[i] = 0
         /\ \A i \in 1..Len(bits) : Read[L + i] = bits[i]
         /\ \A i \in 1..(L + Len(bits)) : Read[i] \in Bits
<1> DEFINE zeros == [i \in 1..L |-> 0]
<1>1. zeros \in Seq(Bits) /\ Len(zeros) = L /\ \A i \in 1..L : zeros[i] = 0
  BY Sizes DEF Bits
<1>2. bits \in Seq(Bits) /\ Len(bits) \in Nat /\ L \in Nat
  BY FileBits, Sizes
<1>3. Read = zeros \o bits
  BY DEF Read
<1> HIDE DEF zeros
<1>4. /\ Read \in Seq(Bits) /\ Len(Read) = L + Len(bits)
      /\ \A i \in 1..(L + Len(bits)) : Read[i] = IF i <= L THEN zeros[i] ELSE bits[i - L]
  BY <1>1, <1>2, <1>3, ConcatProperties
<1>5. \A i \in 1..L : Read[i] = 0
  BY <1>1, <1>2, <1>4
<1>6. \A i \in 1..Len(bits) : Read[L + i] = bits[i]
  <2> TAKE i \in 1..Len(bits)
  <2>1. L + i \in 1..(L + Len(bits)) /\ ~(L + i <= L) /\ (L + i) - L = i
    BY <1>2
  <2> QED BY <1>4, <2>1
<1>7. \A i \in 1..(L + Len(bits)) : Read[i] \in Bits
  <2> TAKE i \in 1..(L + Len(bits))
  <2>1. i \in 1..Len(Read)
    BY <1>4
  <2> QED BY <1>4, <2>1, ElementOfSeq
<1> QED BY <1>4, <1>5, <1>6, <1>7

(* Bits joined to bits, in either grouping. *)
LEMMA Regroup ==
  \A a, b, c \in Seq(Bits) : (a \o b) \o c = a \o (b \o c)
BY ConcatAssociative

(* The L bits before position p, those before the file being zero. *)
LastBits(p) == SubSeq(Read, p + 1, p + L)

LEMMA LastFacts ==
  ASSUME bits \in Files, NEW p \in 0..Len(bits)
  PROVE  /\ LastBits(p) \in Seq(Bits) /\ Len(LastBits(p)) = L
         /\ \A i \in 1..L : LastBits(p)[i] = Read[p + i]
         /\ Mark(p) <=> IsMark(LastBits(p))
<1>1. Len(bits) \in Nat /\ p \in Nat /\ p <= Len(bits) /\ L \in Nat /\ L >= 1
  BY FileBits, Sizes
<1>2. \A i \in (p + 1)..(p + L) : Read[i] \in Bits
  BY <1>1, ReadFacts
<1>3. /\ LastBits(p) \in Seq(Bits) /\ Len(LastBits(p)) = IF p + 1 <= p + L THEN (p + L) - (p + 1) + 1 ELSE 0
      /\ \A i \in 1..((p + L) - (p + 1) + 1) : LastBits(p)[i] = Read[(p + 1) + i - 1]
  <2>1. p + 1 \in Int /\ p + L \in Int
    BY <1>1
  <2> QED BY <1>2, <2>1, SubSeqProperties DEF LastBits
<1>4. Len(LastBits(p)) = L
  BY <1>1, <1>3
<1>5. \A i \in 1..L : LastBits(p)[i] = Read[p + i]
  <2> TAKE i \in 1..L
  <2>1. i \in 1..((p + L) - (p + 1) + 1) /\ (p + 1) + i - 1 = p + i
    BY <1>1
  <2> QED BY <1>3, <2>1
<1> QED BY <1>3, <1>4, <1>5 DEF Mark, LastBits

(* The window moves on by one bit. *)
LEMMA ShiftFacts ==
  ASSUME NEW w \in Seq(Bits), Len(w) = L, NEW b \in Bits
  PROVE  /\ Append(Tail(w), b) \in Seq(Bits) /\ Len(Append(Tail(w), b)) = L
         /\ \A i \in 1..(L - 1) : Append(Tail(w), b)[i] = w[i + 1]
         /\ Append(Tail(w), b)[L] = b
<1>1. L \in Nat /\ L >= 1 /\ w # <<>>
  BY Sizes, EmptySeq
<1>2. Tail(w) \in Seq(Bits) /\ Len(Tail(w)) = L - 1 /\ \A i \in 1..(L - 1) : Tail(w)[i] = w[i + 1]
  BY <1>1, HeadTailProperties
<1>3. /\ Append(Tail(w), b) \in Seq(Bits) /\ Len(Append(Tail(w), b)) = (L - 1) + 1
      /\ \A i \in 1..(L - 1) : Append(Tail(w), b)[i] = Tail(w)[i]
      /\ Append(Tail(w), b)[(L - 1) + 1] = b
  BY <1>2, AppendProperties
<1>4. (L - 1) + 1 = L
  BY <1>1
<1> QED BY <1>2, <1>3, <1>4

(* Two marks of a file are more than half a mark apart. *)
LEMMA MarksApart ==
  ASSUME bits \in Files, NEW p \in 0..Len(bits), NEW q \in 0..Len(bits), p < q, Mark(p), Mark(q)
  PROVE  2 * (q - p) > L
<1> SUFFICES ASSUME ~(2 * (q - p) > L) PROVE FALSE
  OBVIOUS
<1> DEFINE d == q - p
<1>1. L \in Nat /\ Len(bits) \in Nat
  BY Sizes, FileBits
<1>2. d \in Nat /\ d >= 1 /\ 2 * d <= L /\ p + d = q
  BY <1>1
<1>3. LastBits(p) \in {BLOCK_HEADER, BLOCK_ENDMARK} /\ LastBits(q) \in {BLOCK_HEADER, BLOCK_ENDMARK}
  BY LastFacts DEF IsMark
<1> HIDE DEF d
<1>4. d \in 1..(L \div 2)
  BY <1>1, <1>2
<1>5. PICK i \in 1..(L - d) : LastBits(p)[d + i] # LastBits(q)[i]
  <2>1. \A m, o \in {BLOCK_HEADER, BLOCK_ENDMARK}, e \in 1..(L \div 2) :
          \E i \in 1..(L - e) : m[e + i] # o[i]
    BY FormatAssumption
  <2> DEFINE half == L \div 2  marks == {BLOCK_HEADER, BLOCK_ENDMARK}
  <2>2. \A m, o \in marks, e \in 1..half : \E i \in 1..(L - e) : m[e + i] # o[i]
    BY <2>1
  <2>3. LastBits(p) \in marks /\ LastBits(q) \in marks /\ d \in 1..half
    BY <1>3, <1>4
  <2> HIDE DEF half, marks
  <2> QED BY <2>2, <2>3
<1>6. d + i \in 1..L /\ i \in 1..L /\ p + (d + i) = q + i
  BY <1>1, <1>2
<1>7. LastBits(p)[d + i] = Read[p + (d + i)] /\ LastBits(q)[i] = Read[q + i]
  <2>1. \A j \in 1..L : LastBits(p)[j] = Read[p + j]
    BY LastFacts
  <2>2. \A j \in 1..L : LastBits(q)[j] = Read[q + j]
    BY LastFacts
  <2> QED BY <1>6, <2>1, <2>2
<1> QED BY <1>5, <1>6, <1>7

(* Of one bit more, and of more bits. *)
LEMMA MarksNext ==
  ASSUME NEW n \in Nat
  PROVE  /\ MarksIn(n) \in Seq(Nat) /\ MarksIn(0) = <<>>
         /\ MarksIn(n + 1) = IF Mark(n + 1) THEN Append(MarksIn(n), n + 1) ELSE MarksIn(n)
         /\ \A m \in Nat : n <= m => Begins(MarksIn(n), MarksIn(m))
<1> DEFINE at == [p \in Nat |-> IF Mark(p) THEN <<p>> ELSE <<>>]
<1>1. at \in [Nat -> Seq(Nat)]
  OBVIOUS
<1>2. \A m \in Nat : MarksIn(m) = Joined(at, m)
  <2> TAKE m \in Nat
  <2>1. [p \in 1..m |-> IF Mark(p) THEN <<p>> ELSE <<>>] = [p \in 1..m |-> at[p]]
    OBVIOUS
  <2> HIDE DEF at
  <2> QED BY <2>1 DEF MarksIn, Joined, Mark
<1>3. at[n + 1] = IF Mark(n + 1) THEN <<n + 1>> ELSE <<>>
  OBVIOUS
<1> HIDE DEF at
<1>4. /\ Joined(at, n) \in Seq(Nat) /\ Joined(at, 0) = <<>>
      /\ Joined(at, n + 1) = Joined(at, n) \o at[n + 1]
  BY <1>1, JoinedNext
<1>5. MarksIn(n) \in Seq(Nat) /\ MarksIn(0) = <<>>
  BY <1>2, <1>4
<1>6. MarksIn(n + 1) = IF Mark(n + 1) THEN Append(MarksIn(n), n + 1) ELSE MarksIn(n)
  <2>0. n + 1 \in Nat
    OBVIOUS
  <2>1. MarksIn(n + 1) = MarksIn(n) \o at[n + 1]
    BY <1>2, <1>4, <2>0
  <2>2. MarksIn(n) \o <<n + 1>> = Append(MarksIn(n), n + 1) /\ MarksIn(n) \o <<>> = MarksIn(n)
    BY <1>5, AppendIsConcat, ConcatEmptySeq
  <2> QED BY <1>3, <2>1, <2>2
<1>7. \A m \in Nat : n <= m => Begins(MarksIn(n), MarksIn(m))
  BY <1>1, <1>2, JoinedBegins
<1> QED BY <1>5, <1>6, <1>7

LEMMA MarksInFile ==
  ASSUME bits \in Files
  PROVE  \A n \in 0..Len(bits) :
           /\ MarksIn(n) \in Seq(Nat) /\ Len(MarksIn(n)) \in 0..Len(Marks)
           /\ \A i \in 1..Len(MarksIn(n)) : MarksIn(n)[i] = Marks[i]
<1>1. Len(bits) \in Nat
  BY FileBits
<1> SUFFICES ASSUME NEW n \in 0..Len(bits)
             PROVE  /\ MarksIn(n) \in Seq(Nat) /\ Len(MarksIn(n)) \in 0..Len(Marks)
                    /\ \A i \in 1..Len(MarksIn(n)) : MarksIn(n)[i] = Marks[i]
  OBVIOUS
<1>2. MarksIn(n) \in Seq(Nat) /\ Begins(MarksIn(n), MarksIn(Len(bits))) /\ MarksIn(Len(bits)) \in Seq(Nat)
  BY <1>1, MarksNext
<1>3. Len(MarksIn(n)) \in Nat /\ Len(MarksIn(Len(bits))) \in Nat
  BY <1>2, LenProperties
<1> QED BY <1>2, <1>3 DEF Begins, Marks

LEMMA FoundNext ==
  ASSUME NEW n \in Nat
  PROVE  /\ Found(0) = <<>> /\ Len(Found(n)) \in Nat
         /\ Found(n + 1) = IF Len(Between(n + 1)) > MinBits
                           THEN Append(Found(n), OneBlockStream(Between(n + 1))) ELSE Found(n)
<1> DEFINE stream(k) == OneBlockStream(Between(k))
           long(k)   == Len(Between(k)) > MinBits
           S  == {stream(k) : k \in Nat}
           at == [k \in Nat |-> IF long(k) THEN <<stream(k)>> ELSE <<>>]
<1>1. \A m \in Nat : Found(m) = FlattenSeq([k \in 1..m |-> IF long(k) THEN <<stream(k)>> ELSE <<>>])
  BY DEF Found
<1>a. stream(n + 1) = OneBlockStream(Between(n + 1)) /\ (long(n + 1) <=> Len(Between(n + 1)) > MinBits)
  OBVIOUS
<1> HIDE DEF stream, long
<1>2. at \in [Nat -> Seq(S)]
  <2>1. \A k \in Nat : stream(k) \in S
    OBVIOUS
  <2> HIDE DEF S
  <2> QED BY <2>1
<1>3. \A m \in Nat : Found(m) = Joined(at, m)
  <2> TAKE m \in Nat
  <2>1. [k \in 1..m |-> IF long(k) THEN <<stream(k)>> ELSE <<>>] = [k \in 1..m |-> at[k]]
    OBVIOUS
  <2> HIDE DEF at
  <2> QED BY <1>1, <2>1 DEF Joined
<1>4. at[n + 1] = (IF long(n + 1) THEN <<stream(n + 1)>> ELSE <<>>) /\ stream(n + 1) \in S /\ n + 1 \in Nat
  OBVIOUS
<1> HIDE DEF at, S
<1>5. /\ Joined(at, n) \in Seq(S) /\ Joined(at, 0) = <<>>
      /\ Joined(at, n + 1) = Joined(at, n) \o at[n + 1]
  BY <1>2, JoinedNext
<1>6. /\ Joined(at, n) \o <<stream(n + 1)>> = Append(Joined(at, n), stream(n + 1))
      /\ Joined(at, n) \o <<>> = Joined(at, n)
  BY <1>4, <1>5, AppendIsConcat, ConcatEmptySeq
<1>7. Found(n + 1) = IF long(n + 1) THEN Append(Found(n), stream(n + 1)) ELSE Found(n)
  BY <1>3, <1>4, <1>5, <1>6
<1>8. Found(0) = <<>> /\ Len(Found(n)) \in Nat
  BY <1>3, <1>5, LenProperties
<1> QED BY <1>7, <1>8, <1>a

LEMMA WrittenNext ==
  ASSUME NEW b, NEW start, NEW end, NEW n \in Nat
  PROVE  LET written(m) == WrittenOf(b, start, end, m)
         IN  /\ written(0) = <<>>
             /\ written(n + 1) = IF IsLong(start[n], end[n])
                                 THEN Append(written(n), OneBlockStream(Block(b, start[n], end[n])))
                                 ELSE written(n)
             /\ \A m \in Nat : n <= m => IsPrefix(written(n), written(m))
<1> DEFINE written(m) == WrittenOf(b, start, end, m)
           stream(k) == OneBlockStream(Block(b, start[k - 1], end[k - 1]))
           long(k)   == IsLong(start[k - 1], end[k - 1])
           S  == {stream(k) : k \in Nat}
           at == [k \in Nat |-> IF long(k) THEN <<stream(k)>> ELSE <<>>]
<1>1. \A m \in Nat : written(m) = FlattenSeq([k \in 1..m |-> IF long(k) THEN <<stream(k)>> ELSE <<>>])
  BY DEF WrittenOf
<1> HIDE DEF written
<1>a. /\ stream(n + 1) = OneBlockStream(Block(b, start[n], end[n]))
      /\ long(n + 1) <=> IsLong(start[n], end[n])
  <2>1. (n + 1) - 1 = n
    OBVIOUS
  <2> QED BY <2>1
<1> HIDE DEF stream, long
<1>2. at \in [Nat -> Seq(S)]
  <2>1. \A k \in Nat : stream(k) \in S
    OBVIOUS
  <2> HIDE DEF S
  <2> QED BY <2>1
<1>3. \A m \in Nat : written(m) = Joined(at, m)
  <2> TAKE m \in Nat
  <2>1. [k \in 1..m |-> IF long(k) THEN <<stream(k)>> ELSE <<>>] = [k \in 1..m |-> at[k]]
    OBVIOUS
  <2> HIDE DEF at
  <2> QED BY <1>1, <2>1 DEF Joined
<1>4. at[n + 1] = (IF long(n + 1) THEN <<stream(n + 1)>> ELSE <<>>) /\ stream(n + 1) \in S /\ n + 1 \in Nat
  OBVIOUS
<1> HIDE DEF at, S
<1>5. /\ Joined(at, n) \in Seq(S) /\ Joined(at, 0) = <<>>
      /\ Joined(at, n + 1) = Joined(at, n) \o at[n + 1]
  BY <1>2, JoinedNext
<1>6. /\ Joined(at, n) \o <<stream(n + 1)>> = Append(Joined(at, n), stream(n + 1))
      /\ Joined(at, n) \o <<>> = Joined(at, n)
  BY <1>4, <1>5, AppendIsConcat, ConcatEmptySeq
<1>7. written(n + 1) = IF long(n + 1) THEN Append(written(n), stream(n + 1)) ELSE written(n)
  BY <1>3, <1>4, <1>5, <1>6
<1>8. written(0) = <<>>
  BY <1>3, <1>5
<1>9. \A m \in Nat : n <= m => IsPrefix(written(n), written(m))
  <2> SUFFICES ASSUME NEW m \in Nat, n <= m PROVE IsPrefix(written(n), written(m))
    OBVIOUS
  <2>1. Begins(Joined(at, n), Joined(at, m)) /\ Joined(at, m) \in Seq(S)
    BY <1>2, JoinedBegins, JoinedNext
  <2>2. IsPrefix(Joined(at, n), Joined(at, m))
    BY <1>5, <2>1, BeginsPrefix
  <2> QED BY <1>3, <2>2
<1> QED BY <1>7, <1>8, <1>9, <1>a DEF written

(* What other entries hold does not matter. *)
LEMMA WrittenSame ==
  ASSUME NEW b, NEW start, NEW end, NEW start2, NEW end2, NEW n \in Nat,
         \A k \in 0..(n - 1) : start2[k] = start[k] /\ end2[k] = end[k]
  PROVE  WrittenOf(b, start2, end2, n) = WrittenOf(b, start, end, n)
<1> DEFINE part(f, l) == IF IsLong(f, l) THEN <<OneBlockStream(Block(b, f, l))>> ELSE <<>>
<1>1. /\ WrittenOf(b, start, end, n) = FlattenSeq([k \in 1..n |-> part(start[k - 1], end[k - 1])])
      /\ WrittenOf(b, start2, end2, n) = FlattenSeq([k \in 1..n |-> part(start2[k - 1], end2[k - 1])])
  BY DEF WrittenOf
<1> HIDE DEF part
<1>2. \A k \in 1..n : k - 1 \in 0..(n - 1)
  OBVIOUS
<1>3. [k \in 1..n |-> part(start[k - 1], end[k - 1])] = [k \in 1..n |-> part(start2[k - 1], end2[k - 1])]
  BY <1>2
<1> QED BY <1>1, <1>3

------------------------------------------------------------------------------
(* Positions. *)

LEMMA SameFile ==
  ASSUME bits' = bits
  PROVE  /\ Read' = Read /\ Marks' = Marks /\ Expected' = Expected
         /\ \A n : MarksIn(n)' = MarksIn(n) /\ Found(n)' = Found(n) /\ Mark(n)' = Mark(n)
BY DEF Read, Marks, MarksIn, Expected, Found, Mark, Between

LEMMA ModSmall == \A d \in Nat : d < WordSize => d % WordSize = d
<1>1. WordSize \in Nat
  BY FormatAssumption
<1>2. \A d, n \in Nat : d < n => d % n = d
  OBVIOUS
<1> QED BY <1>1, <1>2

(* A block that is not believed is short; a believed one is long, or ends   *)
(* before it starts.                                                        *)
LEMMA BelievedMeans ==
  ASSUME NEW first \in Nat, NEW last \in Nat, last < WordSize
  PROVE  IF Believed(first, last) THEN IsLong(first, last) \/ last < first ELSE ~IsLong(first, last)
<1>1. MinBits \in Nat /\ WordSize \in Nat
  BY FormatAssumption
<1>2. CASE last < first
  BY <1>1, <1>2 DEF IsLong
<1>3. CASE ~(last < first)
  <2> DEFINE d == last - first
  <2>1. d \in Nat /\ d < WordSize
    BY <1>1, <1>3
  <2>2. Believed(first, last) <=> d % WordSize >= MinBits
    BY DEF Believed, Minus
  <2>3. IsLong(first, last) <=> d >= MinBits
    BY DEF IsLong
  <2> HIDE DEF d
  <2>4. d % WordSize = d
    BY <2>1, ModSmall
  <2> QED BY <2>2, <2>3, <2>4
<1> QED BY <1>2, <1>3

(* Where the block before a mark at p ends. *)
LEMMA EndBeforeFacts ==
  ASSUME NEW p \in Nat, p >= 1
  PROVE  /\ EndBefore(p) \in Nat /\ EndBefore(p) < p
         /\ p > L + 1 => EndBefore(p) = p - (L + 1)
         /\ p <= L + 1 => EndBefore(p) = 0
         /\ \A q \in Nat : q < p => EndBefore(q) <= EndBefore(p)
BY Sizes DEF EndBefore

(* The bits from q up to p - l, in numbers: how many there are, and the last *)
(* of them, which lies one before the mark.                                  *)
LEMMA BetweenNumbers ==
  \A p, q, l, m \in Nat :
    /\ (IF q + 1 <= p - l THEN (p - l) - (q + 1) + 1 ELSE 0) > m <=> (p - l) - q > m
    /\ (p - (l + 1)) - q >= m <=> (p - l) - q > m
    /\ (p - (l + 1)) + 1 = p - l
    /\ q >= 1 /\ p <= l + 1 => ~(0 - q >= m) /\ ~((p - l) - q > m)
OBVIOUS

(* A piece cut out up to the mark is the block that ends before it.         *)
LEMMA PieceIsBlock ==
  ASSUME bits \in Files, NEW q \in 1..Len(bits), NEW p \in 1..Len(bits),
         NEW piece, piece = SubSeq(bits, q + 1, p - L)
  PROVE  /\ Len(piece) > MinBits <=> IsLong(q, EndBefore(p))
         /\ IsLong(q, EndBefore(p)) => piece = Block(bits, q, EndBefore(p))
<1>1. /\ Len(bits) \in Nat /\ L \in Nat /\ MinBits \in Nat /\ p \in Nat /\ q \in Nat
      /\ p >= 1 /\ q >= 1
  BY FileBits, Sizes
<1>2. Len(piece) = IF q + 1 <= p - L THEN (p - L) - (q + 1) + 1 ELSE 0
  <2>1. \A i \in (q + 1)..(p - L) : bits[i] \in Bits
    BY <1>1, FileBits
  <2>2. q + 1 \in Int /\ p - L \in Int
    BY <1>1
  <2> QED BY <2>1, <2>2, SubSeqProperties
<1>3. Len(piece) > MinBits <=> (p - L) - q > MinBits
  <2>1. (IF q + 1 <= p - L THEN (p - L) - (q + 1) + 1 ELSE 0) > MinBits <=> (p - L) - q > MinBits
    BY <1>1, BetweenNumbers
  <2> QED BY <1>2, <2>1
<1>4. CASE p > L + 1
  <2>1. EndBefore(p) = p - (L + 1)
    BY <1>1, <1>4, EndBeforeFacts
  <2>2. (p - (L + 1)) - q >= MinBits <=> (p - L) - q > MinBits
    BY <1>1, BetweenNumbers
  <2>3. (p - (L + 1)) + 1 = p - L
    BY <1>1, BetweenNumbers
  <2>4. IsLong(q, EndBefore(p)) <=> (p - L) - q > MinBits
    BY <2>1, <2>2 DEF IsLong
  <2>5. Block(bits, q, EndBefore(p)) = piece
    BY <2>1, <2>3 DEF Block
  <2> QED BY <1>3, <2>4, <2>5
<1>5. CASE ~(p > L + 1)
  <2>1. p <= L + 1
    BY <1>1, <1>5
  <2>2. EndBefore(p) = 0
    BY <1>1, <2>1, EndBeforeFacts
  <2>3. ~(0 - q >= MinBits) /\ ~((p - L) - q > MinBits)
    BY <1>1, <2>1, BetweenNumbers
  <2>4. ~IsLong(q, EndBefore(p))
    BY <2>2, <2>3 DEF IsLong
  <2> QED BY <1>3, <2>3, <2>4
<1> QED BY <1>4, <1>5

LEMMA BetweenFacts ==
  ASSUME bits \in Files, NEW n \in 1..(Len(Marks) - 1), NEW q, NEW p, q = Marks[n], p = Marks[n + 1],
         q \in 1..Len(bits), p \in 1..Len(bits), q < p
  PROVE  /\ Len(Between(n)) > MinBits <=> IsLong(q, EndBefore(p))
         /\ IsLong(q, EndBefore(p)) => Between(n) = Block(bits, q, EndBefore(p))
<1>1. Between(n) = SubSeq(bits, q + 1, p - L)
  BY DEF Between
<1>2. bits \in Files /\ q \in 1..Len(bits) /\ p \in 1..Len(bits)
  OBVIOUS
<1> QED BY <1>1, <1>2, PieceIsBlock

LEMMA ExpectedIs ==
  ASSUME bits \in Files
  PROVE  /\ Len(Marks) \in Nat
         /\ Len(Marks) = 0 => Expected = <<>>
         /\ IsPrefix(<<>>, Expected)
<1>1. Len(bits) \in Nat
  BY FileBits
<1>2. Len(Marks) \in Nat
  <2>1. MarksIn(Len(bits)) \in Seq(Nat)
    BY <1>1, MarksNext
  <2> QED BY <2>1, LenProperties DEF Marks
<1>3. ASSUME Len(Marks) = 0 PROVE Expected = <<>>
  <2> DEFINE part(k) == IF Len(Between(k)) > MinBits THEN <<OneBlockStream(Between(k))>> ELSE <<>>
  <2>1. Expected = FlattenSeq([k \in 1..(0 - 1) |-> part(k)])
    BY <1>3 DEF Expected, Found
  <2> HIDE DEF part
  <2>2. [k \in 1..(0 - 1) |-> part(k)] = <<>>
    OBVIOUS
  <2>3. FlattenSeq(<<>>) = <<>>
    BY EmptySeq DEF FlattenSeq
  <2> QED BY <2>1, <2>2, <2>3
<1>4. Len(Expected) \in Nat
  <2>1. CASE Len(Marks) = 0
    BY <1>3, <2>1
  <2>2. CASE Len(Marks) # 0
    <3>1. Len(Marks) - 1 \in Nat
      BY <1>2, <2>2
    <3> QED BY <3>1, FoundNext DEF Expected
  <2> QED BY <2>1, <2>2
<1>5. IsPrefix(<<>>, Expected)
  <2>1. Len(<<>>) = 0 /\ SubSeq(<<>>, 1, 0) = <<>> /\ SubSeq(Expected, 1, 0) = <<>>
    BY SubSeqEmpty
  <2> QED BY <1>4, <2>1 DEF IsPrefix
<1> QED BY <1>2, <1>3, <1>5

------------------------------------------------------------------------------
(* The first pass. *)

LEMMA InitIInv == Init => IInv
<1> SUFFICES ASSUME Init PROVE IInv
  OBVIOUS
<1>1. bits \in Files /\ Len(bits) \in Nat /\ 0 \in Bits
  BY FileBits DEF Init, Bits
<1>2. MarksIn(0) = <<>> /\ Len(<<>>) = 0
  BY MarksNext
<1>3. window \in Seq(Bits) /\ Len(window) = L /\ \A i \in 1..L : window[i] = 0
  BY Sizes DEF Init, Bits
<1>4. TypeInv
  <2>1. bStart \in Tables /\ bEnd \in Tables /\ rbStart \in Tables /\ rbEnd \in Tables
    BY DEF Init, Tables
  <2>2. blockCRC \in Seq(Bits) /\ bsWr \in Seq(Bits) /\ files \in Seq(Nat \X Seq(Bits))
    BY EmptySeq DEF Init
  <2>3. 0 \in 0..Len(bits) /\ 0 \in -1..BZ_MAX_HANDLED_BLOCKS /\ 0 \in 0..BZ_MAX_HANDLED_BLOCKS
        /\ 0 \in 0..0
    BY <1>1, Sizes
  <2>4. /\ bitsRead \in 0..Len(bits) /\ currBlock \in -1..BZ_MAX_HANDLED_BLOCKS
        /\ rbCtr \in 0..BZ_MAX_HANDLED_BLOCKS /\ wrBlock \in 0..rbCtr
        /\ pc = "scan" /\ isOpen \in BOOLEAN
    BY <2>3 DEF Init
  <2> QED BY <1>1, <1>3, <2>1, <2>2, <2>4 DEF TypeInv
<1>5. WindowInv
  BY <1>1, Sizes DEF Init, WindowInv
<1>6. CountInv
  <2>1. \A i \in 1..L : Read[0 + i] = 0
    BY <1>1, ReadFacts, Sizes
  <2> QED BY <1>2, <1>3, <2>1 DEF Init, CountInv
<1>7. ScanInv
  BY Sizes DEF Init, ScanInv, TableInv, Slots
<1> QED BY <1>4, <1>5, <1>6, <1>7 DEF Init, IInv, SplitInv, BlocksExtracted

(* What the first pass knows before a bit. *)
Scanning == IInv /\ pc = "scan"

(* One bit more in the window, whichever the pass. *)
LEMMA WindowMoves ==
  ASSUME IInv, ~AtEOF, window' = Shift(bsGetBit), bitsRead' = bitsRead + 1, bits' = bits
  PROVE  /\ bitsRead' \in 1..Len(bits) /\ window' \in Seq(Bits) /\ Len(window') = L
         /\ \A i \in 1..(L - 1) : window'[i] = window[i + 1]
         /\ window'[L] = bits[bitsRead']
         /\ pc \in {"scan", "split"} =>
              \A i \in 1..L : bitsRead' - L + i >= 1 => window'[i] = bits[bitsRead' - L + i]
<1>1. /\ bits \in Files /\ bitsRead \in 0..Len(bits) /\ window \in Seq(Bits) /\ Len(window) = L
      /\ Len(bits) \in Nat /\ L \in Nat /\ L >= 1
  BY FileBits, Sizes DEF IInv, TypeInv
<1>2. bitsRead' \in 1..Len(bits) /\ bitsRead' \in Nat
  BY <1>1 DEF AtEOF
<1>3. bsGetBit \in Bits /\ bsGetBit = bits[bitsRead']
  BY <1>1, <1>2, FileBits DEF bsGetBit
<1>4. /\ window' \in Seq(Bits) /\ Len(window') = L
      /\ \A i \in 1..(L - 1) : window'[i] = window[i + 1]
      /\ window'[L] = bits[bitsRead']
  BY <1>1, <1>3, ShiftFacts DEF Shift
<1>5. ASSUME pc \in {"scan", "split"}, NEW i \in 1..L, bitsRead' - L + i >= 1
      PROVE  window'[i] = bits[bitsRead' - L + i]
  <2> DEFINE p == bitsRead'
  <2>1. p \in Nat /\ p = bitsRead + 1
    BY <1>2
  <2>2. CASE i = L
    <3>1. p - L + i = p
      BY <1>1, <2>1, <2>2
    <3> QED BY <1>4, <2>2, <3>1
  <2>3. CASE i # L
    <3>1. i \in 1..(L - 1) /\ i + 1 \in 1..L /\ bitsRead \in Nat
      BY <1>1, <2>3
    <3> HIDE DEF p
    <3>2. bitsRead - L + (i + 1) = p - L + i
      BY <1>1, <2>1, <3>1
    <3>3. bitsRead - L + (i + 1) >= 1
      BY <1>5, <3>2 DEF p
    <3>4. window[i + 1] = bits[bitsRead - L + (i + 1)]
      BY <1>5, <3>1, <3>3 DEF IInv, WindowInv
    <3> QED BY <1>4, <3>1, <3>2, <3>4 DEF p
  <2> QED BY <2>2, <2>3
<1> QED BY <1>2, <1>4, <1>5

(* In the first pass the window also holds the zeros before the file.       *)
LEMMA ScanWindow ==
  ASSUME Scanning, ScanBit
  PROVE  /\ \A i \in 1..L : window'[i] = Read[bitsRead' + i]
         /\ IsMark(window') <=> Mark(bitsRead')
<1> DEFINE p == bitsRead'
<1>1. /\ bits \in Files /\ bitsRead \in 0..Len(bits) /\ Len(bits) \in Nat /\ L \in Nat /\ L >= 1
      /\ pc = "scan"
  BY FileBits, Sizes DEF Scanning, IInv, TypeInv
<1>2. /\ p \in 1..Len(bits) /\ window' \in Seq(Bits) /\ Len(window') = L
      /\ \A i \in 1..(L - 1) : window'[i] = window[i + 1]
      /\ window'[L] = bits[p]
  <2>1. /\ IInv /\ ~AtEOF /\ window' = Shift(bsGetBit) /\ bitsRead' = bitsRead + 1 /\ bits' = bits
    BY DEF Scanning, ScanBit
  <2> QED BY <2>1, WindowMoves
<1>3. p = bitsRead + 1
  BY DEF ScanBit
<1> HIDE DEF p
<1>4. ASSUME NEW i \in 1..L PROVE window'[i] = Read[p + i]
  <2>1. CASE i = L
    <3>1. Read[L + p] = bits[p] /\ p + i = L + p
      BY <1>1, <1>2, <2>1, ReadFacts
    <3> QED BY <1>2, <2>1, <3>1
  <2>2. CASE i # L
    <3>1. i \in 1..(L - 1) /\ i + 1 \in 1..L /\ bitsRead + (i + 1) = p + i
      BY <1>1, <1>3, <2>2
    <3>2. window[i + 1] = Read[bitsRead + (i + 1)]
      BY <1>1, <3>1 DEF Scanning, IInv, CountInv
    <3> QED BY <1>2, <3>1, <3>2
  <2> QED BY <2>1, <2>2
<1>5. window' = LastBits(p)
  <2>1. p \in 0..Len(bits)
    BY <1>1, <1>2
  <2>2. LastBits(p) \in Seq(Bits) /\ Len(LastBits(p)) = L /\ \A i \in 1..L : LastBits(p)[i] = Read[p + i]
    BY <1>1, <2>1, LastFacts
  <2>3. \A i \in 1..Len(window') : window'[i] = LastBits(p)[i]
    BY <1>2, <1>4, <2>2
  <2> QED BY <1>2, <2>2, <2>3, SeqEqual
<1>6. IsMark(window') <=> Mark(p)
  BY <1>5 DEF Mark, LastBits
<1> QED BY <1>4, <1>6 DEF p

(* What does not depend on the tables. *)
LEMMA ScanTypes ==
  ASSUME Scanning, ScanBit
  PROVE  /\ bits' = bits /\ bits \in Files /\ Len(bits) \in Nat
         /\ bitsRead' \in 1..Len(bits) /\ bitsRead \in Nat /\ bitsRead' = bitsRead + 1
         /\ window' \in Seq(Bits) /\ Len(window') = L
         /\ WindowInv'
         /\ UNCHANGED splitVars /\ wrBlock = 0 /\ ~isOpen /\ files = <<>>
         /\ currBlock \in 0..BZ_MAX_HANDLED_BLOCKS /\ currBlock = Len(MarksIn(bitsRead))
         /\ rbCtr \in 0..BZ_MAX_HANDLED_BLOCKS /\ (rbCtr = 0 \/ rbCtr < currBlock)
<1>1. /\ IInv /\ ~AtEOF /\ window' = Shift(bsGetBit) /\ bitsRead' = bitsRead + 1 /\ bits' = bits
      /\ pc = "scan" /\ UNCHANGED splitVars
  BY DEF Scanning, ScanBit
<1>2. /\ bitsRead' \in 1..Len(bits) /\ window' \in Seq(Bits) /\ Len(window') = L
      /\ \A i \in 1..L : bitsRead' - L + i >= 1 => window'[i] = bits[bitsRead' - L + i]
  BY <1>1, WindowMoves
<1>3. WindowInv'
  BY <1>1, <1>2 DEF WindowInv
<1>4. /\ bits \in Files /\ bitsRead \in 0..Len(bits) /\ currBlock \in -1..BZ_MAX_HANDLED_BLOCKS
      /\ rbCtr \in 0..BZ_MAX_HANDLED_BLOCKS
  BY <1>1 DEF IInv, TypeInv
<1>5. /\ currBlock = Len(MarksIn(bitsRead)) /\ (rbCtr = 0 \/ rbCtr < currBlock)
      /\ wrBlock = 0 /\ ~isOpen /\ files = <<>>
  BY <1>1 DEF IInv, CountInv
<1>6. Len(bits) \in Nat /\ bitsRead \in Nat
  BY <1>4, FileBits
<1>7. Len(MarksIn(bitsRead)) \in Nat
  <2>1. MarksIn(bitsRead) \in Seq(Nat)
    BY <1>6, MarksNext
  <2> QED BY <2>1, LenProperties
<1>8. currBlock \in 0..BZ_MAX_HANDLED_BLOCKS
  BY <1>4, <1>5, <1>7
<1> QED BY <1>1, <1>2, <1>3, <1>4, <1>5, <1>6, <1>8

(* A bit that ends no mark leaves everything but the window. *)
LEMMA ScanPlainBit ==
  ASSUME Scanning, ScanBit, ~IsMark(window')
  PROVE  IInv'
<1>1. /\ bits' = bits /\ bits \in Files /\ Len(bits) \in Nat
      /\ bitsRead' \in 1..Len(bits) /\ bitsRead \in Nat /\ bitsRead' = bitsRead + 1
      /\ window' \in Seq(Bits) /\ Len(window') = L /\ WindowInv'
      /\ UNCHANGED splitVars /\ wrBlock = 0 /\ ~isOpen /\ files = <<>>
      /\ currBlock = Len(MarksIn(bitsRead)) /\ (rbCtr = 0 \/ rbCtr < currBlock)
  BY ScanTypes
<1>2. pc = "scan" /\ pc' = pc /\ UNCHANGED scanVars /\ IInv
  BY DEF ScanBit, Scanning
<1>3. /\ \A i \in 1..L : window'[i] = Read[bitsRead' + i]
      /\ ~Mark(bitsRead')
  BY ScanWindow
<1>4. MarksIn(bitsRead') = MarksIn(bitsRead)
  BY <1>1, <1>3, MarksNext
<1>5. TypeInv'
  BY <1>1, <1>2 DEF IInv, TypeInv, Tables, Slots, scanVars, splitVars
<1>6. /\ Read' = Read /\ Marks' = Marks /\ Expected' = Expected
      /\ \A n : MarksIn(n)' = MarksIn(n) /\ Found(n)' = Found(n) /\ Mark(n)' = Mark(n)
  BY <1>1, SameFile
<1>7. MarksIn(bitsRead)' = MarksIn(bitsRead)
  <2>1. MarksIn(bitsRead)' = MarksIn(bitsRead')
    BY <1>1 DEF MarksIn, Read
  <2> QED BY <1>4, <2>1
<1>8. CountInv'
  BY <1>1, <1>2, <1>3, <1>6, <1>7 DEF IInv, CountInv, scanVars, splitVars
<1>9. ScanInv'
  <2>1. UNCHANGED <<bits, currBlock, bStart, rbCtr, rbStart, rbEnd>>
    BY <1>1, <1>2 DEF scanVars
  <2>2. ScanInv
    BY <1>2 DEF IInv
  <2>3. TableInv' = TableInv /\ Written(rbCtr)' = Written(rbCtr)
    BY <2>1 DEF TableInv, Entry, Written, WrittenOf
  <2>4. Mark(bStart[currBlock])' = Mark(bStart[currBlock]) /\ Found(currBlock - 1)' = Found(currBlock - 1)
    BY <2>1 DEF Mark, Read, Found, Marks, MarksIn, Between
  <2>5. bStart[currBlock] \in 1..bitsRead => bStart[currBlock] \in 1..bitsRead'
    BY <1>1
  <2> QED BY <1>2, <1>7, <2>1, <2>2, <2>3, <2>4, <2>5 DEF ScanInv
<1> QED BY <1>1, <1>2, <1>5, <1>8, <1>9 DEF IInv, SplitInv, BlocksExtracted

LEMMA ScanMarkFacts ==
  ASSUME Scanning, ScanBit, IsMark(window')
  PROVE  /\ Mark(bitsRead') /\ MarksIn(bitsRead)' = Append(MarksIn(bitsRead), bitsRead')
         /\ Len(MarksIn(bitsRead)') = currBlock + 1
         /\ MarksIn(bitsRead)'[currBlock + 1] = bitsRead'
         /\ currBlock + 1 <= Len(Marks) /\ Marks[currBlock + 1] = bitsRead'
         /\ currBlock > 0 => /\ bStart[currBlock] \in 1..bitsRead
                             /\ Marks[currBlock] = bStart[currBlock]
                             /\ 2 * (bitsRead' - bStart[currBlock]) > L
<1> DEFINE p == bitsRead'
           c == currBlock
<1>1. /\ bits' = bits /\ bits \in Files /\ Len(bits) \in Nat
      /\ p \in 1..Len(bits) /\ bitsRead \in Nat /\ p = bitsRead + 1
      /\ c \in Nat /\ c = Len(MarksIn(bitsRead)) /\ bitsRead \in 0..Len(bits) /\ p \in 0..Len(bits)
  <2>1. BZ_MAX_HANDLED_BLOCKS \in Nat
    BY Sizes
  <2> QED BY <2>1, ScanTypes
<1>2. Mark(p)
  BY ScanWindow
<1>3. MarksIn(bitsRead)' = MarksIn(p)
  BY <1>1 DEF MarksIn, Read
<1> HIDE DEF p
<1>4. MarksIn(p) = Append(MarksIn(bitsRead), p) /\ MarksIn(bitsRead) \in Seq(Nat)
  BY <1>1, <1>2, MarksNext
<1>5. Len(MarksIn(p)) = c + 1 /\ MarksIn(p)[c + 1] = p
  BY <1>1, <1>4, AppendProperties
<1>6. c + 1 <= Len(Marks) /\ Marks[c + 1] = p
  <2>1. c + 1 \in 1..Len(MarksIn(p))
    BY <1>1, <1>5
  <2>2. Len(MarksIn(p)) \in 0..Len(Marks) /\ \A i \in 1..Len(MarksIn(p)) : MarksIn(p)[i] = Marks[i]
    BY <1>1, MarksInFile
  <2> QED BY <1>1, <1>5, <2>1, <2>2
<1>7. ASSUME c > 0
      PROVE  /\ bStart[c] \in 1..bitsRead /\ Marks[c] = bStart[c]
             /\ 2 * (p - bStart[c]) > L
  <2> DEFINE q == bStart[c]
  <2>1. q \in 1..bitsRead /\ q = MarksIn(bitsRead)[c] /\ Mark(q)
    BY <1>7 DEF Scanning, IInv, ScanInv
  <2> HIDE DEF q
  <2>2. Marks[c] = q
    <3>1. c \in 1..Len(MarksIn(bitsRead))
      BY <1>1, <1>7
    <3> QED BY <1>1, <2>1, <3>1, MarksInFile
  <2>3. q \in 0..Len(bits) /\ q < p
    BY <1>1, <2>1
  <2>4. 2 * (p - q) > L
    BY <1>1, <1>2, <2>1, <2>3, MarksApart
  <2> QED BY <2>1, <2>2, <2>4 DEF q
<1> QED BY <1>2, <1>3, <1>4, <1>5, <1>6, <1>7 DEF p

(* A mark when the tables are full: the program gives up. *)
LEMMA ScanMarkFull ==
  ASSUME Scanning, ScanBit, IsMark(window'), Full
  PROVE  IInv'
<1> DEFINE last == EndBefore(bitsRead')
           take == currBlock > 0 /\ Believed(bStart[currBlock], last)
<1>1. /\ bits' = bits /\ bits \in Files /\ Len(bits) \in Nat
      /\ bitsRead' \in 1..Len(bits) /\ bitsRead \in Nat
      /\ window' \in Seq(Bits) /\ Len(window') = L /\ WindowInv'
      /\ UNCHANGED splitVars /\ wrBlock = 0 /\ ~isOpen /\ files = <<>>
      /\ currBlock \in 0..BZ_MAX_HANDLED_BLOCKS /\ rbCtr \in 0..BZ_MAX_HANDLED_BLOCKS
      /\ (rbCtr = 0 \/ rbCtr < currBlock)
  BY ScanTypes
<1>2. last \in Nat
  BY <1>1, EndBeforeFacts
<1>3. /\ pc' = "tooManyBlocks" /\ UNCHANGED <<currBlock, bStart>>
      /\ bEnd' = [bEnd EXCEPT ![currBlock] = last]
      /\ \E r \in BeyondEnd(last) :
           rbStart' = IF take THEN [r EXCEPT ![rbCtr] = bStart[currBlock]] ELSE r
      /\ rbEnd' = IF take THEN [rbEnd EXCEPT ![rbCtr] = last] ELSE rbEnd
      /\ rbCtr' = IF take THEN rbCtr + 1 ELSE rbCtr
  BY DEF ScanBit
<1> HIDE DEF last
<1>4. TypeInv /\ BZ_MAX_HANDLED_BLOCKS \in Nat
  BY Sizes DEF Scanning, IInv
<1>5. bStart[currBlock] \in Nat /\ currBlock \in Slots
  BY <1>1, <1>4 DEF TypeInv, Tables, Slots
<1>6. rbCtr' \in 0..BZ_MAX_HANDLED_BLOCKS /\ 0 \in 0..rbCtr'
  BY <1>1, <1>3, <1>4
<1>7. bEnd' \in Tables /\ rbEnd' \in Tables
  BY <1>2, <1>3, <1>4 DEF TypeInv, Tables
<1>8. rbStart' \in Tables
  <2>1. \A r \in BeyondEnd(last) : r \in Tables
    BY <1>2, <1>4 DEF BeyondEnd, TypeInv, Tables
  <2>2. PICK r \in BeyondEnd(last) : rbStart' = IF take THEN [r EXCEPT ![rbCtr] = bStart[currBlock]] ELSE r
    BY <1>3
  <2>3. r \in Tables
    BY <2>1
  <2> QED BY <1>5, <2>2, <2>3 DEF Tables
<1>9. TypeInv'
  BY <1>1, <1>3, <1>4, <1>6, <1>7, <1>8 DEF TypeInv, splitVars
<1>10. CountInv'
  BY <1>1, <1>3 DEF CountInv, splitVars
<1>11. BlocksExtracted'
  <2>1. currBlock + 1 <= Len(Marks)
    BY ScanMarkFacts
  <2>2. ~(Len(Marks) < BZ_MAX_HANDLED_BLOCKS)
    BY <1>1, <1>4, <2>1, ExpectedIs DEF Full
  <2>3. Marks' = Marks
    BY <1>1, SameFile
  <2> QED BY <2>2, <2>3 DEF BlocksExtracted
<1> QED BY <1>1, <1>3, <1>9, <1>10, <1>11 DEF IInv, ScanInv, SplitInv

(* A mark otherwise: the block before it is noted, and the next one begins. *)
LEMMA ScanMark ==
  ASSUME Scanning, ScanBit, IsMark(window'), ~Full
  PROVE  IInv'
<1> DEFINE p == bitsRead'
           c == currBlock
           q == bStart[c]
           last == EndBefore(p)
           take == c > 0 /\ Believed(q, last)
<1>1. /\ bits' = bits /\ bits \in Files /\ Len(bits) \in Nat
      /\ p \in 1..Len(bits) /\ bitsRead \in Nat /\ p = bitsRead + 1
      /\ window' \in Seq(Bits) /\ Len(window') = L /\ WindowInv'
      /\ UNCHANGED splitVars /\ wrBlock = 0 /\ ~isOpen /\ files = <<>>
      /\ c \in 0..BZ_MAX_HANDLED_BLOCKS /\ rbCtr \in 0..BZ_MAX_HANDLED_BLOCKS
      /\ (rbCtr = 0 \/ rbCtr < c)
  BY ScanTypes
<1>2. /\ Mark(p) /\ Len(MarksIn(bitsRead)') = c + 1 /\ MarksIn(bitsRead)'[c + 1] = p
      /\ c + 1 <= Len(Marks) /\ Marks[c + 1] = p
      /\ c > 0 => q \in 1..bitsRead /\ Marks[c] = q /\ 2 * (p - q) > L
  BY ScanMarkFacts
<1>3. \A i \in 1..L : window'[i] = Read[p + i]
  BY ScanWindow
<1>4. /\ TypeInv /\ BZ_MAX_HANDLED_BLOCKS \in Nat /\ L \in Nat /\ L >= 1 /\ pc = "scan"
      /\ TableInv /\ c < BZ_MAX_HANDLED_BLOCKS
      /\ c > 0 => Found(c - 1) = Written(rbCtr)
      /\ c > 1 => 2 * q > L + 1
      /\ rbCtr > 0 => rbEnd[rbCtr - 1] <= EndBefore(q)
  <2>1. ScanInv
    BY DEF Scanning, IInv
  <2>2. BZ_MAX_HANDLED_BLOCKS \in Nat /\ L \in Nat /\ L >= 1
    BY Sizes
  <2>3. TypeInv /\ pc = "scan"
    BY DEF Scanning, IInv
  <2> QED BY <1>1, <2>1, <2>2, <2>3 DEF ScanInv, Full
<1>5. /\ pc' = pc /\ currBlock' = c + 1 /\ bStart' = [bStart EXCEPT ![c + 1] = p]
      /\ bEnd' = [bEnd EXCEPT ![c] = last]
      /\ rbStart' = IF take THEN [rbStart EXCEPT ![rbCtr] = q] ELSE rbStart
      /\ rbEnd' = IF take THEN [rbEnd EXCEPT ![rbCtr] = last] ELSE rbEnd
      /\ rbCtr' = IF take THEN rbCtr + 1 ELSE rbCtr
  <2>1. c # BZ_MAX_HANDLED_BLOCKS
    BY <1>4
  <2>2. BeyondEnd(last) = {rbStart}
    BY <2>1 DEF BeyondEnd
  <2> QED BY <2>2 DEF ScanBit
<1>6. /\ last \in Nat /\ last < p
      /\ p > L + 1 => last = p - (L + 1)
      /\ p <= L + 1 => last = 0
      /\ c > 0 => EndBefore(q) <= last
  <2>1. p \in Nat /\ p >= 1
    BY <1>1
  <2>2. c > 0 => q \in Nat /\ q < p
    BY <1>1, <1>2
  <2> HIDE DEF p, q, c
  <2>3. /\ EndBefore(p) \in Nat /\ EndBefore(p) < p
        /\ p > L + 1 => EndBefore(p) = p - (L + 1)
        /\ p <= L + 1 => EndBefore(p) = 0
        /\ \A x \in Nat : x < p => EndBefore(x) <= EndBefore(p)
    BY <2>1, EndBeforeFacts
  <2> QED BY <2>2, <2>3
<1>7. c \in Slots /\ c + 1 \in Slots /\ q \in Nat /\ rbCtr \in Slots
  <2>1. c \in Slots /\ c + 1 \in Slots /\ rbCtr \in Slots
    BY <1>1, <1>4 DEF Slots
  <2>2. bStart \in [Slots -> Nat]
    BY <1>4 DEF TypeInv, Tables
  <2> QED BY <2>1, <2>2
<1>8. take => c > 0 /\ rbCtr + 1 \in 0..BZ_MAX_HANDLED_BLOCKS /\ rbCtr + 1 < c + 1
  <2> HIDE DEF q, last
  <2> QED BY <1>1, <1>4
<1> HIDE DEF p, c, q, last, take
<1>9. TypeInv'
  <2>1. bStart' \in Tables /\ bEnd' \in Tables /\ rbStart' \in Tables /\ rbEnd' \in Tables
    <3>1. bStart \in Tables /\ bEnd \in Tables /\ rbStart \in Tables /\ rbEnd \in Tables
      BY <1>4 DEF TypeInv
    <3>2. p \in Nat
      BY <1>1
    <3>3. \A t \in Tables, i \in Slots, v \in Nat : [t EXCEPT ![i] = v] \in Tables
      BY DEF Tables
    <3> QED BY <1>5, <1>6, <1>7, <3>1, <3>2, <3>3
  <2>2. rbCtr' \in 0..BZ_MAX_HANDLED_BLOCKS /\ wrBlock' \in 0..rbCtr'
    BY <1>1, <1>5, <1>8 DEF splitVars
  <2>3. bitsRead' \in 0..Len(bits) /\ currBlock' \in -1..BZ_MAX_HANDLED_BLOCKS
    BY <1>1, <1>4, <1>5 DEF p
  <2> QED BY <1>1, <1>4, <1>5, <2>1, <2>2, <2>3 DEF TypeInv, splitVars
<1>10. CountInv'
  <2>1. rbCtr' = 0 \/ rbCtr' < currBlock'
    BY <1>1, <1>5, <1>8
  <2>2. currBlock' = Len(MarksIn(bitsRead)')
    BY <1>2, <1>5
  <2>3. \A i \in 1..L : window'[i] = Read'[bitsRead' + i]
    BY <1>1, <1>3 DEF p, Read
  <2> QED BY <1>1, <1>4, <1>5, <2>1, <2>2, <2>3 DEF CountInv, splitVars
<1>11. c > 0 => /\ q \in Nat /\ q >= 1 /\ q < p /\ 2 * p > L + 1
                /\ c > 1 => EndBefore(q) < last /\ EndBefore(q) + 1 < q
  <2> SUFFICES ASSUME c > 0
               PROVE  /\ q \in Nat /\ q >= 1 /\ q < p /\ 2 * p > L + 1
                      /\ c > 1 => EndBefore(q) < last /\ EndBefore(q) + 1 < q
    OBVIOUS
  <2>1. q \in Nat /\ q >= 1 /\ p \in Nat /\ q < p /\ 2 * (p - q) > L
    BY <1>1, <1>2
  <2>2. 2 * p > L + 1
    BY <1>4, <2>1
  <2>3. ASSUME c > 1 PROVE EndBefore(q) < last /\ EndBefore(q) + 1 < q
    <3>1. 2 * q > L + 1 /\ q >= 2 /\ p > L + 1
      BY <1>4, <2>1, <2>3
    <3>2. last = p - (L + 1)
      BY <1>6, <3>1
    <3>3. (q > L + 1 => EndBefore(q) = q - (L + 1)) /\ (q <= L + 1 => EndBefore(q) = 0)
      BY <2>1, EndBeforeFacts
    <3> QED BY <1>4, <2>1, <3>1, <3>2, <3>3
  <2> QED BY <2>1, <2>2, <2>3
<1>12. /\ \A k \in 0..(rbCtr - 1) : rbStart'[k] = rbStart[k] /\ rbEnd'[k] = rbEnd[k]
       /\ take => rbStart'[rbCtr] = q /\ rbEnd'[rbCtr] = last
       /\ \A k \in Slots : k >= rbCtr' => rbStart'[k] = 0 /\ rbEnd'[k] = 0
  <2>1. rbStart \in [Slots -> Nat] /\ rbEnd \in [Slots -> Nat]
    BY <1>4 DEF TypeInv, Tables
  <2>2. \A k \in Slots : k >= rbCtr => rbStart[k] = 0 /\ rbEnd[k] = 0
    BY <1>4 DEF TableInv
  <2>3. \A k \in 0..(rbCtr - 1) : k \in Slots /\ k # rbCtr
    BY <1>1, <1>4 DEF Slots
  <2>4. \A k \in Slots : k \in Nat
    BY <1>4 DEF Slots
  <2>5. rbCtr \in Nat /\ rbCtr \in Slots
    BY <1>1, <1>7
  <2>6. CASE take
    <3>1. /\ rbStart' = [rbStart EXCEPT ![rbCtr] = q] /\ rbEnd' = [rbEnd EXCEPT ![rbCtr] = last]
          /\ rbCtr' = rbCtr + 1
      BY <1>5, <2>6
    <3>2. \A k \in Slots : k # rbCtr => rbStart'[k] = rbStart[k] /\ rbEnd'[k] = rbEnd[k]
      BY <2>1, <3>1
    <3>3. rbStart'[rbCtr] = q /\ rbEnd'[rbCtr] = last
      BY <2>1, <2>5, <3>1
    <3>4. \A k \in Slots : k >= rbCtr' => k # rbCtr /\ k >= rbCtr
      BY <2>4, <2>5, <3>1
    <3> QED BY <2>2, <2>3, <3>2, <3>3, <3>4
  <2>7. CASE ~take
    <3>1. rbStart' = rbStart /\ rbEnd' = rbEnd /\ rbCtr' = rbCtr
      BY <1>5, <2>7
    <3> QED BY <2>2, <2>7, <3>1
  <2> QED BY <2>6, <2>7
<1>13. take => q > last \/ IsLong(q, last)
  <2>1. last < WordSize
    <3>1. WordSize \in Nat /\ Len(bits) < WordSize
      BY <1>1, FileBits, FormatAssumption
    <3> QED BY <1>1, <1>6, <3>1
  <2> QED BY <1>6, <1>7, <2>1, BelievedMeans DEF take
<1>14. c > 0 /\ ~take => ~IsLong(q, last)
  <2>1. last < WordSize
    <3>1. WordSize \in Nat /\ Len(bits) < WordSize
      BY <1>1, FileBits, FormatAssumption
    <3> QED BY <1>1, <1>6, <3>1
  <2> QED BY <1>6, <1>7, <2>1, BelievedMeans DEF take
<1>15. TableInv'
  <2>1. ASSUME NEW k \in 0..(rbCtr' - 1) PROVE Entry(k)'
    <3>1. CASE k < rbCtr
      <4>1. k \in 0..(rbCtr - 1) /\ (k > 0 => k - 1 \in 0..(rbCtr - 1))
        BY <1>1, <3>1
      <4>2. Entry(k)
        BY <1>4, <4>1 DEF TableInv
      <4> QED BY <1>1, <1>12, <4>1, <4>2 DEF Entry
    <3>2. CASE ~(k < rbCtr)
      <4>1. take /\ k = rbCtr /\ c > 0
        BY <1>1, <1>5, <1>8, <3>2
      <4>2. q >= 1 /\ last < Len(bits) /\ (IsLong(q, last) \/ last < q)
        BY <1>1, <1>6, <1>11, <1>13, <4>1
      <4>3. ASSUME k > 0 PROVE rbEnd'[k - 1] < rbEnd'[k] /\ rbEnd'[k - 1] + 1 < rbStart'[k]
        <5>1. k - 1 \in 0..(rbCtr - 1) /\ c > 1 /\ rbCtr - 1 \in Slots
          BY <1>1, <1>4, <4>1, <4>3 DEF Slots
        <5>2. rbEnd'[k - 1] = rbEnd[rbCtr - 1] /\ rbEnd[rbCtr - 1] <= EndBefore(q)
          BY <1>4, <1>12, <4>1, <4>3, <5>1
        <5>3. rbEnd[rbCtr - 1] \in Nat
          BY <1>4, <5>1 DEF TypeInv, Tables
        <5>4. EndBefore(q) \in Nat
          BY <1>11, <4>1, EndBeforeFacts
        <5>5. EndBefore(q) < last /\ EndBefore(q) + 1 < q
          BY <1>11, <4>1, <5>1
        <5>6. rbEnd'[k] = last /\ rbStart'[k] = q
          BY <1>12, <4>1
        <5> QED BY <1>6, <1>7, <5>2, <5>3, <5>4, <5>5, <5>6
      <4> QED BY <1>1, <1>12, <4>1, <4>2, <4>3 DEF Entry
    <3> QED BY <3>1, <3>2
  <2> QED BY <1>12, <2>1 DEF TableInv, Slots
<1>16. Found(c) = WrittenOf(bits, rbStart', rbEnd', rbCtr')
  <2> DEFINE was == WrittenOf(bits, rbStart', rbEnd', rbCtr)
  <2>0. rbCtr \in Nat
    BY <1>1
  <2>1. was = Written(rbCtr)
    BY <1>12, <2>0, WrittenSame DEF Written
  <2>2. CASE c = 0
    <3>1. rbCtr = 0 /\ rbCtr' = 0
      BY <1>1, <1>5, <1>8, <2>2
    <3>2. Found(0) = <<>> /\ WrittenOf(bits, rbStart', rbEnd', 0) = <<>>
      BY FoundNext, WrittenNext
    <3> QED BY <2>2, <3>1, <3>2
  <2>3. CASE c # 0
    <3>1. c > 0 /\ c - 1 \in Nat /\ (c - 1) + 1 = c
      BY <1>1, <2>3
    <3>2. Found(c) = IF Len(Between(c)) > MinBits
                     THEN Append(Found(c - 1), OneBlockStream(Between(c))) ELSE Found(c - 1)
      BY <3>1, FoundNext
    <3>3. /\ Len(Between(c)) > MinBits <=> IsLong(q, last)
          /\ IsLong(q, last) => Between(c) = Block(bits, q, last)
      <4>1. c \in 1..(Len(Marks) - 1) /\ q \in 1..Len(bits)
        BY <1>1, <1>2, <3>1, ExpectedIs
      <4>2. q < p /\ Marks[c] = q /\ Marks[c + 1] = p
        BY <1>2, <1>11, <3>1
      <4> QED BY <1>1, <4>1, <4>2, BetweenFacts DEF last
    <3>4. Found(c - 1) = was
      BY <1>4, <2>1, <3>1
    <3>5. CASE take
      <4>1. rbStart'[rbCtr] = q /\ rbEnd'[rbCtr] = last /\ rbCtr' = rbCtr + 1
        BY <1>5, <1>12, <3>5
      <4>2. WrittenOf(bits, rbStart', rbEnd', rbCtr + 1)
              = IF IsLong(q, last) THEN Append(was, OneBlockStream(Block(bits, q, last))) ELSE was
        BY <2>0, <4>1, WrittenNext
      <4> QED BY <3>2, <3>3, <3>4, <4>1, <4>2
    <3>6. CASE ~take
      <4>1. ~IsLong(q, last) /\ rbCtr' = rbCtr
        BY <1>5, <1>14, <3>1, <3>6
      <4> QED BY <3>2, <3>3, <3>4, <4>1
    <3> QED BY <3>5, <3>6
  <2> QED BY <2>2, <2>3
<1>17. ScanInv'
  <2>1. currBlock' = c + 1 /\ c + 1 > 0 /\ bStart'[c + 1] = p
    <3>1. bStart \in [Slots -> Nat]
      BY <1>4 DEF TypeInv, Tables
    <3> QED BY <1>1, <1>5, <1>7, <3>1
  <2>2. /\ bStart'[currBlock'] \in 1..bitsRead'
        /\ bStart'[currBlock'] = MarksIn(bitsRead)'[currBlock']
    BY <1>1, <1>2, <2>1 DEF p
  <2>3. Mark(bStart[currBlock])'
    BY <1>1, <1>2, <2>1 DEF Mark, Read
  <2>4. (Found(currBlock - 1) = Written(rbCtr))'
    <3>1. Found(currBlock - 1)' = Found(currBlock' - 1)
      BY <1>1 DEF Found, Between, Marks, MarksIn, Read
    <3>2. currBlock' - 1 = c
      BY <1>1, <2>1
    <3> QED BY <1>1, <1>16, <3>1, <3>2 DEF Written
  <2>5. currBlock' > 1 => 2 * bStart'[currBlock'] > L + 1
    BY <1>1, <1>11, <2>1
  <2>6. rbCtr' > 0 => rbEnd'[rbCtr' - 1] <= EndBefore(bStart'[currBlock'])
    <3> SUFFICES ASSUME rbCtr' > 0 PROVE rbEnd'[rbCtr' - 1] <= last
      BY <2>1 DEF last
    <3>1. CASE take
      <4>1. rbCtr' - 1 = rbCtr /\ rbEnd'[rbCtr] = last
        BY <1>1, <1>5, <1>12, <3>1
      <4> QED BY <1>6, <4>1
    <3>2. CASE ~take
      <4>1. rbCtr' = rbCtr /\ rbCtr - 1 \in 0..(rbCtr - 1) /\ c > 0 /\ rbCtr - 1 \in Slots
        BY <1>1, <1>4, <1>5, <3>2 DEF Slots
      <4>2. rbEnd'[rbCtr - 1] = rbEnd[rbCtr - 1] /\ rbEnd[rbCtr - 1] <= EndBefore(q)
        BY <1>4, <1>12, <4>1
      <4>3. rbEnd[rbCtr - 1] \in Nat /\ EndBefore(q) \in Nat /\ EndBefore(q) <= last
        <5>1. rbEnd \in [Slots -> Nat]
          BY <1>4 DEF TypeInv, Tables
        <5>2. EndBefore(q) \in Nat
          BY <1>11, <4>1, EndBeforeFacts
        <5> QED BY <1>6, <4>1, <5>1, <5>2
      <4> QED BY <1>6, <4>1, <4>2, <4>3
    <3> QED BY <3>1, <3>2
  <2> QED BY <1>15, <2>1, <2>2, <2>3, <2>4, <2>5, <2>6 DEF ScanInv
<1> QED BY <1>1, <1>4, <1>5, <1>9, <1>10, <1>17 DEF IInv, SplitInv, BlocksExtracted

LEMMA ScanBitStep ==
  ASSUME IInv, ScanBit
  PROVE  IInv'
<1>1. Scanning
  BY DEF Scanning, ScanBit
<1> QED BY <1>1, ScanPlainBit, ScanMarkFull, ScanMark

(* The end of the first pass. *)
LEMMA ScanEndStep ==
  ASSUME IInv, ScanEnd
  PROVE  IInv'
<1>1. /\ TypeInv /\ pc = "scan" /\ TableInv /\ AtEOF
      /\ \A k \in Slots : k >= rbCtr => rbStart[k] = 0 /\ rbEnd[k] = 0
      /\ currBlock > 0 => Found(currBlock - 1) = Written(rbCtr)
      /\ currBlock = Len(MarksIn(bitsRead)) /\ (rbCtr = 0 \/ rbCtr < currBlock)
      /\ wrBlock = 0 /\ ~isOpen /\ files = <<>>
  BY DEF IInv, ScanInv, CountInv, ScanEnd, TableInv
<1>2. /\ bits \in Files /\ Len(bits) \in Nat /\ bitsRead \in 0..Len(bits)
      /\ rbCtr \in 0..BZ_MAX_HANDLED_BLOCKS /\ BZ_MAX_HANDLED_BLOCKS \in Nat /\ BZ_MAX_HANDLED_BLOCKS >= 1
      /\ bStart \in Tables /\ bEnd \in Tables /\ rbStart \in Tables /\ rbEnd \in Tables
      /\ Len(Marks) \in Nat /\ currBlock \in -1..BZ_MAX_HANDLED_BLOCKS
  BY <1>1, FileBits, Sizes, ExpectedIs DEF TypeInv
<1>3. bitsRead = Len(bits) /\ currBlock = Len(Marks)
  BY <1>1, <1>2 DEF AtEOF, Marks
<1>4. /\ bits' = bits /\ bitsRead' = 0 /\ pc' = IF rbCtr < 1 THEN "noBlocks" ELSE "split"
      /\ UNCHANGED <<window, bStart, rbCtr, rbEnd, splitVars>>
      /\ rbStart' \in BeyondEnd(bitsRead) \cup {rbStart}
      /\ bEnd' \in {bEnd, [bEnd EXCEPT ![currBlock] = bitsRead]}
      /\ currBlock' \in {currBlock, currBlock - 1}
  BY DEF ScanEnd
<1>5. /\ Marks' = Marks /\ Expected' = Expected
  BY <1>4, SameFile
<1>6. rbStart' \in Tables /\ bEnd' \in Tables
  <2>1. bitsRead \in Nat /\ 0 \in Slots
    BY <1>2 DEF Slots
  <2>2. \A t \in Tables, i \in Slots, v \in Nat : [t EXCEPT ![i] = v] \in Tables
    BY DEF Tables
  <2>3. currBlock \in Slots
    BY <1>2, <1>3 DEF Slots
  <2> QED BY <1>2, <1>4, <2>1, <2>2, <2>3 DEF BeyondEnd
<1>7. TypeInv'
  <2>1. 0 \in 0..Len(bits) /\ currBlock' \in -1..BZ_MAX_HANDLED_BLOCKS
    BY <1>2, <1>3, <1>4
  <2> QED BY <1>1, <1>2, <1>4, <1>6, <2>1 DEF TypeInv, splitVars
<1>8. WindowInv'
  <2>1. L \in Nat
    BY Sizes
  <2> QED BY <1>4, <2>1 DEF WindowInv
<1>9. CountInv'
  BY <1>1, <1>2, <1>3, <1>4, <1>5 DEF CountInv, splitVars
<1>10. ASSUME Len(Marks) < BZ_MAX_HANDLED_BLOCKS
       PROVE  /\ rbStart' = rbStart
              /\ rbCtr = 0 => Expected = <<>>
              /\ rbCtr > 0 => Expected = Written(rbCtr)
  <2>1. rbStart' = rbStart
    <3>1. currBlock # BZ_MAX_HANDLED_BLOCKS
      BY <1>2, <1>3, <1>10
    <3> QED BY <1>4, <3>1 DEF BeyondEnd
  <2>2. CASE currBlock = 0
    BY <1>1, <1>2, <1>3, <2>1, <2>2, ExpectedIs
  <2>3. CASE currBlock # 0
    <3>1. Expected = Written(rbCtr)
      BY <1>1, <1>2, <1>3, <2>3 DEF Expected
    <3>2. Written(0) = <<>>
      BY WrittenNext DEF Written
    <3> QED BY <2>1, <3>1, <3>2
  <2> QED BY <2>2, <2>3
<1>11. Closed' = <<>>
  <2>1. files' = <<>> /\ Len(<<>>) = 0
    BY <1>1, <1>4 DEF splitVars
  <2>2. Closed' = [k \in 1..0 |-> files'[k][2]]
    BY <2>1 DEF Closed
  <2>3. \A t : [k \in 1..0 |-> t[k][2]] = <<>>
    OBVIOUS
  <2> QED BY <2>2, <2>3
<1>12. SplitInv'
  <2> SUFFICES ASSUME pc' = "split", Len(Marks) < BZ_MAX_HANDLED_BLOCKS
               PROVE  SplitInv'
    BY <1>5 DEF SplitInv
  <2>1. rbStart' = rbStart /\ rbCtr > 0 /\ rbCtr' = rbCtr /\ rbEnd' = rbEnd /\ Expected = Written(rbCtr)
    BY <1>2, <1>4, <1>10
  <2>2. TableInv'
    BY <1>1, <1>4, <2>1 DEF TableInv, Entry
  <2>3. \A n : Written(n)' = Written(n)
    BY <1>4, <2>1 DEF Written
  <2>4. Written(0) = <<>>
    BY WrittenNext DEF Written
  <2>5. Entry(0) /\ rbEnd[0] \in Nat
    BY <1>1, <1>2, <2>1 DEF TableInv, Tables, Slots
  <2>6. wrBlock' = 0 /\ ~isOpen' /\ isOpen' \in BOOLEAN
    <3>1. wrBlock' = wrBlock /\ isOpen' = isOpen
      BY <1>4 DEF splitVars
    <3>2. isOpen' \in BOOLEAN
      BY <1>7 DEF TypeInv
    <3> QED BY <1>1, <3>1, <3>2
  <2>7. rbStart'[0] >= 1 /\ rbEnd'[0] \in Nat /\ rbStart[0] \in Nat
    BY <1>2, <2>1, <2>5 DEF Entry, Tables, Slots
  <2>8. Written(rbCtr)' = Written(rbCtr) /\ Written(wrBlock)' = <<>>
    BY <2>1, <2>3, <2>4, <2>6 DEF Written
  <2> QED BY <1>2, <1>4, <1>5, <1>11, <2>1, <2>2, <2>6, <2>7, <2>8 DEF SplitInv
<1>13. BlocksExtracted'
  <2> SUFFICES ASSUME Len(Marks) < BZ_MAX_HANDLED_BLOCKS PROVE BlocksExtracted'
    BY <1>5 DEF BlocksExtracted
  <2>1. IsPrefix(<<>>, Expected)' /\ (pc' = "noBlocks" => Expected' = <<>>)
    BY <1>2, <1>4, <1>5, <1>10, ExpectedIs DEF IsPrefix
  <2>2. IsPrefix(Closed', Expected')
    BY <1>11, <2>1 DEF IsPrefix
  <2> QED BY <1>4, <1>11, <2>1, <2>2 DEF BlocksExtracted, Closed
<1> QED BY <1>4, <1>7, <1>8, <1>9, <1>12, <1>13 DEF IInv, ScanInv

------------------------------------------------------------------------------
(* The second pass. *)

(* What SplitBit puts into the open file and takes for the CRC. *)
Crc == IF bitsRead = L - 1 + rbStart[wrBlock] THEN SubSeq(window', 1, CrcLen) ELSE blockCRC
Put == IF isOpen /\ bitsRead >= rbStart[wrBlock] /\ bitsRead <= rbEnd[wrBlock]
       THEN Append(bsWr, bsGetBit) ELSE bsWr

Closes == /\ bitsRead' = rbEnd[wrBlock] + 1
          /\ files' = IF isOpen THEN Append(files, <<wrBlock, Padded(Put \o Trailer(Crc))>>) ELSE files
          /\ isOpen' = FALSE /\ bsWr' = <<>>
          /\ IF wrBlock >= rbCtr
             THEN pc' = "finished" /\ UNCHANGED wrBlock
             ELSE wrBlock' = wrBlock + 1 /\ UNCHANGED pc
Opens  == /\ bitsRead' # rbEnd[wrBlock] + 1 /\ bitsRead' = rbStart[wrBlock]
          /\ isOpen' = TRUE /\ bsWr' = BZh9 \o BLOCK_HEADER
          /\ UNCHANGED <<pc, wrBlock, files>>
Goes   == /\ bitsRead' \notin {rbEnd[wrBlock] + 1, rbStart[wrBlock]}
          /\ bsWr' = Put
          /\ UNCHANGED <<pc, wrBlock, isOpen, files>>

LEMMA SplitCases ==
  ASSUME SplitBit
  PROVE  /\ pc = "split" /\ ~AtEOF /\ window' = Shift(bsGetBit) /\ bitsRead' = bitsRead + 1
         /\ blockCRC' = Crc /\ UNCHANGED <<bits, scanVars>>
         /\ Closes \/ Opens \/ Goes
BY DEF SplitBit, Crc, Put, Closes, Opens, Goes

LEMMA PaddedType ==
  ASSUME NEW s \in Seq(Bits)
  PROVE  Padded(s) \in Seq(Bits)
<1> DEFINE n == (-Len(s)) % ByteBits
<1>1. n \in Nat
  <2>1. Len(s) \in Nat /\ ByteBits \in Nat /\ ByteBits # 0
    BY LenProperties, FormatAssumption
  <2>2. \A x \in Int : x % ByteBits \in 0..(ByteBits - 1)
    BY <2>1
  <2> QED BY <2>1, <2>2
<1>2. Padded(s) = s \o [i \in 1..n |-> 0]
  BY DEF Padded
<1> HIDE DEF n
<1>3. [i \in 1..n |-> 0] \in Seq(Bits)
  BY <1>1 DEF Bits
<1> QED BY <1>2, <1>3, ConcatProperties

LEMMA SplitTypes ==
  ASSUME IInv, SplitBit
  PROVE  /\ TypeInv' /\ WindowInv' /\ CountInv'
         /\ Crc \in Seq(Bits) /\ Put \in Seq(Bits) /\ Padded(Put \o Trailer(Crc)) \in Seq(Bits)
         /\ bitsRead' \in 1..Len(bits) /\ bits[bitsRead'] \in Bits /\ bsGetBit = bits[bitsRead']
         /\ \A i \in 1..L : bitsRead' - L + i >= 1 => window'[i] = bits[bitsRead' - L + i]
         /\ window' \in Seq(Bits) /\ Len(window') = L
<1>1. /\ pc = "split" /\ ~AtEOF /\ window' = Shift(bsGetBit) /\ bitsRead' = bitsRead + 1
      /\ blockCRC' = Crc /\ UNCHANGED <<bits, scanVars>>
      /\ Closes \/ Opens \/ Goes
  BY SplitCases
<1>2. /\ bitsRead' \in 1..Len(bits) /\ window' \in Seq(Bits) /\ Len(window') = L
      /\ \A i \in 1..L : bitsRead' - L + i >= 1 => window'[i] = bits[bitsRead' - L + i]
  BY <1>1, WindowMoves
<1>3. TypeInv /\ bits \in Files /\ L \in Nat /\ CrcLen \in 1..L
  BY Sizes DEF IInv, TypeInv
<1>4. bits[bitsRead'] \in Bits /\ bsGetBit = bits[bitsRead']
  BY <1>1, <1>2, <1>3, FileBits DEF bsGetBit
<1>5. SubSeq(window', 1, CrcLen) \in Seq(Bits)
  <2>1. \A i \in 1..CrcLen : window'[i] \in Bits
    BY <1>2, <1>3, ElementOfSeq
  <2> QED BY <1>3, <2>1, SubSeqProperties
<1>6. Crc \in Seq(Bits) /\ Put \in Seq(Bits)
  BY <1>3, <1>4, <1>5, AppendProperties DEF TypeInv, Crc, Put
<1>7. Padded(Put \o Trailer(Crc)) \in Seq(Bits)
  <2>1. Trailer(Crc) \in Seq(Bits)
    BY <1>6, Sizes, ConcatProperties DEF Trailer
  <2>2. Put \o Trailer(Crc) \in Seq(Bits)
    BY <1>6, <2>1, ConcatProperties
  <2> QED BY <2>2, PaddedType
<1>8. /\ files' \in Seq(Nat \X Seq(Bits)) /\ bsWr' \in Seq(Bits) /\ isOpen' \in BOOLEAN
      /\ wrBlock' \in 0..rbCtr /\ pc' \in {"split", "finished"}
  <2>1. /\ files \in Seq(Nat \X Seq(Bits)) /\ wrBlock \in 0..rbCtr /\ rbCtr \in Nat /\ wrBlock \in Nat
        /\ isOpen \in BOOLEAN
    BY <1>3, Sizes DEF TypeInv
  <2>2. CASE Closes
    <3>1. <<wrBlock, Padded(Put \o Trailer(Crc))>> \in Nat \X Seq(Bits)
      BY <1>7, <2>1
    <3>2. files' \in Seq(Nat \X Seq(Bits))
      BY <2>1, <2>2, <3>1, AppendProperties DEF Closes
    <3>3. bsWr' \in Seq(Bits) /\ isOpen' \in BOOLEAN
      BY <2>2, EmptySeq DEF Closes
    <3>4. wrBlock' \in 0..rbCtr /\ pc' \in {"split", "finished"}
      BY <1>1, <2>1, <2>2 DEF Closes
    <3> QED BY <3>2, <3>3, <3>4
  <2>3. CASE Opens
    <3>1. bsWr' \in Seq(Bits)
      BY <2>3, Sizes, ConcatProperties DEF Opens
    <3>2. isOpen' \in BOOLEAN
      BY <2>3 DEF Opens
    <3> QED BY <1>1, <2>1, <2>3, <3>1, <3>2 DEF Opens
  <2>4. CASE Goes
    BY <1>1, <1>6, <2>1, <2>4 DEF Goes
  <2> QED BY <1>1, <2>2, <2>3, <2>4
<1>9. TypeInv'
  <2>1. bitsRead' \in 0..Len(bits)
    BY <1>2
  <2> QED BY <1>1, <1>2, <1>3, <1>6, <1>8, <2>1 DEF TypeInv, scanVars, Tables, Slots
<1>10. WindowInv'
  BY <1>1, <1>2 DEF WindowInv
<1>11. CountInv'
  <2>1. Len(Marks) <= BZ_MAX_HANDLED_BLOCKS
    BY <1>1 DEF IInv, CountInv
  <2>2. Marks' = Marks
    BY <1>1, SameFile
  <2> QED BY <1>8, <2>1, <2>2 DEF CountInv
<1> QED BY <1>2, <1>4, <1>6, <1>7, <1>9, <1>10, <1>11

(* A part of the file. *)
LEMMA PartOf ==
  ASSUME bits \in Files, NEW m \in Nat, NEW n \in Nat, m <= n, n <= Len(bits)
  PROVE  /\ SubSeq(bits, m + 1, n) \in Seq(Bits) /\ Len(SubSeq(bits, m + 1, n)) = n - m
         /\ \A i \in 1..(n - m) : SubSeq(bits, m + 1, n)[i] = bits[m + i]
<1> DEFINE s == SubSeq(bits, m + 1, n)
<1>1. \A i \in (m + 1)..n : bits[i] \in Bits
  BY FileBits
<1>2. /\ s \in Seq(Bits) /\ Len(s) = IF m + 1 <= n THEN n - (m + 1) + 1 ELSE 0
      /\ \A i \in 1..(n - (m + 1) + 1) : s[i] = bits[(m + 1) + i - 1]
  BY <1>1, SubSeqProperties
<1> HIDE DEF s
<1>3. \A i \in 1..(n - m) : i \in 1..(n - (m + 1) + 1) /\ (m + 1) + i - 1 = m + i
  OBVIOUS
<1>4. \A i \in 1..(n - m) : s[i] = bits[m + i]
  BY <1>2, <1>3
<1> QED BY <1>2, <1>4 DEF s

(* And the next bit. *)
LEMMA PartNext ==
  ASSUME bits \in Files, NEW m \in Nat, NEW n \in Nat, m <= n, n + 1 <= Len(bits)
  PROVE  /\ SubSeq(bits, m + 1, n) \in Seq(Bits)
         /\ SubSeq(bits, m + 1, n + 1) = Append(SubSeq(bits, m + 1, n), bits[n + 1])
<1> DEFINE s == SubSeq(bits, m + 1, n)  t == SubSeq(bits, m + 1, n + 1)
<1>1. Len(bits) \in Nat /\ n + 1 \in Nat /\ m <= n + 1 /\ n <= Len(bits)
  BY FileBits
<1>2. s \in Seq(Bits) /\ Len(s) = n - m /\ \A i \in 1..(n - m) : s[i] = bits[m + i]
  BY <1>1, PartOf
<1>3. t \in Seq(Bits) /\ Len(t) = (n + 1) - m /\ \A i \in 1..((n + 1) - m) : t[i] = bits[m + i]
  BY <1>1, PartOf
<1> HIDE DEF s, t
<1>4. bits[n + 1] \in Bits
  BY <1>1, FileBits
<1>5. /\ Append(s, bits[n + 1]) \in Seq(Bits) /\ Len(Append(s, bits[n + 1])) = (n - m) + 1
      /\ \A i \in 1..(n - m) : Append(s, bits[n + 1])[i] = s[i]
      /\ Append(s, bits[n + 1])[(n - m) + 1] = bits[n + 1]
  BY <1>2, <1>4, AppendProperties
<1>6. \A i \in 1..Len(t) : t[i] = Append(s, bits[n + 1])[i]
  <2> SUFFICES ASSUME NEW i \in 1..((n + 1) - m) PROVE t[i] = Append(s, bits[n + 1])[i]
    BY <1>3
  <2>1. CASE i = (n - m) + 1
    <3>1. m + i = n + 1
      BY <2>1
    <3> QED BY <1>3, <1>5, <2>1, <3>1
  <2>2. CASE i # (n - m) + 1
    <3>1. i \in 1..(n - m)
      BY <2>2
    <3> QED BY <1>2, <1>3, <1>5, <3>1
  <2> QED BY <2>1, <2>2
<1>7. t = Append(s, bits[n + 1])
  BY <1>3, <1>5, <1>6, SeqEqual
<1> QED BY <1>2, <1>7 DEF s, t

Fine == Len(Marks) < BZ_MAX_HANDLED_BLOCKS

LEMMA SplitFacts ==
  ASSUME IInv, pc = "split", Fine
  PROVE  /\ TypeInv /\ bits \in Files /\ Len(bits) \in Nat /\ bitsRead \in Nat
         /\ rbCtr \in Nat /\ rbCtr > 0 /\ wrBlock \in 0..rbCtr /\ wrBlock \in Nat
         /\ BZ_MAX_HANDLED_BLOCKS \in Nat /\ rbCtr <= BZ_MAX_HANDLED_BLOCKS
         /\ L \in Nat /\ L >= 1 /\ MinBits \in Nat /\ MinBits >= L - 1 /\ CrcLen \in 1..L
         /\ \A k \in 0..rbCtr : rbStart[k] \in Nat /\ rbEnd[k] \in Nat
         /\ \A k \in 0..(rbCtr - 1) : Entry(k)
         /\ rbStart[rbCtr] = 0 /\ rbEnd[rbCtr] = 0
         /\ Written(rbCtr) = Expected /\ Closed = Written(wrBlock)
         /\ wrBlock < rbCtr => bitsRead <= rbEnd[wrBlock]
         /\ wrBlock > 0 => bitsRead >= rbEnd[wrBlock - 1] + 1
         /\ isOpen <=> wrBlock < rbCtr /\ rbStart[wrBlock] <= bitsRead
         /\ isOpen => /\ bsWr = BZh9 \o BLOCK_HEADER \o SubSeq(bits, rbStart[wrBlock] + 1, bitsRead)
                      /\ bitsRead >= rbStart[wrBlock] + L =>
                           blockCRC = SubSeq(bits, rbStart[wrBlock] + 1, rbStart[wrBlock] + CrcLen)
<1>1. TypeInv /\ SplitInv
  BY DEF IInv
<1>2. /\ bits \in Files /\ Len(bits) \in Nat /\ bitsRead \in 0..Len(bits)
      /\ rbCtr \in 0..BZ_MAX_HANDLED_BLOCKS /\ wrBlock \in 0..rbCtr
      /\ BZ_MAX_HANDLED_BLOCKS \in Nat
      /\ L \in Nat /\ L >= 1 /\ MinBits \in Nat /\ MinBits >= L - 1 /\ CrcLen \in 1..L
  BY <1>1, FileBits, Sizes DEF TypeInv
<1>3. \A k \in 0..rbCtr : rbStart[k] \in Nat /\ rbEnd[k] \in Nat
  <2>1. rbStart \in [Slots -> Nat] /\ rbEnd \in [Slots -> Nat]
    BY <1>1 DEF TypeInv, Tables
  <2>2. \A k \in 0..rbCtr : k \in Slots
    BY <1>2 DEF Slots
  <2> QED BY <2>1, <2>2
<1>4. TableInv /\ rbCtr > 0
  BY <1>1 DEF SplitInv, Fine
<1>5. rbStart[rbCtr] = 0 /\ rbEnd[rbCtr] = 0
  <2>1. rbCtr \in Slots /\ rbCtr >= rbCtr
    BY <1>2 DEF Slots
  <2> QED BY <1>4, <2>1 DEF TableInv
<1>6. bitsRead \in Nat /\ rbCtr \in Nat /\ rbCtr <= BZ_MAX_HANDLED_BLOCKS /\ wrBlock \in Nat
  BY <1>2
<1>7. \A k \in 0..(rbCtr - 1) : Entry(k)
  BY <1>4 DEF TableInv
<1> QED BY <1>1, <1>2, <1>3, <1>4, <1>5, <1>6, <1>7 DEF SplitInv, Fine

(* The open file after a bit of its block. *)
LEMMA SplitPut ==
  ASSUME IInv, SplitBit, Fine, isOpen
  PROVE  /\ Put = BZh9 \o BLOCK_HEADER \o SubSeq(bits, rbStart[wrBlock] + 1, bitsRead + 1)
         /\ bitsRead + 1 >= rbStart[wrBlock] + L =>
              Crc = SubSeq(bits, rbStart[wrBlock] + 1, rbStart[wrBlock] + CrcLen)
<1> DEFINE q == rbStart[wrBlock]
           r == bitsRead
           b == bits[r + 1]
<1>1. /\ bits \in Files /\ r \in Nat /\ q \in Nat /\ q <= r /\ r <= rbEnd[wrBlock]
      /\ L \in Nat /\ L >= 1 /\ CrcLen \in 1..L /\ wrBlock < rbCtr /\ Len(bits) \in Nat
      /\ bsWr = BZh9 \o BLOCK_HEADER \o SubSeq(bits, q + 1, r)
      /\ r >= q + L => blockCRC = SubSeq(bits, q + 1, q + CrcLen)
  <2>1. pc = "split"
    BY SplitCases
  <2>2. wrBlock \in 0..rbCtr
    BY <2>1, SplitFacts
  <2> QED BY <2>1, <2>2, SplitFacts
<1>2. /\ bitsRead' \in 1..Len(bits) /\ b \in Bits /\ bsGetBit = b /\ bitsRead' = r + 1
      /\ \A i \in 1..L : (r + 1) - L + i >= 1 => window'[i] = bits[(r + 1) - L + i]
      /\ window' \in Seq(Bits) /\ Len(window') = L
  <2>1. bitsRead' = r + 1
    BY SplitCases
  <2> QED BY <2>1, SplitTypes
<1> HIDE DEF q, r, b
<1>3. Put = BZh9 \o BLOCK_HEADER \o SubSeq(bits, q + 1, r + 1)
  <2>1. Put = Append(bsWr, b)
    BY <1>1, <1>2 DEF Put, q, r
  <2>2. r + 1 <= Len(bits)
    BY <1>1, <1>2
  <2> DEFINE s == SubSeq(bits, q + 1, r)
  <2>3. s \in Seq(Bits) /\ SubSeq(bits, q + 1, r + 1) = Append(s, b)
    BY <1>1, <2>2, PartNext DEF b
  <2> HIDE DEF s
  <2>4. BZh9 \o BLOCK_HEADER \in Seq(Bits)
    BY Sizes, ConcatProperties
  <2> DEFINE head == BZh9 \o BLOCK_HEADER
  <2>5. head \in Seq(Bits) /\ s \in Seq(Bits) /\ b \in Bits
    BY <1>2, <2>3, <2>4
  <2> HIDE DEF head
  <2>6. Append(head \o s, b) = head \o Append(s, b)
    <3>1. head \o s \in Seq(Bits) /\ <<b>> \in Seq(Bits)
      BY <2>5, ConcatProperties
    <3>2. Append(head \o s, b) = (head \o s) \o <<b>> /\ Append(s, b) = s \o <<b>>
      BY <2>5, <3>1, AppendIsConcat
    <3>3. (head \o s) \o <<b>> = head \o (s \o <<b>>)
      BY <2>5, <3>1, Regroup
    <3> QED BY <3>2, <3>3
  <2>7. bsWr = head \o s
    BY <1>1 DEF head, s
  <2> QED BY <2>1, <2>3, <2>6, <2>7 DEF head
<1>4. ASSUME r + 1 >= q + L PROVE Crc = SubSeq(bits, q + 1, q + CrcLen)
  <2>1. CASE r = L - 1 + q
    <3>1. Crc = SubSeq(window', 1, CrcLen)
      BY <2>1 DEF Crc, q, r
    <3>2. (r + 1) - L = q /\ q + CrcLen <= Len(bits) /\ CrcLen \in Nat /\ CrcLen <= L
      BY <1>1, <1>2, <2>1
    <3>3. \A i \in 1..L : window'[i] = bits[q + i] /\ window'[i] \in Bits
      <4> TAKE i \in 1..L
      <4>1. (r + 1) - L + i = q + i /\ q + i >= 1
        BY <1>1, <3>2
      <4>2. window'[i] = bits[q + i]
        BY <1>2, <4>1
      <4> QED BY <1>2, <4>2, ElementOfSeq
    <3>4. /\ SubSeq(window', 1, CrcLen) \in Seq(Bits) /\ Len(SubSeq(window', 1, CrcLen)) = CrcLen
          /\ \A i \in 1..CrcLen : SubSeq(window', 1, CrcLen)[i] = bits[q + i]
      <4>1. \A i \in 1..CrcLen : window'[i] \in Bits /\ window'[i] = bits[q + i]
        BY <1>1, <3>2, <3>3
      <4> QED BY <3>2, <4>1, SubSeqProperties
    <3>5. /\ SubSeq(bits, q + 1, q + CrcLen) \in Seq(Bits) /\ Len(SubSeq(bits, q + 1, q + CrcLen)) = CrcLen
          /\ \A i \in 1..CrcLen : SubSeq(bits, q + 1, q + CrcLen)[i] = bits[q + i]
      <4> DEFINE e == q + CrcLen
      <4>1. e \in Nat /\ q <= e /\ e - q = CrcLen /\ e <= Len(bits)
        BY <1>1, <3>2
      <4> HIDE DEF e
      <4>2. /\ SubSeq(bits, q + 1, e) \in Seq(Bits) /\ Len(SubSeq(bits, q + 1, e)) = e - q
            /\ \A i \in 1..(e - q) : SubSeq(bits, q + 1, e)[i] = bits[q + i]
        BY <1>1, <4>1, PartOf
      <4> QED BY <4>1, <4>2 DEF e
    <3> QED BY <3>1, <3>4, <3>5, SeqEqual
  <2>2. CASE r # L - 1 + q
    <3>1. Crc = blockCRC
      BY <2>2 DEF Crc, q, r
    <3>2. r >= q + L
      BY <1>1, <1>4, <2>2
    <3> QED BY <1>1, <3>1, <3>2
  <2> QED BY <2>1, <2>2
<1> QED BY <1>3, <1>4 DEF q, r

(* The file closed is the stream of its block.                              *)
LEMMA SplitClosed ==
  ASSUME IInv, SplitBit, Fine, Closes, wrBlock < rbCtr
  PROVE  Closed' = Written(wrBlock + 1)
<1> DEFINE w == wrBlock
           q == rbStart[w]
           e == rbEnd[w]
           s == Block(bits, q, e)
<1>1. /\ bits \in Files /\ bitsRead \in Nat /\ q \in Nat /\ e \in Nat /\ Entry(w)
      /\ L \in Nat /\ L >= 1 /\ CrcLen \in 1..L /\ MinBits \in Nat /\ MinBits >= L - 1
      /\ w \in Nat /\ Closed = Written(w) /\ Len(bits) \in Nat
      /\ isOpen <=> q <= bitsRead
      /\ files \in Seq(Nat \X Seq(Bits))
  <2>1. pc = "split" /\ TypeInv
    BY SplitCases DEF IInv
  <2>2. w \in 0..rbCtr /\ w \in 0..(rbCtr - 1)
    BY <2>1, SplitFacts
  <2>3. files \in Seq(Nat \X Seq(Bits))
    BY <2>1 DEF TypeInv
  <2> QED BY <2>1, <2>2, <2>3, SplitFacts
<1>a. /\ bitsRead \in Nat /\ q \in Nat /\ e \in Nat /\ Len(bits) \in Nat
      /\ L \in Nat /\ CrcLen \in 1..L /\ MinBits \in Nat /\ MinBits >= L - 1
  BY <1>1
<1>2. bitsRead = e
  <2>1. bitsRead + 1 = e + 1
    BY SplitCases DEF Closes
  <2>2. bitsRead \in Nat /\ e \in Nat
    BY <1>a
  <2> HIDE DEF e
  <2> QED BY <2>1, <2>2
<1>3. /\ files' = IF isOpen THEN Append(files, <<w, Padded(Put \o Trailer(Crc))>>) ELSE files
  BY DEF Closes
<1>4. isOpen <=> IsLong(q, e)
  BY <1>1, <1>2 DEF Entry, IsLong
<1>5. Written(w + 1) = IF IsLong(q, e) THEN Append(Written(w), OneBlockStream(s)) ELSE Written(w)
  <2>1. w \in Nat
    BY <1>1
  <2> HIDE DEF w
  <2>2. WrittenOf(bits, rbStart, rbEnd, w + 1) =
          IF IsLong(rbStart[w], rbEnd[w])
          THEN Append(WrittenOf(bits, rbStart, rbEnd, w), OneBlockStream(Block(bits, rbStart[w], rbEnd[w])))
          ELSE WrittenOf(bits, rbStart, rbEnd, w)
    BY <2>1, WrittenNext
  <2> QED BY <2>2 DEF Written
<1>6. CASE ~isOpen
  <2>1. files' = files
    BY <1>3, <1>6
  <2>2. Closed' = Closed
    BY <2>1 DEF Closed
  <2> QED BY <1>1, <1>4, <1>5, <1>6, <2>2
<1>7. CASE isOpen
  <2>1. e < Len(bits) /\ e - q >= MinBits /\ q + L <= e + 1
    BY <1>1, <1>4, <1>7 DEF Entry, IsLong
  <2>2. /\ Put = BZh9 \o BLOCK_HEADER \o s
        /\ Crc = SubSeq(bits, q + 1, q + CrcLen)
    BY <1>1, <1>2, <1>7, <2>1, SplitPut DEF Block
  <2>3. s \in Seq(Bits) /\ SubSeq(s, 1, CrcLen) = Crc
    <3> DEFINE n == CrcLen
    <3>1. n \in Nat /\ n >= 1 /\ n <= L /\ q + n <= e + 1
      <4> HIDE DEF q, e
      <4>1. n \in Nat /\ n >= 1 /\ n <= L
        BY <1>a
      <4> QED BY <1>a, <2>1, <4>1
    <3>2. /\ s \in Seq(Bits) /\ \A i \in 1..n : s[i] = bits[q + i] /\ s[i] \in Bits
      <4>1. e + 1 \in Nat /\ q <= e + 1 /\ e + 1 <= Len(bits)
        <5> HIDE DEF q, e, n
        <5> QED BY <1>a, <2>1, <3>1
      <4>2. s \in Seq(Bits) /\ Len(s) = (e + 1) - q /\ \A i \in 1..((e + 1) - q) : s[i] = bits[q + i]
        BY <1>1, <4>1, PartOf DEF Block
      <4> HIDE DEF s, q, e, n
      <4>3. \A i \in 1..n : i \in 1..((e + 1) - q)
        BY <1>1, <3>1
      <4>4. \A i \in 1..((e + 1) - q) : s[i] \in Bits
        BY <4>2, ElementOfSeq
      <4> QED BY <4>2, <4>3, <4>4
    <3> HIDE DEF s
    <3>3. /\ SubSeq(s, 1, n) \in Seq(Bits) /\ Len(SubSeq(s, 1, n)) = n
          /\ \A i \in 1..n : SubSeq(s, 1, n)[i] = bits[q + i]
      BY <3>1, <3>2, SubSeqProperties
    <3>4. /\ Crc \in Seq(Bits) /\ Len(Crc) = n
          /\ \A i \in 1..n : Crc[i] = bits[q + i]
      <4>1. q + n \in Nat /\ q <= q + n /\ q + n <= Len(bits) /\ (q + n) - q = n
        <5> HIDE DEF q, e, n
        <5> QED BY <1>a, <2>1, <3>1
      <4>2. LET c == SubSeq(bits, q + 1, q + n)
            IN  c \in Seq(Bits) /\ Len(c) = n /\ \A i \in 1..n : c[i] = bits[q + i]
        <5>1. bits \in Files /\ q \in Nat
          BY <1>1
        <5> HIDE DEF q, e, n
        <5>2. /\ SubSeq(bits, q + 1, q + n) \in Seq(Bits)
              /\ Len(SubSeq(bits, q + 1, q + n)) = (q + n) - q
              /\ \A i \in 1..((q + n) - q) : SubSeq(bits, q + 1, q + n)[i] = bits[q + i]
          BY <4>1, <5>1, PartOf
        <5> QED BY <4>1, <5>2
      <4> QED BY <2>2, <4>2
    <3> HIDE DEF n
    <3>5. \A i \in 1..n : SubSeq(s, 1, n)[i] = Crc[i]
      BY <3>3, <3>4
    <3>6. SubSeq(s, 1, n) = Crc
      BY <3>3, <3>4, <3>5, SeqEqual
    <3> QED BY <3>2, <3>6 DEF n
  <2>4. Padded(Put \o Trailer(Crc)) = OneBlockStream(s)
    <3> DEFINE head == BZh9 \o BLOCK_HEADER
    <3>1. head \in Seq(Bits) /\ BLOCK_ENDMARK \in Seq(Bits)
      BY Sizes, ConcatProperties
    <3>2. Crc \in Seq(Bits)
      BY SplitTypes
    <3>3. OneBlockStream(s) = Padded(((head \o s) \o BLOCK_ENDMARK) \o Crc)
      BY <2>3 DEF OneBlockStream
    <3>4. Put \o Trailer(Crc) = (head \o s) \o (BLOCK_ENDMARK \o Crc)
      BY <2>2 DEF Trailer
    <3> HIDE DEF head, s
    <3>5. head \o s \in Seq(Bits)
      BY <2>3, <3>1, ConcatProperties
    <3>6. ((head \o s) \o BLOCK_ENDMARK) \o Crc = (head \o s) \o (BLOCK_ENDMARK \o Crc)
      BY <3>1, <3>2, <3>5, Regroup
    <3> QED BY <3>3, <3>4, <3>6
  <2>5. Closed' = Append(Closed, OneBlockStream(s))
    <3> DEFINE x == OneBlockStream(s)  S == Seq(Bits)
    <3>1. files' = Append(files, <<w, x>>)
      BY <1>3, <1>7, <2>4
    <3>2. x \in S
      BY <2>4, SplitTypes
    <3>3. files \in Seq(Nat \X S) /\ w \in Nat
      BY <1>1
    <3> HIDE DEF x, S, w
    <3>4. <<w, x>> \in Nat \X S /\ <<w, x>>[2] = x
      BY <3>2, <3>3
    <3>5. /\ Len(files) \in Nat /\ Len(files') = Len(files) + 1
          /\ \A k \in 1..Len(files) : files'[k] = files[k]
          /\ files'[Len(files) + 1] = <<w, x>>
      BY <3>1, <3>3, <3>4, AppendProperties, LenProperties
    <3>6. [k \in 1..Len(files') |-> files'[k][2]] = Append([k \in 1..Len(files) |-> files[k][2]], x)
      <4> DEFINE n == Len(files)
                 u == [k \in 1..n |-> files[k][2]]
      <4>1. \A k \in 1..n : files[k][2] \in S
        <5> TAKE k \in 1..n
        <5>1. files[k] \in Nat \X S
          BY <3>3, ElementOfSeq
        <5> QED BY <5>1
      <4>2. u \in Seq(S) /\ Len(u) = n /\ \A k \in 1..n : u[k] = files[k][2]
        BY <3>5, <4>1
      <4> HIDE DEF n, u
      <4>3. /\ Append(u, x) \in Seq(S) /\ Len(Append(u, x)) = n + 1
            /\ \A k \in 1..n : Append(u, x)[k] = files[k][2]
            /\ Append(u, x)[n + 1] = x
        BY <3>2, <4>2, AppendProperties
      <4> DEFINE v == [k \in 1..Len(files') |-> files'[k][2]]
      <4>4. n \in Nat /\ Len(files') = n + 1
        BY <3>5 DEF n
      <4>5. \A k \in 1..(n + 1) : files'[k][2] = Append(u, x)[k] /\ files'[k][2] \in S
        <5> SUFFICES ASSUME NEW k \in 1..(n + 1)
                     PROVE  files'[k][2] = Append(u, x)[k] /\ files'[k][2] \in S
          OBVIOUS
        <5>1. ASSUME k \in 1..n PROVE files'[k][2] = Append(u, x)[k] /\ files'[k][2] \in S
          BY <3>5, <4>1, <4>3, <5>1 DEF n
        <5>2. ASSUME k = n + 1 PROVE files'[k][2] = Append(u, x)[k] /\ files'[k][2] \in S
          BY <3>2, <3>4, <3>5, <4>3, <5>2 DEF n
        <5>3. k \in 1..n \/ k = n + 1
          BY <4>4
        <5> QED BY <5>1, <5>2, <5>3
      <4>6. v \in Seq(S) /\ Len(v) = n + 1 /\ \A k \in 1..(n + 1) : v[k] = Append(u, x)[k]
        <5> DEFINE f == files'
        <5>1. \A k \in 1..(n + 1) : f[k][2] = Append(u, x)[k] /\ f[k][2] \in S
          BY <4>5
        <5>2. v = [k \in 1..(n + 1) |-> f[k][2]]
          BY <4>4
        <5> HIDE DEF f, v
        <5>3. \A k \in 1..(n + 1) : v[k] = Append(u, x)[k]
          BY <5>1, <5>2
        <5>4. v \in Seq(S) /\ Len(v) = n + 1
          BY <4>4, <5>1, <5>2
        <5> QED BY <5>3, <5>4
      <4> HIDE DEF v
      <4>7. v = Append(u, x)
        BY <4>3, <4>6, SeqEqual
      <4> QED BY <4>7 DEF v, u, n
    <3> QED BY <3>6 DEF Closed, x
  <2> QED BY <1>1, <1>4, <1>5, <1>7, <2>5
<1> QED BY <1>6, <1>7

LEMMA SplitBitStep ==
  ASSUME IInv, SplitBit
  PROVE  IInv'
<1>1. /\ pc = "split" /\ bitsRead' = bitsRead + 1 /\ blockCRC' = Crc
      /\ UNCHANGED <<bits, scanVars>>
      /\ Closes \/ Opens \/ Goes
  BY SplitCases
<1>2. TypeInv' /\ WindowInv' /\ CountInv'
  BY SplitTypes
<1>3. /\ Marks' = Marks /\ Expected' = Expected /\ TableInv' = TableInv
      /\ bits' = bits /\ rbCtr' = rbCtr /\ rbStart' = rbStart /\ rbEnd' = rbEnd
  <2>1. UNCHANGED <<bits, currBlock, bStart, bEnd, rbCtr, rbStart, rbEnd>>
    BY <1>1 DEF scanVars
  <2>2. TableInv' = TableInv
    BY <2>1 DEF TableInv, Entry
  <2> QED BY <2>1, <2>2, SameFile
<1>4. ASSUME Fine PROVE SplitInv' /\ BlocksExtracted'
  <2> DEFINE w == wrBlock
             r == bitsRead
  <2>1. /\ r \in Nat /\ rbCtr \in Nat /\ rbCtr > 0 /\ w \in 0..rbCtr /\ w \in Nat
        /\ L \in Nat /\ L >= 1 /\ MinBits \in Nat
        /\ \A k \in 0..rbCtr : rbStart[k] \in Nat /\ rbEnd[k] \in Nat
        /\ \A k \in 0..(rbCtr - 1) : Entry(k)
        /\ rbStart[rbCtr] = 0 /\ rbEnd[rbCtr] = 0
        /\ Written(rbCtr) = Expected /\ Closed = Written(w)
        /\ w < rbCtr => r <= rbEnd[w]
        /\ w > 0 => r >= rbEnd[w - 1] + 1
        /\ isOpen <=> w < rbCtr /\ rbStart[w] <= r
    BY <1>1, <1>4, SplitFacts
  <2>2. TableInv' /\ (rbCtr > 0)' /\ (Written(rbCtr) = Expected)'
    <3>1. TableInv
      BY <1>1, <1>4 DEF IInv, SplitInv, Fine
    <3>2. Written(rbCtr)' = Written(rbCtr)
      BY <1>3 DEF Written
    <3> QED BY <1>3, <2>1, <3>1, <3>2
  <2>3. r + 1 = bitsRead' /\ r + 1 \in Nat
    BY <1>1, <2>1
  <2>4. CASE Closes
    <3>1. w < rbCtr
      <4> SUFFICES ASSUME w = rbCtr PROVE FALSE
        BY <2>1
      <4>1. r = 0
        BY <2>1, <2>3, <2>4 DEF Closes
      <4>2. rbCtr - 1 \in 0..rbCtr /\ rbEnd[rbCtr - 1] \in Nat
        BY <2>1
      <4> QED BY <2>1, <4>1, <4>2
    <3>2. /\ wrBlock' = w + 1 /\ pc' = "split" /\ ~isOpen' /\ r = rbEnd[w]
      <4>1. ~(w >= rbCtr) /\ rbEnd[w] \in Nat
        BY <2>1, <3>1
      <4>2. r + 1 = rbEnd[w] + 1
        BY <1>1, <2>4 DEF Closes
      <4> QED BY <1>1, <2>1, <2>4, <4>1, <4>2 DEF Closes
    <3>3. Closed' = Written(w + 1)
      BY <1>4, <2>4, <3>1, SplitClosed
    <3>4. Written(wrBlock)' = Written(w + 1)
      BY <1>3, <3>2 DEF Written
    <3>5. ASSUME w + 1 < rbCtr PROVE r + 1 <= rbEnd[w + 1] /\ ~(rbStart[w + 1] <= r + 1)
      <4>1. Entry(w + 1) /\ (w + 1) - 1 = w /\ w + 1 > 0 /\ rbEnd[w + 1] \in Nat /\ rbStart[w + 1] \in Nat
        BY <2>1, <3>5
      <4>2. rbEnd[w] < rbEnd[w + 1] /\ rbEnd[w] + 1 < rbStart[w + 1]
        BY <4>1 DEF Entry
      <4> QED BY <2>1, <3>2, <4>1, <4>2
    <3>6. r + 1 >= rbEnd[(w + 1) - 1] + 1
      <4>1. (w + 1) - 1 = w
        BY <2>1
      <4> QED BY <2>1, <3>2, <4>1
    <3>7. SplitInv'
      <4>1. /\ (wrBlock < rbCtr => bitsRead <= rbEnd[wrBlock])'
            /\ (wrBlock > 0 => bitsRead >= rbEnd[wrBlock - 1] + 1)'
            /\ (isOpen <=> wrBlock < rbCtr /\ rbStart[wrBlock] <= bitsRead)'
        BY <1>3, <2>3, <3>2, <3>5, <3>6
      <4> QED BY <2>2, <3>2, <3>3, <3>4, <4>1 DEF SplitInv
    <3>8. BlocksExtracted'
      <4>1. IsPrefix(Written(w + 1), Written(rbCtr))
        <5>1. w + 1 \in Nat /\ w + 1 <= rbCtr
          BY <2>1, <3>1
        <5> QED BY <2>1, <5>1, WrittenNext DEF Written
      <4>2. IsPrefix(Closed, Expected)'
        BY <1>3, <2>1, <3>3, <4>1 DEF IsPrefix
      <4> QED BY <3>2, <4>2 DEF BlocksExtracted, Closed
    <3> QED BY <3>7, <3>8
  <2>5. ASSUME UNCHANGED <<pc, wrBlock, files>> PROVE Closed' = Written(wrBlock)' /\ BlocksExtracted'
    <3>1. Closed' = Closed
      BY <2>5 DEF Closed
    <3>2. Written(wrBlock)' = Written(wrBlock)
      BY <1>3, <2>5 DEF Written
    <3>3. BlocksExtracted'
      BY <1>1, <1>3, <2>5, <3>1 DEF IInv, BlocksExtracted, Closed
    <3> QED BY <2>1, <3>1, <3>2, <3>3
  <2>6. ASSUME w < rbCtr, bitsRead' # rbEnd[w] + 1 PROVE r + 1 <= rbEnd[w]
    <3>1. rbEnd[w] \in Nat /\ r <= rbEnd[w] /\ r + 1 # rbEnd[w] + 1
      BY <2>1, <2>3, <2>6
    <3> QED BY <2>1, <3>1
  <2>7. w > 0 => r + 1 >= rbEnd[w - 1] + 1
    <3> SUFFICES ASSUME w > 0 PROVE r + 1 >= rbEnd[w - 1] + 1
      OBVIOUS
    <3>1. w - 1 \in 0..rbCtr
      BY <2>1
    <3>2. rbEnd[w - 1] \in Nat
      BY <2>1, <3>1
    <3> QED BY <2>1, <3>2
  <2>8. CASE Opens
    <3>1. /\ bitsRead' # rbEnd[w] + 1 /\ bitsRead' = rbStart[w] /\ isOpen' = TRUE
          /\ bsWr' = BZh9 \o BLOCK_HEADER /\ UNCHANGED <<pc, wrBlock, files>>
      BY <2>8 DEF Opens
    <3>2. w < rbCtr
      BY <2>1, <2>3, <3>1
    <3>3. bsWr' = BZh9 \o BLOCK_HEADER \o SubSeq(bits, rbStart[w] + 1, r + 1)
      <4>1. rbStart[w] \in Nat /\ rbStart[w] = r + 1
        BY <2>1, <2>3, <3>1
      <4>2. SubSeq(bits, rbStart[w] + 1, r + 1) = <<>>
        BY <2>3, <4>1, SubSeqEmpty
      <4>3. BZh9 \o BLOCK_HEADER \in Seq(Bits)
        BY Sizes, ConcatProperties
      <4>4. (BZh9 \o BLOCK_HEADER) \o <<>> = BZh9 \o BLOCK_HEADER
        BY <4>3, ConcatEmptySeq
      <4> QED BY <3>1, <4>2, <4>4
    <3>4. ~(r + 1 >= rbStart[w] + L)
      BY <2>1, <2>3, <3>1
    <3>5. /\ (wrBlock < rbCtr => bitsRead <= rbEnd[wrBlock])'
          /\ (wrBlock > 0 => bitsRead >= rbEnd[wrBlock - 1] + 1)'
          /\ (isOpen <=> wrBlock < rbCtr /\ rbStart[wrBlock] <= bitsRead)'
          /\ (isOpen => /\ bsWr = BZh9 \o BLOCK_HEADER \o SubSeq(bits, rbStart[wrBlock] + 1, bitsRead)
                        /\ bitsRead >= rbStart[wrBlock] + L =>
                             blockCRC = SubSeq(bits, rbStart[wrBlock] + 1, rbStart[wrBlock] + CrcLen))'
      <4>1. rbStart[w] <= r + 1
        BY <2>1, <2>3, <3>1
      <4> QED BY <1>3, <2>3, <2>6, <2>7, <3>1, <3>2, <3>3, <3>4, <4>1
    <3> QED BY <1>3, <2>2, <2>5, <3>1, <3>5 DEF SplitInv
  <2>9. CASE Goes
    <3>1. /\ bitsRead' # rbEnd[w] + 1 /\ bitsRead' # rbStart[w]
          /\ bsWr' = Put /\ UNCHANGED <<pc, wrBlock, isOpen, files>>
      BY <2>9 DEF Goes
    <3>2. w < rbCtr => (rbStart[w] <= r + 1 <=> rbStart[w] <= r)
      <4>1. rbStart[w] \in Nat /\ r + 1 # rbStart[w]
        BY <2>1, <2>3, <3>1
      <4> QED BY <2>1, <4>1
    <3>3. isOpen => /\ Put = BZh9 \o BLOCK_HEADER \o SubSeq(bits, rbStart[w] + 1, r + 1)
                    /\ r + 1 >= rbStart[w] + L =>
                         Crc = SubSeq(bits, rbStart[w] + 1, rbStart[w] + CrcLen)
      BY <1>4, SplitPut
    <3>4. /\ (wrBlock < rbCtr => bitsRead <= rbEnd[wrBlock])'
          /\ (wrBlock > 0 => bitsRead >= rbEnd[wrBlock - 1] + 1)'
      BY <1>3, <2>3, <2>6, <2>7, <3>1
    <3>5. (isOpen <=> wrBlock < rbCtr /\ rbStart[wrBlock] <= bitsRead)'
      BY <1>3, <2>1, <2>3, <3>1, <3>2
    <3>6. (isOpen => /\ bsWr = BZh9 \o BLOCK_HEADER \o SubSeq(bits, rbStart[wrBlock] + 1, bitsRead)
                     /\ bitsRead >= rbStart[wrBlock] + L =>
                          blockCRC = SubSeq(bits, rbStart[wrBlock] + 1, rbStart[wrBlock] + CrcLen))'
      BY <1>1, <1>3, <2>3, <3>1, <3>3
    <3> QED BY <1>3, <2>2, <2>5, <3>1, <3>4, <3>5, <3>6 DEF SplitInv
  <2> QED BY <1>1, <2>4, <2>8, <2>9
<1>5. ASSUME ~Fine PROVE SplitInv' /\ BlocksExtracted'
  BY <1>3, <1>5 DEF SplitInv, BlocksExtracted, Fine
<1>6. SplitInv' /\ BlocksExtracted'
  BY <1>4, <1>5
<1>7. pc' # "scan"
  BY <1>1 DEF Closes, Opens, Goes
<1> QED BY <1>2, <1>6, <1>7 DEF IInv, ScanInv

(* The end of the second pass: no block waits any more.                     *)
LEMMA SplitEndStep ==
  ASSUME IInv, SplitEnd
  PROVE  IInv'
<1>1. /\ pc = "split" /\ pc' = "finished" /\ AtEOF
      /\ UNCHANGED <<bits, bitsRead, window, currBlock, bStart, bEnd, rbCtr, rbStart, rbEnd>>
      /\ UNCHANGED <<wrBlock, blockCRC, bsWr, isOpen, files>>
  BY DEF SplitEnd, scanVars, splitVars
<1>2. TypeInv'
  BY <1>1 DEF IInv, TypeInv, Tables, Slots
<1>3. Marks' = Marks /\ Expected' = Expected /\ Closed' = Closed
  BY <1>1, SameFile DEF Closed
<1>4. CountInv'
  BY <1>1, <1>3 DEF IInv, CountInv
<1>5. ASSUME Fine PROVE Closed = Expected
  <2>1. /\ bitsRead \in Nat /\ Len(bits) \in Nat /\ rbCtr \in Nat /\ wrBlock \in 0..rbCtr
        /\ \A k \in 0..(rbCtr - 1) : Entry(k)
        /\ \A k \in 0..rbCtr : rbEnd[k] \in Nat
        /\ Written(rbCtr) = Expected /\ Closed = Written(wrBlock)
        /\ wrBlock < rbCtr => bitsRead <= rbEnd[wrBlock]
    BY <1>1, <1>5, SplitFacts
  <2>2. ~(wrBlock < rbCtr)
    <3> SUFFICES ASSUME wrBlock < rbCtr PROVE FALSE
      OBVIOUS
    <3>1. rbEnd[wrBlock] < Len(bits) /\ rbEnd[wrBlock] \in Nat
      BY <2>1 DEF Entry
    <3> QED BY <1>1, <2>1, <3>1 DEF AtEOF
  <2>3. wrBlock = rbCtr
    BY <2>1, <2>2
  <2> QED BY <2>1, <2>3
<1>6. BlocksExtracted'
  <2> SUFFICES ASSUME Fine PROVE BlocksExtracted'
    BY <1>3 DEF BlocksExtracted, Fine
  <2>1. IsPrefix(Closed, Expected)
    BY <1>1 DEF IInv, BlocksExtracted, Fine, Closed
  <2> QED BY <1>1, <1>3, <1>5, <2>1 DEF BlocksExtracted, Closed
<1> QED BY <1>1, <1>2, <1>4, <1>6 DEF IInv, WindowInv, ScanInv, SplitInv

LEMMA FailsStep ==
  ASSUME IInv, Fails
  PROVE  IInv'
<1>1. /\ pc \in {"scan", "split"} /\ pc' = "failed"
      /\ UNCHANGED <<bits, bitsRead, window, currBlock, bStart, bEnd, rbCtr, rbStart, rbEnd>>
      /\ UNCHANGED <<wrBlock, blockCRC, bsWr, isOpen, files>>
  BY DEF Fails, scanVars, splitVars
<1>2. TypeInv'
  BY <1>1 DEF IInv, TypeInv, Tables, Slots
<1>3. Marks' = Marks /\ Expected' = Expected /\ Closed' = Closed
  BY <1>1, SameFile DEF Closed
<1>4. CountInv'
  BY <1>1, <1>3 DEF IInv, CountInv
<1>5. ASSUME Fine PROVE IsPrefix(Closed, Expected)
  <2>1. CASE pc = "split"
    BY <1>5, <2>1 DEF IInv, BlocksExtracted, Fine, Closed
  <2>2. CASE pc = "scan"
    <3>1. files = <<>> /\ bits \in Files
      BY <2>2 DEF IInv, CountInv, TypeInv
    <3>2. Closed = [k \in 1..0 |-> files[k][2]]
      BY <3>1 DEF Closed
    <3>3. \A t : [k \in 1..0 |-> t[k][2]] = <<>>
      OBVIOUS
    <3> QED BY <3>1, <3>2, <3>3, ExpectedIs
  <2> QED BY <1>1, <2>1, <2>2
<1>6. BlocksExtracted'
  BY <1>1, <1>3, <1>5 DEF BlocksExtracted, Closed, Fine
<1> QED BY <1>1, <1>2, <1>4, <1>6 DEF IInv, WindowInv, ScanInv, SplitInv

------------------------------------------------------------------------------

LEMMA NextIInv == IInv /\ [Next]_vars => IInv'
<1> SUFFICES ASSUME IInv, [Next]_vars PROVE IInv'
  OBVIOUS
<1>1. CASE Next
  BY <1>1, ScanBitStep, ScanEndStep, SplitBitStep, SplitEndStep, FailsStep DEF Next
<1>2. CASE UNCHANGED vars
  <2>1. /\ UNCHANGED <<bits, pc, bitsRead, window, currBlock, bStart, bEnd, rbCtr, rbStart, rbEnd>>
        /\ UNCHANGED <<wrBlock, blockCRC, bsWr, isOpen, files>>
    BY <1>2 DEF vars, scanVars, splitVars
  <2>2. TypeInv' = TypeInv /\ WindowInv' = WindowInv
    BY <2>1 DEF TypeInv, WindowInv
  <2>3. CountInv' = CountInv
    BY <2>1 DEF CountInv, Read, Marks, MarksIn
  <2>4. ScanInv' = ScanInv
    BY <2>1 DEF ScanInv, TableInv, Entry, Mark, Read, MarksIn, Marks, Found, Between, Written
  <2>5. SplitInv' = SplitInv
    BY <2>1 DEF SplitInv, TableInv, Entry, Closed, Written, Expected, Read, MarksIn, Marks, Found, Between
  <2>6. BlocksExtracted' = BlocksExtracted
    BY <2>1 DEF BlocksExtracted, Expected, Read, MarksIn, Marks, Found, Between
  <2> QED BY <2>2, <2>3, <2>4, <2>5, <2>6 DEF IInv
<1> QED BY <1>1, <1>2

(* Every block between two marks of the damaged file comes out, in order,   *)
(* bit for bit and with its CRC, in a stream of its own, and nothing else.  *)
THEOREM BlocksAreExtracted == Spec => []BlocksExtracted
<1>1. IInv => BlocksExtracted
  BY DEF IInv
<1> QED BY <1>1, InitIInv, NextIInv, PTL DEF Spec

(* No index leaves the tables by more than the one entry behind them, and a *)
(* file with more marks than the tables hold is refused with no file        *)
(* written.                                                                 *)
THEOREM TooManyAreRefused == Spec => []TooManyRefused
<1>1. IInv => TooManyRefused
  <2> SUFFICES ASSUME IInv PROVE TooManyRefused
    OBVIOUS
  <2>1. /\ currBlock \in -1..BZ_MAX_HANDLED_BLOCKS /\ rbCtr \in 0..BZ_MAX_HANDLED_BLOCKS
        /\ BZ_MAX_HANDLED_BLOCKS \in Nat /\ bits \in Files
        /\ pc \in {"scan", "split", "noBlocks", "tooManyBlocks", "finished", "failed"}
    BY Sizes DEF IInv, TypeInv
  <2>2. Len(Marks) \in Nat
    BY <2>1, ExpectedIs
  <2>3. pc \in {"split", "noBlocks", "finished"} \/ files # <<>> => Len(Marks) <= BZ_MAX_HANDLED_BLOCKS
    BY DEF IInv, CountInv
  <2> QED BY <2>1, <2>2, <2>3 DEF TooManyRefused
<1> QED BY <1>1, InitIInv, NextIInv, PTL DEF Spec

(* The positions, the tables and the files written have their types.        *)
THEOREM TypesHold == Spec => []TypeInv
<1>1. IInv => TypeInv
  BY DEF IInv
<1> QED BY <1>1, InitIInv, NextIInv, PTL DEF Spec
===============================================================================
