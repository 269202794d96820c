----------------------------- MODULE StreamLemmas -----------------------------
(***************************************************************************)
(* Lemmas about the operators of RunLength and StreamFormat, for all       *)
(* sequences of any length.                                                *)
(*                                                                         *)
(* UnRLE and FlattenSeq are recursive functions over the positions of a    *)
(* sequence.  The induction they need is stated over sets: from the least  *)
(* number principle follows that a set with 0 and, with every number, the  *)
(* next one holds all numbers, and from that the existence and uniqueness  *)
(* of a function given by its first value and a step.  The other modules   *)
(* use only what one more element changes: UnRLEEmpty, UnRLEAppend,        *)
(* FlattenEmpty and FlattenAppend.                                         *)
(***************************************************************************)
EXTENDS StreamFormat, SequenceTheorems, WellFoundedInduction, TLAPS

------------------------------------------------------------------------------
(* Induction. *)

Less == {ss \in Nat \X Nat : ss[1] < ss[2]}

(* A set of numbers that holds some number holds a least one. *)
LEMMA LeastNumber ==
  ASSUME NEW T, T \subseteq Nat, T # {}
  PROVE  \E x \in T : \A y \in T : x <= y
<1>1. IsWellFoundedOn(Less, Nat)
  BY NatLessThanWellFounded DEF OpToRel, Less
<1>2. \E x \in T : \A y \in T : ~ (<<y, x>> \in Less)
  BY <1>1, WFMin
<1>3. \A x, y \in T : x \in Nat /\ y \in Nat
  OBVIOUS
<1>4. \A x, y \in Nat : ~ (<<y, x>> \in Less) => x <= y
  <2> SUFFICES ASSUME NEW x \in Nat, NEW y \in Nat, ~ (<<y, x>> \in Less)
               PROVE  x <= y
    OBVIOUS
  <2>1. <<y, x>> \in Nat \X Nat /\ <<y, x>>[1] = y /\ <<y, x>>[2] = x
    OBVIOUS
  <2>2. ~ (y < x)
    BY <2>1 DEF Less
  <2> QED BY <2>2
<1> QED BY <1>2, <1>3, <1>4

(* Induction, the property given as the set of the numbers that have it. *)
LEMMA SetInduction ==
  ASSUME NEW T, 0 \in T, \A n \in Nat : n \in T => n + 1 \in T
  PROVE  \A n \in Nat : n \in T
<1> SUFFICES ASSUME Nat \ T # {} PROVE FALSE
  OBVIOUS
<1>1. PICK x \in Nat \ T : \A y \in Nat \ T : x <= y
  BY LeastNumber
<1>2. x # 0 /\ x - 1 \in Nat
  BY <1>1
<1>3. x - 1 \in T
  BY <1>1, <1>2
<1>4. (x - 1) + 1 \in T
  BY <1>2, <1>3
<1> QED BY <1>1, <1>4

(* The function g on 0..n starts with b and goes on by `step', which gives *)
(* its value at i from the one at i - 1.                                   *)
Follows(g, n, b, step) == /\ g[0] = b
                          /\ \A i \in 1..n : g[i] = step[<<g[i - 1], i>>]

(* A first value and a step define a function. *)
LEMMA StepsExist ==
  ASSUME NEW S, NEW b \in S, NEW n \in Nat, NEW step \in [S \X (1..n) -> S]
  PROVE  \E g \in [0..n -> S] : Follows(g, n, b, step)
<1> DEFINE T == {k \in Nat : k <= n => \E g \in [0..k -> S] : Follows(g, k, b, step)}
<1>1. 0 \in T
  <2>1. [i \in 0..0 |-> b] \in [0..0 -> S] /\ Follows([i \in 0..0 |-> b], 0, b, step)
    BY DEF Follows
  <2> QED BY <2>1
<1>2. ASSUME NEW k \in Nat, k \in T PROVE k + 1 \in T
  <2> SUFFICES ASSUME k + 1 <= n
               PROVE  \E g \in [0..(k + 1) -> S] : Follows(g, k + 1, b, step)
    OBVIOUS
  <2>1. PICK g \in [0..k -> S] : Follows(g, k, b, step)
    BY <1>2
  <2> DEFINE v == step[<<g[k], k + 1>>]
             h == [i \in 0..(k + 1) |-> IF i = k + 1 THEN v ELSE g[i]]
  <2>2. v \in S
    <3>1. g[k] \in S /\ k + 1 \in 1..n
      OBVIOUS
    <3>2. <<g[k], k + 1>> \in S \X (1..n)
      BY <3>1
    <3> QED BY <3>2
  <2> HIDE DEF v
  <2>3. h \in [0..(k + 1) -> S]
    BY <2>2
  <2>4. h[0] = b /\ h[k + 1] = v /\ \A i \in 0..k : h[i] = g[i]
    BY <2>1 DEF Follows
  <2>5. \A i \in 1..(k + 1) : h[i] = step[<<h[i - 1], i>>]
    <3> SUFFICES ASSUME NEW i \in 1..(k + 1) PROVE h[i] = step[<<h[i - 1], i>>]
      OBVIOUS
    <3> HIDE DEF h
    <3>1. CASE i = k + 1
      <4>1. h[i - 1] = g[k]
        BY <2>4, <3>1
      <4> QED BY <2>4, <3>1, <4>1 DEF v
    <3>2. CASE i # k + 1
      <4>1. i \in 1..k /\ i - 1 \in 0..k
        BY <3>2
      <4> QED BY <2>1, <2>4, <4>1 DEF Follows
    <3> QED BY <3>1, <3>2
  <2>6. Follows(h, k + 1, b, step)
    <3> HIDE DEF h
    <3> QED BY <2>4, <2>5 DEF Follows
  <2> QED BY <2>3, <2>6
<1> HIDE DEF T
<1>3. n \in T
  BY <1>1, <1>2, SetInduction
<1> QED BY <1>3 DEF T

(* Two functions that begin alike and go on alike are equal on 0..n. *)
Alike(g, h, n) == /\ g[0] = h[0]
                  /\ \A i \in 1..n : g[i - 1] = h[i - 1] => g[i] = h[i]

LEMMA StepsAgree ==
  ASSUME NEW g, NEW h, NEW n \in Nat, Alike(g, h, n)
  PROVE  \A i \in 0..n : g[i] = h[i]
<1> DEFINE T == {k \in Nat : k <= n => g[k] = h[k]}
<1>1. 0 \in T
  BY DEF Alike
<1>2. ASSUME NEW k \in Nat, k \in T PROVE k + 1 \in T
  <2> SUFFICES ASSUME k + 1 <= n PROVE g[k + 1] = h[k + 1]
    OBVIOUS
  <2>1. k + 1 \in 1..n /\ (k + 1) - 1 = k /\ g[k] = h[k]
    BY <1>2
  <2> QED BY <2>1 DEF Alike
<1> HIDE DEF T
<1>3. \A k \in Nat : k \in T
  BY <1>1, <1>2, SetInduction
<1> QED BY <1>3 DEF T

------------------------------------------------------------------------------
(* Parts of sequences. *)

(* A sequence cut in two is its two parts. *)
LEMMA CutInTwo ==
  ASSUME NEW S, NEW s \in Seq(S), NEW k \in 0..Len(s)
  PROVE  /\ SubSeq(s, 1, k) \in Seq(S)
         /\ SubSeq(s, k + 1, Len(s)) \in Seq(S)
         /\ SubSeq(s, 1, k) \o SubSeq(s, k + 1, Len(s)) = s
         /\ k = Len(s) => SubSeq(s, k + 1, Len(s)) = <<>>
<1>1. Len(s) \in Nat /\ \A i \in 1..Len(s) : s[i] \in S
  BY LenProperties, ElementOfSeq
<1>2. SubSeq(s, 1, k) \in Seq(S) /\ SubSeq(s, k + 1, Len(s)) \in Seq(S)
  <2>1. \A i \in 1..k : s[i] \in S
    BY <1>1
  <2>2. \A i \in (k + 1)..Len(s) : s[i] \in S
    BY <1>1
  <2> QED BY <1>1, <2>1, <2>2, SubSeqProperties
<1>3. SubSeq(s, 1, k) \o SubSeq(s, k + 1, Len(s)) = SubSeq(s, 1, Len(s))
  <2>1. 1 \in 1..(Len(s) + 1) /\ k \in (1 - 1)..Len(s) /\ Len(s) \in k..Len(s)
    BY <1>1
  <2> QED BY <2>1, ConcatAdjacentSubSeq
<1>4. k = Len(s) => SubSeq(s, k + 1, Len(s)) = <<>>
  BY <1>1, SubSeqEmpty
<1> QED BY <1>2, <1>3, <1>4, SubSeqFull

(* A prefix and the next element are a longer prefix. *)
LEMMA PrefixAppend ==
  ASSUME NEW S, NEW s \in Seq(S), NEW u \in Nat, u + 1 <= Len(s)
  PROVE  /\ SubSeq(s, 1, u) \in Seq(S) /\ Len(SubSeq(s, 1, u)) = u
         /\ s[u + 1] \in S
         /\ SubSeq(s, 1, u + 1) = Append(SubSeq(s, 1, u), s[u + 1])
<1>1. Len(s) \in Nat /\ \A i \in 1..Len(s) : s[i] \in S
  BY LenProperties, ElementOfSeq
<1>2. s[u + 1] \in S
  BY <1>1
<1>3. \A m \in Nat : m <= u + 1 =>
        /\ SubSeq(s, 1, m) \in Seq(S) /\ Len(SubSeq(s, 1, m)) = m
        /\ \A i \in 1..m : SubSeq(s, 1, m)[i] = s[i]
  <2> SUFFICES ASSUME NEW m \in Nat, m <= u + 1
               PROVE  /\ SubSeq(s, 1, m) \in Seq(S) /\ Len(SubSeq(s, 1, m)) = m
                      /\ \A i \in 1..m : SubSeq(s, 1, m)[i] = s[i]
    OBVIOUS
  <2>1. \A i \in 1..m : s[i] \in S
    BY <1>1
  <2> QED BY <2>1, SubSeqProperties
<1> DEFINE p == SubSeq(s, 1, u)  q == SubSeq(s, 1, u + 1)  e == s[u + 1]
<1>4. /\ p \in Seq(S) /\ Len(p) = u /\ \A i \in 1..u : p[i] = s[i]
      /\ q \in Seq(S) /\ Len(q) = u + 1 /\ \A i \in 1..(u + 1) : q[i] = s[i]
  BY <1>3
<1> HIDE DEF p, q
<1>5. /\ Append(p, e) \in Seq(S) /\ Len(Append(p, e)) = u + 1
      /\ \A i \in 1..u : Append(p, e)[i] = p[i]
      /\ Append(p, e)[u + 1] = e
  BY <1>2, <1>4, AppendProperties
<1>6. \A i \in 1..(u + 1) : q[i] = Append(p, e)[i]
  BY <1>4, <1>5
<1>7. q = Append(p, e)
  BY <1>4, <1>5, <1>6, SeqEqual
<1> QED BY <1>2, <1>4, <1>7 DEF p, q

------------------------------------------------------------------------------
(* Run-length decoding. *)

RLEState == {a \in [out : Seq(Bytes), ch : 0..256, same : 0..4] :
               a.same = 4 => a.ch \in Bytes}
RLEStart == [out |-> <<>>, ch |-> 256, same |-> 0]

(* A run of n bytes is a sequence of n bytes. *)
LEMMA RunType ==
  ASSUME NEW S, NEW c \in S, NEW n \in Nat
  PROVE  /\ Run(c, n) \in Seq(S)
         /\ Len(Run(c, n)) = n
         /\ \A i \in 1..n : Run(c, n)[i] = c
BY DEF Run

(* A run of one byte. *)
LEMMA RunOfOne == \A c : Run(c, 1) = <<c>>
<1> SUFFICES ASSUME NEW c PROVE Run(c, 1) = <<c>>
  OBVIOUS
<1>0. c \in {c} /\ 1 \in Nat /\ 1 \in 1..1
  OBVIOUS
<1>1. Run(c, 1) \in Seq({c}) /\ Len(Run(c, 1)) = 1 /\ Run(c, 1)[1] = c
  BY <1>0, RunType
<1>2. <<c>> \in Seq({c}) /\ Len(<<c>>) = 1 /\ <<c>>[1] = c
  OBVIOUS
<1>3. \A i \in 1..1 : Run(c, 1)[i] = <<c>>[i]
  BY <1>1, <1>2
<1> QED BY <1>1, <1>2, <1>3, SeqEqual

(* A run grows at its end by one byte. *)
LEMMA RunGrows ==
  ASSUME NEW S, NEW c \in S, NEW n \in Nat
  PROVE  Run(c, n + 1) = Append(Run(c, n), c)
<1> DEFINE r == Run(c, n)  t == Run(c, n + 1)
<1>1. r \in Seq(S) /\ Len(r) = n /\ \A i \in 1..n : r[i] = c
  BY RunType
<1>2. t \in Seq(S) /\ Len(t) = n + 1 /\ \A i \in 1..(n + 1) : t[i] = c
  BY RunType
<1>3. /\ Append(r, c) \in Seq(S) /\ Len(Append(r, c)) = n + 1
      /\ \A i \in 1..n : Append(r, c)[i] = r[i]
      /\ Append(r, c)[n + 1] = c
  BY <1>1, AppendProperties
<1> HIDE DEF r, t
<1>4. \A i \in 1..(n + 1) : t[i] = Append(r, c)[i]
  BY <1>1, <1>2, <1>3
<1>5. t = Append(r, c)
  BY <1>2, <1>3, <1>4, SeqEqual
<1> QED BY <1>5 DEF r, t

(* One byte leads from a state of the decoder to another. *)
LEMMA UnRLEByteType ==
  ASSUME NEW acc \in RLEState, NEW b \in Bytes
  PROVE  UnRLEByte(acc, b) \in RLEState
<1>1. /\ acc.out \in Seq(Bytes) /\ acc.ch \in 0..256 /\ acc.same \in 0..4
      /\ b \in 0..256 /\ b \in Nat /\ (acc.same = 4 => acc.ch \in Bytes)
  BY DEF RLEState, Bytes
<1>2. CASE acc.same = 4
  <2>1. acc.out \o Run(acc.ch, b) \in Seq(Bytes)
    BY <1>1, <1>2, RunType, ConcatProperties
  <2> QED BY <1>2, <2>1 DEF UnRLEByte, RLEState
<1>3. CASE acc.same # 4
  <2>1. Append(acc.out, b) \in Seq(Bytes)
    BY <1>1, AppendProperties
  <2> QED BY <1>1, <1>3, <2>1 DEF UnRLEByte, RLEState
<1> QED BY <1>2, <1>3

(* The decoder's states along a block, the last of which is its result. *)
Decodes(g, bytes) ==
  /\ g[0] = RLEStart
  /\ \A i \in 1..Len(bytes) : g[i] = UnRLEByte(g[i - 1], bytes[i])
  /\ \A i \in 0..Len(bytes) : g[i] \in RLEState
  /\ UnRLEBlock(bytes) = g[Len(bytes)]

(* The recursive function in UnRLEBlock exists. *)
LEMMA UnRLESteps ==
  ASSUME NEW bytes \in Seq(Bytes)
  PROVE  \E g : Decodes(g, bytes)
<1> DEFINE n == Len(bytes)
           step == [p \in RLEState \X (1..n) |-> UnRLEByte(p[1], bytes[p[2]])]
           Eq(f) == f = [i \in 0..n |-> IF i = 0 THEN RLEStart
                                        ELSE UnRLEByte(f[i - 1], bytes[i])]
           after == CHOOSE f : Eq(f)
<1>1. n \in Nat /\ \A i \in 1..n : bytes[i] \in Bytes
  BY LenProperties, ElementOfSeq
<1>2. RLEStart \in RLEState
  BY EmptySeq DEF RLEStart, RLEState
<1>3. step \in [RLEState \X (1..n) -> RLEState]
  <2>1. ASSUME NEW p \in RLEState \X (1..n)
        PROVE  UnRLEByte(p[1], bytes[p[2]]) \in RLEState
    <3>1. p[1] \in RLEState /\ bytes[p[2]] \in Bytes
      BY <1>1
    <3> QED BY <3>1, UnRLEByteType
  <2> QED BY <2>1
<1> HIDE DEF n
<1>4. PICK g \in [0..n -> RLEState] : Follows(g, n, RLEStart, step)
  <2> HIDE DEF step, Eq, after
  <2>1. n \in Nat
    BY <1>1
  <2> QED BY <1>2, <1>3, <2>1, StepsExist
<1>5. \A i \in 1..n : g[i] = UnRLEByte(g[i - 1], bytes[i])
  <2> SUFFICES ASSUME NEW i \in 1..n PROVE g[i] = UnRLEByte(g[i - 1], bytes[i])
    OBVIOUS
  <2>1. i - 1 \in 0..n /\ g[i - 1] \in RLEState
    BY <1>1
  <2>2. <<g[i - 1], i>> \in RLEState \X (1..n)
    BY <2>1
  <2> QED BY <1>4, <2>2 DEF Follows
<1>6. Eq(g)
  <2>1. \A i \in 0..n : g[i] = IF i = 0 THEN RLEStart
                                ELSE UnRLEByte(g[i - 1], bytes[i])
    BY <1>1, <1>4, <1>5 DEF Follows
  <2> QED BY <2>1
<1>7. Eq(after)
  <2> HIDE DEF Eq
  <2> QED BY <1>6
<1>8. UnRLEBlock(bytes) = after[n]
  BY DEF UnRLEBlock, RLEStart, n
<1> HIDE DEF after
<1>9. after[0] = RLEStart /\ \A i \in 1..n : after[i] = UnRLEByte(after[i - 1], bytes[i])
  BY <1>1, <1>7
<1>10. \A i \in 0..n : after[i] = g[i]
  <2> HIDE DEF step, Eq
  <2>1. n \in Nat
    BY <1>1
  <2>2. Alike(after, g, n)
    BY <1>4, <1>5, <1>9 DEF Follows, Alike
  <2> QED BY <2>1, <2>2, StepsAgree
<1>11. Decodes(after, bytes)
  BY <1>1, <1>8, <1>9, <1>10 DEF n, Decodes
<1> QED BY <1>11

(* The empty block decodes to nothing. *)
LEMMA UnRLEEmpty == UnRLEBlock(<<>>) = RLEStart
<1>1. <<>> \in Seq(Bytes) /\ Len(<<>>) = 0
  BY EmptySeq
<1>2. PICK g : Decodes(g, <<>>)
  BY <1>1, UnRLESteps
<1> QED BY <1>1, <1>2 DEF Decodes

(* A block decodes to a state of the decoder. *)
LEMMA UnRLEType ==
  ASSUME NEW bytes \in Seq(Bytes)
  PROVE  UnRLEBlock(bytes) \in RLEState /\ UnRLE(bytes) \in Seq(Bytes)
<1>1. Len(bytes) \in 0..Len(bytes)
  BY LenProperties
<1>2. UnRLEBlock(bytes) \in RLEState
  <2>1. PICK g : Decodes(g, bytes)
    BY UnRLESteps
  <2> QED BY <1>1, <2>1 DEF Decodes
<1> QED BY <1>2 DEF UnRLE, RLEState

(* One byte more is one more step of the decoder. *)
LEMMA UnRLEAppend ==
  ASSUME NEW bytes \in Seq(Bytes), NEW b \in Bytes
  PROVE  UnRLEBlock(Append(bytes, b)) = UnRLEByte(UnRLEBlock(bytes), b)
<1> DEFINE more == Append(bytes, b)
           n == Len(bytes)
<1>1. /\ n \in Nat /\ more \in Seq(Bytes) /\ Len(more) = n + 1
      /\ \A i \in 1..n : more[i] = bytes[i]
      /\ more[n + 1] = b
  BY LenProperties, AppendProperties
<1> HIDE DEF more
<1>2. PICK g : Decodes(g, bytes)
  BY UnRLESteps
<1>3. PICK h : Decodes(h, more)
  BY <1>1, UnRLESteps
<1>4. n \in 0..n /\ n + 1 \in 1..(n + 1) /\ (n + 1) - 1 = n
  BY <1>1
<1>5. Alike(g, h, n)
  <2>1. \A i \in 1..n : i \in 1..(n + 1)
    BY <1>1
  <2> QED BY <1>1, <1>2, <1>3, <2>1 DEF Decodes, Alike
<1>6. UnRLEBlock(bytes) = g[n] /\ UnRLEBlock(more) = UnRLEByte(h[n], b)
  BY <1>1, <1>2, <1>3, <1>4 DEF Decodes
<1> HIDE DEF n
<1>7. n \in Nat
  BY <1>1
<1>8. g[n] = h[n]
  BY <1>4, <1>5, <1>7, StepsAgree
<1> QED BY <1>6, <1>8 DEF more

(* Appending to the second part is appending to the whole. *)
LEMMA AppendRegroup ==
  ASSUME NEW S, NEW s \in Seq(S), NEW t \in Seq(S), NEW e \in S
  PROVE  s \o Append(t, e) = Append(s \o t, e)
<1>1. <<e>> \in Seq(S) /\ s \o t \in Seq(S)
  BY ConcatProperties
<1>2. Append(t, e) = t \o <<e>> /\ Append(s \o t, e) = (s \o t) \o <<e>>
  BY <1>1, AppendIsConcat
<1>3. (s \o t) \o <<e>> = s \o (t \o <<e>>)
  BY <1>1, ConcatAssociative
<1> QED BY <1>2, <1>3

(* A run is a shorter run and the rest. *)
LEMMA RunSum ==
  ASSUME NEW S, NEW c \in S, NEW m \in Nat, NEW n \in Nat
  PROVE  Run(c, m + n) = Run(c, m) \o Run(c, n)
<1> DEFINE l == Run(c, m + n)
           p == Run(c, m)
           q == Run(c, n)
<1>1. /\ l \in Seq(S) /\ Len(l) = m + n /\ \A i \in 1..(m + n) : l[i] = c
  BY RunType
<1>2. /\ p \in Seq(S) /\ Len(p) = m /\ \A i \in 1..m : p[i] = c
      /\ q \in Seq(S) /\ Len(q) = n /\ \A i \in 1..n : q[i] = c
  BY RunType
<1> HIDE DEF l, p, q
<1>3. /\ p \o q \in Seq(S) /\ Len(p \o q) = m + n
      /\ \A i \in 1..(m + n) : (p \o q)[i] = IF i <= m THEN p[i] ELSE q[i - m]
  BY <1>2, ConcatProperties, ZenonT(60)
<1>4. \A i \in 1..(m + n) : (p \o q)[i] = c
  <2> SUFFICES ASSUME NEW i \in 1..(m + n) PROVE (p \o q)[i] = c
    OBVIOUS
  <2>1. i <= m => i \in 1..m
    OBVIOUS
  <2>2. ~ (i <= m) => i - m \in 1..n
    OBVIOUS
  <2> QED BY <1>2, <1>3, <2>1, <2>2
<1>5. l = p \o q
  BY <1>1, <1>3, <1>4, SeqEqual
<1> QED BY <1>5 DEF l, p, q

(* One byte more never makes what is decoded shorter, and longer by one    *)
(* unless it is a count.                                                   *)
LEMMA UnRLEByteLonger ==
  ASSUME NEW acc \in RLEState, NEW b \in Bytes
  PROVE  /\ Len(acc.out) \in Nat /\ Len(UnRLEByte(acc, b).out) \in Nat
         /\ Len(acc.out) <= Len(UnRLEByte(acc, b).out)
         /\ acc.same # 4 => Len(UnRLEByte(acc, b).out) = Len(acc.out) + 1
<1>1. /\ acc.out \in Seq(Bytes) /\ (acc.same = 4 => acc.ch \in Bytes)
      /\ Len(acc.out) \in Nat /\ b \in Nat
  BY LenProperties DEF RLEState, Bytes
<1>2. CASE acc.same = 4
  <2>1. Run(acc.ch, b) \in Seq(Bytes) /\ Len(Run(acc.ch, b)) \in Nat
    BY <1>1, <1>2, RunType, LenProperties
  <2>2. Len(acc.out \o Run(acc.ch, b)) = Len(acc.out) + Len(Run(acc.ch, b))
    BY <1>1, <2>1, ConcatProperties
  <2>3. UnRLEByte(acc, b).out = acc.out \o Run(acc.ch, b)
    BY <1>2 DEF UnRLEByte
  <2>4. Len(UnRLEByte(acc, b).out) = Len(acc.out) + Len(Run(acc.ch, b))
    BY <2>2, <2>3
  <2> DEFINE l == Len(acc.out)  r == Len(Run(acc.ch, b))
  <2>5. l \in Nat /\ r \in Nat /\ Len(UnRLEByte(acc, b).out) = l + r
    BY <1>1, <2>1, <2>4
  <2> HIDE DEF l, r
  <2>6. Len(UnRLEByte(acc, b).out) \in Nat /\ l <= Len(UnRLEByte(acc, b).out)
    BY <2>5
  <2> QED BY <1>1, <1>2, <2>6 DEF l
<1>3. CASE acc.same # 4
  <2>1. Len(Append(acc.out, b)) = Len(acc.out) + 1
    BY <1>1, AppendProperties
  <2>2. UnRLEByte(acc, b).out = Append(acc.out, b)
    BY <1>3 DEF UnRLEByte
  <2> QED BY <1>1, <2>1, <2>2
<1> QED BY <1>2, <1>3

(* A front part of a block decodes to no more than the block. *)
LEMMA UnRLELonger ==
  ASSUME NEW s \in Seq(Bytes), NEW k \in 0..Len(s)
  PROVE  /\ Len(UnRLE(SubSeq(s, 1, k))) \in Nat /\ Len(UnRLE(s)) \in Nat
         /\ Len(UnRLE(SubSeq(s, 1, k))) <= Len(UnRLE(s))
<1> DEFINE n == Len(s)
           F(m) == UnRLE(SubSeq(s, 1, m))
           T == {j \in Nat : k + j <= n => Len(F(k + j)) \in Nat /\ Len(F(k)) <= Len(F(k + j))}
<1>1. n \in Nat /\ k \in Nat /\ k <= n
  BY LenProperties
<1>2. Len(F(k)) \in Nat
  BY CutInTwo, UnRLEType, LenProperties
<1>3. \A m \in Nat : m + 1 <= n => Len(F(m)) \in Nat /\ Len(F(m + 1)) \in Nat
                                  /\ Len(F(m)) <= Len(F(m + 1))
  <2> SUFFICES ASSUME NEW m \in Nat, m + 1 <= n
               PROVE  Len(F(m)) \in Nat /\ Len(F(m + 1)) \in Nat /\ Len(F(m)) <= Len(F(m + 1))
    OBVIOUS
  <2> DEFINE acc == UnRLEBlock(SubSeq(s, 1, m))
  <2>1. /\ SubSeq(s, 1, m) \in Seq(Bytes) /\ s[m + 1] \in Bytes
        /\ SubSeq(s, 1, m + 1) = Append(SubSeq(s, 1, m), s[m + 1])
    BY PrefixAppend
  <2>2. acc \in RLEState /\ UnRLEBlock(SubSeq(s, 1, m + 1)) = UnRLEByte(acc, s[m + 1])
    BY <2>1, UnRLEType, UnRLEAppend
  <2>3. F(m) = acc.out /\ F(m + 1) = UnRLEByte(acc, s[m + 1]).out
    BY <2>2 DEF UnRLE
  <2> HIDE DEF F, acc
  <2> QED BY <2>1, <2>2, <2>3, UnRLEByteLonger
<1> HIDE DEF F
<1>4. k + 0 = k
  BY <1>1
<1>5. 0 \in T
  BY <1>2, <1>4
<1>6. \A j \in Nat : j \in T => j + 1 \in T
  <2> SUFFICES ASSUME NEW j \in Nat, j \in T, k + (j + 1) <= n
               PROVE  Len(F(k + (j + 1))) \in Nat /\ Len(F(k)) <= Len(F(k + (j + 1)))
    OBVIOUS
  <2>1. k + j \in Nat /\ k + j <= n /\ (k + j) + 1 = k + (j + 1)
    BY <1>1
  <2>2. Len(F(k)) <= Len(F(k + j)) /\ Len(F(k + j)) \in Nat
    BY <2>1
  <2>3. Len(F(k + (j + 1))) \in Nat /\ Len(F(k + j)) <= Len(F(k + (j + 1)))
    BY <1>3, <2>1
  <2> QED BY <1>2, <2>2, <2>3
<1> HIDE DEF T
<1>7. n - k \in T
  <2>1. n - k \in Nat
    BY <1>1
  <2>2. \A j \in Nat : j \in T
    BY <1>5, <1>6, SetInduction
  <2> QED BY <2>1, <2>2
<1>8. k + (n - k) = n
  BY <1>1
<1>9. Len(F(n)) \in Nat /\ Len(F(k)) <= Len(F(n))
  BY <1>1, <1>7, <1>8 DEF T
<1>10. SubSeq(s, 1, n) = s
  BY SubSeqFull
<1> QED BY <1>2, <1>9, <1>10 DEF F

(* A prefix and a run of bytes behind it are a longer prefix. *)
LEMMA PrefixRun ==
  \A s \in Seq(Bytes), c \in Bytes, u \in Nat, n \in Nat :
    u + n <= Len(s) /\ (\A j \in 1..n : s[u + j] = c)
      => SubSeq(s, 1, u + n) = SubSeq(s, 1, u) \o Run(c, n)
<1> SUFFICES ASSUME NEW s \in Seq(Bytes), NEW c \in Bytes,
                    NEW u \in Nat, NEW n \in Nat,
                    u + n <= Len(s), \A j \in 1..n : s[u + j] = c
             PROVE  SubSeq(s, 1, u + n) = SubSeq(s, 1, u) \o Run(c, n)
  OBVIOUS
<1> DEFINE m == Len(s)  p == SubSeq(s, 1, u)  l == SubSeq(s, 1, u + n)  r == Run(c, n)
<1>1. m \in Nat /\ u + n <= m /\ \A i \in 1..m : s[i] \in Bytes
  BY LenProperties, ElementOfSeq
<1> HIDE DEF m
<1>2. p \in Seq(Bytes) /\ Len(p) = u /\ \A i \in 1..u : p[i] = s[i]
  BY <1>1, SubSeqProperties
<1>3. l \in Seq(Bytes) /\ Len(l) = u + n /\ \A i \in 1..(u + n) : l[i] = s[i]
  BY <1>1, SubSeqProperties
<1>4. r \in Seq(Bytes) /\ Len(r) = n /\ \A i \in 1..n : r[i] = c
  BY RunType
<1> HIDE DEF p, l, r
<1>5. /\ p \o r \in Seq(Bytes) /\ Len(p \o r) = u + n
      /\ \A i \in 1..(u + n) : (p \o r)[i] = IF i <= u THEN p[i] ELSE r[i - u]
  BY <1>2, <1>4, ConcatProperties, ZenonT(60)
<1>6. ASSUME NEW i \in 1..(u + n) PROVE l[i] = (p \o r)[i]
  <2>1. CASE i <= u
    <3>1. i \in 1..u
      BY <2>1
    <3> QED BY <1>2, <1>3, <1>5, <2>1, <3>1
  <2>2. CASE ~(i <= u)
    <3>1. i - u \in 1..n /\ u + (i - u) = i
      BY <2>2
    <3>2. s[i] = c
      <4>1. s[u + (i - u)] = c
        BY <3>1
      <4> QED BY <3>1, <4>1
    <3> QED BY <1>3, <1>4, <1>5, <2>2, <3>1, <3>2
  <2> QED BY <2>1, <2>2
<1>7. l = p \o r
  BY <1>3, <1>5, <1>6, SeqEqual
<1> QED BY <1>7 DEF l, p, r

(* A prefix and the next element are a longer prefix; all of a sequence is *)
(* a prefix of it.                                                         *)
LEMMA PrefixNext ==
  ASSUME NEW s \in Seq(Bytes), NEW u \in Nat, u <= Len(s)
  PROVE  /\ SubSeq(s, 1, u) \in Seq(Bytes)
         /\ u + 1 <= Len(s) =>
              SubSeq(s, 1, u + 1) = Append(SubSeq(s, 1, u), s[u + 1])
         /\ u = Len(s) => SubSeq(s, 1, u) = s
<1>1. Len(s) \in Nat /\ \A i \in 1..Len(s) : s[i] \in Bytes
  BY LenProperties, ElementOfSeq
<1>2. /\ SubSeq(s, 1, u) \in Seq(Bytes) /\ Len(SubSeq(s, 1, u)) = u
      /\ \A i \in 1..u : SubSeq(s, 1, u)[i] = s[i]
  BY <1>1, SubSeqProperties
<1>3. ASSUME u + 1 <= Len(s)
      PROVE  SubSeq(s, 1, u + 1) = Append(SubSeq(s, 1, u), s[u + 1])
  <2> DEFINE e == s[u + 1]
  <2>1. e \in Bytes
    BY <1>1, <1>3
  <2>2. \A j \in 1..1 : s[u + j] = e
    OBVIOUS
  <2> HIDE DEF e
  <2>3. SubSeq(s, 1, u + 1) = SubSeq(s, 1, u) \o Run(e, 1)
    BY <1>3, <2>1, <2>2, PrefixRun
  <2>4. Run(e, 1) = <<e>>
    BY RunOfOne
  <2>5. SubSeq(s, 1, u) \o <<e>> = Append(SubSeq(s, 1, u), e)
    BY <1>2, <2>1, AppendIsConcat
  <2> QED BY <2>3, <2>4, <2>5 DEF e
<1>4. u = Len(s) => SubSeq(s, 1, u) = s
  BY <1>2, SeqEqual
<1> QED BY <1>2, <1>3, <1>4

(* One to four copies of a byte other than the one seen last. *)
LEMMA UnRLECopies ==
  ASSUME NEW blk \in Seq(Bytes), NEW ch \in Bytes, NEW k \in 1..4,
         UnRLEBlock(blk).same # 4, UnRLEBlock(blk).ch # ch
  PROVE  UnRLEBlock(blk \o Run(ch, k))
           = [out |-> UnRLE(blk) \o Run(ch, k), ch |-> ch, same |-> k]
<1> DEFINE Good(n) == UnRLEBlock(blk \o Run(ch, n))
                        = [out |-> UnRLE(blk) \o Run(ch, n), ch |-> ch, same |-> n]
<1>1. UnRLE(blk) \in Seq(Bytes) /\ UnRLE(blk) = UnRLEBlock(blk).out
  BY UnRLEType DEF UnRLE
<1>2. Good(1)
  <2>1. Run(ch, 1) = <<ch>> /\ <<ch>> \in Seq(Bytes)
    BY RunOfOne
  <2>2. blk \o <<ch>> = Append(blk, ch)
    BY AppendIsConcat
  <2>3. UnRLE(blk) \o <<ch>> = Append(UnRLE(blk), ch)
    BY <1>1, AppendIsConcat
  <2>4. UnRLEBlock(Append(blk, ch)) = UnRLEByte(UnRLEBlock(blk), ch)
    BY UnRLEAppend
  <2>5. UnRLEByte(UnRLEBlock(blk), ch)
          = [out |-> Append(UnRLE(blk), ch), ch |-> ch, same |-> 1]
    BY <1>1 DEF UnRLEByte
  <2> QED BY <2>1, <2>2, <2>3, <2>4, <2>5
<1>3. ASSUME NEW n \in 1..3, Good(n) PROVE Good(n + 1)
  <2>1. n \in Nat /\ Run(ch, n) \in Seq(Bytes)
    <3>1. n \in Nat
      OBVIOUS
    <3> HIDE DEF Good
    <3> QED BY <3>1, RunType
  <2>2. Run(ch, n + 1) = Append(Run(ch, n), ch)
    BY <2>1, RunGrows
  <2>3. /\ blk \o Append(Run(ch, n), ch) = Append(blk \o Run(ch, n), ch)
        /\ UnRLE(blk) \o Append(Run(ch, n), ch) = Append(UnRLE(blk) \o Run(ch, n), ch)
    <3>1. Run(ch, n) \in Seq(Bytes)
      BY <2>1
    <3>2. UnRLE(blk) \in Seq(Bytes)
      BY <1>1
    <3> HIDE DEF Good
    <3> QED BY <3>1, <3>2, AppendRegroup, SMTT(40)
  <2>4. blk \o Run(ch, n) \in Seq(Bytes)
    BY <2>1, ConcatProperties
  <2>5. UnRLEBlock(Append(blk \o Run(ch, n), ch))
          = UnRLEByte(UnRLEBlock(blk \o Run(ch, n)), ch)
    BY <2>4, UnRLEAppend
  <2>6. UnRLEByte([out |-> UnRLE(blk) \o Run(ch, n), ch |-> ch, same |-> n], ch)
          = [out |-> Append(UnRLE(blk) \o Run(ch, n), ch), ch |-> ch, same |-> n + 1]
    BY <2>1 DEF UnRLEByte
  <2> QED BY <1>3, <2>2, <2>3, <2>5, <2>6
<1>4. Good(2)
  <2>1. 1 \in 1..3 /\ 1 + 1 = 2
    OBVIOUS
  <2> HIDE DEF Good
  <2> QED BY <1>2, <1>3, <2>1
<1>5. Good(3)
  <2>1. 2 \in 1..3 /\ 2 + 1 = 3
    OBVIOUS
  <2> HIDE DEF Good
  <2> QED BY <1>3, <1>4, <2>1
<1>6. Good(4)
  <2>1. 3 \in 1..3 /\ 3 + 1 = 4
    OBVIOUS
  <2> HIDE DEF Good
  <2> QED BY <1>3, <1>5, <2>1
<1>7. k = 1 \/ k = 2 \/ k = 3 \/ k = 4
  OBVIOUS
<1>8. Good(k)
  <2> HIDE DEF Good
  <2> QED BY <1>2, <1>4, <1>5, <1>6, <1>7
<1> QED BY <1>8

(* A long pair is four copies and the count. *)
LEMMA LongPair ==
  ASSUME NEW ch \in Bytes, NEW rest \in Bytes
  PROVE  /\ Run(ch, 4) \in Seq(Bytes)
         /\ <<ch, ch, ch, ch, rest>> = Append(Run(ch, 4), rest)
<1> DEFINE four == Run(ch, 4)
           l == <<ch, ch, ch, ch, rest>>
<1>0. four \in Seq(Bytes)
  BY DEF Run
<1>1. Len(four) = 4
  BY DEF Run
<1>2. four[1] = ch /\ four[2] = ch /\ four[3] = ch /\ four[4] = ch
  BY DEF Run
<1>3. l \in Seq(Bytes) /\ Len(l) = 5
      /\ l[1] = ch /\ l[2] = ch /\ l[3] = ch /\ l[4] = ch /\ l[5] = rest
  OBVIOUS
<1> HIDE DEF four, l
<1>4. /\ Append(four, rest) \in Seq(Bytes)
      /\ Len(Append(four, rest)) = Len(four) + 1
      /\ \A i \in 1..Len(four) : Append(four, rest)[i] = four[i]
      /\ Append(four, rest)[Len(four) + 1] = rest
  BY <1>0, AppendProperties
<1>5. \A i \in 1..5 : i = 1 \/ i = 2 \/ i = 3 \/ i = 4 \/ i = 5
  OBVIOUS
<1>6. \A i \in 1..5 : l[i] = Append(four, rest)[i]
  BY <1>1, <1>2, <1>3, <1>4, <1>5
<1>7. l = Append(four, rest)
  BY <1>1, <1>3, <1>4, <1>6, SeqEqual
<1> QED BY <1>0, <1>7 DEF four, l

(* The state of the decoder behind a run of `len' bytes `ch' stored by Pair.*)
AfterPair(blk, ch, len) ==
  [out  |-> UnRLE(blk) \o Run(ch, len),
   ch   |-> IF len < 4 THEN ch ELSE 256,
   same |-> IF len < 4 THEN len ELSE 0]

(***************************************************************************)
(* What Pair adds to a block decodes to its run, provided that the block   *)
(* does not stop where a count must follow and that the byte is not the    *)
(* one seen last.  The new block does not stop there either.               *)
(***************************************************************************)
LEMMA UnRLEPair ==
  ASSUME NEW blk \in Seq(Bytes), NEW ch \in Bytes, NEW len \in 1..259,
         UnRLEBlock(blk).same # 4, UnRLEBlock(blk).ch # ch
  PROVE  UnRLEBlock(blk \o Pair(ch, len)) = AfterPair(blk, ch, len)
<1>1. CASE len < 4
  <2>1. len \in 1..4 /\ Pair(ch, len) = Run(ch, len)
    BY <1>1 DEF Pair
  <2>2. UnRLEBlock(blk \o Run(ch, len))
          = [out |-> UnRLE(blk) \o Run(ch, len), ch |-> ch, same |-> len]
    BY <2>1, UnRLECopies
  <2> QED BY <1>1, <2>1, <2>2 DEF AfterPair
<1>2. CASE ~ (len < 4)
  <2> DEFINE rest == len - 4
             four == Run(ch, 4)
  <2>1. rest \in Bytes /\ rest \in Nat /\ 4 + rest = len
    BY <1>2 DEF Bytes
  <2>2. four \in Seq(Bytes)
    BY <2>1, LongPair
  <2>3. Pair(ch, len) = Append(four, rest)
    <3>1. Pair(ch, len) = <<ch, ch, ch, ch, rest>>
      BY <1>2 DEF Pair
    <3> HIDE DEF rest
    <3> QED BY <2>1, <3>1, LongPair
  <2> HIDE DEF rest, four
  <2>4. UnRLEBlock(blk \o four) = [out |-> UnRLE(blk) \o four, ch |-> ch, same |-> 4]
    BY UnRLECopies DEF four
  <2>5. blk \o Append(four, rest) = Append(blk \o four, rest)
    BY <2>1, <2>2, AppendRegroup
  <2>6. blk \o four \in Seq(Bytes)
    BY <2>2, ConcatProperties
  <2>7. UnRLEBlock(Append(blk \o four, rest)) = UnRLEByte(UnRLEBlock(blk \o four), rest)
    BY <2>1, <2>6, UnRLEAppend
  <2>8. UnRLEByte(UnRLEBlock(blk \o four), rest)
          = [out |-> (UnRLE(blk) \o four) \o Run(ch, rest), ch |-> 256, same |-> 0]
    BY <2>4 DEF UnRLEByte
  <2>9. (UnRLE(blk) \o four) \o Run(ch, rest) = UnRLE(blk) \o Run(ch, len)
    <3>1. UnRLE(blk) \in Seq(Bytes) /\ Run(ch, rest) \in Seq(Bytes)
      BY <2>1, RunType, UnRLEType
    <3>2. four \in Seq(Bytes)
      BY <2>2
    <3>3. (UnRLE(blk) \o four) \o Run(ch, rest) = UnRLE(blk) \o (four \o Run(ch, rest))
      BY <3>1, <3>2, ConcatAssociative, SMTT(40)
    <3>4. Run(ch, 4 + rest) = four \o Run(ch, rest)
      BY <2>1, RunSum DEF four
    <3> QED BY <2>1, <3>3, <3>4
  <2> QED BY <1>2, <2>3, <2>5, <2>7, <2>8, <2>9 DEF AfterPair
<1> QED BY <1>1, <1>2

------------------------------------------------------------------------------
(* Putting sequences together. *)

(* What is put together along `seqs'. *)
Flattens(g, seqs, S) ==
  /\ g[0] = <<>>
  /\ \A i \in 1..Len(seqs) : g[i] = g[i - 1] \o seqs[i]
  /\ \A i \in 0..Len(seqs) : g[i] \in Seq(S)
  /\ Seqs!FlattenSeq(seqs) = g[Len(seqs)]

(* The recursive function in FlattenSeq exists and adds one at a time. *)
LEMMA FlattenSteps ==
  ASSUME NEW S, NEW seqs \in Seq(Seq(S)), seqs # <<>>
  PROVE  \E g : Flattens(g, seqs, S)
<1> DEFINE n == Len(seqs)
           step == [p \in Seq(S) \X (1..n) |-> p[1] \o seqs[p[2]]]
           Eq(f) == f = [i \in 1..n |-> IF i = 1 THEN seqs[i] ELSE f[i - 1] \o seqs[i]]
           flatten == CHOOSE f : Eq(f)
<1>1. n \in Nat /\ n >= 1 /\ \A i \in 1..n : seqs[i] \in Seq(S)
  BY LenProperties, ElementOfSeq, EmptySeq
<1>2. <<>> \in Seq(S)
  BY EmptySeq
<1>3. step \in [Seq(S) \X (1..n) -> Seq(S)]
  <2>1. ASSUME NEW p \in Seq(S) \X (1..n)
        PROVE  p[1] \o seqs[p[2]] \in Seq(S)
    <3>1. p[1] \in Seq(S) /\ seqs[p[2]] \in Seq(S)
      BY <1>1
    <3> QED BY <3>1, ConcatProperties
  <2> QED BY <2>1
<1> HIDE DEF n
<1>4. PICK g \in [0..n -> Seq(S)] : Follows(g, n, <<>>, step)
  <2> HIDE DEF step, Eq, flatten
  <2>1. n \in Nat
    BY <1>1
  <2> QED BY <1>2, <1>3, <2>1, StepsExist
<1>5. \A i \in 1..n : g[i] = g[i - 1] \o seqs[i]
  <2> SUFFICES ASSUME NEW i \in 1..n PROVE g[i] = g[i - 1] \o seqs[i]
    OBVIOUS
  <2>1. i - 1 \in 0..n /\ g[i - 1] \in Seq(S)
    BY <1>1
  <2>2. <<g[i - 1], i>> \in Seq(S) \X (1..n)
    BY <2>1
  <2> QED BY <1>4, <2>2 DEF Follows
<1>6. g[1] = seqs[1]
  <2>1. 1 \in 1..n /\ seqs[1] \in Seq(S) /\ 1 - 1 = 0
    BY <1>1
  <2> HIDE DEF step, Eq, flatten
  <2>2. g[1] = g[0] \o seqs[1] /\ g[0] = <<>>
    BY <1>4, <1>5, <2>1 DEF Follows
  <2> QED BY <2>1, <2>2, ConcatEmptySeq
<1> DEFINE r == [i \in 1..n |-> g[i]]
<1>7. Eq(r)
  <2>1. ASSUME NEW i \in 1..n
        PROVE  g[i] = IF i = 1 THEN seqs[i] ELSE r[i - 1] \o seqs[i]
    <3>1. CASE i = 1
      BY <1>6, <3>1
    <3>2. CASE i # 1
      <4>1. i - 1 \in 1..n
        BY <1>1, <3>2
      <4>2. r[i - 1] = g[i - 1]
        BY <4>1
      <4> QED BY <1>5, <3>2, <4>2
    <3> QED BY <3>1, <3>2
  <2>2. r = [i \in 1..n |-> IF i = 1 THEN seqs[i] ELSE r[i - 1] \o seqs[i]]
    BY <2>1
  <2> QED BY <2>2
<1>8. Eq(flatten)
  <2> HIDE DEF Eq
  <2> QED BY <1>7
<1>9. Seqs!FlattenSeq(seqs) = flatten[n]
  <2>1. Len(seqs) # 0
    BY <1>1 DEF n
  <2> QED BY <2>1 DEF Seqs!FlattenSeq, n
<1> HIDE DEF flatten, r
<1>10. /\ \A i \in 1..n : flatten[i] = IF i = 1 THEN seqs[i] ELSE flatten[i - 1] \o seqs[i]
  BY <1>8
<1> DEFINE f == [i \in 0..n |-> IF i = 0 THEN <<>> ELSE flatten[i]]
<1>11. /\ f[0] = <<>>
       /\ \A i \in 1..n : f[i] = flatten[i]
  BY <1>1
<1> HIDE DEF f
<1>12. Alike(g, f, n)
  <2> HIDE DEF step, Eq
  <2>1. g[0] = f[0]
    BY <1>4, <1>11 DEF Follows
  <2>2. ASSUME NEW i \in 1..n, g[i - 1] = f[i - 1]
        PROVE  g[i] = f[i]
    <3>1. CASE i = 1
      BY <1>6, <1>10, <1>11, <3>1
    <3>2. CASE i # 1
      <4>1. i - 1 \in 1..n
        BY <1>1, <3>2
      <4>2. f[i] = flatten[i - 1] \o seqs[i] /\ f[i - 1] = flatten[i - 1]
        BY <1>10, <1>11, <3>2, <4>1
      <4> QED BY <1>5, <2>2, <4>2
    <3> QED BY <3>1, <3>2
  <2> QED BY <2>1, <2>2 DEF Alike
<1>13. g[n] = f[n]
  <2>1. n \in Nat /\ n \in 0..n
    BY <1>1
  <2> QED BY <1>12, <2>1, StepsAgree
<1>14. g[0] = <<>> /\ \A i \in 0..n : g[i] \in Seq(S)
  BY <1>1, <1>4 DEF Follows
<1>15. Seqs!FlattenSeq(seqs) = g[n]
  <2>1. n \in 1..n
    BY <1>1
  <2> QED BY <1>9, <1>11, <1>13, <2>1
<1>16. Flattens(g, seqs, S)
  BY <1>5, <1>14, <1>15 DEF n, Flattens
<1> QED BY <1>16

(* Nothing put together is nothing. *)
LEMMA FlattenEmpty == Seqs!FlattenSeq(<<>>) = <<>>
BY EmptySeq DEF Seqs!FlattenSeq

(* One sequence more is put at the end. *)
LEMMA FlattenAppend ==
  ASSUME NEW S, NEW seqs \in Seq(Seq(S)), NEW s \in Seq(S)
  PROVE  /\ Seqs!FlattenSeq(seqs) \in Seq(S)
         /\ Seqs!FlattenSeq(Append(seqs, s)) = Seqs!FlattenSeq(seqs) \o s
<1> DEFINE more == Append(seqs, s)
           n == Len(seqs)
<1>1. /\ n \in Nat /\ more \in Seq(Seq(S)) /\ Len(more) = n + 1 /\ more # <<>>
      /\ \A i \in 1..n : more[i] = seqs[i]
      /\ more[n + 1] = s
  BY LenProperties, AppendProperties
<1> HIDE DEF more
<1>2. PICK h : Flattens(h, more, S)
  BY <1>1, FlattenSteps
<1>3. n \in 0..n /\ n + 1 \in 1..(n + 1) /\ (n + 1) - 1 = n /\ n \in 0..(n + 1)
  BY <1>1
<1>4. Seqs!FlattenSeq(more) = h[n] \o s /\ h[n] \in Seq(S)
  BY <1>1, <1>2, <1>3 DEF Flattens
<1>5. CASE seqs = <<>>
  <2>1. h[n] = <<>>
    BY <1>2, <1>5, EmptySeq DEF Flattens
  <2> QED BY <1>4, <1>5, <2>1, FlattenEmpty DEF more
<1>6. CASE seqs # <<>>
  <2>1. PICK g : Flattens(g, seqs, S)
    BY <1>6, FlattenSteps
  <2>2. Alike(g, h, n)
    <3>1. \A i \in 1..n : i \in 1..(n + 1)
      BY <1>1
    <3> QED BY <1>1, <1>2, <2>1, <3>1 DEF Flattens, Alike
  <2>3. Seqs!FlattenSeq(seqs) = g[n]
    BY <2>1 DEF Flattens
  <2>4. g[n] = h[n]
    <3> HIDE DEF n
    <3>1. n \in Nat
      BY <1>1
    <3> QED BY <1>3, <2>2, <3>1, StepsAgree
  <2> QED BY <1>4, <2>3, <2>4 DEF more
<1> QED BY <1>5, <1>6

(* The whole is at least as long as what a front part is put together to.  *)
LEMMA FlattenLonger ==
  ASSUME NEW S, NEW seqs \in Seq(Seq(S)), NEW k \in 0..Len(seqs)
  PROVE  /\ Seqs!FlattenSeq(SubSeq(seqs, 1, k)) \in Seq(S)
         /\ Seqs!FlattenSeq(seqs) \in Seq(S)
         /\ Len(Seqs!FlattenSeq(SubSeq(seqs, 1, k))) <= Len(Seqs!FlattenSeq(seqs))
<1> DEFINE n == Len(seqs)
           F(m) == Seqs!FlattenSeq(SubSeq(seqs, 1, m))
           T == {j \in Nat : k + j <= n => F(k + j) \in Seq(S) /\ Len(F(k)) <= Len(F(k + j))}
<1>1. n \in Nat /\ k \in Nat /\ k <= n
  BY LenProperties
<1>2. \A m \in 0..n : F(m) \in Seq(S)
  <2> SUFFICES ASSUME NEW m \in 0..n PROVE F(m) \in Seq(S)
    OBVIOUS
  <2>1. SubSeq(seqs, 1, m) \in Seq(Seq(S)) /\ <<>> \in Seq(S)
    BY CutInTwo, EmptySeq
  <2> QED BY <2>1, FlattenAppend
<1>3. \A m \in Nat : m + 1 <= n => F(m) \in Seq(S) /\ F(m + 1) \in Seq(S)
                                  /\ Len(F(m)) <= Len(F(m + 1))
  <2> SUFFICES ASSUME NEW m \in Nat, m + 1 <= n
               PROVE  F(m) \in Seq(S) /\ F(m + 1) \in Seq(S) /\ Len(F(m)) <= Len(F(m + 1))
    OBVIOUS
  <2>1. /\ SubSeq(seqs, 1, m) \in Seq(Seq(S)) /\ seqs[m + 1] \in Seq(S)
        /\ SubSeq(seqs, 1, m + 1) = Append(SubSeq(seqs, 1, m), seqs[m + 1])
    BY PrefixAppend
  <2>2. F(m) \in Seq(S) /\ F(m + 1) = F(m) \o seqs[m + 1]
    BY <2>1, FlattenAppend
  <2> HIDE DEF F
  <2>3. Len(F(m)) \in Nat /\ Len(seqs[m + 1]) \in Nat
    BY <2>1, <2>2, LenProperties
  <2> DEFINE a == F(m)  b == seqs[m + 1]
  <2>4. F(m + 1) \in Seq(S) /\ Len(F(m + 1)) = Len(F(m)) + Len(seqs[m + 1])
    <3>1. a \in Seq(S) /\ b \in Seq(S) /\ F(m + 1) = a \o b
      BY <2>1, <2>2
    <3> HIDE DEF a, b
    <3>2. a \o b \in Seq(S) /\ Len(a \o b) = Len(a) + Len(b)
      BY <3>1, ConcatProperties
    <3> QED BY <3>1, <3>2 DEF a, b
  <2> QED BY <2>2, <2>3, <2>4
<1> HIDE DEF F
<1>4. k + 0 = k /\ F(k) \in Seq(S) /\ Len(F(k)) \in Nat
  BY <1>1, <1>2, LenProperties
<1>5. 0 \in T
  BY <1>4
<1>6. \A j \in Nat : j \in T => j + 1 \in T
  <2> SUFFICES ASSUME NEW j \in Nat, j \in T, k + (j + 1) <= n
               PROVE  F(k + (j + 1)) \in Seq(S) /\ Len(F(k)) <= Len(F(k + (j + 1)))
    OBVIOUS
  <2>1. k + j \in Nat /\ k + j <= n /\ (k + j) + 1 = k + (j + 1)
    BY <1>1
  <2>2. Len(F(k)) <= Len(F(k + j)) /\ F(k + j) \in Seq(S)
    BY <2>1
  <2>3. F(k + (j + 1)) \in Seq(S) /\ Len(F(k + j)) <= Len(F(k + (j + 1)))
    BY <1>3, <2>1
  <2>4. Len(F(k + j)) \in Nat /\ Len(F(k + (j + 1))) \in Nat
    BY <2>2, <2>3, LenProperties
  <2> QED BY <1>4, <2>2, <2>3, <2>4
<1> HIDE DEF T
<1>7. n - k \in T
  <2>1. n - k \in Nat
    BY <1>1
  <2>2. \A j \in Nat : j \in T
    BY <1>5, <1>6, SetInduction
  <2> QED BY <2>1, <2>2
<1>8. k + (n - k) = n
  BY <1>1
<1>9. F(n) \in Seq(S) /\ Len(F(k)) <= Len(F(n))
  BY <1>1, <1>7, <1>8 DEF T
<1>10. SubSeq(seqs, 1, n) = seqs
  BY SubSeqFull
<1> QED BY <1>4, <1>9, <1>10 DEF F

------------------------------------------------------------------------------
(* Streams. *)

(* What is laid stays laid when more is written behind it. *)
LEMMA LaidKept ==
  ASSUME NEW s \in Seq(Token), NEW t \in Seq(Token), NEW level \in 1..9,
         NEW crcs \in Seq(Seq(Bytes)), NEW unit \in Nat,
         Laid(s, level, crcs, unit)
  PROVE  Laid(s \o t, level, crcs, unit)
<1> DEFINE r == s \o t
           n == Len(crcs)
<1>1. /\ Len(s) \in Nat /\ Len(t) \in Nat /\ Len(r) = Len(s) + Len(t)
      /\ \A i \in 1..(Len(s) + Len(t)) : i <= Len(s) => r[i] = s[i]
  BY LenProperties, ConcatProperties
<1>2. n \in Nat /\ Len(s) >= 2 + 2 * n
  BY LenProperties DEF Laid
<1> HIDE DEF r
<1>3. \A i \in 1..(2 + 2 * n) : r[i] = s[i]
  <2> HIDE DEF n
  <2> QED BY <1>1, <1>2
<1>4. 1 \in 1..(2 + 2 * n) /\ 2 \in 1..(2 + 2 * n)
  <2> HIDE DEF n
  <2> QED BY <1>2
<1>5. \A b \in 1..n : 2 * b + 1 \in 1..(2 + 2 * n) /\ 2 * b + 2 \in 1..(2 + 2 * n)
  <2> HIDE DEF n
  <2> QED BY <1>2
<1>6. Len(r) >= 2 + 2 * n
  <2> HIDE DEF n
  <2> QED BY <1>1, <1>2
<1>7. r[1] = s[1] /\ r[2] = s[2]
  BY <1>3, <1>4
<1>8. \A b \in 1..n : r[2 * b + 1] = s[2 * b + 1] /\ r[2 * b + 2] = s[2 * b + 2]
  BY <1>3, <1>5
<1>9. Laid(r, level, crcs, unit)
  BY <1>6, <1>7, <1>8 DEF Laid
<1> QED BY <1>9 DEF r

(* What has been laid is laid in a prefix that holds it. *)
LEMMA LaidPrefix ==
  ASSUME NEW s \in Seq(Token), NEW level \in 1..9, NEW unit \in Nat,
         NEW crcs \in Seq(Seq(Bytes)), Laid(s, level, crcs, unit),
         NEW m \in Nat, m <= Len(s), m >= 2 + 2 * Len(crcs)
  PROVE  /\ Laid(SubSeq(s, 1, m), level, crcs, unit)
         /\ SubSeq(s, 1, m) \in Seq(Token) /\ Len(SubSeq(s, 1, m)) = m
         /\ \A i \in 1..m : SubSeq(s, 1, m)[i] = s[i]
<1> DEFINE r == SubSeq(s, 1, m)  n == Len(crcs)
<1>1. Len(s) \in Nat /\ n \in Nat /\ \A i \in 1..Len(s) : s[i] \in Token
  BY LenProperties, ElementOfSeq
<1>2. r \in Seq(Token) /\ Len(r) = m /\ \A i \in 1..m : r[i] = s[i]
  BY <1>1, SubSeqProperties
<1>3. /\ s[1][1] = "BZh" /\ s[2][1] = "level" /\ s[2][2] = <<level>>
      /\ \A b \in 1..n :
           /\ s[2 * b + 1][1] = "block" /\ s[2 * b + 1][2] = crcs[b]
           /\ s[2 * b + 2][1] \in DataKinds
           /\ UnRLE(s[2 * b + 2][2]) = crcs[b]
           /\ Len(s[2 * b + 2][2]) \in 1..(unit * level)
           /\ ~EndsBeforeCount(s[2 * b + 2][2])
  BY DEF Laid
<1>4. m >= 2 + 2 * n
  OBVIOUS
<1> HIDE DEF r, n
<1>5. 1 \in 1..m /\ 2 \in 1..m /\ \A b \in 1..n : 2 * b + 1 \in 1..m /\ 2 * b + 2 \in 1..m
  BY <1>1, <1>4
<1>6. r[1] = s[1] /\ r[2] = s[2]
  BY <1>2, <1>5
<1>7. \A b \in 1..n : r[2 * b + 1] = s[2 * b + 1] /\ r[2 * b + 2] = s[2 * b + 2]
  BY <1>2, <1>5
<1>8. Laid(r, level, crcs, unit)
  BY <1>2, <1>3, <1>4, <1>6, <1>7 DEF Laid, n
<1> QED BY <1>2, <1>8 DEF r

(* Blocks laid and one more behind them are laid. *)
LEMMA LaidMore ==
  ASSUME NEW s \in Seq(Token), NEW level \in 1..9, NEW unit \in Nat,
         NEW crcs \in Seq(Seq(Bytes)), NEW blk \in Seq(Bytes),
         Laid(s, level, crcs, unit), Len(s) >= 4 + 2 * Len(crcs),
         s[2 * Len(crcs) + 3][1] = "block", s[2 * Len(crcs) + 3][2] = UnRLE(blk),
         s[2 * Len(crcs) + 4][1] \in DataKinds, s[2 * Len(crcs) + 4][2] = blk,
         Len(blk) \in 1..(unit * level), ~EndsBeforeCount(blk)
  PROVE  /\ Append(crcs, UnRLE(blk)) \in Seq(Seq(Bytes))
         /\ Len(Append(crcs, UnRLE(blk))) = Len(crcs) + 1
         /\ Laid(s, level, Append(crcs, UnRLE(blk)), unit)
<1> DEFINE crc == UnRLE(blk)
           more == Append(crcs, crc)
           n == Len(crcs)
<1>1. crc \in Seq(Bytes) /\ n \in Nat
  BY UnRLEType, LenProperties
<1>2. /\ more \in Seq(Seq(Bytes)) /\ Len(more) = n + 1
      /\ \A b \in 1..n : more[b] = crcs[b]
      /\ more[n + 1] = crc
  BY <1>1, AppendProperties
<1> HIDE DEF more, n
<1>3. Len(s) >= 2 + 2 * Len(more)
  <2> DEFINE m == Len(s)
  <2>1. m \in Nat /\ m >= 4 + 2 * n
    BY LenProperties DEF n
  <2> HIDE DEF m
  <2>2. m >= 2 + 2 * Len(more)
    BY <1>1, <1>2, <2>1
  <2> QED BY <2>2 DEF m
<1>4. s[1][1] = "BZh" /\ s[2][1] = "level" /\ s[2][2] = <<level>>
  BY DEF Laid
<1>5. ASSUME NEW b \in 1..Len(more)
      PROVE  /\ s[2 * b + 1][1] = "block" /\ s[2 * b + 1][2] = more[b]
             /\ s[2 * b + 2][1] \in DataKinds
             /\ UnRLE(s[2 * b + 2][2]) = more[b]
             /\ Len(s[2 * b + 2][2]) \in 1..(unit * level)
             /\ ~EndsBeforeCount(s[2 * b + 2][2])
  <2>1. CASE b \in 1..n
    BY <1>2, <2>1 DEF Laid, n
  <2>2. CASE b \notin 1..n
    <3>1. b = n + 1
      BY <1>1, <1>2, <2>2
    <3>2. 2 * b + 1 = 2 * n + 3 /\ 2 * b + 2 = 2 * n + 4
      BY <1>1, <3>1
    <3>3. more[b] = crc
      BY <1>2, <3>1
    <3> QED BY <3>2, <3>3 DEF n
  <2> QED BY <2>1, <2>2
<1>6. Laid(s, level, more, unit)
  BY <1>3, <1>4, <1>5 DEF Laid
<1> QED BY <1>2, <1>6 DEF more, n

(* A block written behind the blocks laid is laid. *)
LEMMA LaidBlock ==
  ASSUME NEW s \in Seq(Token), NEW level \in 1..9, NEW unit \in Nat,
         NEW crcs \in Seq(Seq(Bytes)), NEW blk \in Seq(Bytes),
         Laid(s, level, crcs, unit), Len(s) = 2 + 2 * Len(crcs),
         Len(blk) \in 1..(unit * level), ~EndsBeforeCount(blk)
  PROVE  /\ Laid(s \o BlockTokens(UnRLE(blk), blk), level,
                 Append(crcs, UnRLE(blk)), unit)
         /\ Len(s \o BlockTokens(UnRLE(blk), blk)) = 2 + 2 * Len(Append(crcs, UnRLE(blk)))
<1> DEFINE crc == UnRLE(blk)
           t == BlockTokens(crc, blk)
           r == s \o t
           more == Append(crcs, crc)
           n == Len(crcs)
<1>1. crc \in Seq(Bytes) /\ n \in Nat
  BY UnRLEType, LenProperties
<1>2. /\ t \in Seq(Token) /\ Len(t) = 2
      /\ t[1] = <<"block", crc>> /\ t[2] = <<"data", blk>>
  BY <1>1 DEF BlockTokens, Token
<1>3. /\ more \in Seq(Seq(Bytes)) /\ Len(more) = n + 1
      /\ \A b \in 1..n : more[b] = crcs[b]
      /\ more[n + 1] = crc
  BY <1>1, AppendProperties
<1>4. Laid(r, level, crcs, unit)
  <2>1. t \in Seq(Token)
    BY <1>2
  <2> HIDE DEF t
  <2> QED BY <2>1, LaidKept
<1>5. /\ Len(r) = 4 + 2 * n
      /\ r[2 * n + 3] = <<"block", crc>> /\ r[2 * n + 4] = <<"data", blk>>
  <2>1. Len(s) = 2 + 2 * n
    OBVIOUS
  <2> HIDE DEF t, n
  <2>2. t \in Seq(Token) /\ Len(t) = 2
    BY <1>2
  <2>3. /\ Len(r) = Len(s) + Len(t)
        /\ \A i \in 1..(Len(s) + Len(t)) : r[i] = IF i <= Len(s) THEN s[i] ELSE t[i - Len(s)]
    BY <2>2, ConcatProperties
  <2> HIDE DEF r
  <2>4. Len(r) = 4 + 2 * n
    BY <1>1, <2>1, <2>2, <2>3
  <2>5. r[2 * n + 3] = t[1]
    <3>1. 2 * n + 3 \in 1..(Len(s) + Len(t)) /\ ~ (2 * n + 3 <= Len(s))
          /\ (2 * n + 3) - Len(s) = 1
      <4> DEFINE m == Len(s)
                 k == Len(t)
      <4>1. m = 2 + 2 * n /\ k = 2 /\ n \in Nat
        BY <1>1, <2>1, <2>2
      <4> HIDE DEF m, k
      <4>2. 2 * n + 3 \in 1..(m + k) /\ ~ (2 * n + 3 <= m) /\ (2 * n + 3) - m = 1
        BY <4>1
      <4> QED BY <4>2 DEF m, k
    <3> QED BY <2>3, <3>1
  <2>6. r[2 * n + 4] = t[2]
    <3>1. 2 * n + 4 \in 1..(Len(s) + Len(t)) /\ ~ (2 * n + 4 <= Len(s))
          /\ (2 * n + 4) - Len(s) = 2
      <4> DEFINE m == Len(s)
                 k == Len(t)
      <4>1. m = 2 + 2 * n /\ k = 2 /\ n \in Nat
        BY <1>1, <2>1, <2>2
      <4> HIDE DEF m, k
      <4>2. 2 * n + 4 \in 1..(m + k) /\ ~ (2 * n + 4 <= m) /\ (2 * n + 4) - m = 2
        BY <4>1
      <4> QED BY <4>2 DEF m, k
    <3> QED BY <2>3, <3>1
  <2> QED BY <1>2, <2>4, <2>5, <2>6
<1> HIDE DEF r, more, n, t
<1>6. Len(r) = 2 + 2 * Len(more)
  BY <1>1, <1>3, <1>5
<1>7. Laid(r, level, more, unit)
  <2>1. r[2 * n + 3][1] = "block" /\ r[2 * n + 3][2] = UnRLE(blk)
    BY <1>5
  <2>2. r[2 * n + 4][1] \in DataKinds /\ r[2 * n + 4][2] = blk
    BY <1>5 DEF DataKinds
  <2>3. r \in Seq(Token)
    <3>1. t \in Seq(Token)
      BY <1>2
    <3> QED BY <3>1, ConcatProperties DEF r
  <2>4. Len(r) >= 4 + 2 * n
    BY <1>1, <1>5
  <2> QED BY <1>4, <2>1, <2>2, <2>3, <2>4, LaidMore DEF n, more
<1> QED BY <1>6, <1>7 DEF r, more, t

(* A position of a whole stream is one of the header's, the first or the   *)
(* second of a block's, or one of the trailer's.                           *)
LEMMA Positions ==
  ASSUME NEW n \in Nat, NEW i \in 1..(2 * n + 4)
  PROVE  \/ i = 1 \/ i = 2 \/ i = 2 * n + 3 \/ i = 2 * n + 4
         \/ \E b \in 1..n : i = 2 * b + 1
         \/ \E b \in 1..n : i = 2 * b + 2
<1> SUFFICES ASSUME i # 1, i # 2, i # 2 * n + 3, i # 2 * n + 4
             PROVE  \E b \in 1..n : i = 2 * b + 1 \/ i = 2 * b + 2
  OBVIOUS
<1> DEFINE b == (i - 1) \div 2
<1>1. b \in 1..n /\ (i = 2 * b + 1 \/ i = 2 * b + 2)
  OBVIOUS
<1> QED BY <1>1

(* A header, blocks and a trailer that covers them are a whole stream.     *)
LEMMA LaidIsWhole ==
  ASSUME NEW s \in Seq(Token), NEW level \in 1..9, NEW unit \in Nat,
         NEW crcs \in Seq(Seq(Bytes)), Laid(s, level, crcs, unit),
         Len(s) = 2 * Len(crcs) + 4,
         s[Len(s) - 1][1] = "end", s[Len(s)][1] = "crc", s[Len(s)][2] = crcs
  PROVE  WellFormed(s, unit) /\ Content(s) = Seqs!FlattenSeq(crcs)
<1> DEFINE n == Len(crcs)
           N == 2 * n + 4
<1>1. n \in Nat /\ Len(s) = N
  BY LenProperties
<1>2. /\ s[1][1] = "BZh" /\ s[2][1] = "level" /\ s[2][2] = <<level>>
      /\ \A b \in 1..n : /\ s[2 * b + 1][1] = "block" /\ s[2 * b + 1][2] = crcs[b]
                        /\ s[2 * b + 2][1] \in DataKinds
                        /\ UnRLE(s[2 * b + 2][2]) = crcs[b]
                        /\ Len(s[2 * b + 2][2]) \in 1..(unit * level)
                        /\ ~EndsBeforeCount(s[2 * b + 2][2])
  BY DEF Laid
<1>3. s[2 * n + 3][1] = "end" /\ s[N][1] = "crc" /\ s[N][2] = crcs
  <2>1. N - 1 = 2 * n + 3
    BY <1>1
  <2> QED BY <1>1, <2>1
<1> HIDE DEF n
<1>4. /\ s[1][1] = "BZh" /\ s[2][1] = "level" /\ s[2][2] = <<level>>
      /\ s[2 * n + 3][1] = "end" /\ s[N][1] = "crc" /\ s[N][2] = crcs
      /\ \A b \in 1..n : s[2 * b + 1][1] = "block" /\ s[2 * b + 1][2] = crcs[b]
  BY <1>2, <1>3
<1>5. \A b \in 1..n : /\ 2 * b + 1 \in 3..(2 * n + 1) /\ 2 * b + 2 \in 4..(2 * n + 2)
                     /\ (2 * b + 1) + 1 = 2 * b + 2 /\ (2 * b + 2) - 1 = 2 * b + 1
  BY <1>1
<1>6. \A i \in 1..N : \/ i = 1 \/ i = 2 \/ i = 2 * n + 3 \/ i = N
                      \/ \E b \in 1..n : i = 2 * b + 1
                      \/ \E b \in 1..n : i = 2 * b + 2
  BY <1>1, Positions
<1>7. ASSUME NEW i \in 1..N
      PROVE  /\ s[i][1] # "bad"
             /\ s[i][1] = "BZh" <=> i = 1
             /\ s[i][1] = "level" <=> i = 2
             /\ s[i][1] = "level" => s[i][2] \in {<<k>> : k \in 1..9}
             /\ s[i][1] = "block" <=> (i < N /\ s[i + 1][1] \in DataKinds)
             /\ s[i][1] \in DataKinds => UnRLE(s[i][2]) = s[i - 1][2]
             /\ s[i][1] = "end" <=> i = N - 1 /\ s[N][1] = "crc"
             /\ s[i][1] = "crc" =>
                  /\ i = N
                  /\ N = 2 * Len(s[i][2]) + 4
                  /\ \A b \in 1..Len(s[i][2]) : s[i][2][b] = s[2 * b + 1][2]
  <2>1. CASE i = 1
    <3>1. i + 1 = 2 /\ i # 2 /\ i # N - 1
      BY <1>1, <2>1
    <3> QED BY <1>4, <2>1, <3>1 DEF DataKinds
  <2>2. CASE i = 2
    <3>1. i # 1 /\ i # N - 1 /\ i < N
      BY <1>1, <2>2
    <3>2. s[3][1] \in {"block", "end"}
      <4>1. CASE n = 0
        <5>1. 2 * n + 3 = 3
          BY <4>1
        <5> QED BY <1>4, <5>1
      <4>2. CASE n # 0
        <5>1. 1 \in 1..n /\ 2 * 1 + 1 = 3
          BY <1>1, <4>2
        <5> QED BY <1>4, <5>1
      <4> QED BY <4>1, <4>2
    <3>3. i + 1 = 3
      BY <2>2
    <3> QED BY <1>4, <2>2, <3>1, <3>2, <3>3 DEF DataKinds
  <2>3. CASE i = 2 * n + 3
    <3>1. i # 1 /\ i # 2 /\ i = N - 1 /\ i + 1 = N
      BY <1>1, <2>3
    <3> QED BY <1>4, <2>3, <3>1 DEF DataKinds
  <2>4. CASE i = N
    <3>1. i # 1 /\ i # 2 /\ i # N - 1 /\ ~ (i < N)
      BY <1>1, <2>4
    <3>2. N = 2 * Len(crcs) + 4 /\ \A b \in 1..Len(crcs) : crcs[b] = s[2 * b + 1][2]
      BY <1>4 DEF n
    <3> HIDE DEF N
    <3> QED BY <1>4, <2>4, <3>1, <3>2 DEF DataKinds
  <2>5. ASSUME NEW b \in 1..n, i = 2 * b + 1
        PROVE  <1>7!2
    <3>1. i # 1 /\ i # 2 /\ i # N - 1 /\ i < N /\ i + 1 = 2 * b + 2
      BY <1>1, <1>5, <2>5
    <3>2. s[i][1] = "block" /\ s[i + 1][1] \in DataKinds
      BY <1>2, <1>4, <2>5, <3>1
    <3> QED BY <1>4, <3>1, <3>2 DEF DataKinds
  <2>6. ASSUME NEW b \in 1..n, i = 2 * b + 2
        PROVE  <1>7!2
    <3>1. i # 1 /\ i # 2 /\ i # N - 1 /\ i < N /\ i - 1 = 2 * b + 1
      BY <1>1, <1>5, <2>6
    <3>2. s[i][1] \in DataKinds /\ UnRLE(s[i][2]) = s[i - 1][2]
      BY <1>2, <1>4, <2>6, <3>1
    <3>3. s[i + 1][1] \in {"block", "end"}
      <4>1. CASE b = n
        <5>1. i + 1 = 2 * n + 3
          BY <1>1, <2>6, <4>1
        <5> QED BY <1>4, <5>1
      <4>2. CASE b # n
        <5>1. b + 1 \in 1..n /\ i + 1 = 2 * (b + 1) + 1
          BY <1>1, <2>6, <4>2
        <5> QED BY <1>4, <5>1
      <4> QED BY <4>1, <4>2
    <3> QED BY <1>4, <3>1, <3>2, <3>3 DEF DataKinds
  <2> QED BY <1>6, <2>1, <2>2, <2>3, <2>4, <2>5, <2>6
<1>8. Framed(s)
  <2>1. Len(s) = N
    BY <1>1
  <2> HIDE DEF N
  <2> QED BY <1>7, <2>1, Zenon DEF Framed
<1>9. WellFormed(s, unit)
  <2>1. Len(s) > 3 /\ s[Len(s)][1] = "crc"
    BY <1>1, <1>4
  <2>2. ASSUME NEW i \in 1..N, s[i][1] \in DataKinds
        PROVE  /\ Len(s[i][2]) \in 1..(unit * s[2][2][1])
               /\ ~EndsBeforeCount(s[i][2])
    <3>1. PICK b \in 1..n : i = 2 * b + 2
      BY <1>4, <1>6, <2>2 DEF DataKinds
    <3>2. s[2][2][1] = level
      BY <1>4
    <3> QED BY <1>2, <3>1, <3>2
  <2> QED BY <1>1, <1>8, <2>1, <2>2 DEF WellFormed
<1>10. Content(s) = Seqs!FlattenSeq(crcs)
  <2> DEFINE c == [b \in 1..((Len(s) - 4) \div 2) |-> s[2 * b + 1][2]]
  <2>1. (Len(s) - 4) \div 2 = n
    BY <1>1
  <2>2. c = [b \in 1..n |-> crcs[b]]
    BY <1>4, <2>1
  <2>3. [b \in 1..n |-> crcs[b]] = crcs
    <3>1. crcs \in Seq(Seq(Bytes)) /\ n = Len(crcs)
      BY DEF n
    <3> QED BY <3>1, SeqEqual
  <2> QED BY <2>2, <2>3 DEF Content
<1> QED BY <1>9, <1>10
==============================================================================
