-------------------------- MODULE EntropyCodingProofs --------------------------
(***************************************************************************)
(* Proofs about EntropyCoding, for every set of columns and every size of  *)
(* its arrays: the encoder's values stay behind what it still reads and    *)
(* its selectors fit, and the decoder's list, though kept in parts that    *)
(* move about in mtfa, is at every moment the list of a move to front.     *)
(***************************************************************************)
EXTENDS EntropyCoding, FiniteSetTheorems, SequenceTheorems, TLAPS
LOCAL INSTANCE FiniteSetsExt
Lemmas == INSTANCE StreamLemmas

Size  == Lists * MTFL_SIZE
Parts == 0..(Lists - 1)

(* The list s is of n and holds every number below n. *)
Whole(s, n) == s \in Seq(0..(n - 1)) /\ Len(s) = n /\ \A v \in 0..(n - 1) : \E i \in 1..n : s[i] = v

(* The sequence f has n elements. *)
Listed(f, n) == f = [k \in 1..n |-> f[k]]

(* What the encoder has, until it sends. *)
EncoderInv ==
  /\ column \in Columns
  /\ at \in 0..nblock /\ zPend \in Nat
  /\ mtfv \in Seq(Alpha) /\ nMTF <= nblock + 1
  /\ pc = "mtf" => /\ nMTF + zPend <= at
                   /\ Whole(yy, nInUse)
  /\ \E n \in 0..BZ_MAX_SELECTORS : Listed(selector, n)

(* Parts that are apart and have not moved to the right of their start. *)
Held(a, base) ==
  /\ a \in [0..(MTFA_SIZE - 1) -> Int]
  /\ base \in [Parts -> Nat]
  /\ \A l \in Parts : /\ 0 < base[l] /\ base[l] <= MTFA_SIZE - (Lists - l) * MTFL_SIZE
                      /\ \A m \in (l + 1)..(Lists - 1) : base[l] + MTFL_SIZE <= base[m]

(* What the decoder has of the block. *)
TablesInv ==
  /\ inUse # {} /\ code.EOB = EOB
  /\ \E n \in 0..BZ_MAX_SELECTORS : Listed(code.selector, n)
  /\ \A g \in DOMAIN code.selector : code.selector[g] \in DOMAIN code.table
  /\ \A t \in DOMAIN code.table : code.table[t].perm \in [Alpha -> Alpha]

ReceiveInv ==
  /\ groupNo \in -1..Len(code.selector) /\ groupPos \in Int /\ (groupPos = 0 \/ groupNo >= 0)
  /\ es \in Int /\ N \in Nat
  /\ out \in Seq(inUse)
  /\ Held(mtfa, mtfbase)
  /\ \A k \in 1..Size : List[k] \in Nat /\ IF k <= nInUse THEN List[k] < nInUse ELSE List[k] = k - 1
  /\ RecentFirst

DecoderInv ==
  /\ pc \in {"header", "receive", "done"} => sent.inUse = inUse
  /\ pc = "header" => \E n \in Nat : Listed(sent.selectorMtf, n)
  /\ pc \in {"receive", "done", "data_error"}
       \/ (out = <<>> /\ groupNo = -1 /\ groupPos = 0 /\ es = -1 /\ N = 1)
  /\ pc \in {"receive", "done"} => TablesInv /\ ReceiveInv

IInv == /\ pc \in {"mtf", "tables", "pass", "lengths", "send", "header", "receive", "done", "data_error"}
        /\ EncoderInv /\ DecoderInv

------------------------------------------------------------------------------
(* Ranks. *)

(* In a finite set with an order R each number below its size is the number *)
(* of those before one of its elements.                                     *)
Before(S, R, v) == Cardinality({u \in S : <<u, v>> \in R})

LEMMA Ranks ==
  ASSUME NEW S, IsFiniteSet(S), NEW R,
         \A u, v, w \in S : <<u, v>> \in R /\ <<v, w>> \in R => <<u, w>> \in R,
         \A u \in S : <<u, u>> \notin R,
         \A u, v \in S : u # v => <<u, v>> \in R \/ <<v, u>> \in R
  PROVE  /\ Cardinality(S) \in Nat
         /\ \A v \in S : Before(S, R, v) \in 0..(Cardinality(S) - 1)
         /\ \A k \in 0..(Cardinality(S) - 1) : \E v \in S : Before(S, R, v) = k
<1> DEFINE n == Cardinality(S)
           below(v) == {u \in S : <<u, v>> \in R}
           f == [v \in S |-> Before(S, R, v)]
<1>1. n \in Nat
  BY FS_CardinalityType
<1>2. \A v \in S : IsFiniteSet(below(v)) /\ Cardinality(below(v)) \in 0..(n - 1)
  <2> SUFFICES ASSUME NEW v \in S
               PROVE  IsFiniteSet(below(v)) /\ Cardinality(below(v)) \in 0..(n - 1)
    OBVIOUS
  <2>1. below(v) \in SUBSET S /\ v \notin below(v)
    OBVIOUS
  <2>2. IsFiniteSet(below(v)) /\ Cardinality(below(v)) <= n /\ (n = Cardinality(below(v)) => S = below(v))
    BY <2>1, FS_Subset
  <2>3. Cardinality(below(v)) \in Nat
    BY <2>2, FS_CardinalityType
  <2> QED BY <1>1, <2>1, <2>2, <2>3
<1>3. \A v \in S : f[v] = Cardinality(below(v)) /\ f[v] \in 0..(n - 1)
  BY <1>2 DEF Before
<1>4. \A u, v \in S : <<u, v>> \in R => f[u] < f[v]
  <2> SUFFICES ASSUME NEW u \in S, NEW v \in S, <<u, v>> \in R
               PROVE  f[u] < f[v]
    OBVIOUS
  <2>1. below(u) \in SUBSET below(v) /\ u \in below(v) /\ u \notin below(u)
    OBVIOUS
  <2>2. Cardinality(below(u)) <= Cardinality(below(v)) /\ Cardinality(below(u)) # Cardinality(below(v))
    BY <1>2, <2>1, FS_Subset
  <2>3. f[u] = Cardinality(below(u)) /\ f[v] = Cardinality(below(v))
    BY <1>3
  <2> HIDE DEF f, below, n
  <2>4. f[u] \in Int /\ f[v] \in Int
    BY <1>1, <1>3
  <2>5. f[u] <= f[v] /\ f[u] # f[v]
    BY <2>2, <2>3
  <2> QED BY <2>4, <2>5
<1> HIDE DEF below, f
<1>5. f \in [S -> 0..(n - 1)]
  <2>1. f = [v \in S |-> f[v]]
    BY DEF f
  <2> QED BY <1>3, <2>1
<1>6. \A u, v \in S : f[u] = f[v] => u = v
  <2> SUFFICES ASSUME NEW u \in S, NEW v \in S, u # v PROVE f[u] # f[v]
    OBVIOUS
  <2>1. f[u] \in Nat /\ f[v] \in Nat
    BY <1>1, <1>3
  <2>2. <<u, v>> \in R \/ <<v, u>> \in R
    OBVIOUS
  <2>3. f[u] < f[v] \/ f[v] < f[u]
    BY <1>4, <2>2
  <2> QED BY <2>1, <2>3
<1>7. IsFiniteSet(0..(n - 1)) /\ Cardinality(0..(n - 1)) = n
  <2>1. 0 \in Int /\ n - 1 \in Int /\ (IF 0 > n - 1 THEN 0 ELSE (n - 1) - 0 + 1) = n
    BY <1>1
  <2> HIDE DEF n
  <2> QED BY <2>1, FS_Interval
<1>8. \A k \in 0..(n - 1) : \E v \in S : f[v] = k
  <2> SUFFICES ASSUME NEW k \in 0..(n - 1), \A v \in S : f[v] # k PROVE FALSE
    OBVIOUS
  <2> DEFINE I == 0..(n - 1)
             T == I \ {k}
  <2>1. IsFiniteSet(T) /\ Cardinality(T) = n - 1
    <3>1. IsFiniteSet(I) /\ Cardinality(I) = n /\ k \in I
      BY <1>7
    <3> HIDE DEF I, n
    <3> QED BY <3>1, FS_RemoveElement
  <2>2. Cardinality(T) < Cardinality(S)
    BY <1>1, <2>1
  <2>3. f \in [S -> T]
    BY <1>5
  <2> HIDE DEF T
  <2>4. \E u, v \in S : u # v /\ f[u] = f[v]
    BY <2>1, <2>2, <2>3, FS_PigeonHole
  <2> QED BY <1>6, <2>4
<1> QED BY <1>1, <1>5, <1>8 DEF f

(* The symbols in use, in their order, are numbered from 0. *)
LEMMA SymbolRanks ==
  ASSUME NEW S, S \subseteq Nat, IsFiniteSet(S)
  PROVE  /\ Cardinality(S) \in Nat
         /\ \A u \in S : unseqToSeq(S, u) \in 0..(Cardinality(S) - 1)
         /\ \A k \in 0..(Cardinality(S) - 1) : \E u \in S : unseqToSeq(S, u) = k
<1> DEFINE R == {p \in Nat \X Nat : p[1] < p[2]}
<1>1. \A u, v \in Nat : <<u, v>> \in R <=> u < v
  OBVIOUS
<1> HIDE DEF R
<1>2. \A u, v, w \in S : <<u, v>> \in R /\ <<v, w>> \in R => <<u, w>> \in R
  BY <1>1
<1>3. \A u \in S : <<u, u>> \notin R
  BY <1>1
<1>4. \A u, v \in S : u # v => <<u, v>> \in R \/ <<v, u>> \in R
  BY <1>1
<1>5. \A v \in S : Before(S, R, v) = unseqToSeq(S, v)
  <2> SUFFICES ASSUME NEW v \in S PROVE Before(S, R, v) = unseqToSeq(S, v)
    OBVIOUS
  <2>1. {u \in S : <<u, v>> \in R} = {u \in S : u < v}
    BY <1>1
  <2> QED BY <2>1 DEF Before, unseqToSeq
<1>6. /\ Cardinality(S) \in Nat
      /\ \A v \in S : Before(S, R, v) \in 0..(Cardinality(S) - 1)
      /\ \A k \in 0..(Cardinality(S) - 1) : \E v \in S : Before(S, R, v) = k
  BY <1>2, <1>3, <1>4, Ranks
<1> QED BY <1>5, <1>6

(* Each number up to EOB is the place of a value in the order of their      *)
(* lengths, that of the alphabet among the same.                            *)
Same(l, v) == Cardinality({u \in Alpha : u < v /\ l[u] = l[v]})

LEMMA LengthRanks ==
  ASSUME NEW n \in Nat, Alpha = 0..n, NEW l, \A v \in Alpha : l[v] \in Nat,
         NEW k \in 0..n
  PROVE  \E v \in Alpha : k = Shorter(l, l[v]) + Same(l, v)
<1> DEFINE S == Alpha
           R == {p \in S \X S : l[p[1]] < l[p[2]] \/ (p[1] < p[2] /\ l[p[1]] = l[p[2]])}
<1>0. IsFiniteSet(S) /\ Cardinality(S) = n + 1
  BY FS_Interval
<1>1. \A u, v \in S : <<u, v>> \in R <=> l[u] < l[v] \/ (u < v /\ l[u] = l[v])
  OBVIOUS
<1>1a. \A u \in S : u \in Nat /\ l[u] \in Nat
  OBVIOUS
<1> HIDE DEF R, S
<1>2. \A u, v, w \in S : <<u, v>> \in R /\ <<v, w>> \in R => <<u, w>> \in R
  BY <1>1, <1>1a
<1>3. \A u \in S : <<u, u>> \notin R
  BY <1>1, <1>1a
<1>4. \A u, v \in S : u # v => <<u, v>> \in R \/ <<v, u>> \in R
  BY <1>1, <1>1a
<1>5. \E v \in S : Before(S, R, v) = k
  <2>1. \A j \in 0..(Cardinality(S) - 1) : \E v \in S : Before(S, R, v) = j
    BY <1>0, <1>2, <1>3, <1>4, Ranks
  <2> QED BY <1>0, <2>1
<1>6. PICK v \in S : Before(S, R, v) = k
  BY <1>5
<1> DEFINE A == {u \in S : l[u] < l[v]}
           B == {u \in S : u < v /\ l[u] = l[v]}
<1>7. {u \in S : <<u, v>> \in R} = A \cup B /\ A \cap B = {}
  BY <1>1, <1>1a
<1>8. IsFiniteSet(A) /\ IsFiniteSet(B)
  <2>1. A \in SUBSET S /\ B \in SUBSET S
    OBVIOUS
  <2> QED BY <1>0, <2>1, FS_Subset
<1>9. Cardinality(A \cup B) = Cardinality(A) + Cardinality(B)
  <2>1. Cardinality(A \cup B) = Cardinality(A) + Cardinality(B) - Cardinality(A \cap B)
    BY <1>8, FS_Union
  <2>2. Cardinality(A \cap B) = 0
    BY <1>7, FS_EmptySet
  <2>3. Cardinality(A) \in Nat /\ Cardinality(B) \in Nat
    BY <1>8, FS_CardinalityType
  <2> HIDE DEF A, B
  <2> QED BY <2>1, <2>2, <2>3
<1>10. k = Cardinality(A) + Cardinality(B)
  BY <1>6, <1>7, <1>9 DEF Before
<1>11. k = Shorter(l, l[v]) + Same(l, v)
  BY <1>10 DEF Shorter, Same, S
<1> QED BY <1>11 DEF S

------------------------------------------------------------------------------
(* Sizes. *)

LEMMA Sizes ==
  /\ MTFL_SIZE \in Nat \ {0} /\ MTFA_SIZE \in Nat /\ BZ_G_SIZE \in Nat \ {0}
  /\ BZ_MAX_SELECTORS \in Nat /\ RoundUp \in Nat
  /\ Lists \in Nat /\ Size \in Nat /\ Size = Cardinality(Symbols) /\ Size < MTFA_SIZE
<1>1. /\ MTFL_SIZE \in Nat \ {0} /\ MTFA_SIZE \in Nat /\ BZ_G_SIZE \in Nat \ {0}
      /\ BZ_MAX_SELECTORS \in Nat /\ RoundUp \in Nat
  BY SizesAssumption
<1>2. Cardinality(Symbols) \in Nat /\ Cardinality(Symbols) % MTFL_SIZE = 0 /\ Cardinality(Symbols) < MTFA_SIZE
  BY SizesAssumption, FS_CardinalityType
<1>3. \A n, d \in Nat : d > 0 /\ n % d = 0 => n \div d \in Nat /\ (n \div d) * d = n
  OBVIOUS
<1>4. Lists \in Nat /\ Lists * MTFL_SIZE = Cardinality(Symbols)
  BY <1>1, <1>2, <1>3 DEF Lists
<1> QED BY <1>1, <1>2, <1>4 DEF Size

(* A column and the symbols in it. *)
LEMMA ColumnSizes ==
  ASSUME column \in Columns
  PROVE  /\ nblock \in Nat /\ column \in [0..(nblock - 1) -> Symbols]
         /\ nblock + 1 <= BZ_G_SIZE * BZ_MAX_SELECTORS
         /\ inUse \subseteq Nat /\ IsFiniteSet(inUse) /\ nInUse \in Nat /\ nInUse <= Size
         /\ \A i \in 0..(nblock - 1) : column[i] \in inUse
         /\ EOB = nInUse + 1
<1>1. /\ nblock \in Nat /\ column \in [0..(nblock - 1) -> Symbols]
      /\ nblock + 1 <= BZ_G_SIZE * BZ_MAX_SELECTORS
  BY ColumnsAssumption DEF nblock
<1>2. inUse \in SUBSET Symbols /\ \A i \in 0..(nblock - 1) : column[i] \in inUse
  BY <1>1 DEF inUse
<1>3. Symbols \subseteq Nat /\ IsFiniteSet(Symbols)
  BY SizesAssumption
<1>4. IsFiniteSet(inUse) /\ Cardinality(inUse) <= Size
  BY <1>2, <1>3, FS_Subset, Sizes
<1>5. Cardinality(inUse) \in Nat
  BY <1>4, FS_CardinalityType
<1> QED BY <1>1, <1>2, <1>3, <1>4, <1>5 DEF nInUse, EOB

(* A place in the list is a place in one of its parts. *)
LEMMA Places ==
  ASSUME NEW k \in 0..(Size - 1)
  PROVE  /\ k \div MTFL_SIZE \in Parts /\ k % MTFL_SIZE \in 0..(MTFL_SIZE - 1)
         /\ k = (k \div MTFL_SIZE) * MTFL_SIZE + (k % MTFL_SIZE)
<1>1. MTFL_SIZE \in Nat \ {0} /\ Lists \in Nat /\ Size = Lists * MTFL_SIZE
  BY Sizes DEF Size
<1>2. \A n, d, i \in Nat : d > 0 /\ i < n * d =>
        /\ i \div d \in 0..(n - 1) /\ i % d \in 0..(d - 1)
        /\ i = (i \div d) * d + (i % d)
  OBVIOUS
<1> QED BY <1>1, <1>2 DEF Parts

LEMMA PlaceOf ==
  ASSUME NEW l \in Nat, NEW o \in 0..(MTFL_SIZE - 1)
  PROVE  (l * MTFL_SIZE + o) \div MTFL_SIZE = l /\ (l * MTFL_SIZE + o) % MTFL_SIZE = o
<1>1. \A d, i, r \in Nat : r < d => (i * d + r) \div d = i /\ (i * d + r) % d = r
  OBVIOUS
<1> QED BY <1>1, Sizes

------------------------------------------------------------------------------
(* The code of a run is no longer than the run.                             *)
DigitsStep(f, n) ==
  LET digit == IF (n - 1) % 2 = 1 THEN BZ_RUNB ELSE BZ_RUNA
  IN  IF n = 0 THEN <<>> ELSE <<digit>> \o (IF n - 1 < 2 THEN <<>> ELSE f[(n - 1) \div 2])

LEMMA DigitsExist ==
  ASSUME NEW z \in Nat
  PROVE  \E f : f = [n \in 0..z |-> DigitsStep(f, n)]
<1> DEFINE T == {k \in Nat : \E f : f = [n \in 0..k |-> DigitsStep(f, n)]}
<1>1. 0 \in T
  <2>1. [n \in 0..0 |-> <<>>] = [n \in 0..0 |-> DigitsStep([m \in 0..0 |-> <<>>], n)]
    BY DEF DigitsStep
  <2> QED BY <2>1
<1>2. ASSUME NEW k \in Nat, k \in T PROVE k + 1 \in T
  <2>1. PICK f : f = [n \in 0..k |-> DigitsStep(f, n)]
    BY <1>2
  <2> DEFINE g == [n \in 0..(k + 1) |-> IF n = k + 1 THEN DigitsStep(f, n) ELSE f[n]]
  <2>2. \A n \in 0..(k + 1) : DigitsStep(g, n) = DigitsStep(f, n)
    <3> SUFFICES ASSUME NEW n \in 0..(k + 1) PROVE DigitsStep(g, n) = DigitsStep(f, n)
      OBVIOUS
    <3>1. n - 1 >= 2 => (n - 1) \div 2 \in 0..(k + 1) /\ (n - 1) \div 2 # k + 1
      OBVIOUS
    <3>2. n - 1 >= 2 => g[(n - 1) \div 2] = f[(n - 1) \div 2]
      BY <3>1
    <3> HIDE DEF g
    <3>3. n - 1 < 2 \/ n - 1 >= 2
      OBVIOUS
    <3> QED BY <3>2, <3>3 DEF DigitsStep
  <2>3. \A n \in 0..(k + 1) : g[n] = DigitsStep(f, n)
    <3>1. \A n \in 0..k : f[n] = DigitsStep(f, n)
      BY <2>1
    <3>2. \A n \in 0..(k + 1) : n # k + 1 => n \in 0..k
      OBVIOUS
    <3> QED BY <3>1, <3>2
  <2>4. g = [n \in 0..(k + 1) |-> DigitsStep(g, n)]
    <3>1. g = [n \in 0..(k + 1) |-> g[n]]
      OBVIOUS
    <3> HIDE DEF g
    <3> QED BY <2>2, <2>3, <3>1
  <2> HIDE DEF g
  <2>5. \E h : h = [n \in 0..(k + 1) |-> DigitsStep(h, n)]
    BY <2>4
  <2> QED BY <2>5
<1> HIDE DEF T
<1>3. z \in T
  BY <1>1, <1>2, Lemmas!SetInduction
<1> QED BY <1>3 DEF T

LEMMA RunCodeShort ==
  ASSUME NEW z \in Nat
  PROVE  RunCode(z) \in Seq({BZ_RUNA, BZ_RUNB}) /\ Len(RunCode(z)) <= z
<1> DEFINE f == CHOOSE f : f = [n \in 0..z |-> DigitsStep(f, n)]
<1>1. f = [n \in 0..z |-> DigitsStep(f, n)]
  BY DigitsExist
<1>2. RunCode(z) = f[z]
  BY DEF RunCode, DigitsStep
<1> HIDE DEF f
<1>3. \A n \in 0..z : f[n] = DigitsStep(f, n)
  BY <1>1
<1> DEFINE ok(n) == f[n] \in Seq({BZ_RUNA, BZ_RUNB}) /\ Len(f[n]) <= n
           T == {k \in Nat : \A n \in 0..k : n <= z => ok(n)}
<1>4. 0 \in T
  <2>1. f[0] = <<>>
    <3>1. 0 \in 0..z
      OBVIOUS
    <3>2. f[0] = DigitsStep(f, 0)
      BY <1>3, <3>1
    <3>3. DigitsStep(f, 0) = <<>>
      BY DEF DigitsStep
    <3> QED BY <3>2, <3>3
  <2>2. ok(0)
    BY <2>1
  <2> QED BY <2>2
<1>5. ASSUME NEW k \in Nat, k \in T PROVE k + 1 \in T
  <2> SUFFICES ASSUME k + 1 <= z PROVE ok(k + 1)
    BY <1>5
  <2> DEFINE d == IF k % 2 = 1 THEN BZ_RUNB ELSE BZ_RUNA
  <2>1. f[k + 1] = <<d>> \o (IF k < 2 THEN <<>> ELSE f[k \div 2])
    <3>1. k + 1 \in 0..z /\ k + 1 # 0 /\ (k + 1) - 1 = k
      OBVIOUS
    <3> QED BY <1>3, <3>1 DEF DigitsStep
  <2>2. d \in {BZ_RUNA, BZ_RUNB}
    OBVIOUS
  <2> HIDE DEF d
  <2>3. <<d>> \in Seq({BZ_RUNA, BZ_RUNB}) /\ Len(<<d>>) = 1
    BY <2>2
  <2>4. CASE k < 2
    <3>1. <<d>> \o <<>> = <<d>>
      OBVIOUS
    <3> QED BY <2>1, <2>3, <2>4, <3>1
  <2>5. CASE k >= 2
    <3>1. k \div 2 \in 0..k /\ k \div 2 <= z
      BY <2>5
    <3>2. ok(k \div 2)
      BY <1>5, <3>1
    <3> DEFINE t == f[k \div 2]
    <3>3. t \in Seq({BZ_RUNA, BZ_RUNB}) /\ Len(t) <= k \div 2 /\ Len(t) \in Nat
      BY <3>2, LenProperties
    <3>4. f[k + 1] = <<d>> \o t
      BY <2>1, <2>5
    <3> HIDE DEF t
    <3>5. <<d>> \o t \in Seq({BZ_RUNA, BZ_RUNB}) /\ Len(<<d>> \o t) = 1 + Len(t)
      BY <2>3, <3>3, ConcatProperties
    <3> QED BY <3>1, <3>3, <3>4, <3>5
  <2> QED BY <2>4, <2>5
<1> HIDE DEF T
<1>6. z \in T
  BY <1>4, <1>5, Lemmas!SetInduction
<1>7. z \in 0..z /\ z <= z
  OBVIOUS
<1>8. ok(z)
  BY <1>6, <1>7 DEF T
<1> QED BY <1>2, <1>8

------------------------------------------------------------------------------
(* Least and greatest. *)
LEMMA MaxIs ==
  ASSUME NEW T, NEW x \in T, T \subseteq Nat, \A y \in T : y <= x
  PROVE  Max(T) = x
<1>1. \A y \in T : x >= y
  OBVIOUS
<1>2. Max(T) \in T /\ \A y \in T : Max(T) >= y
  BY <1>1 DEF Max
<1>3. Max(T) \in Nat /\ x \in Nat /\ Max(T) >= x /\ Max(T) <= x
  BY <1>2
<1> QED BY <1>3

LEMMA TwoMin ==
  ASSUME NEW a \in Nat, NEW b \in Nat
  PROVE  Min({a, b}) \in Nat /\ Min({a, b}) <= a /\ Min({a, b}) <= b
<1>1. \E x \in {a, b} : \A y \in {a, b} : x <= y
  OBVIOUS
<1>2. Min({a, b}) \in {a, b} /\ \A y \in {a, b} : Min({a, b}) <= y
  BY <1>1 DEF Min
<1> QED BY <1>2

LEMMA WholeFirst ==
  ASSUME NEW n \in Nat
  PROVE  Whole([k \in 1..n |-> k - 1], n)
<1> DEFINE s == [k \in 1..n |-> k - 1]
<1>1. \A k \in 1..n : k - 1 \in 0..(n - 1)
  OBVIOUS
<1>2. s \in [1..n -> 0..(n - 1)]
  BY <1>1
<1>3. s \in Seq(0..(n - 1)) /\ Len(s) = n
  BY <1>2
<1>4. \A v \in 0..(n - 1) : v + 1 \in 1..n /\ s[v + 1] = v
  OBVIOUS
<1> HIDE DEF s
<1>5. \A v \in 0..(n - 1) : \E i \in 1..n : s[i] = v
  BY <1>4
<1>6. Whole(s, n)
  BY <1>3, <1>5 DEF Whole
<1> QED BY <1>6 DEF s

LEMMA WholeToFront ==
  ASSUME NEW n \in Nat, NEW s, Whole(s, n), NEW k \in 1..n
  PROVE  Whole(ToFront(s, k), n)
<1> DEFINE t == ToFront(s, k)
           V == 0..(n - 1)
<1>0. s \in [1..n -> V] /\ DOMAIN s = 1..n
  BY LenProperties DEF Whole
<1>1. t = [i \in 1..n |-> IF i = 1 THEN s[k] ELSE IF i <= k THEN s[i - 1] ELSE s[i]]
  BY <1>0 DEF ToFront
<1>2. ASSUME NEW i \in 1..n PROVE t[i] \in V
  <2>1. t[i] = IF i = 1 THEN s[k] ELSE IF i <= k THEN s[i - 1] ELSE s[i]
    BY <1>1
  <2>2. i # 1 => i - 1 \in 1..n
    OBVIOUS
  <2> HIDE DEF t, V
  <2> QED BY <1>0, <2>1, <2>2
<1>3. t \in [1..n -> V]
  <2> HIDE DEF V
  <2> QED BY <1>1, <1>2
<1>4. ASSUME NEW i \in 1..n PROVE \E m \in 1..n : t[m] = s[i]
  <2>1. CASE i = k
    <3>1. 1 \in 1..n /\ t[1] = s[k]
      BY <1>1
    <3> QED BY <2>1, <3>1
  <2>2. CASE i < k
    <3>1. i + 1 \in 1..n /\ i + 1 # 1 /\ i + 1 <= k /\ (i + 1) - 1 = i
      BY <2>2
    <3>2. t[i + 1] = s[i]
      BY <1>1, <3>1
    <3> QED BY <3>1, <3>2
  <2>3. CASE i > k
    <3>1. t[i] = s[i]
      BY <1>1, <2>3
    <3> QED BY <3>1
  <2> QED BY <2>1, <2>2, <2>3
<1> HIDE DEF t
<1>5. \A v \in V : \E i \in 1..n : t[i] = v
  <2> SUFFICES ASSUME NEW v \in V PROVE \E i \in 1..n : t[i] = v
    OBVIOUS
  <2>1. PICK i \in 1..n : s[i] = v
    BY DEF Whole
  <2> QED BY <1>4, <2>1
<1>6. t \in Seq(V) /\ Len(t) = n
  BY <1>3
<1> QED BY <1>5, <1>6 DEF t, Whole

------------------------------------------------------------------------------
(* The encoder. *)

LEMMA ColumnKept ==
  ASSUME column' = column
  PROVE  nblock' = nblock /\ inUse' = inUse /\ nInUse' = nInUse /\ EOB' = EOB /\ Alpha' = Alpha
BY DEF nblock, inUse, nInUse, EOB, Alpha

(* Digits, places in yy and the end of block are values of the alphabet.    *)
LEMMA AlphaValues ==
  ASSUME column \in Columns
  PROVE  /\ {BZ_RUNA, BZ_RUNB} \subseteq Alpha /\ 1..nInUse \subseteq Alpha /\ EOB \in Alpha
         /\ Alpha = 0..(nInUse + 1)
<1>1. nInUse \in Nat /\ EOB = nInUse + 1
  BY ColumnSizes
<1> QED BY <1>1 DEF Alpha, BZ_RUNA, BZ_RUNB

(* A run and a value behind it add no more values than the column had.      *)
LEMMA ValuesAdded ==
  ASSUME column \in Columns, mtfv \in Seq(Alpha), NEW z \in Nat, NEW j \in Alpha
  PROVE  /\ mtfv \o RunCode(z) \o <<j>> \in Seq(Alpha)
         /\ Len(mtfv \o RunCode(z) \o <<j>>) <= nMTF + z + 1
<1> DEFINE r == RunCode(z)
<1>1. r \in Seq({BZ_RUNA, BZ_RUNB}) /\ Len(r) <= z
  BY RunCodeShort
<1> HIDE DEF r
<1>2. r \in Seq(Alpha) /\ <<j>> \in Seq(Alpha) /\ Len(<<j>>) = 1
  <2>1. {BZ_RUNA, BZ_RUNB} \subseteq Alpha
    BY AlphaValues
  <2>2. r \in Seq(Alpha)
    BY <1>1, <2>1, SeqMonotonic
  <2> QED BY <2>2
<1>3. mtfv \o r \in Seq(Alpha) /\ Len(mtfv \o r) = Len(mtfv) + Len(r)
  BY <1>2, ConcatProperties
<1> DEFINE s == mtfv \o r
<1>4. s \in Seq(Alpha) /\ Len(s) = Len(mtfv) + Len(r)
  BY <1>3
<1> HIDE DEF s
<1>5. s \o <<j>> \in Seq(Alpha) /\ Len(s \o <<j>>) = Len(s) + 1
  BY <1>2, <1>4, ConcatProperties
<1>6. Len(mtfv) \in Nat /\ Len(r) \in Nat
  BY <1>2, LenProperties
<1>7. Len(s \o <<j>>) <= Len(mtfv) + z + 1
  BY <1>1, <1>4, <1>5, <1>6
<1> QED BY <1>5, <1>7 DEF s, r, nMTF

LEMMA InitHolds == Init => IInv
<1> SUFFICES ASSUME Init PROVE IInv
  OBVIOUS
<1>1. column \in Columns /\ pc = "mtf"
  BY DEF Init
<1>2. nblock \in Nat /\ nInUse \in Nat
  BY <1>1, ColumnSizes
<1>3. mtfv \in Seq(Alpha) /\ nMTF = 0
  BY DEF Init, nMTF
<1>4. Whole(yy, nInUse)
  BY <1>2, WholeFirst DEF Init
<1>5. Listed(selector, 0) /\ 0 \in 0..BZ_MAX_SELECTORS
  <2>1. selector = <<>>
    BY DEF Init
  <2>2. <<>> = [k \in 1..0 |-> <<>>[k]]
    OBVIOUS
  <2> QED BY <2>1, <2>2, Sizes DEF Listed
<1>6. at = 0 /\ zPend = 0
  BY DEF Init
<1>7. EncoderInv
  BY <1>1, <1>2, <1>3, <1>4, <1>5, <1>6 DEF EncoderInv
<1>8. DecoderInv
  BY <1>1 DEF DecoderInv, Init
<1> QED BY <1>1, <1>7, <1>8 DEF IInv

(* Steps before the decoder has anything. *)
LEMMA DecoderKept ==
  ASSUME DecoderInv, UNCHANGED decoder, {pc, pc'} \subseteq {"mtf", "tables", "pass", "lengths", "send"}
  PROVE  DecoderInv'
BY DEF DecoderInv, decoder

LEMMA MtfValueStep == IInv /\ MtfValue => IInv'
<1> SUFFICES ASSUME IInv, MtfValue PROVE IInv'
  OBVIOUS
<1>0. column' = column /\ pc' = pc /\ selector' = selector /\ pc = "mtf" /\ at < nblock /\ at' = at + 1
  BY DEF MtfValue, decoder
<1>1. /\ column \in Columns /\ at \in 0..nblock /\ zPend \in Nat /\ mtfv \in Seq(Alpha)
      /\ nMTF + zPend <= at
      /\ Whole(yy, nInUse)
      /\ \E n \in 0..BZ_MAX_SELECTORS : Listed(selector, n)
  BY <1>0 DEF IInv, EncoderInv
<1>2. nblock' = nblock /\ inUse' = inUse /\ nInUse' = nInUse /\ Alpha' = Alpha
  BY <1>0, ColumnKept
<1>3. nblock \in Nat /\ nInUse \in Nat /\ at \in 0..(nblock - 1)
  BY <1>0, <1>1, ColumnSizes
<1> DEFINE ll == unseqToSeq(inUse, column[at])
           j  == CHOOSE k \in DOMAIN yy : yy[k] = ll
<1>4. ll \in 0..(nInUse - 1)
  BY <1>1, <1>3, ColumnSizes, SymbolRanks DEF nInUse
<1>5. j \in 1..nInUse
  <2>1. DOMAIN yy = 1..nInUse
    BY <1>1, LenProperties DEF Whole
  <2>2. \E k \in DOMAIN yy : yy[k] = ll
    BY <1>1, <1>4, <2>1 DEF Whole
  <2> QED BY <2>1, <2>2
<1>6. IF j = 1 THEN zPend' = zPend + 1 /\ yy' = yy /\ mtfv' = mtfv
      ELSE zPend' = 0 /\ mtfv' = mtfv \o RunCode(zPend) \o <<j>> /\ yy' = ToFront(yy, j)
  BY DEF MtfValue
<1> HIDE DEF j
<1>7. /\ zPend' \in Nat /\ mtfv' \in Seq(Alpha) /\ nMTF' + zPend' <= at + 1
      /\ Whole(yy', nInUse)
  <2>0. nMTF \in Nat /\ nMTF' = Len(mtfv')
    BY <1>1, LenProperties DEF nMTF
  <2>1. CASE j = 1
    <3>1. nMTF' = nMTF
      BY <1>6, <2>1 DEF nMTF
    <3> QED BY <1>1, <1>6, <2>0, <2>1, <3>1
  <2>2. CASE j # 1
    <3>1. j \in Alpha
      BY <1>1, <1>5, AlphaValues
    <3>2. mtfv' \in Seq(Alpha) /\ Len(mtfv') <= nMTF + zPend + 1
      BY <1>1, <1>6, <2>2, <3>1, ValuesAdded
    <3>3. Len(mtfv') \in Nat
      BY <3>2, LenProperties
    <3>4. Whole(yy', nInUse)
      BY <1>1, <1>3, <1>5, <1>6, <2>2, WholeToFront
    <3>5. zPend' = 0 /\ nMTF' + 0 <= at + 1
      BY <1>1, <1>3, <1>6, <2>0, <2>2, <3>2, <3>3
    <3>6. zPend' \in Nat /\ nMTF' + zPend' <= at + 1
      BY <3>5
    <3> QED BY <3>2, <3>4, <3>6
  <2> QED BY <2>1, <2>2
<1>8. nMTF' <= nblock + 1
  <2>1. nMTF' \in Nat
    BY <1>7, LenProperties DEF nMTF
  <2>2. nMTF' <= at + 1
    <3>1. zPend' \in Nat /\ nMTF' + zPend' <= at + 1
      BY <1>7
    <3>2. at + 1 \in Nat
      BY <1>3
    <3>3. \A a, b, c \in Nat : a + b <= c => a <= c
      OBVIOUS
    <3> QED BY <2>1, <3>1, <3>2, <3>3
  <2> QED BY <1>3, <2>1, <2>2
<1>9. EncoderInv'
  <2>1. at' \in 0..nblock /\ nMTF' + zPend' <= at'
    BY <1>0, <1>3, <1>7
  <2> QED BY <1>0, <1>1, <1>2, <1>7, <1>8, <2>1 DEF EncoderInv
<1>10. DecoderInv'
  BY <1>0, DecoderKept DEF IInv, MtfValue
<1> QED BY <1>0, <1>9, <1>10 DEF IInv

LEMMA MtfEndStep == IInv /\ MtfEnd => IInv'
<1> SUFFICES ASSUME IInv, MtfEnd PROVE IInv'
  OBVIOUS
<1>0. /\ column' = column /\ pc' = "tables" /\ selector' = selector /\ pc = "mtf" /\ at' = at /\ at = nblock
      /\ mtfv' = mtfv \o RunCode(zPend) \o <<EOB>> /\ zPend' = 0
  BY DEF MtfEnd, decoder
<1>1. /\ column \in Columns /\ at \in 0..nblock /\ zPend \in Nat /\ mtfv \in Seq(Alpha)
      /\ nMTF + zPend <= at
      /\ \E n \in 0..BZ_MAX_SELECTORS : Listed(selector, n)
  BY <1>0 DEF IInv, EncoderInv
<1>2. nblock' = nblock /\ inUse' = inUse /\ nInUse' = nInUse /\ Alpha' = Alpha
  BY <1>0, ColumnKept
<1>3. mtfv' \in Seq(Alpha) /\ nMTF' <= nMTF + zPend + 1
  BY <1>0, <1>1, AlphaValues, ValuesAdded DEF nMTF
<1>4. nMTF' <= nblock + 1
  <2>1. nMTF' \in Nat /\ nMTF \in Nat /\ nblock \in Nat
    BY <1>1, <1>3, LenProperties, ColumnSizes DEF nMTF
  <2> QED BY <1>0, <1>1, <1>3, <2>1
<1>5. EncoderInv'
  BY <1>0, <1>1, <1>2, <1>3, <1>4 DEF EncoderInv
<1>6. DecoderInv'
  BY <1>0, DecoderKept DEF IInv, MtfEnd
<1> QED BY <1>0, <1>5, <1>6 DEF IInv

(* Steps that leave what EncoderInv tells of alone. *)
LEMMA EncoderKept ==
  ASSUME EncoderInv, column' = column, at' = at, zPend' = zPend, mtfv' = mtfv, selector' = selector,
         pc # "mtf", pc' # "mtf"
  PROVE  EncoderInv'
<1>1. nblock' = nblock /\ Alpha' = Alpha /\ nMTF' = nMTF
  BY ColumnKept DEF nMTF
<1> QED BY <1>1 DEF EncoderInv

LEMMA TableSteps == IInv /\ (InitialTables \/ MakeCodeLengths) => IInv'
<1> SUFFICES ASSUME IInv, InitialTables \/ MakeCodeLengths PROVE IInv'
  OBVIOUS
<1>1. /\ column' = column /\ at' = at /\ zPend' = zPend /\ mtfv' = mtfv /\ selector' = selector
      /\ pc \in {"tables", "lengths"} /\ pc' \in {"pass", "lengths", "send"}
  BY DEF InitialTables, MakeCodeLengths
<1>2. EncoderInv'
  BY <1>1, EncoderKept DEF IInv
<1>3. DecoderInv'
  BY <1>1, DecoderKept DEF IInv, InitialTables, MakeCodeLengths
<1> QED BY <1>1, <1>2, <1>3 DEF IInv

(* The groups of the values fit the array of selectors. *)
LEMMA ChooseTablesStep == IInv /\ ChooseTables => IInv'
<1> SUFFICES ASSUME IInv, ChooseTables PROVE IInv'
  OBVIOUS
<1>1. /\ column' = column /\ at' = at /\ zPend' = zPend /\ mtfv' = mtfv
      /\ pc = "pass" /\ pc' = "lengths"
      /\ \E best \in {[g \in 1..nSelectors |-> BestTable(Group(g))]} : selector' = best
  BY DEF ChooseTables
<1>2. /\ column \in Columns /\ at \in 0..nblock /\ zPend \in Nat
      /\ mtfv \in Seq(Alpha) /\ nMTF <= nblock + 1
  BY DEF IInv, EncoderInv
<1>3. nblock' = nblock /\ Alpha' = Alpha /\ nMTF' = nMTF
  BY <1>1, ColumnKept DEF nMTF
<1>4. Listed(selector', nSelectors)
  BY <1>1 DEF Listed
<1>5. nSelectors \in 0..BZ_MAX_SELECTORS
  <2>1. nMTF \in Nat
    BY <1>2, LenProperties DEF nMTF
  <2>2. nMTF <= BZ_G_SIZE * BZ_MAX_SELECTORS
    BY <1>2, <2>1, ColumnSizes, Sizes
  <2>3. \A n, g, m \in Nat : g > 0 /\ n <= g * m => (n + g - 1) \div g \in 0..m
    OBVIOUS
  <2> QED BY <2>1, <2>2, <2>3, Sizes DEF nSelectors
<1>6. EncoderInv'
  BY <1>1, <1>2, <1>3, <1>4, <1>5 DEF EncoderInv
<1>7. DecoderInv'
  BY <1>1, DecoderKept DEF IInv, ChooseTables
<1> QED BY <1>1, <1>6, <1>7 DEF IInv

------------------------------------------------------------------------------
(* The parts of the list in mtfa. *)

(* Every place of a part is in mtfa, and no two parts share one.            *)
LEMMA HeldPlaces ==
  ASSUME NEW a, NEW base, Held(a, base)
  PROVE  /\ \A l \in Parts : base[l] \in 1..(MTFA_SIZE - MTFL_SIZE)
         /\ \A l \in Parts, o \in 0..(MTFL_SIZE - 1) : base[l] + o \in 0..(MTFA_SIZE - 1)
         /\ \A l, m \in Parts : l < m => base[l] + MTFL_SIZE <= base[m]
<1>1. MTFL_SIZE \in Nat \ {0} /\ MTFA_SIZE \in Nat /\ Lists \in Nat
  BY Sizes
<1>2. ASSUME NEW l \in Parts PROVE base[l] \in 1..(MTFA_SIZE - MTFL_SIZE)
  <2>1. base[l] \in Nat /\ 0 < base[l] /\ base[l] <= MTFA_SIZE - (Lists - l) * MTFL_SIZE
    BY DEF Held
  <2>2. Lists - l >= 1 /\ Lists - l \in Nat
    BY <1>1 DEF Parts
  <2>3. \A n, d \in Nat : n >= 1 => n * d >= d /\ n * d \in Nat
    OBVIOUS
  <2>4. (Lists - l) * MTFL_SIZE >= MTFL_SIZE /\ (Lists - l) * MTFL_SIZE \in Nat
    BY <1>1, <2>2, <2>3
  <2> QED BY <1>1, <2>1, <2>4
<1>3. \A l \in Parts, o \in 0..(MTFL_SIZE - 1) : base[l] + o \in 0..(MTFA_SIZE - 1)
  BY <1>1, <1>2
<1>4. \A l, m \in Parts : l < m => base[l] + MTFL_SIZE <= base[m]
  <2> SUFFICES ASSUME NEW l \in Parts, NEW m \in Parts, l < m
               PROVE  base[l] + MTFL_SIZE <= base[m]
    OBVIOUS
  <2>1. m \in (l + 1)..(Lists - 1)
    BY <1>1 DEF Parts
  <2> QED BY <2>1 DEF Held
<1> QED BY <1>2, <1>3, <1>4

(* The steps by which the last of each part before lno is handed on. *)
LEMMA HandsExist ==
  ASSUME NEW m, NEW lno \in Nat
  PROVE  \E f : f = [l \in 0..lno |-> IF l = lno THEN m ELSE Handed(f[l + 1], l + 1)]
<1> DEFINE T == {j \in Nat : j <= lno =>
                   \E f : f = [l \in (lno - j)..lno |-> IF l = lno THEN m ELSE Handed(f[l + 1], l + 1)]}
<1>1. 0 \in T
  <2> DEFINE f == [l \in lno..lno |-> m]
  <2>1. f = [l \in (lno - 0)..lno |-> IF l = lno THEN m ELSE Handed(f[l + 1], l + 1)]
    OBVIOUS
  <2> HIDE DEF f
  <2>2. \E h : h = [l \in (lno - 0)..lno |-> IF l = lno THEN m ELSE Handed(h[l + 1], l + 1)]
    BY <2>1
  <2> QED BY <2>2
<1>2. ASSUME NEW j \in Nat, j \in T PROVE j + 1 \in T
  <2> DEFINE d == lno - (j + 1)
  <2> SUFFICES ASSUME j + 1 <= lno
               PROVE  \E f : f = [l \in d..lno |-> IF l = lno THEN m ELSE Handed(f[l + 1], l + 1)]
    OBVIOUS
  <2>1. PICK f : f = [l \in (lno - j)..lno |-> IF l = lno THEN m ELSE Handed(f[l + 1], l + 1)]
    BY <1>2
  <2>2. d \in Nat /\ d < lno /\ d + 1 = lno - j
    OBVIOUS
  <2> HIDE DEF d
  <2> DEFINE g == [l \in d..lno |-> IF l = d THEN Handed(f[d + 1], d + 1) ELSE f[l]]
  <2>3. \A l \in d..lno : g[l] = IF l = lno THEN m ELSE Handed(g[l + 1], l + 1)
    <3> SUFFICES ASSUME NEW l \in d..lno
                 PROVE  g[l] = IF l = lno THEN m ELSE Handed(g[l + 1], l + 1)
      OBVIOUS
    <3>1. CASE l = lno
      <4>1. lno \in (lno - j)..lno /\ g[lno] = f[lno]
        BY <2>2
      <4>2. f[lno] = m
        BY <2>1, <4>1
      <4> QED BY <3>1, <4>1, <4>2
    <3>2. CASE l = d
      <4>1. g[l] = Handed(f[d + 1], d + 1)
        BY <3>2
      <4>2. d + 1 \in d..lno /\ d + 1 # d
        BY <2>2
      <4>3. g[d + 1] = f[d + 1]
        BY <4>2
      <4> HIDE DEF g
      <4> QED BY <2>2, <3>2, <4>1, <4>3
    <3>3. CASE l # lno /\ l # d
      <4>1. l + 1 \in d..lno /\ l + 1 # d /\ l \in (lno - j)..lno
        BY <2>2, <3>3
      <4>2. g[l] = f[l] /\ g[l + 1] = f[l + 1]
        BY <3>3, <4>1
      <4>3. f[l] = Handed(f[l + 1], l + 1)
        BY <2>1, <3>3, <4>1
      <4> HIDE DEF g
      <4> QED BY <3>3, <4>2, <4>3
    <3> QED BY <3>1, <3>2, <3>3
  <2>4. g = [l \in d..lno |-> g[l]]
    OBVIOUS
  <2> HIDE DEF g
  <2>5. g = [l \in d..lno |-> IF l = lno THEN m ELSE Handed(g[l + 1], l + 1)]
    BY <2>3, <2>4
  <2> QED BY <2>5
<1> HIDE DEF T
<1>3. lno \in T
  BY <1>1, <1>2, Lemmas!SetInduction
<1>4. lno - lno = 0
  OBVIOUS
<1> QED BY <1>3, <1>4 DEF T

(* The steps by which all parts are gathered at the end of mtfa. *)
LEMMA GathersExist ==
  ASSUME NEW m, NEW n \in Nat
  PROVE  \E f : f = [j \in 0..n |-> IF j = 0 THEN m ELSE Gathered(f[j - 1], MTFA_SIZE - j)]
<1> DEFINE T == {k \in Nat :
                   \E f : f = [j \in 0..k |-> IF j = 0 THEN m ELSE Gathered(f[j - 1], MTFA_SIZE - j)]}
<1>1. 0 \in T
  <2> DEFINE f == [j \in 0..0 |-> m]
  <2>1. f = [j \in 0..0 |-> IF j = 0 THEN m ELSE Gathered(f[j - 1], MTFA_SIZE - j)]
    OBVIOUS
  <2> HIDE DEF f
  <2> QED BY <2>1
<1>2. ASSUME NEW k \in Nat, k \in T PROVE k + 1 \in T
  <2>1. PICK f : f = [j \in 0..k |-> IF j = 0 THEN m ELSE Gathered(f[j - 1], MTFA_SIZE - j)]
    BY <1>2
  <2> DEFINE g == [j \in 0..(k + 1) |-> IF j = k + 1 THEN Gathered(f[k], MTFA_SIZE - (k + 1)) ELSE f[j]]
  <2>2. \A j \in 0..(k + 1) : g[j] = IF j = 0 THEN m ELSE Gathered(g[j - 1], MTFA_SIZE - j)
    <3> SUFFICES ASSUME NEW j \in 0..(k + 1)
                 PROVE  g[j] = IF j = 0 THEN m ELSE Gathered(g[j - 1], MTFA_SIZE - j)
      OBVIOUS
    <3>1. CASE j = k + 1
      <4>1. g[j] = Gathered(f[k], MTFA_SIZE - (k + 1)) /\ g[k] = f[k] /\ j - 1 = k
        BY <3>1
      <4> HIDE DEF g
      <4> QED BY <3>1, <4>1
    <3>2. CASE j # k + 1
      <4>1. j \in 0..k /\ g[j] = f[j] /\ (j # 0 => g[j - 1] = f[j - 1])
        BY <3>2
      <4>2. f[j] = IF j = 0 THEN m ELSE Gathered(f[j - 1], MTFA_SIZE - j)
        BY <2>1, <4>1
      <4> HIDE DEF g
      <4> QED BY <4>1, <4>2
    <3> QED BY <3>1, <3>2
  <2>3. g = [j \in 0..(k + 1) |-> g[j]]
    OBVIOUS
  <2> HIDE DEF g
  <2>4. g = [j \in 0..(k + 1) |-> IF j = 0 THEN m ELSE Gathered(g[j - 1], MTFA_SIZE - j)]
    BY <2>2, <2>3
  <2> QED BY <2>4
<1> HIDE DEF T
<1>3. n \in T
  BY <1>1, <1>2, Lemmas!SetInduction
<1> QED BY <1>3 DEF T

(* Where the last of part i - 1 goes: the free place at the front of part   *)
(* lno, or the place to the left of a part before it.                       *)
Pos(base, lno, i) == IF i = lno THEN base[lno] ELSE base[i] - 1

LEMMA PosApart ==
  ASSUME NEW a, NEW base, Held(a, base), NEW lno \in 1..(Lists - 1)
  PROVE  /\ \A i \in 1..lno : Pos(base, lno, i) \in 0..(MTFA_SIZE - 1)
         /\ \A i \in 1..lno, l \in Parts : l < i => Pos(base, lno, i) >= base[l] + MTFL_SIZE - 1
         /\ \A i, j \in 1..lno : i < j => Pos(base, lno, i) < Pos(base, lno, j)
<1>0. MTFL_SIZE \in Nat \ {0} /\ MTFA_SIZE \in Nat /\ Lists \in Nat /\ 1..lno \subseteq Parts /\ lno \in 1..lno
  BY Sizes DEF Parts
<1>1. \A l \in Parts : base[l] \in 1..(MTFA_SIZE - MTFL_SIZE)
  BY HeldPlaces
<1>2. \A l, m \in Parts : l < m => base[l] + MTFL_SIZE <= base[m]
  BY HeldPlaces
<1>3. \A i \in 1..lno : Pos(base, lno, i) \in {base[i], base[i] - 1}
  BY DEF Pos
<1>4. \A i \in 1..lno : Pos(base, lno, i) \in 0..(MTFA_SIZE - 1)
  BY <1>0, <1>1, <1>3
<1>5. \A i \in 1..lno, l \in Parts : l < i => Pos(base, lno, i) >= base[l] + MTFL_SIZE - 1
  <2> SUFFICES ASSUME NEW i \in 1..lno, NEW l \in Parts, l < i
               PROVE  Pos(base, lno, i) >= base[l] + MTFL_SIZE - 1
    OBVIOUS
  <2>1. base[l] + MTFL_SIZE <= base[i] /\ base[l] \in Nat /\ base[i] \in Nat
    BY <1>0, <1>1, <1>2
  <2>2. Pos(base, lno, i) \in {base[i], base[i] - 1}
    BY <1>3
  <2> QED BY <1>0, <2>1, <2>2
<1>6. \A i, j \in 1..lno : i < j => Pos(base, lno, i) < Pos(base, lno, j)
  <2> SUFFICES ASSUME NEW i \in 1..lno, NEW j \in 1..lno, i < j
               PROVE  Pos(base, lno, i) < Pos(base, lno, j)
    OBVIOUS
  <2>1. base[i] + MTFL_SIZE <= base[j] /\ base[i] \in Nat /\ base[j] \in Nat
    BY <1>0, <1>1, <1>2
  <2>2. Pos(base, lno, i) = base[i] - 1
    BY DEF Pos
  <2>3. Pos(base, lno, j) \in {base[j], base[j] - 1}
    BY <1>3
  <2> QED BY <1>0, <2>1, <2>2, <2>3
<1> QED BY <1>4, <1>5, <1>6

(* The parts after the last of each but lno's own has been handed on from   *)
(* the parts l and up.                                                      *)
HandedTo(m, l, s, base, lno) ==
  /\ m.base = [i \in Parts |-> IF l < i /\ i < lno THEN base[i] - 1
                               ELSE IF i = lno /\ l = lno THEN base[i] + 1 ELSE base[i]]
  /\ m.a \in [0..(MTFA_SIZE - 1) -> Int]
  /\ \A i \in (l + 1)..lno : m.a[Pos(base, lno, i)] = s[base[i - 1] + MTFL_SIZE - 1]
  /\ \A k \in 0..(MTFA_SIZE - 1) : (\A i \in (l + 1)..lno : k # Pos(base, lno, i)) => m.a[k] = s[k]

LEMMA HandedOnce ==
  ASSUME NEW a, NEW base, Held(a, base), NEW lno \in 1..(Lists - 1), NEW l \in 0..(lno - 1),
         NEW s \in [0..(MTFA_SIZE - 1) -> Int],
         NEW m, HandedTo(m, l + 1, s, base, lno)
  PROVE  HandedTo(Handed(m, l + 1), l, s, base, lno)
<1> DEFINE p == Pos(base, lno, l + 1)
           q == base[l] + MTFL_SIZE - 1
           h == Handed(m, l + 1)
<1>0. /\ MTFL_SIZE \in Nat \ {0} /\ MTFA_SIZE \in Nat /\ Lists \in Nat
      /\ l \in Parts /\ l + 1 \in Parts /\ l + 1 \in 1..lno /\ lno \in Parts /\ (l + 1) - 1 = l
  BY Sizes DEF Parts
<1>1. base[l] \in Nat /\ base[l + 1] \in Nat
  BY <1>0, HeldPlaces
<1>2. m.base[l + 1] - 1 = p
  <2>1. m.base[l + 1] = IF l + 1 = lno THEN base[lno] + 1 ELSE base[l + 1]
    BY <1>0 DEF HandedTo
  <2> QED BY <1>0, <1>1, <2>1 DEF Pos
<1>3. m.base[l] = base[l]
  BY <1>0 DEF HandedTo
<1>4. p \in 0..(MTFA_SIZE - 1) /\ q \in 0..(MTFA_SIZE - 1)
  <2>1. p \in 0..(MTFA_SIZE - 1)
    BY <1>0, PosApart
  <2>2. base[l] \in 1..(MTFA_SIZE - MTFL_SIZE)
    BY <1>0, HeldPlaces
  <2> QED BY <1>0, <2>1, <2>2
<1>5. \A i \in (l + 2)..lno : q # Pos(base, lno, i) /\ p # Pos(base, lno, i)
  <2> SUFFICES ASSUME NEW i \in (l + 2)..lno PROVE q # Pos(base, lno, i) /\ p # Pos(base, lno, i)
    OBVIOUS
  <2>1. i \in 1..lno /\ l + 1 < i
    OBVIOUS
  <2>2. p < Pos(base, lno, i)
    BY <1>0, <2>1, PosApart
  <2>3. p >= q
    BY <1>0, PosApart
  <2>4. Pos(base, lno, i) \in Nat
    BY <2>1, PosApart
  <2> HIDE DEF p, q
  <2> QED BY <1>4, <2>2, <2>3, <2>4
<1>6. m.a[q] = s[q]
  BY <1>4, <1>5 DEF HandedTo
<1>7. h.a = [m.a EXCEPT ![p] = s[q]] /\ h.base = [m.base EXCEPT ![l + 1] = p]
  BY <1>0, <1>2, <1>3, <1>6 DEF Handed
<1> HIDE DEF h
<1>8. h.base = [i \in Parts |-> IF l < i /\ i < lno THEN base[i] - 1
                               ELSE IF i = lno /\ l = lno THEN base[i] + 1 ELSE base[i]]
  <2> DEFINE g == [i \in Parts |-> IF l + 1 < i /\ i < lno THEN base[i] - 1
                                   ELSE IF i = lno /\ l + 1 = lno THEN base[i] + 1 ELSE base[i]]
  <2>1. m.base = g
    BY DEF HandedTo
  <2>2. p = IF l + 1 = lno THEN base[l + 1] ELSE base[l + 1] - 1
    BY DEF Pos
  <2> HIDE DEF p
  <2>3. h.base = [i \in Parts |-> IF i = l + 1 THEN p ELSE g[i]]
    BY <1>7, <2>1
  <2>4. \A i \in Parts : (IF i = l + 1 THEN p ELSE g[i])
                         = IF l < i /\ i < lno THEN base[i] - 1
                           ELSE IF i = lno /\ l = lno THEN base[i] + 1 ELSE base[i]
    <3> SUFFICES ASSUME NEW i \in Parts
                 PROVE  (IF i = l + 1 THEN p ELSE g[i])
                         = IF l < i /\ i < lno THEN base[i] - 1
                           ELSE IF i = lno /\ l = lno THEN base[i] + 1 ELSE base[i]
      OBVIOUS
    <3>1. i \in Nat
      BY <1>0 DEF Parts
    <3> QED BY <2>2, <3>1
  <2> HIDE DEF g
  <2> QED BY <2>3, <2>4
<1>9. h.a \in [0..(MTFA_SIZE - 1) -> Int]
  <2>1. s[q] \in Int
    BY <1>4
  <2> QED BY <1>7, <2>1 DEF HandedTo
<1>10. DOMAIN m.a = 0..(MTFA_SIZE - 1)
  BY DEF HandedTo
<1>11. ASSUME NEW i \in (l + 1)..lno
       PROVE  h.a[Pos(base, lno, i)] = s[base[i - 1] + MTFL_SIZE - 1]
  <2>1. CASE i = l + 1
    BY <1>0, <1>4, <1>7, <1>10, <2>1
  <2>2. CASE i # l + 1
    <3>1. i \in (l + 2)..lno /\ i \in ((l + 1) + 1)..lno /\ i \in 1..lno
      BY <2>2
    <3>2. Pos(base, lno, i) # p
      BY <1>5, <3>1
    <3>3. m.a[Pos(base, lno, i)] = s[base[i - 1] + MTFL_SIZE - 1]
      BY <3>1 DEF HandedTo
    <3>4. Pos(base, lno, i) \in 0..(MTFA_SIZE - 1)
      BY <3>1, PosApart
    <3> HIDE DEF p, q
    <3> QED BY <1>7, <1>10, <3>2, <3>3, <3>4
  <2> QED BY <2>1, <2>2
<1>12. ASSUME NEW k \in 0..(MTFA_SIZE - 1), \A i \in (l + 1)..lno : k # Pos(base, lno, i)
       PROVE  h.a[k] = s[k]
  <2>1. k # p
    BY <1>0, <1>12
  <2>2. \A i \in ((l + 1) + 1)..lno : i \in (l + 1)..lno
    OBVIOUS
  <2>3. m.a[k] = s[k]
    BY <1>12, <2>2 DEF HandedTo
  <2> HIDE DEF p, q
  <2> QED BY <1>7, <1>10, <2>1, <2>3
<1> QED BY <1>8, <1>9, <1>11, <1>12 DEF HandedTo, h

LEMMA HandedDownIs ==
  ASSUME NEW a, NEW base, Held(a, base), NEW lno \in 1..(Lists - 1),
         NEW s \in [0..(MTFA_SIZE - 1) -> Int]
  PROVE  HandedTo(HandedDown([a |-> s, base |-> [base EXCEPT ![lno] = @ + 1]], lno), 0, s, base, lno)
<1> DEFINE m == [a |-> s, base |-> [base EXCEPT ![lno] = @ + 1]]
<1> DEFINE f == CHOOSE f : f = [l \in 0..lno |-> IF l = lno THEN m ELSE Handed(f[l + 1], l + 1)]
<1>1. f = [l \in 0..lno |-> IF l = lno THEN m ELSE Handed(f[l + 1], l + 1)]
  <2> HIDE DEF m
  <2> QED BY HandsExist
<1>2. HandedDown(m, lno) = f[0]
  BY DEF HandedDown
<1> HIDE DEF f
<1>3. f[lno] = m /\ \A l \in 0..(lno - 1) : f[l] = Handed(f[l + 1], l + 1)
  <2> HIDE DEF m
  <2>1. lno \in 0..lno /\ \A l \in 0..(lno - 1) : l \in 0..lno /\ l # lno
    OBVIOUS
  <2> QED BY <1>1, <2>1
<1>4. HandedTo(m, lno, s, base, lno)
  <2>0. lno \in Parts /\ Parts \subseteq Nat
    BY Sizes DEF Parts
  <2>1. base = [i \in Parts |-> base[i]]
    BY DEF Held
  <2>2. m.base = [i \in Parts |-> IF lno < i /\ i < lno THEN base[i] - 1
                               ELSE IF i = lno /\ lno = lno THEN base[i] + 1 ELSE base[i]]
    BY <2>0, <2>1
  <2>3. m.a = s /\ \A i : i \notin (lno + 1)..lno
    OBVIOUS
  <2> HIDE DEF m
  <2> QED BY <2>2, <2>3 DEF HandedTo
<1> HIDE DEF m
<1> DEFINE T == {j \in Nat : j <= lno => HandedTo(f[lno - j], lno - j, s, base, lno)}
<1>5. 0 \in T
  <2>1. lno - 0 = lno
    OBVIOUS
  <2> QED BY <1>3, <1>4, <2>1
<1>6. ASSUME NEW j \in Nat, j \in T PROVE j + 1 \in T
  <2> SUFFICES ASSUME j + 1 <= lno
               PROVE  HandedTo(f[lno - (j + 1)], lno - (j + 1), s, base, lno)
    OBVIOUS
  <2> DEFINE l == lno - (j + 1)
  <2>1. l \in 0..(lno - 1) /\ l + 1 = lno - j
    OBVIOUS
  <2>2. HandedTo(f[l + 1], l + 1, s, base, lno)
    BY <1>6, <2>1
  <2> HIDE DEF l
  <2>3. HandedTo(Handed(f[l + 1], l + 1), l, s, base, lno)
    BY <2>1, <2>2, HandedOnce
  <2>4. HandedTo(f[l], l, s, base, lno)
    BY <1>3, <2>1, <2>3
  <2> QED BY <2>4 DEF l
<1> HIDE DEF T
<1>7. lno \in T
  BY <1>5, <1>6, Lemmas!SetInduction
<1>8. lno - lno = 0
  OBVIOUS
<1>9. HandedTo(f[0], 0, s, base, lno)
  BY <1>7, <1>8 DEF T
<1> QED BY <1>2, <1>9 DEF m

------------------------------------------------------------------------------
(* Gathering: no entry is overwritten before it has been moved.             *)

(* Parts that have not moved to the right of their start. *)
Loose(m) == /\ m.a \in [0..(MTFA_SIZE - 1) -> Int] /\ m.base \in [Parts -> Nat]
            /\ \A l \in Parts : m.base[l] <= MTFA_SIZE - Size + l * MTFL_SIZE

At(a, base, k) == a[base[k \div MTFL_SIZE] + (k % MTFL_SIZE)]

(* The last j entries of the list have been moved. *)
GatheredTo(g, m, j) ==
  /\ g.base \in [Parts -> Nat] /\ g.a \in [0..(MTFA_SIZE - 1) -> Int]
  /\ \A l \in Parts : g.base[l] = IF Size - j <= l * MTFL_SIZE THEN MTFA_SIZE - Size + l * MTFL_SIZE
                                  ELSE m.base[l]
  /\ \A k \in (Size - j)..(Size - 1) : g.a[MTFA_SIZE - Size + k] = At(m.a, m.base, k)
  /\ \A p \in 0..(MTFA_SIZE - j - 1) : g.a[p] = m.a[p]

LEMMA GatheredOnce ==
  ASSUME NEW m, Loose(m), NEW j \in 0..(Size - 1), NEW g, GatheredTo(g, m, j)
  PROVE  GatheredTo(Gathered(g, MTFA_SIZE - (j + 1)), m, j + 1)
<1> DEFINE K == MTFA_SIZE - (j + 1)
           place == Size - j - 1
           l == place \div MTFL_SIZE
           off == place % MTFL_SIZE
           q == m.base[l] + off
           h == Gathered(g, K)
<1>0. /\ MTFL_SIZE \in Nat \ {0} /\ MTFA_SIZE \in Nat /\ Lists \in Nat /\ Size \in Nat
      /\ Size < MTFA_SIZE /\ Lists * MTFL_SIZE = Size
  BY Sizes DEF Size
<1>1. place \in 0..(Size - 1) /\ K \in 0..(MTFA_SIZE - 1) /\ K - (MTFA_SIZE - Size) = place
  BY <1>0
<1>2. l \in Parts /\ l \in Nat /\ off \in 0..(MTFL_SIZE - 1) /\ place = l * MTFL_SIZE + off
  <2> HIDE DEF place
  <2>1. l \in Parts /\ off \in 0..(MTFL_SIZE - 1) /\ place = l * MTFL_SIZE + off
    BY <1>1, Places
  <2> QED BY <1>0, <2>1 DEF Parts
<1>3. h = [a |-> [g.a EXCEPT ![K] = g.a[g.base[l] + off]],
           base |-> IF off = 0 THEN [g.base EXCEPT ![l] = K] ELSE g.base]
  BY <1>0, <1>1 DEF Gathered
<1> HIDE DEF h, l, off
<1> DEFINE ll == l * MTFL_SIZE
<1>4. ll \in Nat /\ ll <= place
  <2>1. \A x, y \in Nat : x * y \in Nat
    OBVIOUS
  <2>2. ll \in Nat
    BY <1>0, <1>2, <2>1
  <2> QED BY <1>0, <1>1, <1>2, <2>2
<1> HIDE DEF ll
<1>5. g.base[l] = m.base[l]
  <2>1. ~ (Size - j <= ll)
    BY <1>0, <1>4
  <2> QED BY <1>2, <2>1 DEF GatheredTo, ll
<1>6. q \in 0..K
  <2>1. m.base[l] \in Nat /\ m.base[l] <= MTFA_SIZE - Size + ll
    BY <1>2 DEF Loose, ll
  <2>2. place = ll + off
    BY <1>2 DEF ll
  <2> QED BY <1>0, <1>1, <1>2, <1>4, <2>1, <2>2
<1>7. q \in 0..(MTFA_SIZE - 1) /\ g.a[q] = m.a[q]
  <2>1. q \in 0..(MTFA_SIZE - j - 1) /\ q \in 0..(MTFA_SIZE - 1)
    BY <1>0, <1>6
  <2> HIDE DEF q
  <2> QED BY <2>1 DEF GatheredTo
<1>8. h.a = [g.a EXCEPT ![K] = m.a[q]] /\ h.base = IF off = 0 THEN [g.base EXCEPT ![l] = K] ELSE g.base
  BY <1>3, <1>5, <1>7
<1> HIDE DEF q
<1>9. h.a \in [0..(MTFA_SIZE - 1) -> Int]
  <2>1. m.a[q] \in Int
    BY <1>7 DEF Loose
  <2> QED BY <1>8, <2>1 DEF GatheredTo
<1>10. h.base \in [Parts -> Nat]
  <2>1. K \in Nat
    BY <1>1
  <2> QED BY <1>8, <2>1 DEF GatheredTo
<1>11. ASSUME NEW i \in Parts
       PROVE  h.base[i] = IF Size - (j + 1) <= i * MTFL_SIZE THEN MTFA_SIZE - Size + i * MTFL_SIZE
                          ELSE m.base[i]
  <2> DEFINE il == i * MTFL_SIZE
  <2>0. i \in Nat /\ il \in Nat
    <3>1. \A x, y \in Nat : x * y \in Nat
      OBVIOUS
    <3> QED BY <1>0, <3>1 DEF Parts
  <2>1. g.base[i] = IF Size - j <= il THEN MTFA_SIZE - Size + il ELSE m.base[i]
    BY DEF GatheredTo
  <2>2. DOMAIN g.base = Parts
    BY DEF GatheredTo
  <2>3. CASE i = l
    <3>1. il = ll
      BY <2>3 DEF ll
    <3>2. CASE off = 0
      <4>1. h.base[i] = K
        BY <1>8, <2>2, <2>3, <3>2
      <4>2. ll = place
        BY <1>2, <1>4, <3>2 DEF ll
      <4> QED BY <1>0, <3>1, <4>1, <4>2
    <3>3. CASE off # 0
      <4>1. h.base[i] = m.base[i]
        BY <1>5, <1>8, <2>3, <3>3
      <4>2. ll < place
        <5>1. place = ll + off /\ off > 0 /\ off \in Nat
          BY <1>2, <3>3 DEF ll
        <5> QED BY <1>4, <5>1
      <4>3. ~ (Size - (j + 1) <= il)
        BY <1>0, <1>4, <3>1, <4>2
      <4> QED BY <4>1, <4>3
    <3> QED BY <3>2, <3>3
  <2>4. CASE i # l
    <3>1. h.base[i] = g.base[i]
      BY <1>8, <2>2, <2>4
    <3>2. il # place
      <4> SUFFICES ASSUME il = place PROVE FALSE
        OBVIOUS
      <4>1. 0 \in 0..(MTFL_SIZE - 1)
        BY <1>0
      <4>2. (i * MTFL_SIZE + 0) \div MTFL_SIZE = i
        BY <2>0, <4>1, PlaceOf
      <4>3. i * MTFL_SIZE + 0 = place
        BY <2>0
      <4>4. place \div MTFL_SIZE = i
        BY <4>2, <4>3
      <4> QED BY <2>4, <4>4 DEF l
    <3> HIDE DEF il
    <3>3. (Size - (j + 1) <= il) <=> (Size - j <= il)
      BY <1>0, <2>0, <3>2
    <3> QED BY <2>1, <3>1, <3>3 DEF il
  <2> QED BY <2>3, <2>4
<1>12. ASSUME NEW k \in (Size - (j + 1))..(Size - 1)
       PROVE  h.a[MTFA_SIZE - Size + k] = At(m.a, m.base, k)
  <2>0. DOMAIN g.a = 0..(MTFA_SIZE - 1)
    BY DEF GatheredTo
  <2>1. CASE k = place
    <3>1. MTFA_SIZE - Size + k = K
      BY <1>0, <1>1, <2>1
    <3>2. h.a[K] = m.a[q]
      BY <1>1, <1>8, <2>0
    <3> QED BY <2>1, <3>1, <3>2 DEF At, q, l, off
  <2>2. CASE k # place
    <3>1. k \in (Size - j)..(Size - 1) /\ MTFA_SIZE - Size + k # K
      BY <1>0, <2>2
    <3>2. MTFA_SIZE - Size + k \in 0..(MTFA_SIZE - 1)
      BY <1>0, <3>1
    <3>3. h.a[MTFA_SIZE - Size + k] = g.a[MTFA_SIZE - Size + k]
      BY <1>8, <2>0, <3>1, <3>2
    <3> QED BY <3>1, <3>3 DEF GatheredTo
  <2> QED BY <2>1, <2>2
<1>13. ASSUME NEW p \in 0..(MTFA_SIZE - (j + 1) - 1)
       PROVE  h.a[p] = m.a[p]
  <2>1. p \in 0..(MTFA_SIZE - j - 1) /\ p # K /\ p \in 0..(MTFA_SIZE - 1)
    BY <1>0
  <2>2. DOMAIN g.a = 0..(MTFA_SIZE - 1)
    BY DEF GatheredTo
  <2>3. h.a[p] = g.a[p]
    BY <1>8, <2>1, <2>2
  <2> QED BY <2>1, <2>3 DEF GatheredTo
<1>14. GatheredTo(h, m, j + 1)
  BY <1>9, <1>10, <1>11, <1>12, <1>13 DEF GatheredTo
<1> QED BY <1>14 DEF h

LEMMA RebuiltIs ==
  ASSUME NEW m, Loose(m)
  PROVE  LET r == Rebuilt(m) IN
         /\ r.base \in [Parts -> Nat] /\ r.a \in [0..(MTFA_SIZE - 1) -> Int]
         /\ \A l \in Parts : r.base[l] = MTFA_SIZE - Size + l * MTFL_SIZE
         /\ \A k \in 0..(Size - 1) : r.a[MTFA_SIZE - Size + k] = At(m.a, m.base, k)
<1> DEFINE f == CHOOSE f : f = [j \in 0..Size |-> IF j = 0 THEN m ELSE Gathered(f[j - 1], MTFA_SIZE - j)]
<1>0. Size \in Nat /\ MTFA_SIZE \in Nat /\ MTFL_SIZE \in Nat /\ Size < MTFA_SIZE
  BY Sizes
<1>1. f = [j \in 0..Size |-> IF j = 0 THEN m ELSE Gathered(f[j - 1], MTFA_SIZE - j)]
  <2>1. \E g : g = [j \in 0..Size |-> IF j = 0 THEN m ELSE Gathered(g[j - 1], MTFA_SIZE - j)]
    BY <1>0, GathersExist
  <2> QED BY <2>1
<1>2. Rebuilt(m) = f[Size]
  BY DEF Rebuilt, Size
<1> HIDE DEF f
<1>3. f[0] = m /\ \A j \in 0..(Size - 1) : f[j + 1] = Gathered(f[j], MTFA_SIZE - (j + 1))
  <2>1. f[0] = m
    BY <1>0, <1>1
  <2>2. \A j \in 0..(Size - 1) : j + 1 \in 0..Size /\ j + 1 # 0 /\ (j + 1) - 1 = j
    BY <1>0
  <2> QED BY <1>1, <2>1, <2>2
<1>4. GatheredTo(m, m, 0)
  <2>1. \A l \in Parts : Size - 0 <= l * MTFL_SIZE => FALSE
    <3> SUFFICES ASSUME NEW l \in Parts PROVE ~ (Size - 0 <= l * MTFL_SIZE)
      OBVIOUS
    <3>1. l \in Nat /\ l + 1 <= Lists /\ Lists \in Nat /\ MTFL_SIZE > 0
      BY Sizes DEF Parts
    <3>2. \A x, y, z \in Nat : z > 0 /\ x + 1 <= y => x * z < y * z
      OBVIOUS
    <3>3. l * MTFL_SIZE < Lists * MTFL_SIZE
      BY <1>0, <3>1, <3>2
    <3>4. l * MTFL_SIZE \in Nat /\ Lists * MTFL_SIZE = Size
      BY <1>0, <3>1 DEF Size
    <3> QED BY <1>0, <3>3, <3>4
  <2>2. \A k : k \notin (Size - 0)..(Size - 1)
    BY <1>0
  <2> QED BY <2>1, <2>2 DEF GatheredTo, Loose
<1> DEFINE T == {j \in Nat : j <= Size => GatheredTo(f[j], m, j)}
<1>5. 0 \in T
  BY <1>3, <1>4
<1>6. ASSUME NEW j \in Nat, j \in T PROVE j + 1 \in T
  <2> SUFFICES ASSUME j + 1 <= Size PROVE GatheredTo(f[j + 1], m, j + 1)
    OBVIOUS
  <2>1. j \in 0..(Size - 1) /\ GatheredTo(f[j], m, j)
    BY <1>0, <1>6
  <2>2. GatheredTo(Gathered(f[j], MTFA_SIZE - (j + 1)), m, j + 1)
    BY <2>1, GatheredOnce
  <2> QED BY <1>3, <2>1, <2>2
<1> HIDE DEF T
<1>7. Size \in T
  BY <1>0, <1>5, <1>6, Lemmas!SetInduction
<1>8. GatheredTo(f[Size], m, Size)
  BY <1>0, <1>7 DEF T
<1>9. Size - Size = 0 /\ \A l \in Parts : 0 <= l * MTFL_SIZE
  <2>1. \A x, y \in Nat : 0 <= x * y
    OBVIOUS
  <2>2. Parts \subseteq Nat
    BY Sizes DEF Parts
  <2> QED BY <1>0, <2>1, <2>2
<1> DEFINE r == f[Size]
<1>10. /\ r.base \in [Parts -> Nat] /\ r.a \in [0..(MTFA_SIZE - 1) -> Int]
       /\ \A l \in Parts : r.base[l] = MTFA_SIZE - Size + l * MTFL_SIZE
       /\ \A k \in 0..(Size - 1) : r.a[MTFA_SIZE - Size + k] = At(m.a, m.base, k)
  BY <1>8, <1>9 DEF GatheredTo
<1> HIDE DEF r
<1> QED BY <1>2, <1>10 DEF r

------------------------------------------------------------------------------
(* A symbol moves to the front, in whichever part it is. *)

(* The place o of part l, before and after symbol nn has been moved to the  *)
(* front.                                                                   *)
Cell(a, base, l, o) == a[base[l] + o]
CellMoved(a, base, nn, l, o) ==
  LET lno == nn \div MTFL_SIZE IN
  IF l = 0 /\ o = 0 THEN At(a, base, nn)
  ELSE IF l < lno \/ (l = lno /\ o <= nn % MTFL_SIZE)
       THEN IF o = 0 THEN Cell(a, base, l - 1, MTFL_SIZE - 1) ELSE Cell(a, base, l, o - 1)
       ELSE Cell(a, base, l, o)

(* In the order of the list: what the symbols before nn move by one. *)
LEMMA InOrder ==
  ASSUME NEW a, NEW base, NEW nn \in 0..(Size - 1), NEW a2, NEW base2,
         \A l \in Parts, o \in 0..(MTFL_SIZE - 1) : Cell(a2, base2, l, o) = CellMoved(a, base, nn, l, o)
  PROVE  \A k \in 0..(Size - 1) :
           At(a2, base2, k) = IF k = 0 THEN At(a, base, nn)
                              ELSE IF k <= nn THEN At(a, base, k - 1) ELSE At(a, base, k)
<1> SUFFICES ASSUME NEW k \in 0..(Size - 1)
             PROVE  At(a2, base2, k) = IF k = 0 THEN At(a, base, nn)
                                       ELSE IF k <= nn THEN At(a, base, k - 1) ELSE At(a, base, k)
  OBVIOUS
<1> DEFINE l == k \div MTFL_SIZE
           o == k % MTFL_SIZE
           lno == nn \div MTFL_SIZE
           off == nn % MTFL_SIZE
<1>0. MTFL_SIZE \in Nat \ {0} /\ Size \in Nat /\ Lists \in Nat
  BY Sizes
<1>1. l \in Parts /\ o \in 0..(MTFL_SIZE - 1) /\ k = l * MTFL_SIZE + o
  BY Places
<1>2. lno \in Parts /\ off \in 0..(MTFL_SIZE - 1) /\ nn = lno * MTFL_SIZE + off
  BY Places
<1>3. At(a2, base2, k) = CellMoved(a, base, nn, l, o)
  <2>1. At(a2, base2, k) = Cell(a2, base2, l, o)
    BY DEF At, Cell
  <2> HIDE DEF l, o
  <2> QED BY <1>1, <2>1
<1>4. CellMoved(a, base, nn, l, o) =
        IF l = 0 /\ o = 0 THEN At(a, base, nn)
        ELSE IF l < lno \/ (l = lno /\ o <= off)
             THEN IF o = 0 THEN Cell(a, base, l - 1, MTFL_SIZE - 1) ELSE Cell(a, base, l, o - 1)
             ELSE Cell(a, base, l, o)
  BY DEF CellMoved
<1>5. At(a, base, k) = Cell(a, base, l, o)
  BY DEF At, Cell
<1>6. k # 0 => k - 1 \in Nat /\ At(a, base, k - 1) =
        IF o = 0 THEN Cell(a, base, l - 1, MTFL_SIZE - 1) ELSE Cell(a, base, l, o - 1)
  <2> SUFFICES ASSUME k # 0
               PROVE  k - 1 \in Nat /\ At(a, base, k - 1) =
                        IF o = 0 THEN Cell(a, base, l - 1, MTFL_SIZE - 1) ELSE Cell(a, base, l, o - 1)
    OBVIOUS
  <2>0. l \in Nat
    BY <1>0, <1>1 DEF Parts
  <2>1. CASE o = 0
    <3>1. l # 0 /\ l - 1 \in Nat
      <4>1. 0 * MTFL_SIZE = 0
        BY <1>0
      <4> HIDE DEF l, o
      <4> QED BY <1>1, <2>0, <2>1, <4>1
    <3>2. k - 1 = (l - 1) * MTFL_SIZE + (MTFL_SIZE - 1)
      <4>1. \A x \in Int, y \in Nat : (x - 1) * y + (y - 1) = x * y - 1
        OBVIOUS
      <4>2. (l - 1) * MTFL_SIZE + (MTFL_SIZE - 1) = l * MTFL_SIZE - 1
        BY <1>0, <2>0, <4>1
      <4>3. k = l * MTFL_SIZE
        <5>1. \A x, y \in Nat : x * y + 0 = x * y
          OBVIOUS
        <5> HIDE DEF l, o
        <5> QED BY <1>0, <1>1, <2>0, <2>1, <5>1
      <4> HIDE DEF l, o
      <4> QED BY <4>2, <4>3
    <3>3. (k - 1) \div MTFL_SIZE = l - 1 /\ (k - 1) % MTFL_SIZE = MTFL_SIZE - 1
      <4>1. MTFL_SIZE - 1 \in 0..(MTFL_SIZE - 1)
        BY <1>0
      <4> HIDE DEF l, o
      <4> QED BY <3>1, <3>2, <4>1, PlaceOf
    <3> HIDE DEF l, o
    <3> QED BY <2>1, <3>3 DEF At, Cell
  <2>2. CASE o # 0
    <3>1. o - 1 \in 0..(MTFL_SIZE - 1)
      <4> HIDE DEF o
      <4> QED BY <1>0, <1>1, <2>2
    <3>2. k - 1 = l * MTFL_SIZE + (o - 1)
      <4>1. l * MTFL_SIZE \in Nat
        <5>1. \A x, y \in Nat : x * y \in Nat
          OBVIOUS
        <5> QED BY <1>0, <2>0, <5>1
      <4> DEFINE ll == l * MTFL_SIZE
      <4>2. k = ll + o /\ ll \in Nat /\ o \in Nat
        BY <1>1, <4>1
      <4> HIDE DEF ll, o
      <4>3. k - 1 = ll + (o - 1)
        BY <4>2
      <4> QED BY <4>3 DEF ll
    <3>3. (k - 1) \div MTFL_SIZE = l /\ (k - 1) % MTFL_SIZE = o - 1
      <4> HIDE DEF l, o
      <4> QED BY <2>0, <3>1, <3>2, PlaceOf
    <3> HIDE DEF l, o
    <3> QED BY <2>2, <3>3 DEF At, Cell
  <2> QED BY <2>1, <2>2
<1>7. (k = 0) <=> (l = 0 /\ o = 0)
  <2>1. k = 0 => l = 0 /\ o = 0
    BY <1>0
  <2>2. \A y \in Nat : 0 * y + 0 = 0
    OBVIOUS
  <2> HIDE DEF l, o
  <2> QED BY <1>0, <1>1, <2>1, <2>2
<1>8. (k <= nn) <=> (l < lno \/ (l = lno /\ o <= off))
  <2>1. \A x, y, z, u, v \in Nat : x < y /\ u < z => x * z + u < y * z + v
    <3> SUFFICES ASSUME NEW x \in Nat, NEW y \in Nat, NEW z \in Nat, NEW u \in Nat, NEW v \in Nat,
                        x < y, u < z
                 PROVE  x * z + u < y * z + v
      OBVIOUS
    <3>1. (x + 1) * z <= y * z
      OBVIOUS
    <3>2. (x + 1) * z = x * z + z
      OBVIOUS
    <3>3. x * z \in Nat /\ y * z \in Nat
      OBVIOUS
    <3> QED BY <3>1, <3>2, <3>3
  <2>2. l \in Nat /\ lno \in Nat /\ o \in Nat /\ off \in Nat /\ o < MTFL_SIZE /\ off < MTFL_SIZE
    BY <1>0, <1>1, <1>2 DEF Parts
  <2> HIDE DEF l, o, lno, off
  <2>3. CASE l < lno
    <3>1. k < nn
      BY <1>0, <1>1, <1>2, <2>1, <2>2, <2>3
    <3> QED BY <2>3, <3>1, <1>0
  <2>4. CASE lno < l
    <3>1. nn < k
      BY <1>0, <1>1, <1>2, <2>1, <2>2, <2>4
    <3> QED BY <2>2, <2>4, <3>1, <1>0
  <2>5. CASE l = lno
    <3>1. l * MTFL_SIZE \in Nat
      <4>1. \A x, y \in Nat : x * y \in Nat
        OBVIOUS
      <4> QED BY <1>0, <2>2, <4>1
    <3> DEFINE ll == l * MTFL_SIZE
    <3>2. k = ll + o /\ nn = ll + off /\ ll \in Nat
      BY <1>1, <1>2, <2>5, <3>1
    <3> HIDE DEF ll
    <3> QED BY <2>2, <2>5, <3>2
  <2> QED BY <2>2, <2>3, <2>4, <2>5
<1> HIDE DEF l, o, lno, off
<1> QED BY <1>3, <1>4, <1>5, <1>6, <1>7, <1>8

Memory(a) == a \in [0..(MTFA_SIZE - 1) -> Int]

(* What a part's move by one leaves. *)
LEMMA ShiftUpIs ==
  ASSUME NEW a, Memory(a), NEW lo \in Nat, NEW off \in 0..(MTFL_SIZE - 1),
         lo + MTFL_SIZE <= MTFA_SIZE, NEW s, s = ShiftUp(a, lo, lo + off)
  PROVE  /\ Memory(s)
         /\ \A k \in 0..(MTFA_SIZE - 1) : s[k] = IF lo < k /\ k <= lo + off THEN a[k - 1] ELSE a[k]
<1>0. MTFL_SIZE \in Nat /\ MTFA_SIZE \in Nat
  BY Sizes
<1>1. s = [k \in 0..(MTFA_SIZE - 1) |-> IF k \in (lo + 1)..(lo + off) THEN a[k - 1] ELSE a[k]]
  BY DEF ShiftUp, Memory
<1>2. \A k \in 0..(MTFA_SIZE - 1) : s[k] = IF lo < k /\ k <= lo + off THEN a[k - 1] ELSE a[k]
  BY <1>0, <1>1
<1>3. \A k \in 0..(MTFA_SIZE - 1) : s[k] \in Int
  BY <1>0, <1>2 DEF Memory
<1>4. s = [k \in 0..(MTFA_SIZE - 1) |-> s[k]]
  BY <1>1
<1>5. Memory(s)
  BY <1>3, <1>4 DEF Memory
<1> QED BY <1>2, <1>5

(* A symbol of the first part goes to the front of it. *)
LEMMA FrontedInFirst ==
  ASSUME Held(mtfa, mtfbase), NEW nn \in 0..(Size - 1), nn \div MTFL_SIZE = 0
  PROVE  /\ Held(Fronted(nn).a, Fronted(nn).base)
         /\ \A l \in Parts, o \in 0..(MTFL_SIZE - 1) :
              Cell(Fronted(nn).a, Fronted(nn).base, l, o) = CellMoved(mtfa, mtfbase, nn, l, o)
<1> DEFINE b == mtfbase[0]
           off == nn % MTFL_SIZE
           s == ShiftUp(mtfa, b, b + off)
           x == Symbol(nn)
           a == [s EXCEPT ![b] = x]
<1>0. MTFL_SIZE \in Nat \ {0} /\ MTFA_SIZE \in Nat /\ Lists \in Nat /\ 0 \in Parts
  <2>1. MTFL_SIZE \in Nat \ {0} /\ MTFA_SIZE \in Nat /\ Lists \in Nat
    BY Sizes
  <2> QED BY <2>1, Places
<1>1. off \in 0..(MTFL_SIZE - 1)
  BY Places
<1>2. Fronted(nn) = [a |-> a, base |-> mtfbase]
  BY DEF Fronted
<1>3. b \in 1..(MTFA_SIZE - MTFL_SIZE) /\ b \in Nat /\ b + MTFL_SIZE <= MTFA_SIZE
  <2>1. b \in 1..(MTFA_SIZE - MTFL_SIZE)
    BY <1>0, HeldPlaces
  <2> HIDE DEF b
  <2> QED BY <1>0, <2>1
<1>4. Memory(mtfa)
  BY DEF Held, Memory
<1> HIDE DEF b, off
<1>4a. s = ShiftUp(mtfa, b, b + off)
  OBVIOUS
<1> HIDE DEF s
<1>5. /\ Memory(s)
      /\ \A k \in 0..(MTFA_SIZE - 1) : s[k] = IF b < k /\ k <= b + off THEN mtfa[k - 1] ELSE mtfa[k]
  BY <1>1, <1>3, <1>4, <1>4a, ShiftUpIs
<1>6. x \in Int /\ x = At(mtfa, mtfbase, nn)
  <2>1. x = mtfa[b + off] /\ x = At(mtfa, mtfbase, nn)
    BY DEF Symbol, At, b, off
  <2>2. b + off \in 0..(MTFA_SIZE - 1)
    BY <1>0, <1>1, <1>3
  <2> QED BY <1>4, <2>1, <2>2 DEF Memory
<1> HIDE DEF x
<1>7. /\ Memory(a)
      /\ \A k \in 0..(MTFA_SIZE - 1) : a[k] = IF k = b THEN x ELSE s[k]
  BY <1>5, <1>6 DEF Memory
<1> HIDE DEF a
<1>8. Held(a, mtfbase)
  BY <1>7 DEF Held, Memory
<1>9. ASSUME NEW l \in Parts, NEW o \in 0..(MTFL_SIZE - 1)
      PROVE  Cell(a, mtfbase, l, o) = CellMoved(mtfa, mtfbase, nn, l, o)
  <2> DEFINE k == mtfbase[l] + o
  <2>1. k \in 0..(MTFA_SIZE - 1) /\ l \in Nat /\ mtfbase[l] \in Nat
    <3>1. k \in 0..(MTFA_SIZE - 1)
      BY HeldPlaces
    <3> QED BY <1>0, <3>1 DEF Parts, Held
  <2>2. CellMoved(mtfa, mtfbase, nn, l, o) =
          IF l = 0 /\ o = 0 THEN x
          ELSE IF l = 0 /\ o <= off
               THEN IF o = 0 THEN Cell(mtfa, mtfbase, l - 1, MTFL_SIZE - 1) ELSE mtfa[mtfbase[l] + (o - 1)]
               ELSE mtfa[mtfbase[l] + o]
    BY <1>6, <2>1 DEF CellMoved, Cell, off
  <2>3. CASE l = 0
    <3>1. mtfbase[l] = b
      BY <2>3 DEF b
    <3>2. a[k] = IF k = b THEN x ELSE IF b < k /\ k <= b + off THEN mtfa[k - 1] ELSE mtfa[k]
      BY <1>5, <1>7, <2>1
    <3>3. (k = b <=> o = 0) /\ (b < k <=> o # 0) /\ (k <= b + off <=> o <= off) /\ k - 1 = b + (o - 1)
      BY <1>0, <1>1, <1>3, <3>1
    <3>4. Cell(a, mtfbase, l, o) = a[k]
      BY DEF Cell
    <3>5. Cell(a, mtfbase, l, o) =
            IF o = 0 THEN x ELSE IF o <= off THEN mtfa[b + (o - 1)] ELSE mtfa[k]
      <4> HIDE DEF k
      <4> QED BY <3>2, <3>3, <3>4
    <3> QED BY <2>2, <2>3, <3>1, <3>5
  <2>4. CASE l # 0
    <3>1. b + MTFL_SIZE <= mtfbase[l]
      BY <1>0, <2>1, <2>4, HeldPlaces DEF b
    <3>2. k # b /\ ~ (b < k /\ k <= b + off)
      BY <1>0, <1>1, <1>3, <2>1, <3>1
    <3>3. a[k] = mtfa[k]
      <4> HIDE DEF k
      <4> QED BY <1>5, <1>7, <2>1, <3>2
    <3> QED BY <2>2, <2>4, <3>3 DEF Cell
  <2> QED BY <2>3, <2>4
<1> QED BY <1>2, <1>8, <1>9

(* A symbol of a later part: before mtfa may be rebuilt. *)
Later(nn) ==
  LET lno == nn \div MTFL_SIZE
      shifted == ShiftUp(mtfa, mtfbase[lno], mtfbase[lno] + (nn % MTFL_SIZE))
      handed  == HandedDown([a |-> shifted, base |-> [mtfbase EXCEPT ![lno] = @ + 1]], lno)
      first   == handed.base[0] - 1
  IN  [a |-> [handed.a EXCEPT ![first] = Symbol(nn)], base |-> [handed.base EXCEPT ![0] = first]]

LEMMA LaterIs ==
  ASSUME Held(mtfa, mtfbase), NEW nn \in 0..(Size - 1), nn \div MTFL_SIZE # 0
  PROVE  /\ Memory(Later(nn).a)
         /\ Later(nn).base = [l \in Parts |-> IF l < nn \div MTFL_SIZE THEN mtfbase[l] - 1 ELSE mtfbase[l]]
         /\ \A l \in Parts, o \in 0..(MTFL_SIZE - 1) :
              Cell(Later(nn).a, Later(nn).base, l, o) = CellMoved(mtfa, mtfbase, nn, l, o)
<1> DEFINE lno == nn \div MTFL_SIZE
           b == mtfbase[lno]
           off == nn % MTFL_SIZE
           s == ShiftUp(mtfa, b, b + off)
           h == HandedDown([a |-> s, base |-> [mtfbase EXCEPT ![lno] = @ + 1]], lno)
           first == mtfbase[0] - 1
           x == Symbol(nn)
           a == [h.a EXCEPT ![first] = x]
           base == [l \in Parts |-> IF l < lno THEN mtfbase[l] - 1 ELSE mtfbase[l]]
<1>0. MTFL_SIZE \in Nat \ {0} /\ MTFA_SIZE \in Nat /\ Lists \in Nat
  BY Sizes
<1>1. off \in 0..(MTFL_SIZE - 1) /\ lno \in Parts /\ lno \in 1..(Lists - 1) /\ 0 \in Parts
  <2>1. off \in 0..(MTFL_SIZE - 1) /\ lno \in Parts
    BY Places
  <2> HIDE DEF lno, off
  <2>2. lno # 0
    BY DEF lno
  <2> QED BY <1>0, <2>1, <2>2 DEF Parts
<1>2. \A l \in Parts : l \in Nat /\ mtfbase[l] \in 1..(MTFA_SIZE - MTFL_SIZE) /\ mtfbase[l] \in Nat
                       /\ mtfbase[l] + MTFL_SIZE <= MTFA_SIZE
  <2>1. \A l \in Parts : mtfbase[l] \in 1..(MTFA_SIZE - MTFL_SIZE)
    BY HeldPlaces
  <2>2. \A l \in Parts : l \in Nat
    BY <1>0 DEF Parts
  <2> QED BY <1>0, <2>1, <2>2
<1>3. \A l, m \in Parts : l < m => mtfbase[l] + MTFL_SIZE <= mtfbase[m]
  BY HeldPlaces
<1>4. Memory(mtfa)
  BY DEF Held, Memory
<1>5. first \in 0..(MTFA_SIZE - 1) /\ first \in Int
  BY <1>0, <1>1, <1>2
<1>6. Later(nn) = [a |-> [h.a EXCEPT ![h.base[0] - 1] = x], base |-> [h.base EXCEPT ![0] = h.base[0] - 1]]
  BY DEF Later
<1>7. s = ShiftUp(mtfa, b, b + off)
  OBVIOUS
<1> HIDE DEF lno, off, s
<1>8. /\ Memory(s)
      /\ \A k \in 0..(MTFA_SIZE - 1) : s[k] = IF b < k /\ k <= b + off THEN mtfa[k - 1] ELSE mtfa[k]
  <2> HIDE DEF b
  <2>1. b \in Nat /\ b + MTFL_SIZE <= MTFA_SIZE
    BY <1>1, <1>2 DEF b
  <2> QED BY <1>1, <1>4, <1>7, <2>1, ShiftUpIs
<1> HIDE DEF b
<1>9. HandedTo(h, 0, s, mtfbase, lno)
  <2>1. s \in [0..(MTFA_SIZE - 1) -> Int]
    BY <1>8 DEF Memory
  <2> QED BY <1>1, <2>1, HandedDownIs
<1> HIDE DEF h
<1>10. /\ Memory(h.a)
       /\ h.base = [i \in Parts |-> IF 0 < i /\ i < lno THEN mtfbase[i] - 1
                               ELSE IF i = lno /\ 0 = lno THEN mtfbase[i] + 1 ELSE mtfbase[i]]
       /\ \A i \in 1..lno : h.a[Pos(mtfbase, lno, i)] = s[mtfbase[i - 1] + MTFL_SIZE - 1]
       /\ \A k \in 0..(MTFA_SIZE - 1) : (\A i \in 1..lno : k # Pos(mtfbase, lno, i)) => h.a[k] = s[k]
  <2>1. 0 + 1 = 1
    OBVIOUS
  <2> QED BY <1>9, <2>1 DEF HandedTo, Memory
<1>11. h.base[0] - 1 = first /\ [h.base EXCEPT ![0] = first] = base
  <2> DEFINE g == [i \in Parts |-> IF 0 < i /\ i < lno THEN mtfbase[i] - 1
                               ELSE IF i = lno /\ 0 = lno THEN mtfbase[i] + 1 ELSE mtfbase[i]]
  <2>0. h.base = g
    BY <1>10
  <2>1. g[0] = mtfbase[0]
    BY <1>1
  <2>2. \A i \in Parts : [g EXCEPT ![0] = first][i] = base[i]
    <3> SUFFICES ASSUME NEW i \in Parts PROVE [g EXCEPT ![0] = first][i] = base[i]
      OBVIOUS
    <3>1. i \in Nat /\ lno \in Nat /\ lno > 0
      BY <1>1, <1>2
    <3>2. CASE i = 0
      BY <1>1, <3>1, <3>2
    <3>3. CASE i # 0
      BY <1>1, <3>1, <3>3
    <3> QED BY <3>2, <3>3
  <2>3. [g EXCEPT ![0] = first] = base
    BY <2>2
  <2> HIDE DEF g
  <2> QED BY <2>0, <2>1, <2>3
<1>12. x \in Int /\ x = At(mtfa, mtfbase, nn)
  <2>1. x = mtfa[b + off] /\ x = At(mtfa, mtfbase, nn)
    BY DEF Symbol, At, b, off, lno
  <2>2. b + off \in 0..(MTFA_SIZE - 1)
    BY <1>1, HeldPlaces DEF b
  <2> QED BY <1>4, <2>1, <2>2 DEF Memory
<1> HIDE DEF x, first
<1>13. /\ Memory(a)
       /\ \A k \in 0..(MTFA_SIZE - 1) : a[k] = IF k = first THEN x ELSE h.a[k]
  BY <1>5, <1>10, <1>12 DEF Memory
<1>14. Later(nn).a = a /\ Later(nn).base = base
  BY <1>6, <1>11
<1> HIDE DEF a
<1>15. \A l \in Parts : base[l] = IF l < lno THEN mtfbase[l] - 1 ELSE mtfbase[l]
  OBVIOUS
<1> HIDE DEF base
(* Where something has been handed to. *)
<1>16. /\ \A i \in 1..lno : Pos(mtfbase, lno, i) \in 0..(MTFA_SIZE - 1)
       /\ \A i \in 1..lno, l \in Parts : l < i => Pos(mtfbase, lno, i) >= mtfbase[l] + MTFL_SIZE - 1
       /\ \A i, j \in 1..lno : i < j => Pos(mtfbase, lno, i) < Pos(mtfbase, lno, j)
  BY <1>1, PosApart
<1>17. \A i \in 1..lno : Pos(mtfbase, lno, i) # first /\ i \in Parts
  <2> SUFFICES ASSUME NEW i \in 1..lno PROVE Pos(mtfbase, lno, i) # first /\ i \in Parts
    OBVIOUS
  <2>1. i \in Parts
    BY <1>0, <1>1 DEF Parts
  <2>2. Pos(mtfbase, lno, i) >= mtfbase[0] + MTFL_SIZE - 1
    BY <1>1, <1>16
  <2>3. Pos(mtfbase, lno, i) \in Int /\ mtfbase[0] \in Nat
    BY <1>1, <1>2, <1>16
  <2> QED BY <1>0, <2>1, <2>2, <2>3 DEF first
<1>18. \A i \in 1..lno : a[Pos(mtfbase, lno, i)] = mtfa[mtfbase[i - 1] + (MTFL_SIZE - 1)]
  <2> SUFFICES ASSUME NEW i \in 1..lno
               PROVE  a[Pos(mtfbase, lno, i)] = mtfa[mtfbase[i - 1] + (MTFL_SIZE - 1)]
    OBVIOUS
  <2> DEFINE q == mtfbase[i - 1] + MTFL_SIZE - 1
  <2>0. i - 1 \in Parts /\ i - 1 < lno
    BY <1>0, <1>1 DEF Parts
  <2>1. mtfbase[i - 1] + MTFL_SIZE <= b /\ mtfbase[i - 1] \in Nat /\ b \in Nat
    BY <1>1, <1>2, <1>3, <2>0 DEF b
  <2>2. q \in 0..(MTFA_SIZE - 1) /\ ~ (b < q) /\ q = mtfbase[i - 1] + (MTFL_SIZE - 1)
    <3>1. b + MTFL_SIZE <= MTFA_SIZE
      BY <1>1, <1>2 DEF b
    <3> QED BY <1>0, <2>1, <3>1
  <2>3. a[Pos(mtfbase, lno, i)] = s[q]
    BY <1>10, <1>13, <1>16, <1>17
  <2> HIDE DEF q
  <2>4. s[q] = mtfa[q]
    BY <1>8, <2>2
  <2> QED BY <2>2, <2>3, <2>4
<1>19. ASSUME NEW k \in 0..(MTFA_SIZE - 1), k # first, \A i \in 1..lno : k # Pos(mtfbase, lno, i)
       PROVE  a[k] = IF b < k /\ k <= b + off THEN mtfa[k - 1] ELSE mtfa[k]
  BY <1>8, <1>10, <1>13, <1>19
<1>20. ASSUME NEW l \in Parts, NEW o \in 0..(MTFL_SIZE - 1)
       PROVE  Cell(a, base, l, o) = CellMoved(mtfa, mtfbase, nn, l, o)
  <2>0. l \in Nat /\ o \in Nat /\ o < MTFL_SIZE /\ mtfbase[l] \in Nat /\ lno \in Nat /\ b \in Nat
        /\ mtfbase[l] > 0 /\ off \in Nat /\ off < MTFL_SIZE
    <3>1. l \in Nat /\ mtfbase[l] \in 1..(MTFA_SIZE - MTFL_SIZE)
      BY <1>2
    <3>2. b \in Nat
      BY <1>1, <1>2 DEF b
    <3> QED BY <1>0, <1>1, <3>1, <3>2
  <2>1. CellMoved(mtfa, mtfbase, nn, l, o) =
          IF l = 0 /\ o = 0 THEN x
          ELSE IF l < lno \/ (l = lno /\ o <= off)
               THEN IF o = 0 THEN mtfa[mtfbase[l - 1] + (MTFL_SIZE - 1)] ELSE mtfa[mtfbase[l] + (o - 1)]
               ELSE mtfa[mtfbase[l] + o]
    BY <1>12 DEF CellMoved, Cell, off, lno
  <2>2. Cell(a, base, l, o) = a[base[l] + o]
    BY DEF Cell
  <2>3. CASE l < lno
    <3>1. base[l] = mtfbase[l] - 1
      BY <1>15, <2>3
    <3>2. CASE o = 0
      <4>1. CASE l = 0
        <5>1. base[l] + o = first
          BY <2>0, <3>1, <3>2, <4>1 DEF first
        <5>2. a[first] = x
          BY <1>5, <1>13
        <5> QED BY <2>1, <2>2, <3>2, <4>1, <5>1, <5>2
      <4>2. CASE l # 0
        <5>1. l \in 1..lno /\ Pos(mtfbase, lno, l) = base[l] + o
          BY <2>0, <2>3, <3>1, <3>2, <4>2 DEF Pos
        <5>2. a[base[l] + o] = mtfa[mtfbase[l - 1] + (MTFL_SIZE - 1)]
          BY <1>18, <5>1
        <5> QED BY <2>1, <2>2, <2>3, <3>2, <4>2, <5>2
      <4> QED BY <4>1, <4>2
    <3>3. CASE o # 0
      <4> DEFINE k == mtfbase[l] + (o - 1)
      <4>1. k = base[l] + o /\ k \in Nat /\ k < mtfbase[l] + MTFL_SIZE - 1 /\ k >= mtfbase[l]
        BY <1>0, <2>0, <3>1, <3>3
      <4>2. mtfbase[l] + MTFL_SIZE <= b /\ b + MTFL_SIZE <= MTFA_SIZE
        BY <1>1, <1>2, <1>3, <2>3 DEF b
      <4>3. k \in 0..(MTFA_SIZE - 1) /\ ~ (b < k)
        BY <1>0, <2>0, <4>1, <4>2
      <4>4. k # first
        <5>1. l = 0 \/ mtfbase[0] + MTFL_SIZE <= mtfbase[l]
          BY <1>1, <1>3, <2>0
        <5>2. mtfbase[0] \in Nat
          BY <1>1, <1>2
        <5> QED BY <1>0, <2>0, <4>1, <5>1, <5>2 DEF first
      <4>5. \A i \in 1..lno : k # Pos(mtfbase, lno, i)
        <5> SUFFICES ASSUME NEW i \in 1..lno PROVE k # Pos(mtfbase, lno, i)
          OBVIOUS
        <5>1. Pos(mtfbase, lno, i) \in Int /\ i \in Int
          BY <1>16
        <5>2. CASE l < i
          <6>1. Pos(mtfbase, lno, i) >= mtfbase[l] + MTFL_SIZE - 1
            BY <1>16, <5>2
          <6> QED BY <1>0, <2>0, <4>1, <5>1, <6>1
        <5>3. CASE ~ (l < i)
          <6>1. l \in 1..lno /\ Pos(mtfbase, lno, l) = mtfbase[l] - 1 /\ (i = l \/ i < l)
            BY <2>0, <2>3, <5>1, <5>3 DEF Pos
          <6>2. Pos(mtfbase, lno, i) <= mtfbase[l] - 1
            BY <1>16, <2>0, <5>1, <6>1
          <6> QED BY <2>0, <4>1, <5>1, <6>2
        <5> QED BY <5>2, <5>3
      <4> HIDE DEF k
      <4>6. a[k] = mtfa[k]
        BY <1>19, <4>3, <4>4, <4>5
      <4> QED BY <2>1, <2>2, <2>3, <3>3, <4>1, <4>6 DEF k
    <3> QED BY <3>2, <3>3
  <2>4. CASE l = lno
    <3>1. base[l] = b /\ mtfbase[l] = b
      BY <1>15, <2>0, <2>4 DEF b
    <3>2. lno \in 1..lno /\ Pos(mtfbase, lno, lno) = b
      BY <1>1 DEF Pos, b
    <3>3. CASE o = 0
      <4>1. base[l] + o = b
        BY <2>0, <3>1, <3>3
      <4>2. a[b] = mtfa[mtfbase[l - 1] + (MTFL_SIZE - 1)]
        BY <1>18, <2>4, <3>2
      <4>3. l # 0 /\ o <= off
        BY <1>1, <2>0, <2>4, <3>3
      <4> QED BY <2>1, <2>2, <2>4, <3>3, <4>1, <4>2, <4>3
    <3>4. CASE o # 0
      <4> DEFINE k == b + o
      <4>1. k \in 0..(MTFA_SIZE - 1) /\ b < k /\ (k <= b + off <=> o <= off) /\ k - 1 = b + (o - 1)
        <5>1. b + MTFL_SIZE <= MTFA_SIZE
          BY <1>1, <1>2 DEF b
        <5> QED BY <1>0, <2>0, <3>4, <5>1
      <4>2. k # first
        <5>1. mtfbase[0] + MTFL_SIZE <= b /\ mtfbase[0] \in Nat
          BY <1>1, <1>2, <1>3 DEF b
        <5> QED BY <1>0, <2>0, <4>1, <5>1 DEF first
      <4>3. \A i \in 1..lno : k # Pos(mtfbase, lno, i)
        <5> SUFFICES ASSUME NEW i \in 1..lno PROVE k # Pos(mtfbase, lno, i)
          OBVIOUS
        <5>1. Pos(mtfbase, lno, i) \in Int /\ (i = lno \/ i < lno)
          BY <1>16, <2>0
        <5>2. Pos(mtfbase, lno, i) <= b
          BY <1>16, <2>0, <3>2, <5>1
        <5> QED BY <2>0, <4>1, <5>1, <5>2
      <4> HIDE DEF k
      <4>4. a[k] = IF o <= off THEN mtfa[b + (o - 1)] ELSE mtfa[k]
        BY <1>19, <4>1, <4>2, <4>3
      <4>5. CellMoved(mtfa, mtfbase, nn, l, o) = IF o <= off THEN mtfa[b + (o - 1)] ELSE mtfa[b + o]
        BY <2>0, <2>1, <2>4, <3>1, <3>4
      <4> QED BY <2>2, <3>1, <4>4, <4>5 DEF k
    <3> QED BY <3>3, <3>4
  <2>5. CASE lno < l
    <3> DEFINE k == mtfbase[l] + o
    <3>1. base[l] = mtfbase[l] /\ b + MTFL_SIZE <= mtfbase[l] /\ mtfbase[0] + MTFL_SIZE <= mtfbase[l]
          /\ mtfbase[0] \in Nat
      <4>1. ~ (l < lno) /\ 0 < l
        BY <2>0, <2>5
      <4> QED BY <1>1, <1>2, <1>3, <1>15, <2>5, <4>1 DEF b
    <3>2. k \in 0..(MTFA_SIZE - 1) /\ ~ (k <= b + off) /\ k # first /\ k > b
      <4>1. mtfbase[l] + MTFL_SIZE <= MTFA_SIZE
        BY <1>2
      <4> QED BY <1>0, <2>0, <3>1, <4>1 DEF first
    <3>3. \A i \in 1..lno : k # Pos(mtfbase, lno, i)
      <4> SUFFICES ASSUME NEW i \in 1..lno PROVE k # Pos(mtfbase, lno, i)
        OBVIOUS
      <4>1. Pos(mtfbase, lno, i) \in Int /\ (i = lno \/ i < lno)
        BY <1>16, <2>0
      <4>2. lno \in 1..lno /\ Pos(mtfbase, lno, lno) = b
        BY <1>1 DEF Pos, b
      <4>3. Pos(mtfbase, lno, i) <= b
        BY <1>16, <2>0, <4>1, <4>2
      <4> QED BY <2>0, <3>2, <4>1, <4>3
    <3> HIDE DEF k
    <3>4. a[k] = mtfa[k]
      BY <1>19, <3>2, <3>3
    <3>5. ~ (l < lno) /\ l # lno /\ l # 0
      BY <2>0, <2>5
    <3> QED BY <2>1, <2>2, <3>1, <3>4, <3>5 DEF k
  <2> QED BY <2>0, <2>3, <2>4, <2>5
<1> QED BY <1>13, <1>14, <1>20 DEF base, lno

LEMMA Room ==
  ASSUME NEW l \in Parts
  PROVE  /\ l \in Nat /\ l * MTFL_SIZE \in Nat
         /\ MTFA_SIZE - (Lists - l) * MTFL_SIZE = MTFA_SIZE - Size + l * MTFL_SIZE
         /\ \A m \in Parts : l < m => l * MTFL_SIZE + MTFL_SIZE <= m * MTFL_SIZE
<1>0. MTFL_SIZE \in Nat \ {0} /\ MTFA_SIZE \in Nat /\ Lists \in Nat /\ l \in Nat /\ Size \in Nat
      /\ Size = Lists * MTFL_SIZE /\ Parts \subseteq Nat
  BY Sizes DEF Parts, Size
<1>1. \A x, y, z \in Nat : (x - y) * z = x * z - y * z /\ x * z \in Nat /\ y * z \in Nat
  OBVIOUS
<1>2. (Lists - l) * MTFL_SIZE = Size - l * MTFL_SIZE /\ l * MTFL_SIZE \in Nat
  BY <1>0, <1>1
<1>3. \A x, y, z \in Nat : x < y => x * z + z <= y * z
  <2> SUFFICES ASSUME NEW x \in Nat, NEW y \in Nat, NEW z \in Nat, x < y
               PROVE  x * z + z <= y * z
    OBVIOUS
  <2>1. (x + 1) * z <= y * z
    OBVIOUS
  <2>2. (x + 1) * z = x * z + z
    OBVIOUS
  <2> QED BY <2>1, <2>2
<1>4. \A m \in Parts : l < m => l * MTFL_SIZE + MTFL_SIZE <= m * MTFL_SIZE
  BY <1>0, <1>3
<1>5. MTFA_SIZE - (Lists - l) * MTFL_SIZE = MTFA_SIZE - Size + l * MTFL_SIZE
  <2> DEFINE u == (Lists - l) * MTFL_SIZE
             v == l * MTFL_SIZE
  <2>1. u = Size - v /\ v \in Nat
    BY <1>2
  <2> HIDE DEF u, v
  <2>2. MTFA_SIZE - u = MTFA_SIZE - Size + v
    BY <1>0, <2>1
  <2> QED BY <2>2 DEF u, v
<1> QED BY <1>0, <1>2, <1>4, <1>5

(* Parts that stand at the end of mtfa, one after the other. *)
LEMMA AtTheEnd ==
  ASSUME NEW a, Memory(a), NEW base \in [Parts -> Nat],
         \A l \in Parts : base[l] = MTFA_SIZE - Size + l * MTFL_SIZE
  PROVE  /\ Held(a, base)
         /\ \A k \in 0..(Size - 1) : At(a, base, k) = a[MTFA_SIZE - Size + k]
<1>0. MTFL_SIZE \in Nat \ {0} /\ MTFA_SIZE \in Nat /\ Lists \in Nat /\ Size \in Nat /\ Size < MTFA_SIZE
  BY Sizes
<1>1. ASSUME NEW l \in Parts
      PROVE  /\ 0 < base[l] /\ base[l] <= MTFA_SIZE - (Lists - l) * MTFL_SIZE
             /\ \A m \in (l + 1)..(Lists - 1) : base[l] + MTFL_SIZE <= base[m]
  <2> DEFINE ll == l * MTFL_SIZE
  <2>1. ll \in Nat /\ l \in Nat /\ base[l] = MTFA_SIZE - Size + ll
        /\ MTFA_SIZE - (Lists - l) * MTFL_SIZE = MTFA_SIZE - Size + ll
    BY Room
  <2>2. \A m \in Parts : l < m => ll + MTFL_SIZE <= m * MTFL_SIZE /\ m * MTFL_SIZE \in Nat
    BY Room
  <2> HIDE DEF ll
  <2>3. 0 < base[l] /\ base[l] <= MTFA_SIZE - (Lists - l) * MTFL_SIZE
    BY <1>0, <2>1
  <2>4. ASSUME NEW m \in (l + 1)..(Lists - 1) PROVE base[l] + MTFL_SIZE <= base[m]
    <3> DEFINE ml == m * MTFL_SIZE
    <3>1. m \in Parts /\ l < m
      BY <1>0, <2>1 DEF Parts
    <3>2. ll + MTFL_SIZE <= ml /\ ml \in Nat /\ base[m] = MTFA_SIZE - Size + ml
      BY <2>2, <3>1
    <3> HIDE DEF ml
    <3> QED BY <1>0, <2>1, <3>2
  <2> QED BY <2>3, <2>4
<1>2. Held(a, base)
  BY <1>1 DEF Held, Memory
<1>3. ASSUME NEW k \in 0..(Size - 1) PROVE At(a, base, k) = a[MTFA_SIZE - Size + k]
  <2> DEFINE l == k \div MTFL_SIZE
             o == k % MTFL_SIZE
             ll == l * MTFL_SIZE
  <2>1. l \in Parts /\ o \in Nat /\ k = ll + o
    <3>1. l \in Parts /\ o \in 0..(MTFL_SIZE - 1) /\ k = ll + o
      BY Places
    <3> HIDE DEF l, o, ll
    <3> QED BY <1>0, <3>1
  <2>2. base[l] = MTFA_SIZE - Size + ll /\ ll \in Nat
    BY <2>1, Room
  <2>3. At(a, base, k) = a[base[l] + o]
    BY DEF At
  <2> HIDE DEF l, o, ll
  <2>4. base[l] + o = MTFA_SIZE - Size + k
    BY <1>0, <2>1, <2>2
  <2> QED BY <2>3, <2>4
<1> QED BY <1>2, <1>3

(* Symbol nn moves to the front of the list, wherever that then is. *)
LEMMA FrontedIs ==
  ASSUME Held(mtfa, mtfbase), NEW nn \in 0..(Size - 1)
  PROVE  /\ Held(Fronted(nn).a, Fronted(nn).base)
         /\ \A k \in 0..(Size - 1) :
              At(Fronted(nn).a, Fronted(nn).base, k) =
                IF k = 0 THEN Symbol(nn) ELSE IF k <= nn THEN Symbol(k - 1) ELSE Symbol(k)
<1> DEFINE m == Later(nn)
<1>0. MTFL_SIZE \in Nat \ {0} /\ MTFA_SIZE \in Nat /\ Lists \in Nat /\ Size \in Nat
  BY Sizes
<1>1. \A k : At(mtfa, mtfbase, k) = Symbol(k)
  BY DEF At, Symbol
<1>2. CASE nn \div MTFL_SIZE = 0
  BY <1>1, <1>2, FrontedInFirst, InOrder
<1>3. CASE nn \div MTFL_SIZE # 0
  <2> DEFINE lno == nn \div MTFL_SIZE
             shifted == ShiftUp(mtfa, mtfbase[lno], mtfbase[lno] + (nn % MTFL_SIZE))
             handed  == HandedDown([a |-> shifted, base |-> [mtfbase EXCEPT ![lno] = @ + 1]], lno)
             first   == handed.base[0] - 1
  <2>0. 0 \in Parts /\ MTFL_SIZE \in Nat /\ Lists \in Nat
    <3>1. 0 \in 0..(Size - 1) /\ 0 \div MTFL_SIZE = 0
      BY <1>0
    <3> QED BY <1>0, <3>1, Places
  <2>1. m.base = [handed.base EXCEPT ![0] = first]
    BY DEF Later
  <2>2. Fronted(nn) = IF first = 0 THEN Rebuilt(m) ELSE m
    BY <1>3 DEF Fronted, Later
  <2> HIDE DEF first
  <2>3. /\ Memory(m.a)
        /\ m.base = [l \in Parts |-> IF l < nn \div MTFL_SIZE THEN mtfbase[l] - 1 ELSE mtfbase[l]]
        /\ \A l \in Parts, o \in 0..(MTFL_SIZE - 1) :
              Cell(m.a, m.base, l, o) = CellMoved(mtfa, mtfbase, nn, l, o)
    BY <1>3, LaterIs
  <2> HIDE DEF m, handed
  <2>4. m.base[0] = first
    <3>1. DOMAIN handed.base = Parts
      BY <2>1, <2>3
    <3> QED BY <2>0, <2>1, <3>1
  <2>5. \A k \in 0..(Size - 1) :
          At(m.a, m.base, k) = IF k = 0 THEN Symbol(nn) ELSE IF k <= nn THEN Symbol(k - 1) ELSE Symbol(k)
    BY <1>1, <2>3, InOrder
  <2>6. \A l \in Parts : l \in Nat /\ m.base[l] \in Nat /\ m.base[l] <= mtfbase[l] /\ (l # 0 => m.base[l] > 0)
    <3> SUFFICES ASSUME NEW l \in Parts
                 PROVE  l \in Nat /\ m.base[l] \in Nat /\ m.base[l] <= mtfbase[l] /\ (l # 0 => m.base[l] > 0)
      OBVIOUS
    <3>1. mtfbase[l] \in Nat /\ mtfbase[l] > 0 /\ mtfbase[0] \in Nat /\ l \in Nat
      BY <1>0, <2>0 DEF Held, Parts
    <3>2. m.base[l] \in {mtfbase[l] - 1, mtfbase[l]}
      BY <2>3
    <3>3. l # 0 => mtfbase[0] + MTFL_SIZE <= mtfbase[l] /\ mtfbase[0] > 0
      <4>1. mtfbase[0] > 0
        BY <2>0 DEF Held
      <4>2. l # 0 => 0 < l
        BY <3>1
      <4> QED BY <2>0, <4>1, <4>2, HeldPlaces
    <3> QED BY <1>0, <3>1, <3>2, <3>3
  <2>7. m.base \in [Parts -> Nat]
    <3>1. m.base = [l \in Parts |-> m.base[l]]
      BY <2>3
    <3> QED BY <2>6, <3>1
  <2>8. CASE first = 0
    <3>1. Loose(m)
      <4>1. ASSUME NEW l \in Parts PROVE m.base[l] <= MTFA_SIZE - Size + l * MTFL_SIZE
        <5> DEFINE room == MTFA_SIZE - Size + l * MTFL_SIZE
        <5>1. mtfbase[l] <= room /\ mtfbase[l] \in Nat /\ room \in Int
          <6>1. MTFA_SIZE - (Lists - l) * MTFL_SIZE = room /\ l * MTFL_SIZE \in Nat
            BY Room
          <6>2. mtfbase[l] <= MTFA_SIZE - (Lists - l) * MTFL_SIZE /\ mtfbase[l] \in Nat
            BY DEF Held
          <6> QED BY <1>0, <6>1, <6>2
        <5>2. m.base[l] <= mtfbase[l] /\ m.base[l] \in Nat
          BY <2>6
        <5> HIDE DEF room
        <5>3. m.base[l] <= room
          BY <5>1, <5>2
        <5> QED BY <5>3 DEF room
      <4> QED BY <2>3, <2>7, <4>1 DEF Loose, Memory
    <3> DEFINE r == Rebuilt(m)
    <3>2. /\ r.base \in [Parts -> Nat] /\ Memory(r.a)
          /\ \A l \in Parts : r.base[l] = MTFA_SIZE - Size + l * MTFL_SIZE
          /\ \A k \in 0..(Size - 1) : r.a[MTFA_SIZE - Size + k] = At(m.a, m.base, k)
      BY <3>1, RebuiltIs DEF Memory
    <3>3. Fronted(nn) = r
      BY <2>2, <2>8
    <3> HIDE DEF r
    <3>4. Held(r.a, r.base) /\ \A k \in 0..(Size - 1) : At(r.a, r.base, k) = r.a[MTFA_SIZE - Size + k]
      BY <3>2, AtTheEnd
    <3> QED BY <2>5, <3>2, <3>3, <3>4
  <2>9. CASE first # 0
    <3>1. Fronted(nn) = m
      BY <2>2, <2>9
    <3>2. ASSUME NEW l \in Parts
          PROVE  /\ 0 < m.base[l] /\ m.base[l] <= MTFA_SIZE - (Lists - l) * MTFL_SIZE
                 /\ \A i \in (l + 1)..(Lists - 1) : m.base[l] + MTFL_SIZE <= m.base[i]
      <4>1. 0 < m.base[l]
        BY <2>4, <2>6, <2>9
      <4> DEFINE room == MTFA_SIZE - (Lists - l) * MTFL_SIZE
      <4>2. mtfbase[l] <= room /\ mtfbase[l] \in Nat /\ room \in Int
        <5>1. room = MTFA_SIZE - Size + l * MTFL_SIZE /\ l * MTFL_SIZE \in Nat
          BY Room
        <5>2. room \in Int
          BY <1>0, <5>1
        <5> QED BY <5>2 DEF Held
      <4>3. m.base[l] <= room
        <5> HIDE DEF room
        <5>1. m.base[l] <= mtfbase[l] /\ m.base[l] \in Nat
          BY <2>6
        <5> QED BY <4>2, <5>1
      <4>4. ASSUME NEW i \in (l + 1)..(Lists - 1) PROVE m.base[l] + MTFL_SIZE <= m.base[i]
        <5>1. i \in Parts /\ l < i /\ i \in Nat /\ l \in Nat
          BY <2>0, <2>6 DEF Parts
        <5>2. mtfbase[l] + MTFL_SIZE <= mtfbase[i] /\ mtfbase[l] \in Nat /\ mtfbase[i] \in Nat
          BY <5>1, HeldPlaces DEF Held
        <5>3. /\ m.base[l] = IF l < lno THEN mtfbase[l] - 1 ELSE mtfbase[l]
              /\ m.base[i] = IF i < lno THEN mtfbase[i] - 1 ELSE mtfbase[i]
          BY <2>3, <5>1
        <5>4. lno \in Nat
          <6>1. lno \in Parts
            BY Places
          <6> QED BY <2>6, <6>1
        <5> HIDE DEF lno
        <5> QED BY <2>0, <5>1, <5>2, <5>3, <5>4
      <4> QED BY <4>1, <4>3, <4>4
    <3>3. Held(m.a, m.base)
      BY <2>3, <2>7, <3>2 DEF Held, Memory
    <3> QED BY <2>5, <3>1, <3>3
  <2> QED BY <2>8, <2>9
<1> QED BY <1>2, <1>3

------------------------------------------------------------------------------
(* Where the symbols of the list were last written. *)

(* The place in s of the last symbol of rank c among those used; of two     *)
(* lists that hold the n symbols in the order of these places.              *)
Last(used, s, c) == Max({0} \cup {k \in 1..Len(s) : unseqToSeq(used, s[k]) = c})

Recent(used, s, list, n) ==
  \A k \in 1..n : \A j \in 1..(k - 1) :
    \/ Last(used, s, list[j]) > Last(used, s, list[k])
    \/ Last(used, s, list[j]) = 0 /\ Last(used, s, list[k]) = 0 /\ list[j] < list[k]

LEMMA LastIs ==
  ASSUME NEW used, NEW s, Len(s) \in Nat, NEW c, NEW n \in 0..Len(s), n = 0 \/ unseqToSeq(used, s[n]) = c,
         \A k \in (n + 1)..Len(s) : unseqToSeq(used, s[k]) # c
  PROVE  Last(used, s, c) = n
<1> DEFINE T == {0} \cup {k \in 1..Len(s) : unseqToSeq(used, s[k]) = c}
<1>1. n \in T /\ T \subseteq Nat
  OBVIOUS
<1>2. \A y \in T : y <= n
  OBVIOUS
<1> HIDE DEF T
<1>3. Max(T) = n
  BY <1>1, <1>2, MaxIs
<1> QED BY <1>3 DEF Last, T

LEMMA LastExists ==
  ASSUME NEW used, NEW s, Len(s) \in Nat, NEW c
  PROVE  /\ Last(used, s, c) \in 0..Len(s)
         /\ Last(used, s, c) = 0 \/ unseqToSeq(used, s[Last(used, s, c)]) = c
         /\ \A k \in 1..Len(s) : k > Last(used, s, c) => unseqToSeq(used, s[k]) # c
<1> DEFINE n == Len(s)
           T == {0} \cup {k \in 1..n : unseqToSeq(used, s[k]) = c}
           U == {d \in 0..n : n - d \in T}
<1>1. U \subseteq Nat /\ n \in U
  OBVIOUS
<1>2. PICK d \in U : \A y \in U : d <= y
  <2> HIDE DEF U
  <2> QED BY <1>1, Lemmas!LeastNumber
<1> DEFINE x == n - d
<1>3. x \in T /\ x \in 0..n
  OBVIOUS
<1>4. \A y \in T : y <= x
  <2> SUFFICES ASSUME NEW y \in T PROVE y <= x
    OBVIOUS
  <2>1. n - y \in U /\ d \in 0..n /\ y \in 0..n /\ n \in Nat
    OBVIOUS
  <2>2. d <= n - y
    BY <1>2, <2>1
  <2> HIDE DEF T, U, n
  <2> QED BY <2>1, <2>2
<1>5. T \subseteq Nat
  OBVIOUS
<1> HIDE DEF x
<1>6. Last(used, s, c) = x
  <2> HIDE DEF T
  <2>1. Max(T) = x
    BY <1>3, <1>4, <1>5, MaxIs
  <2> QED BY <2>1 DEF T, Last
<1>7. \A k \in 1..n : k > x => unseqToSeq(used, s[k]) # c
  BY <1>3, <1>4
<1> QED BY <1>3, <1>6, <1>7

(* From s to t only the last place of the symbol of rank x has changed, to  *)
(* one behind all others; list2 has element k of list at its front.         *)
WrittenLast(used, s, t, x, m) ==
  \A c : /\ Last(used, s, c) \in Nat /\ Last(used, s, c) < m
         /\ Last(used, t, c) = IF c = x THEN m ELSE Last(used, s, c)

MovedToFront(list, list2, k, n) ==
  \A i \in 1..n : list2[i] = IF i = 1 THEN list[k] ELSE IF i <= k THEN list[i - 1] ELSE list[i]

(* A run, or a single symbol, behind s. *)
LEMMA LastBehind ==
  ASSUME NEW used, NEW s \in Seq(used), NEW r \in Seq(used), NEW u, Len(r) # 0,
         \A i \in 1..Len(r) : r[i] = u
  PROVE  /\ Len(s \o r) \in Nat
         /\ WrittenLast(used, s, s \o r, unseqToSeq(used, u), Len(s \o r))
<1> DEFINE t == s \o r
<1>0. Len(s) \in Nat /\ Len(r) \in Nat
  BY LenProperties
<1>1. Len(t) = Len(s) + Len(r)
  BY ConcatProperties
<1>2. \A k \in 1..Len(s) : t[k] = s[k]
  BY ConcatProperties
<1>3. \A k \in 1..Len(t) : ~ (k <= Len(s)) => t[k] = u
  <2> SUFFICES ASSUME NEW k \in 1..Len(t), ~ (k <= Len(s)) PROVE t[k] = u
    OBVIOUS
  <2>1. k - Len(s) \in 1..Len(r)
    BY <1>0, <1>1
  <2>2. t[k] = r[k - Len(s)]
    BY <1>0, <1>1, ConcatProperties
  <2> QED BY <2>1, <2>2
<1> HIDE DEF t
<1>4. ASSUME NEW c
      PROVE  /\ Last(used, s, c) \in Nat /\ Last(used, s, c) < Len(t)
             /\ Last(used, t, c) = IF c = unseqToSeq(used, u) THEN Len(t) ELSE Last(used, s, c)
  <2> DEFINE n == Last(used, s, c)
  <2>1. /\ n \in 0..Len(s)
        /\ n = 0 \/ unseqToSeq(used, s[n]) = c
        /\ \A k \in 1..Len(s) : k > n => unseqToSeq(used, s[k]) # c
    BY <1>0, LastExists
  <2> HIDE DEF n
  <2>2. n \in Nat /\ n < Len(t)
    BY <1>0, <1>1, <2>1
  <2>3. CASE c = unseqToSeq(used, u)
    <3>1. Len(t) \in 0..Len(t) /\ Len(t) \in Nat /\ Len(t) \in 1..Len(t) /\ ~ (Len(t) <= Len(s))
      BY <1>0, <1>1
    <3>2. unseqToSeq(used, t[Len(t)]) = c
      BY <1>3, <2>3, <3>1
    <3>3. \A k : k \notin (Len(t) + 1)..Len(t)
      BY <3>1
    <3>4. Last(used, t, c) = Len(t)
      BY <3>1, <3>2, <3>3, LastIs
    <3> QED BY <2>2, <2>3, <3>4 DEF n
  <2>4. CASE c # unseqToSeq(used, u)
    <3>1. n \in 0..Len(t) /\ Len(t) \in Nat
      BY <1>0, <1>1, <2>1
    <3>2. n = 0 \/ unseqToSeq(used, t[n]) = c
      <4>1. n # 0 => n \in 1..Len(s)
        BY <1>0, <2>1
      <4> QED BY <1>2, <2>1, <4>1
    <3>3. \A k \in (n + 1)..Len(t) : unseqToSeq(used, t[k]) # c
      <4> SUFFICES ASSUME NEW k \in (n + 1)..Len(t) PROVE unseqToSeq(used, t[k]) # c
        OBVIOUS
      <4>1. k \in 1..Len(t) /\ k > n
        BY <2>2, <3>1
      <4>2. CASE k <= Len(s)
        <5>1. k \in 1..Len(s)
          BY <1>0, <4>1, <4>2
        <5> QED BY <1>2, <2>1, <4>1, <5>1
      <4>3. CASE ~ (k <= Len(s))
        BY <1>3, <2>4, <4>1, <4>3
      <4> QED BY <4>2, <4>3
    <3>4. Last(used, t, c) = n
      BY <3>1, <3>2, <3>3, LastIs
    <3> QED BY <2>2, <2>4, <3>4 DEF n
  <2> QED BY <2>3, <2>4
<1> QED BY <1>0, <1>1, <1>4 DEF t, WrittenLast

(* What is written goes to the front. *)
LEMMA RecentMoved ==
  ASSUME NEW used, NEW n \in Nat, NEW list, NEW list2, NEW s, NEW t, NEW k \in 1..n, NEW m \in Nat,
         \A i \in 1..n : list[i] \in Nat,
         Recent(used, s, list, n),
         WrittenLast(used, s, t, list[k], m), MovedToFront(list, list2, k, n)
  PROVE  Recent(used, t, list2, n)
<1>0. /\ \A c : /\ Last(used, s, c) \in Nat /\ Last(used, s, c) < m
                /\ Last(used, t, c) = IF c = list[k] THEN m ELSE Last(used, s, c)
      /\ \A i \in 1..n : list2[i] = IF i = 1 THEN list[k] ELSE IF i <= k THEN list[i - 1] ELSE list[i]
  BY DEF WrittenLast, MovedToFront
<1>1. \A i \in 1..n : \A j \in 1..(i - 1) : list[i] # list[j]
  <2> SUFFICES ASSUME NEW i \in 1..n, NEW j \in 1..(i - 1), list[i] = list[j] PROVE FALSE
    OBVIOUS
  <2>1. j \in 1..n /\ list[i] \in Nat /\ Last(used, s, list[i]) \in Nat
    BY <1>0
  <2>2. \/ Last(used, s, list[j]) > Last(used, s, list[i])
        \/ Last(used, s, list[j]) = 0 /\ Last(used, s, list[i]) = 0 /\ list[j] < list[i]
    BY DEF Recent
  <2> QED BY <2>1, <2>2
<1> DEFINE p(i) == IF i = 1 THEN k ELSE IF i <= k THEN i - 1 ELSE i
<1>2. \A i \in 1..n : p(i) \in 1..n /\ list2[i] = list[p(i)] /\ (i # 1 => p(i) # k)
  BY <1>0
<1>3. \A i \in 1..n : \A j \in 1..(i - 1) : j # 1 => p(j) \in 1..(p(i) - 1) /\ j \in 1..n
  OBVIOUS
<1>4. \A i \in 1..n : i # 1 => list[p(i)] # list[k]
  <2> SUFFICES ASSUME NEW i \in 1..n, i # 1 PROVE list[p(i)] # list[k]
    OBVIOUS
  <2>1. p(i) \in 1..n /\ p(i) # k
    BY <1>2
  <2> HIDE DEF p
  <2>2. p(i) \in 1..(k - 1) \/ k \in 1..(p(i) - 1)
    BY <2>1
  <2> QED BY <1>1, <2>1, <2>2
<1> HIDE DEF p
<1>5. ASSUME NEW i \in 1..n, NEW j \in 1..(i - 1)
      PROVE  \/ Last(used, t, list2[j]) > Last(used, t, list2[i])
             \/ Last(used, t, list2[j]) = 0 /\ Last(used, t, list2[i]) = 0 /\ list2[j] < list2[i]
  <2>1. i # 1 /\ list2[i] = list[p(i)] /\ list[p(i)] # list[k] /\ j \in 1..n /\ 1 \in 1..n /\ p(i) \in 1..n
    <3>1. i # 1 /\ j \in 1..n /\ 1 \in 1..n
      OBVIOUS
    <3> QED BY <1>2, <1>4, <3>1
  <2>2. Last(used, t, list2[i]) = Last(used, s, list[p(i)]) /\ Last(used, s, list[p(i)]) \in Nat
        /\ Last(used, s, list[p(i)]) < m
    BY <1>0, <2>1
  <2>3. CASE j = 1
    <3>1. list2[1] = list[k]
      BY <1>0, <2>1
    <3>2. Last(used, t, list2[j]) = m
      BY <1>0, <2>3, <3>1
    <3> QED BY <2>2, <3>2
  <2>4. CASE j # 1
    <3>1. list2[j] = list[p(j)] /\ list[p(j)] # list[k] /\ p(j) \in 1..(p(i) - 1)
      BY <1>2, <1>3, <1>4, <2>1, <2>4
    <3>2. Last(used, t, list2[j]) = Last(used, s, list[p(j)])
      BY <1>0, <3>1
    <3>3. \/ Last(used, s, list[p(j)]) > Last(used, s, list[p(i)])
          \/ Last(used, s, list[p(j)]) = 0 /\ Last(used, s, list[p(i)]) = 0 /\ list[p(j)] < list[p(i)]
      BY <2>1, <3>1 DEF Recent
    <3> QED BY <2>1, <2>2, <3>1, <3>2, <3>3
  <2> QED BY <2>3, <2>4
<1> QED BY <1>5 DEF Recent

------------------------------------------------------------------------------
(* Sending. *)

(* A function on 1..n is a sequence. *)
LEMMA ListedIs ==
  ASSUME NEW f, NEW n \in Nat, Listed(f, n)
  PROVE  DOMAIN f = 1..n /\ Len(f) = n /\ f \in Seq({f[k] : k \in 1..n})
<1> DEFINE S == {f[k] : k \in 1..n}
<1>1. f = [k \in 1..n |-> f[k]] /\ \A k \in 1..n : f[k] \in S
  BY DEF Listed
<1> HIDE DEF S
<1>2. f \in [1..n -> S]
  BY <1>1
<1>3. f \in Seq(S) /\ Len(f) = n /\ DOMAIN f = 1..n
  BY <1>2
<1> QED BY <1>3 DEF S

LEMMA SendStep == IInv /\ Send => IInv'
<1> SUFFICES ASSUME IInv, Send PROVE IInv'
  OBVIOUS
<1>1. /\ column' = column /\ at' = at /\ zPend' = zPend /\ mtfv' = mtfv /\ selector' = selector
      /\ pc = "send" /\ pc' = "header" /\ UNCHANGED decoder
  BY DEF Send, encoder
<1>2. EncoderInv'
  BY <1>1, EncoderKept DEF IInv
<1>3. PICK more \in 0..RoundUp :
        /\ sent'.inUse = inUse
        /\ sent'.selectorMtf = SelectorsToFront(selector) \o [k \in 1..more |-> 0]
  <2>1. \E more \in 0..RoundUp : \E cs :
          sent' = [inUse |-> inUse, nGroups |-> nGroups,
                   selectorMtf |-> SelectorsToFront(selector) \o [k \in 1..more |-> 0],
                   len |-> len, codes |-> cs]
    BY Zenon DEF Send
  <2>5. PICK more \in 0..RoundUp : \E cs :
          sent' = [inUse |-> inUse, nGroups |-> nGroups,
                   selectorMtf |-> SelectorsToFront(selector) \o [k \in 1..more |-> 0],
                   len |-> len, codes |-> cs]
    BY <2>1
  <2>2. PICK cs :
          sent' = [inUse |-> inUse, nGroups |-> nGroups,
                   selectorMtf |-> SelectorsToFront(selector) \o [k \in 1..more |-> 0],
                   len |-> len, codes |-> cs]
    BY <2>5
  <2> DEFINE q == SelectorsToFront(selector) \o [k \in 1..more |-> 0]
  <2>3. sent' = [inUse |-> inUse, nGroups |-> nGroups, selectorMtf |-> q, len |-> len, codes |-> cs]
    BY <2>2
  <2> HIDE DEF q
  <2>4. sent'.inUse = inUse /\ sent'.selectorMtf = q
    BY <2>3
  <2> QED BY <2>4 DEF q
<1>4. PICK n \in 0..BZ_MAX_SELECTORS : Listed(selector, n)
  BY DEF IInv, EncoderInv
<1>5. n \in Nat /\ more \in Nat
  BY Sizes
<1>6. Listed(SelectorsToFront(selector), n)
  <2>1. Len(selector) = n
    BY <1>4, <1>5, ListedIs
  <2>2. \E f : SelectorsToFront(selector) = [g \in 1..n |-> f[g]]
    <3> DEFINE place(pos, t) == CHOOSE k \in DOMAIN pos : pos[k] = t
               list == CHOOSE list : list =
                 [g \in 0..Len(selector) |->
                    IF g = 0 THEN [k \in 1..nGroups |-> k - 1]
                    ELSE ToFront(list[g - 1], place(list[g - 1], selector[g]))]
               f == [g \in 1..n |-> place(list[g - 1], selector[g]) - 1]
    <3>1. SelectorsToFront(selector) = [g \in 1..Len(selector) |-> place(list[g - 1], selector[g]) - 1]
      BY DEF SelectorsToFront
    <3> HIDE DEF place, list
    <3>2. SelectorsToFront(selector) = f
      BY <2>1, <3>1
    <3>3. f = [g \in 1..n |-> f[g]]
      OBVIOUS
    <3> HIDE DEF f
    <3> QED BY <3>2, <3>3
  <2>3. PICK f : SelectorsToFront(selector) = [g \in 1..n |-> f[g]]
    BY <2>2
  <2> QED BY <2>3 DEF Listed
<1>7. Listed(sent'.selectorMtf, n + more)
  <2> DEFINE a == SelectorsToFront(selector)
             b == [k \in 1..more |-> 0]
             S == {a[k] : k \in 1..n} \cup {0}
  <2>1. a \in Seq({a[k] : k \in 1..n}) /\ Len(a) = n
    BY <1>5, <1>6, ListedIs
  <2>2. b \in Seq({0}) /\ Len(b) = more
    <3>1. b \in [1..more -> {0}]
      OBVIOUS
    <3> QED BY <1>5, <3>1
  <2>3. {a[k] : k \in 1..n} \subseteq S /\ {0} \subseteq S
    OBVIOUS
  <2> HIDE DEF a, b
  <2>4. a \in Seq(S) /\ b \in Seq(S)
    <3> HIDE DEF S
    <3>1. a \in Seq(S)
      BY <2>1, <2>3, SeqMonotonic
    <3>2. b \in Seq(S)
      BY <2>2, <2>3, SeqMonotonic
    <3> QED BY <3>1, <3>2
  <2> HIDE DEF S
  <2>5. a \o b \in Seq(S) /\ Len(a \o b) = n + more
    BY <2>1, <2>2, <2>4, ConcatProperties
  <2> DEFINE c == a \o b
  <2>6. c \in Seq(S) /\ Len(c) = n + more
    BY <2>5
  <2> HIDE DEF c
  <2>7. c \in [1..Len(c) -> S]
    BY <2>6, LenProperties
  <2>8. c = [k \in 1..(n + more) |-> c[k]]
    BY <2>6, <2>7
  <2>9. sent'.selectorMtf = c
    BY <1>3 DEF a, b, c
  <2> QED BY <2>8, <2>9 DEF Listed
<1>8. DecoderInv'
  <2>1. inUse' = inUse
    BY <1>1, ColumnKept DEF IInv, EncoderInv
  <2>2. n + more \in Nat
    BY <1>5
  <2>3. out' = <<>> /\ groupNo' = -1 /\ groupPos' = 0 /\ es' = -1 /\ N' = 1
    BY <1>1 DEF IInv, DecoderInv, decoder
  <2> QED BY <1>1, <1>3, <1>7, <2>1, <2>2, <2>3 DEF DecoderInv
<1> QED BY <1>1, <1>2, <1>8 DEF IInv

------------------------------------------------------------------------------
(* The selectors the decoder makes of what is sent are tables it has. *)
ListStep(groups, s, f, g) == IF g = 0 THEN [k \in 1..groups |-> k - 1] ELSE ToFront(f[g - 1], s[g] + 1)

LEMMA ListsExist ==
  ASSUME NEW groups, NEW s, NEW n \in Nat
  PROVE  \E f : f = [g \in 0..n |-> ListStep(groups, s, f, g)]
<1> DEFINE T == {k \in Nat : \E f : f = [g \in 0..k |-> ListStep(groups, s, f, g)]}
<1>1. 0 \in T
  <2> DEFINE f == [g \in 0..0 |-> [k \in 1..groups |-> k - 1]]
  <2>1. f = [g \in 0..0 |-> ListStep(groups, s, f, g)]
    BY DEF ListStep
  <2> HIDE DEF f
  <2> QED BY <2>1
<1>2. ASSUME NEW k \in Nat, k \in T PROVE k + 1 \in T
  <2>1. PICK f : f = [g \in 0..k |-> ListStep(groups, s, f, g)]
    BY <1>2
  <2> DEFINE h == [g \in 0..(k + 1) |-> IF g = k + 1 THEN ListStep(groups, s, f, g) ELSE f[g]]
  <2>2. \A g \in 0..(k + 1) : h[g] = ListStep(groups, s, h, g)
    <3> SUFFICES ASSUME NEW g \in 0..(k + 1) PROVE h[g] = ListStep(groups, s, h, g)
      OBVIOUS
    <3>1. g # 0 => h[g - 1] = f[g - 1]
      OBVIOUS
    <3>2. ListStep(groups, s, h, g) = ListStep(groups, s, f, g)
      <4> HIDE DEF h
      <4> QED BY <3>1 DEF ListStep
    <3>3. g # k + 1 => g \in 0..k /\ h[g] = f[g]
      OBVIOUS
    <3>4. g = k + 1 => h[g] = ListStep(groups, s, f, g)
      OBVIOUS
    <3> HIDE DEF h
    <3> QED BY <2>1, <3>2, <3>3, <3>4
  <2>3. h = [g \in 0..(k + 1) |-> h[g]]
    OBVIOUS
  <2> HIDE DEF h
  <2>4. h = [g \in 0..(k + 1) |-> ListStep(groups, s, h, g)]
    BY <2>2, <2>3
  <2> QED BY <2>4
<1> HIDE DEF T
<1>3. n \in T
  BY <1>1, <1>2, Lemmas!SetInduction
<1> QED BY <1>3 DEF T

LEMMA SelectorsBackIs ==
  ASSUME NEW groups \in Nat, NEW s, NEW n \in Nat, Len(s) = n, \A g \in 1..n : s[g] \in 0..(groups - 1)
  PROVE  /\ Listed(SelectorsBack(s, groups), n)
         /\ \A g \in 1..n : SelectorsBack(s, groups)[g] \in 0..(groups - 1)
<1> DEFINE f == CHOOSE f : f = [g \in 0..n |-> ListStep(groups, s, f, g)]
<1>1. f = [g \in 0..n |-> ListStep(groups, s, f, g)]
  <2>1. \E h : h = [g \in 0..n |-> ListStep(groups, s, h, g)]
    BY ListsExist
  <2> QED BY <2>1
<1>2. SelectorsBack(s, groups) = [g \in 1..n |-> f[g - 1][s[g] + 1]]
  BY DEF SelectorsBack, ListStep
<1> HIDE DEF f
<1>3. \A g \in 0..n : f[g] = ListStep(groups, s, f, g)
  BY <1>1
<1> DEFINE T == {k \in Nat : k <= n => Whole(f[k], groups)}
<1>4. 0 \in T
  <2>1. f[0] = [k \in 1..groups |-> k - 1]
    BY <1>3 DEF ListStep
  <2> QED BY <2>1, WholeFirst
<1>5. ASSUME NEW k \in Nat, k \in T PROVE k + 1 \in T
  <2> SUFFICES ASSUME k + 1 <= n PROVE Whole(f[k + 1], groups)
    OBVIOUS
  <2>1. k + 1 \in 1..n /\ k + 1 \in 0..n /\ (k + 1) - 1 = k /\ k + 1 # 0
    OBVIOUS
  <2>2. f[k + 1] = ToFront(f[k], s[k + 1] + 1)
    BY <1>3, <2>1 DEF ListStep
  <2>3. s[k + 1] + 1 \in 1..groups
    BY <2>1
  <2>4. Whole(f[k], groups)
    BY <1>5
  <2> QED BY <2>2, <2>3, <2>4, WholeToFront
<1> HIDE DEF T
<1>6. \A k \in Nat : k \in T
  BY <1>4, <1>5, Lemmas!SetInduction
<1>7. ASSUME NEW g \in 1..n PROVE f[g - 1][s[g] + 1] \in 0..(groups - 1)
  <2>1. g - 1 \in Nat /\ g - 1 <= n /\ s[g] + 1 \in 1..groups
    OBVIOUS
  <2>2. Whole(f[g - 1], groups)
    BY <1>6, <2>1 DEF T
  <2>3. f[g - 1] \in Seq(0..(groups - 1)) /\ Len(f[g - 1]) = groups
    BY <2>2 DEF Whole
  <2> QED BY <2>1, <2>3, ElementOfSeq
<1>8. \A g \in 1..n : SelectorsBack(s, groups)[g] \in 0..(groups - 1)
  BY <1>2, <1>7
<1>9. Listed(SelectorsBack(s, groups), n)
  <2> DEFINE h == [g \in 1..n |-> f[g - 1][s[g] + 1]]
  <2>1. h = [g \in 1..n |-> h[g]]
    OBVIOUS
  <2>2. SelectorsBack(s, groups) = h
    BY <1>2
  <2> HIDE DEF h
  <2> QED BY <2>1, <2>2 DEF Listed
<1> QED BY <1>8, <1>9

------------------------------------------------------------------------------
(* The header of a block. *)

(* Each code of a table that has been made finds a value of the alphabet. *)
LEMMA PermIs ==
  ASSUME column \in Columns, NEW l, \A v \in Alpha : l[v] \in Nat
  PROVE  CreateDecodeTables(l).perm \in [Alpha -> Alpha]
<1> DEFINE p == [k \in 0..EOB |-> CHOOSE v \in Alpha :
                     k = Shorter(l, l[v]) + Cardinality({u \in Alpha : u < v /\ l[u] = l[v]})]
<1>0. EOB \in Nat /\ Alpha = 0..EOB
  <2>1. nInUse \in Nat /\ EOB = nInUse + 1
    BY ColumnSizes
  <2> QED BY <2>1 DEF Alpha
<1>1. CreateDecodeTables(l).perm = p
  BY DEF CreateDecodeTables
<1>2. ASSUME NEW k \in 0..EOB PROVE p[k] \in Alpha
  <2>1. \E v \in Alpha : k = Shorter(l, l[v]) + Same(l, v)
    <3> HIDE DEF p
    <3> QED BY <1>0, LengthRanks
  <2>2. p[k] = CHOOSE v \in Alpha : k = Shorter(l, l[v]) + Same(l, v)
    BY DEF Same
  <2> HIDE DEF p
  <2> QED BY <2>1, <2>2
<1>3. p = [k \in 0..EOB |-> p[k]]
  OBVIOUS
<1> HIDE DEF p
<1>4. p \in [Alpha -> Alpha]
  BY <1>0, <1>2, <1>3
<1> QED BY <1>1, <1>4

LEMMA ReceiveHeaderStep == IInv /\ ReceiveHeader => IInv'
<1> SUFFICES ASSUME IInv, ReceiveHeader PROVE IInv'
  OBVIOUS
<1>0. pc = "header"
  BY DEF ReceiveHeader
<1>1. /\ column' = column /\ at' = at /\ zPend' = zPend /\ mtfv' = mtfv /\ selector' = selector
      /\ sent' = sent /\ pc' \in {"data_error", "receive"}
  BY DEF ReceiveHeader, Error, encoder
<1>2. EncoderInv' /\ column \in Columns
  BY <1>0, <1>1, EncoderKept DEF IInv, EncoderInv
<1>3. CASE BadHeader
  <2>1. pc' = "data_error"
    BY <1>3 DEF ReceiveHeader, Error
  <2>2. DecoderInv'
    BY <2>1 DEF DecoderInv
  <2> QED BY <1>2, <2>1, <2>2 DEF IInv
<1>4. CASE ~BadHeader
  <2> DEFINE groups == sent.nGroups
             tables == 0..(groups - 1)
             z == Min({Len(sent.selectorMtf), BZ_MAX_SELECTORS})
             s == SubSeq(sent.selectorMtf, 1, z)
  <2>1. /\ code' = [selector |-> SelectorsBack(s, groups),
                    table |-> [t \in tables |-> CreateDecodeTables(sent.len[t])],
                    EOB |-> Cardinality(sent.inUse) + 1]
        /\ mtfa' = [k \in 0..(MTFA_SIZE - 1) |->
                        IF k >= MTFA_SIZE - Lists * MTFL_SIZE THEN k - (MTFA_SIZE - Lists * MTFL_SIZE) ELSE -1]
        /\ mtfbase' = [l \in 0..(Lists - 1) |-> MTFA_SIZE - (Lists - l) * MTFL_SIZE]
        /\ pc' = "receive"
        /\ UNCHANGED <<groupNo, groupPos, es, N, out>>
    BY <1>4 DEF ReceiveHeader
  <2>2. /\ sent.inUse # {} /\ groups \in 2..BZ_N_GROUPS
        /\ \A k \in DOMAIN sent.selectorMtf : sent.selectorMtf[k] \in tables
        /\ \A t \in tables, v \in Alpha : sent.len[t][v] \in 1..LongestCode
    BY <1>4 DEF BadHeader
  <2>3. sent.inUse = inUse
    BY <1>0 DEF IInv, DecoderInv
  <2>4. PICK n \in Nat : Listed(sent.selectorMtf, n)
    BY <1>0 DEF IInv, DecoderInv
  <2>5. out = <<>> /\ groupNo = -1 /\ groupPos = 0 /\ es = -1 /\ N = 1
    BY <1>0 DEF IInv, DecoderInv
  <2>6. groups \in Nat /\ BZ_MAX_SELECTORS \in Nat /\ LongestCode \in Nat
    <3>1. BZ_N_GROUPS \in Nat /\ LongestCode \in Nat
      BY SizesAssumption
    <3> HIDE DEF groups
    <3> QED BY <2>2, <3>1, Sizes
  <2> HIDE DEF groups
  <2>7. /\ z \in 0..BZ_MAX_SELECTORS /\ z \in Nat
        /\ Len(s) = z
        /\ \A g \in 1..z : s[g] \in tables
    <3>1. DOMAIN sent.selectorMtf = 1..n /\ Len(sent.selectorMtf) = n
          /\ sent.selectorMtf \in Seq({sent.selectorMtf[k] : k \in 1..n})
      BY <2>4, ListedIs
    <3>2. z \in Nat /\ z <= n /\ z <= BZ_MAX_SELECTORS
      BY <2>6, <3>1, TwoMin
    <3> HIDE DEF z, tables
    <3> DEFINE q == sent.selectorMtf
               V == {q[k] : k \in 1..n}
    <3>3. q \in Seq(V) /\ Len(q) = n /\ DOMAIN q = 1..n /\ s = SubSeq(q, 1, z)
      BY <3>1
    <3>4. \A k \in 1..n : q[k] \in tables
      BY <2>2, <3>1
    <3> HIDE DEF q, V, s
    <3>5. 1 \in 1..(Len(q) + 1) /\ z \in (1 - 1)..Len(q)
      BY <3>2, <3>3
    <3>6. Len(s) = z - 1 + 1 /\ \A i \in 1..(z - 1 + 1) : s[i] = q[1 + i - 1]
      BY <3>3, <3>5, SubSeqProperties
    <3>7. \A i \in 1..z : s[i] = q[i] /\ i \in 1..n
      BY <3>2, <3>6
    <3>8. Len(s) = z
      BY <3>2, <3>6
    <3> QED BY <2>6, <3>2, <3>4, <3>7, <3>8
  <2> HIDE DEF z, s
  <2>8. /\ Listed(SelectorsBack(s, groups), z)
        /\ \A g \in 1..z : SelectorsBack(s, groups)[g] \in tables
    BY <2>6, <2>7, SelectorsBackIs
  <2>9. /\ code'.selector = SelectorsBack(s, groups)
        /\ code'.table = [t \in tables |-> CreateDecodeTables(sent.len[t])]
        /\ code'.EOB = Cardinality(sent.inUse) + 1
    BY <2>1
  <2>10. inUse' = inUse /\ EOB' = EOB /\ Alpha' = Alpha /\ nInUse' = nInUse
    BY <1>1, <1>2, ColumnKept
  <2>11. TablesInv'
    <3>1. inUse' # {} /\ code'.EOB = EOB'
      BY <2>2, <2>3, <2>9, <2>10 DEF EOB, nInUse
    <3>2. Listed(code'.selector, z)
      BY <2>8, <2>9
    <3>3. DOMAIN code'.table = tables
      BY <2>9
    <3>4. DOMAIN code'.selector = 1..z
      <4> DEFINE cs == code'.selector
      <4>1. Listed(cs, z)
        BY <3>2
      <4> HIDE DEF cs
      <4>2. DOMAIN cs = 1..z
        BY <2>7, <4>1, ListedIs
      <4> QED BY <4>2 DEF cs
    <3>5. \A g \in 1..z : code'.selector[g] \in tables
      BY <2>8, <2>9
    <3>6. ASSUME NEW t \in tables PROVE code'.table[t].perm \in [Alpha -> Alpha]
      <4>1. \A v \in Alpha : sent.len[t][v] \in Nat
        BY <2>2, <2>6
      <4>2. CreateDecodeTables(sent.len[t]).perm \in [Alpha -> Alpha]
        BY <1>2, <4>1, PermIs
      <4>3. code'.table[t] = CreateDecodeTables(sent.len[t])
        BY <2>9
      <4> QED BY <4>2, <4>3
    <3> HIDE DEF tables
    <3> QED BY <2>7, <2>10, <3>1, <3>2, <3>3, <3>4, <3>5, <3>6 DEF TablesInv
  <2>12. /\ MTFA_SIZE \in Nat /\ Size \in Nat /\ Size < MTFA_SIZE /\ Lists * MTFL_SIZE = Size
    BY Sizes DEF Size
  <2>13. /\ Memory(mtfa')
         /\ \A k \in 0..(Size - 1) : mtfa'[MTFA_SIZE - Size + k] = k
    <3>1. mtfa' = [k \in 0..(MTFA_SIZE - 1) |-> IF k >= MTFA_SIZE - Size THEN k - (MTFA_SIZE - Size) ELSE -1]
      BY <2>1, <2>12
    <3>2. Memory(mtfa')
      BY <2>12, <3>1 DEF Memory
    <3>3. ASSUME NEW k \in 0..(Size - 1) PROVE mtfa'[MTFA_SIZE - Size + k] = k
      <4>1. /\ MTFA_SIZE - Size + k \in 0..(MTFA_SIZE - 1) /\ MTFA_SIZE - Size + k >= MTFA_SIZE - Size
            /\ (MTFA_SIZE - Size + k) - (MTFA_SIZE - Size) = k
        BY <2>12
      <4> QED BY <3>1, <4>1
    <3> QED BY <3>2, <3>3
  <2>14. mtfbase' \in [Parts -> Nat] /\ \A l \in Parts : mtfbase'[l] = MTFA_SIZE - Size + l * MTFL_SIZE
    <3>1. mtfbase' = [l \in Parts |-> MTFA_SIZE - (Lists - l) * MTFL_SIZE]
      BY <2>1 DEF Parts
    <3>2. ASSUME NEW l \in Parts
          PROVE  mtfbase'[l] = MTFA_SIZE - Size + l * MTFL_SIZE /\ mtfbase'[l] \in Nat
      <4> DEFINE ll == l * MTFL_SIZE
      <4>1. ll \in Nat /\ MTFA_SIZE - (Lists - l) * MTFL_SIZE = MTFA_SIZE - Size + ll
        BY Room
      <4>2. mtfbase'[l] = MTFA_SIZE - (Lists - l) * MTFL_SIZE
        BY <3>1
      <4> HIDE DEF ll
      <4>3. MTFA_SIZE - Size + ll \in Nat
        BY <2>12, <4>1
      <4> QED BY <4>1, <4>2, <4>3 DEF ll
    <3> QED BY <3>1, <3>2
  <2>15. Held(mtfa', mtfbase') /\ \A k \in 0..(Size - 1) : At(mtfa', mtfbase', k) = k
    <3> DEFINE a == mtfa'
               b == mtfbase'
    <3>1. Memory(a) /\ b \in [Parts -> Nat] /\ \A l \in Parts : b[l] = MTFA_SIZE - Size + l * MTFL_SIZE
      BY <2>13, <2>14
    <3>2. \A k \in 0..(Size - 1) : a[MTFA_SIZE - Size + k] = k
      BY <2>13
    <3> HIDE DEF a, b
    <3>3. Held(a, b) /\ \A k \in 0..(Size - 1) : At(a, b, k) = k
      BY <3>1, <3>2, AtTheEnd
    <3> QED BY <3>3 DEF a, b
  <2>16. DOMAIN List' = 1..Size /\ \A k \in 1..Size : List'[k] = k - 1
    <3>1. List' = [k \in 1..Size |-> At(mtfa', mtfbase', k - 1)]
      BY DEF List, Symbol, At, Size
    <3>2. \A k \in 1..Size : k - 1 \in 0..(Size - 1)
      BY <2>12
    <3> QED BY <2>15, <3>1, <3>2
  <2>17. RecentFirst'
    <3>1. \A c : LastAt(c)' = 0
      <4>1. Len(<<>>) = 0 /\ 0 \in 0..Len(<<>>) /\ Len(<<>>) \in Nat /\ \A k : k \notin (0 + 1)..Len(<<>>)
        OBVIOUS
      <4>2. \A c : Last(inUse', <<>>, c) = 0
        BY <4>1, LastIs
      <4>3. out' = <<>>
        BY <2>1, <2>5
      <4> QED BY <4>2, <4>3 DEF LastAt, Last
    <3>2. \A k \in 1..Size : \A j \in 1..(k - 1) : List'[j] < List'[k]
      BY <2>12, <2>16
    <3> QED BY <2>16, <3>1, <3>2 DEF RecentFirst
  <2>18. ReceiveInv'
    <3>1. groupNo' = -1 /\ groupPos' = 0 /\ es' = -1 /\ N' = 1 /\ out' = <<>>
      BY <2>1, <2>5
    <3>2. -1 \in -1..Len(code'.selector)
      <4> DEFINE cs == code'.selector
      <4>1. Listed(cs, z)
        BY <2>8, <2>9
      <4> HIDE DEF cs
      <4>2. Len(cs) = z
        BY <2>7, <4>1, ListedIs
      <4> QED BY <2>7, <4>2 DEF cs
    <3>3. \A k \in 1..Size : List'[k] \in Nat /\ IF k <= nInUse THEN List'[k] < nInUse ELSE List'[k] = k - 1
      <4>1. nInUse \in Nat
        BY <1>2, ColumnSizes
      <4> QED BY <2>12, <2>16, <4>1
    <3> QED BY <2>10, <2>15, <2>17, <3>1, <3>2, <3>3 DEF ReceiveInv
  <2>19. DecoderInv'
    BY <1>1, <2>1, <2>3, <2>10, <2>11, <2>18 DEF DecoderInv
  <2> QED BY <1>2, <2>1, <2>19 DEF IInv
<1> QED BY <1>3, <1>4

------------------------------------------------------------------------------
(* Receiving. *)

(* The symbol of a rank. *)
LEMMA UnseqIs ==
  ASSUME column \in Columns, sent.inUse = inUse, NEW c \in 0..(nInUse - 1)
  PROVE  seqToUnseq(c) \in inUse /\ unseqToSeq(inUse, seqToUnseq(c)) = c
<1>1. inUse \subseteq Nat /\ IsFiniteSet(inUse)
  BY ColumnSizes
<1>2. \E u \in inUse : unseqToSeq(inUse, u) = c
  BY <1>1, SymbolRanks DEF nInUse
<1>3. seqToUnseq(c) = CHOOSE u \in inUse : unseqToSeq(inUse, u) = c
  BY DEF seqToUnseq
<1> QED BY <1>2, <1>3

(* What Receive reads, and what it writes of a run. *)
Tab == code.table[code.selector[NextGroup + 1]]
Sym == Tab.perm[Value(CodeLen(Tab)) - Tab.base[CodeLen(Tab)]]
Run == [k \in 1..(es + 1) |-> seqToUnseq(mtfa[mtfbase[0]])]

LEMMA ReceiveIs ==
  ASSUME Receive
  PROVE  /\ pc = "receive" /\ UNCHANGED <<column, encoder, sent>>
         /\ \/ pc' = "data_error"
            \/ /\ ~ (NextGroup >= Len(code.selector))
               /\ Value(CodeLen(Tab)) - Tab.base[CodeLen(Tab)] \in DOMAIN Tab.perm
               /\ groupNo' = NextGroup
               /\ groupPos' = (IF groupPos = 0 THEN BZ_G_SIZE ELSE groupPos) - 1
               /\ code' = code
               /\ \/ /\ Sym \in {BZ_RUNA, BZ_RUNB}
                     /\ es' = es + (Sym + 1) * N /\ N' = 2 * N
                     /\ UNCHANGED <<mtfa, mtfbase, out, pc>>
                  \/ /\ Sym = code.EOB /\ pc' = "done"
                     /\ es' = -1 /\ N' = 1 /\ UNCHANGED <<mtfa, mtfbase>>
                     /\ out' = out \o Run \o <<>>
                  \/ /\ Sym \notin {BZ_RUNA, BZ_RUNB} /\ Sym # code.EOB /\ pc' = pc
                     /\ es' = -1 /\ N' = 1
                     /\ out' = out \o Run \o <<seqToUnseq(Symbol(Sym - 1))>>
                     /\ mtfa' = Fronted(Sym - 1).a /\ mtfbase' = Fronted(Sym - 1).base
BY DEF Receive, Error, Tab, Sym, Run

(* The value that is read is one of the alphabet. *)
LEMMA SymIs ==
  ASSUME column \in Columns, TablesInv, ReceiveInv, ~ (NextGroup >= Len(code.selector)),
         Value(CodeLen(Tab)) - Tab.base[CodeLen(Tab)] \in DOMAIN Tab.perm
  PROVE  /\ NextGroup \in 0..(Len(code.selector) - 1) /\ Len(code.selector) \in Nat
         /\ Sym \in 0..(nInUse + 1) /\ code.EOB = nInUse + 1
<1>1. PICK n \in 0..BZ_MAX_SELECTORS : Listed(code.selector, n)
  BY DEF TablesInv
<1>2. n \in Nat /\ DOMAIN code.selector = 1..n /\ Len(code.selector) = n
  <2>1. n \in Nat
    BY Sizes
  <2> DEFINE cs == code.selector
  <2>2. Listed(cs, n)
    BY <1>1
  <2> HIDE DEF cs
  <2>3. DOMAIN cs = 1..n /\ Len(cs) = n
    BY <2>1, <2>2, ListedIs
  <2> QED BY <2>1, <2>3 DEF cs
<1>3. NextGroup \in 0..(n - 1)
  <2>1. groupNo \in -1..n /\ groupPos \in Int /\ (groupPos = 0 \/ groupNo >= 0)
    BY <1>2 DEF ReceiveInv
  <2>2. NextGroup \in Int /\ NextGroup >= 0
    BY <1>2, <2>1 DEF NextGroup
  <2> QED BY <1>2, <2>2
<1>4. NextGroup + 1 \in 1..n
  BY <1>2, <1>3
<1>5. Tab.perm \in [Alpha -> Alpha]
  <2>1. code.selector[NextGroup + 1] \in DOMAIN code.table
    BY <1>2, <1>4 DEF TablesInv
  <2> QED BY <2>1 DEF TablesInv, Tab
<1>6. Sym \in Alpha
  BY <1>5 DEF Sym
<1>7. Alpha = 0..(nInUse + 1) /\ code.EOB = nInUse + 1
  BY AlphaValues, ColumnSizes DEF TablesInv
<1> QED BY <1>2, <1>3, <1>6, <1>7

(* The list as numbers, and the order of what was written last. *)
ListIs(list, n) ==
  /\ DOMAIN list = 1..Size
  /\ \A k \in 1..Size : list[k] \in Nat /\ IF k <= n THEN list[k] < n ELSE list[k] = k - 1

LEMMA ListHolds ==
  ASSUME ReceiveInv
  PROVE  /\ ListIs(List, nInUse) /\ Recent(inUse, out, List, Size)
         /\ \A k \in 1..Size : List[k] = Symbol(k - 1)
<1>1. List = [k \in 1..Size |-> Symbol(k - 1)]
  BY DEF List, Size
<1>2. DOMAIN List = 1..Size
  BY <1>1
<1>3. ListIs(List, nInUse)
  BY <1>2 DEF ListIs, ReceiveInv
<1>4. Recent(inUse, out, List, Size)
  BY <1>2 DEF ReceiveInv, RecentFirst, Recent, LastAt, Last
<1> QED BY <1>1, <1>3, <1>4

(* A run of the front symbol, or none. *)
LEMMA RunIs ==
  ASSUME column \in Columns, inUse # {}, sent.inUse = inUse, ReceiveInv
  PROVE  /\ out \o Run \in Seq(inUse) /\ Recent(inUse, out \o Run, List, Size)
         /\ nInUse \in 1..Size
<1>0. nInUse \in Nat /\ Size \in Nat /\ MTFL_SIZE \in Nat \ {0} /\ nInUse \in 1..Size
  <2>1. inUse \subseteq Nat /\ IsFiniteSet(inUse) /\ nInUse \in Nat /\ nInUse <= Size
    BY ColumnSizes
  <2>2. nInUse # 0
    BY <2>1, FS_EmptySet DEF nInUse
  <2> QED BY <2>1, <2>2, Sizes
<1>1. /\ ListIs(List, nInUse) /\ Recent(inUse, out, List, Size)
      /\ \A k \in 1..Size : List[k] = Symbol(k - 1)
  BY ListHolds
<1> DEFINE u == seqToUnseq(mtfa[mtfbase[0]])
<1>2. mtfa[mtfbase[0]] = List[1]
  <2>1. 1 \in 1..Size /\ 1 - 1 = 0
    BY <1>0
  <2>2. 0 \div MTFL_SIZE = 0 /\ 0 % MTFL_SIZE = 0
    BY <1>0
  <2>3. List[1] = mtfa[mtfbase[0] + 0]
    BY <1>1, <2>1, <2>2 DEF Symbol
  <2>4. mtfbase[0] \in Nat
    <3>1. 0 \in Parts
      BY <1>0, <2>1, <2>2, Places
    <3> QED BY <3>1 DEF ReceiveInv, Held
  <2> QED BY <2>3, <2>4
<1>3. List[1] \in 0..(nInUse - 1)
  BY <1>0, <1>1 DEF ListIs
<1>4. u \in inUse /\ unseqToSeq(inUse, u) = List[1]
  BY <1>2, <1>3, UnseqIs
<1>5. Run = [k \in 1..(es + 1) |-> u] /\ es \in Int
  BY DEF Run, ReceiveInv
<1>5a. out \in Seq(inUse)
  BY DEF ReceiveInv
<1> HIDE DEF u
<1>6. CASE es + 1 <= 0
  <2>1. Run = <<>>
    BY <1>5, <1>6
  <2>2. out \o <<>> = out
    BY <1>5a
  <2> QED BY <1>0, <1>1, <1>5a, <2>1, <2>2
<1>7. CASE es + 1 > 0
  <2>1. Run \in Seq(inUse) /\ Len(Run) = es + 1 /\ \A i \in 1..Len(Run) : Run[i] = u
    <3>1. Run \in [1..(es + 1) -> inUse]
      BY <1>4, <1>5
    <3>2. es + 1 \in Nat
      BY <1>5, <1>7
    <3>3. Run \in Seq(inUse) /\ Len(Run) = es + 1
      BY <3>1, <3>2
    <3> QED BY <1>5, <3>3
  <2>2. Len(Run) # 0
    BY <1>5, <1>7, <2>1
  <2> DEFINE rn == Run
             t == out \o rn
  <2>2a. rn \in Seq(inUse) /\ Len(rn) # 0 /\ \A i \in 1..Len(rn) : rn[i] = u
    BY <2>1, <2>2
  <2> HIDE DEF rn
  <2>3. Len(t) \in Nat /\ WrittenLast(inUse, out, t, List[1], Len(t))
    BY <1>4, <1>5a, <2>2a, LastBehind
  <2>4. t \in Seq(inUse)
    BY <1>5a, <2>2a, ConcatProperties
  <2> HIDE DEF t
  <2>5. 1 \in 1..Size
    BY <1>0
  <2>6. MovedToFront(List, List, 1, Size)
    BY <1>0 DEF MovedToFront
  <2>7. \A i \in 1..Size : List[i] \in Nat
    BY <1>1 DEF ListIs
  <2>8. Recent(inUse, t, List, Size)
    BY <1>0, <1>1, <2>3, <2>5, <2>6, <2>7, RecentMoved
  <2> QED BY <1>0, <2>4, <2>8 DEF t, rn
<1> QED BY <1>0, <1>5, <1>6, <1>7

LEMMA ReceiveStep == IInv /\ Receive => IInv'
<1> SUFFICES ASSUME IInv, Receive PROVE IInv'
  OBVIOUS
<1>0. /\ pc = "receive" /\ UNCHANGED <<column, encoder, sent>>
      /\ column' = column /\ at' = at /\ zPend' = zPend /\ mtfv' = mtfv /\ selector' = selector
  BY ReceiveIs DEF encoder
<1>1. column \in Columns /\ TablesInv /\ ReceiveInv /\ sent.inUse = inUse
  BY <1>0 DEF IInv, EncoderInv, DecoderInv
<1>2. inUse' = inUse /\ EOB' = EOB /\ Alpha' = Alpha /\ nInUse' = nInUse
  BY <1>0, <1>1, ColumnKept
<1>3. pc' # "mtf" => EncoderInv'
  BY <1>0, EncoderKept DEF IInv
<1>4. CASE pc' = "data_error"
  <2>1. DecoderInv'
    BY <1>4 DEF DecoderInv
  <2> QED BY <1>3, <1>4, <2>1 DEF IInv
<1>5. ASSUME /\ ~ (NextGroup >= Len(code.selector))
             /\ Value(CodeLen(Tab)) - Tab.base[CodeLen(Tab)] \in DOMAIN Tab.perm,
             groupNo' = NextGroup, groupPos' = (IF groupPos = 0 THEN BZ_G_SIZE ELSE groupPos) - 1,
             code' = code, pc' \in {"receive", "done"},
             es' \in Int, N' \in Nat, out' \in Seq(inUse), Held(mtfa', mtfbase'),
             ListIs(List', nInUse), Recent(inUse, out', List', Size)
      PROVE  IInv'
  <2>1. TablesInv'
    BY <1>1, <1>2, <1>5 DEF TablesInv
  <2>2. groupNo' \in -1..Len(code'.selector) /\ groupPos' \in Int /\ (groupPos' = 0 \/ groupNo' >= 0)
    <3>1. NextGroup \in 0..(Len(code.selector) - 1) /\ Len(code.selector) \in Nat
      BY <1>1, <1>5, SymIs
    <3>2. groupPos \in Int /\ BZ_G_SIZE \in Int
      BY <1>1, Sizes DEF ReceiveInv
    <3> QED BY <1>5, <3>1, <3>2
  <2>3. RecentFirst'
    <3>1. DOMAIN List' = 1..Size
      BY <1>5 DEF ListIs
    <3> QED BY <1>2, <1>5, <3>1 DEF RecentFirst, Recent, LastAt, Last
  <2>4. \A k \in 1..Size : List'[k] \in Nat /\ IF k <= nInUse THEN List'[k] < nInUse ELSE List'[k] = k - 1
    BY <1>5 DEF ListIs
  <2>5. ReceiveInv'
    BY <1>2, <1>5, <2>2, <2>3, <2>4 DEF ReceiveInv
  <2>6. DecoderInv'
    BY <1>0, <1>1, <1>2, <1>5, <2>1, <2>5 DEF DecoderInv
  <2> QED BY <1>3, <1>5, <2>6 DEF IInv
<1>6. CASE pc' # "data_error"
  <2>0. /\ ~ (NextGroup >= Len(code.selector))
        /\ Value(CodeLen(Tab)) - Tab.base[CodeLen(Tab)] \in DOMAIN Tab.perm
        /\ groupNo' = NextGroup
        /\ groupPos' = (IF groupPos = 0 THEN BZ_G_SIZE ELSE groupPos) - 1
        /\ code' = code
    BY <1>6, ReceiveIs
  <2>1. Sym \in 0..(nInUse + 1) /\ code.EOB = nInUse + 1 /\ nInUse \in Nat
    BY <1>1, <2>0, SymIs, ColumnSizes
  <2>2. ListIs(List, nInUse) /\ Recent(inUse, out, List, Size) /\ \A k \in 1..Size : List[k] = Symbol(k - 1)
    BY <1>1, ListHolds
  <2>3. /\ out \o Run \in Seq(inUse) /\ Recent(inUse, out \o Run, List, Size)
        /\ nInUse \in 1..Size
    BY <1>1, RunIs DEF TablesInv
  <2>4. es \in Int /\ N \in Nat /\ Held(mtfa, mtfbase) /\ out \in Seq(inUse)
    BY <1>1 DEF ReceiveInv
  <2>5. CASE Sym \in {BZ_RUNA, BZ_RUNB} /\ es' = es + (Sym + 1) * N /\ N' = 2 * N
             /\ UNCHANGED <<mtfa, mtfbase, out, pc>>
    <3>1. es' \in Int /\ N' \in Nat
      <4>1. \A a, b, c \in Int : a + (b + 1) * c \in Int
        OBVIOUS
      <4> QED BY <2>1, <2>4, <2>5, <4>1
    <3>2. List' = List
      BY <2>5 DEF List, Symbol
    <3> QED BY <1>0, <1>5, <2>0, <2>2, <2>4, <2>5, <3>1, <3>2
  <2>6. CASE Sym = code.EOB /\ pc' = "done" /\ es' = -1 /\ N' = 1 /\ UNCHANGED <<mtfa, mtfbase>>
             /\ out' = out \o Run \o <<>>
    <3>1. out' = out \o Run
      <4> DEFINE t == out \o Run
      <4>1. t \in Seq(inUse) /\ out' = t \o <<>>
        BY <2>3, <2>6
      <4> HIDE DEF t
      <4>2. out' = t
        BY <4>1
      <4> QED BY <4>2 DEF t
    <3>2. List' = List
      BY <2>6 DEF List, Symbol
    <3> QED BY <1>5, <2>0, <2>2, <2>3, <2>4, <2>6, <3>1, <3>2
  <2>7. CASE /\ Sym \notin {BZ_RUNA, BZ_RUNB} /\ Sym # code.EOB /\ pc' = pc
             /\ es' = -1 /\ N' = 1
             /\ out' = out \o Run \o <<seqToUnseq(Symbol(Sym - 1))>>
             /\ mtfa' = Fronted(Sym - 1).a /\ mtfbase' = Fronted(Sym - 1).base
    <3> DEFINE k == Sym
               u == seqToUnseq(Symbol(Sym - 1))
               s == out \o Run
               t == s \o <<u>>
    <3>1. k \in 2..nInUse /\ k \in 1..Size /\ k - 1 \in 0..(Size - 1)
      <4>1. k \in 0..(nInUse + 1) /\ k \notin {0, 1} /\ k # nInUse + 1
        BY <2>1, <2>7 DEF BZ_RUNA, BZ_RUNB
      <4> HIDE DEF k
      <4>2. k \in 2..nInUse
        BY <2>1, <4>1
      <4>3. nInUse <= Size /\ Size \in Nat
        BY <2>3, Sizes
      <4> QED BY <2>1, <4>2, <4>3
    <3>2. Symbol(Sym - 1) = List[k] /\ List[k] \in 0..(nInUse - 1)
      <4>1. List[k] \in Nat /\ List[k] < nInUse
        BY <2>2, <3>1 DEF ListIs
      <4> QED BY <2>1, <2>2, <3>1, <4>1
    <3>3. u \in inUse /\ unseqToSeq(inUse, u) = List[k]
      BY <1>1, <3>2, UnseqIs
    <3>4. /\ Held(mtfa', mtfbase')
          /\ \A i \in 0..(Size - 1) :
               At(mtfa', mtfbase', i) =
                 IF i = 0 THEN Symbol(k - 1) ELSE IF i <= k - 1 THEN Symbol(i - 1) ELSE Symbol(i)
      BY <2>4, <2>7, <3>1, FrontedIs
    <3> HIDE DEF k, u
    <3>5. List' = [i \in 1..Size |-> At(mtfa', mtfbase', i - 1)]
      BY DEF List, Symbol, At, Size
    <3>6. \A i \in 1..Size : List'[i] = IF i = 1 THEN List[k] ELSE IF i <= k THEN List[i - 1] ELSE List[i]
      <4> SUFFICES ASSUME NEW i \in 1..Size
                   PROVE  List'[i] = IF i = 1 THEN List[k] ELSE IF i <= k THEN List[i - 1] ELSE List[i]
        OBVIOUS
      <4>1. i - 1 \in 0..(Size - 1) /\ (i # 1 => i - 1 \in 1..Size) /\ (i - 1 = 0 <=> i = 1)
            /\ (i - 1 <= k - 1 <=> i <= k)
        BY <3>1, Sizes
      <4>2. List'[i] = IF i - 1 = 0 THEN Symbol(k - 1)
                       ELSE IF i - 1 <= k - 1 THEN Symbol((i - 1) - 1) ELSE Symbol(i - 1)
        BY <3>4, <3>5, <4>1
      <4>3. List[k] = Symbol(k - 1) /\ List[i] = Symbol(i - 1)
            /\ (i # 1 => List[i - 1] = Symbol((i - 1) - 1))
        BY <2>2, <3>1, <4>1
      <4> QED BY <4>1, <4>2, <4>3
    <3>7. ListIs(List', nInUse)
      <4>1. DOMAIN List' = 1..Size
        BY <3>5
      <4>2. ASSUME NEW i \in 1..Size
            PROVE  List'[i] \in Nat /\ IF i <= nInUse THEN List'[i] < nInUse ELSE List'[i] = i - 1
        <5>0. \A j \in 1..Size : List[j] \in Nat /\ IF j <= nInUse THEN List[j] < nInUse ELSE List[j] = j - 1
          BY <2>2 DEF ListIs
        <5>1. List[k] \in Nat /\ List[k] < nInUse
          BY <3>1, <5>0
        <5>2. i # 1 => i - 1 \in 1..Size
          BY Sizes
        <5>3. i # 1 => List[i - 1] \in Nat /\ IF i - 1 <= nInUse THEN List[i - 1] < nInUse ELSE List[i - 1] = (i - 1) - 1
          BY <5>0, <5>2
        <5>4. List[i] \in Nat /\ IF i <= nInUse THEN List[i] < nInUse ELSE List[i] = i - 1
          BY <5>0
        <5>5. List'[i] = IF i = 1 THEN List[k] ELSE IF i <= k THEN List[i - 1] ELSE List[i]
          BY <3>6
        <5>6. nInUse \in Nat /\ nInUse >= 1 /\ k <= nInUse /\ k \in Nat /\ i \in Nat
          BY <2>1, <2>3, <3>1, Sizes
        <5> QED BY <5>1, <5>3, <5>4, <5>5, <5>6
      <4> QED BY <4>1, <4>2 DEF ListIs
    <3>8. s \in Seq(inUse) /\ Recent(inUse, s, List, Size) /\ out' = t
      BY <2>3, <2>7 DEF u
    <3> HIDE DEF s
    <3>9. /\ t \in Seq(inUse) /\ Len(t) \in Nat
          /\ WrittenLast(inUse, s, t, List[k], Len(t))
      <4> DEFINE rn == <<u>>
      <4>1. rn \in Seq(inUse) /\ Len(rn) # 0 /\ \A i \in 1..Len(rn) : rn[i] = u
        BY <3>3
      <4> HIDE DEF rn
      <4>2. Len(s \o rn) \in Nat /\ WrittenLast(inUse, s, s \o rn, List[k], Len(s \o rn))
        BY <3>3, <3>8, <4>1, LastBehind
      <4>3. s \o rn \in Seq(inUse)
        BY <3>8, <4>1, ConcatProperties
      <4> QED BY <4>2, <4>3 DEF rn
    <3> HIDE DEF t
    <3>10. Recent(inUse, t, List', Size)
      <4> DEFINE list2 == List'
      <4>1. \A i \in 1..Size : List[i] \in Nat
        BY <2>2 DEF ListIs
      <4>2. MovedToFront(List, list2, k, Size)
        BY <3>6 DEF MovedToFront
      <4> HIDE DEF list2
      <4>3. Size \in Nat
        BY Sizes
      <4>4. Recent(inUse, t, list2, Size)
        BY <3>1, <3>8, <3>9, <4>1, <4>2, <4>3, RecentMoved
      <4> QED BY <4>4 DEF list2
    <3>11. es' \in Int /\ N' \in Nat /\ pc' \in {"receive", "done"}
      BY <1>0, <2>7
    <3> QED BY <1>5, <2>0, <3>4, <3>7, <3>8, <3>9, <3>10, <3>11
  <2> QED BY <1>6, <2>5, <2>6, <2>7, ReceiveIs
<1> QED BY <1>4, <1>6

------------------------------------------------------------------------------
(* The invariant, and what follows. *)

LEMMA StutterStep == IInv /\ UNCHANGED vars => IInv'
<1> SUFFICES ASSUME IInv, UNCHANGED vars PROVE IInv'
  OBVIOUS
<1>1. /\ column' = column /\ pc' = pc /\ at' = at /\ yy' = yy /\ zPend' = zPend /\ mtfv' = mtfv
      /\ selector' = selector /\ sent' = sent /\ code' = code /\ groupNo' = groupNo
      /\ groupPos' = groupPos /\ es' = es /\ N' = N /\ mtfa' = mtfa /\ mtfbase' = mtfbase /\ out' = out
  BY DEF vars, encoder, decoder
<1>2. nblock' = nblock /\ inUse' = inUse /\ nInUse' = nInUse /\ EOB' = EOB /\ Alpha' = Alpha /\ nMTF' = nMTF
      /\ List' = List
  BY <1>1, ColumnKept DEF nMTF, List, Symbol
<1>3. EncoderInv'
  BY <1>1, <1>2 DEF IInv, EncoderInv
<1>4. RecentFirst' <=> RecentFirst
  BY <1>1, <1>2 DEF RecentFirst, LastAt
<1>5. TablesInv => TablesInv'
  BY <1>1, <1>2 DEF TablesInv
<1>6. ReceiveInv => ReceiveInv'
  BY <1>1, <1>2, <1>4 DEF ReceiveInv
<1>7. DecoderInv'
  BY <1>1, <1>2, <1>5, <1>6 DEF IInv, DecoderInv
<1> QED BY <1>1, <1>3, <1>7 DEF IInv

(* Every reachable state of the two functions satisfies the invariant.      *)
THEOREM Inductive == Spec => []IInv
<1>1. IInv /\ [Next]_vars => IInv'
  <2> SUFFICES ASSUME IInv, [Next]_vars PROVE IInv'
    OBVIOUS
  <2> QED
    BY MtfValueStep, MtfEndStep, TableSteps, ChooseTablesStep, SendStep, ReceiveHeaderStep, ReceiveStep,
       StutterStep DEF Next
<1> QED BY InitHolds, <1>1, PTL DEF Spec

LEMMA ArraysFollow == IInv => ArraysHold
<1> SUFFICES ASSUME IInv PROVE ArraysHold
  OBVIOUS
<1>1. ValuesBehind
  <2> SUFFICES ASSUME pc = "mtf", at < nblock PROVE nMTF <= at
    BY DEF ValuesBehind
  <2>1. nMTF + zPend <= at /\ mtfv \in Seq(Alpha) /\ zPend \in Nat /\ at \in 0..nblock /\ column \in Columns
    BY DEF IInv, EncoderInv
  <2>2. nMTF \in Nat /\ at \in Nat
    BY <2>1, LenProperties, ColumnSizes DEF nMTF
  <2> QED BY <2>1, <2>2
<1>2. SelectorsFit
  <2>1. PICK n \in 0..BZ_MAX_SELECTORS : Listed(selector, n)
    BY DEF IInv, EncoderInv
  <2>2. n \in Nat
    BY Sizes
  <2>3. Len(selector) = n
    BY <2>1, <2>2, ListedIs
  <2> QED BY <2>1, <2>3, Sizes DEF SelectorsFit
<1>3. pc = "mtf" => {yy[k] : k \in DOMAIN yy} = 0..(nInUse - 1)
  <2> SUFFICES ASSUME pc = "mtf" PROVE {yy[k] : k \in DOMAIN yy} = 0..(nInUse - 1)
    OBVIOUS
  <2> DEFINE V == 0..(nInUse - 1)
  <2>1. yy \in Seq(V) /\ Len(yy) = nInUse /\ \A v \in V : \E i \in 1..nInUse : yy[i] = v
    BY DEF IInv, EncoderInv, Whole
  <2> HIDE DEF V
  <2>2. DOMAIN yy = 1..nInUse /\ \A i \in 1..nInUse : yy[i] \in V
    BY <2>1, LenProperties, ElementOfSeq
  <2>3. {yy[k] : k \in DOMAIN yy} = V
    BY <2>1, <2>2
  <2> QED BY <2>3 DEF V
<1>4. pc \in {"receive", "done"} => PartsApart /\ RecentFirst
  <2> SUFFICES ASSUME pc \in {"receive", "done"} PROVE PartsApart /\ RecentFirst
    OBVIOUS
  <2>1. Held(mtfa, mtfbase) /\ RecentFirst
    BY DEF IInv, DecoderInv, ReceiveInv
  <2>2. PartsApart
    BY <2>1, HeldPlaces DEF PartsApart, Held, Parts
  <2> QED BY <2>1, <2>2
<1> QED BY <1>1, <1>2, <1>3, <1>4 DEF ArraysHold, ListsHold

(* What both sides keep in arrays stays in them, whatever is coded and      *)
(* however large the arrays: the encoder's values are behind the entries    *)
(* still to be read, its selectors fit, and the list of the decoder, in     *)
(* parts that move about and are gathered in mtfa, has first what was       *)
(* written last.                                                            *)
THEOREM ArraysAlwaysHold == Spec => []ArraysHold
BY Inductive, ArraysFollow, PTL
=============================================================================
