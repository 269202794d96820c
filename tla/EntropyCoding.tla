----------------------------- MODULE EntropyCoding -----------------------------
(***************************************************************************)
(* The coding of a sorted block (compress.c, huffman.c) and its decoding   *)
(* (decompress.c): move to front with coded runs, two to six Huffman       *)
(* tables chosen per group of 50 values, and back.                         *)
(*                                                                         *)
(* The input is the last column of the sorted block. What is sent is a     *)
(* record of the fields of a block; only the Huffman codes are bits, for   *)
(* there the decoder finds the boundaries itself. Lengths and selectors    *)
(* travel as the numbers their unary codes stand for. A decoder that waits *)
(* for input is left to DecompressStream: here all bits are there. Reading *)
(* an array outside of its bounds is an error of the evaluation.           *)
(***************************************************************************)
EXTENDS Integers, Sequences, FiniteSets
LOCAL INSTANCE SequencesExt
LOCAL INSTANCE TLC
LOCAL INSTANCE FiniteSetsExt

CONSTANTS
  Columns,            \* the last columns to code: functions on 0..nblock-1
  Symbols,            \* 0..255
  BZ_G_SIZE, BZ_N_ITERS, BZ_N_GROUPS,   \* 50, 4, 6
  GroupLimits,        \* <<200, 600, 1200, 2400>>
  BZ_LESSER_ICOST, BZ_GREATER_ICOST,    \* 0, 15
  maxLen,             \* 17: what the encoder allows
  LongestCode,        \* 20: what the decoder allows
  BZ_MAX_SELECTORS, nblockMAX, MaxN,    \* 18002, 900000, 2 * 1024 * 1024
  MTFA_SIZE, MTFL_SIZE,                 \* 4096, 16
  RoundUp             \* how many selectors another program may add (external)

(* A column ranges over some symbols; its values and the end of block fit   *)
(* in BZ_MAX_SELECTORS groups. mtfa has room for more than the symbols,     *)
(* which make whole parts.                                                  *)
ASSUME ColumnsAssumption ==
  \A c \in Columns :
    LET n == Cardinality(DOMAIN c)
    IN  n \in Nat /\ c \in [0..(n - 1) -> Symbols] /\ n + 1 <= BZ_G_SIZE * BZ_MAX_SELECTORS
ASSUME SizesAssumption ==
  /\ Symbols \subseteq Nat /\ IsFiniteSet(Symbols)
  /\ {BZ_G_SIZE, MTFL_SIZE} \subseteq Nat \ {0}
  /\ {BZ_N_GROUPS, LongestCode, BZ_MAX_SELECTORS, MTFA_SIZE, RoundUp} \subseteq Nat
  /\ Cardinality(Symbols) % MTFL_SIZE = 0 /\ Cardinality(Symbols) < MTFA_SIZE

BZ_RUNA == 0
BZ_RUNB == 1

VARIABLES
  column, pc,
  yy, at, zPend, mtfv,     \* generateMTFValues; at is the next of the column
  len, rfreq, selector,    \* sendMTFValues; tables are numbered from 0
  iter, weight, table,     \* and BZ2_hbMakeCodeLengths, for one table after another
  sent,                    \* the block as sent
  code,                    \* the decoder's selectors and tables
  bits, groupNo, groupPos, es, N, mtfa, mtfbase, out

encoder == <<yy, at, zPend, mtfv, len, rfreq, selector, iter, weight, table>>
decoder == <<code, bits, groupNo, groupPos, es, N, mtfa, mtfbase, out>>
vars == <<column, pc, encoder, sent, decoder>>

nblock == Cardinality(DOMAIN column)
inUse == {column[i] : i \in DOMAIN column}
nInUse == Cardinality(inUse)
EOB == nInUse + 1
Alpha == 0..EOB                 \* alphaSize = nInUse + 2
nMTF == Len(mtfv)

Init ==
  /\ column \in Columns /\ pc = "mtf"
  /\ yy = [k \in 1..nInUse |-> k - 1] /\ at = 0 /\ zPend = 0 /\ mtfv = <<>>
  /\ len = <<>> /\ rfreq = <<>> /\ selector = <<>> /\ iter = 0 /\ weight = <<>> /\ table = 0
  /\ sent = <<>>
  /\ code = <<>> /\ bits = <<>> /\ groupNo = -1 /\ groupPos = 0
  /\ es = -1 /\ N = 1 /\ mtfa = <<>> /\ mtfbase = <<>> /\ out = <<>>

------------------------------------------------------------------------------
(* Move to front and runs.                                                  *)
ToFront(s, k) == [i \in DOMAIN s |-> IF i = 1 THEN s[k] ELSE IF i <= k THEN s[i - 1] ELSE s[i]]
unseqToSeq(inuse, c) == Cardinality({u \in inuse : u < c})

(* A run of the front symbol as digits 1 and 2 of base two. *)
RunCode(z) ==
  LET digits[n \in 0..z] ==
        LET digit == IF (n - 1) % 2 = 1 THEN BZ_RUNB ELSE BZ_RUNA
        IN  IF n = 0 THEN <<>> ELSE <<digit>> \o (IF n - 1 < 2 THEN <<>> ELSE digits[(n - 1) \div 2])
  IN  digits[z]

(* One value of the column. In the code the values overwrite arr1 from its  *)
(* start while its entries are read.                                        *)
MtfValue ==
  /\ pc = "mtf" /\ at < nblock
  /\ LET ll == unseqToSeq(inUse, column[at])
         j  == CHOOSE k \in DOMAIN yy : yy[k] = ll
     IN  IF j = 1 THEN zPend' = zPend + 1 /\ UNCHANGED <<yy, mtfv>>
         ELSE /\ zPend' = 0
              /\ mtfv' = mtfv \o RunCode(zPend) \o <<j>>
              /\ yy' = ToFront(yy, j)
  /\ at' = at + 1
  /\ UNCHANGED <<column, pc, len, rfreq, selector, iter, weight, table, sent, decoder>>

MtfEnd ==
  /\ pc = "mtf" /\ at = nblock
  /\ mtfv' = mtfv \o RunCode(zPend) \o <<EOB>> /\ zPend' = 0
  /\ pc' = "tables"
  /\ UNCHANGED <<column, yy, at, len, rfreq, selector, iter, weight, table, sent, decoder>>

------------------------------------------------------------------------------
(* The first tables: each makes the values of one range of the alphabet     *)
(* cheap, the ranges about equally frequent.                                *)
nGroups == 2 + Cardinality({k \in DOMAIN GroupLimits : nMTF >= GroupLimits[k]})
Tables  == 0..(nGroups - 1)
mtfFreq(v) == Cardinality({k \in 1..nMTF : mtfv[k] = v})
FreqOf(lo, hi) == Cardinality({k \in 1..nMTF : mtfv[k] \in lo..hi})

(* The last value of the range from gs on that is given to part nPart.      *)
RangeEnd(gs, nPart, remF) ==
  LET ge == Min({e \in (gs - 1)..EOB : FreqOf(gs, e) >= remF \div nPart} \cup {EOB})
  IN  IF ge > gs /\ nPart # nGroups /\ nPart # 1 /\ (nGroups - nPart) % 2 = 1 THEN ge - 1 ELSE ge

InitialTables ==
  /\ pc = "tables"
  /\ LET one(acc, nPart) ==
           LET ge == RangeEnd(acc.gs, nPart, acc.remF) IN
           [gs |-> ge + 1, remF |-> acc.remF - FreqOf(acc.gs, ge),
            len |-> [acc.len EXCEPT ![nPart - 1] =
                       [v \in Alpha |-> IF v \in acc.gs..ge THEN BZ_LESSER_ICOST ELSE BZ_GREATER_ICOST]]]
     IN  len' = FoldLeft(one, [gs |-> 0, remF |-> nMTF, len |-> [t \in Tables |-> <<>>]],
                         [k \in 1..nGroups |-> nGroups - k + 1]).len
  /\ pc' = "pass"
  /\ UNCHANGED <<column, yy, at, zPend, mtfv, rfreq, selector, iter, weight, table, sent, decoder>>

nSelectors == (nMTF + BZ_G_SIZE - 1) \div BZ_G_SIZE
Group(g) == SubSeq(mtfv, (g - 1) * BZ_G_SIZE + 1, Min({g * BZ_G_SIZE, nMTF}))
Cost(t, s) == FoldLeft(LAMBDA c, v : c + len[t][v], 0, s)

(* The first of the cheapest tables for a group. *)
BestTable(s) == Min({t \in Tables : \A u \in Tables : Cost(t, s) <= Cost(u, s)})

(* Weights carry the depth of their tree in the low 8 bits. *)
InitWeights(freq) == [k \in 1..(EOB + 1) |-> (IF freq[k - 1] = 0 THEN 1 ELSE freq[k - 1]) * 256]

(* A pass: a table for each group, and how often it codes each value. *)
ChooseTables ==
  /\ pc = "pass"
  /\ \E best \in {[g \in 1..nSelectors |-> BestTable(Group(g))]} :
       LET coded(t) == {k \in 1..nMTF : best[(k - 1) \div BZ_G_SIZE + 1] = t}
       IN  /\ selector' = best
           /\ rfreq' = [t \in Tables |-> [v \in Alpha |-> Cardinality({k \in coded(t) : mtfv[k] = v})]]
  /\ table' = 0 /\ weight' = InitWeights(rfreq'[0])
  /\ pc' = "lengths"
  /\ UNCHANGED <<column, yy, at, zPend, mtfv, len, iter, sent, decoder>>

------------------------------------------------------------------------------
(* BZ2_hbMakeCodeLengths. The heap is a sequence of nodes.                  *)
Swap(h, x, y) == [h EXCEPT ![x] = h[y], ![y] = h[x]]

UpHeap(heap, z, w) ==
  LET up[h \in Seq(Nat), k \in Nat] ==
        IF k > 1 /\ w[h[k]] < w[h[k \div 2]] THEN up[Swap(h, k, k \div 2), k \div 2] ELSE h
  IN  up[heap, z]

DownHeap_Left(heap, z, w) ==  \* mutant: the left child is always compared
  LET down[h \in Seq(Nat), k \in Nat] ==
        IF 2 * k > Len(h) \/ w[h[k]] < w[h[2 * k]] THEN h ELSE down[Swap(h, k, 2 * k), 2 * k]
  IN  down[heap, z]
DownHeap(heap, z, w) ==
  LET child(h, k) == IF 2 * k < Len(h) /\ w[h[2 * k + 1]] < w[h[2 * k]] THEN 2 * k + 1 ELSE 2 * k
      down[h \in Seq(Nat), k \in Nat] ==
        IF 2 * k > Len(h) \/ w[h[k]] < w[h[child(h, k)]] THEN h
        ELSE down[Swap(h, k, child(h, k)), child(h, k)]
  IN  down[heap, z]

WithoutTop(heap, w) ==
  LET n == Len(heap)
  IN  IF n = 1 THEN <<>> ELSE DownHeap(<<heap[n]>> \o SubSeq(heap, 2, n - 1), 1, w)

AddWeights(w1, w2) ==
  256 * (w1 \div 256 + w2 \div 256) + 1 + Max({w1 % 256, w2 % 256})

(* The two lightest trees become one. *)
Merge(tree, node) ==
  LET n1 == tree.heap[1]
      h1 == WithoutTop(tree.heap, tree.weight)
      n2 == h1[1]
      w  == Append(tree.weight, AddWeights(tree.weight[n1], tree.weight[n2]))
  IN  [heap   |-> UpHeap(Append(WithoutTop(h1, tree.weight), node), Len(h1), w),
       weight |-> w,
       parent |-> [k \in 1..node |-> IF k = node THEN -1 ELSE IF k \in {n1, n2} THEN node ELSE tree.parent[k]]]

Parents(w0) ==
  LET n == Len(w0)
      start == [heap   |-> FoldLeft(LAMBDA h, k : UpHeap(Append(h, k), k, w0), <<>>, [k \in 1..n |-> k]),
                weight |-> w0, parent |-> [k \in 1..n |-> -1]]
  IN  FoldLeft(Merge, start, [k \in 1..(n - 1) |-> n + k]).parent

Depth(parent, k) == LET up[j \in Int] == IF parent[j] < 0 THEN 0 ELSE 1 + up[parent[j]] IN up[k]
Depths(w0) == LET parent == Parents(w0) IN [v \in Alpha |-> Depth(parent, v + 1)]

TooLong(lengths) == \E v \in Alpha : lengths[v] > maxLen

Halved_Short(w) ==  \* mutant: the loop stops two short of the end
  [k \in DOMAIN w |-> IF k < Len(w) - 1 THEN (1 + (w[k] \div 256) \div 2) * 256 ELSE w[k]]
Halved(w) == [k \in DOMAIN w |-> (1 + (w[k] \div 256) \div 2) * 256]

(* One turn of its loop, for the table at hand. *)
MakeCodeLengths ==
  /\ pc = "lengths"
  /\ \E lengths \in {Depths(weight)} :
       /\ len' = [len EXCEPT ![table] = lengths]
       /\ IF TooLong(lengths) THEN weight' = Halved(weight) /\ UNCHANGED <<table, iter, pc>>
          ELSE IF table + 1 < nGroups
               THEN table' = table + 1 /\ weight' = InitWeights(rfreq[table + 1]) /\ UNCHANGED <<iter, pc>>
               ELSE /\ iter' = iter + 1 /\ pc' = IF iter + 1 < BZ_N_ITERS THEN "pass" ELSE "send"
                    /\ UNCHANGED <<table, weight>>
  /\ UNCHANGED <<column, yy, at, zPend, mtfv, rfreq, selector, sent, decoder>>

------------------------------------------------------------------------------
MinOf(l) == Min({l[v] : v \in Alpha})
MaxOf(l) == Max({l[v] : v \in Alpha})
CountOf(l, n) == Cardinality({v \in Alpha : l[v] = n})

(* BZ2_hbAssignCodes: the codes of each length in order, those of the next  *)
(* length from twice the number that follows.                               *)
FirstCode(l) ==
  LET vec[n \in Nat] == IF n <= MinOf(l) THEN 0 ELSE 2 * (vec[n - 1] + CountOf(l, n - 1)) IN vec
AssignCodes_NoShift(l) ==  \* mutant: vec is not doubled for a longer length
  [v \in Alpha |-> Cardinality({u \in Alpha : l[u] < l[v] \/ (u < v /\ l[u] = l[v])})]
AssignCodes(l) ==
  LET vec == FirstCode(l)
  IN  [v \in Alpha |-> vec[l[v]] + Cardinality({u \in Alpha : u < v /\ l[u] = l[v]})]

Bits(n, c) == [k \in 1..n |-> (c \div 2 ^ (n - k)) % 2]

(* Where each selector is in the list that the ones before it have left.    *)
SelectorsToFront(s) ==
  LET place(pos, t) == CHOOSE k \in DOMAIN pos : pos[k] = t
      list[g \in 0..Len(s)] ==
        IF g = 0 THEN [k \in 1..nGroups |-> k - 1] ELSE ToFront(list[g - 1], place(list[g - 1], s[g]))
  IN  [g \in 1..Len(s) |-> place(list[g - 1], s[g]) - 1]

(* What is sent. Another program may send selectors that no group uses.     *)
Send ==
  /\ pc = "send"
  /\ \E more \in 0..RoundUp :
       LET codes == [t \in Tables |-> AssignCodes(len[t])]
           coded(k) == LET t == selector[(k - 1) \div BZ_G_SIZE + 1] IN Bits(len[t][mtfv[k]], codes[t][mtfv[k]])
       IN  sent' = [inUse |-> inUse, nGroups |-> nGroups,
                    selectorMtf |-> SelectorsToFront(selector) \o [k \in 1..more |-> 0],
                    len |-> len,
                    codes |-> FlattenSeq([k \in 1..nMTF |-> coded(k)])]
  /\ pc' = "header"
  /\ UNCHANGED <<column, encoder, decoder>>

------------------------------------------------------------------------------
(* BZ2_hbCreateDecodeTables: perm orders the values by length, limit is the *)
(* last code of a length, base what is taken from a code to find it in perm.*)
Shorter(l, n) == Cardinality({v \in Alpha : l[v] < n})
CreateDecodeTables(l) ==
  LET lo == MinOf(l)  hi == MaxOf(l)
      limit == [n \in 0..(LongestCode + 2) |->
                  IF n \in lo..hi THEN FirstCode(l)[n] + CountOf(l, n) - 1 ELSE 0]
  IN  [perm  |-> [k \in 0..EOB |->
                    CHOOSE v \in Alpha :
                      k = Shorter(l, l[v]) + Cardinality({u \in Alpha : u < v /\ l[u] = l[v]})],
       limit |-> limit,
       base  |-> [n \in 0..(LongestCode + 2) |->
                    IF n \in (lo + 1)..hi THEN 2 * (limit[n - 1] + 1) - Shorter(l, n) ELSE Shorter(l, n)],
       minLen |-> lo]

SelectorsBack(s, groups) ==
  LET list[g \in 0..Len(s)] ==
        IF g = 0 THEN [k \in 1..groups |-> k - 1] ELSE ToFront(list[g - 1], s[g] + 1)
  IN  [g \in 1..Len(s) |-> list[g - 1][s[g] + 1]]

Error == pc' = "data_error" /\ UNCHANGED <<column, encoder, sent, decoder>>

BadHeader ==
  LET tables == 0..(sent.nGroups - 1) IN
  \/ sent.inUse = {}
  \/ sent.nGroups \notin 2..BZ_N_GROUPS
  \/ sent.selectorMtf = <<>> \/ \E k \in DOMAIN sent.selectorMtf : sent.selectorMtf[k] \notin tables
  \/ \E t \in tables, v \in Alpha : sent.len[t][v] \notin 1..LongestCode

Lists == Cardinality(Symbols) \div MTFL_SIZE

(* The mapping, the selectors, of which those too many are ignored, the     *)
(* coding tables, and the lists of symbols at the end of mtfa.              *)
ReceiveHeader ==
  /\ pc = "header"
  /\ IF BadHeader THEN Error
     ELSE /\ code' = [selector |-> SelectorsBack(SubSeq(sent.selectorMtf, 1,
                                                        Min({Len(sent.selectorMtf), BZ_MAX_SELECTORS})),
                                                 sent.nGroups),
                      table |-> [t \in 0..(sent.nGroups - 1) |-> CreateDecodeTables(sent.len[t])],
                      EOB |-> Cardinality(sent.inUse) + 1]
          /\ bits' = sent.codes
          /\ mtfa' = [k \in 0..(MTFA_SIZE - 1) |->
                        IF k >= MTFA_SIZE - Lists * MTFL_SIZE THEN k - (MTFA_SIZE - Lists * MTFL_SIZE) ELSE -1]
          /\ mtfbase' = [l \in 0..(Lists - 1) |-> MTFA_SIZE - (Lists - l) * MTFL_SIZE]
          /\ pc' = "receive"
          /\ UNCHANGED <<column, encoder, sent, groupNo, groupPos, es, N, out>>

(* GET_MTF_VAL: the table of the group, then bits until they are no more    *)
(* than the limit of their number.                                          *)
NextGroup == IF groupPos = 0 THEN groupNo + 1 ELSE groupNo
Value(n) == FoldLeft(LAMBDA x, b : 2 * x + b, 0, SubSeq(bits, 1, n))
CodeLen(tab) == Min({n \in tab.minLen..LongestCode : n <= Len(bits) /\ Value(n) <= tab.limit[n]}
                      \cup {LongestCode + 1})

(* The list of symbols is kept in Lists parts, each with room to its left   *)
(* to grow; when the first has none left all are moved to the right end.    *)
ShiftUp(a, lo, hi) == [k \in DOMAIN a |-> IF k \in (lo + 1)..hi THEN a[k - 1] ELSE a[k]]

Gathered(m, k) ==
  LET place == k - (MTFA_SIZE - Lists * MTFL_SIZE)
      l == place \div MTFL_SIZE  off == place % MTFL_SIZE
  IN  [a    |-> [m.a EXCEPT ![k] = m.a[m.base[l] + off]],
       base |-> IF off = 0 THEN [m.base EXCEPT ![l] = k] ELSE m.base]
Rebuilt_Rising(m) ==  \* mutant: from the left, over entries still to be moved
  LET n == Lists * MTFL_SIZE
      gather[j \in 0..n] == IF j = 0 THEN m ELSE Gathered(gather[j - 1], MTFA_SIZE - n + j - 1)
  IN  gather[n]
Rebuilt(m) ==
  LET n == Lists * MTFL_SIZE
      gather[j \in 0..n] == IF j = 0 THEN m ELSE Gathered(gather[j - 1], MTFA_SIZE - j)
  IN  gather[n]

(* From each part before lno the last goes to the front of the next.        *)
Handed(m, l) ==
  LET to == m.base[l] - 1
  IN  [a    |-> [m.a EXCEPT ![to] = m.a[m.base[l - 1] + MTFL_SIZE - 1]],
       base |-> [m.base EXCEPT ![l] = to]]
HandedDown(m, lno) ==
  LET hand[l \in 0..lno] == IF l = lno THEN m ELSE Handed(hand[l + 1], l + 1)
  IN  hand[0]

(* Symbol nn of the list, and the list with it moved to the front.          *)
Symbol(nn) == mtfa[mtfbase[nn \div MTFL_SIZE] + (nn % MTFL_SIZE)]
Fronted(nn) ==
  LET lno == nn \div MTFL_SIZE
      shifted == ShiftUp(mtfa, mtfbase[lno], mtfbase[lno] + (nn % MTFL_SIZE))
      handed  == HandedDown([a |-> shifted, base |-> [mtfbase EXCEPT ![lno] = @ + 1]], lno)
      first   == handed.base[0] - 1
      fronted == [a |-> [handed.a EXCEPT ![first] = Symbol(nn)], base |-> [handed.base EXCEPT ![0] = first]]
  IN  IF lno = 0 THEN [a |-> [shifted EXCEPT ![mtfbase[0]] = Symbol(nn)], base |-> mtfbase]
      ELSE IF first = 0 THEN Rebuilt(fronted) ELSE fronted

seqToUnseq(c) == CHOOSE u \in sent.inUse : unseqToSeq(sent.inUse, u) = c

(* One turn of the loop: a value is read; a digit adds to the run, any      *)
(* other ends it. A code past the alphabet but below 258, which finds what  *)
(* an earlier table left in perm, is not told from one that is refused.     *)
Receive ==
  LET tab   == code.table[code.selector[NextGroup + 1]]
      zn    == CodeLen(tab)
      sym   == tab.perm[Value(zn) - tab.base[zn]]
      digit == sym \in {BZ_RUNA, BZ_RUNB}
      run   == [k \in 1..(es + 1) |-> seqToUnseq(mtfa[mtfbase[0]])]
      m     == Fronted(sym - 1)
      next  == out \o run \o (IF sym = code.EOB THEN <<>> ELSE <<seqToUnseq(Symbol(sym - 1))>>)
      refused == \/ NextGroup >= Len(code.selector)
                 \/ zn > LongestCode
                 \/ Value(zn) - tab.base[zn] \notin DOMAIN tab.perm
                 \/ digit /\ N >= MaxN
                 \/ ~digit /\ Len(next) > nblockMAX
  IN
  /\ pc = "receive"
  /\ IF refused THEN Error
     ELSE /\ groupNo' = NextGroup
          /\ groupPos' = (IF groupPos = 0 THEN BZ_G_SIZE ELSE groupPos) - 1
          /\ bits' = SubSeq(bits, zn + 1, Len(bits))
          /\ IF digit THEN /\ es' = es + (sym + 1) * N /\ N' = 2 * N
                           /\ UNCHANGED <<mtfa, mtfbase, out, pc>>
             ELSE /\ es' = -1 /\ N' = 1 /\ out' = next
                  /\ IF sym = code.EOB THEN pc' = "done" /\ UNCHANGED <<mtfa, mtfbase>>
                     ELSE mtfa' = m.a /\ mtfbase' = m.base /\ pc' = pc
          /\ UNCHANGED <<column, encoder, sent, code>>

Next == \/ MtfValue \/ MtfEnd \/ InitialTables \/ ChooseTables \/ MakeCodeLengths
        \/ Send \/ ReceiveHeader \/ Receive

Spec == Init /\ [][Next]_vars

------------------------------------------------------------------------------
(* What is decoded is what was coded, whatever tables were chosen and with  *)
(* selectors to spare; no block the encoder makes is refused.               *)
RoundTrip ==
  /\ pc # "data_error"
  /\ pc = "done" => /\ out = [k \in 1..nblock |-> column[k - 1]]
                    /\ bits = <<>>

(* The values written to arr1 stay behind the entries still to be read      *)
(* (AssertD generateMTFValues(1)).                                          *)
ValuesBehind == pc = "mtf" /\ at < nblock => nMTF <= at

(* The selectors fit their array (AssertH 3003).                            *)
SelectorsFit == Len(selector) <= BZ_MAX_SELECTORS

(* The decoder's list of symbols, which mtfa holds in parts, and where one  *)
(* of its symbols was last written.                                         *)
List == [k \in 1..(Lists * MTFL_SIZE) |-> Symbol(k - 1)]
LastAt(c) == Max({0} \cup {k \in 1..Len(out) : unseqToSeq(inUse, out[k]) = c})

(* No part leaves mtfa or runs into the next.                               *)
PartsApart ==
  \A l \in 0..(Lists - 1) :
    /\ mtfbase[l] \in 1..(MTFA_SIZE - MTFL_SIZE)
    /\ \A m \in (l + 1)..(Lists - 1) : mtfbase[l] + MTFL_SIZE <= mtfbase[m]

(* The list has first what was written last, and behind it, in their order, *)
(* the symbols not written yet.                                             *)
RecentFirst ==
  \A k \in DOMAIN List : \A j \in 1..(k - 1) :
    LET a == LastAt(List[j])  b == LastAt(List[k])
    IN  a > b \/ (a = 0 /\ b = 0 /\ List[j] < List[k])

(* The lists of both sides hold every symbol: the encoder's search in yy    *)
(* ends, and the decoder's list is that of a plain move to front, however   *)
(* its parts move in mtfa.                                                  *)
ListsHold ==
  /\ pc = "mtf" => {yy[k] : k \in DOMAIN yy} = 0..(nInUse - 1)
  /\ pc \in {"receive", "done"} => PartsApart /\ RecentFirst

(* What the two sides keep in arrays stays in them and stays what it is.    *)
ArraysHold == ValuesBehind /\ SelectorsFit /\ ListsHold

Kraft(l) == FoldLeft(LAMBDA x, v : x + 2 ^ (maxLen - l[v]), 0, SetToSeq(DOMAIN l))

(* The tables that are used are whole prefix codes of at most maxLen bits   *)
(* (AssertH 3004, 3005).                                                    *)
TablesWhole ==
  pc = "send" => \A t \in Tables :
                   /\ \A v \in Alpha : len[t][v] \in 1..maxLen
                   /\ Kraft(len[t]) = 2 ^ maxLen

(* A table whose weights were not halved codes what it was made for in as   *)
(* few bits as can be: each merge of the two lightest weights adds a bit to *)
(* all that is below. A value that does not occur weighs 1.                 *)
LeastBits(weights) ==
  LET least[ws \in Seq(Nat)] ==
        IF Len(ws) = 1 THEN 0
        ELSE LET s == SortSeq(ws, <)
             IN  s[1] + s[2] + least[<<s[1] + s[2]>> \o SubSeq(s, 3, Len(s))]
  IN  least[weights]
MadeForWeights == IF pc = "lengths" THEN 0..(table - 1)
                  ELSE IF pc \in {"pass", "send"} /\ iter > 0 THEN Tables ELSE {}
TablesBest ==
  \A t \in MadeForWeights :
    LET freq == [k \in 1..(EOB + 1) |-> Max({1, rfreq[t][k - 1]})]
    IN  TooLong(Depths(InitWeights(rfreq[t])))
          \/ LeastBits(freq) = FoldLeft(LAMBDA x, k : x + len[t][k - 1] * freq[k], 0,
                                        [k \in 1..(EOB + 1) |-> k])

(* The Huffman tables are valid and as good as they can be.                 *)
TablesSound == TablesWhole /\ TablesBest

(* The loop of BZ2_hbMakeCodeLengths ends (the comment of 17 Oct 04): when  *)
(* a code is too long, none of the weights grows and one gets smaller.      *)
HalvingShrinks ==
  [][pc = "lengths" /\ TooLong(len'[table]) =>
       /\ \A k \in DOMAIN weight : weight'[k] <= weight[k]
       /\ weight' # weight]_vars
=============================================================================
