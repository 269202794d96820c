------------------------------- MODULE BlockSort -------------------------------
(***************************************************************************)
(* The block sort (blocksort.c) and its inverse (decompress.c).            *)
(*                                                                         *)
(* BZ2_blockSort arranges the rotations of a block in order: long blocks   *)
(* by mainSort, which sorts buckets of rotations that share two symbols    *)
(* and derives most of them from others, and which gives up when its       *)
(* budget of comparisons is used; short blocks and those given up by       *)
(* fallbackSort, which sorts by ever longer prefixes.  Both use the same   *)
(* two arrays.  The tables and thresholds are scaled down as constants;    *)
(* the budget is not counted, it may run out at any bucket.                *)
(*                                                                         *)
(* Reading an array outside of its bounds is an error of the evaluation.   *)
(***************************************************************************)
EXTENDS Integers, Sequences, FiniteSets
LOCAL INSTANCE SequencesExt
LOCAL INSTANCE FiniteSetsExt

CONSTANTS
  Blocks,         \* the blocks to sort: functions on 0..nblock-1
  Symbols,        \* 0..255
  MinMain,        \* 10000: shorter blocks go to the fallback at once
  BZ_N_QSORT, BZ_N_SHELL,   \* 12, 18
  Plain, Chunk,   \* mainGtU compares 12 symbols, then 8 at a time with quadrants
  MAIN_QSORT_SMALL_THRESH,  FALLBACK_QSORT_SMALL_THRESH,   \* 20, 10
  incs,           \* the increments of the shell sort, from 1 upwards
  MaxQuad         \* 65534: the largest bucket whose ranks fit a quadrant

BZ_N_RADIX == 2
BZ_N_OVERSHOOT == BZ_N_RADIX + BZ_N_QSORT + BZ_N_SHELL + 2
MAIN_QSORT_DEPTH_THRESH == BZ_N_RADIX + BZ_N_QSORT

ASSUME SortAssumption ==
  /\ Plain + Chunk = BZ_N_SHELL + 2
  /\ \A b \in Blocks : Cardinality(DOMAIN b) >= MinMain => Cardinality(DOMAIN b) > BZ_N_OVERSHOOT

VARIABLES
  given,      \* the block to sort
  pc,
  block,      \* arr2 as bytes; beyond nblock the overshoot, for mainSort
  ptr,        \* arr1: ptr and fmap
  quadrant,
  order, at,  \* runningOrder, and the number of big buckets done
  sorted,     \* small buckets <<c1, c2>> flagged with SETMASK
  bracket,    \* <<copyStart[ss], copyEnd[ss]>> after the scan of a bucket
  H, bh,      \* the fallback's depth, and its bucket heads
  eclass, r, nNotDone,  \* its classes, the end of the last bucket of this round, what was sorted in it
  origPtr

mainVars == <<quadrant, order, at, sorted, bracket>>
roundVars == <<eclass, r, nNotDone>>
vars == <<given, pc, block, ptr, mainVars, roundVars, H, bh, origPtr>>

nblock == Cardinality(DOMAIN given)
Positions == 0..(nblock - 1)
Undefined == [i \in Positions |-> -1]

Init ==
  /\ given \in Blocks /\ block = given /\ ptr = Undefined
  /\ quadrant = Undefined /\ order = <<>> /\ at = 0 /\ sorted = {} /\ bracket = <<>>
  /\ H = 0 /\ bh = {} /\ eclass = Undefined /\ r = -1 /\ nNotDone = 0 /\ origPtr = -1
  /\ pc = IF nblock < MinMain THEN "fallback" ELSE "main"

(* ptr[lo..hi] taken from the sequence s *)
Put(p, lo, s) == [i \in DOMAIN p |-> IF i \in lo..(lo + Len(s) - 1) THEN s[i - lo + 1] ELSE p[i]]
Part(p, lo, hi) == [i \in 1..(hi - lo + 1) |-> p[lo + i - 1]]

------------------------------------------------------------------------------
(* The symbols from position i on as mainGtU reads them: Plain of them      *)
(* alone, then rounds of Chunk with their quadrants; only after a round is  *)
(* a position beyond the block brought back.                                *)
Key(i) ==
  LET start[n \in Nat] ==
        IF n = 0 THEN i + Plain
        ELSE LET next == start[n - 1] + Chunk IN IF next >= nblock THEN next - nblock ELSE next
      At(q) == start[q \div Chunk] + (q % Chunk)
      rounds == nblock \div Chunk + 2
  IN  [m \in 1..Plain |-> <<block[i + m - 1], 0>>]
        \o [q \in 1..(rounds * Chunk) |-> <<block[At(q - 1)], quadrant[At(q - 1)]>>]

Greater(x, y) == x[1] > y[1] \/ (x[1] = y[1] /\ x[2] > y[2])

mainGtU(i1, i2) ==
  LET k1 == Key(i1)  k2 == Key(i2)
      differ == {m \in DOMAIN k1 : k1[m] # k2[m]}
  IN  differ # {} /\ Greater(k1[Min(differ)], k2[Min(differ)])

(* One insertion of a shell sort: the element at i moves down by steps of h *)
(* as long as what it passes is greater.                                    *)
Insert(p, i, h, lo, d) ==
  LET passes(t) == /\ i - t * h >= lo
                   /\ \A s \in 1..t : mainGtU(p[i - s * h] + d, p[i] + d)
      steps == Max({t \in 0..(i - lo) : passes(t)})
  IN  [j \in DOMAIN p |->
         CASE j = i - steps * h -> p[i]
           [] \E s \in 1..steps : j = i - (s - 1) * h -> p[j - h]
           [] OTHER -> p[j]]

mainSimpleSort_Coarse(p, lo, hi, d) ==  \* mutant: the last pass, with steps of 1, is left out
  LET used == SelectSeq(incs, LAMBDA h : h < hi - lo + 1)
      pass(q, h) == FoldLeft(LAMBDA m, i : Insert(m, i, h, lo, d), q,
                             [n \in 1..(hi - lo - h + 1) |-> lo + h + n - 1])
  IN  FoldLeft(pass, p, Reverse(Tail(used)))

mainSimpleSort(p, lo, hi, d) ==
  LET used == SelectSeq(incs, LAMBDA h : h < hi - lo + 1)
      pass(q, h) == FoldLeft(LAMBDA m, i : Insert(m, i, h, lo, d), q,
                             [n \in 1..(hi - lo - h + 1) |-> lo + h + n - 1])
  IN  FoldLeft(pass, p, Reverse(used))

mmed3(a, b, c) == CHOOSE m \in {a, b, c} :
  /\ Cardinality({n \in 1..3 : <<a, b, c>>[n] <= m}) >= 2
  /\ Cardinality({n \in 1..3 : <<a, b, c>>[n] >= m}) >= 2

(* The three-way quicksort on the symbol at depth d. Where the swaps leave  *)
(* equal elements is not modelled: the three parts keep their order.        *)
RECURSIVE mainQSort3(_, _, _, _)
mainQSort3(p, lo, hi, d) ==
  IF hi - lo < MAIN_QSORT_SMALL_THRESH \/ d > MAIN_QSORT_DEPTH_THRESH
  THEN IF hi <= lo THEN p ELSE mainSimpleSort(p, lo, hi, d)
  ELSE LET sym(x) == block[x + d]
           med == mmed3(sym(p[lo]), sym(p[hi]), sym(p[(lo + hi) \div 2]))
           lt == SelectSeq(Part(p, lo, hi), LAMBDA x : sym(x) < med)
           eq == SelectSeq(Part(p, lo, hi), LAMBDA x : sym(x) = med)
           gt == SelectSeq(Part(p, lo, hi), LAMBDA x : sym(x) > med)
           n  == lo + Len(lt) - 1
           m  == hi - Len(gt) + 1
           parted == Put(p, lo, lt \o eq \o gt)
       IN  IF Len(eq) = hi - lo + 1 THEN mainQSort3(p, lo, hi, d + 1)
           ELSE mainQSort3(mainQSort3(mainQSort3(parted, lo, n, d), m, hi, d), n + 1, m - 1, d + 1)

------------------------------------------------------------------------------
Second(i) == given[(i + 1) % nblock]
Bucket(c1, c2) == {i \in Positions : given[i] = c1 /\ Second(i) = c2}

(* ftab: the first position of a small bucket, and of a big one. *)
ftab(c1, c2) == Cardinality({i \in Positions : given[i] < c1 \/ (given[i] = c1 /\ Second(i) < c2)})
ftabEnd(c1, c2) == ftab(c1, c2) + Cardinality(Bucket(c1, c2)) - 1
BigStart(c)  == Cardinality({i \in Positions : given[i] < c})
BigSize(c)   == Cardinality({i \in Positions : given[i] = c})

(* The overshoot, the radix sort on two symbols, which fills each bucket    *)
(* from its end, and an order of the big buckets from the least full one.   *)
MainInit ==
  /\ pc = "main"
  /\ block' = [i \in 0..(nblock + BZ_N_OVERSHOOT - 1) |-> given[i % nblock]]
  /\ quadrant' = [i \in 0..(nblock + BZ_N_OVERSHOOT - 1) |-> 0]
  /\ ptr' = [j \in Positions |->
       CHOOSE i \in Positions :
         j = ftab(given[i], Second(i))
               + Cardinality({k \in Bucket(given[i], Second(i)) : k < i})]
  /\ order' \in {o \in SetToSeqs(Symbols) :
                   \A j, k \in 1..Len(o) : j < k => BigSize(o[j]) <= BigSize(o[k])}
  /\ at' = 0 /\ sorted' = {} /\ pc' = "bucket"
  /\ UNCHANGED <<given, bracket, roundVars, H, bh, origPtr>>

ss == order[at + 1]

(* Step 1: the small buckets of ss that no scan has filled are sorted. *)
SortSmall ==
  /\ pc = "bucket" /\ at < Len(order)
  /\ LET todo == SetToSeq({c \in Symbols \ {ss} : <<ss, c>> \notin sorted})
     IN  ptr' = FoldLeft(LAMBDA p, c :
                  mainQSort3(p, ftab(ss, c), ftabEnd(ss, c), BZ_N_RADIX), ptr, todo)
  /\ sorted' = sorted \cup {<<ss, c>> : c \in Symbols \ {ss}}
  /\ pc' = "scan"
  /\ UNCHANGED <<given, block, quadrant, order, at, bracket, roundVars, H, bh, origPtr>>

(* The budget is used up: what the buckets hold does not matter any more.   *)
GiveUp ==
  /\ pc = "bucket" /\ at < Len(order)
  /\ pc' = "fallback"
  /\ UNCHANGED <<given, block, ptr, mainVars, roundVars, H, bh, origPtr>>

Before(k) == IF k = 0 THEN nblock - 1 ELSE k - 1
Done == {order[j] : j \in 1..at}

(* Step 2: the rotations in bucket ss, from both ends, tell the order of    *)
(* those that begin one symbol earlier. cs and ce are copyStart, copyEnd.   *)
RECURSIVE ScanUp(_, _, _)
ScanUp(p, cs, j) ==
  IF j >= cs[ss] THEN <<p, cs>>
  ELSE LET k == Before(p[j])  c1 == given[k] IN
       IF c1 \in Done THEN ScanUp(p, cs, j + 1)
       ELSE ScanUp([p EXCEPT ![cs[c1]] = k], [cs EXCEPT ![c1] = @ + 1], j + 1)

RECURSIVE ScanDown(_, _, _)
ScanDown(p, ce, j) ==
  IF j <= ce[ss] THEN <<p, ce>>
  ELSE LET k == Before(p[j])  c1 == given[k] IN
       IF c1 \in Done THEN ScanDown(p, ce, j - 1)
       ELSE ScanDown([p EXCEPT ![ce[c1]] = k], [ce EXCEPT ![c1] = @ - 1], j - 1)

RECURSIVE Shifts(_)
Shifts(size) == IF size > MaxQuad THEN 1 + Shifts(size \div 2) ELSE 0

(* Step 3: the ranks in the bucket become quadrants, in the overshoot too. *)
Quadrants_InBlock(p, from) ==  \* mutant: the overshoot keeps the old ones
  LET sh == Shifts(BigSize(ss)) IN
  [i \in DOMAIN quadrant |->
     IF i \in Positions /\ given[i] = ss /\ at < Cardinality(Symbols) - 1
     THEN (CHOOSE j \in 0..(BigSize(ss) - 1) : p[from + j] = i) \div 2 ^ sh
     ELSE quadrant[i]]

Quadrants(p, from) ==
  LET sh == Shifts(BigSize(ss)) IN
  [i \in DOMAIN quadrant |->
     IF given[i % nblock] = ss /\ at < Cardinality(Symbols) - 1
     THEN (CHOOSE j \in 0..(BigSize(ss) - 1) : p[from + j] = i % nblock) \div 2 ^ sh
     ELSE quadrant[i]]

Scan ==
  /\ pc = "scan"
  /\ LET up   == ScanUp(ptr, [c \in Symbols |-> ftab(c, ss)], BigStart(ss))
         down == ScanDown(up[1], [c \in Symbols |-> ftabEnd(c, ss)],
                          BigStart(ss) + BigSize(ss) - 1)
     IN  /\ ptr' = down[1]
         /\ bracket' = <<up[2][ss], down[2][ss]>>
         /\ quadrant' = Quadrants(down[1], BigStart(ss))
  /\ sorted' = sorted \cup {<<c, ss>> : c \in Symbols}
  /\ at' = at + 1
  /\ pc' = IF at + 1 = Len(order) THEN "find" ELSE "bucket"
  /\ UNCHANGED <<given, block, order, roundVars, H, bh, origPtr>>

------------------------------------------------------------------------------
(* fallbackSimpleSort moves elements up, by steps of 4 and then of 1. *)
InsertUp(p, key, i, h, hi) ==
  LET passes(t) == i + t * h <= hi /\ \A s \in 1..t : key[p[i]] > key[p[i + s * h]]
      steps == Max({t \in 0..(hi - i) : passes(t)})
  IN  [j \in DOMAIN p |->
         CASE j = i + steps * h -> p[i]
           [] \E s \in 1..steps : j = i + (s - 1) * h -> p[j + h]
           [] OTHER -> p[j]]

fallbackSimpleSort(p, key, lo, hi) ==
  LET pass(q, h) == FoldLeft(LAMBDA m, i : InsertUp(m, key, i, h, hi), q,
                             [n \in 1..(hi - lo - h + 1) |-> hi - h - n + 1])
  IN  pass(IF hi - lo > 3 THEN pass(p, 4) ELSE p, 1)

(* The quicksort of the fallback. Which of three elements is the pivot is   *)
(* drawn in the code; the order that results is the same.                   *)
RECURSIVE fallbackQSort3(_, _, _, _)
fallbackQSort3(p, key, lo, hi) ==
  IF hi - lo < FALLBACK_QSORT_SMALL_THRESH
  THEN IF hi <= lo THEN p ELSE fallbackSimpleSort(p, key, lo, hi)
  ELSE LET med == key[p[(lo + hi) \div 2]]
           lt == SelectSeq(Part(p, lo, hi), LAMBDA x : key[x] < med)
           eq == SelectSeq(Part(p, lo, hi), LAMBDA x : key[x] = med)
           gt == SelectSeq(Part(p, lo, hi), LAMBDA x : key[x] > med)
       IN  fallbackQSort3(fallbackQSort3(Put(p, lo, lt \o eq \o gt), key, lo, lo + Len(lt) - 1),
                          key, hi - Len(gt) + 1, hi)

(* The radix sort on one symbol: the block is read for the last time, its   *)
(* array becomes eclass.                                                    *)
Radix(b) ==
  [j \in DOMAIN b |->
     CHOOSE i \in DOMAIN b :
       j = Cardinality({k \in DOMAIN b : b[k] < b[i]}) + Cardinality({k \in DOMAIN b : b[k] = b[i] /\ k > i})]
RadixHeads == {BigStart(c) : c \in Symbols} \cap Positions

FallbackInit ==
  /\ pc = "fallback"
  /\ ptr' = Radix([i \in Positions |-> block[i]])
  /\ bh' = RadixHeads
  /\ H' = 1 /\ block' = Undefined /\ pc' = "refine"
  /\ UNCHANGED <<given, mainVars, roundVars, origPtr>>

HeadOf(i) == Max({j \in bh : j <= i})

(* Each position has the class of what lies H symbols further on: the head  *)
(* of the bucket that holds it when the round begins.                       *)
Classes_Ahead == [k \in Positions |-> HeadOf(CHOOSE i \in Positions : (ptr[i] + H) % nblock = k)]  \* mutant: the wrong way
Classes == [k \in Positions |-> HeadOf(CHOOSE i \in Positions : (ptr[i] - H) % nblock = k)]

(* A round of the log(N) loop: the classes are written, then one bucket     *)
(* after the other is looked for, sorted and split where the class changes. *)
Classify ==
  /\ pc = "refine"
  /\ eclass' = Classes
  /\ r' = -1 /\ nNotDone' = 0 /\ pc' = "buckets"
  /\ UNCHANGED <<given, block, ptr, mainVars, H, bh, origPtr>>

(* ISSET_BH: behind the block every other header is set. *)
ISSET_BH(k) == k \in bh \/ (k >= nblock /\ (k - nblock) % 2 = 0)

(* The next bucket with more than one rotation begins at lower, which is    *)
(* nblock when there is none.                                              *)
lower == Min({k \in (r + 1)..(nblock + 1) : ~ISSET_BH(k)}) - 1
upper == Min({k \in (lower + 2)..nblock : ISSET_BH(k)}) - 1

(* The headers of the bucket are set in the array the search goes on in.    *)
RefineBucket ==
  /\ pc = "buckets" /\ lower < nblock
  /\ ptr' = fallbackQSort3(ptr, eclass, lower, upper)
  /\ bh' = bh \cup {i \in lower..upper : i = lower \/ eclass[ptr'[i]] # eclass[ptr'[i - 1]]}
  /\ nNotDone' = nNotDone + upper - lower + 1
  /\ r' = upper
  /\ UNCHANGED <<given, pc, block, mainVars, eclass, H, origPtr>>

EndRound ==
  /\ pc = "buckets" /\ lower >= nblock
  /\ H' = 2 * H
  /\ pc' = IF 2 * H > nblock \/ nNotDone = 0 THEN "restore" ELSE "refine"
  /\ UNCHANGED <<given, block, ptr, mainVars, eclass, r, nNotDone, bh, origPtr>>

(* The block is put together again from the order and the symbol counts. *)
Restore ==
  /\ pc = "restore"
  /\ block' = [i \in Positions |->
       LET j == CHOOSE j \in Positions : ptr[j] = i
       IN  CHOOSE c \in Symbols : BigStart(c) <= j /\ j < BigStart(c) + BigSize(c)]
  /\ pc' = "find"
  /\ UNCHANGED <<given, ptr, mainVars, roundVars, H, bh, origPtr>>

FindOrigPtr ==
  /\ pc = "find"
  /\ origPtr' = Min({i \in Positions : ptr[i] = 0} \cup {nblock})
  /\ pc' = "done"
  /\ UNCHANGED <<given, block, ptr, mainVars, roundVars, H, bh>>

Next == \/ MainInit \/ SortSmall \/ GiveUp \/ Scan
        \/ FallbackInit \/ Classify \/ RefineBucket \/ EndRound \/ Restore \/ FindOrigPtr

Spec == Init /\ [][Next]_vars

------------------------------------------------------------------------------
(* What decompress.c does with the last column: L[i] is the symbol before   *)
(* rotation ptr[i]. Counting gives each entry of the column its place in    *)
(* the first column.                                                        *)
Column == [i \in Positions |-> block[Before(ptr[i])]]
cftab(col, c) == Cardinality({i \in DOMAIN col : col[i] < c})
Place_Back(col, i) == cftab(col, col[i]) + Cardinality({j \in DOMAIN col : j > i /\ col[j] = col[i]})  \* mutant: the column is read backwards
Place(col, i) == cftab(col, col[i]) + Cardinality({j \in DOMAIN col : j < i /\ col[j] = col[i]})

(* The fast way: tt holds the inverse of Place, the walk starts at its      *)
(* entry for origPtr and takes a symbol and a successor at each step.       *)
UnsortFast(col, orig) ==
  LET tt == [j \in DOMAIN col |-> CHOOSE i \in DOMAIN col : Place(col, i) = j]
      tPos[n \in Nat] == IF n = 0 THEN tt[orig] ELSE tt[tPos[n - 1]]
  IN  [n \in DOMAIN col |-> col[tPos[n]]]

(* The way that saves memory: the cycle through origPtr of the table of     *)
(* places is reversed in place, and the symbol is looked up in cftab        *)
(* (BZ2_indexIntoF).                                                        *)
UnsortSmall(col, orig) ==
  LET T == [i \in DOMAIN col |-> Place(col, i)]
      back == [j \in DOMAIN col |-> CHOOSE i \in DOMAIN col : T[i] = j]
      tPos[n \in Nat] == IF n = 0 THEN orig ELSE back[tPos[n - 1]]
  IN  [n \in DOMAIN col |->
         CHOOSE c \in Symbols :
           cftab(col, c) <= tPos[n]
             /\ tPos[n] < cftab(col, c) + Cardinality({i \in DOMAIN col : col[i] = c})]

------------------------------------------------------------------------------
(* Rotation i is not after rotation j. *)
Rotation(i) == [m \in Positions |-> given[(i + m) % nblock]]
NotAfter(i, j) ==
  LET differ == {m \in Positions : Rotation(i)[m] # Rotation(j)[m]}
  IN  differ = {} \/ Rotation(i)[Min(differ)] < Rotation(j)[Min(differ)]

InOrder(lo, hi) == \A j \in lo..(hi - 1) : NotAfter(ptr[j], ptr[j + 1])

(* When the sort is done, whichever way it went and wherever the main sort  *)
(* gave up, ptr is the sorted order of all rotations, the block is what it  *)
(* was, and origPtr is where it begins (AssertH 1003).                      *)
RotationsSorted ==
  pc = "done" =>
    /\ {ptr[j] : j \in Positions} = Positions /\ InOrder(0, nblock - 1)
    /\ \A i \in Positions : block[i] = given[i]
    /\ origPtr \in Positions /\ ptr[origPtr] = 0

(* The main sort is at work, or it has done its last bucket just now. *)
Sorting == pc \in {"bucket", "scan"} \/ (pc = "find" /\ at > 0 /\ at = Len(order))

(* While the main sort runs, each small bucket that is flagged holds its    *)
(* rotations in order, also those only the scans of other buckets filled;   *)
(* and each scan meets in the middle (AssertH 1007), the last one included. *)
ScansFill ==
  Sorting =>
    /\ \A s \in sorted :
         /\ {ptr[j] : j \in ftab(s[1], s[2])..ftabEnd(s[1], s[2])} = Bucket(s[1], s[2])
         /\ InOrder(ftab(s[1], s[2]), ftabEnd(s[1], s[2]))
    /\ bracket # <<>> =>
         \/ bracket[1] - 1 = bracket[2]
         \/ bracket[1] = 0 /\ bracket[2] = nblock - 1

(* The comment of mainSort on "the precise meaning" of quadrants: for       *)
(* positions with one symbol, the smaller quadrant has the string that      *)
(* comes first; the overshoot repeats the beginning.                        *)
QuadrantsTell ==
  Sorting =>
    /\ \A i, j \in Positions :
         given[i] = given[j] /\ quadrant[i] < quadrant[j] => NotAfter(i, j)
    /\ \A i \in DOMAIN quadrant : quadrant[i] = quadrant[i % nblock] /\ quadrant[i] <= MaxQuad + 1

(* The main sort at work: what its buckets and its quadrants promise.       *)
BucketsTell == ScansFill /\ QuadrantsTell

(* In the fallback the rotations are in order by their first symbols, and a *)
(* bucket is a class of rotations that agree in them: by their first H      *)
(* symbols, and by 2H in the buckets this round has been through, while the *)
(* headers it set are read by the search for the next one.                  *)
ClassesTell ==
  pc \in {"refine", "buckets"} =>
    LET depth(j) == IF pc = "buckets" /\ j <= r THEN 2 * H ELSE H
        symbol(j, m) == given[(ptr[j] + m) % nblock]
    IN  \A j \in Positions \ {0} :
          LET differ == {m \in 0..(depth(j) - 1) : symbol(j - 1, m) # symbol(j, m)}
          IN  IF j \in bh THEN differ # {} /\ symbol(j - 1, Min(differ)) < symbol(j, Min(differ))
                           ELSE differ = {}

(* The decompressor's two ways back give the block again. *)
Unsorts ==
  pc = "done" => /\ UnsortFast(Column, origPtr) = given
                 /\ UnsortSmall(Column, origPtr) = given
=============================================================================
