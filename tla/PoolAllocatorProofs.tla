-------------------------- MODULE PoolAllocatorProofs --------------------------
(***************************************************************************)
(* The blocks of the pool allocator tile its pool, no two free ones are    *)
(* neighbours, and every pointer handed out has room for what was asked    *)
(* for, whatever the sizes of the pool, of headers and of requests are.    *)
(*                                                                         *)
(* MergeNext is looked at alone first: it keeps the tiling, and what it    *)
(* does to the pairs of free neighbours and to the blocks in use.  The     *)
(* coalescing of a freed block is two such merges.                         *)
(***************************************************************************)
EXTENDS PoolAllocator, TLAPS

Block == [size : Nat, in_use : BOOLEAN, next : Int, prev : Int]

(* Any two free neighbours have a as the second of them. *)
FreePairsAt(b, a) ==
  \A x \in DOMAIN b :
    b[x].next # NULL /\ ~b[x].in_use /\ ~b[b[x].next].in_use => b[x].next = a

SameInUse(b, d) ==
  /\ {x \in DOMAIN d : d[x].in_use} = {x \in DOMAIN b : b[x].in_use}
  /\ \A x \in DOMAIN d : d[x].in_use => d[x].size = b[x].size

------------------------------------------------------------------------------
(* What follows of the tiling for a block and its neighbours. *)
LEMMA TiledFacts ==
  ASSUME NEW b, Tiled(b), NEW a \in DOMAIN b
  PROVE  /\ a \in Nat /\ b[a] \in Block /\ b[a].size \in Nat /\ EndOf(b, a) \in Nat
         /\ b[a].next \in Int /\ b[a].prev \in Int
         /\ a < EndOf(b, a) /\ EndOf(b, a) <= BZIP2_POOL_SIZE
         /\ b[a].next = NULL <=> EndOf(b, a) = BZIP2_POOL_SIZE
         /\ b[a].next # NULL => /\ b[a].next \in DOMAIN b /\ b[a].next = EndOf(b, a)
                                /\ b[b[a].next].prev = a
         /\ b[a].prev = NULL <=> a = 0
         /\ b[a].prev # NULL => b[a].prev \in DOMAIN b /\ b[b[a].prev].next = a
         /\ \A c \in DOMAIN b : a < c => EndOf(b, a) <= c
BY PoolAssumption DEF Tiled, EndOf, NULL, Block

(* To free a block moves nothing. *)
LEMMA FreedTiled ==
  ASSUME NEW b, Tiled(b), NEW a \in DOMAIN b
  PROVE  Tiled([b EXCEPT ![a].in_use = FALSE])
<1> DEFINE d == [b EXCEPT ![a].in_use = FALSE]
<1>1. DOMAIN d = DOMAIN b
  OBVIOUS
<1>2. ASSUME NEW x \in DOMAIN b
      PROVE  /\ d[x] \in Block
             /\ d[x].size = b[x].size /\ d[x].next = b[x].next
             /\ d[x].prev = b[x].prev /\ EndOf(d, x) = EndOf(b, x)
  <2>1. b[x] \in Block
    BY TiledFacts
  <2>2. d[x] = IF x = a THEN [b[x] EXCEPT !.in_use = FALSE] ELSE b[x]
    OBVIOUS
  <2> HIDE DEF d
  <2> QED BY <2>1, <2>2 DEF Block, EndOf
<1> HIDE DEF d
<1>3. Tiled(d)
  BY <1>1, <1>2 DEF Tiled, Block
<1> QED
  BY <1>3 DEF d

------------------------------------------------------------------------------
(* What d is when block a has taken in block n of b. *)
Merged(b, a, n, d) ==
  /\ DOMAIN d = DOMAIN b \ {n}
  /\ a \in DOMAIN d /\ n \in DOMAIN b /\ a < n
  /\ \A x \in DOMAIN d :
       /\ d[x] \in Block
       /\ d[x].in_use = b[x].in_use
       /\ d[x].next = IF x = a THEN b[n].next ELSE b[x].next
       /\ d[x].prev = IF x = b[n].next THEN a ELSE b[x].prev
       /\ d[x].size = IF x = a THEN b[a].size + b[n].size + Header ELSE b[x].size
       /\ EndOf(d, x) = IF x = a THEN EndOf(b, n) ELSE EndOf(b, x)

(* A block takes in the free one behind it. *)
LEMMA MergeShape ==
  ASSUME NEW b, Tiled(b), NEW a \in DOMAIN b, b[a].next # NULL, ~b[b[a].next].in_use
  PROVE  Merged(b, a, b[a].next, MergeNext(b, a))
<1> DEFINE n == b[a].next  d == MergeNext(b, a)
<1>1. /\ n \in DOMAIN b /\ n = EndOf(b, a) /\ a < n /\ a \in Nat /\ n \in Nat
      /\ b[n].next \in Int /\ (b[n].next # NULL => n < b[n].next)
  BY TiledFacts
<1>2. d = [x \in DOMAIN b \ {n} |->
             CASE x = a -> [b[a] EXCEPT !.size = @ + b[n].size + Header, !.next = b[n].next]
               [] x # a /\ x = b[n].next -> [b[x] EXCEPT !.prev = a]
               [] OTHER -> b[x]]
  BY DEF MergeNext
<1>3. DOMAIN d = DOMAIN b \ {n} /\ a \in DOMAIN d
  BY <1>1, <1>2
<1>4. b[n].next # a
  BY <1>1 DEF NULL
<1>5. ASSUME NEW x \in DOMAIN d
      PROVE  /\ d[x] \in Block
             /\ d[x].in_use = b[x].in_use
             /\ d[x].next = IF x = a THEN b[n].next ELSE b[x].next
             /\ d[x].prev = IF x = b[n].next THEN a ELSE b[x].prev
             /\ d[x].size = IF x = a THEN b[a].size + b[n].size + Header ELSE b[x].size
  <2>1. b[x] \in Block /\ b[n] \in Block /\ b[a] \in Block /\ a \in Int /\ x \in DOMAIN b
    BY <1>1, <1>3, TiledFacts
  <2>2. CASE x = a
    <3>1. d[x] = [b[a] EXCEPT !.size = @ + b[n].size + Header, !.next = b[n].next]
      BY <2>2, <1>2, <1>3
    <3>2. b[a].size + b[n].size + Header \in Nat /\ b[n].next \in Int
      BY <2>1, PoolAssumption DEF Block
    <3>3. d[x] = [size |-> b[a].size + b[n].size + Header, in_use |-> b[a].in_use,
                  next |-> b[n].next, prev |-> b[a].prev]
      BY <3>1, <2>1 DEF Block
    <3>4. b[n].next # x /\ b[a].in_use \in BOOLEAN /\ b[a].prev \in Int
      BY <2>1, <2>2, <1>4 DEF Block
    <3> HIDE DEF d
    <3> QED BY <2>2, <3>2, <3>3, <3>4 DEF Block
  <2>3. CASE x # a /\ x = b[n].next
    <3>1. d[x] = [b[x] EXCEPT !.prev = a]
      BY <2>3, <1>2, <1>3
    <3> QED BY <3>1, <2>1, <2>3 DEF Block
  <2>4. CASE x # a /\ x # b[n].next
    <3>1. d[x] = b[x]
      BY <2>4, <1>2, <1>3
    <3> QED BY <3>1, <2>1, <2>4
  <2> QED BY <2>2, <2>3, <2>4
<1>6. ASSUME NEW x \in DOMAIN d
      PROVE  EndOf(d, x) = IF x = a THEN EndOf(b, n) ELSE EndOf(b, x)
  <2> HIDE DEF d
  <2>1. b[a].size \in Nat /\ b[n].size \in Nat
    BY <1>1, TiledFacts
  <2> QED BY <1>1, <1>5, <2>1, PoolAssumption DEF EndOf
<1> HIDE DEF d
<1>7. /\ DOMAIN d = DOMAIN b \ {n}
      /\ a \in DOMAIN d /\ n \in DOMAIN b /\ a < n
  BY <1>1, <1>3
<1>8. Merged(b, a, n, d)
  BY <1>5, <1>6, <1>7 DEF Merged
<1> QED BY <1>8 DEF d

LEMMA MergeTiled ==
  ASSUME NEW b, Tiled(b), NEW a \in DOMAIN b
  PROVE  Tiled(MergeNext(b, a))
<1>1. CASE b[a].next = NULL \/ b[b[a].next].in_use
  BY <1>1 DEF MergeNext
<1>2. CASE b[a].next # NULL /\ ~b[b[a].next].in_use
  <2> DEFINE n == b[a].next  m == b[n].next  d == MergeNext(b, a)
  <2>0. Merged(b, a, n, d)
    BY <1>2, MergeShape
  <2> HIDE DEF d
  <2>1. /\ DOMAIN d = DOMAIN b \ {n} /\ a \in DOMAIN d /\ n \in DOMAIN b /\ a < n
        /\ \A x \in DOMAIN d :
              /\ d[x] \in Block
              /\ d[x].next = IF x = a THEN m ELSE b[x].next
              /\ d[x].prev = IF x = m THEN a ELSE b[x].prev
              /\ EndOf(d, x) = IF x = a THEN EndOf(b, n) ELSE EndOf(b, x)
    BY <2>0 DEF Merged
  <2>2. \A x \in DOMAIN b :
         /\ x \in Nat /\ EndOf(b, x) \in Nat /\ x < EndOf(b, x) /\ EndOf(b, x) <= BZIP2_POOL_SIZE
         /\ b[x].next = NULL <=> EndOf(b, x) = BZIP2_POOL_SIZE
         /\ b[x].next # NULL => /\ b[x].next \in DOMAIN b /\ b[x].next = EndOf(b, x)
                                /\ b[b[x].next].prev = x
         /\ b[x].prev = NULL <=> x = 0
         /\ b[x].prev # NULL => b[x].prev \in DOMAIN b /\ b[b[x].prev].next = x
         /\ \A c \in DOMAIN b : x < c => EndOf(b, x) <= c
    BY TiledFacts
  <2>3. n = EndOf(b, a) /\ b[n].prev = a /\ n # 0 /\ m # a /\ m # n /\ 0 \in DOMAIN d
        /\ DOMAIN d \subseteq Nat
    BY <1>2, <2>1, <2>2 DEF NULL, Tiled
  <2>4. ASSUME NEW x \in DOMAIN d
        PROVE  /\ EndOf(d, x) <= BZIP2_POOL_SIZE
               /\ IF EndOf(d, x) = BZIP2_POOL_SIZE
                  THEN d[x].next = NULL
                  ELSE d[x].next = EndOf(d, x) /\ d[x].next \in DOMAIN d /\ d[d[x].next].prev = x
    <3>1. CASE x = a
      BY <2>1, <2>2, <2>3, <3>1 DEF NULL
    <3>2. CASE x # a
      <4>1. EndOf(d, x) = EndOf(b, x) /\ d[x].next = b[x].next /\ x \in DOMAIN b
        BY <2>1, <3>2
      <4>2. ASSUME b[x].next # NULL PROVE b[x].next # n /\ b[x].next # m
        BY <2>1, <2>2, <2>3, <3>2, <4>1, <4>2
      <4> QED BY <2>1, <2>2, <4>1, <4>2
    <3> QED BY <3>1, <3>2
  <2>5. ASSUME NEW x \in DOMAIN d
        PROVE  IF x = 0 THEN d[x].prev = NULL
                        ELSE d[x].prev \in DOMAIN d /\ d[d[x].prev].next = x
    <3>1. CASE x = m
      BY <2>1, <2>2, <2>3, <3>1 DEF NULL
    <3>2. CASE x # m
      <4>1. d[x].prev = b[x].prev /\ x \in DOMAIN b /\ x # n
        BY <2>1, <3>2
      <4>2. ASSUME b[x].prev # NULL PROVE b[x].prev # n /\ b[x].prev # a
        BY <2>2, <3>2, <4>1, <4>2
      <4> QED BY <2>1, <2>2, <4>1, <4>2
    <3> QED BY <3>1, <3>2
  <2>6. ASSUME NEW x \in DOMAIN d, NEW c \in DOMAIN d, x < c
        PROVE  EndOf(d, x) <= c
    <3>1. x \in DOMAIN b /\ c \in DOMAIN b /\ c # n /\ EndOf(b, x) <= c
      BY <2>1, <2>2, <2>6
    <3>2. CASE x = a
      <4>1. n < c
        BY <2>2, <2>3, <3>1, <3>2
      <4> QED BY <2>1, <2>2, <3>1, <3>2, <4>1
    <3> QED BY <2>1, <3>1, <3>2
  <2>7. Tiled(d)
    BY <2>1, <2>3, <2>4, <2>5, <2>6 DEF Tiled, Block
  <2> QED BY <2>7 DEF d
<1> QED BY <1>1, <1>2

(* Blocks in use stay, and keep their size, when a free block takes in      *)
(* another.                                                                 *)
LEMMA MergeInUse ==
  ASSUME NEW b, Tiled(b), NEW a \in DOMAIN b, ~b[a].in_use
  PROVE  SameInUse(b, MergeNext(b, a))
<1>1. CASE b[a].next = NULL \/ b[b[a].next].in_use
  BY <1>1 DEF MergeNext, SameInUse
<1>2. CASE b[a].next # NULL /\ ~b[b[a].next].in_use
  <2> DEFINE n == b[a].next  d == MergeNext(b, a)
  <2>0. Merged(b, a, n, d)
    BY <1>2, MergeShape
  <2> HIDE DEF d
  <2>1. /\ DOMAIN d = DOMAIN b \ {n}
        /\ \A x \in DOMAIN d :
              /\ d[x].in_use = b[x].in_use
              /\ x # a => d[x].size = b[x].size
    BY <2>0 DEF Merged
  <2>2. SameInUse(b, d)
    BY <1>2, <2>1 DEF SameInUse
  <2> QED BY <2>2 DEF d
<1> QED BY <1>1, <1>2
(* Coalescing: with free neighbours only at a, which is free, both merges   *)
(* leave none.                                                              *)
LEMMA MergeNextPairs ==
  ASSUME NEW b, Tiled(b), NEW a \in DOMAIN b, ~b[a].in_use,
         \A x \in DOMAIN b : b[x].next # NULL /\ ~b[x].in_use /\ ~b[b[x].next].in_use
                               => x = a \/ b[x].next = a
  PROVE  /\ FreePairsAt(MergeNext(b, a), a)
         /\ a \in DOMAIN MergeNext(b, a) /\ ~MergeNext(b, a)[a].in_use
<1>1. CASE b[a].next = NULL \/ b[b[a].next].in_use
  BY <1>1 DEF MergeNext, FreePairsAt
<1>2. CASE b[a].next # NULL /\ ~b[b[a].next].in_use
  <2> DEFINE n == b[a].next  m == b[n].next  d == MergeNext(b, a)
  <2>0. Merged(b, a, n, d)
    BY <1>2, MergeShape
  <2> HIDE DEF d
  <2>1. /\ DOMAIN d = DOMAIN b \ {n} /\ a \in DOMAIN d /\ n \in DOMAIN b /\ a < n
        /\ \A x \in DOMAIN d : /\ d[x].in_use = b[x].in_use
                                /\ d[x].next = IF x = a THEN m ELSE b[x].next
    BY <2>0 DEF Merged
  <2>2. Tiled(d)
    BY MergeTiled DEF d
  <2>3. ASSUME NEW x \in DOMAIN d, d[x].next # NULL, ~d[x].in_use, ~d[d[x].next].in_use
        PROVE  d[x].next = a
    <3>1. d[x].next \in DOMAIN d /\ x \in DOMAIN b
      BY <2>1, <2>2, <2>3, TiledFacts
    <3>2. CASE x = a
      <4>1. d[x].next = m /\ m \in DOMAIN b /\ ~b[m].in_use /\ m # NULL
        BY <2>1, <2>3, <3>1, <3>2
      <4>2. m # a /\ n # a
        BY <2>1, <4>1, TiledFacts
      <4> QED BY <1>2, <2>1, <4>1, <4>2
    <3>3. CASE x # a
      BY <2>1, <2>3, <3>1, <3>3
    <3> QED BY <3>2, <3>3
  <2>4. FreePairsAt(d, a) /\ ~d[a].in_use
    BY <2>1, <2>3 DEF FreePairsAt
  <2> QED BY <2>1, <2>4 DEF d
<1> QED BY <1>1, <1>2

LEMMA MergePrevPairs ==
  ASSUME NEW b, Tiled(b), NEW a \in DOMAIN b, ~b[a].in_use, FreePairsAt(b, a)
  PROVE  Tiled(MergePrev(b, a)) /\ ~TwoFree(MergePrev(b, a)) /\ SameInUse(b, MergePrev(b, a))
<1> DEFINE p == b[a].prev
<1>1. CASE p = NULL \/ b[p].in_use
  <2>1. MergePrev(b, a) = b
    BY <1>1 DEF MergePrev
  <2>2. ASSUME NEW x \in DOMAIN b, b[x].next = a PROVE x = p /\ p # NULL
    BY <2>2, TiledFacts DEF NULL
  <2>3. ~TwoFree(b)
    BY <1>1, <2>2 DEF TwoFree, FreePairsAt
  <2> QED BY <2>1, <2>3 DEF SameInUse
<1>2. CASE p # NULL /\ ~b[p].in_use
  <2> DEFINE d == MergeNext(b, p)  m == b[a].next
  <2>1. MergePrev(b, a) = d
    BY <1>2 DEF MergePrev
  <2>2. p \in DOMAIN b /\ b[p].next = a /\ a # NULL
    BY <1>2, TiledFacts DEF NULL
  <2>3. Tiled(d) /\ SameInUse(b, d) /\ Merged(b, p, a, d)
    BY <1>2, <2>2, MergeTiled, MergeInUse, MergeShape
  <2> HIDE DEF d
  <2>4. /\ DOMAIN d = DOMAIN b \ {a} /\ p < a
        /\ \A x \in DOMAIN d : /\ d[x].in_use = b[x].in_use
                                /\ d[x].next = IF x = p THEN m ELSE b[x].next
    BY <2>3 DEF Merged
  <2>5. ASSUME NEW x \in DOMAIN d, d[x].next # NULL, ~d[x].in_use, ~d[d[x].next].in_use
        PROVE  FALSE
    <3>1. d[x].next \in DOMAIN d /\ x \in DOMAIN b /\ d[x].next # a
      BY <2>3, <2>4, <2>5, TiledFacts
    <3>2. CASE x = p
      BY <2>4, <2>5, <3>1, <3>2 DEF FreePairsAt
    <3>3. CASE x # p
      BY <2>4, <2>5, <3>1, <3>3 DEF FreePairsAt
    <3> QED BY <3>2, <3>3
  <2>6. ~TwoFree(d)
    BY <2>5 DEF TwoFree
  <2> QED BY <2>1, <2>3, <2>6
<1> QED BY <1>1, <1>2

(* A block that is freed and coalesced: the tiling is kept, no two free     *)
(* blocks are neighbours, and the other blocks in use are as they were.     *)
LEMMA FreedAndCoalesced ==
  ASSUME NEW b, Tiled(b), ~TwoFree(b), NEW a \in DOMAIN b
  PROVE  LET d == coalesce_free_blocks([b EXCEPT ![a].in_use = FALSE], a) IN
         /\ Tiled(d) /\ ~TwoFree(d)
         /\ {x \in DOMAIN d : d[x].in_use} = {x \in DOMAIN b : b[x].in_use} \ {a}
         /\ \A x \in DOMAIN d : d[x].in_use => d[x].size = b[x].size
<1> DEFINE f == [b EXCEPT ![a].in_use = FALSE]
           g == MergeNext(f, a)
           d == MergePrev(g, a)
<1>1. Tiled(f)
  BY FreedTiled
<1>2. /\ DOMAIN f = DOMAIN b
      /\ \A x \in DOMAIN b : f[x].next = b[x].next
      /\ \A x \in DOMAIN b : f[x].size = b[x].size
      /\ \A x \in DOMAIN b : f[x].in_use <=> (x # a /\ b[x].in_use)
  <2>1. \A x \in DOMAIN b : b[x] \in Block
    BY TiledFacts
  <2>2. \A x \in DOMAIN b : f[x] = IF x = a THEN [b[x] EXCEPT !.in_use = FALSE] ELSE b[x]
    OBVIOUS
  <2>3. DOMAIN f = DOMAIN b
    OBVIOUS
  <2> HIDE DEF f
  <2> QED BY <2>1, <2>2, <2>3 DEF Block
<1> HIDE DEF f
<1>3. \A x \in DOMAIN f : f[x].next # NULL /\ ~f[x].in_use /\ ~f[f[x].next].in_use
                            => x = a \/ f[x].next = a
  <2>1. \A x \in DOMAIN b : b[x].next # NULL => b[x].next \in DOMAIN b
    BY TiledFacts
  <2> QED BY <1>2, <2>1 DEF TwoFree
<1>4. Tiled(g) /\ SameInUse(f, g) /\ FreePairsAt(g, a) /\ a \in DOMAIN g /\ ~g[a].in_use
  BY <1>1, <1>2, <1>3, MergeTiled, MergeInUse, MergeNextPairs
<1> HIDE DEF g
<1>5. Tiled(d) /\ ~TwoFree(d) /\ SameInUse(g, d)
  BY <1>4, MergePrevPairs
<1> HIDE DEF d
<1>6. /\ {x \in DOMAIN d : d[x].in_use} = {x \in DOMAIN f : f[x].in_use}
      /\ \A x \in DOMAIN d : d[x].in_use => d[x].size = f[x].size
  <2>1. \A x \in DOMAIN d : d[x].in_use => x \in DOMAIN g /\ g[x].in_use
    BY <1>5 DEF SameInUse
  <2> QED BY <1>4, <1>5, <2>1 DEF SameInUse
<1>7. {x \in DOMAIN f : f[x].in_use} = {x \in DOMAIN b : b[x].in_use} \ {a}
  BY <1>2
<1>8. \A x \in DOMAIN d : d[x].in_use => d[x].size = b[x].size
  <2>1. \A x \in DOMAIN d : d[x].in_use => x \in DOMAIN f
    BY <1>6
  <2> QED BY <1>2, <1>6, <2>1
<1> QED BY <1>5, <1>6, <1>7, <1>8 DEF f, g, d, coalesce_free_blocks
------------------------------------------------------------------------------
(* What d is when the free block a of b has been taken, with size bytes,    *)
(* and a free block has been made of the rest.                              *)
SplitInto(b, a, size, d) ==
  LET new == a + Header + size  m == b[a].next IN
  /\ DOMAIN d = DOMAIN b \cup {new} /\ new \notin DOMAIN b /\ new \in Nat
  /\ a < new /\ new < EndOf(b, a)
  /\ \A x \in DOMAIN d :
       /\ d[x] \in Block
       /\ d[x].in_use <=> (x = a \/ (x # new /\ b[x].in_use))
       /\ d[x].next = IF x = a THEN new ELSE IF x = new THEN m ELSE b[x].next
       /\ d[x].prev = IF x = m THEN new ELSE IF x = new THEN a ELSE b[x].prev
       /\ d[x].size = IF x = a THEN size ELSE IF x = new THEN b[a].size - size - Header ELSE b[x].size
       /\ EndOf(d, x) = IF x = a THEN new ELSE IF x = new THEN EndOf(b, a) ELSE EndOf(b, x)

LEMMA SplitShape ==
  ASSUME NEW b, Tiled(b), NEW a \in DOMAIN b, ~b[a].in_use,
         NEW size \in Nat, b[a].size > size + Header + Slack
  PROVE  SplitInto(b, a, size, Split(b, a, size))
<1> DEFINE new == a + Header + size  m == b[a].next  d == Split(b, a, size)
           rest == b[a].size - size - Header
<1>1. /\ a \in Nat /\ b[a] \in Block /\ b[a].size \in Nat /\ Header \in Nat /\ Header > 0
      /\ Slack \in Nat /\ EndOf(b, a) = a + Header + b[a].size
  BY TiledFacts, PoolAssumption DEF EndOf
<1>2. new \in Nat /\ a < new /\ new < EndOf(b, a) /\ rest \in Nat
      /\ new + Header + rest = EndOf(b, a)
  BY <1>1
<1>3. new \notin DOMAIN b
  BY <1>2, TiledFacts
<1>4. m # a /\ m # new /\ m \in Int
  <2>1. m \in Int /\ (m = NULL \/ m = EndOf(b, a))
    BY TiledFacts
  <2> QED BY <1>1, <1>2, <2>1 DEF NULL
<1>5. d = [x \in DOMAIN b \cup {new} |->
             CASE x = a   -> [b[a] EXCEPT !.in_use = TRUE, !.size = size, !.next = new]
               [] x = new -> [size |-> rest, in_use |-> FALSE, next |-> m, prev |-> a]
               [] x # a /\ x # new /\ x = m -> [b[x] EXCEPT !.prev = new]
               [] OTHER   -> b[x]]
  BY DEF Split
<1>6. DOMAIN d = DOMAIN b \cup {new}
  BY <1>5
<1>7. ASSUME NEW x \in DOMAIN d
      PROVE  /\ d[x] \in Block
             /\ d[x].in_use <=> (x = a \/ (x # new /\ b[x].in_use))
             /\ d[x].next = IF x = a THEN new ELSE IF x = new THEN m ELSE b[x].next
             /\ d[x].prev = IF x = m THEN new ELSE IF x = new THEN a ELSE b[x].prev
             /\ d[x].size = IF x = a THEN size ELSE IF x = new THEN rest ELSE b[x].size
  <2>1. CASE x = a
    <3>1. d[x] = [b[a] EXCEPT !.in_use = TRUE, !.size = size, !.next = new]
      BY <2>1, <1>1, <1>2, <1>4, <1>5, <1>6
    <3>2. d[x] = [size |-> size, in_use |-> TRUE, next |-> new, prev |-> b[a].prev]
          /\ b[a].prev \in Int
      BY <3>1, <1>1 DEF Block
    <3> HIDE DEF d, new, m
    <3> QED BY <2>1, <3>2, <1>2, <1>4 DEF Block
  <2>2. CASE x = new
    <3>1. d[x] = [size |-> rest, in_use |-> FALSE, next |-> m, prev |-> a]
      BY <2>2, <1>2, <1>5, <1>6
    <3> HIDE DEF d, new, m, rest
    <3> QED BY <2>2, <3>1, <1>1, <1>2, <1>4 DEF Block
  <2>3. CASE x # a /\ x # new /\ x = m
    <3>1. d[x] = [b[x] EXCEPT !.prev = new] /\ x \in DOMAIN b
      BY <2>3, <1>5, <1>6
    <3>2. b[x] \in Block
      BY <3>1, TiledFacts
    <3>3. d[x] = [size |-> b[x].size, in_use |-> b[x].in_use, next |-> b[x].next, prev |-> new]
          /\ b[x].size \in Nat /\ b[x].in_use \in BOOLEAN /\ b[x].next \in Int
      BY <3>1, <3>2 DEF Block
    <3> HIDE DEF d, new, m, rest
    <3> QED BY <2>3, <3>3, <1>2 DEF Block
  <2>4. CASE x # a /\ x # new /\ x # m
    <3>1. d[x] = b[x] /\ x \in DOMAIN b
      BY <2>4, <1>5, <1>6
    <3>2. b[x] \in Block
      BY <3>1, TiledFacts
    <3> HIDE DEF d, new, m, rest
    <3> QED BY <2>4, <3>1, <3>2
  <2> QED BY <2>1, <2>2, <2>3, <2>4
<1>8. ASSUME NEW x \in DOMAIN d
      PROVE  EndOf(d, x) = IF x = a THEN new ELSE IF x = new THEN EndOf(b, a) ELSE EndOf(b, x)
  <2>1. d[x].size = IF x = a THEN size ELSE IF x = new THEN rest ELSE b[x].size
    BY <1>7
  <2>2. new = a + Header + size
    OBVIOUS
  <2> HIDE DEF d, new, m, rest
  <2> QED BY <1>2, <2>1, <2>2 DEF EndOf
<1> HIDE DEF d
<1> QED BY <1>2, <1>3, <1>6, <1>7, <1>8 DEF SplitInto, d

LEMMA SplitTiled ==
  ASSUME NEW b, Tiled(b), NEW a \in DOMAIN b, ~b[a].in_use,
         NEW size \in Nat, b[a].size > size + Header + Slack
  PROVE  Tiled(Split(b, a, size)) /\ (~TwoFree(b) => ~TwoFree(Split(b, a, size)))
<1> DEFINE new == a + Header + size  m == b[a].next  d == Split(b, a, size)
<1>0. SplitInto(b, a, size, d)
  BY SplitShape
<1> HIDE DEF d
<1>1. /\ DOMAIN d = DOMAIN b \cup {new} /\ new \notin DOMAIN b /\ new \in Nat
      /\ a < new /\ new < EndOf(b, a)
      /\ \A x \in DOMAIN d :
           /\ d[x] \in Block
           /\ d[x].in_use <=> (x = a \/ (x # new /\ b[x].in_use))
           /\ d[x].next = IF x = a THEN new ELSE IF x = new THEN m ELSE b[x].next
           /\ d[x].prev = IF x = m THEN new ELSE IF x = new THEN a ELSE b[x].prev
           /\ EndOf(d, x) = IF x = a THEN new ELSE IF x = new THEN EndOf(b, a) ELSE EndOf(b, x)
  BY <1>0 DEF SplitInto
<1> HIDE DEF new
<1>2. \A x \in DOMAIN b :
       /\ x \in Nat /\ EndOf(b, x) \in Nat /\ x < EndOf(b, x) /\ EndOf(b, x) <= BZIP2_POOL_SIZE
       /\ b[x].next = NULL <=> EndOf(b, x) = BZIP2_POOL_SIZE
       /\ b[x].next # NULL => /\ b[x].next \in DOMAIN b /\ b[x].next = EndOf(b, x)
                              /\ b[b[x].next].prev = x
       /\ b[x].prev = NULL <=> x = 0
       /\ b[x].prev # NULL => b[x].prev \in DOMAIN b /\ b[b[x].prev].next = x
       /\ \A c \in DOMAIN b : x < c => EndOf(b, x) <= c
  BY TiledFacts
<1>3. m # a /\ m # new /\ new # 0 /\ new # NULL /\ 0 \in DOMAIN d /\ DOMAIN d \subseteq Nat
      /\ new < BZIP2_POOL_SIZE /\ BZIP2_POOL_SIZE \in Nat
  BY <1>1, <1>2, PoolAssumption DEF NULL, Tiled
<1>4. ASSUME NEW x \in DOMAIN d
      PROVE  /\ EndOf(d, x) <= BZIP2_POOL_SIZE
             /\ IF EndOf(d, x) = BZIP2_POOL_SIZE
                THEN d[x].next = NULL
                ELSE d[x].next = EndOf(d, x) /\ d[x].next \in DOMAIN d /\ d[d[x].next].prev = x
  <2>1. CASE x = a
    BY <1>1, <1>2, <1>3, <2>1
  <2>2. CASE x = new
    BY <1>1, <1>2, <1>3, <2>2
  <2>3. CASE x # a /\ x # new
    <3>1. x \in DOMAIN b /\ EndOf(d, x) = EndOf(b, x) /\ d[x].next = b[x].next
      BY <1>1, <2>3
    <3>2. ASSUME b[x].next # NULL PROVE b[x].next # m /\ b[x].next # new
      <4>1. b[x].next \in DOMAIN b /\ b[b[x].next].prev = x
        BY <1>2, <3>1, <3>2
      <4>2. m = NULL \/ b[m].prev = a
        BY <1>2
      <4> QED BY <1>1, <2>3, <3>2, <4>1, <4>2
    <3> QED BY <1>1, <1>2, <3>1, <3>2
  <2> QED BY <2>1, <2>2, <2>3
<1>5. ASSUME NEW x \in DOMAIN d
      PROVE  IF x = 0 THEN d[x].prev = NULL
                      ELSE d[x].prev \in DOMAIN d /\ d[d[x].prev].next = x
  <2>1. CASE x = m
    BY <1>1, <1>2, <1>3, <2>1
  <2>2. CASE x = new
    BY <1>1, <1>2, <1>3, <2>2
  <2>3. CASE x # m /\ x # new
    <3>1. x \in DOMAIN b /\ d[x].prev = b[x].prev
      BY <1>1, <2>3
    <3>2. ASSUME b[x].prev # NULL PROVE b[x].prev # a /\ b[x].prev # new
      BY <1>1, <1>2, <2>3, <3>1, <3>2
    <3> QED BY <1>1, <1>2, <3>1, <3>2
  <2> QED BY <2>1, <2>2, <2>3
<1>6. ASSUME NEW x \in DOMAIN d, NEW c \in DOMAIN d, x < c
      PROVE  EndOf(d, x) <= c
  <2>1. CASE x = a
    <3>1. EndOf(d, x) = new
      BY <1>1, <2>1
    <3>2. c = new \/ (c \in DOMAIN b /\ EndOf(b, a) <= c)
      BY <1>1, <1>2, <1>6, <2>1
    <3> QED BY <1>1, <1>2, <1>3, <3>1, <3>2
  <2>2. CASE x = new
    <3>1. EndOf(d, x) = EndOf(b, a) /\ c \in DOMAIN b /\ a < c
      BY <1>1, <1>2, <1>6, <2>2
    <3> QED BY <1>2, <3>1
  <2>3. CASE x # a /\ x # new
    <3>1. x \in DOMAIN b /\ EndOf(d, x) = EndOf(b, x)
      BY <1>1, <2>3
    <3>2. CASE c = new
      <4>1. x < a
        BY <1>1, <1>2, <1>6, <2>3, <3>1, <3>2, SMTT(30)
      <4> QED BY <1>1, <1>2, <3>1, <3>2, <4>1
    <3>3. CASE c # new
      BY <1>1, <1>2, <1>6, <3>1, <3>3
    <3> QED BY <3>2, <3>3
  <2> QED BY <2>1, <2>2, <2>3
<1>7. Tiled(d)
  BY <1>1, <1>3, <1>4, <1>5, <1>6 DEF Tiled, Block
<1>8. ASSUME ~TwoFree(b) PROVE ~TwoFree(d)
  <2>1. ASSUME NEW x \in DOMAIN d, d[x].next # NULL, ~d[x].in_use, ~d[d[x].next].in_use
        PROVE  FALSE
    <3>1. d[x].next \in DOMAIN d /\ x # a
      BY <1>1, <1>7, <2>1, TiledFacts
    <3>2. CASE x = new
      <4>1. d[x].next = m /\ m \in DOMAIN b /\ m # NULL /\ ~b[m].in_use
        BY <1>1, <1>3, <2>1, <3>1, <3>2
      <4> QED BY <1>8, <4>1 DEF TwoFree
    <3>3. CASE x # new
      <4>1. x \in DOMAIN b /\ d[x].next = b[x].next /\ ~b[x].in_use /\ b[x].next # NULL
        BY <1>1, <2>1, <3>1, <3>3
      <4>2. b[x].next \in DOMAIN b /\ b[x].next # new
        BY <1>1, <1>2, <4>1
      <4>3. ~b[b[x].next].in_use
        BY <1>1, <2>1, <3>1, <4>1, <4>2
      <4> QED BY <1>8, <4>1, <4>3 DEF TwoFree
    <3> QED BY <3>2, <3>3
  <2> QED BY <2>1 DEF TwoFree
<1> QED BY <1>7, <1>8 DEF d
(* A request served by block a, which fits: whether it is split or not.     *)
LEMMA Allocated ==
  ASSUME NEW b, Tiled(b), ~TwoFree(b), NEW a \in DOMAIN b, ~b[a].in_use,
         NEW size \in Nat, b[a].size >= size
  PROVE  LET d == allocate_from_pool(b, a, size) IN
         /\ Tiled(d) /\ ~TwoFree(d)
         /\ {x \in DOMAIN d : d[x].in_use} = {x \in DOMAIN b : b[x].in_use} \cup {a}
         /\ d[a].size >= size
         /\ \A x \in DOMAIN b : b[x].in_use => d[x].size = b[x].size
<1>1. CASE b[a].size > size + Header + Slack
  <2> DEFINE d == Split(b, a, size)  new == a + Header + size
  <2>0. SplitInto(b, a, size, d) /\ Tiled(d) /\ ~TwoFree(d) /\ d = allocate_from_pool(b, a, size)
    BY <1>1, SplitShape, SplitTiled DEF allocate_from_pool
  <2> HIDE DEF d
  <2>1. /\ DOMAIN d = DOMAIN b \cup {new} /\ new \notin DOMAIN b
        /\ \A x \in DOMAIN d :
             /\ d[x].in_use <=> (x = a \/ (x # new /\ b[x].in_use))
             /\ x = a => d[x].size = size
             /\ x # a /\ x # new => d[x].size = b[x].size
    BY <2>0 DEF SplitInto
  <2> HIDE DEF new
  <2>2. {x \in DOMAIN d : d[x].in_use} = {x \in DOMAIN b : b[x].in_use} \cup {a}
    BY <2>1
  <2>3. d[a].size >= size /\ \A x \in DOMAIN b : b[x].in_use => d[x].size = b[x].size
    BY <2>1
  <2> QED BY <2>0, <2>2, <2>3
<1>2. CASE ~(b[a].size > size + Header + Slack)
  <2> DEFINE d == [b EXCEPT ![a].in_use = TRUE]
  <2>1. d = allocate_from_pool(b, a, size)
    BY <1>2 DEF allocate_from_pool
  <2>2. DOMAIN d = DOMAIN b
    OBVIOUS
  <2>3. ASSUME NEW x \in DOMAIN b
        PROVE  /\ d[x] \in Block /\ d[x].size = b[x].size /\ d[x].next = b[x].next
               /\ d[x].prev = b[x].prev /\ EndOf(d, x) = EndOf(b, x)
               /\ d[x].in_use <=> (x = a \/ b[x].in_use)
    <3>1. b[x] \in Block
      BY TiledFacts
    <3>2. d[x] = IF x = a THEN [b[x] EXCEPT !.in_use = TRUE] ELSE b[x]
      OBVIOUS
    <3> HIDE DEF d
    <3> QED BY <3>1, <3>2 DEF Block, EndOf
  <2> HIDE DEF d
  <2>4. Tiled(d)
    BY <2>2, <2>3 DEF Tiled, Block
  <2>5. ~TwoFree(d)
    <3>1. \A x \in DOMAIN b : b[x].next # NULL => b[x].next \in DOMAIN b
      BY TiledFacts
    <3> QED BY <2>2, <2>3, <3>1 DEF TwoFree
  <2>6. {x \in DOMAIN d : d[x].in_use} = {x \in DOMAIN b : b[x].in_use} \cup {a}
    BY <2>2, <2>3
  <2> QED BY <2>1, <2>3, <2>4, <2>5, <2>6
<1> QED BY <1>1, <1>2

(* Rounding up does not make a request smaller. *)
LEMMA AlignedFits ==
  ASSUME NEW n \in Nat
  PROVE  Aligned(n) \in Nat /\ Aligned(n) >= n
<1> DEFINE s == n + BZIP2_ALIGNMENT - 1
<1>1. BZIP2_ALIGNMENT \in Nat /\ BZIP2_ALIGNMENT > 0 /\ s \in Nat
  BY PoolAssumption
<1>2. s % BZIP2_ALIGNMENT \in 0..(BZIP2_ALIGNMENT - 1)
  <2> HIDE DEF s
  <2> QED BY <1>1
<1>3. Aligned(n) = s - (s % BZIP2_ALIGNMENT)
  BY DEF Aligned
<1> QED BY <1>1, <1>2, <1>3

------------------------------------------------------------------------------
(* The inductive invariant: without a pool there are no blocks, and the     *)
(* requests still to be made are for natural numbers of bytes.              *)
IInv ==
  /\ up \in BOOLEAN /\ (~up => block = NoBlocks)
  /\ PoolTiled /\ HeldFits
  /\ todo \in Seq(Buffers \X Nat)

(* The pool, as opposed to the requests still to be made. *)
PoolPart == (~up => block = NoBlocks) /\ PoolTiled /\ HeldFits

LEMMA MallocStep ==
  ASSUME IInv, NEW n \in Nat, NEW ptr, Malloc(n, ptr), up' = up
  PROVE  PoolPart'
<1>1. CASE UNCHANGED <<block, held>>
  BY <1>1 DEF PoolPart, IInv, PoolTiled, HeldFits
<1>2. CASE /\ up /\ ptr \in Fitting(n)
           /\ block' = allocate_from_pool(block, ptr, Aligned(n))
           /\ held' = [a \in DOMAIN held \cup {ptr} |-> IF a = ptr THEN n ELSE held[a]]
  <2>1. ptr \in DOMAIN block /\ ~block[ptr].in_use /\ block[ptr].size >= Aligned(n)
    BY <1>2 DEF Fitting, FreeList
  <2>2. Tiled(block) /\ ~TwoFree(block) /\ HeldFits
    BY <1>2 DEF IInv, PoolTiled
  <2>3. Aligned(n) \in Nat /\ Aligned(n) >= n
    BY AlignedFits
  <2>4. /\ Tiled(block') /\ ~TwoFree(block')
        /\ {x \in DOMAIN block' : block'[x].in_use} = {x \in DOMAIN block : block[x].in_use} \cup {ptr}
        /\ block'[ptr].size >= Aligned(n)
        /\ \A x \in DOMAIN block : block[x].in_use => block'[x].size = block[x].size
    BY <1>2, <2>1, <2>2, <2>3, Allocated
  <2>5. PoolTiled'
    BY <2>4 DEF PoolTiled
  <2>6. HeldFits'
    <3>1. DOMAIN held' = DOMAIN held \cup {ptr} /\ ptr \notin DOMAIN held
      BY <1>2, <2>1, <2>2 DEF HeldFits
    <3>2. ptr \in DOMAIN block' /\ block'[ptr].size \in Nat
      BY <2>4, TiledFacts
    <3>3. ASSUME NEW a \in DOMAIN held' PROVE block'[a].size >= held'[a]
      <4>1. CASE a = ptr
        BY <1>2, <2>3, <2>4, <3>2, <4>1
      <4>2. CASE a # ptr
        <5>1. a \in DOMAIN held /\ held'[a] = held[a]
          BY <1>2, <3>1, <4>2
        <5>2. a \in DOMAIN block /\ block[a].in_use /\ block[a].size >= held[a]
          BY <2>2, <5>1 DEF HeldFits
        <5> QED BY <2>4, <5>1, <5>2
      <4> QED BY <4>1, <4>2
    <3> QED BY <2>2, <2>4, <3>1, <3>3 DEF HeldFits
  <2> QED BY <1>2, <2>5, <2>6 DEF PoolPart
<1> QED BY <1>1, <1>2 DEF Malloc

LEMMA FreeStep ==
  ASSUME IInv, NEW a \in DOMAIN held, FreePool(a), up' = up
  PROVE  PoolPart'
<1>1. a \in DOMAIN block /\ HeldFits
  BY DEF IInv, HeldFits
<1>2. up /\ Tiled(block) /\ ~TwoFree(block)
  BY <1>1 DEF IInv, PoolTiled, NoBlocks
<1>3. /\ Tiled(block') /\ ~TwoFree(block')
      /\ {x \in DOMAIN block' : block'[x].in_use} = {x \in DOMAIN block : block[x].in_use} \ {a}
      /\ \A x \in DOMAIN block' : block'[x].in_use => block'[x].size = block[x].size
  <2> DEFINE d == coalesce_free_blocks([block EXCEPT ![a].in_use = FALSE], a)
  <2>1. /\ Tiled(d) /\ ~TwoFree(d)
        /\ {x \in DOMAIN d : d[x].in_use} = {x \in DOMAIN block : block[x].in_use} \ {a}
        /\ \A x \in DOMAIN d : d[x].in_use => d[x].size = block[x].size
    BY <1>1, <1>2, FreedAndCoalesced
  <2>2. block' = d
    BY DEF FreePool
  <2> HIDE DEF d
  <2> QED BY <2>1, <2>2
<1>4. DOMAIN held' = DOMAIN held \ {a} /\ \A x \in DOMAIN held' : held'[x] = held[x]
  BY DEF FreePool
<1>5. HeldFits'
  <2>1. DOMAIN held' = {x \in DOMAIN block' : block'[x].in_use}
    BY <1>1, <1>3, <1>4 DEF HeldFits
  <2>2. ASSUME NEW x \in DOMAIN held' PROVE block'[x].size >= held'[x]
    <3>1. block[x].size >= held[x] /\ held'[x] = held[x]
      BY <1>1, <1>4 DEF HeldFits
    <3>2. block'[x].size = block[x].size
      BY <1>3, <2>1
    <3> QED BY <3>1, <3>2
  <2> QED BY <2>1, <2>2 DEF HeldFits
<1> QED BY <1>2, <1>3, <1>5 DEF PoolPart, PoolTiled

LEMMA InitIInv == Init => IInv
<1> SUFFICES ASSUME Init PROVE IInv
  OBVIOUS
<1>1. DOMAIN block = {} /\ DOMAIN held = {}
  BY DEF Init, NoBlocks
<1>2. HeldFits
  BY <1>1 DEF HeldFits
<1>3. up = FALSE /\ block = NoBlocks /\ todo = <<>>
  BY DEF Init
<1>4. todo \in Seq(Buffers \X Nat)
  BY <1>3
<1> QED BY <1>2, <1>3, <1>4 DEF IInv, PoolTiled

LEMMA NextIInv == IInv /\ [Next]_vars => IInv'
<1> SUFFICES ASSUME IInv, [Next]_vars PROVE IInv'
  OBVIOUS
<1> USE DEF IInv
<1>1. CASE UNCHANGED vars
  BY <1>1 DEF vars, PoolTiled, HeldFits
<1>2. CASE FillBuffer
  <2>1. PICK ptr : Malloc(Head(todo)[2], ptr)
    BY <1>2 DEF FillBuffer
  <2>2. todo # <<>> /\ todo' = Tail(todo) /\ up' = up
    BY <1>2 DEF FillBuffer
  <2>3. Head(todo) \in Buffers \X Nat /\ todo' \in Seq(Buffers \X Nat)
    BY <2>2
  <2>4. PoolPart'
    BY <2>1, <2>2, <2>3, MallocStep
  <2> QED BY <2>2, <2>3, <2>4 DEF PoolPart
<1>3. ASSUME NEW gotPool \in BOOLEAN, InitAllocator(gotPool) PROVE IInv'
  <2>1. CASE UNCHANGED <<up, block>>
    BY <1>3, <2>1 DEF InitAllocator, PoolTiled, HeldFits
  <2>2. CASE ~up /\ up' = TRUE /\ block' = [a \in {0} |-> InitialBlock]
    <3>1. held' = held /\ DOMAIN held = {} /\ todo' = todo
      BY <1>3, <2>2 DEF InitAllocator, HeldFits, NoBlocks
    <3>2. DOMAIN block' = {0} /\ block'[0] = InitialBlock
      BY <2>2
    <3>3. InitialBlock \in Block /\ InitialBlock.next = NULL /\ InitialBlock.prev = NULL
          /\ InitialBlock.size = BZIP2_POOL_SIZE - Header /\ InitialBlock.in_use = FALSE
      BY PoolAssumption DEF InitialBlock, Block, NULL
    <3>4. EndOf(block', 0) = BZIP2_POOL_SIZE
      BY <3>2, <3>3, PoolAssumption DEF EndOf
    <3>5. Tiled(block')
      BY <3>2, <3>3, <3>4, PoolAssumption DEF Tiled, Block
    <3>6. ~TwoFree(block') /\ HeldFits'
      BY <3>1, <3>2, <3>3 DEF TwoFree, HeldFits
    <3> QED BY <2>2, <3>1, <3>5, <3>6 DEF PoolTiled
  <2> QED BY <1>3, <2>1, <2>2 DEF InitAllocator
<1>4. ASSUME NEW n \in Sizes, StreamAlloc(n) PROVE IInv'
  <2>1. PICK ptr : Malloc(n, ptr)
    BY <1>4 DEF StreamAlloc
  <2>2. n \in Nat /\ up' = up /\ todo' = todo
    BY <1>4, PoolAssumption DEF StreamAlloc
  <2>3. PoolPart'
    BY <2>1, <2>2, MallocStep
  <2> QED BY <2>2, <2>3 DEF PoolPart
<1>5. ASSUME NEW n \in Sizes, Preallocate(n) PROVE IInv'
  <2>1. n \in Nat /\ n \div 2 \in Nat /\ n \div 4 \in Nat
    BY PoolAssumption
  <2>2. todo' \in Seq(Buffers \X Nat)
    BY <1>5, <2>1 DEF Preallocate, Buffers
  <2> QED BY <1>5, <2>2 DEF Preallocate, PoolTiled, HeldFits
<1>6. ASSUME NEW a \in DOMAIN held, StreamFree(a) PROVE IInv'
  <2>1. up' = up /\ todo' = todo /\ FreePool(a)
    BY <1>6 DEF StreamFree
  <2>2. PoolPart'
    BY <2>1, FreeStep
  <2> QED BY <2>1, <2>2 DEF PoolPart
<1>7. CASE StreamFreeSystem \/ ResetStats
  <2>1. up' = up /\ block' = block /\ held' = held /\ todo' = todo
    BY <1>7 DEF StreamFreeSystem, ResetStats
  <2> QED BY <2>1 DEF PoolTiled, HeldFits
<1>8. CASE Cleanup
  <2>1. up' = FALSE /\ block' = NoBlocks /\ held' = NoBlocks /\ todo' = todo
    BY <1>8 DEF Cleanup
  <2>2. HeldFits'
    BY <2>1 DEF HeldFits, NoBlocks
  <2> QED BY <2>1, <2>2 DEF PoolTiled
<1>9. CASE Defragment
  <2>1. block' = block /\ up' = up /\ held' = held /\ todo' = todo
    BY <1>9 DEF Defragment, PoolTiled
  <2> QED BY <2>1 DEF PoolTiled, HeldFits
<1> QED BY <1>1, <1>2, <1>3, <1>4, <1>5, <1>6, <1>7, <1>8, <1>9 DEF Next, Call

(* Whatever is allocated and freed, in whatever order, the blocks tile the  *)
(* pool and no two free ones are neighbours (bzip2_optimized_malloc and     *)
(* _free, coalesce_free_blocks, bzip2_defragment_memory_pool).              *)
THEOREM PoolStaysTiled == Spec => []PoolTiled
<1>1. IInv => PoolTiled
  BY DEF IInv
<1> QED BY InitIInv, NextIInv, <1>1, PTL DEF Spec

(* Every pointer handed out keeps a block of its own that is long enough,   *)
(* until it is given back.                                                  *)
THEOREM HeldStaysFitting == Spec => []HeldFits
<1>1. IInv => HeldFits
  BY DEF IInv
<1> QED BY InitIInv, NextIInv, <1>1, PTL DEF Spec
=============================================================================
