-------------------------- MODULE AllocatorProofs --------------------------
(***************************************************************************)
(* The two allocators.  Of balloc/balloc.c, for any sizes, any alignment   *)
(* and any number of blocks: the blocks lie apart, and none is lost or     *)
(* handed out twice.  Of slab/slab_allocator.c, for any pool, any classes  *)
(* and any sequence of calls: the lists of chunks stay linked both ways,   *)
(* no chunk is lost, and together they are sets of chunks.                 *)
(***************************************************************************)
EXTENDS SlabAllocator, BlockPool, DataLemmas, TLAPS

-----------------------------------------------------------------------------
(* Blocks: balloc.c.                                                       *)

(* A block is at most Alignment - 1 bytes behind the room for the pointer  *)
(* to its chunk (aligned_malloc).                                          *)
LEMMA AlignedBounds ==
  ASSUME NEW ptr \in Int
  PROVE  /\ aligned_malloc(ptr) \in Int
         /\ ptr + PointerSize <= aligned_malloc(ptr)
         /\ aligned_malloc(ptr) <= ptr + PointerSize + Alignment - 1
         /\ aligned_malloc(ptr) % Alignment = 0
  <1> DEFINE addr == ptr + Alignment - 1 + PointerSize
             q == addr \div Alignment
  <1>1. Alignment \in Nat \ {0} /\ PointerSize \in Nat \ {0}
    BY BlockSizesAssumption
  <1>2. addr \in Int
    BY <1>1
  <1>3. addr % Alignment \in 0 .. Alignment - 1
    BY <1>1, <1>2
  <1>4. q \in Int /\ addr = Alignment * q + (addr % Alignment)
    BY <1>1, <1>2
  <1>5. (Alignment * q) % Alignment = 0
    BY <1>1, <1>4
  <1>6. aligned_malloc(ptr) = Alignment * q
    BY <1>1, <1>2, <1>3, <1>4 DEF aligned_malloc
  <1>7. aligned_malloc(ptr) = addr - (addr % Alignment)
    BY DEF aligned_malloc
  <1> QED
    BY <1>1, <1>2, <1>3, <1>5, <1>6, <1>7

(* The chunks, as malloc gave them.                                        *)
Laid == chunk \in [Numbers -> 0 .. MaxAddress] /\ Disjoint(chunk)

(* The blocks of two chunks, each with its pointer, do not meet.           *)
LEMMA Apart ==
  ASSUME Laid, NEW j \in Numbers, NEW k \in Numbers, j # k
  PROVE  Extent(aligned_malloc(chunk[j]))
           \cap Extent(aligned_malloc(chunk[k])) = {}
  <1> DEFINE b == aligned_malloc(chunk[j])
             c == aligned_malloc(chunk[k])
  <1>1. chunk[j] \in Int /\ chunk[k] \in Int
    BY BlockSizesAssumption DEF Laid
  <1>2. \/ chunk[j] + MallocSize <= chunk[k]
        \/ chunk[k] + MallocSize <= chunk[j]
    BY DEF Laid, Disjoint
  <1>3. /\ b \in Int /\ chunk[j] + PointerSize <= b
        /\ b <= chunk[j] + PointerSize + Alignment - 1
    BY <1>1, AlignedBounds
  <1>4. /\ c \in Int /\ chunk[k] + PointerSize <= c
        /\ c <= chunk[k] + PointerSize + Alignment - 1
    BY <1>1, AlignedBounds
  <1>5. b + block_size <= c - PointerSize \/ c + block_size <= b - PointerSize
    <2> HIDE DEF b, c
    <2> QED
      BY <1>1, <1>2, <1>3, <1>4, BlockSizesAssumption DEF MallocSize
  <1> HIDE DEF b, c
  <1>6. Extent(b) \cap Extent(c) = {}
    BY <1>3, <1>4, <1>5, BlockSizesAssumption DEF Extent
  <1> QED
    BY <1>6 DEF b, c

(* Two chunks have two blocks: a block's address tells whose it is.        *)
LEMMA Distinct ==
  ASSUME Laid, NEW j \in Numbers, NEW k \in Numbers, j # k
  PROVE  aligned_malloc(chunk[j]) # aligned_malloc(chunk[k])
  <1>1. chunk[j] \in Int
    BY BlockSizesAssumption DEF Laid
  <1>2. aligned_malloc(chunk[j]) \in Int
    BY <1>1, AlignedBounds
  <1>3. aligned_malloc(chunk[j]) \in Extent(aligned_malloc(chunk[j]))
    BY <1>2, BlockSizesAssumption DEF Extent
  <1> QED
    BY <1>3, Apart

-----------------------------------------------------------------------------
(* Besides the accounting, that the chunks stay where they are and that    *)
(* what the program holds can be counted.                                  *)
Accounting == BlockTypeOK /\ Laid /\ IsFiniteSet(held) /\ BlocksAccounted

(* A block is an address.                                                  *)
LEMMA BlocksAreInt == Laid => Blocks \subseteq Int
  BY AlignedBounds, BlockSizesAssumption DEF Laid, Blocks

(* A new pool has all its blocks in its list, no pool has none             *)
(* (create_block_pool).                                                    *)
LEMMA Initially == BlockInit => Accounting
  <1> SUFFICES ASSUME BlockInit PROVE Accounting
    OBVIOUS
  <1> USE DEF BlockInit, create_block_pool
  <1>1. Laid
    BY DEF Laid
  <1>2. list \in Seq(Blocks)
    <2>1. \A k \in Numbers : aligned_malloc(chunk[k]) \in Blocks
      BY DEF Blocks
    <2> QED
      BY <2>1, BlockSizesAssumption DEF Numbers
  <1>3. BlockTypeOK
    <2>1. num_avail_blocks \in 0 .. num_blocks
      BY BlockSizesAssumption
    <2>2. held \subseteq Blocks /\ crashed \in BOOLEAN
      OBVIOUS
    <2> QED
      BY <1>2, <2>1, <2>2 DEF BlockTypeOK
  <1>4. IsFiniteSet(held) /\ Cardinality(held) = 0
    BY FS_EmptySet
  <1>5. ASSUME pool # NULL PROVE BlocksAccounted
    <2>1. list = [k \in Numbers |-> aligned_malloc(chunk[k])]
          /\ num_avail_blocks = num_blocks /\ held = {}
      BY <1>5
    <2>2. Len(list) = num_blocks /\ DOMAIN list = Numbers
      BY <2>1, BlockSizesAssumption DEF Numbers
    <2>3. \A j, k \in Numbers : j # k => list[j] # list[k]
      BY <1>1, <2>1, Distinct
    <2>4. \A b \in Blocks : InPool(b)
      BY <2>1, <2>2 DEF Blocks, InPool
    <2> QED
      BY <1>4, <2>1, <2>2, <2>3, <2>4, BlockSizesAssumption DEF BlocksAccounted
  <1> QED
    BY <1>1, <1>3, <1>4, <1>5 DEF Accounting, BlocksAccounted

(* alloc_align_block.                                                      *)
LEMMA AllocKeeps ==
  ASSUME Accounting, alloc_align_block
  PROVE  Accounting'
  <1> USE DEF Accounting, fixed
  <1>0. num_blocks \in Nat /\ BlockTypeOK /\ Laid /\ IsFiniteSet(held)
    BY BlockSizesAssumption
  <1>1. pool # NULL /\ num_avail_blocks > 0 /\ num_avail_blocks = Len(list)
    BY DEF alloc_align_block, CanAlloc, BlocksAccounted
  <1>2. list # <<>> /\ list \in Seq(Blocks)
    BY <1>1 DEF BlockTypeOK
  <1> DEFINE h == Head(list)
  <1>3. /\ h = list[1] /\ h \in Blocks /\ 1 \in DOMAIN list
        /\ Len(Tail(list)) = Len(list) - 1
        /\ DOMAIN Tail(list) = 1 .. Len(list) - 1
        /\ \A k \in 1 .. Len(list) - 1 : Tail(list)[k] = list[k + 1]
        /\ DOMAIN list = 1 .. Len(list)
    BY <1>2
  <1>4. /\ held' = held \cup {h} /\ list' = Tail(list) /\ crashed' = FALSE
        /\ num_avail_blocks' = num_avail_blocks - 1
        /\ pool' = pool /\ chunk' = chunk /\ last' = last
    BY <1>2 DEF alloc_align_block
  <1>5. h \notin held
    BY <1>1, <1>3 DEF BlocksAccounted
  <1>6. Blocks' = Blocks
    BY <1>4 DEF Blocks
  <1>7. BlockTypeOK'
    <2>1. num_avail_blocks' \in 0 .. num_blocks
      BY <1>0, <1>1, <1>4 DEF BlockTypeOK
    <2>2. list' \in Seq(Blocks)
      BY <1>2, <1>4
    <2>3. held' \subseteq Blocks
      BY <1>0, <1>3, <1>4 DEF BlockTypeOK
    <2> QED
      BY <1>0, <1>4, <1>6, <2>1, <2>2, <2>3 DEF BlockTypeOK
  <1>8. Laid'
    BY <1>0, <1>4 DEF Laid
  <1>9. IsFiniteSet(held') /\ Cardinality(held') = Cardinality(held) + 1
    BY <1>0, <1>4, <1>5, FS_AddElement
  <1>10. BlocksAccounted'
    <2>1. num_avail_blocks' = Len(list')
      BY <1>1, <1>3, <1>4
    <2>2. \A j, k \in DOMAIN list' : j # k => list'[j] # list'[k]
      BY <1>1, <1>3, <1>4 DEF BlocksAccounted
    <2>3. \A k \in DOMAIN list' : list'[k] \notin held'
      BY <1>1, <1>3, <1>4 DEF BlocksAccounted
    <2>4. ASSUME NEW b \in Blocks PROVE b \in held' \/ InPool(b)'
      <3>1. CASE b \in held
        BY <3>1, <1>4
      <3>2. CASE InPool(b)
        <4>1. PICK k \in DOMAIN list : list[k] = b
          BY <3>2 DEF InPool
        <4>2. CASE k = 1
          BY <4>1, <4>2, <1>3, <1>4
        <4>3. CASE k # 1
          <5>1. k - 1 \in DOMAIN list' /\ list'[k - 1] = b
            BY <4>1, <4>3, <1>2, <1>3, <1>4
          <5> QED
            BY <5>1 DEF InPool
        <4> QED
          BY <4>2, <4>3
      <3> QED
        BY <1>1, <3>1, <3>2 DEF BlocksAccounted
    <2>5. num_avail_blocks' + Cardinality(held') = num_blocks
      <3>1. Cardinality(held) \in Nat
        BY <1>0, FS_CardinalityType
      <3>2. num_avail_blocks + Cardinality(held) = num_blocks
        BY <1>1 DEF BlocksAccounted
      <3>3. num_avail_blocks \in Nat
        BY <1>0 DEF BlockTypeOK
      <3> QED
        BY <1>0, <1>4, <1>9, <3>1, <3>2, <3>3
    <2> QED
      BY <1>6, <2>1, <2>2, <2>3, <2>4, <2>5 DEF BlocksAccounted
  <1> QED
    BY <1>7, <1>8, <1>9, <1>10

(* What passes the tests of free_align_block and is not in the list is a   *)
(* block the program holds: the accounting leaves nothing else.            *)
LEMMA FreedIsHeld ==
  ASSUME Accounting, NEW blk \in BlockPointers, Scanned(blk)
  PROVE  blk \in Blocks /\ blk \in held
  <1>1. blk # NULL /\ blk % Alignment = 0 /\ pool # NULL
    BY DEF Scanned, MayFree
  <1>2. blk \in Blocks
    BY <1>1 DEF BlockPointers, Moved
  <1> QED
    BY <1>1, <1>2 DEF Scanned, Accounting, BlocksAccounted

(* free_align_block, when it puts the block back.                          *)
LEMMA FreeKeeps ==
  ASSUME Accounting, NEW blk \in BlockPointers, free_align_block(blk)
  PROVE  Accounting'
  <1> USE DEF Accounting, fixed
  <1>0. num_blocks \in Nat /\ BlockTypeOK /\ Laid /\ IsFiniteSet(held)
    BY BlockSizesAssumption
  <1>1. Scanned(blk) /\ pool # NULL /\ ~ InPool(blk)
        /\ num_avail_blocks < num_blocks
    BY DEF free_align_block, Scanned, MayFree
  <1>2. blk \in Blocks /\ blk \in held
    BY <1>1, FreedIsHeld
  <1>3. /\ held' = held \ {blk} /\ list' = <<blk>> \o list
        /\ num_avail_blocks' = num_avail_blocks + 1
        /\ pool' = pool /\ chunk' = chunk /\ last' = last
        /\ crashed' = crashed
    BY DEF free_align_block
  <1>4. list \in Seq(Blocks) /\ num_avail_blocks = Len(list)
    BY <1>1 DEF BlockTypeOK, BlocksAccounted
  <1>5. /\ list' \in Seq(Blocks) /\ Len(list') = Len(list) + 1
        /\ DOMAIN list' = 1 .. Len(list) + 1
        /\ DOMAIN list = 1 .. Len(list)
        /\ list'[1] = blk
        /\ \A k \in 2 .. Len(list) + 1 : list'[k] = list[k - 1]
    BY <1>2, <1>3, <1>4
  <1>6. Blocks' = Blocks
    BY <1>3 DEF Blocks
  <1>7. BlockTypeOK'
    BY <1>0, <1>1, <1>3, <1>5, <1>6 DEF BlockTypeOK
  <1>8. Laid'
    BY <1>0, <1>3 DEF Laid
  <1>9. IsFiniteSet(held') /\ Cardinality(held') = Cardinality(held) - 1
    BY <1>0, <1>2, <1>3, FS_RemoveElement
  <1>10. BlocksAccounted'
    <2>1. num_avail_blocks' = Len(list')
      BY <1>3, <1>4, <1>5
    <2>2. ASSUME NEW j \in DOMAIN list', NEW k \in DOMAIN list', j # k
          PROVE  list'[j] # list'[k]
      <3>1. \A m \in DOMAIN list : list[m] # blk
        BY <1>1 DEF InPool
      <3>2. CASE j = 1 \/ k = 1
        BY <1>4, <1>5, <2>2, <3>1, <3>2
      <3>3. CASE j # 1 /\ k # 1
        <4>1. /\ j - 1 \in DOMAIN list /\ k - 1 \in DOMAIN list
              /\ j - 1 # k - 1
              /\ list'[j] = list[j - 1] /\ list'[k] = list[k - 1]
          BY <1>4, <1>5, <2>2, <3>3
        <4>2. \A m, n \in DOMAIN list : m # n => list[m] # list[n]
          BY <1>1 DEF BlocksAccounted
        <4> QED
          BY <4>1, <4>2
      <3> QED
        BY <3>2, <3>3
    <2>3. \A k \in DOMAIN list' : list'[k] \notin held'
      BY <1>1, <1>3, <1>4, <1>5 DEF BlocksAccounted
    <2>4. ASSUME NEW b \in Blocks PROVE b \in held' \/ InPool(b)'
      <3>1. CASE b = blk
        BY <3>1, <1>4, <1>5 DEF InPool
      <3>2. CASE b \in held /\ b # blk
        BY <3>2, <1>3
      <3>3. CASE InPool(b)
        <4>1. PICK k \in DOMAIN list : list[k] = b
          BY <3>3 DEF InPool
        <4>2. k + 1 \in DOMAIN list' /\ list'[k + 1] = b
          BY <4>1, <1>4, <1>5
        <4> QED
          BY <4>2 DEF InPool
      <3> QED
        BY <1>1, <3>1, <3>2, <3>3 DEF BlocksAccounted
    <2>5. num_avail_blocks' + Cardinality(held') = num_blocks
      <3>1. Cardinality(held) \in Nat
        BY <1>0, FS_CardinalityType
      <3> QED
        BY <1>0, <1>1, <1>3, <1>9, <3>1 DEF BlocksAccounted, BlockTypeOK
    <2> QED
      BY <1>6, <2>1, <2>2, <2>3, <2>4, <2>5 DEF BlocksAccounted
  <1> QED
    BY <1>7, <1>8, <1>9, <1>10

(* The steps that leave the list and what is held alone.                   *)
LEMMA RestKeeps ==
  ASSUME Accounting,
         UNCHANGED <<fixed, list, num_avail_blocks, held>>,
         crashed' \in BOOLEAN
  PROVE  Accounting'
  BY DEF Accounting, BlockTypeOK, Laid, BlocksAccounted, InPool, Blocks, fixed

(* Every step keeps the invariant.                                         *)
LEMMA Step == Accounting /\ [BlockNext]_block_vars => Accounting'
  <1> SUFFICES ASSUME Accounting, [BlockNext]_block_vars PROVE Accounting'
    OBVIOUS
  <1>0. crashed \in BOOLEAN
    BY DEF Accounting, BlockTypeOK
  <1>1. CASE alloc_align_block
    BY <1>1, AllocKeeps
  <1>2. ASSUME NEW blk \in BlockPointers, free_align_block(blk)
        PROVE  Accounting'
    BY <1>2, FreeKeeps
  <1>3. ASSUME NEW blk \in BlockPointers, FollowsUnset(blk) PROVE Accounting'
    BY <1>3, RestKeeps DEF FollowsUnset
  <1>4. CASE UNCHANGED block_vars
    BY <1>0, <1>4, RestKeeps DEF block_vars
  <1> QED
    BY <1>1, <1>2, <1>3, <1>4
       DEF BlockNext, Free, BlockAllocRefused, BlockFreeRefused,
           FreeNoMemory, BlockCrash

(* The inductive invariant.                                                *)
THEOREM BlockInvariance == BlockSpec => []Accounting
  BY Initially, Step, PTL DEF BlockSpec

(* Every variable keeps its type: the list holds blocks of the pool only.  *)
THEOREM BlockTypeCorrect == BlockSpec => []BlockTypeOK
  BY BlockInvariance, PTL DEF Accounting

(* No block of a pool of any size is lost, or is in the list twice, or     *)
(* both in the list and in the program's hands.                            *)
THEOREM NoBlockLost == BlockSpec => []BlocksAccounted
  BY BlockInvariance, PTL DEF Accounting

(* Blocks of any size and alignment lie apart, each with its pointer in    *)
(* the memory that was asked for.                                          *)
THEOREM BlocksLieApart == BlockSpec => []BlocksApart
  <1>1. ASSUME Accounting PROVE BlocksApart
    <2>1. Laid
      BY <1>1 DEF Accounting
    <2>2. \A k \in Numbers : chunk[k] \in Int
      BY <2>1, BlockSizesAssumption DEF Laid
    <2>3. \A b \in Blocks : b % Alignment = 0
      BY <2>2, AlignedBounds DEF Blocks
    <2>4. ASSUME NEW b \in held, NEW k \in Numbers,
                 b # aligned_malloc(chunk[k])
          PROVE  Extent(b) \cap Extent(aligned_malloc(chunk[k])) = {}
      <3>1. PICK j \in Numbers : b = aligned_malloc(chunk[j])
        BY <1>1 DEF Accounting, BlockTypeOK, Blocks
      <3> QED
        BY <2>1, <2>4, <3>1, Apart
    <2>5. ASSUME NEW k \in Numbers
          PROVE  Extent(aligned_malloc(chunk[k]))
                   \subseteq chunk[k] .. (chunk[k] + MallocSize - 1)
      <3> DEFINE b == aligned_malloc(chunk[k])
      <3>1. /\ chunk[k] \in Int
            /\ b \in Int /\ chunk[k] + PointerSize <= b
            /\ b <= chunk[k] + PointerSize + Alignment - 1
        BY <2>2, AlignedBounds
      <3> HIDE DEF b
      <3>2. Extent(b) \subseteq chunk[k] .. (chunk[k] + MallocSize - 1)
        BY <3>1, BlockSizesAssumption DEF Extent, MallocSize
      <3> QED
        BY <3>2 DEF b
    <2> QED
      BY <2>3, <2>4, <2>5 DEF BlocksApart
  <1> QED
    BY <1>1, BlockInvariance, PTL

-----------------------------------------------------------------------------
(* A new pool is a set of free blocks that are nobody's.                   *)
LEMMA BlockInitIsPool == BlockInit => BlockSets!Init
  <1> SUFFICES ASSUME BlockInit PROVE BlockSets!Init
    OBVIOUS
  <1>1. Accounting
    BY Initially
  <1>2. list \in Seq(Blocks) /\ Blocks \subseteq Int /\ held = {}
    BY <1>1, BlocksAreInt DEF Accounting, BlockTypeOK, BlockInit
  <1> DEFINE S == {list[k] : k \in DOMAIN list}
  <1>3. S \in SUBSET Int
    <2>1. \A k \in DOMAIN list : list[k] \in Blocks
      BY <1>2
    <2> QED
      BY <1>2, <2>1
  <1> HIDE DEF S
  <1>4. [c \in {1} |-> S] \in [{1} -> SUBSET Int]
    BY <1>3
  <1>5. [c \in {1} |-> held] = [c \in {1} |-> {}]
    BY <1>2
  <1> QED
    BY <1>4, <1>5 DEF BlockSets!Init, S

(* alloc_align_block takes one free block out of the set.                  *)
LEMMA BlockAllocIsPool ==
  ASSUME Accounting, alloc_align_block
  PROVE  BlockSets!Alloc(1)
  <1>1. /\ pool # NULL /\ num_avail_blocks > 0 /\ num_avail_blocks = Len(list)
        /\ list \in Seq(Blocks)
        /\ \A j, k \in DOMAIN list : j # k => list[j] # list[k]
    BY DEF alloc_align_block, CanAlloc, Accounting, BlocksAccounted,
           BlockTypeOK
  <1>2. list # <<>>
    BY <1>1
  <1> DEFINE h == Head(list)
  <1>3. /\ h = list[1] /\ DOMAIN list = 1 .. Len(list) /\ Len(list) \in Nat
        /\ 1 \in DOMAIN list
        /\ DOMAIN Tail(list) = 1 .. Len(list) - 1
        /\ \A k \in 1 .. Len(list) - 1 : Tail(list)[k] = list[k + 1]
    BY <1>1, <1>2
  <1>4. held' = held \cup {h} /\ list' = Tail(list)
    BY <1>2 DEF alloc_align_block
  <1> DEFINE S == {list[k] : k \in DOMAIN list}
             T == {list'[k] : k \in DOMAIN list'}
  <1>5. T = S \ {h}
    <2>1. ASSUME NEW x \in T PROVE x \in S /\ x # h
      <3>1. PICK k \in 1 .. Len(list) - 1 : x = list[k + 1]
        BY <1>3, <1>4
      <3>2. k + 1 \in DOMAIN list /\ k + 1 # 1
        BY <1>3, <3>1
      <3> QED
        BY <1>1, <1>3, <3>1, <3>2
    <2>2. ASSUME NEW x \in S, x # h PROVE x \in T
      <3>1. PICK k \in DOMAIN list : x = list[k] /\ k # 1
        BY <1>3, <2>2
      <3>2. k - 1 \in DOMAIN list' /\ list'[k - 1] = x
        BY <1>3, <1>4, <3>1
      <3> QED
        BY <3>2
    <2> QED
      BY <2>1, <2>2
  <1>6. h \in S /\ h \notin T
    BY <1>3, <1>5
  <1> HIDE DEF S, T, h
  <1>7. [c \in {1} |-> T] = [[c \in {1} |-> S] EXCEPT ![1] = @ \ {h}]
    BY <1>5
  <1>8. [c \in {1} |-> held'] = [[c \in {1} |-> held] EXCEPT ![1] = @ \cup {h}]
    BY <1>4
  <1> QED
    BY <1>6, <1>7, <1>8 DEF BlockSets!Alloc, S, T

(* free_align_block puts one of the program's blocks back.                 *)
LEMMA BlockFreeIsPool ==
  ASSUME Accounting, NEW blk \in BlockPointers, free_align_block(blk)
  PROVE  BlockSets!Free(1)
  <1>1. Scanned(blk) /\ list \in Seq(Blocks) /\ ~ InPool(blk)
    BY DEF free_align_block, Scanned, Accounting, BlockTypeOK
  <1>2. blk \in Blocks /\ blk \in held
    BY <1>1, FreedIsHeld
  <1>3. held' = held \ {blk} /\ list' = <<blk>> \o list
    BY DEF free_align_block
  <1>4. /\ DOMAIN list' = 1 .. Len(list) + 1
        /\ DOMAIN list = 1 .. Len(list) /\ Len(list) \in Nat
        /\ list'[1] = blk
        /\ \A k \in 2 .. Len(list) + 1 : list'[k] = list[k - 1]
    BY <1>1, <1>2, <1>3
  <1> DEFINE S == {list[k] : k \in DOMAIN list}
             T == {list'[k] : k \in DOMAIN list'}
  <1>5. T = S \cup {blk}
    <2>1. ASSUME NEW x \in T PROVE x \in S \cup {blk}
      <3>1. PICK k \in DOMAIN list' : x = list'[k]
        OBVIOUS
      <3>2. k = 1 \/ (k - 1 \in DOMAIN list /\ x = list[k - 1])
        BY <1>4, <3>1
      <3> QED
        BY <1>4, <3>1, <3>2
    <2>2. blk \in T
      BY <1>4
    <2>3. ASSUME NEW x \in S PROVE x \in T
      <3>1. PICK k \in DOMAIN list : x = list[k]
        OBVIOUS
      <3>2. k + 1 \in DOMAIN list' /\ list'[k + 1] = x
        BY <1>4, <3>1
      <3> QED
        BY <3>2
    <2> QED
      BY <2>1, <2>2, <2>3
  <1> HIDE DEF S, T
  <1>6. [c \in {1} |-> T] = [[c \in {1} |-> S] EXCEPT ![1] = @ \cup {blk}]
    BY <1>5
  <1>7. [c \in {1} |-> held'] = [[c \in {1} |-> held] EXCEPT ![1] = @ \ {blk}]
    BY <1>3
  <1> QED
    BY <1>2, <1>3, <1>6, <1>7 DEF BlockSets!Free, S, T

(* The list of a pool of any size implements a set of free blocks.         *)
THEOREM PoolIsSet == BlockSpec => BlocksImplementPool
  <1>1. Accounting /\ [BlockNext]_block_vars
          => [BlockSets!Next]_(BlockSets!vars)
    <2> SUFFICES ASSUME Accounting, [BlockNext]_block_vars
                 PROVE  BlockSets!Next \/ UNCHANGED BlockSets!vars
      OBVIOUS
    <2>1. CASE alloc_align_block
      BY <2>1, BlockAllocIsPool DEF BlockSets!Next
    <2>2. ASSUME NEW blk \in BlockPointers, free_align_block(blk)
          PROVE  BlockSets!Next
      BY <2>2, BlockFreeIsPool DEF BlockSets!Next
    <2>3. CASE UNCHANGED <<list, held>>
      BY <2>3 DEF BlockSets!vars
    <2> QED
      BY <2>1, <2>2, <2>3
         DEF BlockNext, Free, BlockAllocRefused, BlockFreeRefused,
             FollowsUnset, FreeNoMemory, BlockCrash, block_vars
  <1> QED
    BY <1>1, BlockInitIsPool, BlockInvariance, PTL
       DEF BlockSpec, BlocksImplementPool, BlockSets!Spec

-----------------------------------------------------------------------------
(* From x the pointers of link lead through the members of S, each once,   *)
(* and end: all but x are pointed at, no two point at the same, and a rank *)
(* that grows along the pointers excludes circles.                         *)
ListOf(link, x, S) ==
  /\ IF S = {} THEN x = NULL ELSE x \in S
  /\ \A z \in S : link[z] \in (S \ {x}) \cup {NULL}
  /\ \A z \in S \ {x} : \E w \in S : link[w] = z
  /\ \A w, z \in S : link[w] = link[z] => w = z \/ link[w] = NULL
  /\ \E r \in [S -> Nat] :
       \A z \in S : link[z] # NULL => r[z] < r[link[z]]

(* Who is at the end of a list is pointed at from inside, if there are     *)
(* others: a list without its head is one.                                 *)
LEMMA ListPop ==
  ASSUME NEW link, NEW S, NULL \notin S, NEW x, x # NULL, ListOf(link, x, S)
  PROVE  x \in S /\ ListOf(link, link[x], S \ {x})
  <1> DEFINE y == link[x]
             T == S \ {x}
  <1>1. /\ x \in S
        /\ \A z \in S : link[z] \in T \cup {NULL}
        /\ \A z \in T : \E w \in S : link[w] = z
        /\ \A w, z \in S : link[w] = link[z] => w = z \/ link[w] = NULL
    BY DEF ListOf
  <1>2. PICK r \in [S -> Nat] : \A z \in S : link[z] # NULL => r[z] < r[link[z]]
    BY DEF ListOf
  <1>3. ASSUME T # {} PROVE y \in T
    <2> DEFINE R == {r[z] : z \in T}
    <2>1. R \subseteq Nat /\ R # {}
      BY <1>2, <1>3
    <2> HIDE DEF R
    <2>2. PICK m \in R : \A k \in R : m <= k
      BY <2>1, LeastNumber
    <2> USE DEF R
    <2>3. PICK z \in T : m = r[z]
      BY <2>2
    <2>4. PICK w \in S : link[w] = z
      BY <1>1, <2>3
    <2>5. z # NULL /\ r[w] < r[z] /\ r[w] \in Nat /\ r[z] \in Nat
      BY <1>2, <2>3, <2>4
    <2>6. w \notin T
      <3>1. w \in T => m <= r[w]
        BY <2>2
      <3> QED
        BY <2>3, <2>5, <3>1
    <2> QED
      BY <2>3, <2>4, <2>6
  <1>4. IF T = {} THEN y = NULL ELSE y \in T
    BY <1>1, <1>3
  <1>5. \A z \in T : link[z] \in (T \ {y}) \cup {NULL}
    BY <1>1
  <1>6. \A z \in T \ {y} : \E w \in T : link[w] = z
    BY <1>1
  <1>7. \A w, z \in T : link[w] = link[z] => w = z \/ link[w] = NULL
    BY <1>1
  <1>8. \E q \in [T -> Nat] : \A z \in T : link[z] # NULL => q[z] < q[link[z]]
    <2> DEFINE q == [z \in T |-> r[z]]
    <2>1. q \in [T -> Nat]
      BY <1>2
    <2>2. \A z \in T : link[z] # NULL => q[z] < q[link[z]]
      BY <1>1, <1>2
    <2> HIDE DEF q
    <2> QED
      BY <2>1, <2>2
  <1> HIDE DEF y, T
  <1>9. ListOf(link, y, T)
    BY <1>4, <1>5, <1>6, <1>7, <1>8 DEF ListOf
  <1> QED
    BY <1>1, <1>9 DEF y, T

(* A list with another put before its head is one.                         *)
LEMMA ListPush ==
  ASSUME NEW link, NEW S, NULL \notin S, NEW x, ListOf(link, x, S),
         NEW y, y \notin S, y # NULL,
         NEW new, new[y] = x, \A z \in S : new[z] = link[z]
  PROVE  ListOf(new, y, S \cup {y})
  <1> DEFINE T == S \cup {y}
  <1>1. /\ IF S = {} THEN x = NULL ELSE x \in S
        /\ \A z \in S : link[z] \in (S \ {x}) \cup {NULL}
        /\ \A z \in S \ {x} : \E w \in S : link[w] = z
        /\ \A w, z \in S : link[w] = link[z] => w = z \/ link[w] = NULL
    BY DEF ListOf
  <1>2. PICK r \in [S -> Nat] : \A z \in S : link[z] # NULL => r[z] < r[link[z]]
    BY DEF ListOf
  <1>3. T # {} /\ y \in T
    OBVIOUS
  <1>4. \A z \in T : new[z] \in (T \ {y}) \cup {NULL}
    BY <1>1
  <1>5. \A z \in T \ {y} : \E w \in T : new[w] = z
    BY <1>1
  <1>6. \A w, z \in T : new[w] = new[z] => w = z \/ new[w] = NULL
    BY <1>1
  <1>7. \E q \in [T -> Nat] : \A z \in T : new[z] # NULL => q[z] < q[new[z]]
    <2> DEFINE q == [z \in T |-> IF z = y THEN 0 ELSE r[z] + 1]
    <2>1. q \in [T -> Nat]
      BY <1>2
    <2>2. ASSUME NEW z \in T, new[z] # NULL PROVE q[z] < q[new[z]]
      <3>1. new[z] \in S
        BY <1>1, <2>2
      <3>2. q[new[z]] = r[new[z]] + 1 /\ r[new[z]] \in Nat
        BY <1>2, <3>1
      <3>3. CASE z = y
        BY <3>2, <3>3
      <3>4. CASE z \in S
        <4>1. q[z] = r[z] + 1 /\ r[z] \in Nat
          BY <1>2, <3>4
        <4>2. new[z] = link[z] /\ r[z] < r[link[z]]
          BY <1>2, <2>2, <3>4
        <4> QED
          BY <3>2, <4>1, <4>2
      <3> QED
        BY <3>3, <3>4
    <2> HIDE DEF q
    <2> QED
      BY <2>1, <2>2
  <1> HIDE DEF T
  <1>8. ListOf(new, y, T)
    BY <1>3, <1>4, <1>5, <1>6, <1>7 DEF ListOf
  <1> QED
    BY <1>8 DEF T

(* A list from whose middle, or end, one has been taken out is one.        *)
LEMMA ListCut ==
  ASSUME NEW link, NEW S, NULL \notin S, NEW x, ListOf(link, x, S),
         NEW y \in S, NEW v \in S, link[v] = y,
         NEW new, new[v] = link[y],
         \A z \in S \ {y, v} : new[z] = link[z]
  PROVE  ListOf(new, x, S \ {y})
  <1> DEFINE T == S \ {y}
  <1>1. /\ IF S = {} THEN x = NULL ELSE x \in S
        /\ \A z \in S : link[z] \in (S \ {x}) \cup {NULL}
        /\ \A z \in S \ {x} : \E w \in S : link[w] = z
        /\ \A w, z \in S : link[w] = link[z] => w = z \/ link[w] = NULL
    BY DEF ListOf
  <1>2. PICK r \in [S -> Nat] : \A z \in S : link[z] # NULL => r[z] < r[link[z]]
    BY DEF ListOf
  <1>3. y # NULL /\ y # x /\ x \in T
    BY <1>1
  <1>4. r[v] < r[y] /\ r[v] \in Nat /\ r[y] \in Nat /\ v # y
    BY <1>2, <1>3
  <1>5. \A z \in T : new[z] = IF z = v THEN link[y] ELSE link[z]
    OBVIOUS
  <1>6. link[y] # y
    BY <1>2, <1>3
  <1>7. \A z \in T : new[z] \in (T \ {x}) \cup {NULL}
    BY <1>1, <1>3, <1>5, <1>6
  <1>8. ASSUME NEW z \in T \ {x} PROVE \E w \in T : new[w] = z
    <2>1. PICK w \in S : link[w] = z
      BY <1>1
    <2>2. CASE w = y
      BY <1>4, <1>5, <2>1, <2>2
    <2>3. CASE w # y
      BY <1>5, <2>1, <2>3
    <2> QED
      BY <2>2, <2>3
  <1>9. \A w, z \in T : new[w] = new[z] => w = z \/ new[w] = NULL
    BY <1>1, <1>5
  <1>10. \E q \in [T -> Nat] : \A z \in T : new[z] # NULL => q[z] < q[new[z]]
    <2> DEFINE q == [z \in T |-> r[z]]
    <2>1. q \in [T -> Nat]
      BY <1>2
    <2>2. ASSUME NEW z \in T, new[z] # NULL PROVE q[z] < q[new[z]]
      <3>1. new[z] \in T /\ q[new[z]] = r[new[z]] /\ q[z] = r[z]
        BY <1>7, <2>2
      <3>2. CASE z = v
        <4>1. new[z] = link[y] /\ r[y] < r[link[y]] /\ r[link[y]] \in Nat
          BY <1>2, <1>5, <2>2, <3>1, <3>2
        <4> QED
          BY <1>4, <3>1, <3>2, <4>1
      <3>3. CASE z # v
        BY <1>2, <1>5, <2>2, <3>1, <3>3
      <3> QED
        BY <3>2, <3>3
    <2> HIDE DEF q
    <2> QED
      BY <2>1, <2>2
  <1> HIDE DEF T
  <1>11. ListOf(new, x, T)
    BY <1>3, <1>7, <1>8, <1>9, <1>10 DEF ListOf
  <1> QED
    BY <1>11 DEF T

(* A list is made by the pointers of its members.                          *)
LEMMA ListSame ==
  ASSUME NEW link, NEW S, NEW x, ListOf(link, x, S), NULL \notin S,
         NEW new, \A z \in S : new[z] = link[z]
  PROVE  ListOf(new, x, S)
  <1>1. PICK r \in [S -> Nat] : \A z \in S : link[z] # NULL => r[z] < r[link[z]]
    BY DEF ListOf
  <1>2. \E q \in [S -> Nat] : \A z \in S : new[z] # NULL => q[z] < q[new[z]]
    BY <1>1
  <1>3. /\ IF S = {} THEN x = NULL ELSE x \in S
        /\ \A z \in S : link[z] \in (S \ {x}) \cup {NULL}
        /\ \A z \in S \ {x} : \E w \in S : link[w] = z
        /\ \A w, z \in S : link[w] = link[z] => w = z \/ link[w] = NULL
    BY DEF ListOf
  <1>4. /\ \A z \in S : new[z] \in (S \ {x}) \cup {NULL}
        /\ \A z \in S \ {x} : \E w \in S : new[w] = z
        /\ \A w, z \in S : new[w] = new[z] => w = z \/ new[w] = NULL
    BY <1>3
  <1> QED
    BY <1>2, <1>3, <1>4 DEF ListOf
-----------------------------------------------------------------------------
(* Walk, and where it is after n steps.                                    *)
Stepped(link) == [y \in DOMAIN link \cup {NULL} |->
                    IF y = NULL THEN NULL ELSE link[y]]
IsWalk(g, link, x, m) ==
  g = [n \in 0 .. m |-> IF n = 0 THEN x ELSE Stepped(link)[g[n - 1]]]

(* A walk can be made as far as one likes.                                 *)
LEMMA WalkExists ==
  ASSUME NEW link, NEW x, NEW m \in Nat
  PROVE  \E g : IsWalk(g, link, x, m)
  <1> DEFINE E == {n \in Nat : \E g : IsWalk(g, link, x, n)}
  <1>1. 0 \in E
    <2> DEFINE g == [n \in 0 .. 0 |-> x]
    <2>1. IsWalk(g, link, x, 0)
      BY DEF IsWalk
    <2> QED
      BY <2>1
  <1>2. ASSUME NEW n \in Nat, n \in E PROVE n + 1 \in E
    <2>1. PICK g : IsWalk(g, link, x, n)
      BY <1>2
    <2> DEFINE rear == Stepped(link)[g[n]]
               h == [k \in 0 .. n + 1 |-> IF k = n + 1 THEN rear ELSE g[k]]
    <2>2. ASSUME NEW k \in 0 .. n + 1
          PROVE  h[k] = IF k = 0 THEN x ELSE Stepped(link)[h[k - 1]]
      <3>1. CASE k = n + 1
        <4>1. h[k - 1] = g[n] /\ k # 0 /\ h[k] = rear
          BY <3>1
        <4> QED
          BY <3>1, <4>1
      <3>2. CASE k = 0
        <4>1. h[k] = g[0] /\ g[0] = x
          BY <2>1, <3>2 DEF IsWalk
        <4> QED
          BY <3>2, <4>1
      <3>3. CASE k \in 1 .. n
        <4>1. h[k] = g[k] /\ h[k - 1] = g[k - 1] /\ k # 0 /\ k \in 0 .. n
          BY <3>3
        <4>2. g[k] = Stepped(link)[g[k - 1]]
          BY <2>1, <4>1 DEF IsWalk
        <4> QED
          BY <4>1, <4>2
      <3> QED
        BY <3>1, <3>2, <3>3
    <2>3. IsWalk(h, link, x, n + 1)
      <3> HIDE DEF rear
      <3> QED
        BY <2>2 DEF IsWalk
    <2> QED
      BY <2>3
  <1> HIDE DEF E
  <1>3. Nat \subseteq E
    BY <1>1, <1>2, SetInduction
  <1> QED
    BY <1>3 DEF E

(* What Walk returns.                                                      *)
LEMMA WalkIs ==
  ASSUME NEW D, IsFiniteSet(D), NEW link \in [D -> D \cup {NULL}],
         NULL \notin D, NEW x
  PROVE  /\ Cardinality(D) \in Nat
         /\ DOMAIN Walk(link, x) = 0 .. Cardinality(D)
         /\ Walk(link, x)[0] = x
         /\ \A n \in 1 .. Cardinality(D) :
              /\ Walk(link, x)[n - 1] = NULL => Walk(link, x)[n] = NULL
              /\ Walk(link, x)[n - 1] \in D =>
                   Walk(link, x)[n] = link[Walk(link, x)[n - 1]]
  <1> DEFINE N == Cardinality(D)
             w == Walk(link, x)
  <1>1. N \in Nat /\ DOMAIN link = D
    BY FS_CardinalityType
  <1>2. w = CHOOSE g : IsWalk(g, link, x, N)
    BY <1>1 DEF Walk, IsWalk, Stepped
  <1>3. IsWalk(w, link, x, N)
    BY <1>1, <1>2, WalkExists
  <1> HIDE DEF w, N
  <1>4. w = [n \in 0 .. N |-> IF n = 0 THEN x ELSE Stepped(link)[w[n - 1]]]
    BY <1>3 DEF IsWalk
  <1>5. DOMAIN w = 0 .. N
    BY <1>4
  <1>6. w[0] = x
    BY <1>1, <1>4
  <1>7. ASSUME NEW n \in 1 .. N
        PROVE  /\ w[n - 1] = NULL => w[n] = NULL
               /\ w[n - 1] \in D => w[n] = link[w[n - 1]]
    <2>1. n \in 0 .. N /\ n # 0
      BY <1>1
    <2>2. w[n] = Stepped(link)[w[n - 1]]
      BY <1>4, <2>1
    <2> QED
      BY <1>1, <2>2 DEF Stepped
  <1> QED
    BY <1>1, <1>5, <1>6, <1>7 DEF w, N

(* A walk along a list meets its members and ends.                         *)
LEMMA ListWalk ==
  ASSUME NEW D, IsFiniteSet(D), NEW link \in [D -> D \cup {NULL}],
         NULL \notin D, NEW S \in SUBSET D, NEW x, ListOf(link, x, S)
  PROVE  Met(link, x) = S /\ Ends(link, x)
  <1> DEFINE N == Cardinality(D)
             w == Walk(link, x)
  <1>1. /\ N \in Nat /\ DOMAIN w = 0 .. N /\ w[0] = x /\ DOMAIN link = D
        /\ \A n \in 1 .. N : /\ w[n - 1] = NULL => w[n] = NULL
                             /\ w[n - 1] \in D => w[n] = link[w[n - 1]]
    BY WalkIs
  <1>2. /\ IF S = {} THEN x = NULL ELSE x \in S
        /\ \A z \in S : link[z] \in S \cup {NULL}
        /\ \A z \in S \ {x} : \E y \in S : link[y] = z
    BY DEF ListOf
  <1>3. PICK r \in [S -> Nat] : \A z \in S : link[z] # NULL => r[z] < r[link[z]]
    BY DEF ListOf
  <1>4. /\ Met(link, x) = {w[n] : n \in 0 .. N} \ {NULL}
        /\ Ends(link, x) = (w[N] = NULL)
    <2>1. Range(w) = {w[n] : n \in 0 .. N}
      BY <1>1 DEF Range
    <2>2. Ends(link, x) = (Walk(link, x)[Cardinality(D)] = NULL)
      BY <1>1 DEF Ends
    <2> QED
      BY <2>1, <2>2 DEF Met
  <1> HIDE DEF w, N
  <1>5. ASSUME NEW n \in 0 .. N
        PROVE  /\ w[n] \in S \cup {NULL}
               /\ w[n] # NULL => \A k \in 0 .. n - 1 :
                    w[k] \in S /\ r[w[k]] < r[w[n]]
    <2> DEFINE E == {m \in Nat : m <= N =>
                       /\ w[m] \in S \cup {NULL}
                       /\ w[m] # NULL => \A k \in 0 .. m - 1 :
                            w[k] \in S /\ r[w[k]] < r[w[m]]}
    <2>1. 0 \in E
      BY <1>1, <1>2
    <2>2. ASSUME NEW m \in Nat, m \in E PROVE m + 1 \in E
      <3> SUFFICES ASSUME m + 1 <= N
                   PROVE  /\ w[m + 1] \in S \cup {NULL}
                          /\ w[m + 1] # NULL => \A k \in 0 .. (m + 1) - 1 :
                               w[k] \in S /\ r[w[k]] < r[w[m + 1]]
        OBVIOUS
      <3>1. /\ m <= N /\ m + 1 \in 1 .. N /\ (m + 1) - 1 = m
        BY <1>1
      <3>2. /\ w[m] \in S \cup {NULL}
            /\ w[m] # NULL => \A k \in 0 .. m - 1 :
                 w[k] \in S /\ r[w[k]] < r[w[m]]
        BY <2>2, <3>1
      <3>3. /\ w[m] = NULL => w[m + 1] = NULL
            /\ w[m] \in D => w[m + 1] = link[w[m]]
        BY <1>1, <3>1
      <3>4. w[m + 1] \in S \cup {NULL}
        BY <1>2, <3>2, <3>3
      <3>5. ASSUME w[m + 1] # NULL, NEW k \in 0 .. (m + 1) - 1
            PROVE  w[k] \in S /\ r[w[k]] < r[w[m + 1]]
        <4>1. w[m] \in S /\ w[m + 1] = link[w[m]] /\ w[m] # NULL
          BY <3>2, <3>3, <3>5
        <4>2. /\ r[w[m]] < r[w[m + 1]] /\ r[w[m]] \in Nat
              /\ w[m + 1] \in S /\ r[w[m + 1]] \in Nat
          BY <1>3, <3>4, <3>5, <4>1
        <4>3. CASE k = m
          BY <4>1, <4>2, <4>3
        <4>4. CASE k \in 0 .. m - 1
          <5>1. w[k] \in S /\ r[w[k]] < r[w[m]] /\ r[w[k]] \in Nat
            BY <1>3, <3>2, <4>1, <4>4
          <5> QED
            BY <4>2, <5>1
        <4> QED
          BY <4>3, <4>4
      <3> QED
        BY <3>4, <3>5
    <2> HIDE DEF E
    <2>3. Nat \subseteq E
      BY <2>1, <2>2, SetInduction
    <2>4. n \in E /\ n <= N
      BY <1>1, <2>3
    <2> QED
      BY <2>4 DEF E
  <1>6. w[N] = NULL
    <2> SUFFICES ASSUME w[N] # NULL PROVE FALSE
      OBVIOUS
    <2> DEFINE K == 0 .. N
               f == [k \in K |-> w[k]]
    <2>1. N \in 0 .. N /\ w[N] \in S
      BY <1>1, <1>5
    <2>2. \A k \in K : w[k] \in S
      <3> SUFFICES ASSUME NEW k \in K PROVE w[k] \in S
        OBVIOUS
      <3>1. k = N \/ k \in 0 .. N - 1
        BY <1>1
      <3> QED
        BY <1>5, <2>1, <3>1
    <2>3. f \in [K -> D]
      BY <2>2
    <2>4. IsFiniteSet(K) /\ Cardinality(K) = N + 1
      BY <1>1, FS_Interval
    <2>5. N < N + 1
      BY <1>1
    <2> HIDE DEF f
    <2>6. PICK i, j \in K : i # j /\ f[i] = f[j]
      <3>1. Cardinality(D) < Cardinality(K)
        BY <2>4, <2>5 DEF N
      <3> HIDE DEF K
      <3> QED
        BY <2>3, <2>4, <3>1, FS_PigeonHole
    <2>7. ASSUME NEW a \in K, NEW b \in K, a < b PROVE w[a] # w[b]
      <3>1. a \in 0 .. b - 1 /\ w[b] # NULL
        BY <1>1, <2>2, <2>7
      <3>2. r[w[a]] < r[w[b]] /\ r[w[a]] \in Nat
        BY <1>3, <1>5, <2>2, <3>1
      <3> QED
        BY <3>2
    <2>8. i < j \/ j < i
      BY <1>1, <2>6
    <2> QED
      BY <2>6, <2>7, <2>8 DEF f
  <1>7. ASSUME NEW z \in S PROVE \E n \in 0 .. N : w[n] = z
    <2> DEFINE Missed == {y \in S : \A n \in 0 .. N : w[n] # y}
               R == {r[y] : y \in Missed}
    <2> SUFFICES ASSUME Missed # {} PROVE FALSE
      OBVIOUS
    <2>1. R \subseteq Nat /\ R # {}
      BY <1>3
    <2> HIDE DEF R
    <2>2. PICK m \in R : \A k \in R : m <= k
      BY <2>1, LeastNumber
    <2>3. PICK y \in Missed : m = r[y]
      BY <2>2 DEF R
    <2>4. y # x /\ y \in S /\ y # NULL
      BY <1>1, <2>3
    <2>5. PICK v \in S : link[v] = y
      BY <1>2, <2>4
    <2>6. r[v] < r[y] /\ r[v] \in Nat /\ r[y] \in Nat
      BY <1>3, <2>4, <2>5
    <2>7. v \notin Missed
      <3>1. v \in Missed => m <= r[v]
        BY <2>2 DEF R
      <3> QED
        BY <2>3, <2>6, <3>1
    <2>8. PICK n \in 0 .. N : w[n] = v
      BY <2>5, <2>7
    <2>9. n # N /\ n + 1 \in 1 .. N /\ n + 1 \in 0 .. N /\ (n + 1) - 1 = n
      BY <1>1, <1>6, <2>5, <2>8
    <2>10. w[n + 1] = link[v]
      BY <1>1, <2>5, <2>8, <2>9
    <2> QED
      BY <2>3, <2>5, <2>9, <2>10
  <1>8. {w[n] : n \in 0 .. N} \ {NULL} = S
    BY <1>5, <1>7
  <1> QED
    BY <1>4, <1>6, <1>8
-----------------------------------------------------------------------------
(* The lists of class c: the members of S are free, those of T allocated;  *)
(* nothing is before the one's head, nor behind the other's tail.          *)
Keeps(cs, p, n, c, S, T) ==
  /\ ListOf(n, cs[c].head_chunk, S) /\ ListOf(p, cs[c].allocated_chunks, T)
  /\ cs[c].head_chunk # NULL => p[cs[c].head_chunk] = NULL
  /\ cs[c].allocated_chunks # NULL => n[cs[c].allocated_chunks] = NULL

(* Each pointer is answered by its opposite.                               *)
Answers(D, p, n) ==
  \A x \in D : /\ n[x] # NULL => p[n[x]] = x
               /\ p[x] # NULL => n[p[x]] = x

(* No chunk is in two lists, and no slab in two classes.                   *)
ListsApart(K, A, B) ==
  /\ \A c \in K : A[c] \cap B[c] = {}
  /\ \A c, d \in K : c # d =>
       \A x \in A[c] \cup B[c] : \A y \in A[d] \cup B[d] : x[1] # y[1]

Heads(D) == [head_chunk : D \cup {NULL}, allocated_chunks : D \cup {NULL}]

(* The classes K with the chunks D: A are those available, B allocated.    *)
Linked(K, D, cs, p, n, A, B) ==
  /\ p \in [D -> D \cup {NULL}] /\ n \in [D -> D \cup {NULL}]
  /\ cs \in [K -> Heads(D)]
  /\ A \in [K -> SUBSET D] /\ B \in [K -> SUBSET D]
  /\ Answers(D, p, n) /\ ListsApart(K, A, B)
  /\ \A c \in K : Keeps(cs, p, n, c, A[c], B[c])

(* The lists of a class that a step does not touch.                        *)
LEMMA KeepsSame ==
  ASSUME NEW D, NULL \notin D, NEW cs, NEW p, NEW n, NEW d,
         NEW S \in SUBSET D, NEW T \in SUBSET D, Keeps(cs, p, n, d, S, T),
         NEW cs2, NEW p2, NEW n2, cs2[d] = cs[d],
         \A x \in S \cup T : p2[x] = p[x] /\ n2[x] = n[x]
  PROVE  Keeps(cs2, p2, n2, d, S, T)
  <1>1. /\ ListOf(n, cs[d].head_chunk, S)
        /\ ListOf(p, cs[d].allocated_chunks, T)
        /\ cs[d].head_chunk # NULL => p[cs[d].head_chunk] = NULL
        /\ cs[d].allocated_chunks # NULL => n[cs[d].allocated_chunks] = NULL
    BY DEF Keeps
  <1>2. /\ cs[d].head_chunk # NULL => cs[d].head_chunk \in S
        /\ cs[d].allocated_chunks # NULL => cs[d].allocated_chunks \in T
    BY <1>1 DEF ListOf
  <1>3. ListOf(n2, cs[d].head_chunk, S)
    BY <1>1, ListSame
  <1>4. ListOf(p2, cs[d].allocated_chunks, T)
    BY <1>1, ListSame
  <1> QED
    BY <1>1, <1>2, <1>3, <1>4 DEF Keeps

(* What Give makes of the lists of class c, h its head and rear its tail.  *)
Gives(c, h, rear, cs, p, n, A, B, cs2, p2, n2, A2, B2) ==
  /\ h = cs[c].head_chunk /\ rear = cs[c].allocated_chunks
  /\ cs2 = [cs EXCEPT ![c] = [head_chunk |-> n[h], allocated_chunks |-> h]]
  /\ p2 = Set([p EXCEPT ![h] = rear], n[h], NULL)
  /\ n2 = Set([n EXCEPT ![h] = NULL], rear, h)
  /\ A2 = [A EXCEPT ![c] = @ \ {h}] /\ B2 = [B EXCEPT ![c] = @ \cup {h}]

(* Give: the head of the available goes behind the tail of the allocated.  *)
LEMMA GiveLinked ==
  ASSUME NEW K, NEW D, NULL \notin D, NEW cs, NEW p, NEW n, NEW A, NEW B,
         Linked(K, D, cs, p, n, A, B),
         NEW c \in K, NEW h, h # NULL, NEW rear,
         NEW cs2, NEW p2, NEW n2, NEW A2, NEW B2,
         Gives(c, h, rear, cs, p, n, A, B, cs2, p2, n2, A2, B2)
  PROVE  h \in A[c] /\ Linked(K, D, cs2, p2, n2, A2, B2)
  <1> DEFINE S == A[c]
             T == B[c]
             rest == n[h]
  <1>0. /\ h = cs[c].head_chunk /\ rear = cs[c].allocated_chunks
        /\ cs2 = [cs EXCEPT ![c] = [head_chunk |-> n[h],
                                    allocated_chunks |-> h]]
        /\ p2 = Set([p EXCEPT ![h] = rear], n[h], NULL)
        /\ n2 = Set([n EXCEPT ![h] = NULL], rear, h)
        /\ A2 = [A EXCEPT ![c] = @ \ {h}]
        /\ B2 = [B EXCEPT ![c] = @ \cup {h}]
    BY DEF Gives
  <1> USE <1>0
  <1>1. /\ p \in [D -> D \cup {NULL}] /\ n \in [D -> D \cup {NULL}]
        /\ cs \in [K -> Heads(D)]
        /\ A \in [K -> SUBSET D] /\ B \in [K -> SUBSET D]
        /\ Answers(D, p, n) /\ ListsApart(K, A, B)
    BY DEF Linked
  <1>2. /\ ListOf(n, h, S) /\ ListOf(p, rear, T)
        /\ p[h] = NULL /\ (rear # NULL => n[rear] = NULL)
        /\ S \in SUBSET D /\ T \in SUBSET D /\ S \cap T = {}
    BY <1>1 DEF Linked, Keeps, ListsApart
  <1>3. /\ h \in S /\ h \in D /\ h \notin T
        /\ rest \in (S \ {h}) \cup {NULL}
        /\ rear \in T \cup {NULL} /\ rear # h
    BY <1>2 DEF ListOf
  <1>4. p2 \in [D -> D \cup {NULL}] /\ n2 \in [D -> D \cup {NULL}]
    BY <1>1, <1>2, <1>3 DEF Set
  <1>5. \A x \in D : p2[x] = IF x = rest THEN NULL
                             ELSE IF x = h THEN rear ELSE p[x]
    BY <1>1, <1>2, <1>3 DEF Set
  <1>6. \A x \in D : n2[x] = IF x = rear THEN h
                             ELSE IF x = h THEN NULL ELSE n[x]
    BY <1>1, <1>2, <1>3 DEF Set
  <1>7. /\ cs2 \in [K -> Heads(D)] /\ cs2[c].head_chunk = rest
        /\ cs2[c].allocated_chunks = h
        /\ \A d \in K \ {c} : cs2[d] = cs[d]
    BY <1>1, <1>3 DEF Heads
  <1>8. /\ A2 \in [K -> SUBSET D] /\ B2 \in [K -> SUBSET D]
        /\ A2[c] = S \ {h} /\ B2[c] = T \cup {h}
        /\ \A d \in K \ {c} : A2[d] = A[d] /\ B2[d] = B[d]
    BY <1>1, <1>3
  <1> HIDE DEF S, T, rest
  <1>9. Answers(D, p2, n2)
    <2>1. \A x \in D : /\ n[x] # NULL => p[n[x]] = x /\ n[x] \in D
                       /\ p[x] # NULL => n[p[x]] = x /\ p[x] \in D
      BY <1>1 DEF Answers
    <2>2. /\ rest = n[h] /\ (rest # NULL => rest \in D)
          /\ (rear # NULL => rear \in D)
      BY <1>2, <1>3 DEF rest
    <2> SUFFICES ASSUME NEW x \in D
                 PROVE  /\ n2[x] # NULL => p2[n2[x]] = x
                        /\ p2[x] # NULL => n2[p2[x]] = x
      BY DEF Answers
    <2>3. ASSUME n2[x] # NULL PROVE p2[n2[x]] = x
      <3>1. CASE x = rear
        <4>1. n2[x] = h
          BY <1>6, <3>1
        <4>2. h # rest
          BY <1>2, <1>3
        <4>3. p2[h] = rear
          BY <1>3, <1>5, <4>2
        <4> QED
          BY <3>1, <4>1, <4>3
      <3>2. CASE x # rear
        <4>1. n2[x] = n[x] /\ p[n[x]] = x /\ n[x] \in D
          BY <1>6, <2>1, <2>3, <3>2
        <4>2. x # h /\ x # NULL /\ n[x] # NULL
          BY <1>6, <2>3, <3>2, <4>1
        <4>3. n[x] # h
          BY <1>2, <4>1, <4>2
        <4>4. n[x] # rest
          BY <1>3, <2>1, <2>2, <4>1, <4>2
        <4> QED
          BY <1>5, <4>1, <4>3, <4>4
      <3> QED
        BY <3>1, <3>2
    <2>4. ASSUME p2[x] # NULL PROVE n2[p2[x]] = x
      <3>1. CASE x = h
        BY <1>2, <1>3, <1>5, <1>6, <2>2, <2>4, <3>1
      <3>2. CASE x # h
        <4>1. p2[x] = p[x] /\ n[p[x]] = x /\ p[x] \in D /\ x # rest
          BY <1>5, <2>1, <2>4, <3>2
        <4>2. p[x] # h /\ p[x] # rear
          BY <1>2, <2>2, <4>1
        <4> QED
          BY <1>6, <4>1, <4>2
      <3> QED
        BY <3>1, <3>2
    <2> QED
      BY <2>3, <2>4
  <1>10. ListsApart(K, A2, B2)
    <2>1. \A d \in K : A2[d] \cap B2[d] = {}
      BY <1>1, <1>2, <1>8 DEF ListsApart
    <2>2. \A d \in K : A2[d] \cup B2[d] = A[d] \cup B[d]
      BY <1>3, <1>8 DEF S, T
    <2> QED
      BY <1>1, <2>1, <2>2 DEF ListsApart
  <1>11. Keeps(cs2, p2, n2, c, A2[c], B2[c])
    <2>1. ListOf(n, rest, S \ {h})
      <3>1. NULL \notin S
        BY <1>2
      <3> QED
        BY <1>2, <3>1, ListPop DEF rest
    <2>2. \A x \in S \ {h} : n2[x] = n[x]
      BY <1>2, <1>3, <1>6
    <2>3. ListOf(n2, rest, S \ {h})
      <3>1. NULL \notin S \ {h}
        BY <1>2
      <3> QED
        BY <2>1, <2>2, <3>1, ListSame
    <2>4. /\ \A x \in T : p2[x] = p[x]
          /\ p2[h] = rear
      BY <1>2, <1>3, <1>5
    <2>5. ListOf(p2, h, T \cup {h})
      <3>1. NULL \notin T /\ ListOf(p, rear, T) /\ h \notin T /\ h # NULL
        BY <1>2, <1>3
      <3> QED
        BY ONLY <2>4, <3>1, ListPush
    <2>6. rest # NULL => p2[rest] = NULL
      BY <1>2, <1>3, <1>5
    <2>7. n2[h] = NULL
      BY <1>3, <1>6
    <2> QED
      BY <1>7, <1>8, <2>3, <2>5, <2>6, <2>7 DEF Keeps
  <1>12. ASSUME NEW d \in K, d # c
         PROVE  Keeps(cs2, p2, n2, d, A2[d], B2[d])
    <2>1. \A x \in A[d] \cup B[d] : \A y \in S \cup T : x # y
      BY <1>1, <1>12 DEF ListsApart, S, T
    <2>2. A[d] \in SUBSET D /\ B[d] \in SUBSET D
      BY <1>1
    <2>3. \A x \in A[d] \cup B[d] : p2[x] = p[x] /\ n2[x] = n[x]
      <3>1. \A x \in A[d] \cup B[d] : /\ x # h /\ x # rest /\ x # rear
                                       /\ x \in D
        BY <1>3, <2>1, <2>2
      <3> QED
        BY <1>5, <1>6, <3>1
    <2>4. Keeps(cs, p, n, d, A[d], B[d])
      BY DEF Linked
    <2>5. cs2[d] = cs[d] /\ A2[d] = A[d] /\ B2[d] = B[d] /\ NULL \notin D
      BY <1>7, <1>8, <1>12
    <2>6. Keeps(cs2, p2, n2, d, A[d], B[d])
      BY ONLY <2>2, <2>3, <2>4, <2>5, KeepsSame
    <2> QED
      BY <2>5, <2>6
  <1> QED
    BY <1>3, <1>4, <1>7, <1>8, <1>9, <1>10, <1>11, <1>12 DEF Linked, S
(* What FreeChunk makes of the lists of class c.                           *)
Returns(c, x, h, rear, cs, p, n, A, B, cs2, p2, n2, A2, B2) ==
  /\ h = cs[c].head_chunk /\ rear = cs[c].allocated_chunks
  /\ cs2 = [cs EXCEPT ![c] =
       [head_chunk |-> x,
        allocated_chunks |-> IF n[x] = NULL THEN p[x] ELSE rear]]
  /\ p2 = Set([Set(p, n[x], p[x]) EXCEPT ![x] = NULL], h, x)
  /\ n2 = [Set(n, p[x], n[x]) EXCEPT ![x] = h]
  /\ A2 = [A EXCEPT ![c] = @ \cup {x}] /\ B2 = [B EXCEPT ![c] = @ \ {x}]

(* FreeChunk: x leaves the allocated chunks, wherever it is among them, and *)
(* comes before the head of the available ones.                            *)
LEMMA FreeLinked ==
  ASSUME NEW K, NEW D, NULL \notin D, NEW cs, NEW p, NEW n, NEW A, NEW B,
         Linked(K, D, cs, p, n, A, B),
         NEW c \in K, NEW x \in B[c],
         NEW h, NEW rear, NEW cs2, NEW p2, NEW n2, NEW A2, NEW B2,
         Returns(c, x, h, rear, cs, p, n, A, B, cs2, p2, n2, A2, B2)
  PROVE  Linked(K, D, cs2, p2, n2, A2, B2)
  <1> DEFINE S == A[c]
             T == B[c]
             before == p[x]
             behind == n[x]
  <1>0. /\ h = cs[c].head_chunk /\ rear = cs[c].allocated_chunks
        /\ cs2 = [cs EXCEPT ![c] =
             [head_chunk |-> x,
              allocated_chunks |-> IF n[x] = NULL THEN p[x] ELSE rear]]
        /\ p2 = Set([Set(p, n[x], p[x]) EXCEPT ![x] = NULL], h, x)
        /\ n2 = [Set(n, p[x], n[x]) EXCEPT ![x] = h]
        /\ A2 = [A EXCEPT ![c] = @ \cup {x}]
        /\ B2 = [B EXCEPT ![c] = @ \ {x}]
    BY DEF Returns
  <1> USE <1>0
  <1>1. /\ p \in [D -> D \cup {NULL}] /\ n \in [D -> D \cup {NULL}]
        /\ cs \in [K -> Heads(D)]
        /\ A \in [K -> SUBSET D] /\ B \in [K -> SUBSET D]
        /\ Answers(D, p, n) /\ ListsApart(K, A, B)
    BY DEF Linked
  <1>2. /\ ListOf(n, h, S) /\ ListOf(p, rear, T)
        /\ (h # NULL => p[h] = NULL) /\ (rear # NULL => n[rear] = NULL)
        /\ S \in SUBSET D /\ T \in SUBSET D /\ S \cap T = {}
    BY <1>1 DEF Linked, Keeps, ListsApart
  <1>3. /\ x \in D /\ x \in T /\ x \notin S /\ x # NULL
        /\ h \in S \cup {NULL} /\ rear \in T
        /\ before \in (T \ {rear}) \cup {NULL}
        /\ x # rear => \E w \in T : p[w] = x
    BY <1>2 DEF ListOf
  <1>4. PICK r \in [T -> Nat] : \A z \in T : p[z] # NULL => r[z] < r[p[z]]
    BY <1>2 DEF ListOf
  <1>5. before # x
    <2>1. before # NULL => r[x] < r[before] /\ r[x] \in Nat
      BY <1>3, <1>4
    <2> QED
      BY <1>3, <2>1
  <1>6. \A y \in D : /\ n[y] # NULL => p[n[y]] = y /\ n[y] \in D
                     /\ p[y] # NULL => n[p[y]] = y /\ p[y] \in D
    BY <1>1 DEF Answers
  <1>7. /\ x = rear <=> behind = NULL
        /\ x # rear => behind \in T /\ p[behind] = x /\ behind # x
    <2>1. x = rear => behind = NULL
      BY <1>2, <1>3
    <2>2. ASSUME x # rear PROVE behind \in T /\ p[behind] = x
      <3>1. PICK w \in T : p[w] = x
        BY <1>3, <2>2
      <3>2. n[p[w]] = w
        BY <1>2, <1>3, <1>6, <3>1
      <3> QED
        BY <3>1, <3>2
    <2>3. p[behind] = x => behind # x
      BY <1>5
    <2>4. behind \in T => behind # NULL
      BY <1>2
    <2> QED
      BY <2>1, <2>2, <2>3, <2>4
  <1>8. before \in D \cup {NULL} /\ behind \in D \cup {NULL}
        /\ h \in D \cup {NULL} /\ h # x /\ (behind # NULL => behind # h)
        /\ (before # NULL => before # h)
    BY <1>2, <1>3, <1>7
  <1> DEFINE p1 == Set(p, behind, before)
             n1 == Set(n, before, behind)
  <1>9. /\ p1 \in [D -> D \cup {NULL}]
        /\ \A y \in D : p1[y] = IF y = behind THEN before ELSE p[y]
    BY <1>1, <1>8 DEF Set
  <1>10. /\ n1 \in [D -> D \cup {NULL}]
         /\ \A y \in D : n1[y] = IF y = before THEN behind ELSE n[y]
    BY <1>1, <1>8 DEF Set
  <1>11. p2 = Set([p1 EXCEPT ![x] = NULL], h, x) /\ n2 = [n1 EXCEPT ![x] = h]
    OBVIOUS
  <1> HIDE DEF p1, n1
  <1>12. /\ p2 \in [D -> D \cup {NULL}]
         /\ \A y \in D : p2[y] = IF y = h THEN x
                                 ELSE IF y = x THEN NULL ELSE p1[y]
    <2> DEFINE q == [p1 EXCEPT ![x] = NULL]
    <2>1. /\ q \in [D -> D \cup {NULL}]
          /\ \A y \in D : q[y] = IF y = x THEN NULL ELSE p1[y]
      BY <1>3, <1>9
    <2>2. p2 = Set(q, h, x)
      BY <1>11
    <2> HIDE DEF q
    <2>3. CASE h = NULL
      BY <2>1, <2>2, <2>3 DEF Set
    <2>4. CASE h # NULL
      <3>1. h \in D /\ x \in D /\ p2 = [q EXCEPT ![h] = x]
        BY <1>3, <1>8, <2>2, <2>4 DEF Set
      <3> QED
        BY <2>1, <3>1
    <2> QED
      BY <2>3, <2>4
  <1>13. /\ n2 \in [D -> D \cup {NULL}]
         /\ \A y \in D : n2[y] = IF y = x THEN h ELSE n1[y]
    BY <1>3, <1>8, <1>10, <1>11
  <1>14. \A y \in D : p2[y] = IF y = h THEN x
                              ELSE IF y = x THEN NULL
                              ELSE IF y = behind THEN before ELSE p[y]
    BY <1>9, <1>12
  <1>15. \A y \in D : n2[y] = IF y = x THEN h
                              ELSE IF y = before THEN behind ELSE n[y]
    BY <1>10, <1>13
  <1> DEFINE tail == IF n[x] = NULL THEN p[x] ELSE rear
  <1>16. tail = (IF x = rear THEN before ELSE rear) /\ tail \in D \cup {NULL}
    BY <1>2, <1>3, <1>7, <1>8
  <1> HIDE DEF tail
  <1>17. /\ cs2 \in [K -> Heads(D)] /\ cs2[c].head_chunk = x
         /\ cs2[c].allocated_chunks = tail
         /\ \A d \in K \ {c} : cs2[d] = cs[d]
    <2>1. cs2 = [cs EXCEPT ![c] = [head_chunk |-> x, allocated_chunks |-> tail]]
      BY DEF tail
    <2> QED
      BY <1>1, <1>3, <1>16, <2>1 DEF Heads
  <1>18. /\ A2 \in [K -> SUBSET D] /\ B2 \in [K -> SUBSET D]
         /\ A2[c] = S \cup {x} /\ B2[c] = T \ {x}
         /\ \A d \in K \ {c} : A2[d] = A[d] /\ B2[d] = B[d]
    BY <1>1, <1>3
  <1> HIDE DEF S, T
  <1>19. Answers(D, p2, n2)
    <2>1. before = p[x] /\ behind = n[x]
      OBVIOUS
    <2> HIDE DEF before, behind
    <2> SUFFICES ASSUME NEW y \in D
                 PROVE  /\ n2[y] # NULL => p2[n2[y]] = y
                        /\ p2[y] # NULL => n2[p2[y]] = y
      BY DEF Answers
    <2>2. y # NULL
      OBVIOUS
    <2>3. ASSUME n2[y] # NULL PROVE p2[n2[y]] = y
      <3>1. CASE y = x
        BY <1>8, <1>14, <1>15, <2>3, <3>1
      <3>2. CASE y # x /\ y = before
        BY <1>3, <1>5, <1>7, <1>8, <1>14, <1>15, <2>3, <3>2
      <3>3. CASE y # x /\ y # before
        <4>1. n2[y] = n[y] /\ p[n[y]] = y /\ n[y] \in D /\ n[y] # NULL
          BY <1>6, <1>15, <2>3, <3>3
        <4>2. n[y] # h
          BY <1>2, <2>2, <4>1
        <4>3. n[y] # x
          BY <2>1, <3>3, <4>1
        <4>4. n[y] # behind
          BY <1>7, <3>3, <4>1
        <4> QED
          BY <1>14, <4>1, <4>2, <4>3, <4>4
      <3> QED
        BY <3>1, <3>2, <3>3
    <2>4. ASSUME p2[y] # NULL PROVE n2[p2[y]] = y
      <3>1. CASE y = h
        BY <1>3, <1>14, <1>15, <3>1
      <3>2. CASE y # h /\ y = behind
        <4>1. p2[y] = before
          BY <1>7, <1>14, <2>2, <3>2
        <4> QED
          BY <1>5, <1>8, <1>15, <2>4, <3>2, <4>1
      <3>3. CASE y # h /\ y # behind
        <4>1. p2[y] = p[y] /\ n[p[y]] = y /\ p[y] \in D /\ p[y] # NULL
          BY <1>6, <1>14, <2>4, <3>3
        <4>2. p[y] # x
          BY <2>1, <3>3, <4>1
        <4>3. p[y] # before
          <5>1. p[y] = before => n[before] = x
            BY <1>3, <1>6, <2>1, <4>1
          <5>2. p[y] = before => y = x
            BY <4>1, <5>1
          <5>3. y = x => p2[y] = NULL
            BY <1>14, <3>3
          <5> QED
            BY <2>4, <5>2, <5>3
        <4> QED
          BY <1>15, <4>1, <4>2, <4>3
      <3> QED
        BY <3>1, <3>2, <3>3
    <2> QED
      BY <2>3, <2>4
  <1>20. ListsApart(K, A2, B2)
    <2>1. \A d \in K : A2[d] \cap B2[d] = {}
      BY <1>1, <1>2, <1>18 DEF ListsApart
    <2>2. \A d \in K : A2[d] \cup B2[d] = A[d] \cup B[d]
      BY <1>3, <1>18 DEF S, T
    <2> QED
      BY <1>1, <2>1, <2>2 DEF ListsApart
  <1>21. Keeps(cs2, p2, n2, c, A2[c], B2[c])
    <2>1. NULL \notin S /\ NULL \notin T
      BY <1>2
    <2>2. \A z \in S : n2[z] = n[z]
      BY <1>2, <1>3, <1>15, <2>1
    <2>3. n2[x] = h
      BY <1>3, <1>15
    <2>4. ListOf(n2, x, S \cup {x})
      BY ONLY <1>2, <1>3, <2>1, <2>2, <2>3, ListPush
    <2>5. p2[x] = NULL
      BY <1>3, <1>8, <1>14
    <2>6. ListOf(p2, tail, T \ {x})
      <3>1. CASE x = rear
        <4>1. ListOf(p, before, T \ {x})
          BY <1>2, <1>3, <2>1, <3>1, ListPop
        <4>2. \A z \in T \ {x} : p2[z] = p[z]
          <5> SUFFICES ASSUME NEW z \in T \ {x} PROVE p2[z] = p[z]
            OBVIOUS
          <5>1. z \in D /\ z # NULL
            BY <1>2, <2>1
          <5>2. z # h /\ z # x /\ z # behind
            BY <1>2, <1>3, <1>7, <3>1, <5>1
          <5> QED
            BY <1>14, <5>1, <5>2
        <4>3. ListOf(p2, before, T \ {x})
          <5>1. NULL \notin T \ {x}
            BY <2>1
          <5> QED
            BY ONLY <4>1, <4>2, <5>1, ListSame
        <4> QED
          BY <1>16, <3>1, <4>3
      <3>2. CASE x # rear
        <4>1. behind \in T /\ p[behind] = x /\ behind # x
          BY <1>7, <3>2
        <4>2. p2[behind] = p[x]
          BY <1>2, <1>8, <1>14, <2>1, <4>1
        <4>3. \A z \in T \ {x, behind} : p2[z] = p[z]
          BY <1>2, <1>3, <1>14, <2>1
        <4> HIDE DEF behind
        <4>4. ListOf(p2, rear, T \ {x})
          BY ONLY <1>2, <1>3, <2>1, <4>1, <4>2, <4>3, ListCut
        <4> QED
          BY <1>16, <3>2, <4>4
      <3> QED
        BY <3>1, <3>2
    <2>7. tail # NULL => n2[tail] = NULL
      <3>1. CASE x = rear
        BY <1>5, <1>7, <1>8, <1>15, <1>16, <3>1
      <3>2. CASE x # rear
        BY <1>2, <1>3, <1>15, <1>16, <2>1, <3>2
      <3> QED
        BY <3>1, <3>2
    <2> QED
      BY <1>17, <1>18, <2>4, <2>5, <2>6, <2>7 DEF Keeps
  <1>22. ASSUME NEW d \in K, d # c
         PROVE  Keeps(cs2, p2, n2, d, A2[d], B2[d])
    <2>1. \A z \in A[d] \cup B[d] : \A y \in S \cup T : z # y
      BY <1>1, <1>22 DEF ListsApart, S, T
    <2>2. A[d] \in SUBSET D /\ B[d] \in SUBSET D
      BY <1>1
    <2>3. \A z \in A[d] \cup B[d] : p2[z] = p[z] /\ n2[z] = n[z]
      <3>1. \A z \in A[d] \cup B[d] :
              z # x /\ z # h /\ z # behind /\ z # before /\ z \in D
        BY <1>3, <1>7, <2>1, <2>2
      <3> QED
        BY <1>14, <1>15, <3>1
    <2>4. Keeps(cs, p, n, d, A[d], B[d])
      BY DEF Linked
    <2>5. cs2[d] = cs[d] /\ A2[d] = A[d] /\ B2[d] = B[d] /\ NULL \notin D
      BY <1>17, <1>18, <1>22
    <2>6. Keeps(cs2, p2, n2, d, A[d], B[d])
      BY ONLY <2>2, <2>3, <2>4, <2>5, KeepsSame
    <2> QED
      BY <2>5, <2>6
  <1> QED
    BY <1>12, <1>13, <1>17, <1>18, <1>19, <1>20, <1>21, <1>22 DEF Linked
-----------------------------------------------------------------------------
(* chopSlab: the chunks of a slab are a list, in both directions.          *)
LEMMA ChopLists ==
  ASSUME NEW s \in Nat, NEW c, NChunks(c) \in Nat \ {0},
         NULL \notin Chopped(s, c),
         NEW n, \A y \in Chopped(s, c) : n[y] = ChopNext(s, c)[y],
         NEW p, \A y \in Chopped(s, c) : p[y] = ChopPrev(s, c)[y]
  PROVE  /\ <<s, 0>> \in Chopped(s, c)
         /\ \A y \in Chopped(s, c) : /\ y[1] = s
                                     /\ n[y] \in Chopped(s, c) \cup {NULL}
                                     /\ p[y] \in Chopped(s, c) \cup {NULL}
         /\ p[<<s, 0>>] = NULL
         /\ Answers(Chopped(s, c), p, n)
         /\ ListOf(n, <<s, 0>>, Chopped(s, c))
  <1> DEFINE N == NChunks(c)
             G == Chopped(s, c)
  <1>1. N \in Nat /\ N >= 1
    OBVIOUS
  <1> HIDE DEF N
  <1>2. G = {s} \X (0 .. N - 1)
    BY DEF Chopped, N
  <1>3. \A y \in G : /\ n[y] = (IF y[2] = N - 1 THEN NULL ELSE <<s, y[2] + 1>>)
                     /\ p[y] = (IF y[2] = 0 THEN NULL ELSE <<s, y[2] - 1>>)
    BY DEF ChopNext, ChopPrev, N
  <1> HIDE DEF G
  <1>4. \A y \in G : y = <<s, y[2]>> /\ y[1] = s /\ y[2] \in 0 .. N - 1
    BY <1>2
  <1>5. \A k \in 0 .. N - 1 : /\ <<s, k>> \in G
                              /\ n[<<s, k>>] = (IF k = N - 1 THEN NULL
                                                ELSE <<s, k + 1>>)
                              /\ p[<<s, k>>] = (IF k = 0 THEN NULL
                                                ELSE <<s, k - 1>>)
    BY <1>2, <1>3
  <1>6. <<s, 0>> \in G /\ p[<<s, 0>>] = NULL
    <2>1. 0 \in 0 .. N - 1
      BY <1>1
    <2> QED
      BY <1>5, <2>1
  <1>7. ASSUME NEW y \in G, n[y] # NULL
        PROVE  /\ n[y] = <<s, y[2] + 1>> /\ n[y] \in G \ {<<s, 0>>}
               /\ p[n[y]] = y
    <2>1. /\ y[2] \in 0 .. N - 1 /\ y[2] # N - 1
          /\ n[y] = <<s, y[2] + 1>>
      BY <1>3, <1>4, <1>7
    <2>2. \A k \in 0 .. N - 1 : k # N - 1 =>
            k + 1 \in 0 .. N - 1 /\ k + 1 # 0 /\ (k + 1) - 1 = k
      BY <1>1
    <2>3. <<s, y[2] + 1>> \in G /\ p[<<s, y[2] + 1>>] = <<s, y[2]>>
      <3>1. /\ y[2] + 1 \in 0 .. N - 1 /\ y[2] + 1 # 0
            /\ (y[2] + 1) - 1 = y[2]
        BY <2>1, <2>2
      <3> QED
        BY <1>5, <3>1
    <2>4. <<s, y[2] + 1>> # <<s, 0>>
      BY <2>1, <2>2
    <2> QED
      BY <1>4, <2>1, <2>3, <2>4
  <1>8. ASSUME NEW y \in G, p[y] # NULL PROVE p[y] \in G /\ n[p[y]] = y
    <2>1. y[2] \in 0 .. N - 1 /\ y[2] # 0 /\ p[y] = <<s, y[2] - 1>>
      BY <1>3, <1>4, <1>8
    <2>2. \A k \in 0 .. N - 1 : k # 0 =>
            k - 1 \in 0 .. N - 1 /\ k - 1 # N - 1 /\ (k - 1) + 1 = k
      BY <1>1
    <2>3. <<s, y[2] - 1>> \in G /\ n[<<s, y[2] - 1>>] = <<s, y[2]>>
      <3>1. /\ y[2] - 1 \in 0 .. N - 1 /\ y[2] - 1 # N - 1
            /\ (y[2] - 1) + 1 = y[2]
        BY <2>1, <2>2
      <3> QED
        BY <1>5, <3>1
    <2> QED
      BY <1>4, <2>1, <2>3
  <1>9. ASSUME NEW z \in G \ {<<s, 0>>} PROVE \E w \in G : n[w] = z
    <2>1. z[2] # 0 /\ z[2] \in 0 .. N - 1
      BY <1>4
    <2>2. p[z] = <<s, z[2] - 1>> /\ z[2] - 1 \in 0 .. N - 1
      <3>1. \A k \in 0 .. N - 1 : k # 0 => k - 1 \in 0 .. N - 1
        BY <1>1
      <3> QED
        BY <1>3, <2>1, <3>1
    <2>3. p[z] \in G /\ NULL \notin G
      BY <1>5, <2>2 DEF G
    <2> QED
      BY <1>8, <2>3
  <1>10. \A w, z \in G : n[w] = n[z] => w = z \/ n[w] = NULL
    <2>1. \A w \in G : n[w] # NULL => p[n[w]] = w
      BY <1>7
    <2> QED
      BY <2>1
  <1>11. \E r \in [G -> Nat] : \A z \in G : n[z] # NULL => r[z] < r[n[z]]
    <2> DEFINE r == [z \in G |-> z[2]]
    <2>1. r \in [G -> Nat]
      BY <1>1, <1>4
    <2>2. ASSUME NEW z \in G, n[z] # NULL PROVE r[z] < r[n[z]]
      <3>1. n[z] \in G /\ n[z] = <<s, z[2] + 1>> /\ z[2] \in Nat
        BY <1>1, <1>4, <1>7, <2>2
      <3>2. r[n[z]] = z[2] + 1 /\ r[z] = z[2]
        BY <3>1
      <3> QED
        BY <3>1, <3>2
    <2> HIDE DEF r
    <2> QED
      BY <2>1, <2>2
  <1>12. ListOf(n, <<s, 0>>, G)
    <2>1. G # {}
      BY <1>6
    <2>2. \A z \in G : n[z] \in (G \ {<<s, 0>>}) \cup {NULL}
      BY <1>7
    <2> QED
      BY <1>6, <1>9, <1>10, <1>11, <2>1, <2>2 DEF ListOf
  <1>13. Answers(G, p, n)
    BY <1>7, <1>8 DEF Answers
  <1>14. \A y \in G : /\ y[1] = s /\ n[y] \in G \cup {NULL}
                      /\ p[y] \in G \cup {NULL}
    BY <1>4, <1>7, <1>8
  <1> QED
    BY <1>6, <1>12, <1>13, <1>14 DEF G

(* What chopSlab makes of the lists of class c.                            *)
Chops(c, s, cs, p, n, A, cs2, p2, n2, A2) ==
  /\ cs2 = [cs EXCEPT ![c] = [head_chunk |-> <<s, 0>>,
                              allocated_chunks |-> cs[c].allocated_chunks]]
  /\ p2 = Over(p, ChopPrev(s, c)) /\ n2 = Over(n, ChopNext(s, c))
  /\ A2 = [A EXCEPT ![c] = Chopped(s, c)]

(* The chunks of a new slab become the list of a class that had none.      *)
LEMMA ChopLinked ==
  ASSUME NEW K, NEW D, NULL \notin D, NEW cs, NEW p, NEW n, NEW A, NEW B,
         Linked(K, D, cs, p, n, A, B),
         NEW c \in K, cs[c].head_chunk = NULL, NChunks(c) \in Nat \ {0},
         NEW s \in Nat, \A x \in D : x[1] # s, NULL \notin Chopped(s, c),
         NEW cs2, NEW p2, NEW n2, NEW A2,
         Chops(c, s, cs, p, n, A, cs2, p2, n2, A2)
  PROVE  /\ A[c] = {}
         /\ Linked(K, D \cup Chopped(s, c), cs2, p2, n2, A2, B)
  <1> DEFINE G == Chopped(s, c)
             E == D \cup G
             T == B[c]
             rear == cs[c].allocated_chunks
  <1>0. /\ cs2 = [cs EXCEPT ![c] =
             [head_chunk |-> <<s, 0>>,
              allocated_chunks |-> cs[c].allocated_chunks]]
        /\ p2 = Over(p, ChopPrev(s, c)) /\ n2 = Over(n, ChopNext(s, c))
        /\ A2 = [A EXCEPT ![c] = Chopped(s, c)]
    BY DEF Chops
  <1> USE <1>0
  <1>1. /\ p \in [D -> D \cup {NULL}] /\ n \in [D -> D \cup {NULL}]
        /\ cs \in [K -> Heads(D)]
        /\ A \in [K -> SUBSET D] /\ B \in [K -> SUBSET D]
        /\ Answers(D, p, n) /\ ListsApart(K, A, B)
    BY DEF Linked
  <1>2. /\ ListOf(n, NULL, A[c]) /\ ListOf(p, rear, T)
        /\ (rear # NULL => n[rear] = NULL)
    BY DEF Linked, Keeps
  <1>3. A[c] = {}
    BY <1>1, <1>2 DEF ListOf
  <1>4. rear \in T \cup {NULL} /\ T \in SUBSET D
    BY <1>1, <1>2 DEF ListOf
  <1>5. DOMAIN p = D /\ DOMAIN n = D
    BY <1>1
  <1>6. /\ DOMAIN p2 = E /\ \A y \in G : p2[y] = ChopPrev(s, c)[y]
        /\ \A y \in E : y \notin G => p2[y] = p[y]
        /\ p2 = [y \in E |-> p2[y]]
    BY <1>5 DEF Over, ChopPrev
  <1>7. /\ DOMAIN n2 = E /\ \A y \in G : n2[y] = ChopNext(s, c)[y]
        /\ \A y \in E : y \notin G => n2[y] = n[y]
        /\ n2 = [y \in E |-> n2[y]]
    BY <1>5 DEF Over, ChopNext
  <1>8. /\ <<s, 0>> \in G /\ p2[<<s, 0>>] = NULL
        /\ \A y \in G : /\ y[1] = s /\ n2[y] \in G \cup {NULL}
                        /\ p2[y] \in G \cup {NULL}
        /\ Answers(G, p2, n2) /\ ListOf(n2, <<s, 0>>, G)
    <2> HIDE DEF G
    <2>1. \A y \in Chopped(s, c) : n2[y] = ChopNext(s, c)[y]
      BY <1>7 DEF G
    <2>2. \A y \in Chopped(s, c) : p2[y] = ChopPrev(s, c)[y]
      BY <1>6 DEF G
    <2>3. /\ <<s, 0>> \in Chopped(s, c)
          /\ \A y \in Chopped(s, c) :
               /\ y[1] = s
               /\ n2[y] \in Chopped(s, c) \cup {NULL}
               /\ p2[y] \in Chopped(s, c) \cup {NULL}
          /\ p2[<<s, 0>>] = NULL
          /\ Answers(Chopped(s, c), p2, n2)
          /\ ListOf(n2, <<s, 0>>, Chopped(s, c))
      <3>1. s \in Nat /\ NChunks(c) \in Nat \ {0} /\ NULL \notin Chopped(s, c)
        OBVIOUS
      <3> QED
        BY ONLY <2>1, <2>2, <3>1, ChopLists
    <2> QED
      BY <2>3 DEF G
  <1> HIDE DEF G
  <1>9. \A y \in D : y \notin G /\ p2[y] = p[y] /\ n2[y] = n[y]
    BY <1>6, <1>7, <1>8
  <1>10. p2 \in [E -> E \cup {NULL}] /\ n2 \in [E -> E \cup {NULL}]
    <2>1. \A y \in E : p2[y] \in E \cup {NULL} /\ n2[y] \in E \cup {NULL}
      BY <1>1, <1>8, <1>9
    <2> HIDE DEF E
    <2> QED
      BY <1>6, <1>7, <2>1
  <1>11. Answers(E, p2, n2)
    <2>1. \A y \in D : /\ n[y] # NULL => p[n[y]] = y /\ n[y] \in D
                       /\ p[y] # NULL => n[p[y]] = y /\ p[y] \in D
      BY <1>1 DEF Answers
    <2>2. \A y \in D : /\ n2[y] # NULL => p2[n2[y]] = y
                       /\ p2[y] # NULL => n2[p2[y]] = y
      BY <1>9, <2>1
    <2> QED
      BY <1>8, <2>2 DEF Answers
  <1>12. /\ cs2 \in [K -> Heads(E)] /\ cs2[c].head_chunk = <<s, 0>>
         /\ cs2[c].allocated_chunks = rear
         /\ \A d \in K \ {c} : cs2[d] = cs[d]
    <2>1. rear \in E \cup {NULL} /\ <<s, 0>> \in E
      BY <1>4, <1>8
    <2>2. cs \in [K -> Heads(E)]
      <3>1. Heads(D) \subseteq Heads(E)
        BY DEF Heads
      <3> QED
        BY <1>1, <3>1
    <2> DEFINE new == [head_chunk |-> <<s, 0>>, allocated_chunks |-> rear]
    <2>3. new \in Heads(E)
      BY <2>1 DEF Heads
    <2>4. cs2 = [cs EXCEPT ![c] = new]
      OBVIOUS
    <2>5. new.head_chunk = <<s, 0>> /\ new.allocated_chunks = rear
      OBVIOUS
    <2> HIDE DEF new, E, rear
    <2> QED
      BY <2>2, <2>3, <2>4, <2>5
  <1>13. /\ A2 \in [K -> SUBSET E] /\ B \in [K -> SUBSET E] /\ A2[c] = G
         /\ \A d \in K \ {c} : A2[d] = A[d]
    BY <1>1 DEF G
  <1>14. ListsApart(K, A2, B)
    <2>1. \A d \in K : A2[d] \cap B[d] = {}
      BY <1>1, <1>9, <1>13 DEF ListsApart
    <2>2. ASSUME NEW d \in K, NEW e \in K, d # e,
                 NEW x \in A2[d] \cup B[d], NEW y \in A2[e] \cup B[e]
          PROVE  x[1] # y[1]
      <3>1. \A f \in K \ {c} : \A z \in A2[f] \cup B[f] :
              z \in D /\ z \in A[f] \cup B[f]
        BY <1>1, <1>13
      <3>2. \A z \in A2[c] \cup B[c] : z[1] = s \/ z \in A[c] \cup B[c]
        BY <1>8, <1>13
      <3> QED
        BY <1>1, <2>2, <3>1, <3>2 DEF ListsApart
    <2> QED
      BY <2>1, <2>2 DEF ListsApart
  <1>15. Keeps(cs2, p2, n2, c, A2[c], B[c])
    <2>1. ListOf(p2, rear, T)
      <3>1. NULL \notin T /\ \A y \in T : p2[y] = p[y]
        BY <1>4, <1>9
      <3> HIDE DEF T, rear
      <3> QED
        BY ONLY <1>2, <3>1, ListSame
    <2>2. rear # NULL => n2[rear] = NULL
      BY <1>2, <1>4, <1>9
    <2> QED
      BY <1>8, <1>12, <1>13, <2>1, <2>2 DEF Keeps
  <1>16. ASSUME NEW d \in K, d # c
         PROVE  Keeps(cs2, p2, n2, d, A2[d], B[d])
    <2>1. /\ A[d] \in SUBSET D /\ B[d] \in SUBSET D
          /\ \A x \in A[d] \cup B[d] : p2[x] = p[x] /\ n2[x] = n[x]
      BY <1>1, <1>9
    <2>2. Keeps(cs, p, n, d, A[d], B[d])
      BY DEF Linked
    <2>3. cs2[d] = cs[d] /\ A2[d] = A[d] /\ NULL \notin D
      BY <1>12, <1>13, <1>16
    <2>4. Keeps(cs2, p2, n2, d, A[d], B[d])
      BY ONLY <2>1, <2>2, <2>3, KeepsSame
    <2> QED
      BY <2>3, <2>4
  <1>17. Linked(K, E, cs2, p2, n2, A2, B)
    <2> HIDE DEF E
    <2> QED
      BY <1>10, <1>11, <1>12, <1>13, <1>14, <1>15, <1>16 DEF Linked
  <1> QED
    BY <1>3, <1>17 DEF G
-----------------------------------------------------------------------------
(* What the pointers of a class lead through are the sets of Linked.       *)
LEMMA LinkedAreMet ==
  ASSUME NEW K, NEW D, IsFiniteSet(D), NULL \notin D, NEW cs, NEW p, NEW n,
         NEW A, NEW B, Linked(K, D, cs, p, n, A, B)
  PROVE  \A c \in K : /\ Met(n, cs[c].head_chunk) = A[c]
                      /\ Met(p, cs[c].allocated_chunks) = B[c]
                      /\ Ends(n, cs[c].head_chunk)
                      /\ Ends(p, cs[c].allocated_chunks)
  <1>1. /\ p \in [D -> D \cup {NULL}] /\ n \in [D -> D \cup {NULL}]
        /\ A \in [K -> SUBSET D] /\ B \in [K -> SUBSET D]
        /\ \A c \in K : Keeps(cs, p, n, c, A[c], B[c])
    BY DEF Linked
  <1>2. ASSUME NEW c \in K
        PROVE  /\ Met(n, cs[c].head_chunk) = A[c]
               /\ Met(p, cs[c].allocated_chunks) = B[c]
               /\ Ends(n, cs[c].head_chunk)
               /\ Ends(p, cs[c].allocated_chunks)
    <2>1. /\ ListOf(n, cs[c].head_chunk, A[c])
          /\ ListOf(p, cs[c].allocated_chunks, B[c])
      BY <1>1 DEF Keeps
    <2>2. A[c] \in SUBSET D /\ B[c] \in SUBSET D
      BY <1>1
    <2>3. Met(n, cs[c].head_chunk) = A[c] /\ Ends(n, cs[c].head_chunk)
      BY <1>1, <2>1, <2>2, ListWalk
    <2>4. /\ Met(p, cs[c].allocated_chunks) = B[c]
          /\ Ends(p, cs[c].allocated_chunks)
      BY <1>1, <2>1, <2>2, ListWalk
    <2> QED
      BY <2>3, <2>4
  <1> QED
    BY <1>2

(* A slab makes one chunk at least, and no more than it has bytes.         *)
LEMMA SlabMakesChunks ==
  ASSUME NEW c \in 1 .. MaxClasses
  PROVE  NChunks(c) \in 1 .. SlabSize
  <1>1. SlabSize \in Nat \ {0} /\ ChunkSizes[c] \in 1 .. SlabSize
    BY SizesAssumption
  <1>2. \A m \in Nat \ {0} : \A k \in 1 .. m : m \div k \in 1 .. m
    <2> SUFFICES ASSUME NEW m \in Nat \ {0}, NEW k \in 1 .. m
                 PROVE  m \div k \in 1 .. m
      OBVIOUS
    <2>1. /\ m \div k \in Int
          /\ k * (m \div k) <= m
          /\ m < k * (m \div k) + k
      OBVIOUS
    <2>2. ASSUME NEW q \in Int, k * q <= m, m < k * q + k
          PROVE  q \in 1 .. m
      <3>1. q >= 1
        <4>1. q <= 0 => k * q <= 0
          OBVIOUS
        <4> QED
          BY <2>2, <4>1
      <3>2. q <= m
        <4>1. k * q >= q
          BY <3>1
        <4> QED
          BY <2>2, <4>1
      <3> QED
        BY <3>1, <3>2
    <2> QED
      BY <2>1, <2>2
  <1> QED
    BY <1>1, <1>2 DEF NChunks

(* The chunks of slab s.                                                   *)
LEMMA ChoppedIsIn ==
  ASSUME NEW m \in Nat, NEW s \in 1 .. m, NEW c \in 1 .. MaxClasses
  PROVE  /\ Chopped(s, c) \subseteq (1 .. m) \X (0 .. SlabSize - 1)
         /\ NULL \notin Chopped(s, c) /\ NChunks(c) \in Nat \ {0}
         /\ \A y \in Chopped(s, c) : y[1] = s
  <1>1. NChunks(c) \in 1 .. SlabSize /\ SlabSize \in Nat
    BY SlabMakesChunks, SizesAssumption
  <1> HIDE DEF NChunks
  <1>2. 0 .. NChunks(c) - 1 \subseteq 0 .. SlabSize - 1
    BY <1>1
  <1>3. Chopped(s, c) \subseteq (1 .. m) \X (0 .. SlabSize - 1)
    BY <1>2 DEF Chopped
  <1>4. (1 .. m) \X (0 .. SlabSize - 1) \subseteq Nat \X Nat
    BY <1>1
  <1> QED
    BY <1>1, <1>3, <1>4, PointersAssumption DEF Chopped

-----------------------------------------------------------------------------
FreeLists == [c \in Classes |-> Available(c)]
UsedLists == [c \in Classes |-> Allocated(c)]

(* Every chunk is in a list, those the program holds in allocated ones.    *)
Accounted(K, D, A, B, H) ==
  /\ \A x \in D : \E c \in K : x \in A[c] \cup B[c]
  /\ H \subseteq D /\ \A x \in D : x \in H <=> \E c \in K : x \in B[c]

(* The numbers of init_slab_allocator: the slabs that are chopped.         *)
Room(m) == (1 .. m) \X (0 .. SlabSize - 1)
Counts == /\ n_total \in PoolSizes \cup {0} /\ n_slabs \in Nat
          /\ n_classes \in 0 .. MaxClasses
          /\ DOMAIN next \subseteq Room(n_total)
          /\ held \subseteq DOMAIN next /\ crashed \in BOOLEAN

(* The chunks are where they should be, and the pool is behind them.       *)
Stocked == /\ n_slabs <= n_total
           /\ pool = IF n_slabs = 0 THEN NULL ELSE n_total - n_slabs + 1
           /\ \A x \in DOMAIN next : x[1] <= n_total - n_slabs
           /\ Linked(Classes, DOMAIN next, classes, prev, next,
                     FreeLists, UsedLists)
           /\ Accounted(Classes, DOMAIN next, FreeLists, UsedLists, held)

Empty == prev = <<>> /\ next = <<>>

(* The inductive invariant.                                                *)
Good == Counts /\ (IF classes = NULL THEN Empty ELSE Stocked)

(* There are so many chunks only, and NULL is none.                        *)
LEMMA ChunksAreFew ==
  ASSUME NEW m \in PoolSizes \cup {0}, NEW D, D \subseteq Room(m)
  PROVE  /\ IsFiniteSet(D) /\ NULL \notin D /\ D \subseteq Chunks
         /\ D \subseteq Nat \X Nat /\ m \in Nat
  <1>1. m \in Nat /\ SlabSize \in Nat
    BY SizesAssumption
  <1>2. IsFiniteSet(1 .. m) /\ IsFiniteSet(0 .. SlabSize - 1)
    BY <1>1, FS_Interval
  <1>3. IsFiniteSet(Room(m))
    BY <1>2, FS_Product DEF Room
  <1>4. IsFiniteSet(D)
    BY <1>3, FS_Subset
  <1>5. Room(m) \subseteq Nat \X Nat
    BY <1>1 DEF Room
  <1>6. 1 .. m \subseteq UNION {1 .. n : n \in PoolSizes}
    <2>1. CASE m \in PoolSizes
      BY <2>1
    <2>2. CASE m = 0
      <3>1. 1 .. m = {}
        BY <2>2
      <3> QED
        BY <3>1
    <2> QED
      BY <2>1, <2>2
  <1>7. Room(m) \subseteq Chunks
    BY <1>6 DEF Room, Chunks
  <1> QED
    BY <1>1, <1>4, <1>5, <1>7, PointersAssumption

(* What is handed to the next state.                                       *)
LEMMA StockedAgain ==
  ASSUME Counts', classes' # NULL, NEW K, K = Classes', NEW D, D = DOMAIN next',
         NEW A, NEW B, Linked(K, D, classes', prev', next', A, B),
         Accounted(K, D, A, B, held'), n_slabs' <= n_total',
         pool' = IF n_slabs' = 0 THEN NULL ELSE n_total' - n_slabs' + 1,
         \A x \in D : x[1] <= n_total' - n_slabs'
  PROVE  Good' /\ FreeLists' = A /\ UsedLists' = B
  <1>1. n_total' \in PoolSizes \cup {0} /\ D \subseteq Room(n_total')
    BY DEF Counts
  <1>2. IsFiniteSet(D) /\ NULL \notin D
    BY <1>1, ChunksAreFew
  <1>3. \A c \in K : /\ Met(next', classes'[c].head_chunk) = A[c]
                     /\ Met(prev', classes'[c].allocated_chunks) = B[c]
    <2>1. Linked(K, D, classes', prev', next', A, B)
      OBVIOUS
    <2> QED
      BY ONLY <1>2, <2>1, LinkedAreMet
  <1>4. FreeLists' = A /\ UsedLists' = B
    <2>1. A = [c \in K |-> A[c]] /\ B = [c \in K |-> B[c]]
      BY DEF Linked
    <2> QED
      BY <1>3, <2>1 DEF FreeLists, UsedLists, Available, Allocated
  <1>5. Stocked'
    BY <1>4 DEF Stocked
  <1> QED
    BY <1>4, <1>5 DEF Good
-----------------------------------------------------------------------------
(* A new allocator is good, and the program has nothing yet.              *)
LEMMA GoodInit ==
  ASSUME Init
  PROVE  /\ Good
         /\ classes # NULL => UsedLists = [c \in Classes |-> {}]
  <1>1. PICK m \in PoolSizes : init_slab_allocator(m)
    BY DEF Init
  <1>2. held = {} /\ crashed = FALSE /\ m \in Nat /\ MaxClasses \in Nat
    BY SizesAssumption DEF Init, MaxClasses
  <1> DEFINE k == ClassesFor(m)
  <1>3. k \in 0 .. MaxClasses /\ k <= m /\ m - k \in Nat
    BY <1>2 DEF ClassesFor
  <1> HIDE DEF k
  <1>4. CASE InitNoPool(m)
    <2>1. /\ n_slabs = m /\ n_classes = k /\ classes = NULL /\ n_total = 0
          /\ prev = <<>> /\ next = <<>>
      BY <1>4 DEF InitNoPool, k
    <2>2. DOMAIN next = {}
      BY <2>1
    <2> QED
      BY <1>2, <1>3, <2>1, <2>2 DEF Good, Counts, Empty
  <1>5. ASSUME NEW failed, m > 0, InitPool(m, failed)
        PROVE  /\ Good /\ UsedLists = [c \in Classes |-> {}]
    <2> DEFINE done == (1 .. k) \ failed
               D == UNION {Chopped(c, c) : c \in done}
               A == [c \in 1 .. k |-> IF c \in done THEN Chopped(c, c) ELSE {}]
               B == [c \in 1 .. k |-> {}]
    <2>1. /\ n_total = m /\ n_slabs = m - k /\ n_classes = k
          /\ pool = (IF k = m THEN NULL ELSE k + 1)
          /\ classes = [c \in 1 .. k |->
               [head_chunk |-> IF c \in done THEN <<c, 0>> ELSE NULL,
                allocated_chunks |-> NULL]]
          /\ prev = [x \in D |-> ChopPrev(x[1], x[1])[x]]
          /\ next = [x \in D |-> ChopNext(x[1], x[1])[x]]
      BY <1>5 DEF InitPool, k
    <2>2. \A c \in done : /\ c \in 1 .. k /\ c \in 1 .. MaxClasses
                          /\ c \in 1 .. m /\ c \in Nat
      BY <1>2, <1>3
    <2>3. ASSUME NEW c \in done
          PROVE  /\ Chopped(c, c) \subseteq D
                 /\ Chopped(c, c) \subseteq Room(m) /\ NULL \notin Chopped(c, c)
                 /\ <<c, 0>> \in Chopped(c, c)
                 /\ \A y \in Chopped(c, c) :
                      /\ y[1] = c /\ next[y] \in Chopped(c, c) \cup {NULL}
                      /\ prev[y] \in Chopped(c, c) \cup {NULL}
                 /\ prev[<<c, 0>>] = NULL
                 /\ Answers(Chopped(c, c), prev, next)
                 /\ ListOf(next, <<c, 0>>, Chopped(c, c))
      <3>1. /\ Chopped(c, c) \subseteq Room(m)
            /\ NULL \notin Chopped(c, c) /\ NChunks(c) \in Nat \ {0}
            /\ \A y \in Chopped(c, c) : y[1] = c
        <4>1. c \in 1 .. MaxClasses /\ c \in 1 .. m
          BY <2>2
        <4> QED
          BY <1>2, <4>1, ChoppedIsIn DEF Room
      <3>2. Chopped(c, c) \subseteq D
        OBVIOUS
      <3>3. \A y \in Chopped(c, c) : next[y] = ChopNext(c, c)[y]
        BY <2>1, <3>1, <3>2
      <3>4. \A y \in Chopped(c, c) : prev[y] = ChopPrev(c, c)[y]
        BY <2>1, <3>1, <3>2
      <3>5. c \in Nat
        BY <2>2
      <3>6. /\ <<c, 0>> \in Chopped(c, c)
            /\ \A y \in Chopped(c, c) :
                 /\ y[1] = c
                 /\ next[y] \in Chopped(c, c) \cup {NULL}
                 /\ prev[y] \in Chopped(c, c) \cup {NULL}
            /\ prev[<<c, 0>>] = NULL
            /\ Answers(Chopped(c, c), prev, next)
            /\ ListOf(next, <<c, 0>>, Chopped(c, c))
        BY ONLY <3>1, <3>3, <3>4, <3>5, ChopLists
      <3> QED
        BY <3>1, <3>2, <3>6
    <2>4. \A x \in D : \E c \in done : x \in Chopped(c, c)
      OBVIOUS
    <2>5. DOMAIN next = D /\ DOMAIN prev = D
      BY <2>1
    <2>6. classes # NULL
      <3>1. classes \in [1 .. k -> [head_chunk : MaybeChunk,
                                    allocated_chunks : MaybeChunk]]
        <4>1. \A c \in done : <<c, 0>> \in MaybeChunk
          BY <2>2 DEF MaybeChunk
        <4>2. NULL \in MaybeChunk
          BY DEF MaybeChunk
        <4> HIDE DEF done
        <4> QED
          BY <2>1, <4>1, <4>2
      <3> QED
        BY <1>3, <3>1, PointersAssumption
    <2>7. Classes = 1 .. k
      BY <2>1 DEF Classes
    <2> HIDE DEF D, done
    <2>8. D \subseteq Room(m) /\ NULL \notin D
      BY <2>3, <2>4
    <2>9. Counts
      BY <1>2, <1>3, <2>1, <2>5, <2>8 DEF Counts
    <2>10. next \in [D -> D \cup {NULL}] /\ prev \in [D -> D \cup {NULL}]
      <3>1. \A x \in D : next[x] \in D \cup {NULL} /\ prev[x] \in D \cup {NULL}
        BY <2>3, <2>4
      <3>2. next = [x \in D |-> next[x]] /\ prev = [x \in D |-> prev[x]]
        BY <2>1
      <3> QED
        BY <3>1, <3>2
    <2>11. Answers(D, prev, next)
      <3>1. ASSUME NEW x \in D
            PROVE  /\ next[x] # NULL => prev[next[x]] = x
                   /\ prev[x] # NULL => next[prev[x]] = x
        <4>1. PICK c \in done : x \in Chopped(c, c)
          BY <2>4
        <4>2. Answers(Chopped(c, c), prev, next)
          BY <2>3
        <4> QED
          BY <4>1, <4>2 DEF Answers
      <3> QED
        BY <3>1 DEF Answers
    <2>12. /\ \A c \in done : /\ c \in 1 .. k
                              /\ classes[c].head_chunk = <<c, 0>>
                              /\ classes[c].allocated_chunks = NULL
                              /\ A[c] = Chopped(c, c)
           /\ \A c \in (1 .. k) \ done : /\ classes[c].head_chunk = NULL
                                         /\ classes[c].allocated_chunks = NULL
                                         /\ A[c] = {}
           /\ \A c \in 1 .. k : B[c] = {}
      BY <2>1, <2>2
    <2>13. classes \in [1 .. k -> Heads(D)]
      <3>1. \A c \in done : <<c, 0>> \in D
        BY <2>3
      <3> QED
        BY <2>1, <3>1 DEF Heads
    <2>14. A \in [1 .. k -> SUBSET D] /\ B \in [1 .. k -> SUBSET D]
      BY <2>3
    <2> HIDE DEF A, B
    <2>15. ListsApart(1 .. k, A, B)
      <3>1. ASSUME NEW c \in 1 .. k, NEW x \in A[c] \cup B[c]
            PROVE  x[1] = c
        <4>1. c \in done /\ x \in Chopped(c, c)
          BY <2>12
        <4> QED
          BY <2>3, <4>1
      <3>2. \A c \in 1 .. k : A[c] \cap B[c] = {}
        BY <2>12
      <3> QED
        BY <3>1, <3>2 DEF ListsApart
    <2>16. \A link : ListOf(link, NULL, {})
      <3>1. [z \in {} |-> 0] \in [{} -> Nat]
        OBVIOUS
      <3> QED
        BY <3>1 DEF ListOf
    <2>17. ASSUME NEW c \in 1 .. k
           PROVE  Keeps(classes, prev, next, c, A[c], B[c])
      <3>1. CASE c \in done
        <4>1. <<c, 0>> \in Chopped(c, c) /\ NULL \notin Chopped(c, c)
              /\ prev[<<c, 0>>] = NULL /\ ListOf(next, <<c, 0>>, Chopped(c, c))
          BY <2>3, <3>1
        <4>2. /\ classes[c].head_chunk = <<c, 0>> /\ B[c] = {}
              /\ classes[c].allocated_chunks = NULL /\ A[c] = Chopped(c, c)
          BY <2>12, <3>1
        <4> QED
          BY <2>16, <4>1, <4>2 DEF Keeps
      <3>2. CASE c \notin done
        <4>1. /\ classes[c].head_chunk = NULL /\ B[c] = {}
              /\ classes[c].allocated_chunks = NULL /\ A[c] = {}
          BY <2>12, <3>2
        <4> QED
          BY <2>16, <4>1 DEF Keeps
      <3> QED
        BY <3>1, <3>2
    <2>18. Linked(1 .. k, D, classes, prev, next, A, B)
      BY <2>10, <2>11, <2>13, <2>14, <2>15, <2>17 DEF Linked
    <2>19. Accounted(1 .. k, D, A, B, held)
      <3>1. \A x \in D : \E c \in 1 .. k : x \in A[c] \cup B[c]
        BY <2>4, <2>12
      <3> QED
        BY <1>2, <2>12, <3>1 DEF Accounted
    <2>20. FreeLists = A /\ UsedLists = B
      <3>1. IsFiniteSet(D)
        BY <1>1, <2>8, ChunksAreFew
      <3>2. \A c \in 1 .. k :
              /\ Met(next, classes[c].head_chunk) = A[c]
              /\ Met(prev, classes[c].allocated_chunks) = B[c]
        <4> DEFINE K == 1 .. k
        <4>1. Linked(K, D, classes, prev, next, A, B)
          BY <2>18
        <4> HIDE DEF K
        <4>2. \A c \in K : /\ Met(next, classes[c].head_chunk) = A[c]
                           /\ Met(prev, classes[c].allocated_chunks) = B[c]
          BY ONLY <2>8, <3>1, <4>1, LinkedAreMet
        <4> QED
          BY <4>2 DEF K
      <3>3. A = [c \in 1 .. k |-> A[c]] /\ B = [c \in 1 .. k |-> B[c]]
        BY <2>14
      <3> QED
        BY <2>7, <3>2, <3>3 DEF FreeLists, UsedLists, Available, Allocated
    <2>21. Stocked
      <3>1. n_slabs <= n_total
        BY <1>2, <1>3, <2>1
      <3>2. pool = IF n_slabs = 0 THEN NULL ELSE n_total - n_slabs + 1
        BY <1>2, <1>3, <2>1
      <3>3. \A x \in D : x[1] <= n_total - n_slabs
        <4>1. n_total - n_slabs = k
          BY <1>2, <1>3, <2>1
        <4>2. \A c \in done : c <= k
          BY <1>3, <2>2
        <4>3. ASSUME NEW x \in D PROVE x[1] <= k
          <5>1. PICK c \in done : x \in Chopped(c, c)
            BY <2>4
          <5>2. x[1] = c
            BY <2>3, <5>1
          <5> QED
            BY <4>2, <5>2
        <4> QED
          BY <4>1, <4>3
      <3> QED
        BY <2>5, <2>7, <2>18, <2>19, <2>20, <3>1, <3>2, <3>3 DEF Stocked
    <2> QED
      BY <2>6, <2>7, <2>9, <2>20, <2>21 DEF Good, B
  <1> QED
    BY <1>1, <1>4, <1>5 DEF init_slab_allocator
-----------------------------------------------------------------------------
(* What a step that concerns the classes may rely on.                      *)
LEMMA WhatIsGood ==
  ASSUME Good, classes # NULL
  PROVE  /\ Linked(Classes, DOMAIN next, classes, prev, next,
                   FreeLists, UsedLists)
         /\ Accounted(Classes, DOMAIN next, FreeLists, UsedLists, held)
         /\ IsFiniteSet(DOMAIN next) /\ NULL \notin DOMAIN next
         /\ n_total \in Nat /\ n_slabs \in Nat /\ n_slabs <= n_total
         /\ pool = IF n_slabs = 0 THEN NULL ELSE n_total - n_slabs + 1
         /\ \A x \in DOMAIN next : x[1] \in Nat /\ x[1] <= n_total - n_slabs
         /\ Classes \subseteq 1 .. MaxClasses
  <1>1. Counts /\ Stocked
    BY DEF Good
  <1>2. n_total \in PoolSizes \cup {0} /\ DOMAIN next \subseteq Room(n_total)
    BY <1>1 DEF Counts
  <1>3. /\ IsFiniteSet(DOMAIN next) /\ NULL \notin DOMAIN next
        /\ DOMAIN next \subseteq Nat \X Nat /\ n_total \in Nat
    BY <1>2, ChunksAreFew
  <1>4. \A x \in DOMAIN next : x[1] \in Nat
    BY <1>3
  <1>5. Classes \subseteq 1 .. MaxClasses
    BY <1>1 DEF Counts, Classes, MaxClasses
  <1> QED
    BY <1>1, <1>3, <1>4, <1>5 DEF Counts, Stocked

(* The array of classes stays an array.                                    *)
LEMMA StillClasses ==
  ASSUME NEW m \in PoolSizes \cup {0}, NEW D, D \subseteq Room(m),
         NEW k \in 0 .. MaxClasses, NEW cs \in [1 .. k -> Heads(D)]
  PROVE  cs # NULL
  <1>1. D \subseteq Nat \X Nat
    BY ChunksAreFew
  <1>2. Heads(D) \subseteq [head_chunk : MaybeChunk,
                            allocated_chunks : MaybeChunk]
    BY <1>1 DEF Heads, MaybeChunk
  <1>3. cs \in [1 .. k -> [head_chunk : MaybeChunk,
                           allocated_chunks : MaybeChunk]]
    BY <1>2
  <1> QED
    BY <1>3, PointersAssumption

(* What a step that moves chunk x leads to, as sets.                       *)
LEMMA MovedAccounted ==
  ASSUME NEW K, NEW D, NEW A \in [K -> SUBSET D], NEW B \in [K -> SUBSET D],
         NEW H, Accounted(K, D, A, B, H), NEW c \in K, NEW x \in A[c]
  PROVE  Accounted(K, D, [A EXCEPT ![c] = @ \ {x}],
                   [B EXCEPT ![c] = @ \cup {x}], H \cup {x})
  <1> DEFINE A2 == [A EXCEPT ![c] = @ \ {x}]
             B2 == [B EXCEPT ![c] = @ \cup {x}]
  <1>1. /\ A2[c] = A[c] \ {x} /\ B2[c] = B[c] \cup {x}
        /\ \A d \in K \ {c} : A2[d] = A[d] /\ B2[d] = B[d]
    OBVIOUS
  <1>2. /\ \A y \in D : \E d \in K : y \in A[d] \cup B[d]
        /\ H \subseteq D /\ \A y \in D : y \in H <=> \E d \in K : y \in B[d]
    BY DEF Accounted
  <1> HIDE DEF A2, B2
  <1>3. \A d \in K : A2[d] \cup B2[d] = A[d] \cup B[d]
    BY <1>1
  <1>4. \A y \in D : \E d \in K : y \in A2[d] \cup B2[d]
    BY <1>2, <1>3
  <1>5. H \cup {x} \subseteq D
    BY <1>2
  <1>6. \A y \in D : y \in H \cup {x} <=> \E d \in K : y \in B2[d]
    <2>1. \A y \in D, d \in K : y \in B2[d] <=> y \in B[d] \/ (d = c /\ y = x)
      BY <1>1
    <2> QED
      BY <1>2, <2>1
  <1> QED
    BY <1>4, <1>5, <1>6 DEF Accounted, A2, B2

(* The same for a step that moves x back.                                  *)
LEMMA ReturnedAccounted ==
  ASSUME NEW K, NEW D, NEW A \in [K -> SUBSET D], NEW B \in [K -> SUBSET D],
         NEW H, Accounted(K, D, A, B, H), NEW c \in K, NEW x \in B[c],
         \A d \in K \ {c} : x \notin B[d]
  PROVE  Accounted(K, D, [A EXCEPT ![c] = @ \cup {x}],
                   [B EXCEPT ![c] = @ \ {x}], H \ {x})
  <1> DEFINE A2 == [A EXCEPT ![c] = @ \cup {x}]
             B2 == [B EXCEPT ![c] = @ \ {x}]
  <1>1. /\ A2[c] = A[c] \cup {x} /\ B2[c] = B[c] \ {x}
        /\ \A d \in K \ {c} : A2[d] = A[d] /\ B2[d] = B[d]
    OBVIOUS
  <1>2. /\ \A y \in D : \E d \in K : y \in A[d] \cup B[d]
        /\ H \subseteq D /\ \A y \in D : y \in H <=> \E d \in K : y \in B[d]
    BY DEF Accounted
  <1> HIDE DEF A2, B2
  <1>3. \A d \in K : A2[d] \cup B2[d] = A[d] \cup B[d]
    BY <1>1
  <1>4. \A y \in D : \E d \in K : y \in A2[d] \cup B2[d]
    BY <1>2, <1>3
  <1>5. \A y \in D : y \in H \ {x} <=> \E d \in K : y \in B2[d]
    <2>1. \A y \in D, d \in K : y \in B2[d] <=> y \in B[d] /\ y # x
      BY <1>1
    <2> QED
      BY <1>2, <2>1
  <1> QED
    BY <1>2, <1>4, <1>5 DEF Accounted, A2, B2

(* The sets of a step that chops slab s.                                   *)
LEMMA ChoppedAccounted ==
  ASSUME NEW K, NEW D, NEW A \in [K -> SUBSET D], NEW B \in [K -> SUBSET D],
         NEW H, Accounted(K, D, A, B, H), NEW c \in K, A[c] = {},
         NEW G, \A x \in D : x \notin G
  PROVE  Accounted(K, D \cup G, [A EXCEPT ![c] = G], B, H)
  <1> DEFINE A2 == [A EXCEPT ![c] = G]
  <1>1. A2[c] = G /\ \A d \in K \ {c} : A2[d] = A[d]
    OBVIOUS
  <1>2. /\ \A y \in D : \E d \in K : y \in A[d] \cup B[d]
        /\ H \subseteq D /\ \A y \in D : y \in H <=> \E d \in K : y \in B[d]
    BY DEF Accounted
  <1> HIDE DEF A2
  <1>3. \A y \in D \cup G : \E d \in K : y \in A2[d] \cup B[d]
    BY <1>1, <1>2
  <1>4. \A y \in D \cup G : y \in H <=> \E d \in K : y \in B[d]
    BY <1>2
  <1> QED
    BY <1>2, <1>3, <1>4 DEF Accounted, A2
-----------------------------------------------------------------------------
(* Give, from pointers p and n that link D, A and the allocated lists.     *)
LEMMA GiveGood ==
  ASSUME Good, classes # NULL, NEW c \in Classes, NEW D, NEW cs, NEW p, NEW n,
         NEW A, Linked(Classes, D, cs, p, n, A, UsedLists),
         Accounted(Classes, D, A, UsedLists, held), NULL \notin D,
         NEW h, h # NULL, cs[c].head_chunk = h,
         cs[c].allocated_chunks = classes[c].allocated_chunks,
         \A d \in Classes \ {c} : cs[d] = classes[d],
         Give(c, h, p, n), UNCHANGED <<n_total, n_classes, crashed>>,
         n_slabs' \in Nat, n_slabs' <= n_total,
         pool' = IF n_slabs' = 0 THEN NULL ELSE n_total - n_slabs' + 1,
         D \subseteq Room(n_total), \A x \in D : x[1] <= n_total - n_slabs'
  PROVE  /\ Good' /\ classes' # NULL /\ Classes' = Classes /\ h \in A[c]
         /\ FreeLists' = [A EXCEPT ![c] = @ \ {h}]
         /\ UsedLists' = [UsedLists EXCEPT ![c] = @ \cup {h}]
  <1> DEFINE rear == classes[c].allocated_chunks
             new == [head_chunk |-> n[h], allocated_chunks |-> h]
             A2 == [A EXCEPT ![c] = @ \ {h}]
             B2 == [UsedLists EXCEPT ![c] = @ \cup {h}]
  <1>1. /\ classes' = [classes EXCEPT ![c] = new]
        /\ prev' = Set([p EXCEPT ![h] = rear], n[h], NULL)
        /\ next' = Set([n EXCEPT ![h] = NULL], rear, h)
        /\ held' = held \cup {h}
    BY DEF Give
  <1>2. /\ cs \in [Classes -> Heads(D)] /\ A \in [Classes -> SUBSET D]
        /\ UsedLists \in [Classes -> SUBSET D]
    BY DEF Linked
  <1>3. classes \in [Classes -> Heads(DOMAIN next)]
    BY WhatIsGood DEF Linked
  <1>4. classes' = [cs EXCEPT ![c] = new]
    <2>1. [cs EXCEPT ![c] = new] = [classes EXCEPT ![c] = new]
      <3> HIDE DEF new
      <3> QED
        BY <1>2, <1>3
    <2> QED
      BY <1>1, <2>1
  <1>5. Classes' = Classes
    BY DEF Classes
  <1>6. h \in A[c] /\ Linked(Classes, D, classes', prev', next', A2, B2)
    <2> HIDE DEF rear
    <2>1. /\ NULL \notin D /\ h # NULL /\ h = cs[c].head_chunk
          /\ rear = cs[c].allocated_chunks /\ c \in Classes
          /\ Linked(Classes, D, cs, p, n, A, UsedLists)
      BY DEF rear
    <2>2. Gives(c, h, rear, cs, p, n, A, UsedLists,
                classes', prev', next', A2, B2)
      BY <1>1, <1>4, <2>1 DEF Gives
    <2> HIDE DEF A2, B2
    <2> QED
      BY ONLY <2>1, <2>2, GiveLinked
  <1>7. Accounted(Classes, D, A2, B2, held')
    BY <1>1, <1>2, <1>6, MovedAccounted
  <1> HIDE DEF A2, B2, rear, new
  <1>8. D = DOMAIN next'
    BY <1>6 DEF Linked
  <1>9. Counts'
    <2>1. held' \subseteq D
      BY <1>7 DEF Accounted
    <2> QED
      BY <1>8, <2>1 DEF Counts, Good, Room
  <1>10. classes' # NULL
    <2>1. n_total \in PoolSizes \cup {0} /\ n_classes \in 0 .. MaxClasses
      BY DEF Good, Counts
    <2>2. classes' \in [1 .. n_classes -> Heads(D)]
      BY <1>6 DEF Linked, Classes
    <2> QED
      BY <2>1, <2>2, StillClasses
  <1>11. Good' /\ FreeLists' = A2 /\ UsedLists' = B2
    <2>1. /\ Classes = Classes' /\ D = DOMAIN next' /\ Counts'
          /\ classes' # NULL
      BY <1>5, <1>8, <1>9, <1>10
    <2>2. /\ n_slabs' <= n_total'
          /\ pool' = IF n_slabs' = 0 THEN NULL ELSE n_total' - n_slabs' + 1
          /\ \A x \in D : x[1] <= n_total' - n_slabs'
      OBVIOUS
    <2> QED
      BY ONLY <1>6, <1>7, <2>1, <2>2, StockedAgain
  <1> QED
    BY <1>5, <1>6, <1>10, <1>11 DEF A2, B2

(* popChunk and addToAllocated, from a class that has a chunk.             *)
LEMMA AllocFromListGood ==
  ASSUME Good, classes # NULL, NEW c \in Classes, AllocFromList(c)
  PROVE  /\ Good' /\ classes' # NULL /\ Classes' = Classes
         /\ n_slabs' = n_slabs
         /\ \E x \in FreeLists[c] :
              /\ FreeLists' = [FreeLists EXCEPT ![c] = @ \ {x}]
              /\ UsedLists' = [UsedLists EXCEPT ![c] = @ \cup {x}]
  <1> DEFINE h == classes[c].head_chunk
             D == DOMAIN next
  <1>1. /\ h # NULL /\ Give(c, h, prev, next)
        /\ UNCHANGED <<n_total, n_classes, crashed>>
        /\ n_slabs' = n_slabs /\ pool' = pool
    BY DEF AllocFromList, pool_vars
  <1>2. /\ Linked(Classes, D, classes, prev, next, FreeLists, UsedLists)
        /\ Accounted(Classes, D, FreeLists, UsedLists, held)
        /\ NULL \notin D /\ n_slabs \in Nat /\ n_slabs <= n_total
        /\ pool = IF n_slabs = 0 THEN NULL ELSE n_total - n_slabs + 1
        /\ \A x \in D : x[1] <= n_total - n_slabs
    BY WhatIsGood
  <1>3. D \subseteq Room(n_total)
    BY DEF Good, Counts
  <1>4. /\ n_slabs' \in Nat /\ n_slabs' <= n_total
        /\ pool' = IF n_slabs' = 0 THEN NULL ELSE n_total - n_slabs' + 1
        /\ \A x \in D : x[1] <= n_total - n_slabs'
    BY <1>1, <1>2
  <1>5. Good /\ classes # NULL /\ c \in Classes /\ h = classes[c].head_chunk
    OBVIOUS
  <1> HIDE DEF h, D
  <1>6. /\ Good' /\ classes' # NULL /\ Classes' = Classes /\ h \in FreeLists[c]
        /\ FreeLists' = [FreeLists EXCEPT ![c] = @ \ {h}]
        /\ UsedLists' = [UsedLists EXCEPT ![c] = @ \cup {h}]
    BY ONLY <1>1, <1>2, <1>3, <1>4, <1>5, GiveGood
  <1> QED
    BY <1>1, <1>6

(* popSlab, where the pool has a slab.                                     *)
LEMMA PopSlabIs ==
  ASSUME Good, classes # NULL, popSlab
  PROVE  /\ pool = n_total - n_slabs + 1 /\ pool \in 1 .. n_total
         /\ n_slabs \in Nat \ {0} /\ n_slabs' = n_slabs - 1
         /\ n_slabs' \in Nat /\ n_slabs' <= n_total
         /\ pool' = IF n_slabs' = 0 THEN NULL ELSE n_total - n_slabs' + 1
         /\ n_total' = n_total /\ n_classes' = n_classes
         /\ pool = n_total - n_slabs'
  <1>1. /\ pool # NULL /\ n_slabs # 0 /\ n_slabs' = n_slabs - 1
        /\ pool' = (IF pool = n_total THEN NULL ELSE pool + 1)
        /\ n_total' = n_total /\ n_classes' = n_classes
    BY DEF popSlab, NextSlab
  <1>2. /\ n_total \in Nat /\ n_slabs \in Nat /\ n_slabs <= n_total
        /\ pool = IF n_slabs = 0 THEN NULL ELSE n_total - n_slabs + 1
    BY WhatIsGood
  <1> QED
    BY <1>1, <1>2

(* The slab that is chopped is one of which there are no chunks yet.       *)
LEMMA AllocFromSlabGood ==
  ASSUME Good, classes # NULL, NEW c \in Classes, AllocFromSlab(c)
  PROVE  /\ Good' /\ classes' # NULL /\ Classes' = Classes
         /\ n_slabs > 0 /\ n_slabs' = n_slabs - 1 /\ FreeLists[c] = {}
         /\ \E G : \E x \in G :
              /\ G \subseteq Chunks /\ G \cap DOMAIN next = {}
              /\ FreeLists' = [FreeLists EXCEPT ![c] = G \ {x}]
              /\ UsedLists' = [UsedLists EXCEPT ![c] = @ \cup {x}]
  <1> DEFINE D == DOMAIN next
             G == Chopped(pool, c)
             h == <<pool, 0>>
             p == Over(prev, ChopPrev(pool, c))
             n == Over(next, ChopNext(pool, c))
             cs == [classes EXCEPT ![c] =
                     [head_chunk |-> <<pool, 0>>,
                      allocated_chunks |-> classes[c].allocated_chunks]]
             A == [FreeLists EXCEPT ![c] = G]
  <1>1. /\ classes[c].head_chunk = NULL /\ popSlab
        /\ Give(c, h, p, n) /\ crashed' = crashed
    BY DEF AllocFromSlab
  <1>2. /\ pool \in 1 .. n_total /\ n_slabs \in Nat \ {0}
        /\ n_slabs' = n_slabs - 1 /\ pool = n_total - n_slabs'
        /\ n_slabs' \in Nat /\ n_slabs' <= n_total
        /\ pool' = (IF n_slabs' = 0 THEN NULL ELSE n_total - n_slabs' + 1)
        /\ n_total' = n_total /\ n_classes' = n_classes
        /\ pool = n_total - n_slabs + 1
    BY <1>1, PopSlabIs
  <1>3. /\ Linked(Classes, D, classes, prev, next, FreeLists, UsedLists)
        /\ Accounted(Classes, D, FreeLists, UsedLists, held)
        /\ NULL \notin D /\ n_total \in Nat
        /\ \A x \in D : x[1] \in Nat /\ x[1] <= n_total - n_slabs
        /\ c \in 1 .. MaxClasses
    BY WhatIsGood
  <1>4. D \subseteq Room(n_total) /\ n_total \in PoolSizes \cup {0}
    BY DEF Good, Counts
  <1>5. /\ G \subseteq Room(n_total) /\ NULL \notin G
        /\ NChunks(c) \in Nat \ {0} /\ \A y \in G : y[1] = pool
    BY <1>2, <1>3, ChoppedIsIn DEF Room
  <1>6. /\ \A x \in D : x[1] # pool /\ x[1] <= n_total - n_slabs'
        /\ pool \in Nat
    BY <1>2, <1>3
  <1>7. \A x \in D : x \notin G
    BY <1>5, <1>6
  <1>8. /\ FreeLists[c] = {}
        /\ Linked(Classes, D \cup G, cs, p, n, A, UsedLists)
    <2>1. /\ classes[c].head_chunk = NULL /\ c \in Classes
          /\ NULL \notin D /\ NChunks(c) \in Nat \ {0} /\ pool \in Nat
          /\ \A x \in D : x[1] # pool
          /\ NULL \notin Chopped(pool, c)
          /\ Linked(Classes, D, classes, prev, next, FreeLists, UsedLists)
      BY <1>1, <1>3, <1>5, <1>6
    <2>2. Chops(c, pool, classes, prev, next, FreeLists, cs, p, n, A)
          /\ G = Chopped(pool, c)
      BY DEF Chops
    <2> HIDE DEF cs, p, n, A, D, G
    <2>3. /\ FreeLists[c] = {}
          /\ Linked(Classes, D \cup Chopped(pool, c), cs, p, n, A, UsedLists)
      BY ONLY <2>1, <2>2, ChopLinked
    <2> QED
      BY <2>2, <2>3
  <1>9. /\ classes \in [Classes -> Heads(D)]
        /\ FreeLists \in [Classes -> SUBSET D]
        /\ UsedLists \in [Classes -> SUBSET D]
    BY <1>3 DEF Linked
  <1>10. /\ cs[c].head_chunk = h
         /\ cs[c].allocated_chunks = classes[c].allocated_chunks
         /\ \A d \in Classes \ {c} : cs[d] = classes[d]
         /\ A[c] = G
    BY <1>9
  <1>11. Accounted(Classes, D \cup G, A, UsedLists, held)
    <2> HIDE DEF D, G
    <2> QED
      BY <1>3, <1>7, <1>8, <1>9, ChoppedAccounted
  <1>12. h # NULL
    BY <1>6, PointersAssumption
  <1>13. /\ Good /\ classes # NULL /\ c \in Classes
         /\ UNCHANGED <<n_total, n_classes, crashed>>
         /\ D \cup G \subseteq Room(n_total) /\ NULL \notin D \cup G
         /\ \A x \in D \cup G : x[1] <= n_total - n_slabs'
    BY <1>1, <1>2, <1>3, <1>4, <1>5, <1>6
  <1> DEFINE E == D \cup G
  <1>14. E \subseteq Chunks
    BY <1>4, <1>13, ChunksAreFew
  <1> HIDE DEF E, h, p, n, cs, A
  <1>15. /\ Good' /\ classes' # NULL /\ Classes' = Classes /\ h \in A[c]
         /\ FreeLists' = [A EXCEPT ![c] = @ \ {h}]
         /\ UsedLists' = [UsedLists EXCEPT ![c] = @ \cup {h}]
    <2>1. /\ Linked(Classes, E, cs, p, n, A, UsedLists)
          /\ Accounted(Classes, E, A, UsedLists, held)
          /\ E \subseteq Room(n_total) /\ NULL \notin E
          /\ \A x \in E : x[1] <= n_total - n_slabs'
      BY <1>8, <1>11, <1>13 DEF E
    <2> QED
      BY ONLY <1>1, <1>2, <1>10, <1>12, <1>13, <2>1, GiveGood
  <1>16. [A EXCEPT ![c] = @ \ {h}] = [FreeLists EXCEPT ![c] = G \ {h}]
    <2>1. A = [FreeLists EXCEPT ![c] = G]
      BY DEF A
    <2> HIDE DEF G
    <2> QED
      BY <1>9, <2>1
  <1>17. G \subseteq Chunks /\ G \cap D = {} /\ h \in G
    BY <1>7, <1>10, <1>14, <1>15 DEF E
  <1>18. n_slabs > 0
    BY <1>2
  <1> HIDE DEF D, G
  <1>19. /\ FreeLists' = [FreeLists EXCEPT ![c] = G \ {h}]
         /\ UsedLists' = [UsedLists EXCEPT ![c] = @ \cup {h}]
    BY <1>15, <1>16
  <1> QED
    BY <1>2, <1>8, <1>15, <1>17, <1>18, <1>19 DEF D
(* chopSlab gets no memory: the slab is lost, and nothing else has changed. *)
LEMMA AllocNoMemoryGood ==
  ASSUME Good, classes # NULL, NEW c \in Classes, AllocNoMemory(c)
  PROVE  /\ Good' /\ classes' # NULL /\ Classes' = Classes
         /\ n_slabs > 0 /\ n_slabs' = n_slabs - 1 /\ FreeLists[c] = {}
         /\ FreeLists' = FreeLists /\ UsedLists' = UsedLists
  <1>1. /\ classes[c].head_chunk = NULL /\ popSlab /\ crashed' = TRUE
        /\ classes' = classes /\ prev' = prev /\ next' = next /\ held' = held
    BY DEF AllocNoMemory, chunk_vars
  <1>2. /\ n_slabs \in Nat \ {0} /\ n_slabs' = n_slabs - 1
        /\ n_slabs' \in Nat /\ n_slabs' <= n_total
        /\ pool' = (IF n_slabs' = 0 THEN NULL ELSE n_total - n_slabs' + 1)
        /\ n_total' = n_total /\ n_classes' = n_classes
    BY <1>1, PopSlabIs
  <1>3. /\ Linked(Classes, DOMAIN next, classes, prev, next,
                  FreeLists, UsedLists)
        /\ Accounted(Classes, DOMAIN next, FreeLists, UsedLists, held)
        /\ NULL \notin DOMAIN next /\ n_total \in Nat
        /\ \A x \in DOMAIN next : x[1] \in Nat /\ x[1] <= n_total - n_slabs
    BY WhatIsGood
  <1>4. Classes' = Classes
    BY <1>2 DEF Classes
  <1>5. FreeLists' = FreeLists /\ UsedLists' = UsedLists
    BY <1>1, <1>4 DEF FreeLists, UsedLists, Available, Allocated
  <1>6. Counts'
    BY <1>1, <1>2 DEF Good, Counts, Room
  <1>7. \A x \in DOMAIN next : x[1] <= n_total - n_slabs'
    BY <1>2, <1>3
  <1>8. Stocked'
    BY <1>1, <1>2, <1>3, <1>4, <1>5, <1>7 DEF Stocked
  <1>9. FreeLists[c] = {}
    <2>1. /\ ListOf(next, NULL, FreeLists[c])
          /\ FreeLists[c] \in SUBSET DOMAIN next
      BY <1>1, <1>3 DEF Linked, Keeps
    <2> QED
      BY <1>3, <2>1 DEF ListOf
  <1>10. n_slabs > 0
    BY <1>2
  <1> QED
    BY <1>1, <1>2, <1>4, <1>5, <1>6, <1>8, <1>9, <1>10 DEF Good

(* FreeChunk, of whichever of the class's allocated chunks.                *)
LEMMA FreeChunkGood ==
  ASSUME Good, classes # NULL, NEW c \in Classes, NEW x, FreeChunk(c, x)
  PROVE  /\ Good' /\ classes' # NULL /\ Classes' = Classes
         /\ n_slabs' = n_slabs /\ x \in UsedLists[c]
         /\ FreeLists' = [FreeLists EXCEPT ![c] = @ \cup {x}]
         /\ UsedLists' = [UsedLists EXCEPT ![c] = @ \ {x}]
  <1> DEFINE D == DOMAIN next
             h == classes[c].head_chunk
             rear == classes[c].allocated_chunks
             A2 == [FreeLists EXCEPT ![c] = @ \cup {x}]
             B2 == [UsedLists EXCEPT ![c] = @ \ {x}]
  <1>1. /\ x \in UsedLists[c]
        /\ classes' = [classes EXCEPT ![c] =
             [head_chunk |-> x,
              allocated_chunks |-> IF next[x] = NULL THEN prev[x] ELSE rear]]
        /\ prev' = Set([Set(prev, next[x], prev[x]) EXCEPT ![x] = NULL], h, x)
        /\ next' = [Set(next, prev[x], next[x]) EXCEPT ![x] = h]
        /\ held' = held \ {x}
    BY DEF FreeChunk, PutBack, Unlink, UsedLists
  <1>2. /\ n_total' = n_total /\ n_slabs' = n_slabs /\ pool' = pool
        /\ n_classes' = n_classes /\ crashed' = crashed
    BY DEF FreeChunk, pool_vars
  <1>3. /\ Linked(Classes, D, classes, prev, next, FreeLists, UsedLists)
        /\ Accounted(Classes, D, FreeLists, UsedLists, held)
        /\ NULL \notin D /\ n_slabs \in Nat /\ n_slabs <= n_total
        /\ pool = IF n_slabs = 0 THEN NULL ELSE n_total - n_slabs + 1
        /\ \A y \in D : y[1] <= n_total - n_slabs
    BY WhatIsGood
  <1>4. Classes' = Classes
    BY <1>2 DEF Classes
  <1>5. Linked(Classes, D, classes', prev', next', A2, B2)
    <2>1. Returns(c, x, h, rear, classes, prev, next, FreeLists, UsedLists,
                  classes', prev', next', A2, B2)
      BY <1>1 DEF Returns
    <2>2. c \in Classes /\ NULL \notin D
      BY <1>3
    <2> HIDE DEF A2, B2, D, h, rear
    <2> QED
      BY ONLY <1>1, <1>3, <2>1, <2>2, FreeLinked
  <1>6. Accounted(Classes, D, A2, B2, held')
    <2>1. /\ FreeLists \in [Classes -> SUBSET D]
          /\ UsedLists \in [Classes -> SUBSET D]
          /\ ListsApart(Classes, FreeLists, UsedLists)
      BY <1>3 DEF Linked
    <2>2. \A d \in Classes \ {c} : x \notin UsedLists[d]
      BY <1>1, <2>1 DEF ListsApart
    <2> HIDE DEF D
    <2> QED
      BY <1>1, <1>3, <2>1, <2>2, ReturnedAccounted
  <1> HIDE DEF A2, B2, h, rear
  <1>7. D = DOMAIN next'
    BY <1>5 DEF Linked
  <1>8. Counts'
    <2>1. held' \subseteq D
      BY <1>6 DEF Accounted
    <2> QED
      BY <1>2, <1>7, <2>1 DEF Counts, Good, Room
  <1>9. classes' # NULL
    <2>1. /\ n_total \in PoolSizes \cup {0} /\ n_classes \in 0 .. MaxClasses
          /\ D \subseteq Room(n_total)
      BY DEF Good, Counts
    <2>2. classes' \in [1 .. n_classes -> Heads(D)]
      BY <1>5 DEF Linked, Classes
    <2> HIDE DEF D
    <2> QED
      BY <2>1, <2>2, StillClasses
  <1>10. Good' /\ FreeLists' = A2 /\ UsedLists' = B2
    <2>1. /\ Classes = Classes' /\ D = DOMAIN next' /\ Counts'
          /\ classes' # NULL
      BY <1>4, <1>7, <1>8, <1>9
    <2>2. /\ n_slabs' <= n_total'
          /\ pool' = IF n_slabs' = 0 THEN NULL ELSE n_total' - n_slabs' + 1
          /\ \A y \in D : y[1] <= n_total' - n_slabs'
      BY <1>2, <1>3
    <2> HIDE DEF D
    <2> QED
      BY ONLY <1>5, <1>6, <2>1, <2>2, StockedAgain
  <1> QED
    BY <1>1, <1>2, <1>4, <1>9, <1>10 DEF A2, B2

(* A step that changes no more than crashed.                               *)
LEMMA GoodSame ==
  ASSUME Good, UNCHANGED <<pool_vars, chunk_vars>>, crashed' \in BOOLEAN
  PROVE  /\ Good' /\ Classes' = Classes /\ classes' = classes
         /\ n_slabs' = n_slabs
         /\ FreeLists' = FreeLists /\ UsedLists' = UsedLists
  <1>1. /\ n_total' = n_total /\ n_slabs' = n_slabs /\ pool' = pool
        /\ n_classes' = n_classes /\ classes' = classes /\ prev' = prev
        /\ next' = next /\ held' = held
    BY DEF pool_vars, chunk_vars
  <1>2. Classes' = Classes
    BY <1>1 DEF Classes
  <1>3. FreeLists' = FreeLists /\ UsedLists' = UsedLists
    BY <1>1, <1>2 DEF FreeLists, UsedLists, Available, Allocated
  <1>4. Counts'
    BY <1>1 DEF Good, Counts, Room
  <1>5. ASSUME classes # NULL PROVE Stocked'
    BY <1>1, <1>2, <1>3, <1>5 DEF Good, Stocked
  <1>6. classes = NULL => Empty'
    BY <1>1 DEF Good, Empty
  <1> QED
    BY <1>1, <1>2, <1>3, <1>4, <1>5, <1>6 DEF Good

(* The steps, as far as they concern the lists.                            *)
LEMMA StepIsOneOf ==
  ASSUME Good, [Next]_vars
  PROVE  \/ UNCHANGED <<pool_vars, chunk_vars>> /\ crashed' \in BOOLEAN
         \/ classes # NULL /\ \E c \in Classes :
              \/ AllocFromList(c) \/ AllocFromSlab(c) \/ AllocNoMemory(c)
              \/ \E x : FreeChunk(c, x)
  <1>1. crashed \in BOOLEAN
    BY DEF Good, Counts
  <1>2. UNCHANGED vars => UNCHANGED <<pool_vars, chunk_vars>>
                          /\ crashed' \in BOOLEAN
    BY <1>1 DEF vars
  <1>3. Crash => UNCHANGED <<pool_vars, chunk_vars>> /\ crashed' \in BOOLEAN
    BY DEF Crash
  <1> QED
    BY <1>2, <1>3 DEF Next, alloc_mem, free_mem, AllocRefused, FreeRefused

(* Every step, of whichever call, keeps it so.                             *)
LEMMA GoodStep ==
  ASSUME Good, [Next]_vars
  PROVE  Good'
  <1>1. CASE UNCHANGED <<pool_vars, chunk_vars>> /\ crashed' \in BOOLEAN
    BY <1>1, GoodSame
  <1>2. ASSUME classes # NULL, NEW c \in Classes, AllocFromList(c) PROVE Good'
    BY <1>2, AllocFromListGood
  <1>3. ASSUME classes # NULL, NEW c \in Classes, AllocFromSlab(c) PROVE Good'
    BY <1>3, AllocFromSlabGood
  <1>4. ASSUME classes # NULL, NEW c \in Classes, AllocNoMemory(c) PROVE Good'
    BY <1>4, AllocNoMemoryGood
  <1>5. ASSUME classes # NULL, NEW c \in Classes, NEW x, FreeChunk(c, x)
        PROVE  Good'
    BY <1>5, FreeChunkGood
  <1> QED
    BY <1>1, <1>2, <1>3, <1>4, <1>5, StepIsOneOf

(* Good holds after any sequence of calls of alloc_mem and free_mem.       *)
THEOREM Invariance == Spec => []Good
  <1>1. Init => Good
    BY GoodInit
  <1>2. Good /\ [Next]_vars => Good'
    BY GoodStep
  <1> QED
    BY <1>1, <1>2, PTL DEF Spec

(* A pointer is NULL or points at a chunk, and the pool's count is that of *)
(* the slabs its pointer leads to.                                         *)
LEMMA GoodTypes == Good => TypeOK
  <1> SUFFICES ASSUME Good PROVE TypeOK
    OBVIOUS
  <1>1. Counts
    BY DEF Good
  <1>2. DOMAIN next \subseteq Chunks
    BY <1>1, ChunksAreFew DEF Counts
  <1>3. CASE classes = NULL
    <2>1. prev = <<>> /\ next = <<>>
      BY <1>3 DEF Good, Empty
    <2>2. DOMAIN prev = {} /\ DOMAIN next = {}
      BY <2>1
    <2>3. prev = [x \in {} |-> NULL] /\ next = [x \in {} |-> NULL]
      BY <2>1
    <2>4. prev \in [{} -> Pointers] /\ next \in [{} -> Pointers]
      BY <2>3
    <2> QED
      BY <1>1, <1>2, <1>3, <2>2, <2>4 DEF TypeOK, Counts
  <1>4. CASE classes # NULL
    <2>1. /\ Linked(Classes, DOMAIN next, classes, prev, next,
                    FreeLists, UsedLists)
          /\ pool = IF n_slabs = 0 THEN NULL ELSE n_total - n_slabs + 1
      BY <1>4, WhatIsGood
    <2>2. /\ prev \in [DOMAIN next -> Pointers]
          /\ next \in [DOMAIN next -> Pointers]
          /\ classes \in [Classes -> [head_chunk : Pointers,
                                      allocated_chunks : Pointers]]
      BY <2>1 DEF Linked, Heads, Pointers
    <2>3. DOMAIN prev = DOMAIN next
      BY <2>2
    <2> QED
      BY <1>1, <1>2, <2>1, <2>2, <2>3 DEF TypeOK, Counts
  <1> QED
    BY <1>3, <1>4

(* TypeOK: every pointer is NULL or points at a chunk of a chopped slab,   *)
(* and popSlab's two tests agree, for every pool and any classes.          *)
THEOREM TypeCorrect == Spec => []TypeOK
  BY Invariance, GoodTypes, PTL

(* ListsLinked: any order of calls of alloc_mem and free_mem leaves lists  *)
(* that can be walked both ways, and end.                                  *)
THEOREM ListsStayLinked == Spec => []ListsLinked
  <1>1. ASSUME Good PROVE ListsLinked
    <2>1. CASE classes = NULL
      <3>1. prev = <<>> /\ next = <<>>
        BY <2>1, <1>1 DEF Good, Empty
      <3>2. DOMAIN next = {}
        BY <3>1
      <3> QED
        BY <2>1, <3>2 DEF ListsLinked
    <2>2. CASE classes # NULL
      <3>1. /\ Linked(Classes, DOMAIN next, classes, prev, next,
                      FreeLists, UsedLists)
            /\ IsFiniteSet(DOMAIN next) /\ NULL \notin DOMAIN next
        BY <1>1, <2>2, WhatIsGood
      <3>2. \A c \in Classes : /\ Ends(next, classes[c].head_chunk)
                               /\ Ends(prev, classes[c].allocated_chunks)
        <4> DEFINE D == DOMAIN next
        <4>1. /\ Linked(Classes, D, classes, prev, next, FreeLists, UsedLists)
              /\ IsFiniteSet(D) /\ NULL \notin D
          BY <3>1
        <4> HIDE DEF D
        <4> QED
          BY ONLY <4>1, LinkedAreMet
      <3>3. /\ Answers(DOMAIN next, prev, next)
            /\ \A c \in Classes :
                 /\ classes[c].head_chunk # NULL =>
                      prev[classes[c].head_chunk] = NULL
                 /\ classes[c].allocated_chunks # NULL =>
                      next[classes[c].allocated_chunks] = NULL
        BY <3>1 DEF Linked, Keeps
      <3> QED
        BY <3>2, <3>3 DEF ListsLinked, Answers
    <2> QED
      BY <2>1, <2>2
  <1> QED
    BY <1>1, Invariance, PTL
(* NoChunkLost: every chunk of every chopped slab is in one list of one    *)
(* class, and free_mem finds whatever the program holds.                   *)
THEOREM NoChunkIsLost == Spec => []NoChunkLost
  <1>1. ASSUME Good PROVE NoChunkLost
    <2>1. CASE classes = NULL
      BY <2>1 DEF NoChunkLost
    <2>2. CASE classes # NULL
      <3>1. /\ Linked(Classes, DOMAIN next, classes, prev, next,
                      FreeLists, UsedLists)
            /\ Accounted(Classes, DOMAIN next, FreeLists, UsedLists, held)
        BY <1>1, <2>2, WhatIsGood
      <3>2. /\ FreeLists \in [Classes -> SUBSET DOMAIN next]
            /\ UsedLists \in [Classes -> SUBSET DOMAIN next]
            /\ ListsApart(Classes, FreeLists, UsedLists)
        BY <3>1 DEF Linked
      <3>3. /\ \A x \in DOMAIN next : \E c \in Classes :
                 x \in FreeLists[c] \cup UsedLists[c]
            /\ held \subseteq DOMAIN next
            /\ \A x \in DOMAIN next :
                 x \in held <=> \E c \in Classes : x \in UsedLists[c]
        BY <3>1 DEF Accounted
      <3> DEFINE slabs == [c \in Classes |->
                             {x[1] : x \in FreeLists[c] \cup UsedLists[c]}]
      <3>4. UNION Range(UsedLists) = held
        <4>1. \A S : S \in Range(UsedLists)
                       <=> \E c \in Classes : S = UsedLists[c]
          BY <3>2 DEF Range
        <4>2. \A x : x \in UNION Range(UsedLists)
                       <=> \E c \in Classes : x \in UsedLists[c]
          BY <4>1
        <4>3. \A x : x \in held <=> \E c \in Classes : x \in UsedLists[c]
          BY <3>2, <3>3
        <4> QED
          BY <4>2, <4>3
      <3>5. (UNION Range(FreeLists)) \cup held = DOMAIN next
        <4>1. \A S : S \in Range(FreeLists)
                       <=> \E c \in Classes : S = FreeLists[c]
          BY <3>2 DEF Range
        <4>2. \A x : x \in UNION Range(FreeLists)
                       <=> \E c \in Classes : x \in FreeLists[c]
          BY <4>1
        <4> QED
          BY <3>2, <3>3, <4>2
      <3>6. \A c \in Classes : FreeLists[c] \cap UsedLists[c] = {}
        BY <3>2 DEF ListsApart
      <3>7. \A c, d \in Classes : c # d => slabs[c] \cap slabs[d] = {}
        BY <3>2 DEF ListsApart
      <3>8. /\ FreeLists = [c \in Classes |-> Available(c)]
            /\ UsedLists = [c \in Classes |-> Allocated(c)]
        BY DEF FreeLists, UsedLists
      <3> HIDE DEF slabs
      <3>9. NoChunkLost <=>
              /\ UNION Range(UsedLists) = held
              /\ (UNION Range(FreeLists)) \cup held = DOMAIN next
              /\ \A c \in Classes : FreeLists[c] \cap UsedLists[c] = {}
              /\ \A c, d \in Classes : c # d => slabs[c] \cap slabs[d] = {}
        BY <2>2, <3>8 DEF NoChunkLost, slabs
      <3> QED
        BY <3>4, <3>5, <3>6, <3>7, <3>9
    <2> QED
      BY <2>1, <2>2
  <1> QED
    BY <1>1, Invariance, PTL

-----------------------------------------------------------------------------
(* ImplementsPool.  The sets of the refinement mapping, for every class    *)
(* there may be.                                                           *)
FreeSets == [c \in 1 .. MaxClasses |->
               IF classes # NULL /\ c \in Classes THEN Available(c) ELSE {}]
UsedSets == [c \in 1 .. MaxClasses |->
               IF classes # NULL /\ c \in Classes THEN Allocated(c) ELSE {}]

(* The sets are those of the lists; a class there is not has none.         *)
LEMMA SetsAre ==
  /\ classes # NULL => \A c \in 1 .. MaxClasses :
       /\ FreeSets[c] = IF c \in Classes THEN FreeLists[c] ELSE {}
       /\ UsedSets[c] = IF c \in Classes THEN UsedLists[c] ELSE {}
  /\ classes = NULL => /\ FreeSets = [c \in 1 .. MaxClasses |-> {}]
                       /\ UsedSets = [c \in 1 .. MaxClasses |-> {}]
  /\ DOMAIN FreeSets = 1 .. MaxClasses /\ DOMAIN UsedSets = 1 .. MaxClasses
  /\ FreeSets = [c \in 1 .. MaxClasses |-> FreeSets[c]]
  /\ UsedSets = [c \in 1 .. MaxClasses |-> UsedSets[c]]
  BY DEF FreeSets, UsedSets, FreeLists, UsedLists

(* A step that changes the lists of class c changes its sets alike.        *)
LEMMA SetsChange ==
  ASSUME Classes \subseteq 1 .. MaxClasses, NEW c \in Classes, classes # NULL,
         classes' # NULL, Classes' = Classes, NEW F, NEW U,
         FreeLists' = [FreeLists EXCEPT ![c] = F],
         UsedLists' = [UsedLists EXCEPT ![c] = U]
  PROVE  /\ FreeSets' = [FreeSets EXCEPT ![c] = F]
         /\ UsedSets' = [UsedSets EXCEPT ![c] = U]
         /\ FreeSets'[c] = F /\ UsedSets'[c] = U
         /\ FreeSets[c] = FreeLists[c] /\ UsedSets[c] = UsedLists[c]
  <1>1. /\ \A d \in 1 .. MaxClasses :
             /\ FreeSets[d] = IF d \in Classes THEN FreeLists[d] ELSE {}
             /\ UsedSets[d] = IF d \in Classes THEN UsedLists[d] ELSE {}
        /\ DOMAIN FreeSets = 1 .. MaxClasses
        /\ DOMAIN UsedSets = 1 .. MaxClasses
        /\ FreeSets = [d \in 1 .. MaxClasses |-> FreeSets[d]]
        /\ UsedSets = [d \in 1 .. MaxClasses |-> UsedSets[d]]
    BY SetsAre
  <1>2. /\ \A d \in 1 .. MaxClasses :
             /\ FreeSets'[d] = IF d \in Classes THEN FreeLists'[d] ELSE {}
             /\ UsedSets'[d] = IF d \in Classes THEN UsedLists'[d] ELSE {}
        /\ FreeSets' = [d \in 1 .. MaxClasses |-> FreeSets'[d]]
        /\ UsedSets' = [d \in 1 .. MaxClasses |-> UsedSets'[d]]
    BY DEF FreeSets, UsedSets, FreeLists, UsedLists
  <1>3. DOMAIN FreeLists = Classes /\ DOMAIN UsedLists = Classes
    BY DEF FreeLists, UsedLists
  <1>4. \A d \in 1 .. MaxClasses :
          /\ FreeSets'[d] = IF d = c THEN F ELSE FreeSets[d]
          /\ UsedSets'[d] = IF d = c THEN U ELSE UsedSets[d]
    BY <1>1, <1>2, <1>3
  <1>5. FreeSets' = [FreeSets EXCEPT ![c] = F]
    BY <1>1, <1>2, <1>4
  <1>6. UsedSets' = [UsedSets EXCEPT ![c] = U]
    BY <1>1, <1>2, <1>4
  <1> QED
    BY <1>1, <1>4, <1>5, <1>6

(* They are disjoint sets of chunks.                                       *)
LEMMA SetsTyped ==
  ASSUME Good
  PROVE  /\ FreeSets \in [1 .. MaxClasses -> SUBSET DOMAIN next]
         /\ UsedSets \in [1 .. MaxClasses -> SUBSET DOMAIN next]
         /\ \A c, d \in 1 .. MaxClasses :
              c # d => FreeSets[c] \cap FreeSets[d] = {}
         /\ DOMAIN next \subseteq Chunks
  <1>1. DOMAIN next \subseteq Chunks
    BY ChunksAreFew DEF Good, Counts
  <1>2. CASE classes = NULL
    BY <1>1, <1>2, SetsAre
  <1>3. CASE classes # NULL
    <2>1. /\ FreeLists \in [Classes -> SUBSET DOMAIN next]
          /\ UsedLists \in [Classes -> SUBSET DOMAIN next]
          /\ ListsApart(Classes, FreeLists, UsedLists)
      BY <1>3, WhatIsGood DEF Linked
    <2>2. \A c \in 1 .. MaxClasses :
            /\ FreeSets[c] = IF c \in Classes THEN FreeLists[c] ELSE {}
            /\ UsedSets[c] = IF c \in Classes THEN UsedLists[c] ELSE {}
      BY <1>3, SetsAre
    <2>3. \A c \in 1 .. MaxClasses : /\ FreeSets[c] \in SUBSET DOMAIN next
                                     /\ UsedSets[c] \in SUBSET DOMAIN next
      BY <2>1, <2>2
    <2>4. \A c, d \in Classes : c # d => FreeLists[c] \cap FreeLists[d] = {}
      BY <2>1 DEF ListsApart
    <2> QED
      BY <1>1, <2>2, <2>3, <2>4, SetsAre
  <1> QED
    BY <1>2, <1>3

(* The pool of a new allocator has free chunks, and none in use.           *)
LEMMA InitIsPool == Init => Sets!Init
  <1> SUFFICES ASSUME Init PROVE Sets!Init
    OBVIOUS
  <1>1. Good /\ (classes # NULL => UsedLists = [c \in Classes |-> {}])
    BY GoodInit
  <1>2. /\ FreeSets \in [1 .. MaxClasses -> SUBSET Chunks]
        /\ \A c, d \in 1 .. MaxClasses :
             c # d => FreeSets[c] \cap FreeSets[d] = {}
    BY <1>1, SetsTyped
  <1>3. UsedSets = [c \in 1 .. MaxClasses |-> {}]
    BY <1>1, SetsAre
  <1>4. n_slabs \in Nat
    BY <1>1 DEF Good, Counts
  <1> QED
    BY <1>2, <1>3, <1>4 DEF Sets!Init, FreeSets, UsedSets

(* A chunk from a class's list is one of its free chunks.                  *)
LEMMA AllocIsPool ==
  ASSUME Good, classes # NULL, NEW c \in Classes, AllocFromList(c)
  PROVE  Sets!Alloc(c)
  <1>1. /\ classes' # NULL /\ Classes' = Classes /\ n_slabs' = n_slabs
        /\ Classes \subseteq 1 .. MaxClasses
    BY AllocFromListGood, WhatIsGood
  <1>2. PICK x \in FreeLists[c] :
          /\ FreeLists' = [FreeLists EXCEPT ![c] = @ \ {x}]
          /\ UsedLists' = [UsedLists EXCEPT ![c] = @ \cup {x}]
    BY AllocFromListGood
  <1> DEFINE F == FreeLists[c] \ {x}
             U == UsedLists[c] \cup {x}
  <1>5. /\ FreeLists' = [FreeLists EXCEPT ![c] = F]
        /\ UsedLists' = [UsedLists EXCEPT ![c] = U]
    BY <1>2
  <1> HIDE DEF F, U
  <1>3. /\ FreeSets' = [FreeSets EXCEPT ![c] = F]
        /\ UsedSets' = [UsedSets EXCEPT ![c] = U]
        /\ FreeSets'[c] = F
        /\ FreeSets[c] = FreeLists[c] /\ UsedSets[c] = UsedLists[c]
    <2>1. c \in Classes /\ classes # NULL
      OBVIOUS
    <2> QED
      BY ONLY <1>1, <1>5, <2>1, SetsChange
  <1>4. /\ x \in FreeSets[c] \ FreeSets'[c]
        /\ FreeSets' = [FreeSets EXCEPT ![c] = @ \ {x}]
        /\ UsedSets' = [UsedSets EXCEPT ![c] = @ \cup {x}]
    BY <1>2, <1>3 DEF F, U
  <1> QED
    BY <1>1, <1>4 DEF Sets!Alloc, FreeSets, UsedSets

(* The chunks of a slab are new ones.                                      *)
LEMMA AllocFromSlabIsPool ==
  ASSUME Good, classes # NULL, NEW c \in Classes, AllocFromSlab(c)
  PROVE  Sets!AllocFromSlab(c)
  <1>1. /\ classes' # NULL /\ Classes' = Classes /\ n_slabs > 0
        /\ n_slabs' = n_slabs - 1 /\ FreeLists[c] = {}
        /\ Classes \subseteq 1 .. MaxClasses
    BY AllocFromSlabGood, WhatIsGood
  <1>2. PICK G : \E x \in G :
          /\ G \subseteq Chunks /\ G \cap DOMAIN next = {}
          /\ FreeLists' = [FreeLists EXCEPT ![c] = G \ {x}]
          /\ UsedLists' = [UsedLists EXCEPT ![c] = @ \cup {x}]
    BY AllocFromSlabGood
  <1>3. PICK x \in G :
          /\ G \subseteq Chunks /\ G \cap DOMAIN next = {}
          /\ FreeLists' = [FreeLists EXCEPT ![c] = G \ {x}]
          /\ UsedLists' = [UsedLists EXCEPT ![c] = @ \cup {x}]
    BY <1>2
  <1> DEFINE F == G \ {x}
             U == UsedLists[c] \cup {x}
  <1>4. /\ FreeLists' = [FreeLists EXCEPT ![c] = F]
        /\ UsedLists' = [UsedLists EXCEPT ![c] = U]
    BY <1>3
  <1> HIDE DEF F, U
  <1>5. /\ FreeSets' = [FreeSets EXCEPT ![c] = F]
        /\ UsedSets' = [UsedSets EXCEPT ![c] = U]
        /\ FreeSets'[c] = F
        /\ FreeSets[c] = FreeLists[c] /\ UsedSets[c] = UsedLists[c]
    <2>1. c \in Classes /\ classes # NULL
      OBVIOUS
    <2> QED
      BY ONLY <1>1, <1>4, <2>1, SetsChange
  <1>6. Sets!Known \subseteq DOMAIN next
    <2>1. \A d \in 1 .. MaxClasses :
            FreeSets[d] \cup UsedSets[d] \subseteq DOMAIN next
      BY SetsTyped
    <2>2. Sets!Known =
            UNION {FreeSets[d] \cup UsedSets[d] : d \in 1 .. MaxClasses}
      BY DEF Sets!Known, FreeSets, UsedSets
    <2> QED
      BY <2>1, <2>2
  <1>7. x \in Chunks \ Sets!Known /\ F \subseteq Chunks \ (Sets!Known \cup {x})
    BY <1>3, <1>6 DEF F
  <1>8. /\ UsedSets' = [UsedSets EXCEPT ![c] = @ \cup {x}]
        /\ FreeSets' = [FreeSets EXCEPT ![c] = FreeSets'[c]]
        /\ FreeSets'[c] \subseteq Chunks \ (Sets!Known \cup {x})
        /\ FreeSets[c] = {}
    BY <1>1, <1>5, <1>7 DEF U
  <1> QED
    BY <1>1, <1>7, <1>8 DEF Sets!AllocFromSlab, FreeSets, UsedSets

(* A slab without memory to chop it is lost to the abstract pool as well.  *)
LEMMA AllocNoMemoryIsPool ==
  ASSUME Good, classes # NULL, NEW c \in Classes, AllocNoMemory(c)
  PROVE  Sets!LoseSlab(c)
  <1>1. /\ classes' # NULL /\ Classes' = Classes /\ n_slabs > 0
        /\ n_slabs' = n_slabs - 1 /\ FreeLists[c] = {}
        /\ FreeLists' = FreeLists /\ UsedLists' = UsedLists
        /\ Classes \subseteq 1 .. MaxClasses
    BY AllocNoMemoryGood, WhatIsGood
  <1>2. FreeSets' = FreeSets /\ UsedSets' = UsedSets
    BY <1>1 DEF FreeSets, UsedSets, FreeLists, UsedLists
  <1>3. FreeSets[c] = {}
    BY <1>1, SetsAre
  <1> QED
    BY <1>1, <1>2, <1>3 DEF Sets!LoseSlab, FreeSets, UsedSets

(* A chunk given back is one of those in use.                              *)
LEMMA FreeIsPool ==
  ASSUME Good, classes # NULL, NEW c \in Classes, NEW x, FreeChunk(c, x)
  PROVE  Sets!Free(c)
  <1>1. /\ classes' # NULL /\ Classes' = Classes /\ n_slabs' = n_slabs
        /\ Classes \subseteq 1 .. MaxClasses /\ x \in UsedLists[c]
        /\ FreeLists' = [FreeLists EXCEPT ![c] = @ \cup {x}]
        /\ UsedLists' = [UsedLists EXCEPT ![c] = @ \ {x}]
    BY FreeChunkGood, WhatIsGood
  <1> DEFINE F == FreeLists[c] \cup {x}
             U == UsedLists[c] \ {x}
  <1>2. /\ FreeLists' = [FreeLists EXCEPT ![c] = F]
        /\ UsedLists' = [UsedLists EXCEPT ![c] = U]
    BY <1>1
  <1> HIDE DEF F, U
  <1>3. /\ FreeSets' = [FreeSets EXCEPT ![c] = F]
        /\ UsedSets' = [UsedSets EXCEPT ![c] = U]
        /\ UsedSets'[c] = U
        /\ FreeSets[c] = FreeLists[c] /\ UsedSets[c] = UsedLists[c]
    <2>1. /\ c \in Classes /\ classes # NULL /\ classes' # NULL
          /\ Classes' = Classes /\ Classes \subseteq 1 .. MaxClasses
      BY <1>1
    <2> QED
      BY ONLY <1>2, <2>1, SetsChange
  <1>4. /\ x \in UsedSets[c] \ UsedSets'[c]
        /\ UsedSets' = [UsedSets EXCEPT ![c] = @ \ {x}]
        /\ FreeSets' = [FreeSets EXCEPT ![c] = @ \cup {x}]
    BY <1>1, <1>3 DEF F, U
  <1> QED
    BY <1>1, <1>4 DEF Sets!Free, FreeSets, UsedSets

(* ImplementsPool: what popChunk, addToAllocated and free_mem do to the    *)
(* linked lists is what ChunkPool does to sets of chunks.                  *)
THEOREM ListsAreSets == Spec => ImplementsPool
  <1>1. Good /\ [Next]_vars => [Sets!Next]_(Sets!vars)
    <2> SUFFICES ASSUME Good, [Next]_vars
                 PROVE  Sets!Next \/ UNCHANGED Sets!vars
      OBVIOUS
    <2>1. CASE UNCHANGED <<pool_vars, chunk_vars>> /\ crashed' \in BOOLEAN
      <3>1. /\ Classes' = Classes /\ classes' = classes /\ n_slabs' = n_slabs
            /\ FreeLists' = FreeLists /\ UsedLists' = UsedLists
        BY <2>1, GoodSame
      <3>2. FreeSets' = FreeSets /\ UsedSets' = UsedSets
        BY <2>1, <3>1 DEF FreeSets, UsedSets, FreeLists, UsedLists
      <3> QED
        BY <3>1, <3>2 DEF Sets!vars, FreeSets, UsedSets
    <2>2. ASSUME classes # NULL, NEW c \in Classes,
                 \/ AllocFromList(c) \/ AllocFromSlab(c) \/ AllocNoMemory(c)
                 \/ \E x : FreeChunk(c, x)
          PROVE  Sets!Next
      <3>1. c \in 1 .. MaxClasses
        BY <2>2, WhatIsGood
      <3>2. \/ Sets!Alloc(c) \/ Sets!AllocFromSlab(c)
            \/ Sets!LoseSlab(c) \/ Sets!Free(c)
        BY <2>2, AllocIsPool, AllocFromSlabIsPool, AllocNoMemoryIsPool,
           FreeIsPool
      <3> QED
        BY <3>1, <3>2 DEF Sets!Next
    <2> QED
      BY <2>1, <2>2, StepIsOneOf
  <1> QED
    BY <1>1, InitIsPool, Invariance, PTL DEF Spec, ImplementsPool, Sets!Spec
=============================================================================
