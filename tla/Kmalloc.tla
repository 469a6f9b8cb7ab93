-------------------------------- MODULE Kmalloc --------------------------------
(****************************************************************************)
(* Where kmalloc takes memory of a given size from, kernel/mm/myslab.c and  *)
(* alloc_pages of mybuddy.c: the search for a cache, the capacity of its    *)
(* pages and the order of a block.  The state is the size asked for, which  *)
(* runs through all sizes up to MaxSize.                                    *)
(****************************************************************************)
EXTENDS Integers

CONSTANT MaxSize    \* largest size asked for

VARIABLE size       \* size asked for

PAGE_SHIFT == 12
PAGE_SIZE == 2^PAGE_SHIFT
SIZE_INT == 4
HEAD == 12            \* sizeof(struct slab_head)
POINTER == 4

size_kmem_cache == <<96, 192, 8, 16, 32, 64, 128, 256, 512, 1024, 1536, 2048>>

UPPER_ALLIGN(x, y) == ((x + y - 1) \div y) * y

CacheIndex == 1 .. PAGE_SHIFT            \* the code counts from 0
NoCache == PAGE_SHIFT + 1
objsize(i) == UPPER_ALLIGN(size_kmem_cache[i], SIZE_INT)
slot(i) == objsize(i) + POINTER          \* kmem_cache.size

\* Mutants of the loop's test: strictly larger caches only; the last that fits.
Fits_Strictly(i, n, bf) == objsize(i) > n /\ objsize(i) < bf.num
Fits_Any(i, n, bf) == objsize(i) >= n
Fits(i, n, bf) == objsize(i) >= n /\ objsize(i) < bf.num

\* The loop of get_slab: it starts from half a page, not from infinity.
get_slab(n) ==
    LET best[i \in 0 .. PAGE_SHIFT] ==
            IF i = 0 THEN [num |-> 2^(PAGE_SHIFT - 1), index |-> NoCache]
            ELSE IF Fits(i, n, best[i - 1]) THEN [num |-> objsize(i), index |-> i]
                 ELSE best[i - 1]
    IN  best[PAGE_SHIFT].index

\* Mutant: the page is called full when no object fits any more, after the fact.
IsFull_Late(end, i) == end > PAGE_SIZE
\* slab_alloc calls a page full when the next object would reach its end.
IsFull(end, i) == end + slot(i) >= PAGE_SIZE

\* end_ptr after n objects, and the number of objects a page gives.
EndPtr(n, i) == HEAD + n * slot(i)
Capacity(i) ==
    CHOOSE n \in 1 .. PAGE_SIZE :
        IsFull(EndPtr(n, i), i) /\ \A m \in 1 .. n - 1 : ~IsFull(EndPtr(m, i), i)

\* phy_kmalloc: sizes above the largest cache go to the buddy system.
ToBuddy(n) == n > objsize(PAGE_SHIFT)

\* Mutant: the pages are counted rounding down.
nrPage_Down(n) == n \div PAGE_SIZE
nrPage(n) == UPPER_ALLIGN(n, PAGE_SIZE) \div PAGE_SIZE

\* alloc_pages: the first order with enough pages.
order(n) ==
    CHOOSE o \in 0 .. 20 : 2^o >= nrPage(n) /\ \A q \in 0 .. o - 1 : 2^q < nrPage(n)

\* A size is an unsigned int, and rounding it up to pages does not overflow.
ASSUME KmallocAssumption == MaxSize \in Nat \ {0} /\ nrPage(MaxSize) < 2^20

\* What the proofs use of powers of two: the provers do not know the operator.
ASSUME ShiftAssumption == 2^PAGE_SHIFT = 4096 /\ 2^(PAGE_SHIFT - 1) = 2048
ASSUME OrderAssumption == \A o \in 0 .. 20 : 2^o \in Nat

SizeInit == size = 1
SizeNext == size < MaxSize /\ size' = size + 1
SizeSpec == SizeInit /\ [][SizeNext]_size

--------------------------------------------------------------------------------
\* A cache that get_slab finds fits, and no smaller one would, although the
\* sizes are not sorted (96 and 192 come first).
BestFit ==
    LET i == get_slab(size)
    IN  i # NoCache =>
          /\ objsize(i) >= size
          /\ \A j \in CacheIndex : objsize(j) >= size => objsize(i) <= objsize(j)

\* The objects of a page lie between its head and its end: the test for a full
\* page comes after an object has been handed out, and must come in time.
ObjectsInPage ==
    LET i == get_slab(size)
    IN  ~ToBuddy(size) /\ i # NoCache => EndPtr(Capacity(i), i) <= PAGE_SIZE

\* A block holds what was asked for, and half of it would not.
BlockFits ==
    ToBuddy(size) => /\ 2^order(size) * PAGE_SIZE >= size
                     /\ order(size) > 0 => 2^(order(size) - 1) * PAGE_SIZE < size

\* What kmalloc gives lies in the memory it takes (myslab.c:103, mybuddy.c:194).
GivesEnough == ObjectsInPage /\ BlockFits

--------------------------------------------------------------------------------
\* myslab.c:243: what is not larger than the largest slab size is the slab
\* system's to serve.
SlabServesSmall == ~ToBuddy(size) => get_slab(size) # NoCache
================================================================================
