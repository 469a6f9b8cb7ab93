--------------------------------- MODULE Buddy ---------------------------------
(****************************************************************************)
(* The buddy allocator, kernel/mm/mybuddy.c, and the lock it is called      *)
(* under, kernel/lock/lock.c.  Pages are numbered from buddy_start_pfn.     *)
(*                                                                          *)
(* Callers run with interrupts enabled, and lockup does not wait, so a      *)
(* caller can be interrupted between any two steps and another may call.    *)
(* A step is one list operation with the fields set beside it.              *)
(****************************************************************************)
EXTENDS Integers, FiniteSets, SequencesExt

CONSTANTS
    MAX_BUDDY_ORDER,
    NPages,     \* buddy_end_pfn - buddy_start_pfn
    Caller

ASSUME BuddyAssumption ==
    /\ MAX_BUDDY_ORDER \in Nat
    /\ NPages \in Nat \ {0} /\ NPages % 2^MAX_BUDDY_ORDER = 0

\* The laws of powers of two, for proofs: the provers do not know the operator.
ASSUME PowerLaws ==
    /\ 2^0 = 1 /\ 2^1 = 2
    /\ \A i, j \in 0 .. MAX_BUDDY_ORDER :
          2^i \in Nat \ {0} /\ 2^(i + j) = 2^i * 2^j

VARIABLES
    flag, bplevel,        \* of each struct page
    freelist, nr_free,    \* of each order
    spin,                 \* of buddy.lock
    loc,                  \* where each caller is, and its locals
    owned,                \* blocks each caller has and has not given back
    boot,                 \* the next page init_buddy will free
    fault                 \* a list head was taken for a page

vars == <<flag, bplevel, freelist, nr_free, spin, loc, owned, boot, fault>>

Page  == 0 .. NPages - 1
Order == 0 .. MAX_BUDDY_ORDER
Flags == {"FREE", "ALLOCED", "RESERVED"}
PagesOf(b) == b[1] .. b[1] + 2^b[2] - 1

Idle == [at |-> "idle", page |-> 0, order |-> 0, level |-> 0]

\* page_idx ^ (1 << bplevel)
Pair(p, o) == IF (p \div 2^o) % 2 = 0 THEN p + 2^o ELSE p - 2^o

Init ==
    /\ flag = [p \in Page |-> "RESERVED"]
    /\ bplevel = [p \in Page |-> 0]
    /\ freelist = [o \in Order |-> <<>>]
    /\ nr_free = [o \in Order |-> 0]
    /\ spin = 0
    /\ loc = [c \in Caller |-> Idle]
    /\ owned = [c \in Caller |-> {}]
    /\ boot = 0
    /\ fault = FALSE

--------------------------------------------------------------------------------
(* lock.c *)

\* Sets spin whatever it is: nobody ever waits.
lockup == spin' = 1
unlock == spin' = 0

(* list.h *)

\* list_del_init of p's node, wherever it is linked; none is linked twice.
Without(s, p) ==
    IF p \in Range(s) THEN RemoveAt(s, CHOOSE i \in DOMAIN s : s[i] = p) ELSE s
list_del_init(p) == freelist' = [o \in Order |-> Without(freelist[o], p)]
list_add(p, o) == freelist' = [freelist EXCEPT ![o] = <<p>> \o @]

--------------------------------------------------------------------------------
(* __free_pages *)

Enter(c, p, o) ==
    /\ lockup
    /\ loc' = [loc EXCEPT ![c] = [at |-> "merge", page |-> p, order |-> o, level |-> 0]]

\* init_buddy gives every page to the allocator, one by one.
BootFree(c) ==
    /\ boot < NPages
    /\ \A d \in Caller : loc[d].at = "idle"
    /\ Enter(c, boot, 0)
    /\ boot' = boot + 1
    /\ UNCHANGED <<flag, bplevel, freelist, nr_free, owned, fault>>

Running(c) == boot = NPages /\ ~fault /\ loc[c].at = "idle"

\* A caller gives back a block.  free_pages has it from kfree, with the bplevel
\* of its first page for an order.
Free(c, b) ==
    /\ Running(c)
    /\ b \in owned[c]
    /\ owned' = [owned EXCEPT ![c] = @ \ {b}]
    /\ Enter(c, b[1], bplevel[b[1]])
    /\ UNCHANGED <<flag, bplevel, freelist, nr_free, boot, fault>>

\* Mutants: the flag of the pair is not looked at; its order is not; no block
\* is ever combined; the largest blocks are combined too.
Mergeable_AnyFlag(p, o) == o < MAX_BUDDY_ORDER /\ bplevel[Pair(p, o)] = o
Mergeable_AnyLevel(p, o) == o < MAX_BUDDY_ORDER /\ flag[Pair(p, o)] = "FREE"
Mergeable_Never(p, o) == FALSE
Mergeable_PastMax(p, o) ==
    o <= MAX_BUDDY_ORDER /\ bplevel[Pair(p, o)] = o /\ flag[Pair(p, o)] = "FREE"

\* The pair of block <<p, o>> is a free block of the same order.
Mergeable(p, o) ==
    /\ o < MAX_BUDDY_ORDER
    /\ bplevel[Pair(p, o)] = o
    /\ flag[Pair(p, o)] = "FREE"

\* One turn of the loop: the pair leaves its list, and the lower of the two
\* (not, as the code's comment has it, the one that is absorbed) loses its order.
Merge(c) ==
    LET p == loc[c].page
        o == loc[c].order
        low == IF Pair(p, o) < p THEN Pair(p, o) ELSE p
    IN  /\ loc[c].at = "merge" /\ ~fault
        /\ Mergeable(p, o)
        /\ list_del_init(Pair(p, o))
        /\ nr_free' = [nr_free EXCEPT ![o] = @ - 1]
        /\ bplevel' = [bplevel EXCEPT ![low] = -1]
        /\ loc' = [loc EXCEPT ![c].page = low, ![c].order = o + 1]
        /\ UNCHANGED <<flag, spin, owned, boot, fault>>

FreeDone(c) ==
    LET p == loc[c].page
        o == loc[c].order
    IN  /\ loc[c].at = "merge" /\ ~fault
        /\ ~Mergeable(p, o)
        /\ bplevel' = [bplevel EXCEPT ![p] = o]
        /\ flag' = [flag EXCEPT ![p] = "FREE"]
        /\ list_add(p, o)
        /\ nr_free' = [nr_free EXCEPT ![o] = @ + 1]
        /\ unlock
        /\ loc' = [loc EXCEPT ![c] = Idle]
        /\ UNCHANGED <<owned, boot, fault>>

--------------------------------------------------------------------------------
(* __alloc_pages *)

Exhausted(lv) == \A o \in lv .. MAX_BUDDY_ORDER : freelist[o] = <<>>

\* The smallest order from lv with a free block.
Found(lv) ==
    CHOOSE o \in lv .. MAX_BUDDY_ORDER :
        freelist[o] # <<>> /\ \A i \in lv .. o - 1 : freelist[i] = <<>>

Alloc(c, lv) ==
    /\ Running(c)
    /\ ~Exhausted(lv)
    /\ lockup
    /\ loc' = [loc EXCEPT ![c] = [at |-> "take", page |-> 0, order |-> Found(lv),
                                  level |-> lv]]
    /\ UNCHANGED <<flag, bplevel, freelist, nr_free, owned, boot, fault>>

\* Not found: lock and unlock, return 0.
AllocFails(c, lv) ==
    /\ Running(c)
    /\ Exhausted(lv)
    /\ unlock
    /\ UNCHANGED <<flag, bplevel, freelist, nr_free, loc, owned, boot, fault>>

\* Reads the first node of the list, which is the head itself if somebody has
\* emptied it.
Take(c) ==
    LET s == freelist[loc[c].order]
    IN  /\ loc[c].at = "take" /\ ~fault
        /\ IF s = <<>> THEN fault' = TRUE /\ UNCHANGED loc
           ELSE /\ loc' = [loc EXCEPT ![c].at = "unlink", ![c].page = Head(s)]
                /\ UNCHANGED fault
        /\ UNCHANGED <<flag, bplevel, freelist, nr_free, spin, owned, boot>>

\* Mutant: the block keeps the order it had on the free list.
Unlink_KeepLevel(c) ==
    LET p == loc[c].page
    IN  /\ loc[c].at = "unlink" /\ ~fault
        /\ list_del_init(p)
        /\ flag' = [flag EXCEPT ![p] = "ALLOCED"]
        /\ nr_free' = [nr_free EXCEPT ![loc[c].order] = @ - 1]
        /\ loc' = [loc EXCEPT ![c].at = "split"]
        /\ UNCHANGED <<bplevel, spin, owned, boot, fault>>

Unlink(c) ==
    LET p == loc[c].page
    IN  /\ loc[c].at = "unlink" /\ ~fault
        /\ list_del_init(p)
        /\ bplevel' = [bplevel EXCEPT ![p] = loc[c].level]
        /\ flag' = [flag EXCEPT ![p] = "ALLOCED"]
        /\ nr_free' = [nr_free EXCEPT ![loc[c].order] = @ - 1]
        /\ loc' = [loc EXCEPT ![c].at = "split"]
        /\ UNCHANGED <<spin, owned, boot, fault>>

\* Mutant: the upper half does not get its order.
Split_NoLevel(c) ==
    LET o == loc[c].order - 1
        upper == loc[c].page + 2^o
    IN  /\ loc[c].at = "split" /\ ~fault
        /\ loc[c].order > loc[c].level
        /\ list_add(upper, o)
        /\ nr_free' = [nr_free EXCEPT ![o] = @ + 1]
        /\ flag' = [flag EXCEPT ![upper] = "FREE"]
        /\ loc' = [loc EXCEPT ![c].order = o]
        /\ UNCHANGED <<bplevel, spin, owned, boot, fault>>

\* One turn of the loop: the upper half goes back.
Split(c) ==
    LET o == loc[c].order - 1
        upper == loc[c].page + 2^o
    IN  /\ loc[c].at = "split" /\ ~fault
        /\ loc[c].order > loc[c].level
        /\ list_add(upper, o)
        /\ nr_free' = [nr_free EXCEPT ![o] = @ + 1]
        /\ bplevel' = [bplevel EXCEPT ![upper] = o]
        /\ flag' = [flag EXCEPT ![upper] = "FREE"]
        /\ loc' = [loc EXCEPT ![c].order = o]
        /\ UNCHANGED <<spin, owned, boot, fault>>

AllocDone(c) ==
    /\ loc[c].at = "split" /\ ~fault
    /\ loc[c].order = loc[c].level
    /\ unlock
    /\ owned' = [owned EXCEPT ![c] = @ \cup {<<loc[c].page, loc[c].level>>}]
    /\ loc' = [loc EXCEPT ![c] = Idle]
    /\ UNCHANGED <<flag, bplevel, freelist, nr_free, boot, fault>>

--------------------------------------------------------------------------------
Next ==
    \E c \in Caller :
        \/ BootFree(c)
        \/ \E b \in owned[c] : Free(c, b)
        \/ Merge(c)
        \/ FreeDone(c)
        \/ \E lv \in Order : Alloc(c, lv)
        \/ \E lv \in Order : AllocFails(c, lv)
        \/ Take(c)
        \/ Unlink(c)
        \/ Split(c)
        \/ AllocDone(c)

Spec == Init /\ [][Next]_vars

--------------------------------------------------------------------------------
(* Properties of a single caller, or of callers that exclude each other *)

\* Every variable has its type.
TypeOK ==
    /\ flag \in [Page -> Flags]
    /\ bplevel \in [Page -> {-1} \cup Order]
    /\ freelist \in [Order -> Seq(Page)]
    /\ nr_free \in [Order -> Nat]
    /\ spin \in {0, 1}
    /\ loc \in [Caller -> [at : {"idle", "merge", "take", "unlink", "split"},
                           page : Page, order : Order, level : Order]]
    /\ owned \in [Caller -> SUBSET (Page \X Order)]
    /\ boot \in 0 .. NPages
    /\ fault \in BOOLEAN

FreeBlocks == UNION { { <<p, o>> : p \in Range(freelist[o]) } : o \in Order }
Lent == UNION { owned[c] : c \in Caller }
InHand == { <<loc[c].page, loc[c].order>> :
              c \in { d \in Caller : loc[d].at \in {"merge", "split"} } }

\* No page is lost and none is in two places: at every step of a call the free
\* blocks, the lent blocks and the block in the caller's hand tile the pages
\* that init_buddy has handed over.
Tiled ==
    /\ \A p \in 0 .. boot - 1 :
         Cardinality({ b \in FreeBlocks \cup Lent \cup InHand : p \in PagesOf(b) }) = 1
    /\ \A b \in FreeBlocks \cup Lent \cup InHand : PagesOf(b) \subseteq 0 .. boot - 1

\* What the next __free_pages goes by is true of every free block, after any
\* sequence of splits and merges: its first page is marked FREE with its order,
\* it is linked once, and nr_free counts it.
FreeBlocksMarked ==
    /\ \A b \in FreeBlocks : flag[b[1]] = "FREE" /\ bplevel[b[1]] = b[2]
    /\ \A o \in Order : nr_free[o] = Len(freelist[o]) /\ IsInjective(freelist[o])

\* kfree finds the order of a block in the bplevel of its first page: it stays
\* what it was when the block was lent, whatever happens to other blocks.
OrderRemembered == \A b \in Lent : bplevel[b[1]] = b[2]

\* What a sequence of calls may never spoil: the marks of free blocks, and the orders of
\* lent ones (mybuddy.c:121, myslab.c:267).
BuddyInv == TypeOK /\ FreeBlocksMarked /\ OrderRemembered

\* Between calls, __alloc_pages fails only if no aligned block of that order is
\* without a lent page: coalescing never leaves two free halves apart.
FailsOnlyWhenFull ==
    boot = NPages /\ (\A c \in Caller : loc[c].at = "idle") =>
      \A lv \in Order :
        Exhausted(lv) =>
          \A k \in 0 .. NPages \div 2^lv - 1 :
            \E b \in Lent : PagesOf(b) \cap PagesOf(<<k * 2^lv, lv>>) # {}

\* The allocator keeps its promise: a block is lent only if none of its pages
\* is, and taken back only from whom it was lent to.
Promise == INSTANCE PageAllocator
ImplementsAllocator == Promise!Spec

\* buddy.h:42 calls buddy.lock exclusive: no page is lent to two callers.
Exclusive ==
    \A c, d \in Caller : \A a \in owned[c], b \in owned[d] :
        <<c, a>> # <<d, b>> => PagesOf(a) \cap PagesOf(b) = {}
================================================================================
