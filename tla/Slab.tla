---------------------------------- MODULE Slab ----------------------------------
(****************************************************************************)
(* The slab allocator, kernel/mm/myslab.c: slab_alloc, slab_free and the    *)
(* lists of pages each cache keeps.  Pages come from and go back to the     *)
(* buddy system, of which the model takes that it lends a page only once    *)
(* (PageAllocator, order 0).                                                *)
(*                                                                          *)
(* slab_alloc is one step per turn around its labels.  Calls do not overlap *)
(* here; the code has no lock that would keep them apart.                   *)
(****************************************************************************)
EXTENDS Naturals, FiniteSets, SequencesExt

CONSTANTS
    Cache,      \* members of kmalloc_caches
    Page,       \* pages the buddy system can lend
    Cap,        \* objects after which slab_alloc calls a page full
    Null

ASSUME SlabAssumption ==
    /\ Cap \in Nat \ {0}
    /\ Null \notin Page \cup Cache

VARIABLES
    flag,       \* BUDDY_FREE or BUDDY_SLAB
    virtual,    \* cache a page belongs to
    used,       \* objects below end_ptr
    nr_objs,
    slabp,      \* free list of a page
    node,       \* page->list: linked with itself, linked in a list, or poisoned
    partial, full, cpu,   \* of each cache
    live,       \* the objects clients hold: <<page, i>>
    call,       \* the cache slab_alloc was called for, or Null
    fault       \* what put an end to the allocator's work, if anything did

pageVars  == <<flag, virtual, used, nr_objs, slabp, node>>
cacheVars == <<partial, full, cpu>>
vars == <<pageVars, cacheVars, live, call, fault>>

Object == Page \X (1 .. Cap)
was_full(p) == used[p] = Cap

Init ==
    /\ flag = [p \in Page |-> "FREE"]
    /\ virtual = [p \in Page |-> Null]
    /\ used = [p \in Page |-> 0]
    /\ nr_objs = [p \in Page |-> 0]
    /\ slabp = [p \in Page |-> <<>>]
    /\ node = [p \in Page |-> "self"]
    /\ partial = [c \in Cache |-> <<>>]
    /\ full = [c \in Cache |-> <<>>]
    /\ cpu = [c \in Cache |-> Null]
    /\ live = {}
    /\ call = Null
    /\ fault = "none"

Quiet == call = Null /\ fault = "none"

\* A page's node leaves the list it is linked in.
Without(s, p) ==
    IF p \in Range(s) THEN RemoveAt(s, CHOOSE i \in DOMAIN s : s[i] = p) ELSE s
Unlinked(lists, p) == [c \in Cache |-> Without(lists[c], p)]

--------------------------------------------------------------------------------
(* slab_alloc, for the cache in call *)

slab_alloc(c) ==
    /\ Quiet
    /\ call' = c
    /\ UNCHANGED <<pageVars, cacheVars, live, fault>>

Allocating == call # Null /\ fault = "none"

\* The current page has a free list.
HasFreed == cpu[call] # Null /\ slabp[cpu[call]] # <<>>
\* It has none, but room past end_ptr.  (Mutant: was_full is not looked at.)
HasRoom_Always == cpu[call] # Null /\ slabp[cpu[call]] = <<>>
HasRoom == cpu[call] # Null /\ slabp[cpu[call]] = <<>> /\ ~was_full(cpu[call])

\* Mutant: the object stays on the free list.
FromFreeList_KeepList ==
    LET p == cpu[call]
    IN  /\ Allocating /\ HasFreed
        /\ nr_objs' = [nr_objs EXCEPT ![p] = @ + 1]
        /\ live' = live \cup {<<p, Head(slabp[p])>>}
        /\ call' = Null
        /\ UNCHANGED <<flag, virtual, used, slabp, node, cacheVars, fault>>

FromFreeList ==
    LET p == cpu[call]
    IN  /\ Allocating /\ HasFreed
        /\ slabp' = [slabp EXCEPT ![p] = Tail(@)]
        /\ nr_objs' = [nr_objs EXCEPT ![p] = @ + 1]
        /\ live' = live \cup {<<p, Head(slabp[p])>>}
        /\ call' = Null
        /\ UNCHANGED <<flag, virtual, used, node, cacheVars, fault>>

\* The page that gives its last fresh object goes on the full list.  It is
\* still the current page.
PageNotFull ==
    LET p == cpu[call]
        i == used[p] + 1
    IN  /\ Allocating /\ HasRoom
        /\ used' = [used EXCEPT ![p] = i]
        /\ nr_objs' = [nr_objs EXCEPT ![p] = @ + 1]
        /\ live' = live \cup {<<p, i>>}
        /\ IF i = Cap
           THEN full' = [full EXCEPT ![call] = Append(@, p)] /\ node' = [node EXCEPT ![p] = "linked"]
           ELSE UNCHANGED <<full, node>>
        /\ call' = Null
        /\ UNCHANGED <<flag, virtual, slabp, partial, cpu, fault>>

PageFull == Allocating /\ ~HasFreed /\ ~HasRoom

\* Mutant: page->virtual is not set.
NewPage_NoVirtual(p) ==
    /\ PageFull
    /\ partial[call] = <<>>
    /\ flag[p] = "FREE"
    /\ flag' = [flag EXCEPT ![p] = "SLAB"]
    /\ used' = [used EXCEPT ![p] = 0]
    /\ nr_objs' = [nr_objs EXCEPT ![p] = 0]
    /\ slabp' = [slabp EXCEPT ![p] = <<>>]
    /\ node' = [node EXCEPT ![p] = "self"]
    /\ cpu' = [cpu EXCEPT ![call] = p]
    /\ UNCHANGED <<virtual, partial, full, live, call, fault>>

\* A page from __alloc_pages, formatted by format_slabpage.
NewPage(p) ==
    /\ PageFull
    /\ partial[call] = <<>>
    /\ flag[p] = "FREE"
    /\ flag' = [flag EXCEPT ![p] = "SLAB"]
    /\ virtual' = [virtual EXCEPT ![p] = call]
    /\ used' = [used EXCEPT ![p] = 0]
    /\ nr_objs' = [nr_objs EXCEPT ![p] = 0]
    /\ slabp' = [slabp EXCEPT ![p] = <<>>]
    /\ node' = [node EXCEPT ![p] = "self"]
    /\ cpu' = [cpu EXCEPT ![call] = p]
    /\ UNCHANGED <<partial, full, live, call, fault>>

\* __alloc_pages returns 0: slab_alloc loops for ever.
NoPage ==
    /\ PageFull
    /\ partial[call] = <<>>
    /\ \A p \in Page : flag[p] # "FREE"
    /\ fault' = "memory"
    /\ UNCHANGED <<pageVars, cacheVars, live, call>>

\* The first partial page becomes the current page.  list_del poisons its node.
TakePartial ==
    LET p == Head(partial[call])
    IN  /\ PageFull
        /\ partial[call] # <<>>
        /\ partial' = [partial EXCEPT ![call] = Tail(@)]
        /\ node' = [node EXCEPT ![p] = "poison"]
        /\ cpu' = [cpu EXCEPT ![call] = p]
        /\ UNCHANGED <<flag, virtual, used, nr_objs, slabp, full, live, call, fault>>

--------------------------------------------------------------------------------
(* slab_free, of an object kfree found on a slab page *)

\* The page is empty: back to the buddy system, if its node can be unlinked.  That may be
\* the current page.  From then on slab_alloc hands out objects of a page the buddy system
\* lends to others: the behaviours end there.
Return(p) ==
    IF node[p] = "poison"
    THEN fault' = "poison" /\ UNCHANGED <<flag, node, partial, full>>
    ELSE /\ flag' = [flag EXCEPT ![p] = "FREE"]
         /\ node' = [node EXCEPT ![p] = "linked"]
         /\ partial' = Unlinked(partial, p)
         /\ full' = Unlinked(full, p)
         /\ fault' = IF cpu[virtual[p]] = p THEN "current" ELSE fault

\* Mutant: to the partial list without leaving the full one.
ToPartial_Twice(p) ==
    IF node[p] = "poison"
    THEN fault' = "poison" /\ UNCHANGED <<flag, node, partial, full>>
    ELSE /\ partial' = [partial EXCEPT ![virtual[p]] = Append(@, p)]
         /\ node' = [node EXCEPT ![p] = "linked"]
         /\ UNCHANGED <<flag, full, fault>>

\* The page was full: to the end of the partial list.
ToPartial(p) ==
    IF node[p] = "poison"
    THEN fault' = "poison" /\ UNCHANGED <<flag, node, partial, full>>
    ELSE /\ partial' = [Unlinked(partial, p) EXCEPT ![virtual[p]] = Append(@, p)]
         /\ full' = Unlinked(full, p)
         /\ node' = [node EXCEPT ![p] = "linked"]
         /\ UNCHANGED <<flag, fault>>

\* Mutant: the free list is looked at after the object is back on it.
is_full_Late(p) == FALSE
is_full(p) == slabp[p] = <<>> /\ was_full(p)

\* Mutant: one object is left.
Emptied_Early(p) == nr_objs[p] <= 2
Emptied(p) == nr_objs[p] = 1

slab_free(o) ==
    LET p == o[1]
    IN  /\ Quiet
        /\ o \in live /\ flag[p] = "SLAB"
        /\ live' = live \ {o}
        /\ slabp' = [slabp EXCEPT ![p] = <<o[2]>> \o @]
        /\ nr_objs' = [nr_objs EXCEPT ![p] = @ - 1]
        /\ IF node[p] = "self" THEN UNCHANGED <<flag, node, partial, full, fault>>
           ELSE IF Emptied(p) THEN Return(p)
           ELSE IF is_full(p) THEN ToPartial(p)
           ELSE UNCHANGED <<flag, node, partial, full, fault>>
        /\ UNCHANGED <<virtual, used, cpu, call>>

--------------------------------------------------------------------------------
Next ==
    \/ \E c \in Cache : slab_alloc(c)
    \/ FromFreeList
    \/ PageNotFull
    \/ \E p \in Page : NewPage(p)
    \/ NoPage
    \/ TakePartial
    \/ \E o \in live : slab_free(o)

Spec == Init /\ [][Next]_vars

--------------------------------------------------------------------------------
(* Properties *)

\* Every variable has its type.
TypeOK ==
    /\ flag \in [Page -> {"FREE", "SLAB"}]
    /\ virtual \in [Page -> Cache \cup {Null}]
    /\ used \in [Page -> 0 .. Cap]
    /\ nr_objs \in [Page -> 0 .. Cap]
    /\ slabp \in [Page -> Seq(1 .. Cap)]
    /\ node \in [Page -> {"self", "linked", "poison"}]
    /\ partial \in [Cache -> Seq(Page)] /\ full \in [Cache -> Seq(Page)]
    /\ cpu \in [Cache -> Page \cup {Null}]
    /\ live \subseteq Object
    /\ call \in Cache \cup {Null}
    /\ fault \in {"none", "memory", "poison", "current"}

\* The objects of a page that clients hold.
Held(p) == { i \in 1 .. Cap : <<p, i>> \in live }

\* No object is handed out twice and none is lost: through any sequence of calls
\* the objects below end_ptr of a slab page are the live ones and the ones on its
\* free list, each once, and nr_objs counts the live ones.
Accounted ==
    \A p \in Page : flag[p] = "SLAB" =>
        /\ IsInjective(slabp[p])
        /\ Held(p) \cap Range(slabp[p]) = {}
        /\ Held(p) \cup Range(slabp[p]) = 1 .. used[p]
        /\ nr_objs[p] = Cardinality(Held(p))

\* No client holds memory the buddy system may lend to somebody else.
LiveNotFree == \A o \in live : flag[o[1]] = "SLAB"

\* Freed memory comes back: while the allocator works, a page with an object
\* that can be handed out is its cache's current page or on its partial list.
FreedIsReachable ==
    fault = "none" =>
      \A p \in Page : flag[p] = "SLAB" /\ (slabp[p] # <<>> \/ ~was_full(p)) =>
        \/ cpu[virtual[p]] = p
        \/ p \in Range(partial[virtual[p]])

\* A page's node is linked exactly when one list holds the page, and once; no list holds a
\* page of the buddy system.
Listed(c) == Range(partial[c]) \cup Range(full[c])
LinkedOnce ==
    /\ \A c \in Cache : /\ IsInjective(partial[c]) /\ IsInjective(full[c])
                       /\ Range(partial[c]) \cap Range(full[c]) = {}
                       /\ \A d \in Cache \ {c} : Listed(c) \cap Listed(d) = {}
    /\ \A p \in Page : (\E c \in Cache : p \in Listed(c)) <=> flag[p] = "SLAB" /\ node[p] = "linked"

\* Several caches share the pages: a page is on the lists of its own cache only,
\* so that an object of one size is never handed out for another.
CachesApart ==
    /\ \A p \in Page : flag[p] = "SLAB" => virtual[p] \in Cache
    /\ \A c \in Cache, p \in Page :
          (cpu[c] = p /\ flag[p] = "SLAB") \/ p \in Listed(c) => virtual[p] = c

\* The current page belongs to the allocator, until a kfree of the last object of a current
\* page that was full gives it back (myslab.c:186 takes a linked page for another one).
CurrentIsKept == fault # "current" => \A c \in Cache : cpu[c] # Null => flag[cpu[c]] = "SLAB"

\* A page keeps the node it was formatted with until its last fresh object is handed out.
SelfUntilFull == \A p \in Page : flag[p] = "SLAB" => (node[p] = "self" <=> ~was_full(p))

\* What the lists of pages must be for the next call: linked as the nodes say, of their
\* own cache, and none of the current pages and the pages of live objects free (myslab.c:105,
\* 187).
SlabInv == TypeOK /\ LinkedOnce /\ CachesApart /\ LiveNotFree /\ CurrentIsKept /\ SelfUntilFull

--------------------------------------------------------------------------------
(* What comments of the code say, which it does not keep to *)

\* myslab.c:190: a page with a node that is not linked with itself is not the
\* current page but on a list, so it can be unlinked.
NodesUnlinkable == fault # "poison"

\* myslab.c:186: nor is it given back while slab_alloc hands out its objects.
CurrentNotReturned == fault # "current"
================================================================================
