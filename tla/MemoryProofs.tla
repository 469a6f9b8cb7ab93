------------------------------- MODULE MemoryProofs ------------------------------
(****************************************************************************)
(* Theorems about the memory above the buddy system: Slab for any caches,   *)
(* pages and size of a page and any client; Kmalloc for any largest size;   *)
(* Mm for any areas, frames, addresses and lengths and programs of any      *)
(* size.                                                                    *)
(****************************************************************************)
EXTENDS Slab, Kmalloc, Mm, SequenceFacts, FiniteSetTheorems

--------------------------------------------------------------------------------
(* Slab *)

\* The invariant that every step keeps.
SlabIInv == SlabInv /\ Accounted /\ FreedIsReachable

--------------------------------------------------------------------------------
(* The objects of a page *)

\* A page has no more live objects than there are places.
LEMMA PlacesBound ==
    ASSUME NEW H \in SUBSET (1 .. Cap)
    PROVE  IsFiniteSet(H) /\ Cardinality(H) \in 0 .. Cap
<1>1. Cap \in Nat /\ IsFiniteSet(1 .. Cap) /\ Cardinality(1 .. Cap) = Cap
  BY SlabAssumption, FS_Interval
<1>2. IsFiniteSet(H) /\ Cardinality(H) <= Cap
  BY <1>1, FS_Subset
<1>3. Cardinality(H) \in Nat
  BY <1>2, FS_CardinalityType
<1> QED BY <1>1, <1>2, <1>3

\* A client gets one more object of a page.
LEMMA HandOut ==
    ASSUME NEW p \in Page, NEW i \in 1 .. Cap, i \notin Held(p),
           live' = live \cup {<<p, i>>}
    PROVE  /\ Held(p)' = Held(p) \cup {i}
           /\ Cardinality(Held(p)') = Cardinality(Held(p)) + 1
           /\ Cardinality(Held(p)') \in 0 .. Cap
           /\ \A q \in Page : q # p => Held(q)' = Held(q)
<1>1. Held(p)' = Held(p) \cup {i}
  BY DEF Held
<1>2. \A q \in Page : q # p => Held(q)' = Held(q)
  BY DEF Held
<1>3. Held(p) \in SUBSET (1 .. Cap) /\ Held(p)' \in SUBSET (1 .. Cap)
  BY DEF Held
<1>4. IsFiniteSet(Held(p)) /\ Cardinality(Held(p)') \in 0 .. Cap
  BY <1>3, PlacesBound
<1> QED BY <1>1, <1>2, <1>4, FS_AddElement

\* A client gives one object of a page back.
LEMMA GiveBack ==
    ASSUME NEW p \in Page, NEW i \in Held(p), live' = live \ {<<p, i>>}
    PROVE  /\ Held(p)' = Held(p) \ {i}
           /\ Cardinality(Held(p)') = Cardinality(Held(p)) - 1
           /\ Cardinality(Held(p)') \in 0 .. Cap
           /\ Cardinality(Held(p)) = 1 => Held(p)' = {}
           /\ \A q \in Page : q # p => Held(q)' = Held(q)
<1>1. Held(p)' = Held(p) \ {i}
  BY DEF Held
<1>2. \A q \in Page : q # p => Held(q)' = Held(q)
  BY DEF Held
<1>3. Held(p) \in SUBSET (1 .. Cap) /\ Held(p)' \in SUBSET (1 .. Cap)
  BY DEF Held
<1>4. IsFiniteSet(Held(p)) /\ Cardinality(Held(p)') \in 0 .. Cap
  BY <1>3, PlacesBound
<1>5. Cardinality(Held(p)') = Cardinality(Held(p)) - 1
  BY <1>1, <1>4, FS_RemoveElement
<1>6. ASSUME Cardinality(Held(p)) = 1  PROVE Held(p)' = {}
  <2>1. PICK x : Held(p) = {x}
    BY <1>4, <1>6, FS_Singleton
  <2> QED BY <1>1, <2>1
<1> QED BY <1>1, <1>2, <1>4, <1>5, <1>6

--------------------------------------------------------------------------------
(* The lists of pages *)

\* list_del takes a page off every list.
LEMMA UnlinkedProperties ==
    ASSUME NEW ls \in [Cache -> Seq(Page)], \A c \in Cache : IsInjective(ls[c]), NEW p
    PROVE  /\ Unlinked(ls, p) \in [Cache -> Seq(Page)]
           /\ \A c \in Cache : /\ IsInjective(Unlinked(ls, p)[c])
                               /\ Range(Unlinked(ls, p)[c]) = Range(ls[c]) \ {p}
<1>1. ASSUME NEW c \in Cache
      PROVE  /\ Without(ls[c], p) \in Seq(Page)
             /\ IsInjective(Without(ls[c], p))
             /\ Range(Without(ls[c], p)) = Range(ls[c]) \ {p}
  <2>1. CASE p \notin Range(ls[c])
    BY <2>1 DEF Without
  <2>2. CASE p \in Range(ls[c])
    <3> DEFINE k == CHOOSE i \in DOMAIN ls[c] : ls[c][i] = p
    <3>1. k \in 1 .. Len(ls[c]) /\ ls[c][k] = p
      BY <2>2, LenProperties DEF Range
    <3>2. Without(ls[c], p) = RemoveAt(ls[c], k)
      BY <2>2 DEF Without
    <3> HIDE DEF k
    <3> QED BY <3>1, <3>2, RemoveAtRange
  <2> QED BY <2>1, <2>2
<1> QED BY <1>1 DEF Unlinked

\* The parts of the invariant.
LEMMA Parts ==
    SlabIInv <=> /\ TypeOK /\ LinkedOnce /\ CachesApart /\ LiveNotFree /\ CurrentIsKept
             /\ SelfUntilFull /\ Accounted /\ FreedIsReachable
BY DEF SlabIInv, SlabInv

LEMMA InitInv == Init => SlabIInv
<1> SUFFICES ASSUME Init PROVE SlabIInv
  OBVIOUS
<1>1. TypeOK
  BY SlabAssumption DEF Init, TypeOK
<1>2. \A c \in Cache : Range(partial[c]) = {} /\ Range(full[c]) = {} /\ IsInjective(<<>>)
  BY DEF Init, Range, IsInjective
<1>3. LinkedOnce /\ CachesApart
  BY <1>2 DEF Init, LinkedOnce, CachesApart, Listed
<1>4. LiveNotFree /\ CurrentIsKept /\ SelfUntilFull /\ Accounted /\ FreedIsReachable
  BY DEF Init, LiveNotFree, CurrentIsKept, SelfUntilFull, Accounted, FreedIsReachable
<1> QED BY <1>1, <1>3, <1>4, Parts

\* The page a cache takes its objects from is one of its own.
LEMMA CurrentPage ==
    ASSUME SlabIInv, fault # "current", NEW c \in Cache, cpu[c] # Null
    PROVE  /\ cpu[c] \in Page /\ flag[cpu[c]] = "SLAB" /\ virtual[cpu[c]] = c
           /\ \A d \in Cache : cpu[d] = cpu[c] => d = c
BY DEF SlabIInv, SlabInv, TypeOK, CurrentIsKept, CachesApart

\* Lists and nodes that stay as they are stay in order.
LEMMA ListsStay ==
    ASSUME SlabIInv, UNCHANGED <<flag, virtual, used, node, partial, full, cpu>>,
           fault' # "current" => fault # "current"
    PROVE  LinkedOnce' /\ CachesApart' /\ CurrentIsKept' /\ SelfUntilFull'
<1>1. LinkedOnce /\ CachesApart /\ CurrentIsKept /\ SelfUntilFull
  BY Parts
<1>2. \A c \in Cache : Listed(c)' = Listed(c)
  BY DEF Listed
<1>3. LinkedOnce'
  BY <1>1, <1>2 DEF LinkedOnce
<1>4. CachesApart'
  BY <1>1, <1>2 DEF CachesApart
<1>5. CurrentIsKept' /\ SelfUntilFull'
  BY <1>1 DEF CurrentIsKept, SelfUntilFull, was_full
<1> QED BY <1>3, <1>4, <1>5

\* The lists are in order after one page has moved, as far as the page itself is.
LEMMA OnePageMoves ==
    ASSUME SlabIInv, NEW p \in Page,
           \A c \in Cache : /\ IsInjective(partial'[c]) /\ IsInjective(full'[c])
                            /\ Range(partial'[c]) \ {p} = Range(partial[c]) \ {p}
                            /\ Range(full'[c]) \ {p} = Range(full[c]) \ {p}
                            /\ p \notin Range(partial'[c]) \cap Range(full'[c])
                            /\ p \in Listed(c)' => virtual'[p] = c,
           \A q \in Page : q # p => /\ flag'[q] = flag[q] /\ node'[q] = node[q]
                                    /\ virtual'[q] = virtual[q],
           (\E c \in Cache : p \in Listed(c)') <=> flag'[p] = "SLAB" /\ node'[p] = "linked"
    PROVE  /\ LinkedOnce'
           /\ \A c \in Cache, q \in Page : q \in Listed(c)' => virtual'[q] = c
<1>1. LinkedOnce /\ CachesApart /\ TypeOK
  BY Parts
<1>2. \A c \in Cache : Listed(c)' \ {p} = Listed(c) \ {p}
  BY DEF Listed
<1>3. \A c \in Cache : Range(partial'[c]) \cap Range(full'[c]) = {}
  BY <1>1 DEF LinkedOnce
<1>4. \A c \in Cache, q \in Page : q \in Listed(c)' => virtual'[q] = c
  BY <1>1, <1>2 DEF CachesApart
<1>5. \A c \in Cache : \A d \in Cache \ {c} : Listed(c)' \cap Listed(d)' = {}
  BY <1>1, <1>2 DEF LinkedOnce
<1>6. ASSUME NEW q \in Page
      PROVE  (\E c \in Cache : q \in Listed(c)') <=> flag'[q] = "SLAB" /\ node'[q] = "linked"
  BY <1>1, <1>2 DEF LinkedOnce
<1> QED BY <1>3, <1>4, <1>5, <1>6 DEF LinkedOnce

--------------------------------------------------------------------------------
(* slab_alloc *)

LEMMA AllocStep ==
    ASSUME SlabIInv, NEW c \in Cache, slab_alloc(c)
    PROVE  SlabIInv'
<1>1. /\ call' = c
      /\ UNCHANGED <<flag, virtual, used, nr_objs, slabp, node, partial, full, cpu, live, fault>>
  BY DEF slab_alloc, pageVars, cacheVars
<1>2. TypeOK'
  BY <1>1, Parts DEF TypeOK, Object
<1>3. LinkedOnce' /\ CachesApart' /\ CurrentIsKept' /\ SelfUntilFull' /\ LiveNotFree'
  BY <1>1, ListsStay, Parts DEF LiveNotFree
<1>4. Accounted' /\ FreedIsReachable'
  BY <1>1, Parts, ZenonT(40) DEF Accounted, FreedIsReachable, Held, was_full
<1> QED BY <1>2, <1>3, <1>4 DEF SlabIInv, SlabInv

\* An object off the free list of the current page.
LEMMA FromFreeListStep ==
    ASSUME SlabIInv, FromFreeList
    PROVE  SlabIInv'
<1>1. /\ call \in Cache /\ cpu[call] # Null /\ slabp[cpu[call]] # <<>> /\ fault = "none"
      /\ slabp[cpu[call]] \in Seq(1 .. Cap)
  BY CurrentPage DEF FromFreeList, Allocating, HasFreed, SlabIInv, SlabInv, TypeOK
<1>2. PICK p \in Page : p = cpu[call]
  BY <1>1, CurrentPage
<1>3. PICK i \in 1 .. Cap : i = Head(slabp[p])
  BY <1>1, <1>2, EmptySeq, HeadTailProperties
<1>4. /\ slabp' = [slabp EXCEPT ![p] = Tail(@)]
      /\ nr_objs' = [nr_objs EXCEPT ![p] = @ + 1]
      /\ live' = live \cup {<<p, i>>} /\ call' = Null
      /\ UNCHANGED <<flag, virtual, used, node, partial, full, cpu, fault>>
  BY <1>2, <1>3 DEF FromFreeList, cacheVars
<1>5. TypeOK /\ Accounted /\ flag[p] = "SLAB" /\ virtual[p] = call
  BY <1>1, <1>2, CurrentPage, Parts
<1>6. /\ IsInjective(slabp[p]) /\ slabp[p] \in Seq(1 .. Cap) /\ slabp[p] # <<>>
      /\ Held(p) \cap Range(slabp[p]) = {} /\ Held(p) \cup Range(slabp[p]) = 1 .. used[p]
      /\ nr_objs[p] = Cardinality(Held(p))
  BY <1>1, <1>2, <1>5 DEF Accounted
<1>7. /\ i \in Range(slabp[p]) /\ Tail(slabp[p]) \in Seq(1 .. Cap)
      /\ IsInjective(Tail(slabp[p])) /\ Range(Tail(slabp[p])) = Range(slabp[p]) \ {i}
  BY <1>3, <1>6, TailRange
<1>8. /\ Held(p)' = Held(p) \cup {i}
      /\ Cardinality(Held(p)') = Cardinality(Held(p)) + 1
      /\ Cardinality(Held(p)') \in 0 .. Cap
      /\ \A q \in Page : q # p => Held(q)' = Held(q)
  BY <1>4, <1>6, <1>7, HandOut
<1>9. /\ slabp'[p] = Tail(slabp[p]) /\ nr_objs'[p] = nr_objs[p] + 1
      /\ \A q \in Page : q # p => slabp'[q] = slabp[q] /\ nr_objs'[q] = nr_objs[q]
  BY <1>4, <1>5 DEF TypeOK
<1>10. Accounted'
  <2>1. ASSUME NEW q \in Page, flag'[q] = "SLAB"
        PROVE  /\ IsInjective(slabp'[q])
               /\ Held(q)' \cap Range(slabp'[q]) = {}
               /\ Held(q)' \cup Range(slabp'[q]) = 1 .. used'[q]
               /\ nr_objs'[q] = Cardinality(Held(q)')
    <3>1. CASE q = p
      BY <1>4, <1>6, <1>7, <1>8, <1>9, <3>1
    <3>2. CASE q # p
      BY <1>4, <1>5, <1>8, <1>9, <2>1, <3>2 DEF Accounted
    <3> QED BY <3>1, <3>2
  <2> QED BY <2>1 DEF Accounted
<1>11. TypeOK'
  <2>1. slabp' \in [Page -> Seq(1 .. Cap)] /\ nr_objs' \in [Page -> 0 .. Cap]
    BY <1>4, <1>5, <1>6, <1>7, <1>8, <1>9 DEF TypeOK
  <2> QED BY <1>4, <1>5, <2>1 DEF TypeOK, Object
<1>12. LinkedOnce' /\ CachesApart' /\ CurrentIsKept' /\ SelfUntilFull'
  BY <1>4, ListsStay
<1>13. LiveNotFree'
  BY <1>4, <1>5, Parts DEF LiveNotFree
<1>14. FreedIsReachable'
  <2>1. ASSUME NEW q \in Page, flag[q] = "SLAB", slabp'[q] # <<>> \/ used[q] # Cap
        PROVE  cpu[virtual[q]] = q \/ q \in Range(partial[virtual[q]])
    BY <1>1, <1>2, <1>5, <1>9, <2>1, Parts DEF FreedIsReachable, was_full
  <2> QED BY <1>4, <2>1 DEF FreedIsReachable, was_full
<1> QED BY <1>10, <1>11, <1>12, <1>13, <1>14 DEF SlabIInv, SlabInv

\* Where nothing moves, what could be reached still can.
LEMMA ReachableStay ==
    ASSUME SlabIInv, fault = "none",
           \A q \in Page : /\ flag'[q] = flag[q] /\ virtual'[q] = virtual[q]
                           /\ slabp'[q] # <<>> \/ used'[q] # Cap =>
                                 \/ slabp[q] # <<>> \/ used[q] # Cap
                                 \/ cpu'[virtual[q]] = q \/ q \in Range(partial'[virtual[q]])
                           /\ cpu[virtual[q]] = q => cpu'[virtual[q]] = q
                           /\ q \in Range(partial[virtual[q]]) => q \in Range(partial'[virtual[q]])
    PROVE  FreedIsReachable'
BY Parts DEF FreedIsReachable, was_full

\* A fresh object of the current page.
LEMMA PageNotFullStep ==
    ASSUME SlabIInv, PageNotFull
    PROVE  SlabIInv'
<1>1. /\ call \in Cache /\ cpu[call] # Null /\ slabp[cpu[call]] = <<>> /\ fault = "none"
      /\ used[cpu[call]] # Cap
  BY Parts DEF PageNotFull, Allocating, HasRoom, TypeOK, was_full
<1>2. PICK p \in Page : p = cpu[call]
  BY <1>1, CurrentPage
<1>3. TypeOK /\ Accounted /\ flag[p] = "SLAB" /\ virtual[p] = call
  BY <1>1, <1>2, CurrentPage, Parts
<1>4. PICK i \in 1 .. Cap : i = used[p] + 1
  BY <1>1, <1>2, <1>3, SlabAssumption DEF TypeOK
<1>5. /\ used' = [used EXCEPT ![p] = i]
      /\ nr_objs' = [nr_objs EXCEPT ![p] = @ + 1]
      /\ live' = live \cup {<<p, i>>} /\ call' = Null
      /\ \/ i = Cap /\ full' = [full EXCEPT ![call] = Append(@, p)] /\ node' = [node EXCEPT ![p] = "linked"]
         \/ i # Cap /\ UNCHANGED <<full, node>>
      /\ UNCHANGED <<flag, virtual, slabp, partial, cpu, fault>>
  BY <1>2, <1>4 DEF PageNotFull
<1>6. /\ used[p] \in 0 .. Cap /\ Cap \in Nat /\ slabp[p] = <<>> /\ Range(slabp[p]) = {}
      /\ Held(p) = 1 .. used[p] /\ nr_objs[p] = Cardinality(Held(p))
  <2>1. Range(<<>>) = {}
    BY DEF Range
  <2> QED BY <1>1, <1>2, <1>3, <2>1, SlabAssumption DEF Accounted, TypeOK
<1>7. i \notin Held(p) /\ Held(p) \cup {i} = 1 .. i
  BY <1>4, <1>6
<1>8. /\ Held(p)' = Held(p) \cup {i}
      /\ Cardinality(Held(p)') = Cardinality(Held(p)) + 1
      /\ Cardinality(Held(p)') \in 0 .. Cap
      /\ \A q \in Page : q # p => Held(q)' = Held(q)
  BY <1>5, <1>7, HandOut
<1>9. /\ used'[p] = i /\ nr_objs'[p] = nr_objs[p] + 1
      /\ \A q \in Page : q # p => used'[q] = used[q] /\ nr_objs'[q] = nr_objs[q]
  BY <1>3, <1>5 DEF TypeOK
<1>10. Accounted'
  <2>1. ASSUME NEW q \in Page, flag'[q] = "SLAB"
        PROVE  /\ IsInjective(slabp'[q])
               /\ Held(q)' \cap Range(slabp'[q]) = {}
               /\ Held(q)' \cup Range(slabp'[q]) = 1 .. used'[q]
               /\ nr_objs'[q] = Cardinality(Held(q)')
    <3>1. CASE q = p
      BY <1>3, <1>5, <1>6, <1>7, <1>8, <1>9, <3>1 DEF Accounted
    <3>2. CASE q # p
      BY <1>3, <1>5, <1>8, <1>9, <2>1, <3>2 DEF Accounted
    <3> QED BY <3>1, <3>2
  <2> QED BY <2>1 DEF Accounted
<1>11. node[p] = "self" /\ \A c \in Cache : p \notin Listed(c)
  BY <1>1, <1>2, <1>3, Parts DEF SelfUntilFull, was_full, LinkedOnce
<1>12. /\ full' \in [Cache -> Seq(Page)] /\ node' \in [Page -> {"self", "linked", "poison"}]
       /\ node'[p] = (IF i = Cap THEN "linked" ELSE "self")
       /\ \A q \in Page : q # p => node'[q] = node[q]
       /\ \A c \in Cache : /\ IsInjective(full'[c])
                           /\ Range(full'[c]) = Range(full[c]) \cup (IF c = call /\ i = Cap THEN {p} ELSE {})
  <2>1. full \in [Cache -> Seq(Page)] /\ \A c \in Cache : IsInjective(full[c])
    BY <1>3, Parts DEF TypeOK, LinkedOnce
  <2>2. /\ Append(full[call], p) \in Seq(Page) /\ IsInjective(Append(full[call], p))
        /\ Range(Append(full[call], p)) = Range(full[call]) \cup {p}
    BY <1>1, <1>11, <2>1, AppendRange DEF Listed
  <2>3. node \in [Page -> {"self", "linked", "poison"}]
    BY <1>3 DEF TypeOK
  <2>4. CASE i = Cap
    <3>1. /\ full' = [full EXCEPT ![call] = Append(full[call], p)]
          /\ node' = [node EXCEPT ![p] = "linked"]
      BY <1>5, <2>4
    <3> QED BY <1>1, <2>1, <2>2, <2>3, <2>4, <3>1
  <2>5. CASE i # Cap
    BY <1>5, <1>11, <2>1, <2>3, <2>5
  <2> QED BY <2>4, <2>5
<1>13. TypeOK'
  <2>1. used' \in [Page -> 0 .. Cap] /\ nr_objs' \in [Page -> 0 .. Cap]
    BY <1>3, <1>5, <1>6, <1>8, <1>9 DEF TypeOK
  <2>2. live' \subseteq Object /\ call' \in Cache \cup {Null}
    BY <1>3, <1>5 DEF TypeOK, Object
  <2> QED BY <1>3, <1>5, <1>12, <2>1, <2>2 DEF TypeOK
<1>14. LinkedOnce' /\ \A c \in Cache, q \in Page : q \in Listed(c)' => virtual'[q] = c
  <2>1. ASSUME NEW c \in Cache
        PROVE  /\ IsInjective(partial'[c]) /\ IsInjective(full'[c])
               /\ Range(partial'[c]) \ {p} = Range(partial[c]) \ {p}
               /\ Range(full'[c]) \ {p} = Range(full[c]) \ {p}
               /\ p \notin Range(partial'[c]) \cap Range(full'[c])
               /\ p \in Listed(c)' => c = call /\ i = Cap
    BY <1>5, <1>11, <1>12, Parts DEF Listed, LinkedOnce
  <2>2. (\E c \in Cache : p \in Listed(c)') <=> flag'[p] = "SLAB" /\ node'[p] = "linked"
    BY <1>1, <1>3, <1>5, <1>12, <2>1 DEF Listed
  <2> QED BY <1>3, <1>5, <1>12, <2>1, <2>2, OnePageMoves
<1>15. CachesApart' /\ CurrentIsKept' /\ LiveNotFree'
  BY <1>3, <1>5, <1>14, Parts DEF CachesApart, CurrentIsKept, LiveNotFree
<1>16. SelfUntilFull'
  <2>1. ASSUME NEW q \in Page, flag[q] = "SLAB"
        PROVE  node'[q] = "self" <=> used'[q] # Cap
    BY <1>9, <1>12, <2>1, Parts DEF SelfUntilFull, was_full
  <2> QED BY <1>5, <2>1 DEF SelfUntilFull, was_full
<1>17. FreedIsReachable'
  BY <1>1, <1>2, <1>3, <1>5, <1>9, ReachableStay
<1> QED BY <1>10, <1>13, <1>14, <1>15, <1>16, <1>17 DEF SlabIInv, SlabInv

\* The current page has nothing to hand out when another one is looked for.
LEMMA NothingLeft ==
    ASSUME SlabIInv, PageFull
    PROVE  /\ call \in Cache /\ fault = "none"
           /\ cpu[call] # Null => slabp[cpu[call]] = <<>> /\ used[cpu[call]] = Cap
BY Parts DEF PageFull, Allocating, HasFreed, HasRoom, TypeOK, was_full

\* A page of the buddy system becomes the current one.
LEMMA NewPageStep ==
    ASSUME SlabIInv, NEW p \in Page, NewPage(p)
    PROVE  SlabIInv'
<1>1. /\ call \in Cache /\ fault = "none" /\ flag[p] = "FREE"
      /\ cpu[call] # Null => slabp[cpu[call]] = <<>> /\ used[cpu[call]] = Cap
  BY NothingLeft DEF NewPage
<1>2. /\ flag' = [flag EXCEPT ![p] = "SLAB"] /\ virtual' = [virtual EXCEPT ![p] = call]
      /\ used' = [used EXCEPT ![p] = 0] /\ nr_objs' = [nr_objs EXCEPT ![p] = 0]
      /\ slabp' = [slabp EXCEPT ![p] = <<>>] /\ node' = [node EXCEPT ![p] = "self"]
      /\ cpu' = [cpu EXCEPT ![call] = p]
      /\ UNCHANGED <<partial, full, live, call, fault>>
  BY DEF NewPage
<1>3. TypeOK /\ Cap \in Nat \ {0}
  BY Parts, SlabAssumption
<1>4. /\ flag'[p] = "SLAB" /\ virtual'[p] = call /\ used'[p] = 0 /\ nr_objs'[p] = 0
      /\ slabp'[p] = <<>> /\ node'[p] = "self" /\ cpu'[call] = p
      /\ \A q \in Page : q # p => /\ flag'[q] = flag[q] /\ virtual'[q] = virtual[q] /\ used'[q] = used[q]
                                  /\ nr_objs'[q] = nr_objs[q] /\ slabp'[q] = slabp[q] /\ node'[q] = node[q]
      /\ \A c \in Cache : c # call => cpu'[c] = cpu[c]
  BY <1>1, <1>2, <1>3 DEF TypeOK
<1>5. TypeOK'
  <2>1. 0 \in 0 .. Cap /\ <<>> \in Seq(1 .. Cap)
    BY <1>3
  <2> QED BY <1>1, <1>2, <1>3, <2>1 DEF TypeOK
<1>6. /\ \A c \in Cache : p \notin Listed(c) /\ cpu[c] # p
      /\ Held(p) = {} /\ \A q \in Page : Held(q)' = Held(q)
  BY <1>1, <1>2, Parts, SlabAssumption DEF LinkedOnce, CurrentIsKept, LiveNotFree, Held
<1>7. LinkedOnce' /\ \A c \in Cache, q \in Page : q \in Listed(c)' => virtual'[q] = c
  <2>1. \A c \in Cache : /\ IsInjective(partial'[c]) /\ IsInjective(full'[c])
                         /\ partial'[c] = partial[c] /\ full'[c] = full[c]
                         /\ p \notin Listed(c)'
    BY <1>2, <1>6, Parts DEF LinkedOnce, Listed
  <2>2. p \notin UNION { Range(partial'[c]) : c \in Cache }
    BY <2>1 DEF Listed
  <2> QED BY <1>4, <2>1, <2>2, OnePageMoves
<1>8. CachesApart'
  <2>1. \A c \in Cache, q \in Page : cpu'[c] = q /\ flag'[q] = "SLAB" => virtual'[q] = c
    BY <1>4, <1>6, Parts DEF CachesApart
  <2> QED BY <1>1, <1>4, <1>7, <2>1, Parts DEF CachesApart
<1>9. CurrentIsKept' /\ LiveNotFree'
  <2>1. CurrentIsKept'
    <3>1. ASSUME NEW c \in Cache, cpu'[c] # Null  PROVE flag'[cpu'[c]] = "SLAB"
      <4>1. CASE c = call
        BY <1>4, <4>1
      <4>2. CASE c # call
        <5>1. cpu'[c] = cpu[c] /\ cpu[c] \in Page /\ flag[cpu[c]] = "SLAB" /\ cpu[c] # p
          BY <1>1, <1>4, <1>6, <3>1, <4>2, CurrentPage
        <5> QED BY <1>4, <5>1
      <4> QED BY <4>1, <4>2
    <3> QED BY <3>1 DEF CurrentIsKept
  <2>2. LiveNotFree'
    BY <1>2, <1>3, <1>4, Parts DEF LiveNotFree, TypeOK, Object
  <2> QED BY <2>1, <2>2
<1>10. SelfUntilFull'
  BY <1>3, <1>4, Parts DEF SelfUntilFull, was_full
<1>11. Accounted'
  <2>1. /\ IsInjective(<<>>) /\ Range(<<>>) = {} /\ 1 .. 0 = {} /\ Cardinality({}) = 0
    BY FS_EmptySet DEF IsInjective, Range
  <2>2. ASSUME NEW q \in Page, flag'[q] = "SLAB"
        PROVE  /\ IsInjective(slabp'[q])
               /\ Held(q)' \cap Range(slabp'[q]) = {}
               /\ Held(q)' \cup Range(slabp'[q]) = 1 .. used'[q]
               /\ nr_objs'[q] = Cardinality(Held(q)')
    <3>1. CASE q = p
      BY <1>4, <1>6, <2>1, <3>1
    <3>2. CASE q # p
      BY <1>4, <1>6, <2>2, <3>2, Parts DEF Accounted
    <3> QED BY <3>1, <3>2
  <2> QED BY <2>2 DEF Accounted
<1>12. FreedIsReachable'
  <2>1. ASSUME NEW q \in Page, flag'[q] = "SLAB", slabp'[q] # <<>> \/ used'[q] # Cap
        PROVE  cpu'[virtual'[q]] = q \/ q \in Range(partial'[virtual'[q]])
    <3>1. CASE q = p
      BY <1>4, <3>1
    <3>2. CASE q # p
      <4>1. /\ flag[q] = "SLAB" /\ (slabp[q] # <<>> \/ used[q] # Cap) /\ virtual'[q] = virtual[q]
            /\ virtual[q] \in Cache
        BY <1>4, <2>1, <3>2, Parts DEF CachesApart
      <4>2. cpu[virtual[q]] = q \/ q \in Range(partial[virtual[q]])
        BY <1>1, <4>1, Parts DEF FreedIsReachable, was_full
      <4>3. cpu[call] # q
        BY <1>1, <4>1, SlabAssumption
      <4> QED BY <1>2, <1>4, <4>1, <4>2, <4>3
    <3> QED BY <3>1, <3>2
  <2> QED BY <2>1 DEF FreedIsReachable, was_full
<1> QED BY <1>5, <1>7, <1>8, <1>9, <1>10, <1>11, <1>12 DEF SlabIInv, SlabInv

LEMMA NoPageStep ==
    ASSUME SlabIInv, NoPage
    PROVE  SlabIInv'
<1>1. /\ fault' = "memory"
      /\ UNCHANGED <<flag, virtual, used, nr_objs, slabp, node, partial, full, cpu, live, call>>
  BY DEF NoPage, pageVars, cacheVars
<1>2. TypeOK'
  BY <1>1, Parts DEF TypeOK, Object
<1>3. LinkedOnce' /\ CachesApart' /\ CurrentIsKept' /\ SelfUntilFull' /\ LiveNotFree'
  <2>1. fault # "current"
    BY NothingLeft DEF NoPage
  <2> QED BY <1>1, <2>1, ListsStay, Parts DEF LiveNotFree
<1>4. Accounted' /\ FreedIsReachable'
  BY <1>1, Parts DEF Accounted, FreedIsReachable, Held
<1> QED BY <1>2, <1>3, <1>4 DEF SlabIInv, SlabInv

\* The first partial page becomes the current one.
LEMMA TakePartialStep ==
    ASSUME SlabIInv, TakePartial
    PROVE  SlabIInv'
<1>1. /\ call \in Cache /\ fault = "none" /\ partial[call] # <<>>
      /\ cpu[call] # Null => slabp[cpu[call]] = <<>> /\ used[cpu[call]] = Cap
  BY NothingLeft DEF TakePartial
<1>2. TypeOK /\ partial \in [Cache -> Seq(Page)] /\ IsInjective(partial[call])
  BY <1>1, Parts DEF TypeOK, LinkedOnce
<1>3. PICK p \in Page : p = Head(partial[call])
  BY <1>1, <1>2, TailRange
<1>4. /\ p \in Range(partial[call]) /\ Tail(partial[call]) \in Seq(Page)
      /\ IsInjective(Tail(partial[call]))
      /\ Range(Tail(partial[call])) = Range(partial[call]) \ {p}
  BY <1>1, <1>2, <1>3, TailRange
<1>5. /\ partial' = [partial EXCEPT ![call] = Tail(@)]
      /\ node' = [node EXCEPT ![p] = "poison"]
      /\ cpu' = [cpu EXCEPT ![call] = p]
      /\ UNCHANGED <<flag, virtual, used, nr_objs, slabp, full, live, call, fault>>
  BY <1>3 DEF TakePartial
<1>6. /\ cpu'[call] = p /\ node'[p] = "poison"
      /\ partial'[call] = Tail(partial[call])
      /\ \A c \in Cache : c # call => cpu'[c] = cpu[c] /\ partial'[c] = partial[c]
      /\ \A q \in Page : q # p => node'[q] = node[q]
  BY <1>1, <1>2, <1>5 DEF TypeOK
<1>7. /\ flag[p] = "SLAB" /\ node[p] = "linked" /\ virtual[p] = call
      /\ p \notin Range(full[call])
      /\ \A c \in Cache : c # call => p \notin Listed(c)
  <2>1. p \in Listed(call) /\ LinkedOnce /\ CachesApart
    BY <1>4, Parts DEF Listed
  <2> QED BY <1>1, <1>4, <2>1 DEF LinkedOnce, CachesApart
<1>8. TypeOK'
  BY <1>1, <1>2, <1>4, <1>5 DEF TypeOK, Object
<1>9. LinkedOnce' /\ \A c \in Cache, q \in Page : q \in Listed(c)' => virtual'[q] = c
  <2>1. ASSUME NEW c \in Cache
        PROVE  /\ IsInjective(partial'[c]) /\ IsInjective(full'[c])
               /\ Range(partial'[c]) \ {p} = Range(partial[c]) \ {p}
               /\ Range(full'[c]) \ {p} = Range(full[c]) \ {p}
               /\ p \notin Listed(c)'
    BY <1>4, <1>5, <1>6, <1>7, Parts, SMTT(30) DEF Listed, LinkedOnce
  <2>2. \A c \in Cache : p \notin Range(partial'[c]) \cap Range(full'[c])
    BY <2>1 DEF Listed
  <2> QED BY <1>5, <1>6, <2>1, <2>2, OnePageMoves
<1>10. CachesApart'
  <2>1. \A c \in Cache, q \in Page : cpu'[c] = q /\ flag'[q] = "SLAB" => virtual'[q] = c
    BY <1>5, <1>6, <1>7, Parts DEF CachesApart
  <2> QED BY <1>5, <1>9, <2>1, Parts DEF CachesApart
<1>11. CurrentIsKept' /\ LiveNotFree' /\ SelfUntilFull'
  <2>1. CurrentIsKept'
    BY <1>5, <1>6, <1>7, Parts DEF CurrentIsKept
  <2>2. LiveNotFree'
    BY <1>5, Parts DEF LiveNotFree
  <2>3. SelfUntilFull'
    BY <1>5, <1>6, <1>7, Parts DEF SelfUntilFull, was_full
  <2> QED BY <2>1, <2>2, <2>3
<1>12. Accounted'
  BY <1>5, Parts DEF Accounted, Held
<1>13. FreedIsReachable'
  <2>1. ASSUME NEW q \in Page, flag[q] = "SLAB", slabp[q] # <<>> \/ used[q] # Cap
        PROVE  cpu'[virtual[q]] = q \/ q \in Range(partial'[virtual[q]])
    <3>1. virtual[q] \in Cache /\ (cpu[virtual[q]] = q \/ q \in Range(partial[virtual[q]]))
      BY <1>1, <2>1, Parts DEF FreedIsReachable, was_full, CachesApart
    <3>2. cpu[call] # q
      BY <1>1, <2>1, SlabAssumption
    <3> QED BY <1>4, <1>6, <3>1, <3>2
  <2> QED BY <1>5, <2>1 DEF FreedIsReachable, was_full
<1> QED BY <1>8, <1>9, <1>10, <1>11, <1>12, <1>13 DEF SlabIInv, SlabInv

--------------------------------------------------------------------------------
(* slab_free *)

\* The object is on the free list of its page, whatever becomes of the page.
LEMMA FreedObject ==
    ASSUME SlabIInv, NEW o \in live, slab_free(o), NEW p \in Page, p = o[1]
    PROVE  /\ flag[p] = "SLAB" /\ fault = "none" /\ virtual[p] \in Cache
           /\ slabp' \in [Page -> Seq(1 .. Cap)] /\ nr_objs' \in [Page -> 0 .. Cap]
           /\ live' \subseteq Object /\ live' \subseteq live
           /\ Accounted' \/ flag' # flag
           /\ flag' = [flag EXCEPT ![p] = "FREE"] => Accounted'
           /\ nr_objs[p] = 1 => \A i \in 1 .. Cap : <<p, i>> \notin live'
           /\ \A q \in Page : q # p => slabp'[q] = slabp[q]
<1>1. TypeOK /\ Accounted
  BY Parts
<1>2. PICK i \in 1 .. Cap : o = <<p, i>>
  BY <1>1 DEF TypeOK, Object
<1>3. /\ flag[p] = "SLAB" /\ fault = "none"
      /\ live' = live \ {<<p, i>>}
      /\ slabp' = [slabp EXCEPT ![p] = <<i>> \o @]
      /\ nr_objs' = [nr_objs EXCEPT ![p] = @ - 1]
      /\ UNCHANGED used
  BY <1>2 DEF slab_free, Quiet
<1>4. i \in Held(p)
  BY <1>2 DEF Held
<1>5. /\ IsInjective(slabp[p]) /\ slabp[p] \in Seq(1 .. Cap)
      /\ Held(p) \cap Range(slabp[p]) = {} /\ Held(p) \cup Range(slabp[p]) = 1 .. used[p]
      /\ nr_objs[p] = Cardinality(Held(p))
  BY <1>1, <1>3 DEF Accounted, TypeOK
<1>6. /\ <<i>> \o slabp[p] \in Seq(1 .. Cap) /\ IsInjective(<<i>> \o slabp[p])
      /\ Range(<<i>> \o slabp[p]) = Range(slabp[p]) \cup {i}
  <2>1. PICK s \in Seq(1 .. Cap) : s = slabp[p]
    BY <1>5
  <2>2. i \notin Range(s) /\ IsInjective(s)
    BY <1>4, <1>5, <2>1
  <2>3. PICK S : S = 1 .. Cap
    OBVIOUS
  <2>4. s \in Seq(S) /\ i \in S
    BY <2>3
  <2>5. /\ <<i>> \o s \in Seq(S) /\ IsInjective(<<i>> \o s)
        /\ Range(<<i>> \o s) = Range(s) \cup {i}
    BY ONLY <2>2, <2>4, ConsRange
  <2> QED BY <2>1, <2>3, <2>5
<1>7. /\ Held(p)' = Held(p) \ {i}
      /\ Cardinality(Held(p)') = Cardinality(Held(p)) - 1
      /\ Cardinality(Held(p)') \in 0 .. Cap
      /\ Cardinality(Held(p)) = 1 => Held(p)' = {}
      /\ \A q \in Page : q # p => Held(q)' = Held(q)
  BY <1>3, <1>4, GiveBack
<1>8. /\ slabp'[p] = <<i>> \o slabp[p] /\ nr_objs'[p] = nr_objs[p] - 1
      /\ \A q \in Page : q # p => slabp'[q] = slabp[q] /\ nr_objs'[q] = nr_objs[q]
  BY <1>1, <1>3 DEF TypeOK
<1>9. /\ IsInjective(slabp'[p]) /\ Held(p)' \cap Range(slabp'[p]) = {}
      /\ Held(p)' \cup Range(slabp'[p]) = 1 .. used'[p]
      /\ nr_objs'[p] = Cardinality(Held(p)')
  <2>1. used'[p] = used[p]
    BY <1>3
  <2>2. /\ IsInjective(slabp'[p]) /\ Range(slabp'[p]) = Range(slabp[p]) \cup {i}
        /\ nr_objs'[p] = Cardinality(Held(p)')
    BY <1>5, <1>6, <1>7, <1>8
  <2> QED BY <1>4, <1>5, <1>7, <2>1, <2>2
<1>10. ASSUME \A q \in Page : q # p => flag'[q] = flag[q]
       PROVE  Accounted'
  <2>1. ASSUME NEW q \in Page, q # p, flag'[q] = "SLAB"
        PROVE  /\ IsInjective(slabp'[q]) /\ Held(q)' \cap Range(slabp'[q]) = {}
               /\ Held(q)' \cup Range(slabp'[q]) = 1 .. used'[q]
               /\ nr_objs'[q] = Cardinality(Held(q)')
    BY <1>1, <1>3, <1>7, <1>8, <1>10, <2>1 DEF Accounted
  <2> QED BY <1>9, <2>1 DEF Accounted
<1>11. flag' = [flag EXCEPT ![p] = "FREE"] => Accounted'
  BY <1>1, <1>10 DEF TypeOK
<1>12. Accounted' \/ flag' # flag
  BY <1>10
<1>13. slabp' \in [Page -> Seq(1 .. Cap)] /\ nr_objs' \in [Page -> 0 .. Cap]
  <2>1. nr_objs'[p] \in 0 .. Cap
    BY <1>5, <1>7, <1>8
  <2> QED BY <1>1, <1>3, <1>6, <1>8, <2>1 DEF TypeOK
<1>14. nr_objs[p] = 1 => \A j \in 1 .. Cap : <<p, j>> \notin live'
  BY <1>5, <1>7 DEF Held
<1>15. virtual[p] \in Cache /\ live' \subseteq Object /\ live' \subseteq live
  BY <1>1, <1>3, Parts DEF CachesApart, TypeOK
<1> QED BY <1>3, <1>8, <1>11, <1>12, <1>13, <1>14, <1>15

\* What slab_free does to the lists: nothing; or, to a page with a node that is not linked
\* with itself, it goes back or to the partial list, or its poisoned node stops the kernel.
LEMMA FreeCases ==
    ASSUME SlabIInv, NEW o \in live, slab_free(o), NEW p \in Page, p = o[1]
    PROVE  /\ UNCHANGED <<virtual, used, cpu, call>>
           /\ \/ /\ UNCHANGED <<flag, node, partial, full>>
                 /\ \/ fault' = "poison"
                    \/ /\ UNCHANGED fault
                       /\ node[p] = "self" \/ ~is_full(p)
              \/ /\ node[p] = "linked" /\ nr_objs[p] = 1 /\ UNCHANGED node
                 /\ fault' = IF cpu[virtual[p]] = p THEN "current" ELSE "none"
                 /\ flag' = [flag EXCEPT ![p] = "FREE"]
                 /\ partial' = Unlinked(partial, p) /\ full' = Unlinked(full, p)
              \/ /\ node[p] = "linked" /\ UNCHANGED <<flag, fault, node>>
                 /\ partial' = [Unlinked(partial, p) EXCEPT ![virtual[p]] = Append(@, p)]
                 /\ full' = Unlinked(full, p)
<1>1. /\ node \in [Page -> {"self", "linked", "poison"}] /\ fault = "none"
      /\ (IF node[p] = "self" THEN UNCHANGED <<flag, node, partial, full, fault>>
          ELSE IF Emptied(p) THEN Return(p)
          ELSE IF is_full(p) THEN ToPartial(p)
          ELSE UNCHANGED <<flag, node, partial, full, fault>>)
      /\ UNCHANGED <<virtual, used, cpu, call>>
  BY Parts DEF slab_free, Quiet, TypeOK
<1>2. node[p] = "linked" => [node EXCEPT ![p] = "linked"] = node
  BY <1>1
<1>3. CASE node[p] = "self"
  BY <1>1, <1>3
<1>4. CASE node[p] # "self" /\ Emptied(p)
  <2>1. Return(p) /\ nr_objs[p] = 1
    BY <1>1, <1>4 DEF Emptied
  <2>2. CASE node[p] = "poison"
    BY <1>1, <2>1, <2>2 DEF Return
  <2>3. CASE node[p] # "poison"
    <3>1. node[p] = "linked"
      BY <1>1, <1>4, <2>3
    <3> QED BY <1>1, <1>2, <2>1, <3>1 DEF Return
  <2> QED BY <2>2, <2>3
<1>5. CASE node[p] # "self" /\ ~Emptied(p) /\ is_full(p)
  <2>1. ToPartial(p)
    BY <1>1, <1>5
  <2>2. CASE node[p] = "poison"
    BY <1>1, <2>1, <2>2 DEF ToPartial
  <2>3. CASE node[p] # "poison"
    <3>1. node[p] = "linked"
      BY <1>1, <1>5, <2>3
    <3> QED BY <1>1, <1>2, <2>1, <3>1 DEF ToPartial
  <2> QED BY <2>2, <2>3
<1>6. CASE node[p] # "self" /\ ~Emptied(p) /\ ~is_full(p)
  BY <1>1, <1>6
<1> QED BY <1>3, <1>4, <1>5, <1>6

LEMMA FreeStep ==
    ASSUME SlabIInv, NEW o \in live, slab_free(o)
    PROVE  SlabIInv'
<1>1. PICK p \in Page : p = o[1]
  BY Parts DEF TypeOK, Object
<1>2. /\ flag[p] = "SLAB" /\ fault = "none" /\ virtual[p] \in Cache
      /\ slabp' \in [Page -> Seq(1 .. Cap)] /\ nr_objs' \in [Page -> 0 .. Cap]
      /\ live' \subseteq Object /\ live' \subseteq live
      /\ Accounted' \/ flag' # flag
      /\ flag' = [flag EXCEPT ![p] = "FREE"] => Accounted'
      /\ nr_objs[p] = 1 => \A i \in 1 .. Cap : <<p, i>> \notin live'
      /\ \A q \in Page : q # p => slabp'[q] = slabp[q]
  BY <1>1, FreedObject
<1>3. UNCHANGED <<virtual, used, cpu, call>>
  BY <1>1, FreeCases
<1>4. /\ TypeOK /\ LinkedOnce /\ CachesApart
      /\ partial \in [Cache -> Seq(Page)] /\ full \in [Cache -> Seq(Page)]
      /\ \A c \in Cache : IsInjective(partial[c]) /\ IsInjective(full[c])
  BY Parts DEF TypeOK, LinkedOnce
<1>5. /\ Unlinked(partial, p) \in [Cache -> Seq(Page)] /\ Unlinked(full, p) \in [Cache -> Seq(Page)]
      /\ \A c \in Cache : /\ IsInjective(Unlinked(partial, p)[c])
                          /\ Range(Unlinked(partial, p)[c]) = Range(partial[c]) \ {p}
                          /\ IsInjective(Unlinked(full, p)[c])
                          /\ Range(Unlinked(full, p)[c]) = Range(full[c]) \ {p}
  BY <1>4, UnlinkedProperties
<1>6. CASE /\ UNCHANGED <<flag, node, partial, full>>
           /\ \/ fault' = "poison"
              \/ UNCHANGED fault /\ (node[p] = "self" \/ ~is_full(p))
  <2>1. TypeOK'
    BY <1>2, <1>3, <1>4, <1>6 DEF TypeOK
  <2>2. LinkedOnce' /\ CachesApart' /\ CurrentIsKept' /\ SelfUntilFull'
    BY <1>2, <1>3, <1>6, ListsStay
  <2>3. LiveNotFree' /\ Accounted'
    BY <1>2, <1>6, Parts DEF LiveNotFree
  <2>4. CASE fault' = "poison"
    BY <2>1, <2>2, <2>3, <2>4 DEF SlabIInv, SlabInv, FreedIsReachable
  <2>5. CASE UNCHANGED fault /\ (node[p] = "self" \/ ~is_full(p))
    <3>1. slabp[p] # <<>> \/ used[p] # Cap
      BY <1>2, <2>5, Parts DEF SelfUntilFull, was_full, is_full
    <3>2. FreedIsReachable'
      BY <1>2, <1>3, <1>6, <3>1, ReachableStay
    <3> QED BY <2>1, <2>2, <2>3, <3>2 DEF SlabIInv, SlabInv
  <2> QED BY <1>6, <2>4, <2>5
<1>7. CASE /\ node[p] = "linked" /\ nr_objs[p] = 1 /\ UNCHANGED node
           /\ fault' = IF cpu[virtual[p]] = p THEN "current" ELSE "none"
           /\ flag' = [flag EXCEPT ![p] = "FREE"]
           /\ partial' = Unlinked(partial, p) /\ full' = Unlinked(full, p)
  <2>1. flag'[p] = "FREE" /\ \A q \in Page : q # p => flag'[q] = flag[q]
    BY <1>4, <1>7 DEF TypeOK
  <2>2. TypeOK'
    BY <1>2, <1>3, <1>4, <1>5, <1>7 DEF TypeOK
  <2>3. ASSUME NEW c \in Cache
        PROVE  /\ IsInjective(partial'[c]) /\ IsInjective(full'[c])
               /\ Range(partial'[c]) \ {p} = Range(partial[c]) \ {p}
               /\ Range(full'[c]) \ {p} = Range(full[c]) \ {p}
               /\ p \notin Range(partial'[c]) /\ p \notin Range(full'[c]) /\ p \notin Listed(c)'
    BY <1>5, <1>7 DEF Listed
  <2>4. LinkedOnce' /\ \A c \in Cache, q \in Page : q \in Listed(c)' => virtual'[q] = c
    <3>1. ~\E c \in Cache : p \in Listed(c)'
      BY <2>3
    <3>2. flag'[p] # "SLAB"
      BY <2>1
    <3> QED BY <1>3, <1>7, <2>1, <2>3, <3>1, <3>2, OnePageMoves
  <2>5. fault' # "current" => \A c \in Cache : cpu[c] # p
    BY <1>2, <1>4, <1>7 DEF CachesApart
  <2>6. CachesApart' /\ CurrentIsKept'
    <3>1. CurrentIsKept'
      <4>1. SUFFICES ASSUME fault' # "current", NEW c \in Cache, cpu'[c] # Null
                     PROVE  flag'[cpu'[c]] = "SLAB"
        BY DEF CurrentIsKept
      <4>2. fault # "current" /\ cpu'[c] = cpu[c] /\ cpu[c] # Null
        BY <1>2, <1>3, <4>1
      <4>3. cpu[c] \in Page /\ flag[cpu[c]] = "SLAB"
        BY <4>2, CurrentPage
      <4> QED BY <2>1, <2>5, <4>1, <4>2, <4>3
    <3>2. \A q \in Page : flag'[q] = "SLAB" => flag[q] = "SLAB"
      BY <1>2, <2>1
    <3> QED BY <1>3, <1>4, <2>4, <3>1, <3>2 DEF CachesApart
  <2>7. LiveNotFree'
    <3>1. ASSUME NEW x \in live'  PROVE flag'[x[1]] = "SLAB"
      <4>1. PICK a \in Page, i \in 1 .. Cap : x = <<a, i>>
        BY <1>2 DEF Object
      <4>2. a # p
        BY <1>2, <1>7, <4>1
      <4>3. x \in live /\ x[1] = a
        BY <1>2, <4>1
      <4>4. flag[a] = "SLAB"
        BY <4>3, Parts DEF LiveNotFree
      <4> QED BY <2>1, <4>2, <4>3, <4>4
    <3> QED BY <3>1 DEF LiveNotFree
  <2>8. SelfUntilFull'
    BY <1>3, <1>7, <2>1, Parts DEF SelfUntilFull, was_full
  <2>9. Accounted'
    BY <1>2, <1>7
  <2>10. FreedIsReachable'
    <3>1. ASSUME NEW q \in Page, flag'[q] = "SLAB", slabp'[q] # <<>> \/ used[q] # Cap
          PROVE  cpu[virtual[q]] = q \/ q \in Range(partial'[virtual[q]])
      <4>1. q # p /\ flag[q] = "SLAB" /\ virtual[q] \in Cache /\ slabp'[q] = slabp[q]
        BY <1>2, <1>4, <2>1, <3>1 DEF CachesApart
      <4>2. cpu[virtual[q]] = q \/ q \in Range(partial[virtual[q]])
        BY <1>2, <3>1, <4>1, Parts DEF FreedIsReachable, was_full
      <4> QED BY <1>5, <1>7, <4>1, <4>2
    <3> QED BY <1>3, <3>1 DEF FreedIsReachable, was_full
  <2> QED BY <2>2, <2>4, <2>6, <2>7, <2>8, <2>9, <2>10 DEF SlabIInv, SlabInv
<1>8. CASE /\ node[p] = "linked" /\ UNCHANGED <<flag, fault, node>>
           /\ partial' = [Unlinked(partial, p) EXCEPT ![virtual[p]] = Append(@, p)]
           /\ full' = Unlinked(full, p)
  <2> DEFINE v == virtual[p]
             u == Unlinked(partial, p)
  <2>1. /\ Append(u[v], p) \in Seq(Page) /\ IsInjective(Append(u[v], p))
        /\ Range(Append(u[v], p)) = Range(u[v]) \cup {p}
    <3>1. u[v] \in Seq(Page) /\ IsInjective(u[v]) /\ p \notin Range(u[v])
      BY <1>2, <1>5
    <3> HIDE DEF u, v
    <3> QED BY <3>1, AppendRange
  <2>2. /\ partial' \in [Cache -> Seq(Page)]
        /\ partial'[v] = Append(u[v], p) /\ \A c \in Cache : c # v => partial'[c] = u[c]
    BY <1>2, <1>5, <1>8, <2>1
  <2> HIDE DEF u
  <2>3. TypeOK'
    BY <1>2, <1>3, <1>4, <1>5, <1>8, <2>2 DEF TypeOK
  <2>4. ASSUME NEW c \in Cache
        PROVE  /\ IsInjective(partial'[c]) /\ IsInjective(full'[c])
               /\ Range(partial'[c]) = (Range(partial[c]) \ {p}) \cup (IF c = v THEN {p} ELSE {})
               /\ Range(full'[c]) = Range(full[c]) \ {p}
    BY <1>5, <1>8, <2>1, <2>2 DEF u
  <2>5. LinkedOnce' /\ \A c \in Cache, q \in Page : q \in Listed(c)' => virtual'[q] = c
    <3>1. ASSUME NEW c \in Cache
          PROVE  /\ Range(partial'[c]) \ {p} = Range(partial[c]) \ {p}
                 /\ Range(full'[c]) \ {p} = Range(full[c]) \ {p}
                 /\ p \notin Range(partial'[c]) \cap Range(full'[c])
                 /\ p \in Listed(c)' <=> c = v
      BY <2>4 DEF Listed
    <3>2. \E c \in Cache : p \in Listed(c)'
      BY <1>2, <3>1
    <3>3. flag'[p] = "SLAB" /\ node'[p] = "linked"
      BY <1>2, <1>8
    <3> QED BY <1>3, <1>8, <2>4, <3>1, <3>2, <3>3, OnePageMoves
  <2>6. CachesApart' /\ CurrentIsKept' /\ LiveNotFree' /\ SelfUntilFull'
    <3>1. CachesApart'
      BY <1>3, <1>4, <1>8, <2>5 DEF CachesApart
    <3>2. CurrentIsKept' /\ LiveNotFree' /\ SelfUntilFull'
      BY <1>2, <1>3, <1>8, Parts DEF CurrentIsKept, LiveNotFree, SelfUntilFull, was_full
    <3> QED BY <3>1, <3>2
  <2>7. Accounted'
    BY <1>2, <1>8
  <2>8. FreedIsReachable'
    <3>1. ASSUME NEW q \in Page, flag[q] = "SLAB", slabp'[q] # <<>> \/ used[q] # Cap
          PROVE  cpu[virtual[q]] = q \/ q \in Range(partial'[virtual[q]])
      <4>1. CASE q = p
        BY <1>2, <2>4, <4>1
      <4>2. CASE q # p
        <5>1. /\ slabp'[q] = slabp[q] /\ virtual[q] \in Cache
              /\ cpu[virtual[q]] = q \/ q \in Range(partial[virtual[q]])
          BY <1>2, <1>4, <3>1, <4>2, Parts DEF FreedIsReachable, was_full, CachesApart
        <5> QED BY <2>4, <4>2, <5>1
      <4> QED BY <4>1, <4>2
    <3> QED BY <1>3, <1>8, <3>1 DEF FreedIsReachable, was_full
  <2> QED BY <2>3, <2>5, <2>6, <2>7, <2>8 DEF SlabIInv, SlabInv
<1> QED BY <1>1, <1>6, <1>7, <1>8, FreeCases

--------------------------------------------------------------------------------
(* Theorems *)

\* Through any sequence of calls, up to a kfree that gives back a current page, pages, nodes and lists agree and no
\* object is lost or handed out twice (myslab.c).
THEOREM SlabInvariant ==
    Spec => []SlabIInv
<1>1. Init => SlabIInv
  BY InitInv
<1>2. SlabIInv /\ [Next]_vars => SlabIInv'
  <2>1. CASE Next
    BY <2>1, AllocStep, FromFreeListStep, PageNotFullStep, NewPageStep, NoPageStep,
       TakePartialStep, FreeStep DEF Next
  <2>2. ASSUME SlabIInv, UNCHANGED vars  PROVE SlabIInv'
    <3>1. UNCHANGED <<flag, virtual, used, nr_objs, slabp, node, partial, full, cpu, live, call, fault>>
      BY <2>2 DEF vars, pageVars, cacheVars
    <3>2. TypeOK'
      BY <2>2, <3>1, Parts DEF TypeOK
    <3>3. LiveNotFree'
      BY <2>2, <3>1, Parts DEF LiveNotFree
    <3>4. Accounted'
      <4>1. \A p : Held(p)' = Held(p)
        BY <3>1 DEF Held
      <4> QED BY <2>2, <3>1, <4>1, Parts DEF Accounted
    <3>5. FreedIsReachable'
      BY <2>2, <3>1, Parts DEF FreedIsReachable, was_full
    <3> QED BY <2>2, <3>1, <3>2, <3>3, <3>4, <3>5, ListsStay DEF SlabIInv, SlabInv
  <2> QED BY <2>1, <2>2
<1> QED BY <1>1, <1>2, PTL DEF Spec

\* The lists of pages are linked as the nodes say, of their own cache, and no page with live
\* objects is free, nor a current page before kfree has given one back (myslab.c:105, 187).
THEOREM ListsCorrect ==
    Spec => []SlabInv
<1>1. SlabIInv => SlabInv
  BY DEF SlabIInv
<1> QED BY <1>1, SlabInvariant, PTL

\* No object is handed out twice and none is lost (myslab.c:68, 165).
THEOREM ObjectsCorrect ==
    Spec => []Accounted
<1>1. SlabIInv => Accounted
  BY DEF SlabIInv
<1> QED BY <1>1, SlabInvariant, PTL

\* Freed memory comes back (myslab.c:190).
THEOREM FreedCorrect ==
    Spec => []FreedIsReachable
<1>1. SlabIInv => FreedIsReachable
  BY DEF SlabIInv
<1> QED BY <1>1, SlabInvariant, PTL

--------------------------------------------------------------------------------
(* The sizes of kmalloc *)

\* The sizes of objects, in the order of the caches, and what a page holds of each.
LEMMA ObjectSizes ==
    /\ \A i \in CacheIndex : objsize(i) \in Nat /\ 8 <= objsize(i) /\ objsize(i) <= 2048
    /\ objsize(PAGE_SHIFT) = 2048 /\ PAGE_SIZE = 4096
    /\ \A i \in CacheIndex : slot(i) \in 12 .. 2052
<1>1. /\ objsize(1) = 96 /\ objsize(2) = 192 /\ objsize(3) = 8 /\ objsize(4) = 16
      /\ objsize(5) = 32 /\ objsize(6) = 64 /\ objsize(7) = 128 /\ objsize(8) = 256
      /\ objsize(9) = 512 /\ objsize(10) = 1024 /\ objsize(11) = 1536 /\ objsize(12) = 2048
  BY DEF objsize, size_kmem_cache, UPPER_ALLIGN, SIZE_INT
<1>2. CacheIndex = {1, 2, 3, 4, 5, 6, 7, 8, 9, 10, 11, 12}
  BY DEF CacheIndex, PAGE_SHIFT
<1>3. \A i \in CacheIndex : objsize(i) \in Nat /\ 8 <= objsize(i) /\ objsize(i) <= 2048
  BY <1>1, <1>2
<1>4. \A i \in CacheIndex : slot(i) \in 12 .. 2052
  BY <1>3 DEF slot, POINTER
<1>5. PAGE_SIZE = 4096
  BY ShiftAssumption DEF PAGE_SIZE
<1> QED BY <1>1, <1>3, <1>4, <1>5 DEF PAGE_SHIFT

\* One turn of the loop of get_slab, and the choices after each of m turns.
Better(i, n, bf) == IF Fits(i, n, bf) THEN [num |-> objsize(i), index |-> i] ELSE bf
AreChoices(f, m, n) ==
    f = [i \in 0 .. m |-> IF i = 0 THEN [num |-> 2^(PAGE_SHIFT - 1), index |-> NoCache]
                          ELSE Better(i, n, f[i - 1])]

\* The recursive function of get_slab is one.
LEMMA ChoicesExist ==
    ASSUME NEW m \in Nat, NEW n
    PROVE  \E f : AreChoices(f, m, n)
<1> DEFINE T == { k \in Nat : ~ \E f : AreChoices(f, k, n) }
           start == [num |-> 2^(PAGE_SHIFT - 1), index |-> NoCache]
<1>1. T = {}
  <2> SUFFICES ASSUME T # {} PROVE FALSE
    OBVIOUS
  <2>1. PICK k \in T : \A l \in T : k <= l
    <3> HIDE DEF T
    <3>1. T \in SUBSET Nat
      BY DEF T
    <3> QED BY <3>1, LeastNat
  <2>2. CASE k = 0
    <3>1. AreChoices([i \in 0 .. 0 |-> start], 0, n)
      BY DEF AreChoices
    <3> QED BY <2>1, <2>2, <3>1
  <2>3. CASE k # 0
    <3>1. k - 1 \in Nat /\ k - 1 \notin T /\ k \in Nat
      <4>1. k \in Nat
        BY <2>1
      <4> QED BY <2>1, <2>3, <4>1
    <3>2. PICK f : AreChoices(f, k - 1, n)
      BY <3>1
    <3> DEFINE e(i) == IF i = 0 THEN start ELSE Better(i, n, f[i - 1])
               g == [i \in 0 .. k |-> e(i)]
    <3>3. \A i \in 0 .. k : g[i] = e(i)
      OBVIOUS
    <3>4. \A i \in 0 .. k - 1 : f[i] = e(i) /\ i \in 0 .. k
      <4> HIDE DEF g, T
      <4>1. \A i \in 0 .. k - 1 : i \in 0 .. k
        BY <3>1
      <4>2. \A i \in 0 .. k - 1 : f[i] = e(i)
        BY <3>2 DEF AreChoices
      <4> QED BY <4>1, <4>2
    <3>5. \A i \in 0 .. k : i # 0 => g[i - 1] = f[i - 1]
      <4> HIDE DEF g, e
      <4> QED BY <3>1, <3>3, <3>4
    <3>6. \A i \in 0 .. k : e(i) = IF i = 0 THEN start ELSE Better(i, n, g[i - 1])
      <4> HIDE DEF g
      <4> QED BY <3>5
    <3>7. AreChoices(g, k, n)
      BY <3>6 DEF AreChoices
    <3> QED BY <2>1, <3>7
  <2> QED BY <2>2, <2>3
<1> QED BY <1>1

\* What is chosen after k turns: the smallest cache that fits and is smaller than half a page.
Chosen(bf, n, k) ==
    /\ bf.num \in Nat /\ bf.num <= 2048
    /\ \A j \in 1 .. k : objsize(j) >= n => bf.num <= objsize(j)
    /\ bf.index = NoCache \/ (bf.index \in CacheIndex /\ bf.num = objsize(bf.index) /\ n <= bf.num)

LEMMA TurnChooses ==
    ASSUME NEW n \in Nat, NEW k \in 1 .. PAGE_SHIFT, NEW bf, Chosen(bf, n, k - 1)
    PROVE  Chosen(Better(k, n, bf), n, k)
<1>1. k \in CacheIndex /\ objsize(k) \in Nat /\ objsize(k) <= 2048 /\ k \in Nat
      /\ \A j \in 1 .. k : objsize(j) \in Nat /\ (j = k \/ j \in 1 .. k - 1)
  <2>1. k \in CacheIndex /\ k \in Nat /\ \A j \in 1 .. k : j \in CacheIndex /\ (j = k \/ j \in 1 .. k - 1)
    BY DEF CacheIndex, PAGE_SHIFT
  <2> QED BY <2>1, ObjectSizes
<1>2. PICK new : new = [num |-> objsize(k), index |-> k]
  OBVIOUS
<1>3. new.num = objsize(k) /\ new.index = k
  BY <1>2
<1>4. CASE Fits(k, n, bf)
  <2>1. Better(k, n, bf) = new
    BY <1>2, <1>4 DEF Better
  <2>2. n <= objsize(k) /\ objsize(k) < bf.num
    BY <1>1, <1>4 DEF Fits
  <2>3. \A j \in 1 .. k : objsize(j) >= n => new.num <= objsize(j)
    BY <1>1, <1>3, <2>2 DEF Chosen
  <2> QED BY <1>1, <1>3, <2>1, <2>2, <2>3 DEF Chosen
<1>5. CASE ~Fits(k, n, bf)
  <2>1. Better(k, n, bf) = bf
    BY <1>5 DEF Better
  <2>2. objsize(k) >= n => bf.num <= objsize(k)
    BY <1>1, <1>5 DEF Fits, Chosen
  <2> QED BY <1>1, <2>1, <2>2 DEF Chosen
<1> QED BY <1>4, <1>5

\* get_slab chooses it.
LEMMA GetSlabIs ==
    ASSUME NEW n \in Nat
    PROVE  \E bf : bf.index = get_slab(n) /\ Chosen(bf, n, PAGE_SHIFT)
<1> DEFINE f == CHOOSE g : AreChoices(g, PAGE_SHIFT, n)
<1>1. AreChoices(f, PAGE_SHIFT, n) /\ PAGE_SHIFT \in Nat
  <2>1. PAGE_SHIFT \in Nat
    BY DEF PAGE_SHIFT
  <2> QED BY <2>1, ChoicesExist
<1>2. get_slab(n) = f[PAGE_SHIFT].index
  BY DEF get_slab, AreChoices, Better
<1> HIDE DEF f
<1>3. PICK start : start = [num |-> 2^(PAGE_SHIFT - 1), index |-> NoCache]
  OBVIOUS
<1>4. \A i \in 0 .. PAGE_SHIFT : f[i] = IF i = 0 THEN start ELSE Better(i, n, f[i - 1])
  BY <1>1, <1>3 DEF AreChoices
<1>5. Chosen(start, n, 0)
  <2>1. start.num = 2048 /\ start.index = NoCache
    BY <1>3, ShiftAssumption
  <2> QED BY <2>1 DEF Chosen
<1> DEFINE T == { k \in Nat : k <= PAGE_SHIFT /\ ~Chosen(f[k], n, k) }
<1>6. T = {}
  <2> SUFFICES ASSUME T # {} PROVE FALSE
    OBVIOUS
  <2>1. PICK k \in T : \A l \in T : k <= l
    <3> HIDE DEF T
    <3>1. T \in SUBSET Nat
      BY DEF T
    <3> QED BY <3>1, LeastNat
  <2>2. k \in Nat /\ k \in 0 .. PAGE_SHIFT /\ ~Chosen(f[k], n, k)
    BY <1>1
  <2>3. k # 0
    <3>1. 0 \in 0 .. PAGE_SHIFT
      BY <1>1
    <3>2. f[0] = start
      BY <1>4, <3>1
    <3> QED BY <1>5, <2>2, <3>2
  <2>4. k - 1 \in Nat /\ k - 1 <= PAGE_SHIFT /\ k - 1 \notin T /\ k \in 1 .. PAGE_SHIFT
    <3> HIDE DEF T
    <3> QED BY <1>1, <2>1, <2>2, <2>3
  <2>5. Chosen(f[k - 1], n, k - 1)
    BY <2>4
  <2>6. f[k] = Better(k, n, f[k - 1])
    BY <1>4, <2>2, <2>3
  <2> QED BY <2>2, <2>4, <2>5, <2>6, TurnChooses
<1>7. Chosen(f[PAGE_SHIFT], n, PAGE_SHIFT)
  BY <1>1, <1>6
<1> QED BY <1>2, <1>7

\* The page is called full in time.
LEMMA CapacityIs ==
    ASSUME NEW i \in CacheIndex
    PROVE  EndPtr(Capacity(i), i) <= PAGE_SIZE
<1>1. PICK s \in 12 .. 2052 : s = slot(i)
  BY ObjectSizes
<1>2. PAGE_SIZE = 4096 /\ s \in Nat
  BY <1>1, ObjectSizes, SMTT(30)
<1>3. \A n \in Nat : IsFull(EndPtr(n, i), i) <=> 12 + n * s + s >= 4096
  BY <1>1, <1>2 DEF IsFull, EndPtr, HEAD
<1> DEFINE T == { n \in Nat : n \in 1 .. PAGE_SIZE /\ IsFull(EndPtr(n, i), i) }
<1>4. 4096 \in T
  <2>1. 4096 * s >= 4096
    <3> HIDE DEF T
    <3>1. s \in Nat /\ s >= 1
      BY <1>1
    <3> QED BY <3>1
  <2> QED BY <1>2, <1>3, <2>1
<1>5. PICK n \in T : \A m \in T : n <= m
  <2> HIDE DEF T
  <2>1. T \in SUBSET Nat
    BY DEF T
  <2> QED BY <1>4, <2>1, LeastNat
<1>6. n \in 1 .. PAGE_SIZE /\ IsFull(EndPtr(n, i), i) /\ \A m \in 1 .. n - 1 : ~IsFull(EndPtr(m, i), i)
  <2>1. n \in Nat /\ n \in 1 .. PAGE_SIZE /\ IsFull(EndPtr(n, i), i)
    OBVIOUS
  <2>2. ASSUME NEW m \in 1 .. n - 1
        PROVE  ~IsFull(EndPtr(m, i), i)
    <3>1. m \in Nat /\ m \in 1 .. PAGE_SIZE /\ m < n
      BY <1>2, <2>1
    <3> QED BY <1>5, <2>1, <3>1
  <2> QED BY <2>1, <2>2
<1> HIDE DEF T
<1>7. PICK c : c = Capacity(i)
  OBVIOUS
<1>8. c \in 1 .. PAGE_SIZE /\ IsFull(EndPtr(c, i), i) /\ \A m \in 1 .. c - 1 : ~IsFull(EndPtr(m, i), i)
  BY <1>6, <1>7 DEF Capacity
<1>9. c \in Nat /\ 1 <= c
  BY <1>2, <1>8
<1>10. CASE c = 1
  <2>1. EndPtr(c, i) = 12 + c * s
    BY <1>1 DEF EndPtr, HEAD
  <2>2. c * s = s /\ s \in Nat /\ s <= 2052
    BY <1>1, <1>2, <1>10, SMTT(30)
  <2> QED BY <1>2, <1>7, <2>1, <2>2
<1>11. CASE c # 1
  <2>1. PICK d \in Nat : d = c - 1 /\ d \in 1 .. c - 1
    BY <1>9, <1>11
  <2>2. 12 + d * s + s < 4096
    <3>1. d * s \in Nat
      BY <1>2
    <3> QED BY <1>2, <1>3, <1>8, <2>1, <3>1
  <2>3. c * s = d * s + s
    <3>1. c = d + 1
      BY <1>9, <2>1
    <3> QED BY <1>2, <3>1
  <2>4. EndPtr(c, i) = 12 + c * s
    BY <1>1 DEF EndPtr, HEAD
  <2> QED BY <1>2, <1>7, <2>2, <2>3, <2>4
<1> QED BY <1>10, <1>11

\* A block is large enough and not twice as large.
Power(x) == 2^x

LEMMA Powers ==
    /\ \A x \in 0 .. 20 : Power(x) \in Nat
    /\ nrPage(MaxSize) < Power(20)
<1>1. \A x \in 0 .. 20 : Power(x) \in Nat
  <2>1. \A x \in 0 .. 20 : 2^x \in Nat
    BY OrderAssumption, Zenon
  <2>2. TAKE x \in 0 .. 20
  <2>3. 2^x \in Nat
    BY <2>1, Zenon
  <2> QED BY <2>3, Zenon DEF Power
<1>2. nrPage(MaxSize) < Power(20)
  BY KmallocAssumption, Zenon DEF Power
<1> QED BY <1>1, <1>2

LEMMA OrderIs ==
    ASSUME NEW n \in 1 .. MaxSize
    PROVE  /\ Power(order(n)) * PAGE_SIZE >= n
           /\ order(n) > 0 => Power(order(n) - 1) * PAGE_SIZE < n
<1>1. PAGE_SIZE = 4096 /\ MaxSize \in Nat /\ n \in Nat /\ n <= MaxSize
  BY ObjectSizes, KmallocAssumption
<1>2. \A m \in Nat : nrPage(m) = (((m + 4095) \div 4096) * 4096) \div 4096
  BY <1>1 DEF nrPage, UPPER_ALLIGN
<1>3. PICK r : r = nrPage(n)
  OBVIOUS
<1>4. r \in Nat /\ r * 4096 >= n /\ (r - 1) * 4096 < n /\ r <= nrPage(MaxSize)
  BY <1>1, <1>2, <1>3
<1>5. Power(20) \in Nat /\ r < Power(20)
  BY <1>1, <1>2, <1>4, Powers
<1> DEFINE T == { o \in Nat : o \in 0 .. 20 /\ Power(o) >= r }
<1>6. PICK o \in T : \A q \in T : o <= q
  <2>1. 20 \in T
    BY <1>4, <1>5
  <2> HIDE DEF T
  <2>2. T \in SUBSET Nat
    BY DEF T
  <2> QED BY <2>1, <2>2, LeastNat
<1>7. o \in 0 .. 20 /\ Power(o) >= r /\ \A q \in 0 .. o - 1 : Power(q) < r
  <2>1. o \in Nat /\ o \in 0 .. 20 /\ Power(o) >= r
    OBVIOUS
  <2>2. ASSUME NEW q \in 0 .. o - 1
        PROVE  Power(q) < r
    <3>1. q \in Nat /\ q \in 0 .. 20 /\ q < o
      BY <2>1
    <3>2. q \notin T /\ Power(q) \in Nat
      BY <1>6, <2>1, <3>1, Powers
    <3> QED BY <1>4, <3>1, <3>2
  <2> QED BY <2>1, <2>2
<1> HIDE DEF T
<1>8. PICK p : p = order(n)
  OBVIOUS
<1>9. p \in 0 .. 20 /\ Power(p) >= r /\ \A q \in 0 .. p - 1 : Power(q) < r
  <2>1. order(n) = CHOOSE x \in 0 .. 20 : Power(x) >= r /\ \A q \in 0 .. x - 1 : Power(q) < r
    BY <1>3, Zenon DEF order, Power
  <2> QED BY <1>7, <1>8, <2>1
<1>10. PICK a \in Nat : a = Power(p)
  BY <1>9, Powers
<1>11. a * 4096 >= n
  BY <1>1, <1>4, <1>9, <1>10
<1>12. ASSUME p > 0
       PROVE  Power(p - 1) * 4096 < n
  <2>1. p - 1 \in 0 .. p - 1 /\ p - 1 \in 0 .. 20
    BY <1>9, <1>12
  <2>2. PICK b \in Nat : b = Power(p - 1) /\ b < r
    BY <1>9, <2>1, Powers
  <2>3. b * 4096 < n
    BY <1>1, <1>4, <2>2
  <2> QED BY <2>2, <2>3
<1> QED BY <1>1, <1>8, <1>10, <1>11, <1>12

LEMMA SizeInvariant == SizeSpec => [](size \in 1 .. MaxSize)
<1>1. SizeInit => size \in 1 .. MaxSize
  BY KmallocAssumption DEF SizeInit
<1>2. size \in 1 .. MaxSize /\ [SizeNext]_size => (size \in 1 .. MaxSize)'
  BY KmallocAssumption DEF SizeNext
<1> QED BY <1>1, <1>2, PTL DEF SizeSpec

\* For each size the cache is the smallest that fits, though they are not sorted (myslab.c:225).
THEOREM BestFitCorrect == SizeSpec => []BestFit
<1>1. size \in 1 .. MaxSize => BestFit
  <2> SUFFICES ASSUME size \in 1 .. MaxSize PROVE BestFit
    OBVIOUS
  <2>1. PICK n \in Nat : n = size
    BY KmallocAssumption
  <2>2. PICK bf : bf.index = get_slab(n) /\ Chosen(bf, n, PAGE_SHIFT)
    BY GetSlabIs
  <2>3. CacheIndex = 1 .. PAGE_SHIFT
    BY DEF CacheIndex
  <2> QED BY <2>1, <2>2, <2>3, ObjectSizes DEF BestFit, Chosen
<1> QED BY <1>1, SizeInvariant, PTL

\* Objects do not run over the end of their page, and a block holds what was asked for
\* (myslab.c:103, mybuddy.c:194).
THEOREM EnoughCorrect == SizeSpec => []GivesEnough
<1>1. size \in 1 .. MaxSize => GivesEnough
  <2> SUFFICES ASSUME size \in 1 .. MaxSize PROVE GivesEnough
    OBVIOUS
  <2>1. PICK n \in 1 .. MaxSize : n = size
    OBVIOUS
  <2>2. PICK bf : bf.index = get_slab(n) /\ Chosen(bf, n, PAGE_SHIFT)
    <3>1. n \in Nat
      BY KmallocAssumption
    <3> QED BY <3>1, GetSlabIs
  <2>3. ObjectsInPage
    BY <2>1, <2>2, CapacityIs DEF ObjectsInPage, Chosen
  <2>4. BlockFits
    <3>1. /\ Power(order(n)) * PAGE_SIZE >= n
          /\ order(n) > 0 => Power(order(n) - 1) * PAGE_SIZE < n
      BY OrderIs
    <3> QED BY <2>1, <3>1, Zenon DEF BlockFits, Power
  <2> QED BY <2>3, <2>4 DEF GivesEnough
<1> QED BY <1>1, SizeInvariant, PTL

--------------------------------------------------------------------------------
(* The invariant of the areas *)

\* The element of s at i, or None.
Nth(s, i) == IF i \in 1 .. Len(s) THEN s[i] ELSE None

\* s is the list that starts at mmap.
Linked(s) ==
    /\ s \in Seq(Vma) /\ IsInjective(s)
    /\ mm.mmap = Nth(s, 1)
    /\ \A i \in 1 .. Len(s) : vma[s[i]].vm_next = Nth(s, i + 1)

\* An area of whole pages in user space.
IsArea(v) ==
    /\ vma[v].vm_start < vma[v].vm_end /\ vma[v].vm_end <= KERNEL_ENTRY
    /\ vma[v].vm_start % PageBytes = 0 /\ vma[v].vm_end % PageBytes = 0

Sorted(s) ==
    /\ \A i \in 1 .. Len(s) : IsArea(s[i])
    /\ \A i, j \in 1 .. Len(s) : i < j => vma[s[i]].vm_end <= vma[s[j]].vm_start

\* Where a freed area was, which mmap_cache still names: it is the next that kmalloc gives.
WasAt(v, s, p) ==
    /\ \A i \in 1 .. Len(s) : i < p => vma[s[i]].vm_end <= vma[v].vm_start
    /\ vma[v].vm_next = Nth(s, p)

Remembered(s) ==
    \/ mm.mmap_cache = None
    \/ mm.mmap_cache \in Range(s)
    \/ /\ unused # <<>> /\ mm.mmap_cache = Head(unused) /\ IsArea(mm.mmap_cache)
       /\ \E p \in 1 .. Len(s) + 1 : WasAt(mm.mmap_cache, s, p)

\* What is true of the list of areas when s is that list.
AreasAre(s) ==
    /\ Linked(s) /\ Sorted(s) /\ Remembered(s)
    /\ Range(s) \cap Range(unused) = {}
    /\ mm.map_count = Len(s)

AreasInv ==
    /\ IsInjective(unused)
    /\ mm # None => \E s \in Seq(Vma) : AreasAre(s)

--------------------------------------------------------------------------------
(* The list of areas *)

MmTypes ==
    /\ lent \subseteq Pages!Block /\ table \in [Frame -> [Entry -> Frame \cup {None}]]
    /\ vma \in [Vma -> Area] /\ unused \in Seq(Vma) /\ loaded \in Nat
    /\ mm \in MmRecord \cup {None} /\ op \in Loading \cup Deletion \cup {None}

LEMMA VmaCount == IsFiniteSet(Vma) /\ Cardinality(Vma) \in Nat
BY MmAssumption, FS_CardinalityType

\* f is the first m areas from first on, as the vm_next of next lead to them.
IsNth(f, m, first, next) ==
    f = [n \in 1 .. m |-> IF n = 1 THEN first
                          ELSE IF f[n - 1] = None THEN None ELSE next[f[n - 1]].vm_next]

\* A function that is defined by recursion over 1 .. m exists.
LEMMA NthExists ==
    ASSUME NEW m \in Nat, NEW first, NEW next
    PROVE  \E f : IsNth(f, m, first, next)
<1> DEFINE Is(k, f) == IsNth(f, k, first, next)
           T == { k \in Nat : ~ \E f : Is(k, f) }
<1>1. T = {}
  <2> SUFFICES ASSUME T # {} PROVE FALSE
    OBVIOUS
  <2>1. PICK k \in T : \A l \in T : k <= l
    <3> HIDE DEF T
    <3>1. T \in SUBSET Nat
      BY DEF T
    <3> QED BY <3>1, LeastNat
  <2>2. CASE k = 0
    <3>1. Is(0, [n \in 1 .. 0 |-> None])
      BY DEF IsNth
    <3> QED BY <2>1, <2>2, <3>1
  <2>3. CASE k # 0
    <3>1. k - 1 \in Nat /\ k - 1 \notin T /\ k \in Nat
      <4> HIDE DEF Is
      <4>1. k \in Nat
        BY <2>1
      <4> QED BY <2>1, <2>3, <4>1
    <3>2. PICK f : Is(k - 1, f)
      BY <3>1
    <3> DEFINE e(n) == IF n = 1 THEN first ELSE IF f[n - 1] = None THEN None ELSE next[f[n - 1]].vm_next
               g == [n \in 1 .. k |-> e(n)]
    <3>3. \A n \in 1 .. k : g[n] = e(n)
      OBVIOUS
    <3>4. \A n \in 1 .. k - 1 : f[n] = e(n) /\ n \in 1 .. k
      BY <3>1, <3>2 DEF IsNth
    <3>5. \A n \in 1 .. k : n # 1 => g[n - 1] = f[n - 1]
      <4> HIDE DEF g, e
      <4> QED BY <3>1, <3>3, <3>4
    <3>6. \A n \in 1 .. k : e(n) = IF n = 1 THEN first
                                   ELSE IF g[n - 1] = None THEN None ELSE next[g[n - 1]].vm_next
      <4> HIDE DEF g
      <4> QED BY <3>5
    <3>7. Is(k, g)
      BY <3>6 DEF IsNth
    <3> QED BY <2>1, <3>7
  <2> QED BY <2>2, <2>3
<1>2. m \notin T
  BY <1>1
<1> QED BY <1>2

\* A sequence without repetitions is no longer than there are areas.
LEMMA ShortList ==
    ASSUME NEW s \in Seq(Vma), IsInjective(s)
    PROVE  Len(s) \in Nat /\ Len(s) <= Cardinality(Vma)
<1>1. DOMAIN s = 1 .. Len(s) /\ Len(s) \in Nat /\ s \in [1 .. Len(s) -> Vma]
  BY LenProperties
<1>2. s \in Injection(1 .. Len(s), Vma)
  BY <1>1 DEF Injection, IsInjective
<1>3. Cardinality(1 .. Len(s)) <= Cardinality(Vma)
  BY <1>2, VmaCount, FS_Injection
<1>4. Cardinality(1 .. Len(s)) = Len(s)
  BY <1>1, FS_Interval
<1> QED BY <1>1, <1>3, <1>4

\* The list is the sequence of areas that follow one another from mmap on.
LEMMA ListIs ==
    ASSUME NEW s, Linked(s)
    PROVE  List = s
<1> DEFINE K == Cardinality(Vma)
           nth == CHOOSE f : IsNth(f, K, mm.mmap, vma)
<1>1. K \in Nat /\ Len(s) \in Nat /\ Len(s) <= K /\ s \in Seq(Vma)
  BY VmaCount, ShortList DEF Linked
<1>2. IsNth(nth, K, mm.mmap, vma)
  <2>1. \E f : IsNth(f, K, mm.mmap, vma)
    BY VmaCount, NthExists
  <2> QED BY <2>1
<1>3. List = [i \in 1 .. Cardinality({ n \in 1 .. K : nth[n] # None }) |-> nth[i]]
  BY DEF List, IsNth
<1> HIDE DEF nth, K
<1>4. \A n \in 1 .. K : nth[n] = IF n = 1 THEN mm.mmap
                                 ELSE IF nth[n - 1] = None THEN None ELSE vma[nth[n - 1]].vm_next
  BY <1>2 DEF IsNth
<1>5. \A i \in 1 .. Len(s) : s[i] \in Vma /\ s[i] # None
  BY <1>1, NoneAssumption
<1>6. \A n \in 1 .. K : nth[n] = Nth(s, n)
  <2> DEFINE T == { n \in 1 .. K : nth[n] # Nth(s, n) }
  <2> SUFFICES ASSUME T # {} PROVE FALSE
    OBVIOUS
  <2>1. PICK n \in T : \A k \in T : n <= k
    <3>1. T \in SUBSET Nat
      OBVIOUS
    <3> HIDE DEF T
    <3> QED BY <3>1, LeastNat
  <2>2. n \in 1 .. K /\ nth[n] # Nth(s, n)
    BY <2>1
  <2>3. CASE n = 1
    BY <1>4, <2>2, <2>3 DEF Linked
  <2>4. CASE n # 1
    <3>1. n - 1 \in 1 .. K /\ n - 1 \notin T
      BY <1>1, <2>1, <2>2, <2>4
    <3>2. nth[n - 1] = Nth(s, n - 1)
      BY <3>1
    <3>3. CASE n - 1 \in 1 .. Len(s)
      <4>1. vma[s[n - 1]].vm_next = Nth(s, (n - 1) + 1) /\ (n - 1) + 1 = n
        BY <2>2, <3>3 DEF Linked
      <4> QED BY <1>4, <1>5, <2>2, <2>4, <3>2, <3>3, <4>1 DEF Nth
    <3>4. CASE n - 1 \notin 1 .. Len(s)
      <4>1. n \notin 1 .. Len(s)
        BY <1>1, <3>1, <3>4
      <4> QED BY <1>4, <2>2, <2>4, <3>2, <3>4, <4>1 DEF Nth
    <3> QED BY <3>3, <3>4
  <2> QED BY <2>3, <2>4
<1>7. { n \in 1 .. K : nth[n] # None } = 1 .. Len(s)
  BY <1>1, <1>5, <1>6 DEF Nth
<1>8. Cardinality(1 .. Len(s)) = Len(s)
  <2>1. PICK l \in Nat : l = Len(s)
    BY <1>1
  <2>2. Cardinality(1 .. l) = l
    BY FS_Interval
  <2> QED BY <2>1, <2>2
<1>9. \A i \in 1 .. Len(s) : nth[i] = s[i]
  BY <1>1, <1>6 DEF Nth
<1>10. s = [i \in 1 .. Len(s) |-> s[i]]
  BY <1>1, LenProperties
<1> QED BY <1>3, <1>7, <1>8, <1>9, <1>10

--------------------------------------------------------------------------------
(* Addresses *)

\* UPPER_ALLIGN gives the lowest multiple of the page size that is not lower.
LEMMA AlignUp ==
    ASSUME NEW n \in Nat, n <= KERNEL_ENTRY, NEW a, a = PageAlign(n)
    PROVE  /\ a \in Nat /\ n <= a /\ a <= KERNEL_ENTRY /\ a % PageBytes = 0
           /\ \A m \in Nat : m % PageBytes = 0 /\ n <= m => a <= m
<1>1. PICK b, K, W \in Nat : b = PageBytes /\ b > 0 /\ K = KERNEL_ENTRY /\ W = Word
  BY AddressAssumption
<1>2. K % b = 0 /\ 2 * K <= W
  BY <1>1, AddressAssumption
<1>3. \A u, v \in Nat : u < v => u * b + b <= v * b
  BY <1>1
<1>4. \A m \in Nat : m % b = 0 => \E q \in Nat : m = q * b
  <2> SUFFICES ASSUME NEW m \in Nat, m % b = 0  PROVE \E q \in Nat : m = q * b
    OBVIOUS
  <2>1. PICK q, r \in Nat : q = m \div b /\ r = m % b /\ m = q * b + r /\ r < b
    BY <1>1, DivMod
  <2>2. PICK z \in Nat : z = q * b
    BY <1>1
  <2>3. r = 0
    BY <2>1
  <2>4. m = z
    BY <2>1, <2>2, <2>3
  <2> QED BY <2>2, <2>4
<1>5. CASE n + b - 1 < W
  <2>1. PICK x \in Nat : x = n + b - 1
    BY <1>1
  <2>2. x % W = x
    BY <1>1, <1>5, <2>1
  <2>3. PICK q, r \in Nat : q = x \div b /\ r = x % b /\ x = q * b + r /\ r < b
    BY <1>1, DivMod
  <2>4. a = q * b
    BY <1>1, <2>1, <2>2, <2>3 DEF PageAlign
  <2>5. a \in Nat /\ a = x - r
    BY <1>1, <2>3, <2>4
  <2>6. ASSUME NEW m \in Nat, m % b = 0, n <= m  PROVE a <= m
    <3>1. PICK p \in Nat : m = p * b
      BY <1>4, <2>6
    <3>2. CASE q <= p
      <4>1. q = p \/ q < p
        BY <3>2
      <4>2. q * b <= p * b
        BY <1>1, <1>3, <4>1
      <4> QED BY <2>4, <3>1, <4>2
    <3>3. CASE p < q
      <4>1. p * b + b <= q * b
        BY <1>3, <3>3
      <4> QED BY <1>1, <2>1, <2>3, <2>4, <2>5, <2>6, <3>1, <4>1
    <3> QED BY <3>2, <3>3
  <2>7. a % b = 0
    <3>1. 0 \in 0 .. b - 1 /\ q * b + 0 = a
      BY <1>1, <2>4, <2>5
    <3>2. (q * b + 0) % b = 0
      BY <1>1, <3>1, PlaceOf
    <3> QED BY <3>1, <3>2
  <2>8. n <= a /\ a <= K
    BY <1>1, <1>2, <2>1, <2>3, <2>5, <2>6
  <2> QED BY <1>1, <2>5, <2>6, <2>7, <2>8
<1>6. n + b - 1 < W
  <2>1. \A m \in Nat : m % b = 0 => m = 0 \/ b <= m
    <3> TAKE m \in Nat
    <3> HAVE m % b = 0
    <3>1. PICK p \in Nat : m = p * b
      BY <1>4
    <3>2. 0 < p => 0 * b + b <= p * b
      BY <1>3
    <3>3. 0 * b = 0 /\ (p = 0 => p * b = 0)
      BY <1>1
    <3> QED BY <1>1, <3>1, <3>2, <3>3
  <2>2. b <= W /\ (K = 0 \/ b <= K)
    BY <1>1, <1>2, <2>1, AddressAssumption
  <2> QED BY <1>1, <1>2, <2>2
<1> QED BY <1>5, <1>6

\* Addresses and lengths of user space do not leave the machine's words.
LEMMA SumInWord ==
    ASSUME NEW a \in Nat, NEW len \in Nat, a <= KERNEL_ENTRY, len < KERNEL_ENTRY
    PROVE  (a + len) % Word = a + len
<1>1. PICK K, W \in Nat : K = KERNEL_ENTRY /\ W = Word /\ W > 0 /\ 2 * K <= W
  BY AddressAssumption
<1>2. a + len < W
  BY <1>1
<1> QED BY <1>1, <1>2

--------------------------------------------------------------------------------
(* Places in the list *)

LEMMA MinIs ==
    ASSUME NEW T \in SUBSET Nat, T # {}
    PROVE  Min(T) \in T /\ \A y \in T : Min(T) <= y
BY LeastNat DEF Min

\* The areas of a list that is linked.
LEMMA LinkedParts ==
    ASSUME MmTypes, NEW s, Linked(s)
    PROVE  /\ Len(s) \in Nat /\ Len(s) <= Cardinality(Vma) /\ DOMAIN s = 1 .. Len(s)
           /\ \A i \in 1 .. Len(s) : s[i] \in Vma /\ s[i] # None /\ s[i] \in Range(s)
                                     /\ vma[s[i]].vm_start \in Nat /\ vma[s[i]].vm_end \in Nat
           /\ \A i, j \in 1 .. Len(s) : s[i] = s[j] => i = j
           /\ \A v \in Range(s) : \E i \in 1 .. Len(s) : v = s[i]
           /\ \A i \in Nat : Nth(s, i) \in Vma \cup {None} /\ (Nth(s, i) = None <=> i \notin 1 .. Len(s))
<1>1. s \in Seq(Vma) /\ DOMAIN s = 1 .. Len(s) /\ Len(s) \in Nat /\ Len(s) <= Cardinality(Vma)
  BY ShortList, LenProperties DEF Linked
<1>2. \A i \in 1 .. Len(s) : s[i] \in Vma /\ s[i] # None /\ s[i] \in Range(s)
  BY <1>1, NoneAssumption DEF Range
<1>3. \A v \in Vma : vma[v].vm_start \in Nat /\ vma[v].vm_end \in Nat
  BY AddressAssumption DEF MmTypes, Area
<1>4. \A i, j \in 1 .. Len(s) : s[i] = s[j] => i = j
  BY <1>1 DEF Linked, IsInjective
<1>5. \A v \in Range(s) : \E i \in 1 .. Len(s) : v = s[i]
  BY <1>1 DEF Range
<1>6. \A i \in Nat : Nth(s, i) \in Vma \cup {None} /\ (Nth(s, i) = None <=> i \notin 1 .. Len(s))
  BY <1>2 DEF Nth
<1> QED BY <1>1, <1>2, <1>3, <1>4, <1>5, <1>6

\* The first area that ends after addr, and the one before it.
LEMMA FirstAfterIs ==
    ASSUME MmTypes, NEW s, Linked(s), NEW addr
    PROVE  \E p \in 1 .. Len(s) + 1 :
             /\ FirstAfter(addr) = Nth(s, p)
             /\ Before(addr) = IF p = 1 THEN None ELSE s[p - 1]
             /\ \A i \in 1 .. Len(s) : i < p => ~(vma[s[i]].vm_end > addr)
             /\ p \in 1 .. Len(s) => vma[s[p]].vm_end > addr
<1>1. List = s /\ Len(s) \in Nat /\ DOMAIN s = 1 .. Len(s)
  BY ListIs, LinkedParts
<1>2. EndAfter(addr) = { i \in 1 .. Len(s) : vma[s[i]].vm_end > addr }
  BY <1>1 DEF EndAfter
<1>3. CASE EndAfter(addr) = {}
  <2>1. FirstAfter(addr) = None /\ Before(addr) = IF Len(s) + 1 = 1 THEN None ELSE s[Len(s) + 1 - 1]
    BY <1>1, <1>3 DEF FirstAfter, Before
  <2>2. Nth(s, Len(s) + 1) = None /\ Len(s) + 1 \in 1 .. Len(s) + 1 /\ Len(s) + 1 \notin 1 .. Len(s)
    BY <1>1 DEF Nth
  <2>3. \A i \in 1 .. Len(s) : ~(vma[s[i]].vm_end > addr)
    BY <1>2, <1>3
  <2> QED BY <2>1, <2>2, <2>3
<1>4. CASE EndAfter(addr) # {}
  <2> DEFINE p == Min(EndAfter(addr))
  <2>1. p \in EndAfter(addr) /\ \A y \in EndAfter(addr) : p <= y
    <3>1. EndAfter(addr) \in SUBSET Nat
      BY <1>2
    <3> QED BY <3>1, <1>4, MinIs
  <2>2. FirstAfter(addr) = s[p] /\ Before(addr) = IF p = 1 THEN None ELSE s[p - 1]
    BY <1>1, <1>4 DEF FirstAfter, Before
  <2> HIDE DEF p
  <2>3. p \in 1 .. Len(s) /\ vma[s[p]].vm_end > addr
    BY <1>2, <2>1
  <2>4. ASSUME NEW i \in 1 .. Len(s), i < p  PROVE ~(vma[s[i]].vm_end > addr)
    <3>1. ~(p <= i)
      BY <2>3, <2>4
    <3> QED BY <1>2, <2>1, <3>1
  <2>5. Nth(s, p) = s[p] /\ p \in 1 .. Len(s) + 1
    BY <1>1, <2>3 DEF Nth
  <2> QED BY <2>2, <2>3, <2>4, <2>5
<1> QED BY <1>3, <1>4

\* Where find_vma goes on from: the first area that ends after addr, or one that was freed,
\* is remembered and contains addr.
LEMMA FindVma ==
    ASSUME MmTypes, mm # None, NEW s, AreasAre(s), NEW addr \in Nat
    PROVE  /\ find_vma(addr) \in Vma \cup {None}
           /\ \E p \in 1 .. Len(s) + 1 :
                /\ \A i \in 1 .. Len(s) : i < p => vma[s[i]].vm_end <= addr
                /\ \/ find_vma(addr) = Nth(s, p)
                   \/ /\ find_vma(addr) = mm.mmap_cache /\ mm.mmap_cache \in Vma
                      /\ unused # <<>> /\ mm.mmap_cache = Head(unused)
                      /\ IsArea(mm.mmap_cache) /\ WasAt(mm.mmap_cache, s, p)
                      /\ vma[mm.mmap_cache].vm_start <= addr /\ vma[mm.mmap_cache].vm_end > addr
<1> DEFINE c == mm.mmap_cache
<1>0. Linked(s) /\ Sorted(s) /\ Remembered(s) /\ c \in Vma \cup {None}
  BY DEF AreasAre, MmTypes, MmRecord
<1>1. /\ Len(s) \in Nat
      /\ \A i \in 1 .. Len(s) : s[i] \in Vma /\ vma[s[i]].vm_start \in Nat /\ vma[s[i]].vm_end \in Nat
      /\ \A v \in Range(s) : \E i \in 1 .. Len(s) : v = s[i]
      /\ \A i \in Nat : Nth(s, i) \in Vma \cup {None}
  BY <1>0, LinkedParts
<1>2. CASE ~Remembers(addr)
  <2>1. find_vma(addr) = FirstAfter(addr)
    BY <1>2 DEF find_vma
  <2>2. PICK p \in 1 .. Len(s) + 1 :
          /\ FirstAfter(addr) = Nth(s, p)
          /\ \A i \in 1 .. Len(s) : i < p => ~(vma[s[i]].vm_end > addr)
    BY <1>0, FirstAfterIs
  <2>3. \A i \in 1 .. Len(s) : i < p => vma[s[i]].vm_end <= addr
    BY <1>1, <2>2
  <2>4. Nth(s, p) \in Vma \cup {None}
    BY <1>1, <2>2
  <2> QED BY <2>1, <2>2, <2>3, <2>4
<1>3. CASE Remembers(addr)
  <2>1. find_vma(addr) = c /\ c # None /\ c \in Vma /\ vma[c].vm_end > addr /\ vma[c].vm_start <= addr
    BY <1>0, <1>3 DEF find_vma, Remembers
  <2>2. vma[c].vm_start \in Nat
    BY <2>1, AddressAssumption DEF MmTypes, Area
  <2>3. CASE c \in Range(s)
    <3>1. PICK p \in 1 .. Len(s) : c = s[p]
      BY <1>1, <2>3
    <3>2. \A i \in 1 .. Len(s) : i < p => vma[s[i]].vm_end <= vma[s[p]].vm_start
      BY <1>0 DEF Sorted
    <3>3. \A i \in 1 .. Len(s) : i < p => vma[s[i]].vm_end <= addr
      BY <1>1, <2>1, <2>2, <3>1, <3>2
    <3>4. p \in 1 .. Len(s) + 1 /\ Nth(s, p) = c
      BY <1>1, <3>1 DEF Nth
    <3> QED BY <2>1, <3>3, <3>4
  <2>4. CASE c \notin Range(s)
    <3>1. PICK p \in 1 .. Len(s) + 1 : WasAt(c, s, p)
      BY <1>0, <2>1, <2>4 DEF Remembered
    <3>2. unused # <<>> /\ c = Head(unused) /\ IsArea(c)
      BY <1>0, <2>1, <2>4 DEF Remembered
    <3>3. \A i \in 1 .. Len(s) : i < p => vma[s[i]].vm_end <= addr
      <4>1. \A i \in 1 .. Len(s) : i < p => vma[s[i]].vm_end <= vma[c].vm_start
        BY <3>1 DEF WasAt
      <4> QED BY <1>1, <2>1, <2>2, <4>1
    <3> QED BY <2>1, <3>1, <3>2, <3>3
  <2> QED BY <2>3, <2>4
<1> QED BY <1>2, <1>3

--------------------------------------------------------------------------------
(* The loop of get_unmapped_area *)

\* One turn, and the pairs after each of m turns.
OneTurn(t, len) == IF Ends(t[1], t[2], len) THEN t ELSE <<vma[t[2]].vm_end, vma[t[2]].vm_next>>
AreTurns(f, m, from, len) ==
    f = [n \in 0 .. m |-> IF n = 0 THEN <<from, find_vma(from)>> ELSE OneTurn(f[n - 1], len)]

\* The recursive function of AfterTurns is one.
LEMMA TurnsExist ==
    ASSUME NEW m \in Nat, NEW from, NEW len
    PROVE  \E f : AreTurns(f, m, from, len)
<1> DEFINE T == { k \in Nat : ~ \E f : AreTurns(f, k, from, len) }
<1>1. T = {}
  <2> SUFFICES ASSUME T # {} PROVE FALSE
    OBVIOUS
  <2>1. PICK k \in T : \A l \in T : k <= l
    <3> HIDE DEF T
    <3>1. T \in SUBSET Nat
      BY DEF T
    <3> QED BY <3>1, LeastNat
  <2>2. CASE k = 0
    <3>1. AreTurns([n \in 0 .. 0 |-> <<from, find_vma(from)>>], 0, from, len)
      BY DEF AreTurns
    <3> QED BY <2>1, <2>2, <3>1
  <2>3. CASE k # 0
    <3>1. k - 1 \in Nat /\ k - 1 \notin T /\ k \in Nat
      <4>1. k \in Nat
        BY <2>1
      <4> QED BY <2>1, <2>3, <4>1
    <3>2. PICK f : AreTurns(f, k - 1, from, len)
      BY <3>1
    <3> DEFINE e(n) == IF n = 0 THEN <<from, find_vma(from)>> ELSE OneTurn(f[n - 1], len)
               g == [n \in 0 .. k |-> e(n)]
    <3>3. \A n \in 0 .. k : g[n] = e(n)
      OBVIOUS
    <3>4. \A n \in 0 .. k - 1 : f[n] = e(n) /\ n \in 0 .. k
      <4> HIDE DEF g, T
      <4>1. \A n \in 0 .. k - 1 : n \in 0 .. k
        BY <3>1
      <4>2. \A n \in 0 .. k - 1 : f[n] = e(n)
        BY <3>2 DEF AreTurns
      <4> QED BY <4>1, <4>2
    <3>5. \A n \in 0 .. k : n # 0 => g[n - 1] = f[n - 1]
      <4> HIDE DEF g, e
      <4> QED BY <3>1, <3>3, <3>4
    <3>6. \A n \in 0 .. k : e(n) = IF n = 0 THEN <<from, find_vma(from)>> ELSE OneTurn(g[n - 1], len)
      <4> HIDE DEF g
      <4> QED BY <3>5
    <3>7. AreTurns(g, k, from, len)
      BY <3>6 DEF AreTurns
    <3> QED BY <2>1, <3>7
  <2> QED BY <2>2, <2>3
<1>2. m \notin T
  BY <1>1
<1> QED BY <1>2

\* After n turns the areas up to the k-th end at a or before.
Passed(s, a, v, k) ==
    /\ k \in 1 .. Len(s) + 1 /\ v = Nth(s, k)
    /\ a \in Nat /\ a <= KERNEL_ENTRY /\ a % PageBytes = 0
    /\ Len(s) > 0 => vma[s[1]].vm_start <= a
    /\ \A i \in 1 .. Len(s) : i < k => vma[s[i]].vm_end <= a

\* A turn that does not end the loop passes one more area.
LEMMA TurnPasses ==
    ASSUME MmTypes, NEW s, Linked(s), Sorted(s), NEW a, NEW v, NEW k, Passed(s, a, v, k),
           v # None
    PROVE  Passed(s, vma[v].vm_end, vma[v].vm_next, k + 1)
<1>1. /\ Len(s) \in Nat /\ k \in Nat
      /\ \A i \in 1 .. Len(s) : vma[s[i]].vm_start \in Nat /\ vma[s[i]].vm_end \in Nat
      /\ \A i \in Nat : Nth(s, i) = None <=> i \notin 1 .. Len(s)
  BY LinkedParts DEF Passed
<1>2. k \in 1 .. Len(s) /\ v = s[k]
  BY <1>1 DEF Passed, Nth
<1>3. k + 1 \in 1 .. Len(s) + 1 /\ vma[v].vm_next = Nth(s, k + 1)
  BY <1>1, <1>2 DEF Linked
<1>4. /\ vma[v].vm_end \in Nat /\ vma[v].vm_end <= KERNEL_ENTRY /\ vma[v].vm_end % PageBytes = 0
      /\ vma[v].vm_start < vma[v].vm_end
  BY <1>1, <1>2 DEF Sorted, IsArea
<1>5. ASSUME NEW i \in 1 .. Len(s), i < k + 1  PROVE vma[s[i]].vm_end <= vma[v].vm_end
  <2>1. CASE i = k
    BY <1>1, <1>2, <2>1
  <2>2. CASE i < k
    <3>1. vma[s[i]].vm_end <= vma[s[k]].vm_start
      BY <1>2, <2>2 DEF Sorted
    <3> QED BY <1>1, <1>2, <1>4, <3>1
  <2> QED BY <1>1, <1>5, <2>1, <2>2
<1>6. Len(s) > 0 => vma[s[1]].vm_start <= vma[v].vm_end
  <2>1. 1 \in 1 .. Len(s) /\ vma[s[1]].vm_end <= vma[v].vm_end
    BY <1>1, <1>2, <1>5
  <2>2. vma[s[1]].vm_start < vma[s[1]].vm_end
    BY <2>1 DEF Sorted, IsArea
  <2> QED BY <1>1, <1>4, <2>1, <2>2
<1> QED BY <1>3, <1>4, <1>5, <1>6 DEF Passed

\* The loop ends in a place between two areas, or above all.
LEMMA LoopEnds ==
    ASSUME MmTypes, mm # None, NEW s, AreasAre(s), NEW from \in Nat \ {0}, NEW len \in Nat \ {0},
           from + len <= KERNEL_ENTRY, from % PageBytes = 0,
           Len(s) > 0 => vma[s[1]].vm_start <= from
    PROVE  LET a == AfterTurns(from, len, Cardinality(Vma) + 1)
           IN  \E k \in 1 .. Len(s) + 1 : Passed(s, a, Nth(s, k), k) /\ Ends(a, Nth(s, k), len)
<1> DEFINE N == Cardinality(Vma) + 1
           f == CHOOSE g : AreTurns(g, N, from, len)
           Good(n) == \E k \in 1 .. Len(s) + 1 :
                        /\ Passed(s, f[n][1], f[n][2], k)
                        /\ Ends(f[n][1], f[n][2], len) \/ k >= n
<1>0. Linked(s) /\ Sorted(s)
  BY DEF AreasAre
<1>b. from <= KERNEL_ENTRY /\ len < KERNEL_ENTRY /\ KERNEL_ENTRY \in Nat
  BY AddressAssumption
<1>1. /\ Len(s) \in Nat /\ N \in Nat /\ Len(s) < N
      /\ \A i \in 1 .. Len(s) : vma[s[i]].vm_start \in Nat /\ vma[s[i]].vm_end \in Nat
      /\ \A i \in Nat : Nth(s, i) = None <=> i \notin 1 .. Len(s)
  BY <1>0, LinkedParts, VmaCount
<1>2. AreTurns(f, N, from, len)
  <2>1. \E g : AreTurns(g, N, from, len)
    BY <1>1, TurnsExist
  <2> QED BY <2>1
<1>3. AfterTurns(from, len, N) = f[N][1]
  BY DEF AfterTurns, AreTurns, OneTurn
<1> HIDE DEF f, N
<1>4. f[0] = <<from, find_vma(from)>> /\ \A n \in 1 .. N : f[n] = OneTurn(f[n - 1], len)
  <2>1. \A n \in 0 .. N : f[n] = IF n = 0 THEN <<from, find_vma(from)>> ELSE OneTurn(f[n - 1], len)
    BY <1>2 DEF AreTurns
  <2>2. 0 \in 0 .. N /\ \A n \in 1 .. N : n \in 0 .. N /\ n # 0
    BY <1>1
  <2>3. f[0] = <<from, find_vma(from)>>
    BY <2>1, <2>2
  <2>4. \A n \in 1 .. N : f[n] = OneTurn(f[n - 1], len)
    BY <2>1, <2>2, Zenon
  <2> QED BY <2>3, <2>4
<1>5. Good(1)
  <2>1. PICK p \in 1 .. Len(s) + 1 :
          /\ \A i \in 1 .. Len(s) : i < p => vma[s[i]].vm_end <= from
          /\ \/ find_vma(from) = Nth(s, p)
             \/ /\ find_vma(from) = mm.mmap_cache /\ mm.mmap_cache \in Vma
                /\ IsArea(mm.mmap_cache) /\ WasAt(mm.mmap_cache, s, p)
                /\ vma[mm.mmap_cache].vm_start <= from /\ vma[mm.mmap_cache].vm_end > from
    BY FindVma
  <2> DEFINE v == find_vma(from)
  <2>2. f[1] = IF Ends(from, v, len) THEN <<from, v>> ELSE <<vma[v].vm_end, vma[v].vm_next>>
    <3> HIDE DEF v
    <3>1. 1 \in 1 .. N /\ 1 - 1 = 0
      BY <1>1
    <3>2. f[1] = OneTurn(f[0], len) /\ f[0] = <<from, v>>
      BY <1>4, <3>1 DEF v
    <3> QED BY <3>2 DEF OneTurn
  <2>3. CASE v = Nth(s, p)
    <3>1. Passed(s, from, v, p)
      <4> HIDE DEF v
      <4> QED BY <1>1, <1>b, <2>1, <2>3 DEF Passed
    <3>2. CASE Ends(from, v, len)
      BY <2>2, <3>1, <3>2
    <3>3. CASE ~Ends(from, v, len)
      <4>1. v # None
        BY <3>3 DEF Ends
      <4> HIDE DEF v
      <4>2. Passed(s, vma[v].vm_end, vma[v].vm_next, p + 1)
        BY <1>0, <3>1, <4>1, TurnPasses
      <4>3. p + 1 \in 1 .. Len(s) + 1 /\ p + 1 >= 1
        BY <4>2, <1>1 DEF Passed
      <4> QED BY <2>2, <3>3, <4>2, <4>3
    <3> QED BY <3>2, <3>3
  <2>4. CASE v # Nth(s, p)
    <3>1. /\ v = mm.mmap_cache /\ v \in Vma /\ IsArea(v) /\ WasAt(v, s, p)
          /\ vma[v].vm_start <= from /\ vma[v].vm_end > from
      BY <2>1, <2>4
    <3> HIDE DEF v
    <3>2. vma[v].vm_start \in Nat /\ vma[v].vm_end \in Nat
      BY <3>1, AddressAssumption DEF MmTypes, Area
    <3>3. ~Ends(from, v, len)
      <4>1. v # None
        BY <3>1, NoneAssumption
      <4>2. vma[v].vm_end <= KERNEL_ENTRY
        BY <3>1 DEF IsArea
      <4>3. (from + len) % Word = from + len
        BY <1>b, SumInWord
      <4>4. PICK x : x = (from + len) % Word /\ x = from + len
        BY <4>3
      <4>5. x \in Nat /\ x <= KERNEL_ENTRY /\ ~(x <= vma[v].vm_start)
        BY <1>b, <3>1, <3>2, <4>4
      <4>6. ~(x > KERNEL_ENTRY)
        BY <1>b, <4>5
      <4> QED BY <4>1, <4>4, <4>5, <4>6 DEF Ends
    <3>4. f[1] = <<vma[v].vm_end, vma[v].vm_next>>
      BY <2>2, <3>3 DEF v
    <3>5. Passed(s, vma[v].vm_end, vma[v].vm_next, p)
      <4>1. vma[v].vm_next = Nth(s, p)
        BY <3>1 DEF WasAt
      <4>2. \A i \in 1 .. Len(s) : i < p => vma[s[i]].vm_end <= vma[v].vm_end
        BY <1>1, <2>1, <3>1, <3>2, SMTT(30)
      <4>3. Len(s) > 0 => vma[s[1]].vm_start <= vma[v].vm_end
        BY <1>1, <3>1, <3>2, SMTT(30)
      <4> QED BY <2>1, <3>1, <3>2, <4>1, <4>2, <4>3 DEF Passed, IsArea
    <3>6. p >= 1
      BY <1>1
    <3> QED BY <3>4, <3>5, <3>6
  <2> QED BY <2>3, <2>4
<1>6. ASSUME NEW n \in 1 .. N - 1, Good(n)  PROVE Good(n + 1)
  <2>1. PICK k \in 1 .. Len(s) + 1 :
          /\ Passed(s, f[n][1], f[n][2], k)
          /\ Ends(f[n][1], f[n][2], len) \/ k >= n
    BY <1>6
  <2>2. f[n + 1] = OneTurn(f[n], len)
    <3>1. n + 1 \in 1 .. N /\ (n + 1) - 1 = n
      BY <1>1
    <3> QED BY <1>4, <3>1
  <2>3. CASE Ends(f[n][1], f[n][2], len)
    BY <2>1, <2>2, <2>3 DEF OneTurn
  <2>4. CASE ~Ends(f[n][1], f[n][2], len)
    <3>1. PICK v : v = f[n][2] /\ v # None
      BY <2>4 DEF Ends
    <3>2. Passed(s, vma[v].vm_end, vma[v].vm_next, k + 1)
      BY <1>0, <2>1, <3>1, TurnPasses
    <3>3. k + 1 \in 1 .. Len(s) + 1 /\ k + 1 >= n + 1
      BY <1>1, <2>1, <2>4, <3>2 DEF Passed
    <3>4. f[n + 1] = <<vma[v].vm_end, vma[v].vm_next>>
      BY <2>2, <2>4, <3>1 DEF OneTurn
    <3> QED BY <3>2, <3>3, <3>4
  <2> QED BY <2>3, <2>4
<1>7. Good(N)
  <2> HIDE DEF Good
  <2> DEFINE T == { n \in 1 .. N : ~Good(n) }
  <2> SUFFICES ASSUME T # {} PROVE FALSE
    BY <1>1
  <2>1. PICK n \in T : \A m \in T : n <= m
    <3>1. T \in SUBSET Nat
      BY <1>1
    <3> HIDE DEF T
    <3> QED BY <3>1, LeastNat
  <2>2. n \in 1 .. N /\ ~Good(n) /\ n # 1
    BY <1>5, <2>1
  <2>3. n - 1 \in 1 .. N - 1 /\ n - 1 \notin T /\ (n - 1) + 1 = n /\ n - 1 \in 1 .. N
    BY <1>1, <2>1, <2>2
  <2>4. Good(n - 1)
    BY <2>3
  <2>5. Good((n - 1) + 1)
    BY <1>6, <2>3, <2>4
  <2> QED BY <2>2, <2>3, <2>5
<1>8. PICK k \in 1 .. Len(s) + 1 :
        /\ Passed(s, f[N][1], f[N][2], k)
        /\ Ends(f[N][1], f[N][2], len) \/ k >= N
  BY <1>7
<1>9. f[N][2] = Nth(s, k)
  BY <1>8 DEF Passed
<1>10. Ends(f[N][1], f[N][2], len)
  <2>1. CASE k >= N
    <3>1. k \notin 1 .. Len(s) /\ k \in Nat
      BY <1>1, <2>1
    <3>2. f[N][2] = None
      BY <1>1, <1>9, <3>1
    <3> QED BY <3>2 DEF Ends
  <2> QED BY <1>8, <2>1
<1>11. Passed(s, f[N][1], Nth(s, k), k) /\ Ends(f[N][1], Nth(s, k), len)
  BY <1>8, <1>9, <1>10
<1>12. AfterTurns(from, len, Cardinality(Vma) + 1) = f[N][1]
  BY <1>3 DEF N
<1> HIDE DEF Good
<1> QED BY <1>11, <1>12

\* What get_unmapped_area answers a careful process lies between two areas of the list.
LEMMA UnmappedArea ==
    ASSUME MmTypes, mm # None, NEW s, AreasAre(s), NEW addr \in Nat, NEW len \in Nat \ {0},
           SparesAreas(addr, len), NEW r, r = get_unmapped_area(addr, len),
           NEW e, e = PageAlign((r + len) % Word)
    PROVE  /\ r \in Nat /\ e \in Nat /\ r < e /\ e <= KERNEL_ENTRY
           /\ r % PageBytes = 0 /\ e % PageBytes = 0
           /\ \E k \in 1 .. Len(s) + 1 :
                /\ \A i \in 1 .. Len(s) : i < k => vma[s[i]].vm_end <= r
                /\ k \in 1 .. Len(s) => e <= vma[s[k]].vm_start
                /\ k = 1 => Len(s) = 0
<1> DEFINE from == PageAlign(addr)
           a == AfterTurns(from, len, Cardinality(Vma) + 1)
<1>0. Linked(s) /\ Sorted(s)
  BY DEF AreasAre
<1>1. /\ Len(s) \in Nat /\ List = s
      /\ \A i \in 1 .. Len(s) : vma[s[i]].vm_start \in Nat /\ vma[s[i]].vm_end \in Nat
      /\ \A i \in Nat : Nth(s, i) = None <=> i \notin 1 .. Len(s)
  BY <1>0, LinkedParts, ListIs
<1>2. PICK K \in Nat : K = KERNEL_ENTRY
  BY AddressAssumption
<1>3. addr > 0 /\ addr + len <= K /\ (Len(s) > 0 => vma[s[1]].vm_start <= addr)
  <2>1. addr > 0 /\ addr + len <= K /\ (s # <<>> => vma[s[1]].vm_start <= addr)
    BY <1>1, <1>2 DEF SparesAreas
  <2>2. Len(s) > 0 => s # <<>>
    OBVIOUS
  <2> QED BY <2>1, <2>2
<1>4. from \in Nat /\ addr <= from /\ from <= K /\ from % PageBytes = 0
  BY <1>2, <1>3, AlignUp
<1>5. r \notin {0, Minus1}
  BY DEF SparesAreas
<1> HIDE DEF from
<1>6. (from + len) % Word = from + len
  <2> HIDE DEF a
  <2>1. from <= KERNEL_ENTRY /\ len < KERNEL_ENTRY
    BY <1>2, <1>3, <1>4
  <2> QED BY <1>4, <2>1, SumInWord
<1>7. from + len <= K /\ r = a /\ ~((a + len) % Word > K)
  BY <1>2, <1>4, <1>5, <1>6 DEF get_unmapped_area, AreaUpTo, from
<1>8. PICK k \in 1 .. Len(s) + 1 : Passed(s, a, Nth(s, k), k) /\ Ends(a, Nth(s, k), len)
  <2> HIDE DEF a
  <2>1. from \in Nat \ {0} /\ from + len <= KERNEL_ENTRY
    BY <1>2, <1>3, <1>4, <1>7
  <2>2. Len(s) > 0 => vma[s[1]].vm_start <= from
    <3>1. Len(s) > 0 => vma[s[1]].vm_start \in Nat
      BY <1>1
    <3> QED BY <1>3, <1>4, <3>1
  <2>3. \E k \in 1 .. Len(s) + 1 : Passed(s, a, Nth(s, k), k) /\ Ends(a, Nth(s, k), len)
    BY <1>4, <2>1, <2>2, LoopEnds DEF a
  <2> QED BY <2>3
<1> HIDE DEF a
<1>9. a \in Nat /\ a <= K /\ (a + len) % Word = a + len
  BY <1>2, <1>3, <1>8, SumInWord DEF Passed
<1>10. e = PageAlign(r + len) /\ r + len \in Nat /\ r + len <= K
  BY <1>2, <1>7, <1>9
<1>11. e \in Nat /\ r + len <= e /\ e <= K /\ e % PageBytes = 0
       /\ \A m \in Nat : m % PageBytes = 0 /\ r + len <= m => e <= m
  BY <1>2, <1>10, AlignUp
<1>12. \A i \in 1 .. Len(s) : i < k => vma[s[i]].vm_end <= r
  BY <1>7, <1>8 DEF Passed
<1>13. ASSUME k \in 1 .. Len(s)  PROVE e <= vma[s[k]].vm_start
  <2>1. Nth(s, k) = s[k] /\ s[k] # None
    BY <1>0, <1>13, LinkedParts DEF Nth
  <2>2. r + len <= vma[s[k]].vm_start
    BY <1>2, <1>7, <1>8, <1>9, <2>1 DEF Ends
  <2>3. vma[s[k]].vm_start % PageBytes = 0 /\ vma[s[k]].vm_start \in Nat
    BY <1>0, <1>1, <1>13 DEF Sorted, IsArea
  <2> QED BY <1>11, <2>2, <2>3
<1>14. ASSUME k = 1  PROVE Len(s) = 0
  <2> SUFFICES ASSUME Len(s) > 0 PROVE FALSE
    BY <1>1
  <2>1. 1 \in 1 .. Len(s) /\ e <= vma[s[1]].vm_start
    BY <1>1, <1>13, <1>14
  <2>2. vma[s[1]].vm_start <= r
    BY <1>7, <1>8 DEF Passed
  <2> QED BY <1>1, <1>9, <1>7, <1>11, <2>1, <2>2
<1> QED BY <1>2, <1>7, <1>8, <1>9, <1>11, <1>12, <1>13, <1>14 DEF Passed

\* The fields of mm after an assignment to three of them.
LEMMA MmUpdate ==
    ASSUME mm \in MmRecord, NEW a \in Vma \cup {None}, NEW c \in Vma \cup {None}, NEW n \in Int,
           mm' = [mm EXCEPT !.mmap = a, !.mmap_cache = c, !.map_count = n]
    PROVE  /\ mm' \in MmRecord /\ mm' # None /\ mm'.pgd = mm.pgd
           /\ mm'.mmap = a /\ mm'.mmap_cache = c /\ mm'.map_count = n
<1>1. mm' \in MmRecord
  BY DEF MmRecord
<1>2. mm' # None
  BY <1>1, NoneAssumption
<1> QED BY <1>1, <1>2 DEF MmRecord

LEMMA MaxUpTo ==
    ASSUME NEW n \in Nat \ {0}
    PROVE  Max(1 .. n) = n
<1>1. n \in 1 .. n /\ \A y \in 1 .. n : n >= y
  OBVIOUS
<1>2. ASSUME NEW x \in 1 .. n, \A y \in 1 .. n : x >= y  PROVE x = n
  BY <1>1, <1>2
<1> QED BY <1>1, <1>2 DEF Max

\* The area that find_vma_prepare finds is the one before the place of the new area.
LEMMA PrepareIs ==
    ASSUME MmTypes, NEW s, Linked(s), Sorted(s), NEW start \in Nat, NEW end \in Nat, start < end,
           NEW k \in 1 .. Len(s) + 1,
           \A i \in 1 .. Len(s) : i < k => vma[s[i]].vm_end <= start,
           k \in 1 .. Len(s) => end <= vma[s[k]].vm_start
    PROVE  find_vma_prepare(start) = IF k = 1 THEN None ELSE s[k - 1]
<1>1. /\ Len(s) \in Nat /\ List = s /\ DOMAIN s = 1 .. Len(s) /\ k \in Nat
      /\ \A i \in 1 .. Len(s) : vma[s[i]].vm_start \in Nat /\ vma[s[i]].vm_end \in Nat
      /\ \A i \in 1 .. Len(s) : vma[s[i]].vm_start < vma[s[i]].vm_end
  BY LinkedParts, ListIs DEF Sorted, IsArea
<1>2. ASSUME NEW i \in 1 .. k - 1  PROVE i \in StartUpTo(start)
  <2>1. i \in 1 .. Len(s) /\ \A j \in 1 .. i : j \in 1 .. Len(s) /\ j < k
    BY <1>1
  <2>2. \A j \in 1 .. i : vma[s[j]].vm_start <= start
    BY <1>1, <2>1
  <2> QED BY <1>1, <2>1, <2>2 DEF StartUpTo
<1>3. ASSUME NEW i \in StartUpTo(start)  PROVE i \in 1 .. k - 1
  <2>1. i \in 1 .. Len(s) /\ \A j \in 1 .. i : vma[s[j]].vm_start <= start
    BY <1>1 DEF StartUpTo
  <2>2. CASE k <= i
    <3>1. k \in 1 .. i /\ k \in 1 .. Len(s)
      BY <1>1, <2>1, <2>2
    <3>2. vma[s[k]].vm_start <= start /\ end <= vma[s[k]].vm_start /\ vma[s[k]].vm_start \in Nat
      BY <1>1, <2>1, <3>1
    <3> QED BY <3>2
  <2> QED BY <1>1, <2>1, <2>2
<1>4. StartUpTo(start) = 1 .. k - 1
  BY <1>2, <1>3
<1>5. CASE k = 1
  <2>1. StartUpTo(start) = {}
    BY <1>4, <1>5
  <2> QED BY <1>5, <2>1 DEF find_vma_prepare
<1>6. CASE k # 1
  <2>1. PICK m \in Nat \ {0} : m = k - 1
    BY <1>1, <1>6
  <2>3. Max(StartUpTo(start)) = k - 1
    BY <1>4, <2>1, MaxUpTo
  <2>4. StartUpTo(start) # {}
    <3>1. 1 \in 1 .. k - 1
      BY <2>1
    <3> QED BY <1>4, <3>1
  <2> QED BY <1>1, <1>6, <2>3, <2>4 DEF find_vma_prepare
<1> QED BY <1>5, <1>6

\* A sequence with one more element.
WithElement(s, k, v) == [i \in 1 .. Len(s) + 1 |-> IF i < k THEN s[i] ELSE IF i = k THEN v ELSE s[i - 1]]

LEMMA InsertElement ==
    ASSUME NEW S, NEW s \in Seq(S), IsInjective(s), NEW v \in S, v \notin Range(s),
           NEW k \in 1 .. Len(s) + 1,
           NEW z, z = WithElement(s, k, v)
    PROVE  /\ z \in Seq(S) /\ Len(z) = Len(s) + 1 /\ IsInjective(z) /\ Range(z) = Range(s) \cup {v}
           /\ \A i \in 1 .. Len(s) + 1 :
                \/ i < k /\ i \in 1 .. Len(s) /\ z[i] = s[i]
                \/ i = k /\ z[i] = v
                \/ i > k /\ i - 1 \in 1 .. Len(s) /\ z[i] = s[i - 1]
<1>1. Len(s) \in Nat /\ DOMAIN s = 1 .. Len(s) /\ k \in Nat /\ \A i \in 1 .. Len(s) : s[i] \in S
  BY LenProperties
<1>2. \A i \in 1 .. Len(s) + 1 :
        \/ i < k /\ i \in 1 .. Len(s) /\ z[i] = s[i]
        \/ i = k /\ z[i] = v
        \/ i > k /\ i - 1 \in 1 .. Len(s) /\ z[i] = s[i - 1]
  BY <1>1 DEF WithElement
<1>3. z \in Seq(S) /\ Len(z) = Len(s) + 1 /\ DOMAIN z = 1 .. Len(s) + 1
  <2>1. PICK n \in Nat : n = Len(s) + 1
    BY <1>1
  <2>2. z \in [1 .. n -> S]
    <3>1. DOMAIN z = 1 .. n /\ z = [i \in 1 .. n |-> z[i]]
      BY <2>1 DEF WithElement
    <3>2. \A i \in 1 .. n : z[i] \in S
      BY <1>1, <1>2, <2>1
    <3> QED BY <3>1, <3>2
  <2>3. z \in Seq(S)
    BY <2>2, SeqDef
  <2>4. Len(z) = n
    BY <2>2, <2>3, LenProperties
  <2> QED BY <2>1, <2>3, <2>4, LenProperties
<1>4. \A i, j \in 1 .. Len(s) : s[i] = s[j] => i = j
  BY <1>1 DEF IsInjective
<1>5. \A i \in 1 .. Len(s) : s[i] \in Range(s) /\ s[i] # v
  BY <1>1 DEF Range
<1>6. ASSUME NEW i \in 1 .. Len(s) + 1, NEW j \in 1 .. Len(s) + 1, z[i] = z[j]  PROVE i = j
  <2>1. \/ i < k /\ i \in 1 .. Len(s) /\ z[i] = s[i]
        \/ i = k /\ z[i] = v
        \/ i > k /\ i - 1 \in 1 .. Len(s) /\ z[i] = s[i - 1]
    BY <1>2
  <2>2. \/ j < k /\ j \in 1 .. Len(s) /\ z[j] = s[j]
        \/ j = k /\ z[j] = v
        \/ j > k /\ j - 1 \in 1 .. Len(s) /\ z[j] = s[j - 1]
    BY <1>2
  <2> QED BY <1>1, <1>4, <1>5, <1>6, <2>1, <2>2
<1>7. IsInjective(z)
  BY <1>3, <1>6 DEF IsInjective
<1>8. ASSUME NEW x  PROVE x \in Range(z) <=> x \in Range(s) \cup {v}
  <2>1. ASSUME x \in Range(z)  PROVE x \in Range(s) \cup {v}
    <3>1. PICK i \in 1 .. Len(s) + 1 : x = z[i]
      BY <1>3, <2>1 DEF Range
    <3> QED BY <1>2, <1>5, <3>1
  <2>2. v \in Range(z)
    <3>1. k \in 1 .. Len(s) + 1 /\ z[k] = v
      BY <1>1, <1>2
    <3> QED BY <1>3, <3>1 DEF Range
  <2>3. ASSUME NEW i \in 1 .. Len(s), x = s[i]  PROVE x \in Range(z)
    <3>1. CASE i < k
      <4>1. i \in 1 .. Len(s) + 1 /\ z[i] = s[i]
        BY <1>1, <1>2, <3>1
      <4> QED BY <1>3, <2>3, <4>1 DEF Range
    <3>2. CASE ~(i < k)
      <4>1. i + 1 \in 1 .. Len(s) + 1 /\ i + 1 > k /\ (i + 1) - 1 = i
        BY <1>1, <3>2
      <4>2. z[i + 1] = s[i]
        BY <1>1, <1>2, <4>1
      <4> QED BY <1>3, <2>3, <4>1, <4>2 DEF Range
    <3> QED BY <3>1, <3>2
  <2> QED BY <1>1, <2>1, <2>2, <2>3 DEF Range
<1>9. Range(z) = Range(s) \cup {v}
  BY <1>8
<1> QED BY <1>2, <1>3, <1>7, <1>9

\* insert_vma_struct puts the area that kmalloc gave between two others.
LEMMA Insert ==
    ASSUME MmTypes, mm # None, NEW s, AreasAre(s), IsInjective(unused), unused # <<>>,
           NEW v, v = Head(unused), unused' = Tail(unused),
           NEW start \in Nat, NEW end \in Nat, start < end, end <= KERNEL_ENTRY,
           start % PageBytes = 0, end % PageBytes = 0, NEW k \in 1 .. Len(s) + 1,
           \A i \in 1 .. Len(s) : i < k => vma[s[i]].vm_end <= start,
           k \in 1 .. Len(s) => end <= vma[s[k]].vm_start,
           k = 1 => Len(s) = 0,
           NEW cache \in Vma \cup {None}, cache = None \/ cache \in Range(s) \/ cache = v,
           insert_vma_struct(v, start, end, cache)
    PROVE  /\ IsInjective(unused') /\ unused' \in Seq(Vma) /\ vma' \in [Vma -> Area]
           /\ mm' \in MmRecord /\ mm' # None /\ mm'.pgd = mm.pgd
           /\ \E z \in Seq(Vma) : AreasAre(z)'
<1>0. Linked(s) /\ Sorted(s) /\ s \in Seq(Vma) /\ IsInjective(s) /\ mm.map_count = Len(s)
      /\ mm.mmap = Nth(s, 1)
  BY DEF AreasAre, Linked
<1>1. /\ Len(s) \in Nat /\ DOMAIN s = 1 .. Len(s) /\ k \in Nat
      /\ \A i \in 1 .. Len(s) : s[i] \in Vma /\ s[i] # None /\ s[i] \in Range(s)
                                /\ vma[s[i]].vm_start \in Nat /\ vma[s[i]].vm_end \in Nat
      /\ \A i, j \in 1 .. Len(s) : s[i] = s[j] => i = j
  BY <1>0, LinkedParts
<1>2. /\ v \in Vma /\ v \in Range(unused) /\ unused' \in Seq(Vma) /\ IsInjective(unused')
      /\ Range(unused') = Range(unused) \ {v}
  BY TailRange DEF MmTypes
<1>3. v \notin Range(s) /\ v # None
  BY <1>2, NoneAssumption DEF AreasAre
<1>a. PICK z : z = WithElement(s, k, v)
  OBVIOUS
<1>4. /\ z \in Seq(Vma) /\ Len(z) = Len(s) + 1 /\ IsInjective(z) /\ Range(z) = Range(s) \cup {v}
      /\ \A i \in 1 .. Len(s) + 1 :
           \/ i < k /\ i \in 1 .. Len(s) /\ z[i] = s[i]
           \/ i = k /\ z[i] = v
           \/ i > k /\ i - 1 \in 1 .. Len(s) /\ z[i] = s[i - 1]
  BY <1>0, <1>2, <1>3, <1>a, InsertElement
<1> DEFINE prev == IF k = 1 THEN None ELSE s[k - 1]
           next == IF prev = None THEN None ELSE vma[prev].vm_next
<1>5. find_vma_prepare(start) = prev
  BY <1>0, PrepareIs
<1>6. /\ vma' = [x \in Vma |->
                     CASE x = v    -> [vm_start |-> start, vm_end |-> end, vm_next |-> next]
                       [] x = prev -> [vma[x] EXCEPT !.vm_next = v]
                       [] OTHER    -> vma[x]]
      /\ mm' = [mm EXCEPT !.mmap = IF prev = None THEN v ELSE @,
                          !.mmap_cache = cache, !.map_count = @ + 1]
  BY <1>5 DEF insert_vma_struct
<1>7. next = Nth(s, k) /\ (prev = None <=> k = 1) /\ prev # v
  <2>1. CASE k = 1
    BY <1>1, <1>3, <2>1 DEF Nth
  <2>2. CASE k # 1
    <3>1. k - 1 \in 1 .. Len(s) /\ (k - 1) + 1 = k
      BY <1>1, <2>2
    <3>2. vma[s[k - 1]].vm_next = Nth(s, k)
      BY <1>0, <3>1 DEF Linked
    <3> QED BY <1>1, <1>3, <2>2, <3>1, <3>2
  <2> QED BY <2>1, <2>2
<1>8. next \in Vma \cup {None}
  BY <1>0, <1>1, <1>7, LinkedParts
<1> HIDE DEF next
<1>9. vma'[v] = [vm_start |-> start, vm_end |-> end, vm_next |-> next]
  <2> HIDE DEF prev
  <2> QED BY <1>2, <1>6, <1>7
<1>10. ASSUME NEW x \in Vma, x # v
       PROVE  /\ vma'[x] \in Area
              /\ vma'[x].vm_start = vma[x].vm_start /\ vma'[x].vm_end = vma[x].vm_end
              /\ vma'[x].vm_next = IF x = prev THEN v ELSE vma[x].vm_next
  <2> HIDE DEF prev
  <2>1. vma[x] \in Area
    BY DEF MmTypes
  <2>2. vma'[x] = IF x = prev THEN [vma[x] EXCEPT !.vm_next = v] ELSE vma[x]
    BY <1>6, <1>10
  <2> QED BY <1>2, <2>1, <2>2 DEF Area
<1>11. vma' \in [Vma -> Area]
  <2>1. vma'[v] \in Area
    <3>1. start \in 0 .. Word - 1 /\ end \in 0 .. Word - 1
      BY AddressAssumption
    <3> QED BY <1>8, <1>9, <3>1 DEF Area
  <2>2. \A x \in Vma : vma'[x] \in Area
    BY <1>10, <2>1
  <2>3. vma' = [x \in Vma |-> vma'[x]]
    BY <1>6
  <2> QED BY <2>2, <2>3
<1>12. /\ mm' \in MmRecord /\ mm' # None /\ mm'.pgd = mm.pgd
       /\ mm'.mmap = (IF k = 1 THEN v ELSE mm.mmap) /\ mm'.mmap_cache = cache
       /\ mm'.map_count = Len(s) + 1
  <2>1. mm \in MmRecord
    BY DEF MmTypes
  <2>2. PICK a, n : a = (IF k = 1 THEN v ELSE mm.mmap) /\ n = mm.map_count + 1
    OBVIOUS
  <2>3. mm' = [mm EXCEPT !.mmap = a, !.mmap_cache = cache, !.map_count = n]
    BY <1>6, <1>7, <2>2
  <2>4. a \in Vma \cup {None} /\ n \in Int /\ n = Len(s) + 1
    BY <1>0, <1>1, <1>2, <2>1, <2>2 DEF MmRecord
  <2> QED BY <2>1, <2>2, <2>3, <2>4, MmUpdate
<1>13. Linked(z)'
  <2>1. mm'.mmap = Nth(z, 1)
    <3>1. 1 \in 1 .. Len(z)
      BY <1>1, <1>4
    <3>2. CASE k = 1
      <4>1. z[1] = v
        BY <1>1, <1>4, <3>1, <3>2
      <4> QED BY <1>12, <3>1, <3>2, <4>1 DEF Nth
    <3>3. CASE k # 1
      <4>1. 1 < k /\ 1 \in 1 .. Len(s) /\ z[1] = s[1]
        BY <1>1, <1>4, <3>1, <3>3
      <4> QED BY <1>0, <1>12, <3>1, <3>3, <4>1 DEF Nth
    <3> QED BY <3>2, <3>3
  <2>2. ASSUME NEW i \in 1 .. Len(z)  PROVE vma'[z[i]].vm_next = Nth(z, i + 1)
    <3>0. i \in 1 .. Len(s) + 1 /\ i \in Nat
      BY <1>4, <1>1
    <3>1. CASE i < k
      <4>1. z[i] = s[i] /\ i \in 1 .. Len(s) /\ s[i] \in Vma /\ s[i] # v
        BY <1>1, <1>3, <1>4, <3>0, <3>1
      <4>2. i + 1 \in 1 .. Len(z) /\ i + 1 \in 1 .. Len(s) + 1
        BY <1>1, <1>4, <4>1
      <4>3. CASE i = k - 1
        <5>1. s[i] = prev /\ i + 1 = k
          BY <3>0, <4>1, <4>3, <1>1
        <5>2. z[i + 1] = v
          BY <1>1, <1>4, <4>2, <5>1
        <5> QED BY <1>10, <4>1, <4>2, <5>1, <5>2 DEF Nth
      <4>4. CASE i # k - 1
        <5>1. k - 1 \in 1 .. Len(s) /\ k # 1 /\ i + 1 < k
          BY <1>1, <3>1, <4>1, <4>4
        <5>2. s[i] # prev
          BY <1>1, <4>1, <4>4, <5>1
        <5>3. i + 1 \in 1 .. Len(s) /\ z[i + 1] = s[i + 1]
          BY <1>1, <1>4, <4>2, <5>1
        <5>4. vma[s[i]].vm_next = s[i + 1]
          BY <1>0, <4>1, <5>3 DEF Linked, Nth
        <5> QED BY <1>10, <4>1, <4>2, <5>2, <5>3, <5>4 DEF Nth
      <4> QED BY <4>3, <4>4
    <3>2. CASE i = k
      <4>1. z[i] = v /\ vma'[v].vm_next = Nth(s, k)
        BY <1>1, <1>4, <1>7, <1>9, <3>0, <3>2
      <4>2. CASE k \in 1 .. Len(s)
        <5>1. k + 1 \in 1 .. Len(s) + 1 /\ (k + 1) - 1 = k /\ k + 1 > k
          BY <1>1, <4>2
        <5>2. z[k + 1] = s[k]
          BY <1>1, <1>4, <5>1
        <5> QED BY <1>4, <3>2, <4>1, <4>2, <5>1, <5>2 DEF Nth
      <4>3. CASE k \notin 1 .. Len(s)
        <5>1. k + 1 \notin 1 .. Len(z)
          BY <1>1, <1>4, <4>3
        <5> QED BY <3>2, <4>1, <4>3, <5>1 DEF Nth
      <4> QED BY <4>2, <4>3
    <3>3. CASE i > k
      <4>0. ~(i < k) /\ i # k
        BY <1>1, <3>0, <3>3
      <4>1. z[i] = s[i - 1] /\ i - 1 \in 1 .. Len(s) /\ s[i - 1] \in Vma /\ s[i - 1] # v
        <5>1. z[i] = s[i - 1] /\ i - 1 \in 1 .. Len(s)
          BY <1>4, <3>0, <4>0
        <5> QED BY <1>1, <1>3, <5>1
      <4>2. s[i - 1] # prev
        <5>1. k # 1 => k - 1 \in 1 .. Len(s) /\ i - 1 # k - 1
          BY <1>1, <3>0, <3>3, <4>1
        <5> QED BY <1>1, <4>1, <5>1
      <4>3. vma'[z[i]].vm_next = Nth(s, i)
        <5>1. vma[s[i - 1]].vm_next = Nth(s, (i - 1) + 1) /\ (i - 1) + 1 = i
          BY <1>0, <3>0, <4>1 DEF Linked
        <5> QED BY <1>10, <4>1, <4>2, <5>1
      <4>4. CASE i \in 1 .. Len(s)
        <5>1. i + 1 \in 1 .. Len(s) + 1 /\ (i + 1) - 1 = i /\ i + 1 > k
          BY <1>1, <3>3, <4>4
        <5>2. z[i + 1] = s[i]
          BY <1>1, <1>4, <5>1
        <5> QED BY <1>4, <4>3, <4>4, <5>1, <5>2 DEF Nth
      <4>5. CASE i \notin 1 .. Len(s)
        <5>1. i + 1 \notin 1 .. Len(z)
          BY <1>1, <1>4, <3>0, <4>5
        <5> QED BY <4>3, <4>5, <5>1 DEF Nth
      <4> QED BY <4>4, <4>5
    <3> QED BY <1>1, <3>0, <3>1, <3>2, <3>3
  <2> QED BY <1>4, <2>1, <2>2 DEF Linked, Nth
<1>14. /\ vma'[v].vm_start = start /\ vma'[v].vm_end = end
       /\ \A i \in 1 .. Len(s) : vma'[s[i]].vm_start = vma[s[i]].vm_start
                                 /\ vma'[s[i]].vm_end = vma[s[i]].vm_end
  BY <1>1, <1>3, <1>9, <1>10
<1>15. /\ \A i \in 1 .. Len(s) : vma[s[i]].vm_start < vma[s[i]].vm_end
       /\ \A i, j \in 1 .. Len(s) : i < j => vma[s[i]].vm_end <= vma[s[j]].vm_start
       /\ \A i \in 1 .. Len(s) : ~(i < k) => end <= vma[s[i]].vm_start
  <2>1. /\ \A i \in 1 .. Len(s) : vma[s[i]].vm_start < vma[s[i]].vm_end
        /\ \A i, j \in 1 .. Len(s) : i < j => vma[s[i]].vm_end <= vma[s[j]].vm_start
    BY <1>0 DEF Sorted, IsArea
  <2>2. ASSUME NEW i \in 1 .. Len(s), ~(i < k)  PROVE end <= vma[s[i]].vm_start
    <3>1. k \in 1 .. Len(s) /\ end <= vma[s[k]].vm_start
      BY <1>1, <2>2
    <3>2. CASE i = k
      BY <3>1, <3>2
    <3>3. CASE i # k
      <4>1. vma[s[k]].vm_end <= vma[s[i]].vm_start /\ vma[s[k]].vm_start < vma[s[k]].vm_end
        BY <1>1, <2>1, <2>2, <3>1, <3>3
      <4> QED BY <1>1, <3>1, <4>1
    <3> QED BY <3>2, <3>3
  <2> QED BY <2>1, <2>2
<1>16. Sorted(z)'
  <2>1. ASSUME NEW i \in 1 .. Len(z)  PROVE IsArea(z[i])'
    <3>1. CASE z[i] = v
      BY <1>14, <3>1 DEF IsArea
    <3>2. CASE z[i] # v
      <4>1. PICK j \in 1 .. Len(s) : z[i] = s[j]
        BY <1>4, <2>1, <3>2
      <4>2. IsArea(s[j])
        BY <1>0 DEF Sorted
      <4> QED BY <1>14, <4>1, <4>2 DEF IsArea
    <3> QED BY <3>1, <3>2
  <2>2. ASSUME NEW i \in 1 .. Len(z), NEW j \in 1 .. Len(z), i < j
        PROVE  vma'[z[i]].vm_end <= vma'[z[j]].vm_start
    <3>1. \/ i < k /\ i \in 1 .. Len(s) /\ z[i] = s[i]
          \/ i = k /\ z[i] = v
          \/ i > k /\ i - 1 \in 1 .. Len(s) /\ z[i] = s[i - 1]
      BY <1>4
    <3>2. \/ j < k /\ j \in 1 .. Len(s) /\ z[j] = s[j]
          \/ j = k /\ z[j] = v
          \/ j > k /\ j - 1 \in 1 .. Len(s) /\ z[j] = s[j - 1]
      BY <1>4
    <3>3. i \in Nat /\ j \in Nat
      BY <1>1, <1>4
    <3>4. CASE i < k /\ i \in 1 .. Len(s) /\ z[i] = s[i]
      <4>1. CASE j = k
        BY <1>14, <3>2, <3>3, <3>4, <4>1
      <4>2. CASE j # k
        <5>1. PICK l \in 1 .. Len(s) : z[j] = s[l] /\ i < l
          <6>1. CASE j < k
            BY <2>2, <3>2, <3>3, <4>2, <6>1, <1>1
          <6>2. CASE j > k
            BY <2>2, <3>2, <3>3, <3>4, <4>2, <6>2, <1>1
          <6> QED BY <3>3, <1>1, <4>2, <6>1, <6>2
        <5> QED BY <1>14, <1>15, <3>4, <5>1
      <4> QED BY <4>1, <4>2
    <3>5. CASE i = k /\ z[i] = v
      <4>1. j - 1 \in 1 .. Len(s) /\ z[j] = s[j - 1] /\ ~(j - 1 < k)
        BY <1>1, <2>2, <3>2, <3>3, <3>5
      <4> QED BY <1>14, <1>15, <3>5, <4>1
    <3>6. CASE i > k /\ i - 1 \in 1 .. Len(s) /\ z[i] = s[i - 1]
      <4>1. j - 1 \in 1 .. Len(s) /\ z[j] = s[j - 1] /\ i - 1 < j - 1
        BY <1>1, <2>2, <3>2, <3>3, <3>6
      <4> QED BY <1>14, <1>15, <3>6, <4>1
    <3> QED BY <3>1, <3>4, <3>5, <3>6
  <2> QED BY <2>1, <2>2 DEF Sorted
<1>17. Remembered(z)'
  BY <1>4, <1>12 DEF Remembered
<1>18. Range(z) \cap Range(unused') = {}
  BY <1>2, <1>4 DEF AreasAre
<1>19. AreasAre(z)'
  BY <1>4, <1>12, <1>13, <1>16, <1>17, <1>18 DEF AreasAre
<1> QED BY <1>2, <1>4, <1>11, <1>12, <1>19

--------------------------------------------------------------------------------
(* What happens to the areas *)

\* The process has its areas after a step, and its page tables.
AreasGoOn ==
    /\ vma' \in [Vma -> Area] /\ unused' \in Seq(Vma)
    /\ mm' \in MmRecord /\ mm' # None /\ mm'.pgd = mm.pgd
    /\ AreasInv'

\* What find_vma makes mmap_cache is an area of the list, or what it was.
LEMMA CacheIs ==
    ASSUME MmTypes, mm # None, NEW s, AreasAre(s), NEW addr \in Nat, NEW c,
           c = CacheVma(find_vma(addr))
    PROVE  c = mm.mmap_cache \/ c \in Range(s)
<1>1. PICK p \in 1 .. Len(s) + 1 : find_vma(addr) = Nth(s, p) \/ find_vma(addr) = mm.mmap_cache
  BY FindVma
<1>2. Linked(s)
  BY DEF AreasAre
<1>3. CASE find_vma(addr) = Nth(s, p)
  <2>1. /\ p \in Nat /\ Len(s) \in Nat /\ \A i \in 1 .. Len(s) : s[i] \in Range(s)
        /\ (Nth(s, p) = None <=> p \notin 1 .. Len(s))
    BY <1>2, LinkedParts
  <2> QED BY <1>3, <2>1 DEF CacheVma, Nth
<1> QED BY <1>1, <1>3 DEF CacheVma

\* Only mmap_cache changes.
LEMMA CacheOnly ==
    ASSUME MmTypes, mm # None, AreasInv, NEW s \in Seq(Vma), AreasAre(s),
           NEW c, c = mm.mmap_cache \/ c \in Range(s),
           mm' = [mm EXCEPT !.mmap_cache = c], UNCHANGED <<vma, unused>>
    PROVE  AreasGoOn
<1>1. mm \in MmRecord /\ Linked(s)
  BY DEF MmTypes, AreasAre
<1>2. c \in Vma \cup {None}
  <2>1. mm.mmap_cache \in Vma \cup {None}
    BY <1>1 DEF MmRecord
  <2>2. \A v \in Range(s) : v \in Vma
    BY <1>1, LinkedParts
  <2> QED BY <2>1, <2>2
<1>3. /\ mm' \in MmRecord /\ mm'.pgd = mm.pgd /\ mm'.mmap = mm.mmap /\ mm'.map_count = mm.map_count
      /\ mm'.mmap_cache = c
  BY <1>1, <1>2 DEF MmRecord
<1>4. mm' # None
  BY <1>3, NoneAssumption
<1>5. Linked(s)' /\ Sorted(s)' /\ Range(s) \cap Range(unused') = {} /\ mm'.map_count = Len(s)
  BY <1>3 DEF AreasAre, Linked, Sorted, IsArea
<1>6. Remembered(s)'
  <2>1. CASE c \in Range(s)
    BY <1>3, <2>1 DEF Remembered
  <2>2. CASE c = mm.mmap_cache
    BY <1>3, <2>2 DEF AreasAre, Remembered, IsArea, WasAt
  <2> QED BY <2>1, <2>2
<1> QED BY <1>3, <1>4, <1>5, <1>6 DEF AreasGoOn, AreasAre, AreasInv, MmTypes

\* do_map, for a careful process.
LEMMA DoMap ==
    ASSUME MmTypes, AreasInv, Sparing, NEW addr \in Addresses, NEW len \in Lengths, do_map(addr, len)
    PROVE  AreasGoOn
<1>1. PICK s \in Seq(Vma) : AreasAre(s)
  BY DEF AreasInv, do_map, Runs
<1>2. mm # None /\ addr \in Nat /\ len \in Nat \ {0} /\ SparesAreas(addr, len) /\ Linked(s)
  BY <1>1, AddressAssumption DEF do_map, Runs, AreasAre
<1> DEFINE r == get_unmapped_area(addr, len)
           e == PageAlign((r + len) % Word)
           from == PageAlign(addr)
           cache == IF from = 0 \/ (from + len) % Word > KERNEL_ENTRY THEN mm.mmap_cache
                    ELSE CacheVma(find_vma(from))
<1>3. cache = mm.mmap_cache \/ cache \in Range(s)
  <2>1. addr <= KERNEL_ENTRY
    <3>1. addr + len <= KERNEL_ENTRY /\ KERNEL_ENTRY \in Nat
      BY <1>2, AddressAssumption DEF SparesAreas
    <3> QED BY <1>2, <3>1
  <2>2. from \in Nat
    BY <1>2, <2>1, AlignUp
  <2> HIDE DEF from
  <2> QED BY <1>1, <1>2, <2>2, CacheIs
<1>4. /\ unused = <<>> => mm' = [mm EXCEPT !.mmap_cache = cache] /\ UNCHANGED <<vma, unused>>
      /\ unused # <<>> => insert_vma_struct(Head(unused), r, e, cache) /\ unused' = Tail(unused)
  BY DEF do_map
<1>5. PICK rr, ee, cc : rr = r /\ ee = e /\ cc = cache
  OBVIOUS
<1> HIDE DEF r, e, cache
<1>6. CASE unused = <<>>
  BY <1>1, <1>2, <1>3, <1>4, <1>6, CacheOnly
<1>7. CASE unused # <<>>
  <2>1. /\ rr \in Nat /\ ee \in Nat /\ rr < ee /\ ee <= KERNEL_ENTRY
        /\ rr % PageBytes = 0 /\ ee % PageBytes = 0
        /\ \E k \in 1 .. Len(s) + 1 :
             /\ \A i \in 1 .. Len(s) : i < k => vma[s[i]].vm_end <= rr
             /\ k \in 1 .. Len(s) => ee <= vma[s[k]].vm_start
             /\ k = 1 => Len(s) = 0
    <3>1. rr = get_unmapped_area(addr, len) /\ ee = PageAlign((rr + len) % Word)
      BY <1>5 DEF r, e
    <3> QED BY <1>1, <1>2, <3>1, UnmappedArea
  <2>2. PICK k \in 1 .. Len(s) + 1 :
             /\ \A i \in 1 .. Len(s) : i < k => vma[s[i]].vm_end <= rr
             /\ k \in 1 .. Len(s) => ee <= vma[s[k]].vm_start
             /\ k = 1 => Len(s) = 0
    BY <2>1
  <2>3. IsInjective(unused) /\ mm.mmap_cache \in Vma \cup {None}
    BY <1>2 DEF AreasInv, MmTypes, MmRecord
  <2>4. cc \in Vma \cup {None} /\ (cc = None \/ cc \in Range(s) \/ cc = Head(unused))
    <3>1. \A v \in Range(s) : v \in Vma
      BY <1>2, LinkedParts
    <3>2. mm.mmap_cache = None \/ mm.mmap_cache \in Range(s) \/ mm.mmap_cache = Head(unused)
      BY <1>1 DEF AreasAre, Remembered
    <3> QED BY <1>3, <1>5, <2>3, <3>1, <3>2
  <2>5. insert_vma_struct(Head(unused), rr, ee, cc) /\ unused' = Tail(unused)
    BY <1>4, <1>5, <1>7
  <2>6. PICK v : v = Head(unused)
    OBVIOUS
  <2>7. /\ IsInjective(unused') /\ unused' \in Seq(Vma) /\ vma' \in [Vma -> Area]
        /\ mm' \in MmRecord /\ mm' # None /\ mm'.pgd = mm.pgd
        /\ \E z \in Seq(Vma) : AreasAre(z)'
    BY <1>1, <1>2, <1>7, <2>1, <2>2, <2>3, <2>4, <2>5, <2>6, Insert
  <2> QED BY <2>7 DEF AreasGoOn, AreasInv
<1> QED BY <1>6, <1>7

\* is_in_vma.
LEMMA IsInVma ==
    ASSUME MmTypes, AreasInv, NEW addr \in Addresses, is_in_vma(addr)
    PROVE  AreasGoOn
<1>1. PICK s \in Seq(Vma) : AreasAre(s)
  BY DEF AreasInv, is_in_vma, Runs
<1>2. mm # None /\ addr \in Nat
  BY AddressAssumption DEF is_in_vma, Runs
<1>3. PICK c : c = CacheVma(find_vma(addr))
  OBVIOUS
<1>4. c = mm.mmap_cache \/ c \in Range(s)
  BY <1>1, <1>2, <1>3, CacheIs
<1>5. mm' = [mm EXCEPT !.mmap_cache = c] /\ UNCHANGED <<vma, unused>>
  BY <1>3 DEF is_in_vma
<1> QED BY <1>1, <1>2, <1>4, <1>5, CacheOnly

\* The p-th area leaves the list; its memory is the next that kmalloc gives.
LEMMA RemoveArea ==
    ASSUME MmTypes, mm # None, AreasInv, NEW s \in Seq(Vma), AreasAre(s), NEW p \in 1 .. Len(s),
           NEW v, v = s[p],
           mm' = [mm EXCEPT !.mmap = IF p = 1 THEN vma[v].vm_next ELSE @,
                            !.mmap_cache = v, !.map_count = @ - 1],
           vma' = IF p = 1 THEN vma ELSE [vma EXCEPT ![s[p - 1]].vm_next = vma[v].vm_next],
           unused' = <<v>> \o unused
    PROVE  AreasGoOn
<1>0. Linked(s) /\ Sorted(s) /\ s \in Seq(Vma) /\ IsInjective(s) /\ mm.map_count = Len(s)
      /\ mm.mmap = Nth(s, 1) /\ mm \in MmRecord
  BY DEF AreasAre, Linked, MmTypes
<1>1. /\ Len(s) \in Nat /\ DOMAIN s = 1 .. Len(s) /\ p \in Nat
      /\ \A i \in 1 .. Len(s) : s[i] \in Vma /\ s[i] # None /\ s[i] \in Range(s)
                                /\ vma[s[i]].vm_start \in Nat /\ vma[s[i]].vm_end \in Nat
      /\ \A i, j \in 1 .. Len(s) : s[i] = s[j] => i = j
      /\ \A i \in Nat : Nth(s, i) \in Vma \cup {None}
  BY <1>0, LinkedParts
<1>2. v \in Vma /\ v # None /\ v \in Range(s) /\ vma[v].vm_next = Nth(s, p + 1)
  BY <1>0, <1>1 DEF Linked
<1>3. /\ unused' \in Seq(Vma) /\ IsInjective(unused') /\ Range(unused') = Range(unused) \cup {v}
      /\ unused' # <<>> /\ Head(unused') = v
  <2>1. v \notin Range(unused)
    BY <1>2 DEF AreasAre
  <2>2. unused \in Seq(Vma) /\ IsInjective(unused)
    BY DEF MmTypes, AreasInv
  <2>3. /\ unused' \in Seq(Vma) /\ IsInjective(unused') /\ Range(unused') = Range(unused) \cup {v}
    BY <1>2, <2>1, <2>2, ConsRange
  <2>4. Len(<<v>> \o unused) = 1 + Len(unused) /\ (<<v>> \o unused)[1] = v
    BY <1>2, <2>2
  <2>5. Head(unused') = v /\ unused' # <<>>
    BY <2>2, <2>3, <2>4
  <2> QED BY <2>3, <2>5
<1>4. PICK z : z = RemoveAt(s, p)
  OBVIOUS
<1>5. /\ z \in Seq(Vma) /\ Len(z) = Len(s) - 1 /\ IsInjective(z) /\ Range(z) = Range(s) \ {v}
      /\ \A i \in 1 .. Len(s) - 1 : z[i] = IF i < p THEN s[i] ELSE s[i + 1]
  BY <1>0, <1>4, RemoveAtElements, RemoveAtRange
<1>6. \A i \in 1 .. Len(s) - 1 : \/ i < p /\ i \in 1 .. Len(s) /\ z[i] = s[i]
                                 \/ ~(i < p) /\ i + 1 \in 1 .. Len(s) /\ z[i] = s[i + 1]
  BY <1>1, <1>5
<1>7. ASSUME NEW x \in Vma
      PROVE  /\ vma'[x] \in Area
             /\ vma'[x].vm_start = vma[x].vm_start /\ vma'[x].vm_end = vma[x].vm_end
             /\ vma'[x].vm_next = IF p # 1 /\ x = s[p - 1] THEN Nth(s, p + 1) ELSE vma[x].vm_next
  <2>1. vma[x] \in Area /\ vma \in [Vma -> Area]
    BY DEF MmTypes
  <2>2. CASE p = 1
    BY <2>1, <2>2
  <2>3. CASE p # 1
    <3>1. PICK q : q = s[p - 1] /\ q \in Vma
      <4>1. p - 1 \in 1 .. Len(s)
        BY <1>1, <2>3
      <4> QED BY <1>1, <4>1
    <3>2. vma' = [vma EXCEPT ![q].vm_next = Nth(s, p + 1)]
      BY <1>2, <2>3, <3>1
    <3>3. vma'[x] = IF x = q THEN [vma[x] EXCEPT !.vm_next = Nth(s, p + 1)] ELSE vma[x]
      BY <2>1, <3>2
    <3>4. Nth(s, p + 1) \in Vma \cup {None}
      BY <1>1
    <3> QED BY <2>1, <2>3, <3>1, <3>3, <3>4 DEF Area
  <2> QED BY <2>2, <2>3
<1>8. vma' \in [Vma -> Area]
  <2>1. DOMAIN vma' = Vma /\ vma' = [x \in Vma |-> vma'[x]]
    BY DEF MmTypes
  <2> QED BY <1>7, <2>1
<1>9. /\ mm' \in MmRecord /\ mm' # None /\ mm'.pgd = mm.pgd
      /\ mm'.mmap = (IF p = 1 THEN Nth(s, 2) ELSE mm.mmap) /\ mm'.mmap_cache = v
      /\ mm'.map_count = Len(s) - 1
  <2>1. PICK a, n : a = (IF p = 1 THEN Nth(s, 2) ELSE mm.mmap) /\ n = mm.map_count - 1
    OBVIOUS
  <2>2. p = 1 => vma[v].vm_next = Nth(s, 2)
    BY <1>2
  <2>3. mm' = [mm EXCEPT !.mmap = a, !.mmap_cache = v, !.map_count = n]
    BY <2>1, <2>2
  <2>4. a \in Vma \cup {None} /\ n \in Int /\ n = Len(s) - 1
    BY <1>0, <1>1, <2>1 DEF MmRecord
  <2>5. v \in Vma \cup {None} /\ mm \in MmRecord
    BY <1>0, <1>2
  <2>6. /\ mm' \in MmRecord /\ mm' # None /\ mm'.pgd = mm.pgd
        /\ mm'.mmap = a /\ mm'.mmap_cache = v /\ mm'.map_count = n
    <3>1. mm' \in MmRecord
      BY <2>3, <2>4, <2>5 DEF MmRecord
    <3>2. mm' # None
      BY <3>1, NoneAssumption
    <3> QED BY <2>3, <2>5, <3>1, <3>2 DEF MmRecord
  <2> QED BY <2>1, <2>4, <2>6
<1>10. Linked(z)'
  <2>1. mm'.mmap = Nth(z, 1)
    <3>1. CASE p = 1
      <4>1. CASE Len(s) = 1
        BY <1>5, <1>9, <3>1, <4>1 DEF Nth
      <4>2. CASE Len(s) # 1
        <5>1. 1 \in 1 .. Len(s) - 1 /\ 2 \in 1 .. Len(s) /\ ~(1 < p) /\ 1 \in 1 .. Len(z)
          BY <1>1, <1>5, <3>1, <4>2
        <5>2. z[1] = s[2]
          BY <1>5, <5>1
        <5> QED BY <1>9, <3>1, <5>1, <5>2 DEF Nth
      <4> QED BY <4>1, <4>2
    <3>2. CASE p # 1
      <4>1. 1 \in 1 .. Len(s) - 1 /\ 1 \in 1 .. Len(s) /\ 1 < p /\ 1 \in 1 .. Len(z)
        BY <1>1, <1>5, <3>2
      <4>2. z[1] = s[1]
        BY <1>5, <4>1
      <4> QED BY <1>0, <1>9, <3>2, <4>1, <4>2 DEF Nth
    <3> QED BY <3>1, <3>2
  <2>2. ASSUME NEW i \in 1 .. Len(z)  PROVE vma'[z[i]].vm_next = Nth(z, i + 1)
    <3>0. i \in 1 .. Len(s) - 1 /\ i \in Nat
      BY <1>1, <1>5
    <3>1. CASE i < p
      <4>1. i \in 1 .. Len(s) /\ z[i] = s[i] /\ s[i] \in Vma /\ vma[s[i]].vm_next = Nth(s, i + 1)
        BY <1>0, <1>1, <1>6, <3>0, <3>1 DEF Linked
      <4>2. CASE i = p - 1
        <5>1. p # 1 /\ s[i] = s[p - 1] /\ i + 1 = p
          BY <1>1, <3>0, <4>2
        <5>2. vma'[z[i]].vm_next = Nth(s, p + 1)
          BY <1>7, <4>1, <5>1
        <5>3. CASE p + 1 \in 1 .. Len(s)
          <6>1. p \in 1 .. Len(s) - 1 /\ ~(p < p) /\ p \in 1 .. Len(z)
            BY <1>1, <1>5, <5>3
          <6>2. z[p] = s[p + 1]
            BY <1>5, <6>1
          <6> QED BY <5>1, <5>2, <5>3, <6>1, <6>2 DEF Nth
        <5>4. CASE p + 1 \notin 1 .. Len(s)
          <6>1. p \notin 1 .. Len(z)
            BY <1>1, <1>5, <5>4
          <6> QED BY <5>1, <5>2, <5>4, <6>1 DEF Nth
        <5> QED BY <5>3, <5>4
      <4>3. CASE i # p - 1
        <5>1. i + 1 < p /\ i + 1 \in 1 .. Len(s) - 1 /\ i + 1 \in 1 .. Len(s) /\ i + 1 \in 1 .. Len(z)
          BY <1>1, <1>5, <3>0, <3>1, <4>3
        <5>2. z[i + 1] = s[i + 1]
          BY <1>5, <5>1
        <5>3. p # 1 => s[i] # s[p - 1]
          <6>1. p # 1 => p - 1 \in 1 .. Len(s)
            BY <1>1
          <6> QED BY <1>1, <4>1, <4>3, <6>1
        <5> QED BY <1>7, <4>1, <5>1, <5>2, <5>3 DEF Nth
      <4> QED BY <4>2, <4>3
    <3>2. CASE ~(i < p)
      <4>1. /\ i + 1 \in 1 .. Len(s) /\ z[i] = s[i + 1] /\ s[i + 1] \in Vma
            /\ vma[s[i + 1]].vm_next = Nth(s, (i + 1) + 1)
        BY <1>0, <1>1, <1>6, <3>0, <3>2 DEF Linked
      <4>2. p # 1 => s[i + 1] # s[p - 1]
        <5>1. p # 1 => p - 1 \in 1 .. Len(s) /\ p - 1 # i + 1
          BY <1>1, <3>0, <3>2
        <5> QED BY <1>1, <4>1, <5>1
      <4>3. vma'[z[i]].vm_next = Nth(s, (i + 1) + 1)
        BY <1>7, <4>1, <4>2
      <4>4. CASE i + 1 \in 1 .. Len(z)
        <5>1. i + 1 \in 1 .. Len(s) - 1 /\ ~(i + 1 < p) /\ (i + 1) + 1 \in 1 .. Len(s)
          BY <1>1, <1>5, <3>0, <3>2, <4>4
        <5>2. z[i + 1] = s[(i + 1) + 1]
          BY <1>5, <5>1
        <5> QED BY <4>3, <4>4, <5>1, <5>2 DEF Nth
      <4>5. CASE i + 1 \notin 1 .. Len(z)
        <5>1. (i + 1) + 1 \notin 1 .. Len(s)
          BY <1>1, <1>5, <3>0, <4>5
        <5> QED BY <4>3, <4>5, <5>1 DEF Nth
      <4> QED BY <4>4, <4>5
    <3> QED BY <3>1, <3>2
  <2> QED BY <1>5, <2>1, <2>2 DEF Linked, Nth
<1>11. Sorted(z)'
  <2>1. ASSUME NEW i \in 1 .. Len(z)  PROVE IsArea(z[i])'
    <3>1. i \in 1 .. Len(s) - 1
      BY <1>5
    <3>2. PICK j \in 1 .. Len(s) : z[i] = s[j]
      BY <1>6, <3>1
    <3>3. IsArea(s[j]) /\ s[j] \in Vma
      BY <1>0, <1>1 DEF Sorted
    <3> QED BY <1>7, <3>2, <3>3 DEF IsArea
  <2>2. ASSUME NEW i \in 1 .. Len(z), NEW j \in 1 .. Len(z), i < j
        PROVE  vma'[z[i]].vm_end <= vma'[z[j]].vm_start
    <3>1. i \in 1 .. Len(s) - 1 /\ j \in 1 .. Len(s) - 1
      BY <1>5
    <3>2. PICK k, l \in 1 .. Len(s) : z[i] = s[k] /\ z[j] = s[l] /\ k < l
      <4>1. CASE j < p
        <5>1. i < p
          BY <1>1, <2>2, <3>1, <4>1
        <5> QED BY <1>6, <2>2, <3>1, <4>1, <5>1
      <4>2. CASE ~(j < p)
        <5>1. j + 1 \in 1 .. Len(s) /\ z[j] = s[j + 1]
          BY <1>6, <3>1, <4>2
        <5>2. i < j + 1 /\ i + 1 < j + 1
          BY <1>1, <2>2, <3>1
        <5>3. (i \in 1 .. Len(s) /\ z[i] = s[i]) \/ (i + 1 \in 1 .. Len(s) /\ z[i] = s[i + 1])
          BY <1>6, <3>1
        <5> QED BY <5>1, <5>2, <5>3
      <4> QED BY <4>1, <4>2
    <3>3. vma[s[k]].vm_end <= vma[s[l]].vm_start
      BY <1>0, <3>2 DEF Sorted
    <3> QED BY <1>1, <1>7, <3>2, <3>3
  <2> QED BY <2>1, <2>2 DEF Sorted
<1>12. Remembered(z)'
  <2>1. IsArea(v)'
    <3>1. IsArea(v)
      BY <1>0 DEF Sorted
    <3> QED BY <1>2, <1>7, <3>1 DEF IsArea
  <2>2. p \in 1 .. Len(z) + 1
    BY <1>1, <1>5
  <2>3. vma'[v].vm_next = Nth(z, p)
    <3>1. p # 1 => v # s[p - 1]
      <4>1. p # 1 => p - 1 \in 1 .. Len(s) /\ p - 1 # p
        BY <1>1
      <4> QED BY <1>1, <4>1
    <3>2. vma'[v].vm_next = Nth(s, p + 1)
      BY <1>2, <1>7, <3>1
    <3>3. CASE p \in 1 .. Len(z)
      <4>1. p \in 1 .. Len(s) - 1 /\ ~(p < p) /\ p + 1 \in 1 .. Len(s)
        BY <1>1, <1>5, <3>3
      <4>2. z[p] = s[p + 1]
        BY <1>5, <4>1
      <4> QED BY <3>2, <3>3, <4>1, <4>2 DEF Nth
    <3>4. CASE p \notin 1 .. Len(z)
      <4>1. p + 1 \notin 1 .. Len(s)
        BY <1>1, <1>5, <3>4
      <4> QED BY <3>2, <3>4, <4>1 DEF Nth
    <3> QED BY <3>3, <3>4
  <2>4. ASSUME NEW i \in 1 .. Len(z), i < p  PROVE vma'[z[i]].vm_end <= vma'[v].vm_start
    <3>1. i \in 1 .. Len(s) - 1
      BY <1>5
    <3>2. i \in 1 .. Len(s) /\ z[i] = s[i] /\ s[i] \in Vma
      BY <1>1, <1>6, <2>4, <3>1
    <3>3. vma[s[i]].vm_end <= vma[s[p]].vm_start
      BY <1>0, <2>4, <3>2 DEF Sorted
    <3> QED BY <1>2, <1>7, <3>2, <3>3
  <2> QED BY <1>3, <1>9, <2>1, <2>2, <2>3, <2>4 DEF Remembered, WasAt
<1>13. Range(z) \cap Range(unused') = {}
  BY <1>3, <1>5 DEF AreasAre
<1>14. AreasAre(z)'
  BY <1>5, <1>9, <1>10, <1>11, <1>12, <1>13 DEF AreasAre
<1> QED BY <1>3, <1>5, <1>8, <1>9, <1>14 DEF AreasGoOn, AreasInv

\* do_unmap.
LEMMA DoUnmap ==
    ASSUME MmTypes, AreasInv, NEW addr, NEW len, do_unmap(addr, len)
    PROVE  AreasGoOn
<1>1. PICK s \in Seq(Vma) : AreasAre(s)
  BY DEF AreasInv, do_unmap, Runs
<1>2. mm # None /\ Linked(s)
  BY <1>1 DEF do_unmap, Runs, AreasAre
<1>3. PICK p \in 1 .. Len(s) + 1 : /\ FirstAfter(addr) = Nth(s, p)
                                   /\ Before(addr) = IF p = 1 THEN None ELSE s[p - 1]
  BY <1>2, FirstAfterIs
<1>4. PICK v : v = FirstAfter(addr)
  OBVIOUS
<1>5. /\ Len(s) \in Nat /\ p \in Nat /\ \A i \in 1 .. Len(s) : s[i] # None /\ s[i] \in Range(s)
  BY <1>2, LinkedParts
<1>6. v # None /\ p \in 1 .. Len(s) /\ v = s[p] /\ v \in Range(s)
  BY <1>3, <1>4, <1>5 DEF do_unmap, Nth
<1>7. Before(addr) = None <=> p = 1
  <2>1. p # 1 => p - 1 \in 1 .. Len(s)
    BY <1>5, <1>6
  <2> QED BY <1>3, <1>5, <2>1
<1>8. CASE vma[v].vm_start < addr + len /\ vma[v].vm_end >= addr + len
  <2>1. /\ mm' = [mm EXCEPT !.mmap = IF p = 1 THEN vma[v].vm_next ELSE @,
                            !.mmap_cache = v, !.map_count = @ - 1]
        /\ vma' = IF p = 1 THEN vma ELSE [vma EXCEPT ![s[p - 1]].vm_next = vma[v].vm_next]
        /\ unused' = <<v>> \o unused
    BY <1>3, <1>4, <1>7, <1>8 DEF do_unmap
  <2> QED BY <1>1, <1>2, <1>6, <2>1, RemoveArea
<1>9. CASE ~(vma[v].vm_start < addr + len /\ vma[v].vm_end >= addr + len)
  <2>1. mm' = [mm EXCEPT !.mmap_cache = v] /\ UNCHANGED <<vma, unused>>
    BY <1>4, <1>9 DEF do_unmap
  <2> QED BY <1>1, <1>2, <1>6, <2>1, CacheOnly
<1> QED BY <1>8, <1>9

--------------------------------------------------------------------------------
(* The invariant of the page tables *)

Block == Pages!Block
InBlock(b) == Pages!PagesOf(b)

\* The tables of pgd g from the entry i on, and the pages that they map, from the entry j on
\* in the first: where pgd_delete goes on.
Tabs(g, i) == { k \in i .. Entries - 1 : table[g][k] # None }
Leaf(g, e) == table[table[g][e[1]]][e[2]]
Leaves(g, i, j) ==
    { e \in Tabs(g, i) \X Entry : Leaf(g, e) # None /\ (e[1] = i => j <= e[2]) }

Directory(g, i) == {g} \cup { table[g][k] : k \in Tabs(g, i) }
LeafPages(g, i, j) == { Leaf(g, e) : e \in Leaves(g, i, j) }
Tree(g, i, j) == Directory(g, i) \cup LeafPages(g, i, j)

\* The pgd and the tables are blocks of a page each.
IsDirectory(g, i) ==
    /\ g \in Frame /\ <<g, 0>> \in lent
    /\ \A k \in Tabs(g, i) : table[g][k] # g /\ <<table[g][k], 0>> \in lent
    /\ \A k, l \in Tabs(g, i) : table[g][k] = table[g][l] => k = l

\* The pages mapped are mapped once, and with a page of a block its first one; each of them
\* starts a block when the program has n pages and that is one at most.
IsTree(g, i, j, n) ==
    /\ IsDirectory(g, i)
    /\ Directory(g, i) \cap LeafPages(g, i, j) = {}
    /\ \A d, e \in Leaves(g, i, j) : Leaf(g, d) = Leaf(g, e) => d = e
    /\ \A b \in lent : InBlock(b) \cap LeafPages(g, i, j) # {} => b[1] \in LeafPages(g, i, j)
    /\ n <= 1 => \A p \in LeafPages(g, i, j) : \E b \in lent : b[1] = p

InUse(P) == \A p \in P : \E b \in lent : p \in InBlock(b)

\* No block has pages of both.
Apart(P, Q) == P \cap Q = {} /\ \A b \in lent : InBlock(b) \cap P = {} \/ InBlock(b) \cap Q = {}

Disjoint == \A b, c \in lent : b # c => InBlock(b) \cap InBlock(c) = {}

\* What runuserprog has allocated for a program.
IsCode(b) == b \in lent /\ b[1] = op.code /\ op.npage <= 2^b[2]
IsStack(b) == b \in lent /\ b[1] = op.stack
IsBuffer(b) == b \in lent /\ b[1] = op.buf /\ b[1] \notin {op.code, op.stack}

\* The page for virtual page v after op.i steps of do_mapping.
Target(v) ==
    IF v \in USER_CODE_ENTRY .. USER_CODE_ENTRY + op.npage - 1 /\ v < USER_CODE_ENTRY + op.i
    THEN op.code + (v - USER_CODE_ENTRY)
    ELSE IF v = UserStackPage /\ op.i > op.npage THEN op.stack ELSE None

\* The tables of newmm map what was mapped so far.
IsMapped ==
    /\ \A k \in Tabs(op.new, 0), j \in Entry : table[table[op.new][k]][j] = Target(k * Entries + j)
    /\ \A v \in 0 .. Entries * Entries - 1 :
         Target(v) # None => table[op.new][v \div Entries] # None

\* A block that belongs to neither the process nor the tables of newmm.
IsOwn(b) == InBlock(b) \cap (Directory(op.new, 0) \cup Tree(mm.pgd, 0, 0)) = {}

\* The buffer lies beside the tables.
HasBuffer ==
    op.buf # None =>
        \E b \in lent : /\ IsBuffer(b)
                        /\ InBlock(b) \cap Tree(mm.pgd, 0, 0) = {}
                        /\ op.new # None => IsOwn(b)

\* The steps before newmm is made, and those in which it is built.
Begins == {"buffer", "read", "create"}
Builds == {"code", "stack", "map", "error_5", "activate"}

Loads ==
    op # None /\ op.at # "delete" =>
        /\ mm # None /\ HasBuffer
        /\ op.at = "buffer" => {op.buf, op.new, op.code, op.stack} = {None}
        /\ op.at \in Builds => /\ op.new # None /\ IsDirectory(op.new, 0)
                              /\ Directory(op.new, 0) \cap Tree(mm.pgd, 0, 0) = {}
        /\ op.at \in Begins \cup {"code", "stack"} => op.i = 0
        /\ op.at \in {"code", "stack"} => Tabs(op.new, 0) = {}
        /\ op.at \in {"stack", "map", "error_5", "activate"} =>
             0 < op.npage /\ \E b \in lent : IsCode(b) /\ IsOwn(b)
        /\ op.at \in {"map", "error_5", "activate"} =>
             /\ \E b \in lent : IsStack(b) /\ IsOwn(b)
             /\ op.stack # op.code /\ IsMapped
        /\ op.at \in {"map", "error_5"} => op.i <= op.npage
        /\ op.at = "activate" => op.i = op.npage + 1
        /\ op.at = "copy" => op.new = mm.pgd /\ {op.code, op.stack} \subseteq Tree(mm.pgd, 0, 0)

Deletes ==
    Deleting =>
        /\ mm # None /\ IsTree(op.pgd, op.i, op.j, op.npage)
        /\ op.of = "task" => op.pgd = mm.pgd
        /\ op.of = "new" => Apart(Tree(mm.pgd, 0, 0), Tree(op.pgd, op.i, op.j))

\* The process has its page tables, until pgd_delete deletes them.
HasTables ==
    mm # None /\ ~(Deleting /\ op.of = "task") =>
        IsTree(mm.pgd, 0, 0, loaded) /\ InUse(Tree(mm.pgd, 0, 0))

PagesInv == Disjoint /\ Loads /\ Deletes /\ HasTables

MmIInv == MmTypes /\ AreasInv /\ PagesInv /\ halved \in BOOLEAN

--------------------------------------------------------------------------------
(* Blocks *)

LEMMA BlockParts ==
    ASSUME NEW b \in Block
    PROVE  /\ b[1] \in Frame /\ b[2] \in 0 .. MAX_BUDDY_ORDER /\ b = <<b[1], b[2]>>
           /\ 2^b[2] \in Nat \ {0} /\ InBlock(b) = b[1] .. b[1] + 2^b[2] - 1
           /\ b[1] \in InBlock(b) /\ InBlock(b) \subseteq Frame
<1>1. /\ b[1] \in Frame /\ b[2] \in 0 .. MAX_BUDDY_ORDER /\ b = <<b[1], b[2]>>
      /\ b[1] + 2^b[2] <= NPages
  BY DEF Block, Pages!Block, Frame
<1>2. PICK n \in Nat \ {0} : n = 2^b[2]
  BY <1>1, PowersAssumption
<1>3. InBlock(b) = b[1] .. b[1] + n - 1
  BY <1>2 DEF InBlock, Pages!PagesOf
<1>4. b[1] \in InBlock(b) /\ InBlock(b) \subseteq Frame
  BY <1>1, <1>2, <1>3, MmAssumption, SMTT(30) DEF Frame
<1> QED BY <1>1, <1>2, <1>3, <1>4

LEMMA OnePage ==
    ASSUME NEW p \in Frame
    PROVE  InBlock(<<p, 0>>) = {p}
<1>1. InBlock(<<p, 0>>) = p .. p + 1 - 1 /\ p \in Nat
  BY PowersAssumption, MmAssumption DEF InBlock, Pages!PagesOf, Frame
<1> QED BY <1>1

\* What kmalloc gives is free, and large enough.
LEMMA KmallocIs ==
    ASSUME NEW n, FreeBlocks(n) # {}, NEW b, b = kmalloc(n)
    PROVE  /\ b \in Block /\ IsOrder(b[2], n)
           /\ \A d \in lent : InBlock(b) \cap InBlock(d) = {}
<1> DEFINE T == { c[1] : c \in FreeBlocks(n) }
<1>1. FreeBlocks(n) \subseteq Block
  BY DEF FreeBlocks, Block
<1>2. T \in SUBSET Nat /\ T # {}
  <2>1. \A c \in FreeBlocks(n) : c[1] \in Nat
    BY <1>1, BlockParts, MmAssumption DEF Frame
  <2> QED BY <2>1
<1>3. PICK m \in T : \A y \in T : m <= y
  <2> HIDE DEF T
  <2> QED BY <1>2, LeastNat
<1>4. \E c \in FreeBlocks(n) : \A d \in FreeBlocks(n) : c[1] <= d[1]
  BY <1>3
<1>5. b \in FreeBlocks(n)
  BY <1>4 DEF kmalloc
<1>6. Pages!Unlent(b) => \A d \in lent : InBlock(b) \cap InBlock(d) = {}
  BY DEF Pages!Unlent, Pages!Lent, InBlock
<1> QED BY <1>1, <1>5, <1>6 DEF FreeBlocks

\* For one page, it gives a block of a page.
LEMMA KmallocPage ==
    ASSUME FreeBlocks(1) # {}, NEW b, b = kmalloc(1)
    PROVE  b[1] \in Frame /\ b = <<b[1], 0>>
<1>1. b \in Block /\ IsOrder(b[2], 1)
  BY KmallocIs
<1>2. b[2] \in 0 .. MAX_BUDDY_ORDER /\ b[1] \in Frame /\ b = <<b[1], b[2]>>
  BY <1>1, BlockParts
<1>3. b[2] = 0
  <2> SUFFICES ASSUME b[2] > 0 PROVE FALSE
    BY <1>2, MmAssumption
  <2>1. PICK k \in 0 .. MAX_BUDDY_ORDER : k = b[2] - 1
    BY <1>2, MmAssumption
  <2>2. 2^k < 1
    BY <1>1, <2>1 DEF IsOrder
  <2>3. PICK m \in Nat \ {0} : m = 2^k
    BY PowersAssumption
  <2> QED BY <2>2, <2>3
<1> QED BY <1>2, <1>3

\* The only block that starts at a page, or contains one that is a block by itself.
LEMMA TheBlock ==
    ASSUME Disjoint, lent \subseteq Block, NEW b \in lent, NEW c \in lent
    PROVE  /\ b[1] = c[1] => b = c
           /\ c[1] \in InBlock(b) => b = c
           /\ \A p : b = <<p, 0>> /\ p \in InBlock(c) => b = c
<1>1. b[1] \in InBlock(b) /\ c[1] \in InBlock(c)
  BY BlockParts
<1>2. b # c => InBlock(b) \cap InBlock(c) = {}
  BY DEF Disjoint
<1>3. ASSUME NEW p, b = <<p, 0>>, p \in InBlock(c)  PROVE b = c
  <2>1. p = b[1]
    BY <1>3
  <2> QED BY <1>1, <1>2, <1>3, <2>1
<1> QED BY <1>1, <1>2, <1>3

--------------------------------------------------------------------------------
(* Page tables *)

\* Pages tables of which nothing changes.
LEMMA TreeSame ==
    ASSUME NEW g, NEW i, NEW j, table'[g] = table[g],
           \A k \in Tabs(g, i) : table'[table[g][k]] = table[table[g][k]]
    PROVE  /\ Tabs(g, i)' = Tabs(g, i) /\ Directory(g, i)' = Directory(g, i)
           /\ Leaves(g, i, j)' = Leaves(g, i, j)
           /\ \A e \in Leaves(g, i, j) : Leaf(g, e)' = Leaf(g, e)
           /\ LeafPages(g, i, j)' = LeafPages(g, i, j) /\ Tree(g, i, j)' = Tree(g, i, j)
<1>1. Tabs(g, i)' = Tabs(g, i) /\ Directory(g, i)' = Directory(g, i)
  BY DEF Tabs, Directory
<1>2. \A e \in Tabs(g, i) \X Entry : Leaf(g, e)' = Leaf(g, e)
  <2> TAKE e \in Tabs(g, i) \X Entry
  <2>1. e[1] \in Tabs(g, i)
    OBVIOUS
  <2> QED BY <2>1 DEF Leaf
<1>3. Leaves(g, i, j)' = Leaves(g, i, j)
  BY <1>1, <1>2 DEF Leaves
<1>4. \A e \in Leaves(g, i, j) : Leaf(g, e)' = Leaf(g, e)
  BY <1>2 DEF Leaves
<1>5. LeafPages(g, i, j)' = LeafPages(g, i, j)
  BY <1>3, <1>4 DEF LeafPages
<1> QED BY <1>1, <1>3, <1>4, <1>5 DEF Tree

\* No block is taken or given back that has pages of them.
LEMMA TreeStays ==
    ASSUME lent \subseteq Block, NEW g, NEW i, NEW j, NEW n, IsTree(g, i, j, n), table'[g] = table[g],
           \A k \in Tabs(g, i) : table'[table[g][k]] = table[table[g][k]],
           \A b \in lent : InBlock(b) \cap Tree(g, i, j) # {} => b \in lent',
           \A b \in lent' : InBlock(b) \cap Tree(g, i, j) # {} => b \in lent
    PROVE  /\ IsTree(g, i, j, n)'
           /\ InUse(Tree(g, i, j)) => InUse(Tree(g, i, j))'
<1>1. /\ Tabs(g, i)' = Tabs(g, i) /\ Directory(g, i)' = Directory(g, i)
      /\ Leaves(g, i, j)' = Leaves(g, i, j)
      /\ \A e \in Leaves(g, i, j) : Leaf(g, e)' = Leaf(g, e)
      /\ LeafPages(g, i, j)' = LeafPages(g, i, j) /\ Tree(g, i, j)' = Tree(g, i, j)
  BY TreeSame
<1>2. \A p : <<p, 0>> \in lent /\ p \in Tree(g, i, j) => <<p, 0>> \in lent'
  <2> SUFFICES ASSUME NEW p, <<p, 0>> \in lent, p \in Tree(g, i, j) PROVE <<p, 0>> \in lent'
    OBVIOUS
  <2>1. <<p, 0>>[1] \in InBlock(<<p, 0>>)
    BY BlockParts
  <2> QED BY <2>1
<1>3. IsDirectory(g, i)'
  <2>1. g \in Tree(g, i, j) /\ \A k \in Tabs(g, i) : table[g][k] \in Tree(g, i, j)
    BY DEF Tree, Directory
  <2> QED BY <1>1, <1>2, <2>1 DEF IsTree, IsDirectory
<1>4. \A b \in lent' : InBlock(b) \cap LeafPages(g, i, j) # {} => b[1] \in LeafPages(g, i, j)
  BY DEF IsTree, Tree
<1>5. n <= 1 => \A p \in LeafPages(g, i, j) : \E b \in lent' : b[1] = p
  <2> SUFFICES ASSUME n <= 1, NEW p \in LeafPages(g, i, j) PROVE \E b \in lent' : b[1] = p
    OBVIOUS
  <2>1. PICK b \in lent : b[1] = p
    BY DEF IsTree
  <2>2. b[1] \in InBlock(b) /\ p \in Tree(g, i, j)
    BY BlockParts DEF Tree
  <2> QED BY <2>1, <2>2
<1>6. InUse(Tree(g, i, j)) => InUse(Tree(g, i, j))'
  BY <1>1 DEF InUse
<1>7. \A d, e \in Leaves(g, i, j)' : Leaf(g, d)' = Leaf(g, e)' => d = e
  BY <1>1 DEF IsTree
<1> QED BY <1>1, <1>3, <1>4, <1>5, <1>6, <1>7 DEF IsTree

\* A block that is free has no page of those in use.
LEMMA FreePages ==
    ASSUME NEW b, \A d \in lent : InBlock(b) \cap InBlock(d) = {}, NEW P, InUse(P)
    PROVE  InBlock(b) \cap P = {}
BY DEF InUse

\* Blocks stay disjoint.
LEMMA StayDisjoint ==
    ASSUME Disjoint,
           \/ lent' \subseteq lent
           \/ \E b : lent' = lent \cup {b} /\ \A d \in lent : InBlock(b) \cap InBlock(d) = {}
    PROVE  Disjoint'
<1>1. CASE lent' \subseteq lent
  BY <1>1 DEF Disjoint
<1>2. ASSUME NEW b, lent' = lent \cup {b}, \A d \in lent : InBlock(b) \cap InBlock(d) = {}
      PROVE  Disjoint'
  BY <1>2 DEF Disjoint
<1> QED BY <1>1, <1>2

\* The pages of a program.
LEMMA ProgramPages ==
    /\ \A n \in Programs : n \in Nat /\ USER_CODE_ENTRY + n <= UserStackPage
    /\ \A s \in FileSizes : npage_of(s) \in Programs
<1>1. ASSUME NEW s \in FileSizes
      PROVE  npage_of(s) \in Nat
  <2>1. PICK d, e \in Nat : d = PageBytes /\ e = s + PageBytes - 1 /\ d > 0
    <3>1. PageBytes \in Nat \ {0} /\ s \in Nat
      BY AddressAssumption, MmAssumption
    <3> QED BY <3>1
  <2>2. e \div d \in Nat
    BY <2>1
  <2> QED BY <2>1, <2>2 DEF npage_of
<1> QED BY <1>1, MmAssumption DEF Programs

\* The number of the virtual page of an entry of a table.
V(e) == e[1] * Entries + e[2]

LEMMA VaOf ==
    ASSUME NEW e \in Entry \X Entry
    PROVE  /\ V(e) \in Nat /\ V(e) \div Entries = e[1] /\ V(e) % Entries = e[2]
<1>0. PICK n \in Nat : n = Entries
  BY MmAssumption
<1>a. e[1] \in 0 .. n - 1 /\ e[2] \in 0 .. n - 1
  BY <1>0 DEF Entry
<1>1. PICK q, r \in Nat : n = Entries /\ q = e[1] /\ r = e[2] /\ r \in 0 .. n - 1 /\ n > 0
  BY <1>0, <1>a
<1>2. (q * n + r) \div n = q /\ (q * n + r) % n = r
  BY <1>1, PlaceOf
<1>3. q * n + r \in Nat
  <2>1. q * n \in Nat
    BY <1>1
  <2> QED BY <1>1, <2>1
<1>4. V(e) = q * n + r
  BY <1>1 DEF V
<1> QED BY <1>1, <1>2, <1>3, <1>4

LEMMA VaBound ==
    ASSUME NEW e \in Entry \X Entry
    PROVE  V(e) < Entries * Entries
<1>1. PICK n \in Nat : n = Entries
  BY MmAssumption
<1>2. e[1] \in 0 .. n - 1 /\ e[2] \in 0 .. n - 1
  BY <1>1 DEF Entry
<1>3. PICK q, r \in Nat : q = e[1] /\ r = e[2] /\ q + 1 <= n /\ r < n
  BY <1>2
<1>4. \A x, y \in Nat : x <= y => x * n <= y * n
  BY <1>1
<1>5. (q + 1) * n <= n * n /\ (q + 1) * n = q * n + n
  BY <1>1, <1>3, <1>4
<1>6. PICK x, y \in Nat : x = q * n /\ y = n * n
  BY <1>1
<1>7. x + r < y
  BY <1>1, <1>3, <1>5, <1>6
<1> QED BY <1>1, <1>3, <1>6, <1>7 DEF V

LEMMA VaInjective ==
    ASSUME NEW d \in Entry \X Entry, NEW e \in Entry \X Entry, V(d) = V(e)
    PROVE  d = e
<1>1. d[1] = e[1] /\ d[2] = e[2]
  BY VaOf
<1> QED BY <1>1

LEMMA EntryOf ==
    ASSUME NEW v \in Nat, v < Entries * Entries
    PROVE  /\ v \div Entries \in Entry /\ v % Entries \in Entry
           /\ V(<<v \div Entries, v % Entries>>) = v
<1>1. PICK n \in Nat : n = Entries
  BY MmAssumption
<1>2. n # 0
  BY <1>1
<1>3. PICK q, r \in Nat : q = v \div n /\ r = v % n /\ v = q * n + r /\ r < n
  BY <1>2, DivMod
<1>4. q < n
  <2>1. \A x, y \in Nat : x <= y => x * n <= y * n
    BY <1>1
  <2>2. CASE n <= q
    <3>1. n * n <= q * n
      BY <2>1, <2>2
    <3>2. v < n * n
      BY <1>1
    <3>3. PICK x, y \in Nat : x = n * n /\ y = q * n
      OBVIOUS
    <3> QED BY <1>3, <3>1, <3>2, <3>3
  <2> QED BY <2>2
<1>5. q \in Entry /\ r \in Entry
  BY <1>1, <1>3, <1>4 DEF Entry
<1>6. V(<<q, r>>) = v
  BY <1>1, <1>3 DEF V
<1> QED BY <1>1, <1>3, <1>5, <1>6

\* The tables that runuserprog builds, at any time.
LEMMA MappedTree ==
    ASSUME MmTypes, Disjoint, op \in Loading, op.new # None, IsDirectory(op.new, 0), IsMapped,
           0 < op.npage, op.stack # op.code,
           NEW cb \in lent, IsCode(cb), NEW sb \in lent, IsStack(sb), IsOwn(cb), IsOwn(sb)
    PROVE  /\ IsTree(op.new, 0, 0, op.npage) /\ InUse(Tree(op.new, 0, 0))
           /\ LeafPages(op.new, 0, 0) \subseteq InBlock(cb) \cup {op.stack}
           /\ op.i <= op.npage => LeafPages(op.new, 0, 0) \subseteq InBlock(cb)
           /\ op.i = op.npage + 1 => {op.code, op.stack} \subseteq LeafPages(op.new, 0, 0)
<1> DEFINE g == op.new
           U == USER_CODE_ENTRY
           n == op.npage
           L == Leaves(g, 0, 0)
           InCode(v) == v \in Nat /\ U <= v /\ v < U + n /\ v < U + op.i
<1>0. /\ U \in Nat /\ n \in Nat /\ U + n <= UserStackPage /\ UserStackPage \in Nat
      /\ UserStackPage < Entries * Entries /\ op.i \in Nat /\ Entries * Entries \in Nat
  <2>1. n \in Programs /\ op.i \in Nat
    BY DEF Loading
  <2> QED BY <2>1, MmAssumption, ProgramPages
<1>1. /\ cb[1] = op.code /\ sb[1] = op.stack /\ cb \in Block /\ sb \in Block /\ n <= 2^cb[2]
  BY DEF IsCode, IsStack, MmTypes, Block
<1>2. PICK s \in Nat : /\ s = 2^cb[2] /\ InBlock(cb) = op.code .. op.code + s - 1
                       /\ op.code \in Nat /\ n <= s
  <2>1. /\ 2^cb[2] \in Nat \ {0} /\ InBlock(cb) = cb[1] .. cb[1] + 2^cb[2] - 1 /\ cb[1] \in Nat
    <3>1. /\ 2^cb[2] \in Nat \ {0} /\ InBlock(cb) = cb[1] .. cb[1] + 2^cb[2] - 1 /\ cb[1] \in Frame
      BY <1>1, BlockParts
    <3> QED BY <3>1, MmAssumption DEF Frame
  <2>2. PICK s \in Nat : s = 2^cb[2]
    BY <2>1
  <2>3. InBlock(cb) = cb[1] .. cb[1] + s - 1 /\ n <= s
    BY <1>1, <2>1, <2>2
  <2> QED BY <1>1, <2>1, <2>2, <2>3
<1>3. op.stack \in InBlock(sb) /\ op.stack \notin InBlock(cb) /\ op.stack # None
  <2>1. sb # cb
    BY <1>1
  <2>2. InBlock(sb) \cap InBlock(cb) = {}
    BY <2>1 DEF Disjoint
  <2> QED BY <1>1, <2>2, BlockParts, NoneAssumption
<1>4. \A v \in Nat : /\ InCode(v) => /\ Target(v) = op.code + (v - U) /\ Target(v) \in InBlock(cb)
                     /\ ~InCode(v) /\ Target(v) # None =>
                          v = UserStackPage /\ Target(v) = op.stack /\ op.i > n
  <2> TAKE v \in Nat
  <2>1. CASE InCode(v)
    <3>1. v \in U .. U + n - 1 /\ v < U + op.i
      BY <1>0, <2>1
    <3>2. Target(v) = op.code + (v - U)
      BY <3>1 DEF Target
    <3>3. op.code + (v - U) \in op.code .. op.code + s - 1
      <4>1. PICK c, u, w \in Nat : c = op.code /\ u = U /\ w = n
        BY <1>0, <1>2
      <4>2. u <= v /\ v < u + w /\ w <= s
        BY <1>2, <2>1, <4>1
      <4>3. c + (v - u) \in c .. c + s - 1
        BY <4>2
      <4> QED BY <4>1, <4>3
    <3> QED BY <1>2, <2>1, <3>2, <3>3
  <2>2. CASE ~InCode(v)
    <3>1. ~(v \in U .. U + n - 1 /\ v < U + op.i)
      BY <1>0, <2>2
    <3> QED BY <2>2, <3>1 DEF Target
  <2> QED BY <2>1, <2>2
<1> HIDE DEF InCode
<1>5. ASSUME NEW e \in L
      PROVE  /\ e \in Entry \X Entry /\ V(e) \in Nat /\ Leaf(g, e) = Target(V(e)) /\ Leaf(g, e) # None
  <2>1. e \in Tabs(g, 0) \X Entry /\ Leaf(g, e) # None
    BY DEF Leaves
  <2>2. Tabs(g, 0) \subseteq Entry
    BY DEF Tabs, Entry
  <2>3. Leaf(g, e) = Target(V(e))
    BY <2>1 DEF Leaf, V, IsMapped
  <2> QED BY <2>1, <2>2, <2>3, VaOf
<1>6. \A e \in L : \/ InCode(V(e)) /\ Leaf(g, e) = op.code + (V(e) - U) /\ Leaf(g, e) \in InBlock(cb)
                   \/ V(e) = UserStackPage /\ Leaf(g, e) = op.stack /\ op.i > n
  BY <1>4, <1>5
<1>7. LeafPages(g, 0, 0) \subseteq InBlock(cb) \cup {op.stack}
  BY <1>6 DEF LeafPages
<1>8. op.i <= n => LeafPages(g, 0, 0) \subseteq InBlock(cb)
  <2>1. op.i <= n => ~(op.i > n)
    BY <1>0
  <2> QED BY <1>6, <2>1 DEF LeafPages
<1>9. Directory(g, 0) \cap LeafPages(g, 0, 0) = {}
  <2>1. InBlock(cb) \cap Directory(g, 0) = {} /\ InBlock(sb) \cap Directory(g, 0) = {}
    BY DEF IsOwn
  <2> QED BY <1>3, <1>7, <2>1
<1>10. ASSUME NEW d \in L, NEW e \in L, Leaf(g, d) = Leaf(g, e)  PROVE d = e
  <2>1. V(d) = V(e)
    <3>1. CASE Leaf(g, d) = op.stack
      BY <1>3, <1>6, <1>10, <3>1
    <3>2. CASE Leaf(g, d) # op.stack
      <4>1. Leaf(g, d) = op.code + (V(d) - U) /\ Leaf(g, e) = op.code + (V(e) - U)
        BY <1>6, <1>10, <3>2
      <4>2. V(d) \in Nat /\ V(e) \in Nat
        BY <1>5
      <4>3. PICK c, u, v, w \in Nat : c = op.code /\ u = U /\ v = V(d) /\ w = V(e)
        BY <1>0, <1>2, <4>2
      <4>4. c + (v - u) = c + (w - u)
        BY <1>10, <4>1, <4>3
      <4>5. v = w
        BY <4>4
      <4> QED BY <4>3, <4>5
    <3> QED BY <3>1, <3>2
  <2> QED BY <1>5, <2>1, VaInjective
<1>a. ASSUME NEW v \in Nat, v < Entries * Entries, Target(v) # None
      PROVE  Target(v) \in LeafPages(g, 0, 0)
  <2> DEFINE k == v \div Entries
             r == v % Entries
  <2>1. k \in Entry /\ r \in Entry /\ V(<<k, r>>) = v
    BY <1>a, EntryOf
  <2>2. k \in Tabs(g, 0)
    <3>1. v \in 0 .. Entries * Entries - 1
      BY <1>0, <1>a
    <3>2. table[g][k] # None
      BY <1>a, <3>1 DEF IsMapped
    <3> QED BY <2>1, <3>2 DEF Tabs, Entry
  <2> HIDE DEF k, r
  <2>3. Leaf(g, <<k, r>>) = Target(k * Entries + r) /\ k * Entries + r = v
    BY <2>1, <2>2 DEF IsMapped, Leaf, V
  <2>4. <<k, r>> \in L
    <3>1. <<k, r>>[1] = 0 => 0 <= <<k, r>>[2]
      BY <2>1, MmAssumption DEF Entry
    <3> QED BY <1>a, <2>1, <2>2, <2>3, <3>1 DEF Leaves
  <2> QED BY <2>3, <2>4 DEF LeafPages
<1>b. op.i > 0 => op.code \in LeafPages(g, 0, 0)
  <2> SUFFICES ASSUME op.i > 0 PROVE op.code \in LeafPages(g, 0, 0)
    OBVIOUS
  <2>1. U \in Nat /\ InCode(U) /\ U < Entries * Entries
    BY <1>0 DEF InCode
  <2>2. Target(U) = op.code + (U - U) /\ Target(U) \in InBlock(cb)
    BY <1>4, <2>1
  <2>3. Target(U) \in Frame
    BY <1>1, <2>2, BlockParts
  <2>4. Target(U) = op.code /\ Target(U) # None
    BY <1>0, <1>2, <2>2, <2>3, NoneAssumption
  <2> QED BY <1>a, <2>1, <2>4
<1>c. op.i > n => op.stack \in LeafPages(g, 0, 0)
  <2> SUFFICES ASSUME op.i > n PROVE op.stack \in LeafPages(g, 0, 0)
    OBVIOUS
  <2>1. UserStackPage \notin U .. U + n - 1
    BY <1>0
  <2>2. Target(UserStackPage) = op.stack /\ op.stack # None
    BY <1>3, <2>1 DEF Target
  <2> QED BY <1>0, <1>a, <2>2
<1>11. ASSUME NEW e \in L, InCode(V(e))  PROVE op.code \in LeafPages(g, 0, 0)
  <2>1. op.i > 0
    BY <1>0, <1>5, <1>11 DEF InCode
  <2> QED BY <1>b, <2>1
<1>12. ASSUME NEW b \in lent, NEW p \in InBlock(b), p \in LeafPages(g, 0, 0)
       PROVE  b[1] \in LeafPages(g, 0, 0)
  <2>1. PICK e \in L : p = Leaf(g, e)
    BY <1>12 DEF LeafPages
  <2>2. CASE InCode(V(e)) /\ p \in InBlock(cb)
    <3>1. b = cb
      BY <2>2 DEF Disjoint
    <3> QED BY <1>1, <1>11, <2>2, <3>1
  <2>3. CASE p = op.stack
    <3>1. b = sb
      BY <1>3, <2>3 DEF Disjoint
    <3> QED BY <1>1, <1>12, <2>3, <3>1
  <2> QED BY <1>6, <2>1, <2>2, <2>3
<1>13. ASSUME n <= 1, NEW p \in LeafPages(g, 0, 0)  PROVE \E b \in lent : b[1] = p
  <2>1. PICK e \in L : p = Leaf(g, e)
    BY DEF LeafPages
  <2>2. CASE InCode(V(e)) /\ p = op.code + (V(e) - U)
    <3>1. V(e) = U
      BY <1>0, <1>13, <2>2 DEF InCode
    <3> QED BY <1>0, <1>1, <1>2, <2>2, <3>1
  <2>3. CASE p = op.stack
    BY <1>1, <2>3
  <2> QED BY <1>6, <2>1, <2>2, <2>3
<1>14. IsTree(g, 0, 0, n)
  BY <1>9, <1>10, <1>12, <1>13 DEF IsTree
<1>15. InUse(Tree(g, 0, 0))
  <2>1. ASSUME NEW p \in Directory(g, 0)  PROVE \E b \in lent : p \in InBlock(b)
    <3>1. <<p, 0>> \in lent
      BY DEF Directory, IsDirectory
    <3>2. <<p, 0>> \in Block /\ <<p, 0>>[1] = p
      BY <3>1 DEF MmTypes, Block
    <3> QED BY <3>1, <3>2, BlockParts
  <2>2. ASSUME NEW p \in LeafPages(g, 0, 0)  PROVE \E b \in lent : p \in InBlock(b)
    BY <1>3, <1>7
  <2> QED BY <2>1, <2>2 DEF InUse, Tree
<1>16. op.i = n + 1 => {op.code, op.stack} \subseteq LeafPages(g, 0, 0)
  BY <1>0, <1>b, <1>c
<1> QED BY <1>7, <1>8, <1>14, <1>15, <1>16

--------------------------------------------------------------------------------
(* Steps that take and give back pages *)

\* Nothing changes.
LEMMA PagesSame ==
    ASSUME UNCHANGED <<lent, table>>, NEW g, NEW i, NEW j, NEW n
    PROVE  /\ Tabs(g, i)' = Tabs(g, i) /\ Directory(g, i)' = Directory(g, i)
           /\ Tree(g, i, j)' = Tree(g, i, j) /\ LeafPages(g, i, j)' = LeafPages(g, i, j)
           /\ IsDirectory(g, i) => IsDirectory(g, i)'
           /\ IsTree(g, i, j, n) => IsTree(g, i, j, n)'
           /\ InUse(Tree(g, i, j)) => InUse(Tree(g, i, j))'
<1>1. /\ Tabs(g, i)' = Tabs(g, i) /\ Directory(g, i)' = Directory(g, i)
      /\ Leaves(g, i, j)' = Leaves(g, i, j)
      /\ \A e \in Leaves(g, i, j) : Leaf(g, e)' = Leaf(g, e)
      /\ LeafPages(g, i, j)' = LeafPages(g, i, j) /\ Tree(g, i, j)' = Tree(g, i, j)
  BY TreeSame
<1>2. IsDirectory(g, i) => IsDirectory(g, i)'
  BY <1>1 DEF IsDirectory
<1>3. IsTree(g, i, j, n) => IsTree(g, i, j, n)'
  BY <1>1, <1>2 DEF IsTree
<1>4. InUse(Tree(g, i, j)) => InUse(Tree(g, i, j))'
  BY <1>1 DEF InUse
<1> QED BY <1>1, <1>2, <1>3, <1>4

\* A pgd that does not change.
LEMMA DirectorySame ==
    ASSUME NEW g, NEW i, table'[g] = table[g]
    PROVE  /\ Tabs(g, i)' = Tabs(g, i) /\ Directory(g, i)' = Directory(g, i)
           /\ IsDirectory(g, i) /\ lent \subseteq lent' => IsDirectory(g, i)'
<1>1. Tabs(g, i)' = Tabs(g, i) /\ Directory(g, i)' = Directory(g, i)
  BY DEF Tabs, Directory
<1> QED BY <1>1 DEF IsDirectory

\* Where a page is mapped.
LEMMA MappedNow ==
    ASSUME NEW g, op'.new = g,
           \A l \in Tabs(g, 0)', j \in Entry : table'[table'[g][l]][j] = Target(l * Entries + j)',
           \A w \in 0 .. Entries * Entries - 1 : Target(w)' # None => table'[g][w \div Entries] # None
    PROVE  IsMapped'
BY DEF IsMapped

LEMMA MappedAlike ==
    ASSUME NEW g, op'.new = g, table'[g] = table[g],
           \A l \in Tabs(g, 0), j \in Entry : table'[table[g][l]][j] = Target(l * Entries + j)',
           \A w \in 0 .. Entries * Entries - 1 : Target(w)' # None => table[g][w \div Entries] # None
    PROVE  IsMapped'
<1>1. Tabs(g, 0)' = Tabs(g, 0)
  BY DirectorySame
<1>2. \A l \in Tabs(g, 0)', j \in Entry : table'[table'[g][l]][j] = Target(l * Entries + j)'
  BY <1>1
<1> QED BY <1>2, MappedNow

\* A block is taken.
LEMMA TreeBesideNew ==
    ASSUME MmTypes, NEW g, NEW i, NEW j, NEW n, IsTree(g, i, j, n), InUse(Tree(g, i, j)),
           NEW b, \A d \in lent : InBlock(b) \cap InBlock(d) = {}, lent' = lent \cup {b},
           \A p \in Directory(g, i) : table'[p] = table[p]
    PROVE  /\ IsTree(g, i, j, n)' /\ Tree(g, i, j)' = Tree(g, i, j) /\ InUse(Tree(g, i, j))'
           /\ Directory(g, i)' = Directory(g, i)
           /\ InBlock(b) \cap Tree(g, i, j) = {}
<1>1. lent \subseteq Block
  BY DEF MmTypes, Block
<1>2. InBlock(b) \cap Tree(g, i, j) = {}
  BY FreePages
<1>3. table'[g] = table[g] /\ \A k \in Tabs(g, i) : table'[table[g][k]] = table[table[g][k]]
  BY DEF Directory
<1>4. Tree(g, i, j)' = Tree(g, i, j) /\ Directory(g, i)' = Directory(g, i)
  BY <1>3, TreeSame
<1>5. IsTree(g, i, j, n)' /\ InUse(Tree(g, i, j))'
  BY <1>1, <1>2, <1>3, TreeStays
<1> QED BY <1>2, <1>4, <1>5

\* The pages of a directory are blocks by themselves.
LEMMA DirectoryBlocks ==
    ASSUME MmTypes, NEW g, NEW i, IsDirectory(g, i)
    PROVE  /\ \A p \in Directory(g, i) : p \in Frame /\ <<p, 0>> \in lent /\ p \in InBlock(<<p, 0>>)
           /\ InUse(Directory(g, i))
<1>1. ASSUME NEW p \in Directory(g, i)
      PROVE  p \in Frame /\ <<p, 0>> \in lent /\ p \in InBlock(<<p, 0>>)
  <2>1. <<p, 0>> \in lent
    BY DEF Directory, IsDirectory
  <2>2. <<p, 0>> \in Block /\ <<p, 0>>[1] = p
    BY <2>1 DEF MmTypes, Block
  <2>3. p \in Frame
    BY <2>2, BlockParts
  <2> QED BY <2>1, <2>3, OnePage
<1> QED BY <1>1 DEF InUse

\* A block is given back.
LEMMA TreeBesideFreed ==
    ASSUME MmTypes, NEW g, NEW i, NEW j, NEW n, IsTree(g, i, j, n), NEW p \in Frame, kfree(p),
           p \notin Directory(g, i),
           \A b \in lent : b[1] = p => InBlock(b) \cap Tree(g, i, j) = {}
    PROVE  /\ IsTree(g, i, j, n)' /\ Tree(g, i, j)' = Tree(g, i, j)
           /\ Directory(g, i)' = Directory(g, i)
           /\ InUse(Tree(g, i, j)) => InUse(Tree(g, i, j))'
<1>1. lent \subseteq Block /\ \A q \in Frame : q # p => table'[q] = table[q]
  BY DEF MmTypes, Block, kfree
<1>2. Directory(g, i) \subseteq Frame
  BY DirectoryBlocks DEF IsTree
<1>3. table'[g] = table[g] /\ \A k \in Tabs(g, i) : table'[table[g][k]] = table[table[g][k]]
  BY <1>1, <1>2 DEF Directory
<1>4. Tree(g, i, j)' = Tree(g, i, j) /\ Directory(g, i)' = Directory(g, i)
  BY <1>3, TreeSame
<1>5. /\ \A b \in lent : InBlock(b) \cap Tree(g, i, j) # {} => b \in lent'
      /\ \A b \in lent' : InBlock(b) \cap Tree(g, i, j) # {} => b \in lent
  BY DEF kfree
<1>6. IsTree(g, i, j, n)' /\ (InUse(Tree(g, i, j)) => InUse(Tree(g, i, j))')
  BY <1>1, <1>3, <1>5, TreeStays
<1> QED BY <1>4, <1>6

\* The tables of an mm that was just made.
LEMMA NewTree ==
    ASSUME MmTypes, lent' \subseteq Block, NEW g \in Frame, <<g, 0>> \in lent', table'[g] = EmptyTable, NEW n
    PROVE  /\ Tabs(g, 0)' = {} /\ Directory(g, 0)' = {g} /\ Tree(g, 0, 0)' = {g}
           /\ IsTree(g, 0, 0, n)' /\ InUse(Tree(g, 0, 0))'
<1>1. Tabs(g, 0)' = {}
  BY DEF Tabs, EmptyTable, Entry
<1>2. Directory(g, 0)' = {g} /\ Leaves(g, 0, 0)' = {}
  BY <1>1 DEF Directory, Leaves
<1>3. LeafPages(g, 0, 0)' = {}
  BY <1>2 DEF LeafPages
<1>4. Tree(g, 0, 0)' = {g}
  BY <1>2, <1>3 DEF Tree
<1>5. IsTree(g, 0, 0, n)'
  BY <1>1, <1>2, <1>3 DEF IsTree, IsDirectory
<1>6. InUse(Tree(g, 0, 0))'
  <2>1. g \in InBlock(<<g, 0>>)
    BY OnePage
  <2> QED BY <1>4, <2>1 DEF InUse
<1> QED BY <1>1, <1>2, <1>4, <1>5, <1>6

--------------------------------------------------------------------------------
(* The steps of the page tables *)

\* do_map, do_unmap and is_in_vma do not touch them.
LEMMA AreasStep ==
    ASSUME PagesInv, mm # None, mm' # None, mm'.pgd = mm.pgd, op = None, UNCHANGED <<lent, table, loaded, op>>
    PROVE  PagesInv'
<1>1. PICK g, n : g = mm.pgd /\ n = loaded
  OBVIOUS
<1>2. IsTree(g, 0, 0, n)' /\ InUse(Tree(g, 0, 0))'
  <2>1. IsTree(g, 0, 0, n) /\ InUse(Tree(g, 0, 0))
    BY <1>1 DEF PagesInv, HasTables, At, Deleting
  <2> QED BY <2>1, PagesSame
<1>3. HasTables'
  BY <1>1, <1>2 DEF HasTables, Deleting
<1>4. Disjoint'
  BY DEF Disjoint, PagesInv
<1>5. Loads' /\ Deletes'
  BY DEF Loads, Deletes, At, Deleting
<1> QED BY <1>3, <1>4, <1>5 DEF PagesInv

PageTypes ==
    /\ lent \subseteq Pages!Block /\ table \in [Frame -> [Entry -> Frame \cup {None}]]
    /\ op \in Loading \cup Deletion \cup {None}

\* What a new block and a new table do to the types.
LEMMA Typed ==
    ASSUME MmTypes, NEW b \in Block
    PROVE  /\ lent \cup {b} \subseteq Pages!Block
           /\ \A p \in Frame : [table EXCEPT ![p] = EmptyTable] \in [Frame -> [Entry -> Frame \cup {None}]]
                               /\ [table EXCEPT ![p] = EmptyTable][p] = EmptyTable
                               /\ \A q \in Frame : q # p => [table EXCEPT ![p] = EmptyTable][q] = table[q]
<1>1. EmptyTable \in [Entry -> Frame \cup {None}]
  BY DEF EmptyTable
<1> QED BY <1>1 DEF MmTypes, Block

LEMMA CreateStep ==
    ASSUME MmTypes, PagesInv, task_create
    PROVE  PageTypes' /\ PagesInv' /\ mm'.pgd \in Frame /\ mm' = NewMm(mm'.pgd)
<1>1. PICK b : /\ b = kmalloc(1) /\ FreeBlocks(1) # {} /\ lent' = lent \cup {b} /\ mm' = NewMm(b[1])
               /\ table' = [table EXCEPT ![b[1]] = EmptyTable] /\ op = None /\ op' = None
  BY DEF task_create, Take
<1>2. PICK g, n : g \in Frame /\ g = b[1] /\ b = <<g, 0>> /\ n = loaded'
  BY <1>1, KmallocPage
<1>3. b \in Block /\ \A d \in lent : InBlock(b) \cap InBlock(d) = {}
  BY <1>1, KmallocIs
<1>4. PageTypes' /\ table'[g] = EmptyTable /\ lent' \subseteq Block /\ <<g, 0>> \in lent'
  BY <1>1, <1>2, <1>3, Typed DEF PageTypes, Block
<1>5. mm'.pgd = g /\ mm' = NewMm(g)
  BY <1>1, <1>2 DEF NewMm
<1>6. IsTree(g, 0, 0, n)' /\ InUse(Tree(g, 0, 0))'
  BY <1>2, <1>4, NewTree
<1>7. HasTables'
  BY <1>1, <1>2, <1>5, <1>6 DEF HasTables, Deleting
<1>8. Disjoint'
  BY <1>1, <1>3, StayDisjoint DEF PagesInv
<1>9. Loads' /\ Deletes'
  BY <1>1 DEF Loads, Deletes, At, Deleting
<1> QED BY <1>2, <1>4, <1>5, <1>7, <1>8, <1>9 DEF PagesInv

LEMMA RunStep ==
    ASSUME MmTypes, PagesInv, NEW s \in FileSizes, runuserprog(s)
    PROVE  PageTypes' /\ PagesInv'
<1>1. mm # None /\ op = None /\ UNCHANGED <<lent, table, mm, loaded>>
      /\ op' = [at |-> "buffer", size |-> s, npage |-> npage_of(s), buf |-> None,
                new |-> None, code |-> None, stack |-> None, i |-> 0]
  BY DEF runuserprog, Runs
<1>2. op' \in Loading
  BY <1>1, ProgramPages DEF Loading
<1>3. /\ op'.at = "buffer" /\ op'.i = 0 /\ op'.buf = None /\ op'.new = None
      /\ op'.code = None /\ op'.stack = None
  BY <1>1
<1>4. PICK g, n : g = mm.pgd /\ n = loaded
  OBVIOUS
<1>5. IsTree(g, 0, 0, n)' /\ InUse(Tree(g, 0, 0))'
  <2>1. IsTree(g, 0, 0, n) /\ InUse(Tree(g, 0, 0))
    BY <1>1, <1>4 DEF PagesInv, HasTables, Deleting
  <2> QED BY <1>1, <2>1, PagesSame
<1>6. HasTables'
  BY <1>1, <1>4, <1>5 DEF HasTables, Deleting
<1>7. Loads' /\ Deletes'
  BY <1>1, <1>3 DEF Loads, HasBuffer, Begins, Builds, Deletes, Deleting
<1>8. Disjoint'
  BY <1>1 DEF Disjoint, PagesInv
<1>9. PageTypes'
  BY <1>1, <1>2 DEF PageTypes, MmTypes
<1> QED BY <1>6, <1>7, <1>8, <1>9 DEF PagesInv

\* What is true while a program is loaded.
LEMMA WhileLoading ==
    ASSUME MmTypes, PagesInv, op # None, op.at # "delete"
    PROVE  /\ op \in Loading /\ mm # None /\ mm \in MmRecord /\ lent \subseteq Block /\ Disjoint
           /\ IsTree(mm.pgd, 0, 0, loaded) /\ InUse(Tree(mm.pgd, 0, 0)) /\ Loads
<1>1. op \in Loading
  BY DEF MmTypes, Deletion
<1> QED BY <1>1 DEF PagesInv, Loads, HasTables, At, MmTypes, Block, Deleting

\* runuserprog gives up, and there is nothing to give back.
LEMMA GivesUp ==
    ASSUME MmTypes, PagesInv, op # None, op.at # "delete", op' = None, UNCHANGED <<lent, table, mm, loaded>>
    PROVE  PageTypes' /\ PagesInv'
<1>1. PICK m, ld : m = mm.pgd /\ ld = loaded
  OBVIOUS
<1>2. IsTree(m, 0, 0, ld) /\ InUse(Tree(m, 0, 0)) /\ Disjoint
  BY <1>1, WhileLoading
<1>3. IsTree(m, 0, 0, ld)' /\ InUse(Tree(m, 0, 0))'
  BY <1>2, PagesSame
<1>4. HasTables' /\ Disjoint'
  BY <1>1, <1>2, <1>3 DEF HasTables, Disjoint
<1>5. Loads' /\ Deletes'
  BY DEF Loads, Deletes, Deleting
<1> QED BY <1>4, <1>5 DEF PagesInv, PageTypes, MmTypes

\* A block is taken, beside the tables of the process.
LEMMA BesideProcess ==
    ASSUME MmTypes, PagesInv, op # None, op.at # "delete", op' # None,
           NEW b \in Block, \A d \in lent : InBlock(b) \cap InBlock(d) = {}, lent' = lent \cup {b},
           UNCHANGED <<mm, loaded>>, \A q \in Frame : q \notin InBlock(b) => table'[q] = table[q],
           op'.at # "delete"
    PROVE  /\ HasTables' /\ Disjoint' /\ Deletes' /\ InBlock(b) \cap Tree(mm.pgd, 0, 0) = {}
           /\ Tree(mm.pgd, 0, 0)' = Tree(mm.pgd, 0, 0)
<1>1. PICK m, ld : m = mm.pgd /\ ld = loaded
  OBVIOUS
<1>2. /\ mm # None /\ Disjoint /\ IsTree(m, 0, 0, ld) /\ InUse(Tree(m, 0, 0))
  BY <1>1, WhileLoading
<1>3. InBlock(b) \cap Tree(m, 0, 0) = {}
  BY <1>2, FreePages
<1>4. \A p \in Directory(m, 0) : table'[p] = table[p]
  <2>1. \A p \in Directory(m, 0) : p \in Frame
    BY <1>2, DirectoryBlocks DEF IsTree
  <2> QED BY <1>3, <2>1 DEF Tree
<1>5. /\ IsTree(m, 0, 0, ld)' /\ Tree(m, 0, 0)' = Tree(m, 0, 0) /\ InUse(Tree(m, 0, 0))'
  BY <1>2, <1>4, TreeBesideNew
<1>6. HasTables' /\ Deletes'
  BY <1>1, <1>5 DEF HasTables, Deletes, Deleting
<1>7. Disjoint'
  BY <1>2, StayDisjoint
<1> QED BY <1>1, <1>3, <1>5, <1>6, <1>7

LEMMA BufferStep ==
    ASSUME MmTypes, PagesInv, AllocateBuffer
    PROVE  PageTypes' /\ PagesInv'
<1>1. op # None /\ op.at = "buffer" /\ UNCHANGED <<table, mm, loaded>>
  BY DEF AllocateBuffer, At
<1>2. op \in Loading /\ mm # None /\ Loads /\ Disjoint
  BY <1>1, WhileLoading
<1>3. op.buf = None /\ op.new = None /\ op.code = None /\ op.stack = None /\ op.i = 0
  BY <1>1, <1>2 DEF Loads, Begins
<1>4. CASE lent' = lent /\ op' = None
  BY <1>1, <1>4, GivesUp
<1>5. CASE lent' = lent /\ op' = [op EXCEPT !.at = "read"]
  <2>1. PICK m, ld : m = mm.pgd /\ ld = loaded
    OBVIOUS
  <2>2. IsTree(m, 0, 0, ld) /\ InUse(Tree(m, 0, 0))
    BY <1>1, <2>1, WhileLoading
  <2>3. IsTree(m, 0, 0, ld)' /\ InUse(Tree(m, 0, 0))'
    BY <1>1, <1>5, <2>2, PagesSame
  <2>4. /\ op' \in Loading /\ op'.at = "read" /\ op'.buf = None /\ op'.new = None /\ op'.code = None
        /\ op'.stack = None /\ op'.i = 0
    BY <1>2, <1>3, <1>5 DEF Loading
  <2>5. HasTables' /\ Disjoint' /\ Deletes'
    BY <1>1, <1>2, <1>5, <2>1, <2>3, <2>4 DEF HasTables, Disjoint, Deletes, Deleting
  <2>6. Loads'
    BY <1>1, <1>2, <2>4 DEF Loads, HasBuffer, Begins, Builds
  <2> QED BY <1>1, <1>5, <2>4, <2>5, <2>6 DEF PagesInv, PageTypes, MmTypes
<1>6. ASSUME NEW n, FreeBlocks(n) # {}, NEW b, b = kmalloc(n), lent' = lent \cup {b},
             op' = [op EXCEPT !.at = "read", !.buf = b[1]]
      PROVE  PageTypes' /\ PagesInv'
  <2>1. b \in Block /\ \A d \in lent : InBlock(b) \cap InBlock(d) = {}
    BY <1>6, KmallocIs
  <2>2. b[1] \in Frame /\ b[1] # None
    BY <2>1, BlockParts, NoneAssumption
  <2>3. /\ op' \in Loading /\ op'.at = "read" /\ op'.buf = b[1] /\ op'.new = None /\ op'.code = None
        /\ op'.stack = None /\ op'.i = 0
    BY <1>2, <1>3, <1>6, <2>2 DEF Loading
  <2>4. op' # None
    BY <2>3, NoneAssumption
  <2>5. /\ HasTables' /\ Disjoint' /\ Deletes' /\ InBlock(b) \cap Tree(mm.pgd, 0, 0) = {}
        /\ Tree(mm.pgd, 0, 0)' = Tree(mm.pgd, 0, 0)
    BY <1>1, <1>6, <2>1, <2>3, <2>4, BesideProcess
  <2>6. HasBuffer'
    <3>1. b \in lent' /\ InBlock(b)' = InBlock(b)
      BY <1>6 DEF InBlock, Pages!PagesOf
    <3>2. IsBuffer(b)' /\ InBlock(b)' \cap Tree(mm.pgd, 0, 0)' = {}
      BY <2>2, <2>3, <2>5, <3>1 DEF IsBuffer
    <3> QED BY <2>3, <3>1, <3>2 DEF HasBuffer
  <2>7. Loads'
    BY <1>1, <1>2, <2>3, <2>6 DEF Loads, Begins, Builds
  <2> QED BY <1>1, <1>6, <2>1, <2>3, <2>5, <2>7 DEF PagesInv, PageTypes, MmTypes, Block
<1> QED BY <1>4, <1>5, <1>6 DEF AllocateBuffer, Take, Goto

LEMMA ReadStep ==
    ASSUME MmTypes, PagesInv, ReadProgram
    PROVE  PageTypes' /\ PagesInv'
<1>1. op # None /\ op.at = "read" /\ UNCHANGED <<lent, table, mm, loaded>>
  BY DEF ReadProgram, At
<1>2. op \in Loading /\ mm # None /\ Loads /\ Disjoint
  BY <1>1, WhileLoading
<1>3. CASE op' = None
  BY <1>1, <1>3, GivesUp
<1>4. CASE op' = [op EXCEPT !.at = "create"]
  <2>1. PICK m, d, ld : m = mm.pgd /\ d = op.new /\ ld = loaded
    OBVIOUS
  <2>2. IsTree(m, 0, 0, ld) /\ InUse(Tree(m, 0, 0))
    BY <1>1, <2>1, WhileLoading
  <2>3. IsTree(m, 0, 0, ld)' /\ InUse(Tree(m, 0, 0))' /\ Tree(m, 0, 0)' = Tree(m, 0, 0)
        /\ Directory(d, 0)' = Directory(d, 0)
    BY <1>1, <2>2, PagesSame
  <2>4. /\ op' \in Loading /\ op'.at = "create" /\ op'.buf = op.buf /\ op'.new = op.new
        /\ op'.code = op.code /\ op'.stack = op.stack /\ op'.i = op.i
    BY <1>2, <1>4 DEF Loading
  <2>5. HasTables' /\ Disjoint' /\ Deletes'
    BY <1>1, <1>2, <2>1, <2>3, <2>4 DEF HasTables, Disjoint, Deletes, Deleting
  <2>6. HasBuffer'
    <3>1. \A b : InBlock(b)' = InBlock(b)
      BY DEF InBlock, Pages!PagesOf
    <3>2. HasBuffer
      BY <1>1, <1>2 DEF Loads
    <3> QED BY <1>1, <2>1, <2>3, <2>4, <3>1, <3>2 DEF HasBuffer, IsBuffer, IsOwn
  <2>7. Loads'
    BY <1>1, <1>2, <2>4, <2>6 DEF Loads, Begins, Builds
  <2> QED BY <1>1, <2>4, <2>5, <2>7 DEF PagesInv, PageTypes, MmTypes
<1> QED BY <1>3, <1>4 DEF ReadProgram, Goto

LEMMA MmCreateStep ==
    ASSUME MmTypes, PagesInv, mm_create
    PROVE  PageTypes' /\ PagesInv'
<1>1. op # None /\ op.at = "create" /\ UNCHANGED <<mm, loaded>>
  BY DEF mm_create, At
<1>2. op \in Loading /\ mm # None /\ Loads /\ Disjoint
  BY <1>1, WhileLoading
<1>4. ASSUME op' = None, UNCHANGED <<lent, table>>  PROVE PageTypes' /\ PagesInv'
  BY <1>1, <1>4, GivesUp
<1>5. ASSUME NEW b, b = kmalloc(1), FreeBlocks(1) # {}, lent' = lent \cup {b},
             op' = [op EXCEPT !.at = "code", !.new = b[1]],
             table' = [table EXCEPT ![b[1]] = EmptyTable]
      PROVE  PageTypes' /\ PagesInv'
  <2>1. PICK g, n : g \in Frame /\ g = b[1] /\ b = <<g, 0>> /\ n = op.npage
    BY <1>5, KmallocPage
  <2>2. b \in Block /\ \A d \in lent : InBlock(b) \cap InBlock(d) = {}
    BY <1>5, KmallocIs
  <2>3. /\ lent' \subseteq Pages!Block /\ table' \in [Frame -> [Entry -> Frame \cup {None}]]
        /\ table'[g] = EmptyTable /\ \A q \in Frame : q # g => table'[q] = table[q]
    BY <1>5, <2>1, <2>2, Typed
  <2>4. /\ op' \in Loading /\ op'.at = "code" /\ op'.new = g /\ op'.i = op.i /\ op'.buf = op.buf
        /\ op'.code = op.code /\ op'.stack = op.stack
    BY <1>2, <1>5, <2>1 DEF Loading
  <2>5. op' # None /\ g # None
    BY <2>1, <2>4, NoneAssumption
  <2>6. /\ Tabs(g, 0)' = {} /\ Directory(g, 0)' = {g} /\ IsTree(g, 0, 0, n)'
    BY <1>5, <2>1, <2>3, NewTree DEF Block
  <2>7. InBlock(b) = {g}
    BY <2>1, OnePage
  <2>8. /\ HasTables' /\ Disjoint' /\ Deletes' /\ InBlock(b) \cap Tree(mm.pgd, 0, 0) = {}
        /\ Tree(mm.pgd, 0, 0)' = Tree(mm.pgd, 0, 0)
    BY <1>1, <1>5, <2>2, <2>3, <2>4, <2>5, <2>7, BesideProcess
  <2>9. op.i = 0 /\ HasBuffer
    BY <1>1, <1>2 DEF Loads, Begins
  <2>10. Directory(g, 0)' \cap Tree(mm.pgd, 0, 0)' = {}
    BY <2>6, <2>7, <2>8
  <2>11. IsDirectory(g, 0)'
    BY <2>6 DEF IsTree
  <2>12. HasBuffer'
    <3>1. \A c : InBlock(c)' = InBlock(c)
      BY DEF InBlock, Pages!PagesOf
    <3>2. \A c \in lent : g \notin InBlock(c) /\ c \in lent'
      BY <1>5, <2>2, <2>7
    <3> QED BY <2>4, <2>6, <2>8, <2>9, <3>1, <3>2 DEF HasBuffer, IsBuffer, IsOwn
  <2>13. Loads'
    BY <1>1, <1>2, <2>4, <2>5, <2>6, <2>9, <2>10, <2>11, <2>12 DEF Loads, Begins, Builds
  <2>14. PageTypes'
    BY <2>3, <2>4 DEF PageTypes
  <2> QED BY <2>8, <2>13, <2>14 DEF PagesInv
<1> QED BY <1>4, <1>5 DEF mm_create, Take

\* The buffer stays beside the tables.
LEMMA BufferStays ==
    ASSUME HasBuffer, op.new # None, op'.new = op.new, op'.buf = op.buf, lent \subseteq lent',
           Tree(mm.pgd, 0, 0)' = Tree(mm.pgd, 0, 0), \A b \in lent : IsOwn(b) => IsOwn(b)',
           \A b \in lent : b[1] \notin {op.code, op.stack} => b[1] \notin {op'.code, op'.stack}
    PROVE  HasBuffer'
<1>1. \A b : InBlock(b)' = InBlock(b)
  BY DEF InBlock, Pages!PagesOf
<1> QED BY <1>1 DEF HasBuffer, IsBuffer

\* The tables of newmm and those of the process have no block in common.
LEMMA NewApart ==
    ASSUME MmTypes, Disjoint, NEW m, NEW g, IsDirectory(g, 0),
           Directory(g, 0) \cap Tree(m, 0, 0) = {},
           \A p \in LeafPages(g, 0, 0) :
               \E b \in lent : p \in InBlock(b) /\ InBlock(b) \cap Tree(m, 0, 0) = {}
    PROVE  Apart(Tree(m, 0, 0), Tree(g, 0, 0))
<1>1. ASSUME NEW p \in Tree(g, 0, 0)
      PROVE  \E b \in lent : p \in InBlock(b) /\ InBlock(b) \cap Tree(m, 0, 0) = {}
  <2>1. CASE p \in Directory(g, 0)
    <3>1. p \in Frame /\ <<p, 0>> \in lent
      BY <2>1, DirectoryBlocks
    <3>2. InBlock(<<p, 0>>) = {p}
      BY <3>1, OnePage
    <3> QED BY <2>1, <3>1, <3>2
  <2> QED BY <2>1 DEF Tree
<1>2. Tree(m, 0, 0) \cap Tree(g, 0, 0) = {}
  BY <1>1
<1>3. ASSUME NEW b \in lent, NEW p \in InBlock(b), p \in Tree(g, 0, 0)
      PROVE  InBlock(b) \cap Tree(m, 0, 0) = {}
  <2>1. PICK c \in lent : p \in InBlock(c) /\ InBlock(c) \cap Tree(m, 0, 0) = {}
    BY <1>1, <1>3
  <2>2. b = c
    BY <2>1 DEF Disjoint
  <2> QED BY <2>1, <2>2
<1> QED BY <1>2, <1>3 DEF Apart

\* error_3, when there is nothing else to give back.
LEMMA Error3Step ==
    ASSUME MmTypes, PagesInv, op # None, op.at # "delete", op.new # None, Error3,
           UNCHANGED <<lent, table, mm, loaded>>,
           IsTree(op.new, 0, 0, op.npage), Apart(Tree(mm.pgd, 0, 0), Tree(op.new, 0, 0))
    PROVE  PageTypes' /\ PagesInv'
<1>1. /\ op \in Loading /\ mm # None /\ mm \in MmRecord /\ lent \subseteq Block /\ Disjoint
      /\ IsTree(mm.pgd, 0, 0, loaded) /\ InUse(Tree(mm.pgd, 0, 0)) /\ Loads
  BY WhileLoading
<1>2. PICK m, g, ld, n : m = mm.pgd /\ g = op.new /\ ld = loaded /\ n = op.npage
  OBVIOUS
<1>3. /\ op' = [at |-> "delete", of |-> "new", pgd |-> g, npage |-> n, i |-> 0, j |-> 0]
      /\ g \in Frame /\ n \in Nat
  BY <1>1, <1>2, ProgramPages DEF Error3, Delete, Loading
<1>4. /\ op' \in Deletion /\ op'.at = "delete" /\ op'.of = "new" /\ op'.pgd = g /\ op'.i = 0 /\ op'.j = 0
      /\ op'.npage = n
  BY <1>3 DEF Deletion
<1>5. IsTree(m, 0, 0, ld)' /\ InUse(Tree(m, 0, 0))' /\ IsTree(g, 0, 0, n)'
      /\ Tree(m, 0, 0)' = Tree(m, 0, 0) /\ Tree(g, 0, 0)' = Tree(g, 0, 0)
  BY <1>1, <1>2, PagesSame
<1>6. Apart(Tree(m, 0, 0), Tree(g, 0, 0))'
  BY <1>2, <1>5 DEF Apart
<1>7. Disjoint' /\ HasTables'
  BY <1>1, <1>2, <1>5 DEF Disjoint, HasTables, Deleting
<1>8. Loads'
  BY <1>4 DEF Loads
<1>9. Deletes'
  BY <1>1, <1>2, <1>4, <1>5, <1>6 DEF Deletes, Deleting
<1>10. PageTypes'
  BY <1>4 DEF PageTypes, MmTypes
<1> QED BY <1>7, <1>8, <1>9, <1>10 DEF PagesInv

\* A table without entries.
LEMMA NoTables ==
    ASSUME MmTypes, NEW g, IsDirectory(g, 0), Tabs(g, 0) = {}, NEW n
    PROVE  IsTree(g, 0, 0, n) /\ Tree(g, 0, 0) = {g} /\ Directory(g, 0) = {g} /\ LeafPages(g, 0, 0) = {}
BY DEF IsTree, Tree, Directory, LeafPages, Leaves

\* kmalloc for the code or the stack fails.
LEMMA AllocationFails ==
    ASSUME MmTypes, PagesInv, At("code") \/ At("stack"), Error3, UNCHANGED <<lent, table, mm, loaded>>
    PROVE  PageTypes' /\ PagesInv'
<1>1. op # None /\ op.at # "delete" /\ op.at \in {"code", "stack"}
  BY DEF At
<1>2. op.new # None /\ IsDirectory(op.new, 0) /\ Directory(op.new, 0) \cap Tree(mm.pgd, 0, 0) = {}
      /\ Tabs(op.new, 0) = {} /\ Disjoint
  BY <1>1 DEF PagesInv, Loads, Builds
<1>3. PICK m, g, ld, n : m = mm.pgd /\ g = op.new /\ ld = loaded /\ n = op.npage
  OBVIOUS
<1>4. IsTree(g, 0, 0, n) /\ LeafPages(g, 0, 0) = {}
  BY <1>2, <1>3, NoTables
<1>5. Apart(Tree(m, 0, 0), Tree(g, 0, 0))
  BY <1>2, <1>3, <1>4, NewApart
<1> QED BY <1>1, <1>2, <1>3, <1>4, <1>5, Error3Step

\* kmalloc gives a block for the code or the stack.
LEMMA AllocatesOwn ==
    ASSUME MmTypes, PagesInv, op # None, op.at \in Builds,
           NEW b \in Block, \A d \in lent : InBlock(b) \cap InBlock(d) = {}, lent' = lent \cup {b},
           UNCHANGED <<table, mm, loaded>>, op'.new = op.new, op'.buf = op.buf,
           op'.at # "delete", {op'.code, op'.stack} \subseteq {op.code, op.stack, b[1]}
    PROVE  /\ HasTables' /\ HasBuffer' /\ Disjoint' /\ IsDirectory(op.new, 0)' /\ IsOwn(b)'
           /\ Directory(op.new, 0)' = Directory(op.new, 0) /\ Tree(mm.pgd, 0, 0)' = Tree(mm.pgd, 0, 0)
           /\ Tabs(op.new, 0)' = Tabs(op.new, 0)
           /\ \A c \in lent : IsOwn(c) => IsOwn(c)'
<1>1. /\ op \in Loading /\ mm # None /\ mm \in MmRecord /\ lent \subseteq Block /\ Disjoint
      /\ IsTree(mm.pgd, 0, 0, loaded) /\ InUse(Tree(mm.pgd, 0, 0)) /\ Loads
  BY WhileLoading DEF Builds
<1>2. PICK m, g, ld, n : m = mm.pgd /\ g = op.new /\ ld = loaded /\ n = op.npage
  OBVIOUS
<1>3. /\ IsDirectory(g, 0) /\ Directory(g, 0) \cap Tree(m, 0, 0) = {} /\ HasBuffer /\ op.new # None
      /\ op.at # "delete" /\ op # None
  BY <1>1, <1>2, NoneAssumption DEF Loads, Builds, Loading
<1>4. /\ IsTree(m, 0, 0, ld)' /\ Tree(m, 0, 0)' = Tree(m, 0, 0) /\ InUse(Tree(m, 0, 0))'
      /\ InBlock(b) \cap Tree(m, 0, 0) = {}
  BY <1>1, <1>2, TreeBesideNew
<1>5. InBlock(b) \cap Directory(g, 0) = {}
  BY <1>3, DirectoryBlocks, FreePages
<1>6. Directory(g, 0)' = Directory(g, 0) /\ Tabs(g, 0)' = Tabs(g, 0)
  BY TreeSame
<1>7. IsDirectory(g, 0)'
  BY <1>3, <1>6 DEF IsDirectory
<1>8. HasTables'
  BY <1>1, <1>2, <1>4 DEF HasTables, Deleting
<1>9. Disjoint'
  BY <1>1, StayDisjoint
<1>10. IsOwn(b)' /\ \A c \in lent : IsOwn(c) => IsOwn(c)'
  <2>1. \A c : InBlock(c) \cap (Directory(g, 0) \cup Tree(m, 0, 0)) = {}
                 => InBlock(c) \cap (Directory(g, 0)' \cup Tree(m, 0, 0)') = {}
    BY <1>4, <1>6
  <2>2. InBlock(b) \cap (Directory(g, 0) \cup Tree(m, 0, 0)) = {}
    BY <1>4, <1>5
  <2>3. InBlock(b)' = InBlock(b) /\ \A c : InBlock(c)' = InBlock(c)
    BY DEF InBlock, Pages!PagesOf
  <2> QED BY <1>2, <2>1, <2>2, <2>3 DEF IsOwn
<1>11. HasBuffer'
  <2>1. \A c \in lent : c[1] # b[1]
    <3>1. \A c \in lent : c[1] \in InBlock(c)
      BY <1>1, BlockParts
    <3>2. b[1] \in InBlock(b)
      BY BlockParts
    <3> QED BY <3>1, <3>2
  <2> QED BY <1>2, <1>3, <1>4, <1>10, <2>1, BufferStays
<1> QED BY <1>2, <1>4, <1>6, <1>7, <1>8, <1>9, <1>10, <1>11

LEMMA CodeStep ==
    ASSUME MmTypes, PagesInv, AllocateCode
    PROVE  PageTypes' /\ PagesInv'
<1>1. At("code") /\ op # None /\ op.at = "code" /\ UNCHANGED <<table, mm, loaded>>
  BY DEF AllocateCode, At
<1>2. /\ op \in Loading /\ mm # None /\ lent \subseteq Block /\ Disjoint /\ Loads
  BY <1>1, WhileLoading
<1>3. ASSUME NEW b, b = kmalloc(op.npage), FreeBlocks(op.npage) # {}, op.npage > 0,
             lent' = lent \cup {b}, op' = [op EXCEPT !.at = "stack", !.code = b[1]]
      PROVE  PageTypes' /\ PagesInv'
  <2>1. b \in Block /\ IsOrder(b[2], op.npage) /\ \A d \in lent : InBlock(b) \cap InBlock(d) = {}
    BY <1>3, KmallocIs
  <2>2. b[1] \in Frame
    BY <2>1, BlockParts
  <2>3. /\ op' \in Loading /\ op'.at = "stack" /\ op'.new = op.new /\ op'.i = op.i
        /\ op'.code = b[1] /\ op'.npage = op.npage /\ op'.buf = op.buf /\ op'.stack = op.stack
    BY <1>2, <1>3, <2>2 DEF Loading
  <2>4. op' # None /\ op.npage \in Nat
    BY <1>2, <2>3, NoneAssumption, ProgramPages DEF Loading
  <2>5. /\ HasTables' /\ HasBuffer' /\ Disjoint' /\ IsDirectory(op.new, 0)' /\ IsOwn(b)'
        /\ Directory(op.new, 0)' = Directory(op.new, 0) /\ Tree(mm.pgd, 0, 0)' = Tree(mm.pgd, 0, 0)
        /\ Tabs(op.new, 0)' = Tabs(op.new, 0)
    BY <1>1, <1>3, <2>1, <2>3, <2>4, AllocatesOwn DEF Builds
  <2>6. /\ op.new # None /\ op.i = 0 /\ Tabs(op.new, 0) = {}
        /\ Directory(op.new, 0) \cap Tree(mm.pgd, 0, 0) = {}
    BY <1>1, <1>2 DEF Loads, Begins, Builds
  <2>7. IsCode(b)'
    <3>1. op.npage <= 2^b[2]
      BY <2>1, <2>4, BlockParts DEF IsOrder
    <3> QED BY <1>3, <2>3, <3>1 DEF IsCode
  <2>8. Loads'
    <3>1. b \in lent' /\ op'.npage > 0 /\ 0 < op'.npage
      BY <1>3, <2>3, <2>4
    <3> QED BY <1>1, <1>2, <2>3, <2>5, <2>6, <2>7, <3>1 DEF Loads, Begins, Builds
  <2>9. Deletes'
    BY <2>3 DEF Deletes, At, Deleting
  <2>10. PageTypes'
    BY <1>1, <1>3, <2>1, <2>3 DEF PageTypes, MmTypes, Block
  <2> QED BY <2>5, <2>8, <2>9, <2>10 DEF PagesInv
<1>4. ASSUME lent' = lent, Error3  PROVE PageTypes' /\ PagesInv'
  BY <1>1, <1>4, AllocationFails
<1> QED BY <1>3, <1>4 DEF AllocateCode, Take

LEMMA StackStep ==
    ASSUME MmTypes, PagesInv, AllocateStack
    PROVE  PageTypes' /\ PagesInv'
<1>1. At("stack") /\ op # None /\ op.at = "stack" /\ UNCHANGED <<table, mm, loaded>>
  BY DEF AllocateStack, At
<1>2. /\ op \in Loading /\ mm # None /\ lent \subseteq Block /\ Disjoint /\ Loads
  BY <1>1, WhileLoading
<1>3. ASSUME NEW b, b = kmalloc(2), FreeBlocks(2) # {},
             lent' = lent \cup {b}, op' = [op EXCEPT !.at = "map", !.stack = b[1]]
      PROVE  PageTypes' /\ PagesInv'
  <2>1. b \in Block /\ \A d \in lent : InBlock(b) \cap InBlock(d) = {}
    BY <1>3, KmallocIs
  <2>2. b[1] \in Frame /\ b[1] \in InBlock(b)
    BY <2>1, BlockParts
  <2>3. /\ op' \in Loading /\ op'.at = "map" /\ op'.new = op.new /\ op'.i = op.i
        /\ op'.code = op.code /\ op'.npage = op.npage /\ op'.stack = b[1] /\ op'.buf = op.buf
    BY <1>2, <1>3, <2>2 DEF Loading
  <2>4. op' # None /\ op.npage \in Nat
    BY <1>2, <2>3, NoneAssumption, ProgramPages DEF Loading
  <2>5. /\ HasTables' /\ HasBuffer' /\ Disjoint' /\ IsDirectory(op.new, 0)' /\ IsOwn(b)'
        /\ Directory(op.new, 0)' = Directory(op.new, 0) /\ Tree(mm.pgd, 0, 0)' = Tree(mm.pgd, 0, 0)
        /\ Tabs(op.new, 0)' = Tabs(op.new, 0)
        /\ \A c \in lent : IsOwn(c) => IsOwn(c)'
    BY <1>1, <1>3, <2>1, <2>3, <2>4, AllocatesOwn DEF Builds
  <2>6. /\ op.new # None /\ op.i = 0 /\ Tabs(op.new, 0) = {} /\ 0 < op.npage
        /\ Directory(op.new, 0) \cap Tree(mm.pgd, 0, 0) = {}
    BY <1>1, <1>2 DEF Loads, Begins, Builds
  <2>7. PICK cb \in lent : IsCode(cb) /\ IsOwn(cb)
    BY <1>1, <1>2 DEF Loads, Begins, Builds
  <2>8. cb \in lent' /\ IsCode(cb)' /\ IsOwn(cb)'
    BY <1>3, <2>3, <2>5, <2>7 DEF IsCode
  <2>9. b \in lent' /\ IsStack(b)'
    BY <1>3, <2>3 DEF IsStack
  <2>10. op'.stack # op'.code
    <3>1. cb[1] \in InBlock(cb) /\ InBlock(b) \cap InBlock(cb) = {}
      BY <1>2, <2>1, <2>7, BlockParts
    <3> QED BY <2>2, <2>3, <2>7, <3>1 DEF IsCode
  <2>11. \A v \in Nat : Target(v)' = None
    <3> TAKE v \in Nat
    <3>1. ~(v \in USER_CODE_ENTRY .. USER_CODE_ENTRY + op'.npage - 1 /\ v < USER_CODE_ENTRY + op'.i)
      BY <2>3, <2>4, <2>6, MmAssumption
    <3>2. ~(op'.i > op'.npage)
      BY <2>3, <2>4, <2>6
    <3> QED BY <3>1, <3>2 DEF Target
  <2>12. IsMapped'
    <3>1. \A v \in 0 .. Entries * Entries - 1 : v \in Nat
      BY MmAssumption
    <3>2. Tabs(op.new, 0)' = {}
      BY <2>5, <2>6
    <3> QED BY <2>11, <3>1, <3>2 DEF IsMapped
  <2>13. op'.i <= op'.npage
    BY <2>3, <2>4, <2>6
  <2>14. Loads'
    BY <1>1, <1>2, <2>3, <2>5, <2>6, <2>8, <2>9, <2>10, <2>12, <2>13 DEF Loads, Begins, Builds
  <2>15. Deletes'
    BY <2>3 DEF Deletes, At, Deleting
  <2>16. PageTypes'
    BY <1>1, <1>3, <2>1, <2>3 DEF PageTypes, MmTypes, Block
  <2> QED BY <2>5, <2>14, <2>15, <2>16 DEF PagesInv
<1>4. ASSUME lent' = lent, Error3  PROVE PageTypes' /\ PagesInv'
  BY <1>1, <1>4, AllocationFails
<1> QED BY <1>3, <1>4 DEF AllocateStack, Take

--------------------------------------------------------------------------------
(* do_one_mapping *)

\* Where runuserprog is while it maps the pages of a program.
MappingAt ==
    /\ op \in Loading /\ mm # None /\ mm \in MmRecord /\ lent \subseteq Block /\ Disjoint /\ Loads
    /\ HasBuffer /\ IsTree(mm.pgd, 0, 0, loaded) /\ InUse(Tree(mm.pgd, 0, 0))
    /\ op.new # None /\ IsDirectory(op.new, 0) /\ Directory(op.new, 0) \cap Tree(mm.pgd, 0, 0) = {}
    /\ IsMapped /\ op.stack # op.code /\ 0 < op.npage /\ op.npage \in Nat
    /\ op.i \in Nat /\ op.i <= op.npage

LEMMA MappingIs ==
    ASSUME MmTypes, PagesInv, At("map") \/ At("error_5")
    PROVE  /\ MappingAt
           /\ \E b \in lent : IsCode(b) /\ IsOwn(b)
           /\ \E b \in lent : IsStack(b) /\ IsOwn(b)
<1>1. op # None /\ op.at # "delete" /\ op.at \in {"map", "error_5"}
  BY DEF At
<1>2. /\ op \in Loading /\ mm # None /\ mm \in MmRecord /\ lent \subseteq Block /\ Disjoint
      /\ IsTree(mm.pgd, 0, 0, loaded) /\ InUse(Tree(mm.pgd, 0, 0)) /\ Loads
  BY <1>1, WhileLoading
<1>3. op.npage \in Nat /\ op.i \in Nat
  BY <1>2, ProgramPages DEF Loading
<1>4. /\ op.new # None /\ IsDirectory(op.new, 0) /\ Directory(op.new, 0) \cap Tree(mm.pgd, 0, 0) = {}
      /\ IsMapped /\ op.stack # op.code /\ 0 < op.npage /\ op.i <= op.npage /\ HasBuffer
      /\ \E b \in lent : IsCode(b) /\ IsOwn(b)
      /\ \E b \in lent : IsStack(b) /\ IsOwn(b)
  BY <1>1, <1>2 DEF Loads, Builds
<1> QED BY <1>2, <1>3, <1>4 DEF MappingAt

\* The step maps one more page.
LEMMA TargetStep ==
    ASSUME MappingAt, op'.npage = op.npage, op'.code = op.code, op'.stack = op.stack,
           op'.i = op.i + 1, NEW v, v = va
    PROVE  /\ v \in Nat /\ v < Entries * Entries /\ Target(v)' = pa
           /\ \A w \in Nat : w # v => Target(w)' = Target(w)
<1>1. PICK u, n, i, t \in Nat : u = USER_CODE_ENTRY /\ n = op.npage /\ i = op.i /\ i <= n
                                /\ t = UserStackPage /\ u + n <= t
  <2>1. op.npage \in Programs
    BY DEF MappingAt, Loading
  <2> QED BY <2>1, MmAssumption, ProgramPages DEF MappingAt
<1>2. PICK EE \in Nat : EE = Entries * Entries /\ t < EE
  BY <1>1, MmAssumption
<1>3. CASE i < n
  <2>1. v = u + i /\ pa = op.code + i
    BY <1>1, <1>3 DEF va, pa
  <2>2. Target(v)' = pa
    <3>1. u + i \in u .. u + n - 1 /\ u + i < u + (i + 1) /\ u + i - u = i
      BY <1>3
    <3> QED BY <1>1, <2>1, <3>1 DEF Target
  <2>3. ASSUME NEW w \in Nat, w # v  PROVE Target(w)' = Target(w)
    <3>1. w < u + (i + 1) <=> w < u + i
      BY <2>1, <2>3
    <3>2. ~(i + 1 > n) /\ ~(i > n)
      BY <1>3
    <3> QED BY <1>1, <3>1, <3>2 DEF Target
  <2> QED BY <1>2, <1>3, <1>1, <2>1, <2>2, <2>3
<1>4. CASE ~(i < n)
  <2>1. v = t /\ pa = op.stack /\ i = n
    BY <1>1, <1>4 DEF va, pa
  <2>2. Target(v)' = pa
    <3>1. t \notin u .. u + n - 1 /\ i + 1 > n
      BY <1>1, <2>1
    <3> QED BY <1>1, <2>1, <3>1 DEF Target
  <2>3. ASSUME NEW w \in Nat, w # v  PROVE Target(w)' = Target(w)
    <3>1. w \in u .. u + n - 1 => (w < u + (i + 1) /\ w < u + i)
      BY <2>1, <2>3
    <3> QED BY <1>1, <2>1, <2>3, <3>1 DEF Target
  <2> QED BY <1>2, <2>1, <2>2, <2>3
<1> QED BY <1>3, <1>4

\* The page is one of those allocated.
LEMMA PaIs ==
    ASSUME MappingAt, NEW cb \in lent, IsCode(cb), NEW sb \in lent, IsStack(sb)
    PROVE  pa \in Frame
<1>1. cb \in Block /\ sb \in Block /\ cb[1] = op.code /\ sb[1] = op.stack /\ op.npage <= 2^cb[2]
  BY DEF MappingAt, IsCode, IsStack
<1>2. PICK s \in Nat : s = 2^cb[2] /\ InBlock(cb) = op.code .. op.code + s - 1 /\ op.npage <= s
  <2>1. 2^cb[2] \in Nat \ {0} /\ InBlock(cb) = cb[1] .. cb[1] + 2^cb[2] - 1
    BY <1>1, BlockParts
  <2> QED BY <1>1, <2>1
<1>3. op.code \in Frame /\ op.stack \in Frame /\ InBlock(cb) \subseteq Frame /\ op.code \in Nat
  <2>1. op.code \in Frame /\ op.stack \in Frame /\ InBlock(cb) \subseteq Frame
    BY <1>1, BlockParts
  <2> QED BY <2>1, MmAssumption DEF Frame
<1>4. CASE op.i < op.npage
  <2>1. op.code + op.i \in InBlock(cb)
    BY <1>2, <1>3, <1>4, SMTT(30) DEF MappingAt
  <2> QED BY <1>3, <1>4, <2>1 DEF pa
<1>5. CASE ~(op.i < op.npage)
  BY <1>3, <1>5 DEF pa
<1> QED BY <1>4, <1>5

\* What is left to show when a page was mapped.
LEMMA MappedStep ==
    ASSUME MmTypes, PagesInv, At("map"), MappingAt,
           op' = [op EXCEPT !.i = @ + 1, !.at = IF op.i = op.npage THEN "activate" ELSE "map"],
           UNCHANGED <<mm, loaded>>, lent' \subseteq Block, table' \in [Frame -> [Entry -> Frame \cup {None}]],
           lent \subseteq lent', Disjoint', IsDirectory(op.new, 0)', IsMapped',
           Tree(mm.pgd, 0, 0)' = Tree(mm.pgd, 0, 0), IsTree(mm.pgd, 0, 0, loaded)', InUse(Tree(mm.pgd, 0, 0))',
           Directory(op.new, 0)' \cap Tree(mm.pgd, 0, 0)' = {},
           \A b \in lent : IsOwn(b) => IsOwn(b)'
    PROVE  PageTypes' /\ PagesInv'
<1>1. PICK cb \in lent : IsCode(cb) /\ IsOwn(cb)
  BY MappingIs
<1>2. PICK sb \in lent : IsStack(sb) /\ IsOwn(sb)
  BY MappingIs
<1>3. /\ op' \in Loading /\ op'.new = op.new /\ op'.i = op.i + 1 /\ op'.code = op.code
      /\ op'.stack = op.stack /\ op'.npage = op.npage
      /\ op'.at = (IF op.i = op.npage THEN "activate" ELSE "map") /\ op'.buf = op.buf
  <2>1. PICK x : x = (IF op.i = op.npage THEN "activate" ELSE "map") /\ x \in {"activate", "map"}
    OBVIOUS
  <2>2. op' = [op EXCEPT !.i = @ + 1, !.at = x] /\ op.i + 1 \in Nat /\ op \in Loading
    BY <2>1 DEF MappingAt
  <2>3. /\ op' \in Loading /\ op'.new = op.new /\ op'.i = op.i + 1 /\ op'.code = op.code
        /\ op'.stack = op.stack /\ op'.npage = op.npage /\ op'.at = x /\ op'.buf = op.buf
    BY <2>1, <2>2 DEF Loading
  <2> QED BY <2>1, <2>3
<1>4. cb \in lent' /\ sb \in lent' /\ IsCode(cb)' /\ IsStack(sb)' /\ IsOwn(cb)' /\ IsOwn(sb)'
  BY <1>1, <1>2, <1>3 DEF IsCode, IsStack
<1>5. HasTables'
  BY DEF HasTables, Deleting
<1>6. Deletes'
  BY <1>3 DEF Deletes, At, Deleting
<1>7. Loads'
  <2>0. HasBuffer'
    BY <1>3, BufferStays DEF MappingAt
  <2>1. /\ op'.new # None /\ 0 < op'.npage /\ op'.stack # op'.code /\ mm' # None
        /\ op'.at \in {"map", "activate"}
    BY <1>3 DEF MappingAt
  <2>2. op'.at = "map" => op'.i <= op'.npage
    <3>1. op.i # op.npage => op.i + 1 <= op.npage
      BY DEF MappingAt
    <3> QED BY <1>3, <3>1
  <2>3. op'.at = "activate" => op'.i = op'.npage + 1
    BY <1>3
  <2> QED BY <1>4, <2>0, <2>1, <2>2, <2>3 DEF Loads, Begins, Builds
<1>8. PageTypes'
  BY <1>3 DEF PageTypes, Block
<1> QED BY <1>5, <1>6, <1>7, <1>8 DEF PagesInv

\* The entry of a page.
IsEntry(k, r) == k = va \div Entries /\ r = va % Entries

\* The table of the page is there.
LEMMA EnterPage ==
    ASSUME MmTypes, PagesInv, At("map"), MappingAt,
           op' = [op EXCEPT !.i = @ + 1, !.at = IF op.i = op.npage THEN "activate" ELSE "map"],
           UNCHANGED <<mm, loaded>>, lent' = lent, NEW k, NEW r, IsEntry(k, r),
           NEW t, t = table[op.new][k], t # None,
           table' = [table EXCEPT ![t][r] = pa]
    PROVE  PageTypes' /\ PagesInv'
<1>1. PICK m, g, ld, n : m = mm.pgd /\ g = op.new /\ ld = loaded /\ n = op.npage
  OBVIOUS
<1>2. PICK cb \in lent : IsCode(cb) /\ IsOwn(cb)
  BY MappingIs
<1>3. PICK sb \in lent : IsStack(sb) /\ IsOwn(sb)
  BY MappingIs
<1>4. pa \in Frame
  BY <1>2, <1>3, PaIs
<1>5. /\ op'.new = op.new /\ op'.i = op.i + 1 /\ op'.code = op.code
      /\ op'.stack = op.stack /\ op'.npage = op.npage /\ op'.buf = op.buf
  BY DEF MappingAt, Loading
<1>a. PICK v : v = va
  OBVIOUS
<1>6. /\ v = va /\ v \in Nat /\ v < Entries * Entries /\ Target(v)' = pa
      /\ \A w \in Nat : w # v => Target(w)' = Target(w)
  BY <1>5, <1>a, TargetStep
<1>7. k \in Entry /\ r \in Entry /\ V(<<k, r>>) = v /\ k = v \div Entries
  BY <1>6, EntryOf DEF IsEntry
<1>8. k \in Tabs(g, 0) /\ t = table[g][k]
  BY <1>1, <1>7 DEF Tabs, Entry
<1>9. IsDirectory(g, 0) /\ IsTree(m, 0, 0, ld) /\ Directory(g, 0) \cap Tree(m, 0, 0) = {}
  BY <1>1 DEF MappingAt
<1>10. t \in Frame /\ t # g /\ t \in Directory(g, 0) /\ t \notin Tree(m, 0, 0)
  <2>1. t # g /\ t \in Directory(g, 0)
    BY <1>8, <1>9 DEF IsDirectory, Directory
  <2> QED BY <1>9, <2>1, DirectoryBlocks
<1>11. /\ table' \in [Frame -> [Entry -> Frame \cup {None}]]
       /\ \A q \in Frame : q # t => table'[q] = table[q]
       /\ \A j \in Entry : table'[t][j] = IF j = r THEN pa ELSE table[t][j]
  <2>1. table \in [Frame -> [Entry -> Frame \cup {None}]]
    BY DEF MmTypes
  <2> QED BY <1>4, <1>7, <1>10, <2>1
<1>12. g \in Frame /\ table'[g] = table[g]
  BY <1>9, <1>10, <1>11 DEF IsDirectory
<1>13. Tabs(g, 0)' = Tabs(g, 0) /\ Directory(g, 0)' = Directory(g, 0)
  BY <1>12 DEF Tabs, Directory
<1>14. IsDirectory(g, 0)'
  BY <1>9, <1>12, DirectorySame
<1>15. /\ IsTree(m, 0, 0, ld)' /\ Tree(m, 0, 0)' = Tree(m, 0, 0)
       /\ InUse(Tree(m, 0, 0))'
  <2>1. \A p \in Directory(m, 0) : table'[p] = table[p]
    <3>1. \A p \in Directory(m, 0) : p \in Frame /\ p # t
      BY <1>9, <1>10, DirectoryBlocks DEF IsTree, Tree
    <3> QED BY <1>11, <3>1
  <2>2. table'[m] = table[m] /\ \A l \in Tabs(m, 0) : table'[table[m][l]] = table[table[m][l]]
    BY <2>1 DEF Directory
  <2>3. InUse(Tree(m, 0, 0)) /\ lent \subseteq Block
    BY <1>1 DEF MappingAt
  <2>4. Tree(m, 0, 0)' = Tree(m, 0, 0)
    BY <2>2, TreeSame
  <2>5. IsTree(m, 0, 0, ld)' /\ InUse(Tree(m, 0, 0))'
    BY <1>9, <2>2, <2>3, TreeStays
  <2> QED BY <2>4, <2>5
<1>16. IsMapped'
  <2>1. ASSUME NEW l \in Tabs(g, 0), NEW j \in Entry
        PROVE  table'[table[g][l]][j] = Target(l * Entries + j)'
    <3>1. l \in Entry /\ <<l, j>> \in Entry \X Entry /\ V(<<l, j>>) = l * Entries + j
      BY DEF Tabs, Entry, V
    <3>2. PICK w \in Nat : w = l * Entries + j /\ w = V(<<l, j>>)
      BY <3>1, VaOf
    <3>3. table[table[g][l]][j] = Target(w)
      BY <1>1, <3>2 DEF MappingAt, IsMapped
    <3>4. table[g][l] \in Frame
      BY <1>9, DirectoryBlocks DEF Directory
    <3>5. CASE w = v
      <4>1. <<l, j>> = <<k, r>>
        BY <1>7, <3>1, <3>2, <3>5, VaInjective
      <4> QED BY <1>6, <1>8, <1>11, <3>2, <3>5, <4>1
    <3>6. CASE w # v
      <4>1. table[g][l] = t => l = k
        BY <1>8, <1>9 DEF IsDirectory
      <4>2. l = k => j # r
        BY <1>7, <3>2, <3>6
      <4>3. table'[table[g][l]][j] = table[table[g][l]][j]
        BY <1>11, <3>4, <4>1, <4>2
      <4> QED BY <1>6, <3>2, <3>3, <3>6, <4>3
    <3> QED BY <3>5, <3>6
  <2>2. ASSUME NEW w \in 0 .. Entries * Entries - 1, Target(w)' # None
        PROVE  table[g][w \div Entries] # None
    <3>1. w \in Nat
      BY MmAssumption
    <3>2. CASE w = v
      BY <1>7, <1>8, <3>2
    <3>3. CASE w # v
      <4>1. Target(w) # None
        BY <1>6, <2>2, <3>1, <3>3
      <4> QED BY <1>1, <4>1 DEF MappingAt, IsMapped
    <3> QED BY <3>2, <3>3
  <2>3. op'.new = g
    BY <1>1, <1>5
  <2>4. \A l \in Tabs(g, 0), j \in Entry : table'[table[g][l]][j] = Target(l * Entries + j)'
    BY <2>1
  <2>5. \A w \in 0 .. Entries * Entries - 1 : Target(w)' # None => table[g][w \div Entries] # None
    BY <2>2
  <2> QED BY <1>12, <2>3, <2>4, <2>5, MappedAlike
<1>17. \A b \in lent : IsOwn(b) => IsOwn(b)'
  <2>1. \A b : InBlock(b)' = InBlock(b)
    BY DEF InBlock, Pages!PagesOf
  <2> QED BY <1>1, <1>5, <1>13, <1>15, <2>1 DEF IsOwn
<1>18. Disjoint' /\ lent' \subseteq Block
  BY DEF Disjoint, MappingAt
<1>19. /\ IsDirectory(op.new, 0)' /\ IsTree(mm.pgd, 0, 0, loaded)' /\ InUse(Tree(mm.pgd, 0, 0))'
       /\ Tree(mm.pgd, 0, 0)' = Tree(mm.pgd, 0, 0)
       /\ Directory(op.new, 0)' \cap Tree(mm.pgd, 0, 0)' = {}
  BY <1>1, <1>5, <1>9, <1>13, <1>14, <1>15
<1> QED BY <1>11, <1>16, <1>17, <1>18, <1>19, MappedStep

\* A new table p, with the entry of one page.
EntersTable(k, r, p) ==
    table' = [[table EXCEPT ![op.new][k] = p, ![p] = EmptyTable] EXCEPT ![p][r] = pa]

LEMMA TableEntered ==
    ASSUME MmTypes, NEW k \in Entry, NEW r \in Entry, NEW p \in Frame, EntersTable(k, r, p),
           op.new \in Frame, op.new # p, pa \in Frame
    PROVE  /\ table' \in [Frame -> [Entry -> Frame \cup {None}]]
           /\ \A q \in Frame : q # p /\ q # op.new => table'[q] = table[q]
           /\ \A l \in Entry : table'[op.new][l] = IF l = k THEN p ELSE table[op.new][l]
           /\ \A j \in Entry : table'[p][j] = IF j = r THEN pa ELSE None
<1>1. table \in [Frame -> [Entry -> Frame \cup {None}]]
  BY DEF MmTypes
<1>2. PICK g, a, u, t : /\ g = op.new /\ a = pa
                        /\ u = [table EXCEPT ![g][k] = p] /\ t = [u EXCEPT ![p] = EmptyTable]
  OBVIOUS
<1>3. table' = [t EXCEPT ![p][r] = a] /\ g \in Frame /\ g # p /\ a \in Frame
  BY <1>2 DEF EntersTable
<1>4. /\ u \in [Frame -> [Entry -> Frame \cup {None}]]
      /\ \A q \in Frame : q # g => u[q] = table[q]
      /\ \A l \in Entry : u[g][l] = IF l = k THEN p ELSE table[g][l]
  BY <1>1, <1>2, <1>3
<1>5. EmptyTable \in [Entry -> Frame \cup {None}] /\ \A j \in Entry : EmptyTable[j] = None
  BY DEF EmptyTable
<1>6. /\ t \in [Frame -> [Entry -> Frame \cup {None}]]
      /\ \A q \in Frame : q # p => t[q] = u[q]
      /\ t[p] = EmptyTable
  BY <1>2, <1>4, <1>5
<1>7. /\ table' \in [Frame -> [Entry -> Frame \cup {None}]]
      /\ \A q \in Frame : q # p => table'[q] = t[q]
      /\ \A j \in Entry : table'[p][j] = IF j = r THEN a ELSE None
  BY <1>3, <1>5, <1>6
<1>8. /\ \A q \in Frame : q # p /\ q # g => table'[q] = table[q]
      /\ \A l \in Entry : table'[g][l] = IF l = k THEN p ELSE table[g][l]
  BY <1>3, <1>4, <1>6, <1>7
<1> QED BY <1>2, <1>7, <1>8

\* A new table is made for it.
LEMMA EnterTable ==
    ASSUME MmTypes, PagesInv, At("map"), MappingAt,
           op' = [op EXCEPT !.i = @ + 1, !.at = IF op.i = op.npage THEN "activate" ELSE "map"],
           UNCHANGED <<mm, loaded>>, NEW b, b = kmalloc(1), FreeBlocks(1) # {}, lent' = lent \cup {b},
           NEW k, NEW r, IsEntry(k, r), table[op.new][k] = None, NEW p, p = b[1],
           EntersTable(k, r, p)
    PROVE  PageTypes' /\ PagesInv'
<1>1. PICK m, g, ld, n : m = mm.pgd /\ g = op.new /\ ld = loaded /\ n = op.npage
  OBVIOUS
<1>2. PICK cb \in lent : IsCode(cb) /\ IsOwn(cb)
  BY MappingIs
<1>3. PICK sb \in lent : IsStack(sb) /\ IsOwn(sb)
  BY MappingIs
<1>4. pa \in Frame
  BY <1>2, <1>3, PaIs
<1>5. /\ op'.new = op.new /\ op'.i = op.i + 1 /\ op'.code = op.code
      /\ op'.stack = op.stack /\ op'.npage = op.npage /\ op'.buf = op.buf
  BY DEF MappingAt, Loading
<1>a. PICK v : v = va
  OBVIOUS
<1>6. /\ v = va /\ v \in Nat /\ v < Entries * Entries /\ Target(v)' = pa
      /\ \A w \in Nat : w # v => Target(w)' = Target(w)
  BY <1>5, <1>a, TargetStep
<1>7. k \in Entry /\ r \in Entry /\ V(<<k, r>>) = v /\ k = v \div Entries
  BY <1>6, EntryOf DEF IsEntry
<1>8. p \in Frame /\ b = <<p, 0>> /\ InBlock(b) = {p}
  BY KmallocPage, OnePage
<1>9. b \in Block /\ \A d \in lent : InBlock(b) \cap InBlock(d) = {}
  BY KmallocIs
<1>10. /\ IsDirectory(g, 0) /\ IsTree(m, 0, 0, ld) /\ InUse(Tree(m, 0, 0))
       /\ Directory(g, 0) \cap Tree(m, 0, 0) = {} /\ table[g][k] = None
  BY <1>1 DEF MappingAt
<1>11. p \notin Directory(g, 0) /\ p \notin Tree(m, 0, 0)
  <2>1. InUse(Directory(g, 0))
    BY <1>10, DirectoryBlocks
  <2> QED BY <1>8, <1>9, <1>10, <2>1, FreePages
<1>12. g \in Frame /\ p # g /\ \A q \in Directory(g, 0) : q \in Frame /\ q # p
  BY <1>10, <1>11, DirectoryBlocks DEF IsDirectory, Directory
<1>13. /\ table' \in [Frame -> [Entry -> Frame \cup {None}]]
       /\ \A q \in Frame : q # p /\ q # g => table'[q] = table[q]
       /\ \A l \in Entry : table'[g][l] = IF l = k THEN p ELSE table[g][l]
       /\ \A j \in Entry : table'[p][j] = IF j = r THEN pa ELSE None
  BY <1>1, <1>4, <1>7, <1>8, <1>12, TableEntered
<1>14. Tabs(g, 0)' = Tabs(g, 0) \cup {k} /\ k \notin Tabs(g, 0) /\ Tabs(g, 0) \subseteq Entry
       /\ \A l \in Tabs(g, 0) : table'[g][l] = table[g][l] /\ table[g][l] \in Directory(g, 0)
                                /\ table[g][l] # p /\ table[g][l] # g /\ table[g][l] \in Frame
  <2>1. p # None
    BY <1>8, NoneAssumption
  <2>2. \A l \in Entry : l \in Tabs(g, 0)' <=> l \in Tabs(g, 0) \/ l = k
    BY <1>7, <1>10, <1>13, <2>1 DEF Tabs, Entry
  <2>3. Tabs(g, 0) \subseteq Entry /\ Tabs(g, 0)' \subseteq Entry /\ k \notin Tabs(g, 0)
    BY <1>10 DEF Tabs, Entry
  <2>4. \A l \in Tabs(g, 0) : /\ l # k /\ table[g][l] \in Directory(g, 0) /\ table[g][l] # g
                              /\ table'[g][l] = table[g][l]
    BY <1>10, <1>13, <2>3 DEF Directory, IsDirectory
  <2> QED BY <1>7, <1>12, <2>2, <2>3, <2>4
<1>15. table'[g][k] = p
  BY <1>7, <1>13
<1>16. Directory(g, 0)' = Directory(g, 0) \cup {p}
  BY <1>14, <1>15 DEF Directory
<1>17. IsDirectory(g, 0)'
  <2>1. \A l \in Tabs(g, 0)' : table'[g][l] # g /\ <<table'[g][l], 0>> \in lent'
    <3>1. \A l \in Tabs(g, 0) : <<table[g][l], 0>> \in lent
      BY <1>10 DEF IsDirectory
    <3> QED BY <1>8, <1>12, <1>14, <1>15, <3>1
  <2>2. \A l, o \in Tabs(g, 0)' : table'[g][l] = table'[g][o] => l = o
    <3>1. \A l, o \in Tabs(g, 0) : table[g][l] = table[g][o] => l = o
      BY <1>10 DEF IsDirectory
    <3> QED BY <1>14, <1>15, <3>1
  <2>3. <<g, 0>> \in lent'
    BY <1>10 DEF IsDirectory
  <2> QED BY <1>12, <2>1, <2>2, <2>3 DEF IsDirectory
<1>18. /\ IsTree(m, 0, 0, ld)' /\ Tree(m, 0, 0)' = Tree(m, 0, 0) /\ InUse(Tree(m, 0, 0))'
  <2>1. \A q \in Directory(m, 0) : table'[q] = table[q]
    <3>1. \A q \in Directory(m, 0) : q \in Frame /\ q # p /\ q # g
      <4>1. g \in Directory(g, 0)
        BY DEF Directory
      <4> QED BY <1>10, <1>11, <4>1, DirectoryBlocks DEF IsTree, Tree
    <3> QED BY <1>13, <3>1
  <2> QED BY <1>9, <1>10, <2>1, TreeBesideNew
<1>19. IsMapped'
  <2>1. ASSUME NEW l \in Tabs(g, 0)', NEW j \in Entry
        PROVE  table'[table'[g][l]][j] = Target(l * Entries + j)'
    <3>1. l \in Entry /\ <<l, j>> \in Entry \X Entry /\ V(<<l, j>>) = l * Entries + j
      BY <1>7, <1>14 DEF V
    <3>2. PICK w \in Nat : w = l * Entries + j /\ w = V(<<l, j>>)
      BY <3>1, VaOf
    <3>3. CASE l = k
      <4>1. CASE j = r
        <5>1. w = v
          BY <1>7, <3>2, <3>3, <4>1
        <5> QED BY <1>6, <1>13, <1>15, <3>2, <3>3, <4>1, <5>1
      <4>2. CASE j # r
        <5>1. w # v
          <6>1. w = v => <<l, j>> = <<k, r>>
            BY <1>7, <3>1, <3>2, VaInjective
          <6> QED BY <4>2, <6>1
        <5>2. Target(w) = None
          <6>1. w \div Entries = k /\ w < Entries * Entries
            <7>1. w \div Entries = k
              BY <3>1, <3>2, <3>3, VaOf
            <7>2. w < Entries * Entries
              BY <3>1, <3>2, VaBound
            <7> QED BY <7>1, <7>2
          <6>2. w \in 0 .. Entries * Entries - 1
            BY <6>1, MmAssumption
          <6> QED BY <1>1, <1>10, <6>1, <6>2 DEF MappingAt, IsMapped
        <5>3. table'[table'[g][l]][j] = None
          BY <1>13, <1>15, <3>3, <4>2
        <5> QED BY <1>6, <3>2, <5>1, <5>2, <5>3
      <4> QED BY <4>1, <4>2
    <3>4. CASE l # k
      <4>1. l \in Tabs(g, 0)
        BY <1>14, <3>4
      <4>2. w # v
        <5>1. w = v => <<l, j>> = <<k, r>>
          BY <1>7, <3>1, <3>2, VaInjective
        <5> QED BY <3>4, <5>1
      <4>3. table[table[g][l]][j] = Target(w)
        BY <1>1, <3>2, <4>1 DEF MappingAt, IsMapped
      <4>4. table'[table'[g][l]][j] = table[table[g][l]][j]
        BY <1>13, <1>14, <4>1
      <4> QED BY <1>6, <3>2, <4>2, <4>3, <4>4
    <3> QED BY <3>3, <3>4
  <2>2. ASSUME NEW w \in 0 .. Entries * Entries - 1, Target(w)' # None
        PROVE  table'[g][w \div Entries] # None
    <3>1. w \in Nat
      BY MmAssumption
    <3>2. CASE w = v
      BY <1>7, <1>8, <1>15, <3>2, NoneAssumption
    <3>3. CASE w # v
      <4>1. Target(w) # None
        BY <1>6, <2>2, <3>1, <3>3
      <4>2. table[g][w \div Entries] # None
        BY <1>1, <4>1 DEF MappingAt, IsMapped
      <4>3. w \div Entries \in Entry
        <5>1. w < Entries * Entries
          BY MmAssumption
        <5> QED BY <3>1, <5>1, EntryOf
      <4> QED BY <1>8, <1>13, <4>2, <4>3, NoneAssumption
    <3> QED BY <3>2, <3>3
  <2>3. op'.new = g
    BY <1>1, <1>5
  <2>4. \A l \in Tabs(g, 0)', j \in Entry : table'[table'[g][l]][j] = Target(l * Entries + j)'
    BY <2>1
  <2>5. \A w \in 0 .. Entries * Entries - 1 : Target(w)' # None => table'[g][w \div Entries] # None
    BY <2>2
  <2> QED BY <2>3, <2>4, <2>5, MappedNow
<1>20. \A c \in lent : IsOwn(c) => IsOwn(c)'
  <2>1. \A c : InBlock(c)' = InBlock(c)
    BY DEF InBlock, Pages!PagesOf
  <2>2. \A c \in lent : p \notin InBlock(c)
    BY <1>8, <1>9
  <2>3. /\ Directory(op.new, 0)' = Directory(op.new, 0) \cup {p}
        /\ Tree(mm.pgd, 0, 0)' = Tree(mm.pgd, 0, 0)
    BY <1>1, <1>5, <1>16, <1>18
  <2> QED BY <2>1, <2>2, <2>3 DEF IsOwn
<1>21. Disjoint' /\ lent' \subseteq Block /\ lent \subseteq lent'
  BY <1>9, StayDisjoint DEF MappingAt
<1>22. /\ IsDirectory(op.new, 0)' /\ IsTree(mm.pgd, 0, 0, loaded)' /\ InUse(Tree(mm.pgd, 0, 0))'
       /\ Tree(mm.pgd, 0, 0)' = Tree(mm.pgd, 0, 0)
       /\ Directory(op.new, 0)' \cap Tree(mm.pgd, 0, 0)' = {}
  BY <1>1, <1>5, <1>10, <1>11, <1>16, <1>17, <1>18
<1> QED BY <1>13, <1>19, <1>20, <1>21, <1>22, MappedStep

\* kmalloc fails.
LEMMA MapFails ==
    ASSUME MmTypes, PagesInv, At("map"), op' = [op EXCEPT !.at = "error_5"],
           UNCHANGED <<lent, table, mm, loaded>>
    PROVE  PageTypes' /\ PagesInv'
<1>1. MappingAt
  BY MappingIs
<1>2. PICK m, g, ld, n : m = mm.pgd /\ g = op.new /\ ld = loaded /\ n = op.npage
  OBVIOUS
<1>3. PICK cb \in lent : IsCode(cb) /\ IsOwn(cb)
  BY MappingIs
<1>4. PICK sb \in lent : IsStack(sb) /\ IsOwn(sb)
  BY MappingIs
<1>5. /\ op' \in Loading /\ op'.at = "error_5" /\ op'.new = op.new /\ op'.i = op.i
      /\ op'.code = op.code /\ op'.stack = op.stack /\ op'.npage = op.npage
      /\ op'.buf = op.buf
  BY <1>1 DEF MappingAt, Loading
<1>6. /\ IsTree(m, 0, 0, ld)' /\ Tree(m, 0, 0)' = Tree(m, 0, 0) /\ InUse(Tree(m, 0, 0))'
      /\ IsDirectory(g, 0)' /\ Directory(g, 0)' = Directory(g, 0) /\ Tabs(g, 0)' = Tabs(g, 0)
  BY <1>1, <1>2, PagesSame DEF MappingAt
<1>7. Directory(op.new, 0)' \cap Tree(mm.pgd, 0, 0)' = {}
  BY <1>1, <1>2, <1>5, <1>6 DEF MappingAt
<1>8. \A b \in lent : IsOwn(b) => IsOwn(b)'
  <2>1. \A c : InBlock(c)' = InBlock(c)
    BY DEF InBlock, Pages!PagesOf
  <2> QED BY <1>2, <1>5, <1>6, <2>1 DEF IsOwn
<1>9. IsCode(cb)' /\ IsStack(sb)' /\ IsOwn(cb)' /\ IsOwn(sb)'
  BY <1>3, <1>4, <1>5, <1>8 DEF IsCode, IsStack
<1>10. IsMapped'
  <2>1. \A w : Target(w)' = Target(w)
    BY <1>5 DEF Target
  <2> QED BY <1>1, <1>2, <1>5, <1>6, <2>1 DEF MappingAt, IsMapped
<1>11. Loads'
  <2>1. cb \in lent' /\ sb \in lent' /\ IsDirectory(op.new, 0)'
    BY <1>2, <1>5, <1>6
  <2>2. op'.new # None /\ 0 < op'.npage /\ op'.stack # op'.code /\ mm' # None /\ op'.i <= op'.npage
    BY <1>1, <1>5 DEF MappingAt
  <2>3. HasBuffer'
    BY <1>1, <1>2, <1>5, <1>6, <1>8, BufferStays DEF MappingAt
  <2> QED BY <1>5, <1>7, <1>9, <1>10, <2>1, <2>2, <2>3 DEF Loads, Begins, Builds
<1>12. HasTables' /\ Disjoint'
  BY <1>1, <1>2, <1>6 DEF HasTables, Disjoint, MappingAt, Deleting
<1>13. Deletes'
  BY <1>5 DEF Deletes, At, Deleting
<1>14. PageTypes'
  BY <1>5 DEF PageTypes, MmTypes
<1> QED BY <1>11, <1>12, <1>13, <1>14 DEF PagesInv

LEMMA MapStep ==
    ASSUME MmTypes, PagesInv, do_one_mapping
    PROVE  PageTypes' /\ PagesInv'
<1>1. At("map") /\ MappingAt /\ UNCHANGED <<mm, loaded>>
  BY MappingIs DEF do_one_mapping
<1>2. PICK k, r : IsEntry(k, r)
  BY DEF IsEntry
<1>3. k = va \div Entries /\ r = va % Entries
  BY <1>2 DEF IsEntry
<1>4. CASE table[op.new][k] # None
  <2>1. PICK t : t = table[op.new][k] /\ t # None
    BY <1>4
  <2>2. /\ op' = [op EXCEPT !.i = @ + 1, !.at = IF op.i = op.npage THEN "activate" ELSE "map"]
        /\ lent' = lent /\ table' = [table EXCEPT ![t][r] = pa]
    BY <1>3, <2>1 DEF do_one_mapping
  <2> QED BY <1>1, <1>2, <2>1, <2>2, EnterPage
<1>5. CASE table[op.new][k] = None
  <2>1. ASSUME NEW b, b = kmalloc(1), FreeBlocks(1) # {}, lent' = lent \cup {b},
               op' = [op EXCEPT !.i = @ + 1, !.at = IF op.i = op.npage THEN "activate" ELSE "map"],
               table' = [[table EXCEPT ![op.new][k] = b[1], ![b[1]] = EmptyTable] EXCEPT ![b[1]][r] = pa]
        PROVE  PageTypes' /\ PagesInv'
    <3>1. PICK p : p = b[1]
      OBVIOUS
    <3>2. EntersTable(k, r, p)
      BY <2>1, <3>1 DEF EntersTable
    <3> QED BY <1>1, <1>2, <1>5, <2>1, <3>1, <3>2, EnterTable
  <2>2. ASSUME lent' = lent, op' = [op EXCEPT !.at = "error_5"], UNCHANGED table
        PROVE  PageTypes' /\ PagesInv'
    BY <1>1, <2>2, MapFails
  <2> QED BY <1>3, <1>5, <2>1, <2>2 DEF do_one_mapping, Take, Goto
<1> QED BY <1>4, <1>5

\* error_5: the stack is given back, and then newmm.
LEMMA Error5Step ==
    ASSUME MmTypes, PagesInv, Error5
    PROVE  /\ PageTypes' /\ PagesInv' /\ \E b \in lent : b[1] = op.stack
           /\ \A g \in {mm.pgd, op.new} : Tree(g, 0, 0)' = Tree(g, 0, 0)
<1>1. At("error_5") /\ MappingAt /\ UNCHANGED <<mm, loaded>> /\ kfree(op.stack)
      /\ op' = Delete(op.new, op.npage, "new")
  BY MappingIs DEF Error5, Error3
<1>2. PICK m, g, ld, n : m = mm.pgd /\ g = op.new /\ ld = loaded /\ n = op.npage
  OBVIOUS
<1>3. PICK cb \in lent : IsCode(cb) /\ IsOwn(cb)
  BY <1>1, MappingIs
<1>4. PICK sb \in lent : IsStack(sb) /\ IsOwn(sb)
  BY <1>1, MappingIs
<1>5. PICK p : p = op.stack /\ p = sb[1] /\ p # cb[1]
  BY <1>1, <1>3, <1>4 DEF IsStack, IsCode, MappingAt
<1>6. lent \subseteq Block /\ Disjoint /\ p \in Frame /\ p \in InBlock(sb)
  BY <1>1, <1>4, <1>5, BlockParts DEF MappingAt
<1>7. /\ IsDirectory(g, 0) /\ IsTree(m, 0, 0, ld) /\ InUse(Tree(m, 0, 0))
      /\ Directory(g, 0) \cap Tree(m, 0, 0) = {}
  BY <1>1, <1>2 DEF MappingAt
<1>8. IsTree(g, 0, 0, n) /\ LeafPages(g, 0, 0) \subseteq InBlock(cb)
  BY <1>1, <1>2, <1>3, <1>4, MappedTree DEF MappingAt
<1>9. /\ InBlock(sb) \cap Directory(g, 0) = {} /\ InBlock(sb) \cap Tree(m, 0, 0) = {}
      /\ InBlock(cb) \cap Tree(m, 0, 0) = {}
  BY <1>2, <1>3, <1>4 DEF IsOwn
<1>10. InBlock(sb) \cap Tree(g, 0, 0) = {}
  BY <1>3, <1>4, <1>5, <1>6, <1>8, <1>9 DEF Disjoint, Tree
<1>11. \A b \in lent : b[1] = p => b = sb
  BY <1>4, <1>5, <1>6, TheBlock
<1>12. kfree(p)
  BY <1>1, <1>5
<1>13. Apart(Tree(m, 0, 0), Tree(g, 0, 0))
  BY <1>3, <1>6, <1>7, <1>8, <1>9, NewApart
<1>14. IsTree(m, 0, 0, ld)' /\ Tree(m, 0, 0)' = Tree(m, 0, 0) /\ InUse(Tree(m, 0, 0))'
  BY <1>6, <1>7, <1>9, <1>11, <1>12, TreeBesideFreed DEF Tree
<1>15. IsTree(g, 0, 0, n)' /\ Tree(g, 0, 0)' = Tree(g, 0, 0)
  BY <1>6, <1>8, <1>10, <1>11, <1>12, TreeBesideFreed DEF Tree
<1>16. lent' \subseteq lent
  BY <1>12 DEF kfree
<1>17. Apart(Tree(m, 0, 0), Tree(g, 0, 0))'
  <2>1. \A b : InBlock(b)' = InBlock(b)
    BY DEF InBlock, Pages!PagesOf
  <2> QED BY <1>13, <1>14, <1>15, <1>16, <2>1 DEF Apart
<1>18. /\ op'.npage = n /\ op' \in Deletion /\ op'.at = "delete" /\ op'.of = "new" /\ op'.pgd = g
       /\ op'.i = 0 /\ op'.j = 0 /\ op' # None
  BY <1>1, <1>2, <1>7, NoneAssumption DEF Delete, Deletion, IsDirectory, MappingAt
<1>19. Deletes' /\ HasTables' /\ Loads'
  BY <1>1, <1>2, <1>14, <1>15, <1>17, <1>18 DEF Deletes, HasTables, Loads, At, MappingAt, Deleting
<1>20. Disjoint'
  BY <1>6, <1>16, StayDisjoint
<1>21. PageTypes'
  <2>1. table' \in [Frame -> [Entry -> Frame \cup {None}]]
    BY <1>4, <1>6, <1>12, Typed DEF kfree
  <2> QED BY <1>6, <1>16, <1>18, <2>1 DEF PageTypes, Block
<1> QED BY <1>2, <1>4, <1>5, <1>14, <1>15, <1>19, <1>20, <1>21 DEF PagesInv

\* The process goes on with newmm.
LEMMA ActivateStep ==
    ASSUME MmTypes, PagesInv, Activate
    PROVE  PageTypes' /\ PagesInv' /\ mm' = NewMm(mm'.pgd) /\ mm'.pgd \in Frame /\ loaded' \in Nat
<1>1. At("activate") /\ op # None /\ op.at = "activate"
  BY DEF Activate, At
<1>2. op \in Loading /\ lent \subseteq Block /\ Disjoint /\ Loads
  BY <1>1, WhileLoading
<1>3. PICK cb \in lent : IsCode(cb) /\ IsOwn(cb)
  BY <1>1, <1>2 DEF Loads
<1>4. PICK sb \in lent : IsStack(sb) /\ IsOwn(sb)
  BY <1>1, <1>2 DEF Loads
<1>5. /\ op.new # None /\ IsDirectory(op.new, 0) /\ IsMapped /\ 0 < op.npage
      /\ op.stack # op.code /\ HasBuffer /\ op.i = op.npage + 1
  BY <1>1, <1>2 DEF Loads, Builds
<1>6. /\ IsTree(op.new, 0, 0, op.npage) /\ InUse(Tree(op.new, 0, 0))
      /\ LeafPages(op.new, 0, 0) \subseteq InBlock(cb) \cup {op.stack}
      /\ {op.code, op.stack} \subseteq LeafPages(op.new, 0, 0)
  BY <1>2, <1>3, <1>4, <1>5, MappedTree
<1>7. PICK g, n : g = op.new /\ n = op.npage /\ n \in Nat
  BY <1>2, ProgramPages DEF Loading
<1>8. /\ mm' = NewMm(g) /\ mm'.pgd = g /\ op' = [op EXCEPT !.at = "copy"] /\ UNCHANGED <<lent, table>>
      /\ g \in Frame /\ mm' # None /\ loaded' = n
  <2>1. mm' = NewMm(g) /\ op' = [op EXCEPT !.at = "copy"] /\ UNCHANGED <<lent, table>> /\ g \in Frame
        /\ loaded' = n
    BY <1>5, <1>7 DEF Activate, IsDirectory, Goto
  <2>2. NewMm(g) \in MmRecord /\ NewMm(g).pgd = g
    BY <2>1 DEF NewMm, MmRecord
  <2> QED BY <2>1, <2>2, NoneAssumption
<1>9. /\ op' \in Loading /\ op'.at = "copy" /\ op'.new = g /\ op'.buf = op.buf
      /\ op'.code = op.code /\ op'.stack = op.stack
  BY <1>2, <1>7, <1>8 DEF Loading
<1>10. /\ IsTree(g, 0, 0, n)' /\ InUse(Tree(g, 0, 0))' /\ Tree(g, 0, 0)' = Tree(g, 0, 0)
       /\ Directory(g, 0)' = Directory(g, 0)
  BY <1>6, <1>7, <1>8, PagesSame
<1>11. HasTables' /\ Deletes'
  BY <1>8, <1>9, <1>10 DEF HasTables, Deletes, Deleting
<1>12. HasBuffer'
  <2> SUFFICES ASSUME op.buf # None PROVE HasBuffer'
    BY <1>9 DEF HasBuffer
  <2>1. PICK b \in lent : IsBuffer(b) /\ IsOwn(b)
    BY <1>5 DEF HasBuffer
  <2>2. b # cb /\ b # sb /\ op.stack \in InBlock(sb)
    BY <1>2, <1>3, <1>4, <2>1, BlockParts DEF IsBuffer, IsCode, IsStack
  <2>3. InBlock(b) \cap InBlock(cb) = {} /\ op.stack \notin InBlock(b)
    BY <1>2, <2>2 DEF Disjoint
  <2>4. InBlock(b) \cap Directory(g, 0) = {}
    BY <1>7, <2>1 DEF IsOwn
  <2>5. InBlock(b) \cap Tree(g, 0, 0) = {}
    BY <1>6, <1>7, <2>3, <2>4 DEF Tree
  <2>6. InBlock(b)' = InBlock(b)
    BY DEF InBlock, Pages!PagesOf
  <2> QED BY <1>8, <1>9, <1>10, <2>1, <2>4, <2>5, <2>6 DEF HasBuffer, IsBuffer, IsOwn
<1>13. Loads'
  <2>1. {op.code, op.stack} \subseteq Tree(g, 0, 0)
    BY <1>6, <1>7 DEF Tree
  <2> QED BY <1>8, <1>9, <1>10, <1>12, <2>1 DEF Loads, Begins, Builds
<1>14. Disjoint'
  BY <1>2, <1>8, StayDisjoint
<1>15. PageTypes'
  BY <1>8, <1>9 DEF PageTypes, MmTypes
<1> QED BY <1>7, <1>8, <1>11, <1>13, <1>14, <1>15 DEF PagesInv

\* The buffer is given back, and lies beside the tables.
LEMMA CopyStep ==
    ASSUME MmTypes, PagesInv, CopyProgram
    PROVE  /\ PageTypes' /\ PagesInv' /\ Tree(mm.pgd, 0, 0)' = Tree(mm.pgd, 0, 0)
           /\ op.buf # None => kfree(op.buf) /\ \E b \in lent : b[1] = op.buf
<1>1. op # None /\ op.at = "copy" /\ UNCHANGED <<mm, loaded>> /\ op' = None
  BY DEF CopyProgram, At
<1>2. /\ op \in Loading /\ mm # None /\ mm \in MmRecord /\ lent \subseteq Block /\ Disjoint
      /\ IsTree(mm.pgd, 0, 0, loaded) /\ InUse(Tree(mm.pgd, 0, 0)) /\ Loads
  BY <1>1, WhileLoading
<1>3. PICK m, ld : m = mm.pgd /\ ld = loaded
  OBVIOUS
<1>4. CASE op.buf = None
  <2>1. UNCHANGED <<lent, table>>
    BY <1>4 DEF CopyProgram
  <2>2. Tree(m, 0, 0)' = Tree(m, 0, 0)
    BY <2>1, PagesSame
  <2> QED BY <1>1, <1>3, <1>4, <2>1, <2>2, GivesUp
<1>5. CASE op.buf # None
  <2>1. kfree(op.buf)
    BY <1>5 DEF CopyProgram
  <2>2. PICK b \in lent : IsBuffer(b) /\ InBlock(b) \cap Tree(m, 0, 0) = {}
    BY <1>1, <1>2, <1>3, <1>5 DEF Loads, HasBuffer
  <2>3. PICK p \in Frame : p = op.buf /\ p = b[1] /\ p \in InBlock(b)
    BY <1>2, <2>2, BlockParts DEF IsBuffer
  <2>4. \A c \in lent : c[1] = p => c = b
    BY <1>2, <2>2, <2>3, TheBlock
  <2>5. p \notin Directory(m, 0)
    BY <2>2, <2>3 DEF Tree
  <2>6. IsTree(m, 0, 0, ld)' /\ Tree(m, 0, 0)' = Tree(m, 0, 0) /\ InUse(Tree(m, 0, 0))'
    BY <1>2, <1>3, <2>1, <2>2, <2>3, <2>4, <2>5, TreeBesideFreed
  <2>7. HasTables' /\ Loads' /\ Deletes'
    BY <1>1, <1>3, <2>6 DEF HasTables, Loads, Deletes, Deleting
  <2>8. lent' \subseteq lent
    BY <2>1 DEF kfree
  <2>9. Disjoint'
    BY <1>2, <2>8, StayDisjoint
  <2>10. PageTypes'
    <3>1. table' \in [Frame -> [Entry -> Frame \cup {None}]]
      BY <1>2, <2>1, <2>3, Typed DEF kfree, MmTypes
    <3> QED BY <1>1, <1>2, <2>8, <3>1 DEF PageTypes, Block
  <2> QED BY <1>1, <1>3, <2>1, <2>2, <2>3, <2>6, <2>7, <2>9, <2>10 DEF PagesInv
<1> QED BY <1>4, <1>5

\* mm_delete of the process begins.
LEMMA MmDeleteStep ==
    ASSUME MmTypes, PagesInv, mm_delete
    PROVE  PageTypes' /\ PagesInv'
<1>1. PICK m, n : m = mm.pgd /\ n = loaded /\ n \in Nat
  BY DEF MmTypes
<1>2. /\ mm # None /\ op = None /\ op' = Delete(m, n, "task") /\ UNCHANGED <<lent, table, mm>>
      /\ lent \subseteq Block /\ Disjoint
  BY <1>1 DEF mm_delete, Runs, MmTypes, Block, PagesInv
<1>3. IsTree(m, 0, 0, n) /\ m \in Frame
  BY <1>1, <1>2 DEF PagesInv, HasTables, At, IsTree, IsDirectory, Deleting
<1>4. /\ op' \in Deletion /\ op'.at = "delete" /\ op'.of = "task" /\ op'.pgd = m
      /\ op'.npage = n /\ op'.i = 0 /\ op'.j = 0 /\ op' # None
  BY <1>1, <1>2, <1>3, NoneAssumption DEF Delete, Deletion
<1>5. IsTree(m, 0, 0, n)'
  BY <1>2, <1>3, PagesSame
<1>6. Deletes' /\ HasTables' /\ Loads'
  BY <1>1, <1>2, <1>4, <1>5 DEF Deletes, HasTables, Loads, At, Deleting
<1>7. Disjoint'
  BY <1>2, StayDisjoint
<1>8. PageTypes'
  BY <1>2, <1>4 DEF PageTypes, MmTypes
<1> QED BY <1>6, <1>7, <1>8 DEF PagesInv

--------------------------------------------------------------------------------
(* pgd_delete *)

\* A page that is given back is a page of a table, or it is mapped.
LEMMA LeavesAre ==
    ASSUME MmTypes, NEW g, NEW i, NEW j, NEW n, IsTree(g, i, j, n), NEW e \in Leaves(g, i, j)
    PROVE  /\ Leaf(g, e) \in Frame /\ Leaf(g, e) \in LeafPages(g, i, j)
           /\ e[1] \in Tabs(g, i) /\ e[2] \in Entry /\ table[g][e[1]] \in Frame
<1>1. e[1] \in Tabs(g, i) /\ e[2] \in Entry /\ Leaf(g, e) # None
  BY DEF Leaves
<1>2. table[g][e[1]] \in Frame
  <2>1. IsDirectory(g, i)
    BY DEF IsTree
  <2>2. table[g][e[1]] \in Directory(g, i)
    BY <1>1 DEF Directory
  <2> QED BY <2>1, <2>2, DirectoryBlocks
<1>3. Leaf(g, e) \in Frame
  BY <1>1, <1>2 DEF MmTypes, Leaf
<1> QED BY <1>1, <1>2, <1>3 DEF LeafPages

\* A page mapped is given back.
LEMMA LeafFreed ==
    ASSUME MmTypes, NEW g, NEW i \in Nat, NEW j \in Nat, NEW n, IsTree(g, i, j, n),
           NEW k \in Tabs(g, i), \A l \in Tabs(g, i) : k <= l,
           NEW r \in Entry, <<k, r>> \in Leaves(g, i, j),
           \A s \in Entry : <<k, s>> \in Leaves(g, i, j) => r <= s,
           NEW p, p = Leaf(g, <<k, r>>), kfree(p)
    PROVE  /\ p \in Frame /\ p \in Tree(g, i, j)
           /\ n <= 1 => \E b \in lent : b[1] = p
           /\ IsTree(g, k, r + 1, n)' /\ Tree(g, k, r + 1)' = Tree(g, i, j) \ {p}
<1>1. lent \subseteq Block /\ IsDirectory(g, i) /\ Entries \in Nat
  BY MmAssumption DEF MmTypes, Block, IsTree
<1>2. p \in Frame /\ p \in LeafPages(g, i, j)
  BY LeavesAre
<1>3. p \notin Directory(g, i) /\ p \in Tree(g, i, j) /\ (n <= 1 => \E b \in lent : b[1] = p)
  BY <1>2 DEF IsTree, Tree
<1>4. \A q \in Frame : q # p => table'[q] = table[q]
  BY DEF MmTypes, kfree
<1>5. \A q \in Directory(g, i) : table'[q] = table[q]
  BY <1>1, <1>3, <1>4, DirectoryBlocks
<1>6. table'[g] = table[g] /\ \A l \in Tabs(g, i) : table'[table[g][l]] = table[table[g][l]]
  BY <1>5 DEF Directory
<1>7. k \in Nat /\ i <= k /\ r \in Nat /\ \A s \in Entry : s \in Nat
  BY <1>1 DEF Tabs, Entry
<1>8. Tabs(g, k)' = Tabs(g, i)
  <2>1. Tabs(g, k)' = { l \in k .. Entries - 1 : table[g][l] # None }
    BY <1>6 DEF Tabs
  <2>2. \A l \in Tabs(g, i) : l \in k .. Entries - 1 /\ table[g][l] # None
    BY <1>1, <1>7 DEF Tabs
  <2>3. \A l \in k .. Entries - 1 : l \in i .. Entries - 1
    BY <1>1, <1>7
  <2> QED BY <2>1, <2>2, <2>3 DEF Tabs
<1>9. Directory(g, k)' = Directory(g, i)
  BY <1>6, <1>8 DEF Directory
<1>10. \A e \in Tabs(g, i) \X Entry : Leaf(g, e)' = Leaf(g, e)
  BY <1>6 DEF Leaf
<1>11. Leaves(g, k, r + 1)' = Leaves(g, i, j) \ {<<k, r>>}
  <2>1. ASSUME NEW e \in Tabs(g, i) \X Entry
        PROVE  e \in Leaves(g, k, r + 1)' <=> e \in Leaves(g, i, j) /\ e # <<k, r>>
    <3>1. PICK l \in Tabs(g, i), s \in Entry : e = <<l, s>> /\ e[1] = l /\ e[2] = s
      OBVIOUS
    <3>2. e \in Leaves(g, k, r + 1)' <=> Leaf(g, e) # None /\ (l = k => r + 1 <= s)
      BY <1>8, <1>10, <3>1 DEF Leaves
    <3>3. e \in Leaves(g, i, j) <=> Leaf(g, e) # None /\ (l = i => j <= s)
      BY <3>1 DEF Leaves
    <3>4. CASE l = k
      <4>1. l = i => j <= r
        BY <3>4 DEF Leaves
      <4>2. e \in Leaves(g, i, j) => r <= s
        BY <3>1, <3>4
      <4>3. e # <<k, r>> <=> s # r
        BY <3>1, <3>4
      <4>4. l = i => j \in Nat
        OBVIOUS
      <4> QED BY <1>7, <3>1, <3>2, <3>3, <3>4, <4>1, <4>2, <4>3, <4>4
    <3>5. CASE l # k
      <4>1. l # i
        BY <1>7, <3>1, <3>5 DEF Tabs
      <4> QED BY <3>1, <3>2, <3>3, <3>5, <4>1
    <3> QED BY <3>4, <3>5
  <2>2. Leaves(g, k, r + 1)' \subseteq Tabs(g, i) \X Entry
    BY <1>8 DEF Leaves
  <2>3. Leaves(g, i, j) \subseteq Tabs(g, i) \X Entry
    BY DEF Leaves
  <2> QED BY <2>1, <2>2, <2>3
<1>12. \A d, e \in Leaves(g, i, j) : Leaf(g, d) = Leaf(g, e) => d = e
  BY DEF IsTree
<1>13. \A e \in Leaves(g, i, j) : Leaf(g, e)' = Leaf(g, e)
  BY <1>10 DEF Leaves
<1>14. LeafPages(g, k, r + 1)' = LeafPages(g, i, j) \ {p}
  <2>1. LeafPages(g, k, r + 1)' = { Leaf(g, e) : e \in Leaves(g, k, r + 1)' }
    BY <1>11, <1>13 DEF LeafPages
  <2> QED BY <1>11, <1>12, <2>1 DEF LeafPages
<1>15. Tree(g, k, r + 1)' = Tree(g, i, j) \ {p}
  BY <1>3, <1>9, <1>14 DEF Tree
<1>16. lent' \subseteq lent /\ \A b \in lent : b[1] # p => b \in lent'
  BY DEF kfree
<1>17. \A b : InBlock(b)' = InBlock(b)
  BY DEF InBlock, Pages!PagesOf
<1>18. IsDirectory(g, k)'
  <2>1. g \in Directory(g, i) /\ \A l \in Tabs(g, i) : table[g][l] \in Directory(g, i)
    BY DEF Directory
  <2>2. \A q \in Directory(g, i) : <<q, 0>> \in lent => <<q, 0>> \in lent'
    BY <1>3, <1>16
  <2> QED BY <1>1, <1>6, <1>8, <2>1, <2>2 DEF IsDirectory
<1>19. IsTree(g, k, r + 1, n)'
  <2>1. Directory(g, k)' \cap LeafPages(g, k, r + 1)' = {}
    BY <1>9, <1>14 DEF IsTree
  <2>2. \A d, e \in Leaves(g, k, r + 1)' : Leaf(g, d)' = Leaf(g, e)' => d = e
    BY <1>11, <1>12, <1>13
  <2>3. \A b \in lent' : InBlock(b) \cap LeafPages(g, k, r + 1)' # {}
                         => b[1] \in LeafPages(g, k, r + 1)'
    <3>1. \A b \in lent' : b[1] # p
      BY DEF kfree
    <3> QED BY <1>14, <1>16, <3>1 DEF IsTree
  <2>4. n <= 1 => \A q \in LeafPages(g, k, r + 1)' : \E b \in lent' : b[1] = q
    BY <1>14, <1>16 DEF IsTree
  <2> QED BY <1>17, <1>18, <2>1, <2>2, <2>3, <2>4 DEF IsTree
<1> QED BY <1>2, <1>3, <1>15, <1>19

\* A table is given back, whose pages were.
LEMMA TableFreed ==
    ASSUME MmTypes, NEW g, NEW i \in Nat, NEW j \in Nat, NEW n, IsTree(g, i, j, n),
           NEW k \in Tabs(g, i), \A l \in Tabs(g, i) : k <= l,
           \A s \in Entry : <<k, s>> \notin Leaves(g, i, j),
           NEW p, p = table[g][k], kfree(p)
    PROVE  /\ p \in Frame /\ p \in Tree(g, i, j) /\ <<p, 0>> \in lent
           /\ IsTree(g, k + 1, 0, n)' /\ Tree(g, k + 1, 0)' = Tree(g, i, j) \ {p}
<1>1. lent \subseteq Block /\ IsDirectory(g, i) /\ Entries \in Nat
  BY MmAssumption DEF MmTypes, Block, IsTree
<1>2. p \in Directory(g, i) /\ p \in Frame /\ <<p, 0>> \in lent /\ p \in Tree(g, i, j)
  BY <1>1, DirectoryBlocks DEF Directory, Tree
<1>3. p # g /\ \A l \in Tabs(g, i) : l # k => table[g][l] # p
  BY <1>1 DEF IsDirectory
<1>4. \A q \in Frame : q # p => table'[q] = table[q]
  BY DEF MmTypes, kfree
<1>5. g \in Frame /\ \A l \in Tabs(g, i) : table[g][l] \in Frame
  BY <1>1, DirectoryBlocks DEF Directory
<1>6. table'[g] = table[g]
      /\ \A l \in Tabs(g, i) : l # k => table'[table[g][l]] = table[table[g][l]]
  BY <1>3, <1>4, <1>5
<1>7. k \in Nat /\ i <= k /\ \A s \in Entry : s \in Nat
  BY <1>1 DEF Tabs, Entry
<1>8. Tabs(g, k + 1)' = Tabs(g, i) \ {k}
  <2>1. Tabs(g, k + 1)' = { l \in k + 1 .. Entries - 1 : table[g][l] # None }
    BY <1>6 DEF Tabs
  <2>2. \A l \in Tabs(g, i) : l # k => l \in k + 1 .. Entries - 1 /\ table[g][l] # None
    BY <1>1, <1>7 DEF Tabs
  <2>3. \A l \in k + 1 .. Entries - 1 : l \in i .. Entries - 1 /\ l # k
    BY <1>1, <1>7
  <2> QED BY <2>1, <2>2, <2>3 DEF Tabs
<1>9. Directory(g, k + 1)' = Directory(g, i) \ {p}
  BY <1>3, <1>6, <1>8 DEF Directory
<1>10. \A e \in Tabs(g, i) \X Entry : e[1] # k => Leaf(g, e)' = Leaf(g, e)
  BY <1>6 DEF Leaf
<1>11. Leaves(g, k + 1, 0)' = Leaves(g, i, j)
  <2>1. ASSUME NEW e \in Tabs(g, i) \X Entry
        PROVE  e \in Leaves(g, k + 1, 0)' <=> e \in Leaves(g, i, j)
    <3>1. PICK l \in Tabs(g, i), s \in Entry : e = <<l, s>> /\ e[1] = l /\ e[2] = s
      OBVIOUS
    <3>2. CASE l = k
      BY <1>8, <3>1, <3>2 DEF Leaves
    <3>3. CASE l # k
      <4>1. l # i
        BY <1>7, <3>1, <3>3 DEF Tabs
      <4>2. e \in Leaves(g, i, j) <=> Leaf(g, e) # None
        BY <3>1, <4>1 DEF Leaves
      <4>3. 0 <= s
        BY <1>7
      <4>4. e \in Leaves(g, k + 1, 0)' <=> Leaf(g, e) # None
        BY <1>8, <1>10, <3>1, <3>3, <4>3 DEF Leaves
      <4> QED BY <4>2, <4>4
    <3> QED BY <3>2, <3>3
  <2>2. Leaves(g, k + 1, 0)' \subseteq Tabs(g, i) \X Entry
    BY <1>8 DEF Leaves
  <2>3. Leaves(g, i, j) \subseteq Tabs(g, i) \X Entry
    BY DEF Leaves
  <2> QED BY <2>1, <2>2, <2>3
<1>12. \A e \in Leaves(g, i, j) : Leaf(g, e)' = Leaf(g, e)
  <2>1. \A e \in Leaves(g, i, j) : e \in Tabs(g, i) \X Entry
    BY DEF Leaves
  <2>2. \A e \in Leaves(g, i, j) : e[1] # k
    <3>1. SUFFICES ASSUME NEW e \in Leaves(g, i, j), e[1] = k
                   PROVE  FALSE
      OBVIOUS
    <3>2. e = <<k, e[2]>> /\ e[2] \in Entry
      BY <2>1, <3>1
    <3> QED BY <3>1, <3>2
  <2> QED BY <1>10, <2>1, <2>2
<1>13. LeafPages(g, k + 1, 0)' = LeafPages(g, i, j)
  BY <1>11, <1>12 DEF LeafPages
<1>14. p \notin LeafPages(g, i, j)
  BY <1>2 DEF IsTree
<1>15. Tree(g, k + 1, 0)' = Tree(g, i, j) \ {p}
  BY <1>9, <1>13, <1>14 DEF Tree
<1>16. lent' \subseteq lent /\ \A b \in lent : b[1] # p => b \in lent'
  BY DEF kfree
<1>17. \A b : InBlock(b)' = InBlock(b)
  BY DEF InBlock, Pages!PagesOf
<1>18. IsDirectory(g, k + 1)'
  <2>1. \A q \in Directory(g, i) : <<q, 0>> \in lent /\ q # p => <<q, 0>> \in lent'
    BY <1>16
  <2>2. g \in Directory(g, i) /\ \A l \in Tabs(g, i) : table[g][l] \in Directory(g, i)
    BY DEF Directory
  <2> QED BY <1>1, <1>3, <1>6, <1>8, <2>1, <2>2 DEF IsDirectory
<1>19. IsTree(g, k + 1, 0, n)'
  <2>1. Directory(g, k + 1)' \cap LeafPages(g, k + 1, 0)' = {}
    BY <1>9, <1>13 DEF IsTree
  <2>2. \A d, e \in Leaves(g, k + 1, 0)' : Leaf(g, d)' = Leaf(g, e)' => d = e
    BY <1>11, <1>12 DEF IsTree
  <2>3. \A b \in lent' : InBlock(b) \cap LeafPages(g, k + 1, 0)' # {}
                         => b[1] \in LeafPages(g, k + 1, 0)'
    BY <1>13, <1>16 DEF IsTree
  <2>4. n <= 1 => \A q \in LeafPages(g, k + 1, 0)' : \E b \in lent' : b[1] = q
    BY <1>13, <1>14, <1>16 DEF IsTree
  <2> QED BY <1>17, <1>18, <2>1, <2>2, <2>3, <2>4 DEF IsTree
<1> QED BY <1>2, <1>15, <1>19

\* What pgd_delete does next: the page p is given back, and it goes on at k and r.
Frees(p, k, r) ==
    /\ p \in Frame /\ p \in Tree(op.pgd, op.i, op.j) /\ kfree(p)
    /\ op.npage <= 1 => \E b \in lent : b[1] = p
    /\ k \in Nat /\ r \in Nat /\ op' = [op EXCEPT !.i = k, !.j = r]
    /\ IsTree(op.pgd, k, r, op.npage)' /\ Tree(op.pgd, k, r)' = Tree(op.pgd, op.i, op.j) \ {p}

LEMMA DeletingIs ==
    ASSUME MmTypes, PagesInv, At("delete")
    PROVE  /\ op \in Deletion /\ op.i \in Nat /\ op.j \in Nat /\ mm # None /\ mm \in MmRecord
           /\ IsTree(op.pgd, op.i, op.j, op.npage) /\ Entries \in Nat /\ op.of \in {"new", "task"}
           /\ op.at = "delete" /\ op # None
<1>1. op \in Deletion
  BY DEF MmTypes, At, Loading
<1>2. mm # None /\ IsTree(op.pgd, op.i, op.j, op.npage)
  BY DEF PagesInv, Deletes, Deleting, At
<1> QED BY <1>1, <1>2, MmAssumption DEF MmTypes, Deletion, At

LEMMA DeletePageFrees ==
    ASSUME MmTypes, PagesInv, DeletePage
    PROVE  At("delete") /\ \E p, k, r : Frees(p, k, r)
<1>1. PICK g, i, j, k, n : g = op.pgd /\ i = op.i /\ j = op.j /\ k = Min(Tables) /\ n = op.npage
  OBVIOUS
<1>2. /\ At("delete") /\ i \in Nat /\ j \in Nat /\ IsTree(g, i, j, n) /\ Entries \in Nat
      /\ op \in Deletion
  BY <1>1, DeletingIs DEF DeletePage
<1>3. Tables = Tabs(g, i) /\ Tables # {} /\ Tables \in SUBSET Nat
  <2>1. Tables = Tabs(g, i) /\ Tables # {}
    BY <1>1 DEF Tables, Tabs, DeletePage
  <2>2. \A l \in i .. Entries - 1 : l \in Nat
    BY <1>2
  <2> QED BY <2>1, <2>2 DEF Tabs
<1>4. k \in Tabs(g, i) /\ \A l \in Tabs(g, i) : k <= l
  BY <1>1, <1>3, MinIs
<1>5. PICK R : R = Ptes(k)
  OBVIOUS
<1>6. R \in SUBSET Nat /\ \A s : s \in R <=> s \in Entry /\ <<k, s>> \in Leaves(g, i, j)
  <2>1. \A s : s \in R <=> s \in Entry /\ Leaf(g, <<k, s>>) # None /\ (k = i => j <= s)
    BY <1>1, <1>5 DEF Ptes, Pte, Leaf
  <2>2. \A s \in Entry : /\ s \in Nat
                         /\ <<k, s>> \in Leaves(g, i, j) <=> Leaf(g, <<k, s>>) # None /\ (k = i => j <= s)
    BY <1>2, <1>4 DEF Leaves, Entry
  <2> QED BY <2>1, <2>2
<1>7. CASE R # {}
  <2>1. PICK r : r = Min(R)
    OBVIOUS
  <2>2. r \in R /\ \A s \in R : r <= s
    BY <1>6, <1>7, <2>1, MinIs
  <2>3. r \in Entry /\ <<k, r>> \in Leaves(g, i, j)
        /\ \A s \in Entry : <<k, s>> \in Leaves(g, i, j) => r <= s
    BY <1>6, <2>2
  <2>4. PICK p : p = Leaf(g, <<k, r>>)
    OBVIOUS
  <2>5. kfree(p) /\ op' = [op EXCEPT !.i = k, !.j = r + 1]
    <3>1. p = Pte(k)[r]
      BY <1>1, <2>4 DEF Pte, Leaf
    <3> QED BY <1>1, <1>5, <1>7, <2>1, <3>1 DEF DeletePage
  <2>6. /\ p \in Frame /\ p \in Tree(g, i, j)
        /\ n <= 1 => \E b \in lent : b[1] = p
        /\ IsTree(g, k, r + 1, n)' /\ Tree(g, k, r + 1)' = Tree(g, i, j) \ {p}
    BY <1>2, <1>4, <2>3, <2>4, <2>5, LeafFreed
  <2>7. k \in Nat /\ r + 1 \in Nat
    BY <1>3, <1>4, <1>6, <2>2
  <2>8. PICK q : q = r + 1
    OBVIOUS
  <2>9. Frees(p, k, q)
    BY <1>1, <2>5, <2>6, <2>7, <2>8 DEF Frees
  <2> QED BY <1>2, <2>9
<1>8. CASE R = {}
  <2>1. PICK p : p = table[g][k]
    OBVIOUS
  <2>2. kfree(p) /\ op' = [op EXCEPT !.i = k + 1, !.j = 0]
    BY <1>1, <1>5, <1>8, <2>1 DEF DeletePage
  <2>3. /\ p \in Frame /\ p \in Tree(g, i, j) /\ <<p, 0>> \in lent
        /\ IsTree(g, k + 1, 0, n)' /\ Tree(g, k + 1, 0)' = Tree(g, i, j) \ {p}
    BY <1>2, <1>4, <1>6, <1>8, <2>1, <2>2, TableFreed
  <2>4. PICK q : q = k + 1 /\ q \in Nat
    BY <1>3, <1>4
  <2>5. \E b \in lent : b[1] = p
    BY <2>3
  <2>6. Frees(p, q, 0)
    BY <1>1, <2>2, <2>3, <2>4, <2>5 DEF Frees
  <2> QED BY <1>2, <2>6
<1> QED BY <1>7, <1>8

LEMMA DeletePageStep ==
    ASSUME MmTypes, PagesInv, DeletePage
    PROVE  PageTypes' /\ PagesInv'
<1>1. PICK p, k, r : Frees(p, k, r)
  BY DeletePageFrees
<1>2. PICK g, m, T, M, n, ld : /\ g = op.pgd /\ m = mm.pgd /\ n = op.npage /\ ld = loaded
                               /\ T = Tree(op.pgd, op.i, op.j) /\ M = Tree(mm.pgd, 0, 0)
  OBVIOUS
<1>3. /\ At("delete") /\ op \in Deletion /\ mm # None /\ mm' = mm /\ loaded' = loaded
      /\ lent \subseteq Block /\ Disjoint /\ Deleting /\ op.at = "delete" /\ op # None
  BY DeletePageFrees, DeletingIs DEF DeletePage, MmTypes, Block, PagesInv, Deleting
<1>4. /\ p \in Frame /\ p \in T /\ kfree(p) /\ k \in Nat /\ r \in Nat
      /\ op' = [op EXCEPT !.i = k, !.j = r] /\ IsTree(g, k, r, n)' /\ Tree(g, k, r)' = T \ {p}
  BY <1>1, <1>2 DEF Frees
<1>5. /\ op' \in Deletion /\ op'.at = "delete" /\ op'.of = op.of /\ op'.pgd = op.pgd
      /\ op'.npage = op.npage /\ op'.i = k /\ op'.j = r /\ op' # None
  BY <1>3, <1>4, NoneAssumption DEF Deletion
<1>6. lent' \subseteq lent /\ \A b : InBlock(b)' = InBlock(b)
  BY <1>4 DEF kfree, InBlock, Pages!PagesOf
<1>7. ASSUME op.of = "new"
      PROVE  /\ IsTree(m, 0, 0, ld)' /\ InUse(Tree(m, 0, 0))'
             /\ Apart(Tree(m, 0, 0), Tree(g, k, r))'
  <2>1. Apart(M, T) /\ IsTree(m, 0, 0, ld) /\ InUse(M)
    <3>1. op.of # "task"
      BY <1>7
    <3> QED BY <1>2, <1>3, <1>7, <3>1 DEF PagesInv, Deletes, HasTables, Deleting
  <2>2. p \notin M /\ \A b \in lent : b[1] = p => InBlock(b) \cap M = {}
    BY <1>3, <1>4, <2>1, BlockParts DEF Apart
  <2>3. IsTree(m, 0, 0, ld)' /\ Tree(m, 0, 0)' = M /\ InUse(Tree(m, 0, 0))'
    BY <1>2, <1>4, <2>1, <2>2, TreeBesideFreed DEF Tree
  <2> QED BY <1>4, <1>6, <2>1, <2>3 DEF Apart
<1>8. Deletes'
  <2>1. op'.of = "task" => op'.pgd = mm'.pgd
    BY <1>3, <1>5 DEF PagesInv, Deletes, Deleting
  <2>2. IsTree(op.pgd, op.i, op.j, op.npage)'
    BY <1>2, <1>4, <1>5
  <2>3. op'.of = "new" => Apart(Tree(mm.pgd, 0, 0), Tree(op.pgd, op.i, op.j))'
    BY <1>2, <1>3, <1>5, <1>7
  <2> QED BY <1>3, <2>1, <2>2, <2>3 DEF Deletes, Deleting
<1>9. HasTables'
  <2>1. op.of \in {"new", "task"}
    BY <1>3, DeletingIs
  <2> QED BY <1>2, <1>3, <1>5, <1>7, <2>1 DEF HasTables, At, Deleting
<1>10. Loads' /\ Disjoint'
  BY <1>3, <1>5, <1>6, StayDisjoint DEF Loads
<1>11. PageTypes'
  <2>1. table' \in [Frame -> [Entry -> Frame \cup {None}]]
    <3>1. table \in [Frame -> [Entry -> Frame \cup {None}]]
      BY DEF MmTypes
    <3>2. EmptyTable \in [Entry -> Frame \cup {None}]
      BY DEF EmptyTable
    <3> QED BY <1>4, <3>1, <3>2 DEF kfree
  <2> QED BY <1>3, <1>5, <1>6, <2>1 DEF PageTypes, Block
<1> QED BY <1>8, <1>9, <1>10, <1>11 DEF PagesInv

\* The pgd is given back.
LEMMA DeletePgdStep ==
    ASSUME MmTypes, PagesInv, DeletePgd
    PROVE  /\ PageTypes' /\ PagesInv'
           /\ At("delete") /\ <<op.pgd, 0>> \in lent /\ Tree(op.pgd, op.i, op.j) = {op.pgd}
<1>1. PICK g, m, T, M, n, ld : /\ g = op.pgd /\ m = mm.pgd /\ n = op.npage /\ ld = loaded
                               /\ T = Tree(op.pgd, op.i, op.j) /\ M = Tree(mm.pgd, 0, 0)
  OBVIOUS
<1>2. /\ At("delete") /\ op \in Deletion /\ mm # None /\ lent \subseteq Block /\ Disjoint
      /\ IsTree(g, op.i, op.j, n) /\ op' = None /\ kfree(g) /\ op.of \in {"new", "task"} /\ Deleting
  BY <1>1, DeletingIs DEF DeletePgd, MmTypes, Block, PagesInv, Deleting
<1>3. g \in Frame /\ <<g, 0>> \in lent
  BY <1>2 DEF IsTree, IsDirectory
<1>4. T = {g}
  <2>1. Tabs(g, op.i) = {}
    BY <1>1 DEF DeletePgd, Tables, Tabs
  <2>2. Leaves(g, op.i, op.j) = {}
    BY <2>1 DEF Leaves
  <2> QED BY <1>1, <2>1, <2>2 DEF Tree, Directory, LeafPages
<1>5. lent' \subseteq lent
  BY <1>2 DEF kfree
<1>7. ASSUME op.of = "new"
      PROVE  HasTables'
  <2>1. Apart(M, T) /\ IsTree(m, 0, 0, ld) /\ InUse(M)
    <3>1. op.of # "task"
      BY <1>7
    <3> QED BY <1>1, <1>2, <1>7, <3>1 DEF PagesInv, Deletes, HasTables, Deleting
  <2>2. g \notin M /\ \A b \in lent : b[1] = g => InBlock(b) \cap M = {}
    BY <1>2, <1>4, <2>1, BlockParts DEF Apart
  <2>3. IsTree(m, 0, 0, ld)' /\ InUse(Tree(m, 0, 0))'
    BY <1>1, <1>2, <1>3, <2>1, <2>2, TreeBesideFreed DEF Tree
  <2>4. mm' = mm /\ loaded' = loaded
    BY <1>7 DEF DeletePgd
  <2> QED BY <1>1, <2>3, <2>4 DEF HasTables, Deleting
<1>8. HasTables' /\ Deletes' /\ Loads'
  <2>1. op.of = "task" => mm' = None
    BY DEF DeletePgd
  <2>2. op.of = "task" => HasTables'
    BY <2>1 DEF HasTables, Deleting
  <2> QED BY <1>2, <1>7, <2>2 DEF Deletes, Loads, At, Deleting
<1>9. Disjoint'
  BY <1>2, <1>5, StayDisjoint
<1>10. PageTypes'
  <2>1. table \in [Frame -> [Entry -> Frame \cup {None}]]
    BY DEF MmTypes
  <2>2. EmptyTable \in [Entry -> Frame \cup {None}]
    BY DEF EmptyTable
  <2>3. table' \in [Frame -> [Entry -> Frame \cup {None}]]
    BY <1>2, <1>3, <2>1, <2>2 DEF kfree
  <2> QED BY <1>2, <1>5, <2>3 DEF PageTypes, Block
<1> QED BY <1>1, <1>2, <1>3, <1>4, <1>8, <1>9, <1>10 DEF PagesInv

--------------------------------------------------------------------------------
(* The steps of a process *)

LEMMA AreasStay ==
    ASSUME AreasInv, UNCHANGED <<vma, unused, mm>>
    PROVE  AreasInv'
BY DEF AreasInv, AreasAre, Linked, Sorted, Remembered, IsArea, WasAt, Nth

\* An mm without areas.
LEMMA NewAreas ==
    ASSUME AreasInv, NEW g, mm' = NewMm(g), UNCHANGED <<vma, unused>>
    PROVE  AreasInv'
<1>1. PICK s : s = <<>>
  OBVIOUS
<1>2. s \in Seq(Vma) /\ Len(s) = 0 /\ IsInjective(s) /\ Range(s) = {}
  BY <1>1 DEF IsInjective, Range
<1>3. mm'.mmap = None /\ mm'.mmap_cache = None /\ mm'.map_count = 0
  BY DEF NewMm
<1>4. Linked(s)' /\ Sorted(s)' /\ Remembered(s)'
  BY <1>2, <1>3 DEF Linked, Sorted, Remembered, Nth
<1>5. AreasAre(s)'
  BY <1>2, <1>3, <1>4 DEF AreasAre
<1> QED BY <1>2, <1>5 DEF AreasInv

\* The areas given back, the last of the list first.
LEMMA Reversed ==
    ASSUME NEW S, NEW s \in Seq(S), IsInjective(s), NEW u \in Seq(S), IsInjective(u),
           Range(s) \cap Range(u) = {},
           NEW z, z = [i \in 1 .. Len(s) |-> s[Len(s) + 1 - i]] \o u
    PROVE  z \in Seq(S) /\ IsInjective(z)
<1>0. PICK m \in Nat, n \in Nat : m = Len(s) /\ n = Len(u)
  OBVIOUS
<1>1. PICK t : t = [i \in 1 .. m |-> s[m + 1 - i]]
  OBVIOUS
<1>2. /\ \A i \in 1 .. m : s[i] \in S /\ s[i] \in Range(s)
      /\ \A i \in 1 .. n : u[i] \in S /\ u[i] \in Range(u)
      /\ \A i, j \in 1 .. m : s[i] = s[j] => i = j
      /\ \A i, j \in 1 .. n : u[i] = u[j] => i = j
  <2>1. DOMAIN s = 1 .. m /\ DOMAIN u = 1 .. n
    BY <1>0
  <2>2. /\ \A i \in 1 .. m : s[i] \in S
        /\ \A i \in 1 .. n : u[i] \in S
    BY <1>0
  <2> QED BY <2>1, <2>2 DEF IsInjective, Range
<1>3. t \in Seq(S) /\ Len(t) = m /\ \A i \in 1 .. m : m + 1 - i \in 1 .. m /\ t[i] = s[m + 1 - i]
  BY <1>1, <1>2
<1>4. z = t \o u
  BY <1>0, <1>1
<1>5. /\ z \in Seq(S) /\ Len(z) = m + n /\ DOMAIN z = 1 .. m + n
      /\ \A i \in 1 .. m + n : /\ i <= m => i \in 1 .. m /\ z[i] = t[i]
                               /\ i > m => i - m \in 1 .. n /\ z[i] = u[i - m]
  <2>1. z \in Seq(S) /\ Len(z) = m + n
    BY <1>0, <1>3, <1>4
  <2>2. DOMAIN z = 1 .. m + n
    BY <2>1
  <2>3. ASSUME NEW i \in 1 .. m + n
        PROVE  /\ i <= m => i \in 1 .. m /\ z[i] = t[i]
               /\ i > m => i - m \in 1 .. n /\ z[i] = u[i - m]
    <3>1. i <= m => z[i] = t[i]
      BY <1>0, <1>3, <1>4
    <3>2. i > m => z[i] = u[i - m]
      BY <1>0, <1>3, <1>4
    <3> QED BY <1>0, <3>1, <3>2
  <2> QED BY <2>1, <2>2, <2>3
<1>6. ASSUME NEW i \in 1 .. m + n, NEW j \in 1 .. m + n, z[i] = z[j]
      PROVE  i = j
  <2>1. CASE i <= m /\ j <= m
    <3>1. s[m + 1 - i] = s[m + 1 - j] /\ i \in 1 .. m /\ j \in 1 .. m
      BY <1>3, <1>5, <1>6, <2>1, ZenonT(40)
    <3>2. m + 1 - i = m + 1 - j
      BY <1>2, <1>3, <3>1
    <3> QED BY <1>1, <3>1, <3>2
  <2>2. CASE i > m /\ j > m
    <3>1. u[i - m] = u[j - m] /\ i - m \in 1 .. n /\ j - m \in 1 .. n
      BY <1>5, <1>6, <2>2
    <3>2. i - m = j - m
      BY <1>2, <3>1
    <3> QED BY <1>1, <3>1, <3>2
  <2>3. \A k, l \in 1 .. m + n : k <= m /\ l > m => z[k] # z[l]
    <3>1. \A k \in 1 .. m + n : k <= m => z[k] \in Range(s)
      <4>1. \A k \in 1 .. m : t[k] \in Range(s)
        BY <1>2, <1>3
      <4> QED BY <1>5, <4>1
    <3>2. \A l \in 1 .. m + n : l > m => z[l] \in Range(u)
      BY <1>2, <1>5
    <3> QED BY <3>1, <3>2
  <2>4. (i <= m \/ i > m) /\ (j <= m \/ j > m)
    BY <1>1
  <2> QED BY <1>6, <2>1, <2>2, <2>3, <2>4
<1> QED BY <1>5, <1>6 DEF IsInjective

\* exit_mmap.
LEMMA ExitMmap ==
    ASSUME MmTypes, AreasInv, mm # None, mm' = None,
           unused' = [i \in 1 .. Len(List) |-> List[Len(List) + 1 - i]] \o unused
    PROVE  AreasInv' /\ unused' \in Seq(Vma)
<1>1. PICK s \in Seq(Vma) : AreasAre(s)
  BY DEF AreasInv
<1>2. List = s
  BY <1>1, ListIs DEF AreasAre
<1>3. IsInjective(s) /\ IsInjective(unused) /\ unused \in Seq(Vma) /\ Range(s) \cap Range(unused) = {}
  BY <1>1 DEF AreasAre, Linked, AreasInv, MmTypes
<1>4. unused' \in Seq(Vma) /\ IsInjective(unused')
  BY <1>1, <1>2, <1>3, Reversed
<1> QED BY <1>4 DEF AreasInv

LEMMA MmInitially == MmInit => MmIInv
<1> SUFFICES ASSUME MmInit PROVE MmIInv
  OBVIOUS
<1>1. IsFiniteSet(Vma) /\ Cardinality(Vma) \in Nat
  BY VmaCount
<1>2. unused \in Seq(Vma) /\ IsInjective(unused)
  BY <1>1 DEF MmInit, IsInjective
<1>3. NoAreas \in [Vma -> Area]
  <2>1. 0 \in 0 .. Word - 1
    BY AddressAssumption
  <2> QED BY <2>1 DEF NoAreas, Area
<1>4. EmptyTable \in [Entry -> Frame \cup {None}]
  BY DEF EmptyTable
<1>5. MmTypes
  BY <1>2, <1>3, <1>4 DEF MmInit, MmTypes
<1>6. AreasInv
  BY <1>2 DEF MmInit, AreasInv
<1>7. PagesInv
  BY DEF MmInit, PagesInv, Disjoint, Loads, Deletes, HasTables, At, Deleting
<1> QED BY <1>5, <1>6, <1>7 DEF MmIInv, MmInit

\* A block is given back whole, or it is not.
LEMMA HalvedStep ==
    ASSUME halved \in BOOLEAN, [MmNext]_mmVars
    PROVE  halved' \in BOOLEAN
<1>1. ASSUME NEW p, kfree(p) PROVE halved' \in BOOLEAN
  BY <1>1 DEF kfree
<1>2. CASE \E addr \in Addresses, len \in Lengths : do_map(addr, len) \/ do_unmap(addr, len)
  BY <1>2 DEF do_map, do_unmap
<1>3. CASE \/ \E addr \in Addresses : is_in_vma(addr)
           \/ task_create \/ \E n \in FileSizes : runuserprog(n)
  BY <1>3 DEF is_in_vma, task_create, runuserprog
<1>4. CASE AllocateBuffer \/ ReadProgram \/ mm_create \/ AllocateCode \/ AllocateStack
  BY <1>4 DEF AllocateBuffer, ReadProgram, mm_create, AllocateCode, AllocateStack
<1>5. CASE do_one_mapping \/ Activate \/ mm_delete
  BY <1>5 DEF do_one_mapping, Activate, mm_delete
<1>6. CASE Error5 \/ CopyProgram
  BY <1>1, <1>6 DEF Error5, CopyProgram
<1>7. CASE DeletePage
  BY <1>1, <1>7 DEF DeletePage
<1>8. CASE DeletePgd
  BY <1>1, <1>8 DEF DeletePgd
<1>9. CASE UNCHANGED mmVars
  BY <1>9 DEF mmVars
<1> QED BY <1>2, <1>3, <1>4, <1>5, <1>6, <1>7, <1>8, <1>9 DEF MmNext

\* A step that leaves the areas alone.
LEMMA PageStep ==
    ASSUME MmTypes, AreasInv, PageTypes', PagesInv', halved' \in BOOLEAN,
           UNCHANGED <<vma, unused, mm, loaded>>
    PROVE  MmIInv'
<1>1. AreasInv'
  BY AreasStay
<1>2. MmTypes'
  BY DEF PageTypes, MmTypes
<1> QED BY <1>1, <1>2 DEF MmIInv

\* A step that changes only the areas.
LEMMA AreaStep ==
    ASSUME MmTypes, PagesInv, AreasGoOn, mm # None, op = None, halved' \in BOOLEAN,
           UNCHANGED <<lent, table, loaded, op>>
    PROVE  MmIInv'
<1>1. PagesInv' /\ AreasInv'
  BY AreasStep DEF AreasGoOn
<1>2. MmTypes'
  BY DEF AreasGoOn, MmTypes
<1> QED BY <1>1, <1>2 DEF MmIInv

\* The process starts without areas.
LEMMA FreshStep ==
    ASSUME MmTypes, AreasInv, PageTypes', PagesInv', mm' = NewMm(mm'.pgd), mm'.pgd \in Frame,
           loaded' \in Nat, halved' \in BOOLEAN, UNCHANGED <<vma, unused>>
    PROVE  MmIInv'
<1>1. PICK g : g = mm'.pgd
  OBVIOUS
<1>2. mm' = NewMm(g) /\ g \in Frame
  BY <1>1
<1>3. AreasInv'
  BY <1>2, NewAreas
<1>4. mm' \in MmRecord
  BY <1>2 DEF NewMm, MmRecord
<1>5. MmTypes'
  BY <1>4 DEF PageTypes, MmTypes
<1> QED BY <1>3, <1>5 DEF MmIInv

LEMMA MmStep ==
    ASSUME MmIInv, Sparing, [MmNext]_mmVars
    PROVE  MmIInv'
<1>0. MmTypes /\ AreasInv /\ PagesInv /\ halved' \in BOOLEAN
  BY HalvedStep DEF MmIInv
<1>1. ASSUME NEW addr \in Addresses, NEW len \in Lengths, do_map(addr, len)
      PROVE  MmIInv'
  <2>1. AreasGoOn
    BY <1>0, <1>1, DoMap
  <2>2. mm # None /\ op = None /\ UNCHANGED <<lent, table, loaded, op>>
    BY <1>1 DEF do_map, Runs
  <2> QED BY <1>0, <2>1, <2>2, AreaStep
<1>2. ASSUME NEW addr \in Addresses, NEW len \in Lengths, do_unmap(addr, len)
      PROVE  MmIInv'
  <2>1. AreasGoOn
    BY <1>0, <1>2, DoUnmap
  <2>2. mm # None /\ op = None /\ UNCHANGED <<lent, table, loaded, op>>
    BY <1>2 DEF do_unmap, Runs
  <2> QED BY <1>0, <2>1, <2>2, AreaStep
<1>3. ASSUME NEW addr \in Addresses, is_in_vma(addr)
      PROVE  MmIInv'
  <2>1. AreasGoOn
    BY <1>0, <1>3, IsInVma
  <2>2. mm # None /\ op = None /\ UNCHANGED <<lent, table, loaded, op>>
    BY <1>3 DEF is_in_vma, Runs
  <2> QED BY <1>0, <2>1, <2>2, AreaStep
<1>4. CASE task_create
  <2>1. PageTypes' /\ PagesInv' /\ mm' = NewMm(mm'.pgd) /\ mm'.pgd \in Frame
    BY <1>0, <1>4, CreateStep
  <2>2. loaded' \in Nat /\ UNCHANGED <<vma, unused>>
    BY <1>0, <1>4 DEF task_create, MmTypes
  <2> QED BY <1>0, <2>1, <2>2, FreshStep
<1>5. ASSUME NEW n \in FileSizes, runuserprog(n)
      PROVE  MmIInv'
  <2>1. UNCHANGED <<vma, unused, mm, loaded>>
    BY <1>5 DEF runuserprog
  <2> QED BY <1>0, <1>5, <2>1, RunStep, PageStep
<1>6. CASE mm_create
  <2>1. UNCHANGED <<vma, unused, mm, loaded>>
    BY <1>6 DEF mm_create
  <2> QED BY <1>0, <1>6, <2>1, MmCreateStep, PageStep
<1>7. CASE AllocateCode
  <2>1. UNCHANGED <<vma, unused, mm, loaded>>
    BY <1>7 DEF AllocateCode
  <2> QED BY <1>0, <1>7, <2>1, CodeStep, PageStep
<1>8. CASE AllocateStack
  <2>1. UNCHANGED <<vma, unused, mm, loaded>>
    BY <1>8, SMTT(30) DEF AllocateStack
  <2> QED BY <1>0, <1>8, <2>1, StackStep, PageStep
<1>9. CASE do_one_mapping
  <2>1. UNCHANGED <<vma, unused, mm, loaded>>
    BY <1>9 DEF do_one_mapping
  <2> QED BY <1>0, <1>9, <2>1, MapStep, PageStep
<1>10. CASE Error5
  <2>1. UNCHANGED <<vma, unused, mm, loaded>>
    BY <1>10 DEF Error5
  <2> QED BY <1>0, <1>10, <2>1, Error5Step, PageStep
<1>11. CASE Activate
  <2>1. PageTypes' /\ PagesInv' /\ mm' = NewMm(mm'.pgd) /\ mm'.pgd \in Frame /\ loaded' \in Nat
    BY <1>0, <1>11, ActivateStep
  <2>2. UNCHANGED <<vma, unused>>
    BY <1>11 DEF Activate
  <2> QED BY <1>0, <2>1, <2>2, FreshStep
<1>12. CASE mm_delete
  <2>1. UNCHANGED <<vma, unused, mm, loaded>>
    BY <1>12 DEF mm_delete
  <2> QED BY <1>0, <1>12, <2>1, MmDeleteStep, PageStep
<1>13. CASE DeletePage
  <2>1. UNCHANGED <<vma, unused, mm, loaded>>
    BY <1>13 DEF DeletePage
  <2> QED BY <1>0, <1>13, <2>1, DeletePageStep, PageStep
<1>14. CASE DeletePgd
  <2>1. PageTypes' /\ PagesInv' /\ At("delete")
    BY <1>0, <1>14, DeletePgdStep
  <2>2. CASE op.of = "new"
    <3>1. UNCHANGED <<vma, unused, mm, loaded>>
      BY <1>14, <2>2 DEF DeletePgd
    <3> QED BY <1>0, <2>1, <3>1, PageStep
  <2>3. CASE op.of # "new"
    <3>1. /\ unused' = [i \in 1 .. Len(List) |-> List[Len(List) + 1 - i]] \o unused
          /\ vma' = NoAreas /\ mm' = None /\ loaded' = 0
      BY <1>14, <2>3 DEF DeletePgd
    <3>2. mm # None
      BY <1>0, <2>1, DeletingIs
    <3>3. AreasInv' /\ unused' \in Seq(Vma)
      BY <1>0, <3>1, <3>2, ExitMmap
    <3>4. NoAreas \in [Vma -> Area]
      <4>1. 0 \in 0 .. Word - 1
        BY AddressAssumption
      <4> QED BY <4>1 DEF NoAreas, Area
    <3>5. MmTypes'
      BY <2>1, <3>1, <3>3, <3>4 DEF PageTypes, MmTypes
    <3> QED BY <1>0, <2>1, <3>3, <3>5 DEF MmIInv
  <2> QED BY <2>2, <2>3
<1>a. CASE AllocateBuffer
  <2>1. UNCHANGED <<vma, unused, mm, loaded>>
    BY <1>a DEF AllocateBuffer
  <2> QED BY <1>0, <1>a, <2>1, BufferStep, PageStep
<1>b. CASE ReadProgram
  <2>1. UNCHANGED <<vma, unused, mm, loaded>>
    BY <1>b DEF ReadProgram
  <2> QED BY <1>0, <1>b, <2>1, ReadStep, PageStep
<1>c. CASE CopyProgram
  <2>1. UNCHANGED <<vma, unused, mm, loaded>>
    BY <1>c DEF CopyProgram
  <2> QED BY <1>0, <1>c, <2>1, CopyStep, PageStep
<1>15. CASE UNCHANGED mmVars
  <2>1. UNCHANGED <<vma, unused, mm, loaded>> /\ UNCHANGED <<lent, table, op>>
    BY <1>15 DEF mmVars
  <2>2. PageTypes'
    BY <1>0, <2>1 DEF PageTypes, MmTypes
  <2>3. PagesInv'
    <3>1. PICK m, g, d, i, j, ld, n : /\ m = mm.pgd /\ g = op.pgd /\ d = op.new /\ i = op.i /\ j = op.j
                                      /\ ld = loaded /\ n = op.npage
      OBVIOUS
    <3>2. \A b : InBlock(b)' = InBlock(b)
      BY DEF InBlock, Pages!PagesOf
    <3>3. /\ IsTree(m, 0, 0, ld) => IsTree(m, 0, 0, ld)'
          /\ InUse(Tree(m, 0, 0)) => InUse(Tree(m, 0, 0))'
          /\ Tree(m, 0, 0)' = Tree(m, 0, 0)
      BY <2>1, PagesSame
    <3>4. IsTree(g, i, j, n) => IsTree(g, i, j, n)'
      BY <2>1, PagesSame
    <3>5. Tree(g, i, j)' = Tree(g, i, j)
      BY <2>1, PagesSame
    <3>6. /\ Tabs(d, 0)' = Tabs(d, 0) /\ Directory(d, 0)' = Directory(d, 0)
          /\ IsDirectory(d, 0) => IsDirectory(d, 0)'
      BY <2>1, PagesSame
    <3>7. Disjoint'
      BY <1>0, <2>1, StayDisjoint DEF PagesInv
    <3>8. HasTables'
      BY <1>0, <2>1, <3>1, <3>3 DEF PagesInv, HasTables, At, Deleting
    <3>9. Deletes'
      <4>1. Apart(Tree(m, 0, 0), Tree(g, i, j)) => Apart(Tree(m, 0, 0), Tree(g, i, j))'
        BY <2>1, <3>2, <3>3, <3>5 DEF Apart
      <4> QED BY <1>0, <2>1, <3>1, <3>4, <4>1 DEF PagesInv, Deletes, At, Deleting
    <3>10. Loads'
      <4>1. \A b \in lent : IsOwn(b) => IsOwn(b)'
        BY <2>1, <3>1, <3>2, <3>3, <3>6 DEF IsOwn
      <4>2. \A v : Target(v)' = Target(v)
        BY <2>1 DEF Target
      <4>3. IsMapped => IsMapped'
        BY <2>1, <3>1, <3>6, <4>2 DEF IsMapped
      <4>4. \A b \in lent : (IsCode(b) => IsCode(b)') /\ (IsStack(b) => IsStack(b)')
        BY <2>1 DEF IsCode, IsStack
      <4>5. HasBuffer => HasBuffer'
        BY <2>1, <3>1, <3>2, <3>3, <4>1 DEF HasBuffer, IsBuffer
      <4>6. Loads
        BY <1>0 DEF PagesInv
      <4> QED BY <2>1, <3>1, <3>3, <3>6, <4>1, <4>3, <4>4, <4>5, <4>6 DEF Loads
    <3> QED BY <3>7, <3>8, <3>9, <3>10 DEF PagesInv
  <2> QED BY <1>0, <2>1, <2>2, <2>3, PageStep
<1> QED BY <1>1, <1>2, <1>3, <1>4, <1>5, <1>6, <1>7, <1>8, <1>9, <1>10, <1>11, <1>12, <1>13,
           <1>14, <1>15, <1>a, <1>b, <1>c DEF MmNext

\* Through any steps of a process that asks for areas as the code demands, the list of areas
\* and the page tables are as said above.
THEOREM MmInvariant ==
    ASSUME Sparing
    PROVE  MmSpec => []MmIInv
<1>1. MmIInv /\ [MmNext]_mmVars => MmIInv'
  BY MmStep
<1> QED BY <1>1, MmInitially, PTL DEF MmSpec

\* The list of areas is in order, without overlap and without freed areas, and map_count
\* is its length (vm.c:136, 260).
THEOREM MmCorrect ==
    ASSUME Sparing
    PROVE  MmSpec => []MmInv
<1>1. MmIInv => MmInv
  <2> SUFFICES ASSUME MmIInv PROVE MmInv
    OBVIOUS
  <2>1. MmTypes /\ AreasInv
    BY DEF MmIInv
  <2>2. CASE mm = None
    BY <2>1, <2>2 DEF MmInv, MmIInv, MmTypes, MmTypeOK, AreasApart, AreasCounted
  <2>3. CASE mm # None
    <3>1. PICK s \in Seq(Vma) : AreasAre(s)
      BY <2>1, <2>3 DEF AreasInv
    <3>2. List = s /\ Linked(s) /\ Sorted(s) /\ mm.map_count = Len(s)
      BY <3>1, ListIs DEF AreasAre
    <3>3. Len(s) \in Nat /\ Len(s) <= Cardinality(Vma) /\ DOMAIN s = 1 .. Len(s)
      BY <2>1, <3>2, LinkedParts
    <3>4. MmTypeOK
      BY <2>1, <3>2, <3>3, VmaCount DEF MmTypes, MmTypeOK, MmIInv
    <3>5. \A i \in 1 .. Len(s) - 1 : vma[s[i]].vm_end <= vma[s[i + 1]].vm_start
      <4>1. \A i \in 1 .. Len(s) - 1 : i \in 1 .. Len(s) /\ i + 1 \in 1 .. Len(s) /\ i < i + 1
        BY <3>3
      <4> QED BY <3>2, <4>1 DEF Sorted
    <3>6. InList = Range(s)
      BY <3>2 DEF InList, Range
    <3>7. \A v \in Range(s) : vma[v].vm_start < vma[v].vm_end
      BY <2>1, <3>2, LinkedParts DEF Sorted, IsArea
    <3>8. \A i \in DOMAIN unused : unused[i] \notin Range(s)
      BY <3>1 DEF AreasAre, Range
    <3>9. AreasApart
      BY <3>2, <3>5, <3>6, <3>7, <3>8 DEF AreasApart
    <3>10. AreasCounted
      BY <3>2 DEF AreasCounted
    <3> QED BY <3>4, <3>9, <3>10 DEF MmInv
  <2> QED BY <2>2, <2>3
<1> QED BY <1>1, MmInvariant, PTL

--------------------------------------------------------------------------------
(* What a program can reach *)

\* A set that f maps to another one by one has as many elements.
LEMMA SameCount ==
    ASSUME NEW S, IsFiniteSet(S), NEW T, NEW f \in [S -> T],
           \A x, y \in S : f[x] = f[y] => x = y, \A z \in T : \E x \in S : f[x] = z
    PROVE  IsFiniteSet(T) /\ Cardinality(T) = Cardinality(S)
<1>1. f \in Bijection(S, T)
  BY DEF Bijection, Injection, Surjection, IsInjective
<1>2. ExistsBijection(S, T)
  BY <1>1 DEF ExistsBijection
<1> QED BY <1>2, FS_Bijection

\* PagesOf(g) are the pages of the whole tree.
LEMMA PagesOfIs ==
    ASSUME NEW g
    PROVE  PagesOf(g) = Tree(g, 0, 0)
<1>1. PICK T : T = { table[g][i] : i \in Entry } \ {None}
  OBVIOUS
<1>2. PagesOf(g) = {g} \cup T \cup ((UNION { { table[t][j] : j \in Entry } : t \in T }) \ {None})
  BY <1>1 DEF PagesOf
<1>3. T = { table[g][k] : k \in Tabs(g, 0) }
  BY <1>1 DEF Tabs, Entry
<1>4. (UNION { { table[t][j] : j \in Entry } : t \in T }) \ {None} = LeafPages(g, 0, 0)
  <2>1. ASSUME NEW p
        PROVE  p \in LeafPages(g, 0, 0) <=> p # None /\ \E k \in Tabs(g, 0), j \in Entry : p = table[table[g][k]][j]
    <3>1. \A e \in Tabs(g, 0) \X Entry : e[1] = 0 => 0 <= e[2]
      BY MmAssumption DEF Entry
    <3>2. p \in LeafPages(g, 0, 0) <=> \E e \in Tabs(g, 0) \X Entry : Leaf(g, e) # None /\ p = Leaf(g, e)
      BY <3>1 DEF LeafPages, Leaves
    <3>3. ASSUME NEW k \in Tabs(g, 0), NEW j \in Entry
          PROVE  <<k, j>> \in Tabs(g, 0) \X Entry /\ Leaf(g, <<k, j>>) = table[table[g][k]][j]
      BY DEF Leaf
    <3>4. \A e \in Tabs(g, 0) \X Entry : e[1] \in Tabs(g, 0) /\ e[2] \in Entry
      OBVIOUS
    <3> QED BY <3>2, <3>3, <3>4 DEF Leaf
  <2> QED BY <1>3, <2>1
<1> QED BY <1>2, <1>3, <1>4 DEF Tree, Directory

\* The program of the process has its pages to itself, each of them once (page.c:8).
LEMMA OwnPages ==
    ASSUME MmIInv
    PROVE  MapsItsOwn
<1> SUFFICES ASSUME Runs PROVE MapsItsOwn
  BY DEF MapsItsOwn
<1>1. PICK g, n, T, L : g = mm.pgd /\ n = loaded /\ T = Tabs(g, 0) /\ L = Leaves(g, 0, 0)
  OBVIOUS
<1>2. IsTree(g, 0, 0, n) /\ InUse(Tree(g, 0, 0)) /\ MmTypes
  BY <1>1 DEF MmIInv, PagesInv, HasTables, Runs, At, Deleting
<1>3. IsDirectory(g, 0) /\ Entries \in Nat
  BY <1>2, MmAssumption DEF IsTree
<1>4. IsFiniteSet(Entry) /\ IsFiniteSet(T) /\ IsFiniteSet(L)
  <2>1. IsFiniteSet(Entry)
    <3>1. 0 \in Int /\ Entries - 1 \in Int
      BY <1>3
    <3> QED BY <3>1, FS_Interval DEF Entry
  <2>2. T \in SUBSET Entry
    BY <1>1 DEF Tabs, Entry
  <2>3. IsFiniteSet(T)
    BY <2>1, <2>2, FS_Subset
  <2>4. IsFiniteSet(T \X Entry) /\ L \in SUBSET (T \X Entry)
    BY <1>1, <2>1, <2>3, FS_Product DEF Leaves
  <2> QED BY <2>1, <2>3, <2>4, FS_Subset
<1>5. PICK D, P : D = { table[g][k] : k \in T } /\ P = LeafPages(g, 0, 0)
  OBVIOUS
<1>6. IsFiniteSet(D) /\ Cardinality(D) = Cardinality(T)
  <2>1. PICK f : f = [k \in T |-> table[g][k]]
    OBVIOUS
  <2>2. f \in [T -> D] /\ (\A x, y \in T : f[x] = f[y] => x = y) /\ \A z \in D : \E x \in T : f[x] = z
    BY <1>1, <1>3, <1>5, <2>1 DEF IsDirectory
  <2> QED BY <1>4, <2>2, SameCount
<1>7. IsFiniteSet(P) /\ Cardinality(P) = Cardinality(L)
  <2>1. PICK f : f = [e \in L |-> Leaf(g, e)]
    OBVIOUS
  <2>2. f \in [L -> P] /\ (\A x, y \in L : f[x] = f[y] => x = y) /\ \A z \in P : \E x \in L : f[x] = z
    BY <1>1, <1>2, <1>5, <2>1 DEF IsTree, LeafPages
  <2> QED BY <1>4, <2>2, SameCount
<1>8. g \notin D /\ ({g} \cup D) \cap P = {} /\ Tree(g, 0, 0) = (D \cup {g}) \cup P
  BY <1>1, <1>2, <1>3, <1>5 DEF IsTree, IsDirectory, Directory, Tree
<1>9. Cardinality(Tree(g, 0, 0)) = 1 + Cardinality(T) + Cardinality(L)
  <2>1. IsFiniteSet(D \cup {g}) /\ Cardinality(D \cup {g}) = Cardinality(D) + 1
    BY <1>6, <1>8, FS_AddElement
  <2>2. (D \cup {g}) \cap P = {}
    BY <1>8
  <2>3. Cardinality((D \cup {g}) \cup P)
          = Cardinality(D \cup {g}) + Cardinality(P) - Cardinality((D \cup {g}) \cap P)
    BY <1>7, <2>1, FS_Union
  <2>4. Cardinality((D \cup {g}) \cap P) = 0
    BY <2>2, FS_EmptySet
  <2>5. Cardinality(D) \in Nat /\ Cardinality(P) \in Nat
    BY <1>6, <1>7, FS_CardinalityType
  <2>6. PICK d \in Nat, q \in Nat : d = Cardinality(D) /\ q = Cardinality(P)
    BY <2>5
  <2>7. Cardinality(Tree(g, 0, 0)) = d + 1 + q
    <3>1. Tree(g, 0, 0) = (D \cup {g}) \cup P
      BY <1>8
    <3>2. Cardinality(D \cup {g}) = d + 1
      BY <2>1, <2>6
    <3>3. Cardinality((D \cup {g}) \cup P) = d + 1 + q - 0
      BY <2>3, <2>4, <2>6, <3>2, Zenon
    <3>4. d + 1 + q - 0 = d + 1 + q
      OBVIOUS
    <3> QED BY <3>1, <3>3, <3>4, Zenon
  <2> QED BY <1>6, <1>7, <2>6, <2>7
<1>10. T = { i \in Entry : table[g][i] # None }
  BY <1>1 DEF Tabs, Entry
<1>11. L = { e \in T \X Entry : table[table[g][e[1]]][e[2]] # None }
  <2>1. \A e \in T \X Entry : e[1] = 0 => 0 <= e[2]
    BY <1>3 DEF Entry
  <2> QED BY <1>1, <2>1 DEF Leaves, Leaf
<1>12. \A p \in PagesOf(g) : \E b \in lent : p \in Pages!PagesOf(b)
  BY <1>2, PagesOfIs DEF InUse, InBlock
<1>13. Cardinality(PagesOf(g)) = 1 + Cardinality(T) + Cardinality(L)
  BY <1>9, PagesOfIs
<1> QED BY <1>1, <1>10, <1>11, <1>12, <1>13, SMTT(30) DEF MapsItsOwn

\* In every state the running program has its pages to itself, each counted once (page.c:8).
THEOREM OwnPagesCorrect ==
    ASSUME Sparing
    PROVE  MmSpec => []MapsItsOwn
<1>1. MmIInv => MapsItsOwn
  BY OwnPages
<1> QED BY <1>1, MmInvariant, PTL

--------------------------------------------------------------------------------
(* Memory that gets lost *)

\* What runuserprog has not allocated yet.
Unset ==
    op # None /\ op.at # "delete" =>
        /\ op.at \in Begins => op.new = None
        /\ op.at \in Begins \cup {"code"} => op.code = None
        /\ op.at \in Begins \cup {"code", "stack"} => op.stack = None

\* The pages that something leads to, as trees.
OfProcess == IF mm = None \/ (Deleting /\ op.of = "task") THEN {} ELSE Tree(mm.pgd, 0, 0)
OfLoading ==
    ({op.buf, op.code, op.stack} \cup (IF op.new = None THEN {} ELSE Tree(op.new, 0, 0))) \ {None}
OfOp == IF op = None THEN {} ELSE IF Deleting THEN Tree(op.pgd, op.i, op.j) ELSE OfLoading
Leads == OfProcess \cup OfOp

LEMMA LeftIs ==
    ASSUME NEW g, NEW i, NEW j, g = op.pgd, i = op.i, j = op.j
    PROVE  Left = Tree(g, i, j)
<1>1. Tables = Tabs(g, i)
  BY DEF Tables, Tabs
<1>2. PICK X : X = UNION { {table[g][k]} \cup { Pte(k)[l] : l \in Ptes(k) } : k \in Tabs(g, i) }
  OBVIOUS
<1>3. \A p : p \in X <=> \E k \in Tabs(g, i) : p = table[g][k] \/ \E l \in Ptes(k) : p = Pte(k)[l]
  BY <1>2
<1>4. \A k \in Tabs(g, i), l \in Entry :
         /\ Pte(k)[l] = Leaf(g, <<k, l>>)
         /\ l \in Ptes(k) <=> <<k, l>> \in Leaves(g, i, j)
  BY DEF Pte, Ptes, Leaf, Leaves
<1>5. \A k, l : l \in Ptes(k) => l \in Entry
  BY DEF Ptes
<1>6. \A e \in Leaves(g, i, j) : e[1] \in Tabs(g, i) /\ e[2] \in Entry /\ e = <<e[1], e[2]>>
  BY DEF Leaves
<1>7. \A p : p \in Tree(g, i, j) <=> p = g \/ p \in X
  <2>1. \A p : p \in LeafPages(g, i, j) <=> \E k \in Tabs(g, i) : \E l \in Ptes(k) : p = Pte(k)[l]
    <3>1. ASSUME NEW p \in LeafPages(g, i, j)
          PROVE  \E k \in Tabs(g, i) : \E l \in Ptes(k) : p = Pte(k)[l]
      <4>1. PICK e \in Leaves(g, i, j) : p = Leaf(g, e)
        BY DEF LeafPages
      <4>2. PICK k \in Tabs(g, i), l \in Entry : e = <<k, l>>
        BY <1>6
      <4> QED BY <1>4, <4>1, <4>2
    <3>2. ASSUME NEW k \in Tabs(g, i), NEW l \in Ptes(k)
          PROVE  Pte(k)[l] \in LeafPages(g, i, j)
      BY <1>4, <1>5, ZenonT(40) DEF LeafPages
    <3> QED BY <3>1, <3>2
  <2> QED BY <1>3, <2>1 DEF Tree, Directory
<1>8. Tabs(g, i) = {} => X = {}
  BY <1>2
<1>9. Left = {g} \cup X
  BY <1>1, <1>2, <1>8 DEF Left
<1> QED BY <1>7, <1>9

LEMMA ReachedIs == Reached = Leads
<1>1. PICK g, i, j : g = op.pgd /\ i = op.i /\ j = op.j
  OBVIOUS
<1>2. Left = Tree(op.pgd, op.i, op.j)
  BY <1>1, LeftIs
<1>3. PagesOf(mm.pgd) = Tree(mm.pgd, 0, 0) /\ PagesOf(op.new) = Tree(op.new, 0, 0)
  BY PagesOfIs
<1> QED BY <1>2, <1>3 DEF Reached, Leads, OfProcess, OfOp, OfLoading, Deleting

LEMMA ReachedThen == (Reached = Leads)'
BY ReachedIs, PTL

\* A block of which the tree has a page starts with a page of the tree.
LEMMA BlockOfTree ==
    ASSUME MmTypes, Disjoint, NEW g, NEW i, NEW j, NEW n, IsTree(g, i, j, n), NEW b \in lent,
           InBlock(b) \cap Tree(g, i, j) # {}
    PROVE  b[1] \in Tree(g, i, j)
<1>1. PICK p \in Tree(g, i, j) : p \in InBlock(b)
  OBVIOUS
<1>2. CASE p \in LeafPages(g, i, j)
  BY <1>1, <1>2 DEF IsTree, Tree
<1>3. CASE p \in Directory(g, i)
  <2>1. IsDirectory(g, i)
    BY DEF IsTree
  <2>2. <<p, 0>> \in lent
    BY <1>3, <2>1, DirectoryBlocks
  <2>3. b = <<p, 0>>
    <3>1. lent \subseteq Block
      BY DEF MmTypes, Block
    <3> QED BY <1>1, <2>2, <3>1, TheBlock
  <2> QED BY <1>1, <2>3
<1> QED BY <1>1, <1>2, <1>3 DEF Tree

\* Nothing is lost when the blocks in use that were not before are led to, and each block
\* still in use that was led to is.
LEMMA NothingLost ==
    ASSUME \A b \in lent' : b \in lent \/ InBlock(b) \cap Leads' # {},
           \A b \in lent' : InBlock(b) \cap Leads # {} => InBlock(b) \cap Leads' # {}
    PROVE  Lost' \subseteq Lost
<1>1. Reached = Leads
  BY ReachedIs
<1>2. Reached' = Leads'
  BY ReachedThen
<1>3. \A b : Pages!PagesOf(b)' = Pages!PagesOf(b) /\ Pages!PagesOf(b) = InBlock(b)
  BY DEF InBlock, Pages!PagesOf
<1> QED BY <1>1, <1>2, <1>3 DEF Lost

\* What gets lost, is what was dropped.
LEMMA OnlyDropped ==
    ASSUME NEW D, \A b \in lent' : b \in lent \/ InBlock(b) \cap Leads' # {},
           \A b \in lent' : InBlock(b) \cap Leads # {} /\ b[1] \notin D => InBlock(b) \cap Leads' # {}
    PROVE  \A b \in Lost' \ Lost : b[1] \in D
<1>1. Reached = Leads
  BY ReachedIs
<1>2. Reached' = Leads'
  BY ReachedThen
<1>3. \A b : Pages!PagesOf(b)' = Pages!PagesOf(b) /\ Pages!PagesOf(b) = InBlock(b)
  BY DEF InBlock, Pages!PagesOf
<1> QED BY <1>1, <1>2, <1>3 DEF Lost

\* What leads to pages while a program is loaded.
LEMMA LoadingLeads ==
    mm # None /\ op # None /\ op.at # "delete" => Leads = Tree(mm.pgd, 0, 0) \cup OfLoading
BY DEF Leads, OfProcess, OfOp, Deleting

LEMMA LoadingLeadsThen ==
    (mm # None /\ op # None /\ op.at # "delete" => Leads = Tree(mm.pgd, 0, 0) \cup OfLoading)'
BY LoadingLeads, PTL

LEMMA LedByLoading ==
    ASSUME MmTypes, PagesInv, Unset, op # None, op.at # "delete",
           NEW b \in lent, InBlock(b) \cap Leads # {}
    PROVE  \/ InBlock(b) \cap Tree(mm.pgd, 0, 0) # {}
           \/ op.new # None /\ InBlock(b) \cap Tree(op.new, 0, 0) # {}
           \/ b[1] = op.buf
           \/ op.at # "copy" /\ b[1] = op.code
           \/ op.at # "copy" /\ b[1] = op.stack
<1>1. /\ op \in Loading /\ mm # None /\ lent \subseteq Block /\ Disjoint /\ Loads
      /\ Leads = Tree(mm.pgd, 0, 0) \cup OfLoading
  BY WhileLoading, LoadingLeads
<1>2. ASSUME NEW p \in InBlock(b), \E c \in lent : c[1] = p
      PROVE  b[1] = p
  BY <1>1, <1>2, TheBlock
<1>3. CASE op.buf # None /\ op.buf \in InBlock(b)
  <2>1. \E c \in lent : c[1] = op.buf
    BY <1>1, <1>3 DEF Loads, HasBuffer, IsBuffer
  <2> QED BY <1>2, <1>3, <2>1
<1>4. CASE op.code # None /\ op.code \in InBlock(b)
  <2>1. op.at \in {"stack", "map", "error_5", "activate", "copy"}
    BY <1>1, <1>4 DEF Unset, Begins, Loading
  <2>2. op.at # "copy" => \E c \in lent : c[1] = op.code
    BY <1>1, <2>1 DEF Loads, IsCode
  <2>3. op.at = "copy" => op.code \in Tree(mm.pgd, 0, 0)
    BY <1>1 DEF Loads
  <2> QED BY <1>2, <1>4, <2>2, <2>3
<1>5. CASE op.stack # None /\ op.stack \in InBlock(b)
  <2>1. op.at \in {"map", "error_5", "activate", "copy"}
    BY <1>1, <1>5 DEF Unset, Begins, Loading
  <2>2. op.at # "copy" => \E c \in lent : c[1] = op.stack
    BY <1>1, <2>1 DEF Loads, IsStack
  <2>3. op.at = "copy" => op.stack \in Tree(mm.pgd, 0, 0)
    BY <1>1 DEF Loads
  <2> QED BY <1>2, <1>5, <2>2, <2>3
<1> QED BY <1>1, <1>3, <1>4, <1>5 DEF OfLoading

LEMMA TreeGrows ==
    ASSUME NEW g,
           \A q \in Directory(g, 0), j \in Entry : table[q][j] # None => table'[q][j] = table[q][j]
    PROVE  Tree(g, 0, 0) \subseteq Tree(g, 0, 0)'
<1>1. g \in Directory(g, 0) /\ \A k \in Tabs(g, 0) : table[g][k] \in Directory(g, 0) /\ k \in Entry
  BY DEF Directory, Tabs, Entry
<1>2. \A k \in Tabs(g, 0) : k \in Tabs(g, 0)' /\ table'[g][k] = table[g][k]
  BY <1>1 DEF Tabs
<1>3. Directory(g, 0) \subseteq Directory(g, 0)'
  BY <1>2 DEF Directory
<1>4. \A e \in Leaves(g, 0, 0) : e \in Leaves(g, 0, 0)' /\ Leaf(g, e)' = Leaf(g, e)
  <2>1. ASSUME NEW e \in Leaves(g, 0, 0)
        PROVE  e \in Leaves(g, 0, 0)' /\ Leaf(g, e)' = Leaf(g, e)
    <3>1. e \in Tabs(g, 0) \X Entry /\ Leaf(g, e) # None /\ (e[1] = 0 => 0 <= e[2])
      BY DEF Leaves
    <3>2. PICK k \in Tabs(g, 0), l \in Entry : e[1] = k /\ e[2] = l
      BY <3>1
    <3>3. Leaf(g, e)' = Leaf(g, e)
      BY <1>1, <1>2, <3>1, <3>2 DEF Leaf
    <3>4. e \in Tabs(g, 0)' \X Entry
      BY <1>2, <3>1
    <3> QED BY <3>1, <3>3, <3>4 DEF Leaves
  <2> QED BY <2>1
<1>5. LeafPages(g, 0, 0) \subseteq LeafPages(g, 0, 0)'
  BY <1>4 DEF LeafPages
<1> QED BY <1>3, <1>5 DEF Tree

LEMMA UnsetStep ==
    ASSUME MmTypes, Unset, [MmNext]_mmVars
    PROVE  Unset'
<1>1. ASSUME UNCHANGED op
      PROVE  Unset'
  BY <1>1 DEF Unset
<1>2. ASSUME op' = None \/ (op' # None /\ op'.at = "delete")
      PROVE  Unset'
  BY <1>2 DEF Unset
<1>3. ASSUME NEW l, NEW n, op' = Delete(l, n, "new") \/ op' = Delete(l, n, "task")
      PROVE  Unset'
  <2>1. op'.at = "delete"
    BY <1>3 DEF Delete
  <2> QED BY <2>1 DEF Unset
<1>4. ASSUME NEW n \in FileSizes, runuserprog(n)
      PROVE  Unset'
  BY <1>4 DEF runuserprog, Unset
<1>a. CASE AllocateBuffer
  <2>1. At("buffer") /\ op \in Loading
    BY <1>a DEF AllocateBuffer, At, MmTypes, Deletion
  <2>2. /\ op.new = None /\ op.code = None /\ op.stack = None
    BY <2>1 DEF Unset, At, Begins
  <2>3. ASSUME NEW p, op' = [op EXCEPT !.at = "read", !.buf = p] \/ op' = [op EXCEPT !.at = "read"]
        PROVE  Unset'
    <3>1. op'.new = op.new /\ op'.code = op.code /\ op'.stack = op.stack
      BY <2>1, <2>3 DEF Loading
    <3> QED BY <2>2, <3>1 DEF Unset
  <2> QED BY <1>2, <1>a, <2>3 DEF AllocateBuffer, Take, Goto
<1>b. CASE ReadProgram
  <2>1. At("read") /\ op \in Loading
    BY <1>b DEF ReadProgram, At, MmTypes, Deletion
  <2>2. op.new = None /\ op.code = None /\ op.stack = None
    BY <2>1 DEF Unset, At, Begins
  <2>3. ASSUME op' = [op EXCEPT !.at = "create"]
        PROVE  Unset'
    <3>1. op'.new = op.new /\ op'.code = op.code /\ op'.stack = op.stack
      BY <2>1, <2>3 DEF Loading
    <3> QED BY <2>2, <3>1 DEF Unset
  <2> QED BY <1>2, <1>b, <2>3 DEF ReadProgram, Goto
<1>c. CASE Activate
  <2>1. At("activate") /\ op \in Loading /\ op' = [op EXCEPT !.at = "copy"]
    BY <1>c DEF Activate, At, MmTypes, Deletion, Goto
  <2>2. op'.at = "copy"
    BY <2>1 DEF Loading
  <2> QED BY <2>2 DEF Unset, Begins
<1>5. CASE mm_create
  <2>1. At("create") /\ op \in Loading
    BY <1>5 DEF mm_create, At, MmTypes, Deletion
  <2>2. ASSUME NEW p, op' = [op EXCEPT !.at = "code", !.new = p]
        PROVE  Unset'
    <3>1. op'.at = "code" /\ op'.code = op.code /\ op'.stack = op.stack
      BY <2>1, <2>2 DEF Loading
    <3> QED BY <2>1, <3>1 DEF Unset, At, Begins
  <2> QED BY <1>2, <1>5, <2>2 DEF mm_create, Take
<1>6. CASE AllocateCode
  <2>1. At("code") /\ op \in Loading
    BY <1>6 DEF AllocateCode, At, MmTypes, Deletion
  <2>2. ASSUME NEW p, op' = [op EXCEPT !.at = "stack", !.code = p]
        PROVE  Unset'
    <3>1. op'.at = "stack" /\ op'.stack = op.stack
      BY <2>1, <2>2 DEF Loading
    <3> QED BY <2>1, <3>1 DEF Unset, At, Begins
  <2> QED BY <1>3, <1>6, <2>2 DEF AllocateCode, Take, Error3
<1>7. CASE AllocateStack
  <2>1. At("stack") /\ op \in Loading
    BY <1>7 DEF AllocateStack, At, MmTypes, Deletion
  <2>2. ASSUME NEW p, op' = [op EXCEPT !.at = "map", !.stack = p]
        PROVE  Unset'
    <3>1. op'.at = "map"
      BY <2>1, <2>2 DEF Loading
    <3> QED BY <2>1, <3>1 DEF Unset, At, Begins
  <2> QED BY <1>3, <1>7, <2>2 DEF AllocateStack, Take, Error3
<1>8. CASE do_one_mapping
  <2>1. At("map") /\ op \in Loading
    BY <1>8 DEF do_one_mapping, At, MmTypes, Deletion
  <2>2. ASSUME op' = [op EXCEPT !.i = @ + 1, !.at = IF op.i = op.npage THEN "activate" ELSE "map"]
        PROVE  Unset'
    <3>1. PICK x : x = (IF op.i = op.npage THEN "activate" ELSE "map") /\ x \in {"activate", "map"}
      OBVIOUS
    <3>2. op'.at = x
      BY <2>1, <2>2, <3>1 DEF Loading
    <3> QED BY <3>1, <3>2 DEF Unset, Begins
  <2>3. ASSUME op' = [op EXCEPT !.at = "error_5"]
        PROVE  Unset'
    <3>1. op'.at = "error_5"
      BY <2>1, <2>3 DEF Loading
    <3> QED BY <3>1 DEF Unset, Begins
  <2>4. \/ op' = [op EXCEPT !.i = @ + 1, !.at = IF op.i = op.npage THEN "activate" ELSE "map"]
        \/ op' = [op EXCEPT !.at = "error_5"]
    BY <1>8, Zenon DEF do_one_mapping, Take, Goto
  <2> QED BY <2>2, <2>3, <2>4
<1>9. CASE DeletePage
  <2>1. At("delete") /\ op \in Deletion
    BY <1>9 DEF DeletePage, At, MmTypes, Loading
  <2>2. ASSUME NEW k, NEW r, op' = [op EXCEPT !.i = k, !.j = r]
        PROVE  Unset'
    <3>1. op'.at = "delete"
      BY <2>1, <2>2 DEF Deletion, At
    <3> QED BY <3>1 DEF Unset
  <2>3. \E k, r : op' = [op EXCEPT !.i = k, !.j = r]
    BY <1>9 DEF DeletePage
  <2> QED BY <2>2, <2>3
<1>10. CASE \E addr \in Addresses, len \in Lengths : do_map(addr, len) \/ do_unmap(addr, len)
  BY <1>1, <1>10 DEF do_map, do_unmap
<1>11. CASE (\E addr \in Addresses : is_in_vma(addr)) \/ task_create
  BY <1>1, <1>11 DEF is_in_vma, task_create
<1>12. CASE Error5 \/ mm_delete
  BY <1>3, <1>12 DEF Error5, Error3, mm_delete
<1>13. CASE CopyProgram \/ DeletePgd
  BY <1>2, <1>13 DEF CopyProgram, DeletePgd
<1>14. CASE UNCHANGED mmVars
  BY <1>1, <1>14 DEF mmVars
<1> QED BY <1>4, <1>5, <1>6, <1>7, <1>8, <1>9, <1>10, <1>11, <1>12, <1>13, <1>14,
           <1>a, <1>b, <1>c DEF MmNext

\* The areas do not lead to pages.
LEMMA AreasLose ==
    ASSUME mm # None, mm' # None, mm'.pgd = mm.pgd, op = None, UNCHANGED <<lent, table, op>>
    PROVE  Lost' \subseteq Lost
<1>1. PICK m : m = mm.pgd
  OBVIOUS
<1>2. Tree(m, 0, 0)' = Tree(m, 0, 0)
  BY PagesSame
<1>3. Leads' = Leads
  BY <1>1, <1>2 DEF Leads, OfProcess, OfOp, At, Deleting
<1> QED BY <1>3, NothingLost

LEMMA CreateLoses ==
    ASSUME MmTypes, task_create
    PROVE  Lost' \subseteq Lost
<1>1. PICK b : /\ b = kmalloc(1) /\ FreeBlocks(1) # {} /\ lent' = lent \cup {b} /\ mm' = NewMm(b[1])
               /\ op = None /\ op' = None /\ mm = None
  BY DEF task_create, Take
<1>2. PICK g \in Frame : g = b[1] /\ b = <<g, 0>>
  BY <1>1, KmallocPage
<1>3. mm'.pgd = g /\ mm' # None
  <2>1. NewMm(g) \in MmRecord /\ NewMm(g).pgd = g
    BY DEF NewMm, MmRecord
  <2> QED BY <1>1, <1>2, <2>1, NoneAssumption
<1>4. Leads = {}
  BY <1>1 DEF Leads, OfProcess, OfOp, Deleting
<1>5. g \in Tree(g, 0, 0)'
  BY DEF Tree, Directory
<1>6. g \in Leads'
  BY <1>1, <1>3, <1>5 DEF Leads, OfProcess, At, Deleting
<1>7. g \in InBlock(b)
  BY <1>2, OnePage
<1> QED BY <1>1, <1>4, <1>6, <1>7, NothingLost

\* The steps that begin to load a program and to delete the process.
LEMMA BeginLoses ==
    ASSUME MmTypes, PagesInv, mm_delete \/ \E n \in FileSizes : runuserprog(n)
    PROVE  Lost' \subseteq Lost
<1>1. PICK m, k : m = mm.pgd /\ k = loaded /\ k \in Nat
  BY DEF MmTypes
<1>2. mm # None /\ op = None /\ UNCHANGED <<lent, table, mm>>
  BY DEF mm_delete, runuserprog, Runs
<1>3. Tree(m, 0, 0)' = Tree(m, 0, 0)
  BY <1>2, PagesSame
<1>4. Leads = Tree(m, 0, 0)
  BY <1>1, <1>2 DEF Leads, OfProcess, OfOp, At, Deleting
<1>5. Tree(m, 0, 0) \subseteq Leads'
  <2>1. CASE mm_delete
    <3>1. op' = Delete(m, k, "task")
      BY <1>1, <2>1 DEF mm_delete
    <3>2. op'.at = "delete" /\ op'.pgd = m /\ op'.i = 0 /\ op'.j = 0
      BY <3>1 DEF Delete
    <3>3. op' # None
      <4>1. m \in Frame
        BY <1>1, <1>2 DEF PagesInv, HasTables, At, IsTree, IsDirectory, Deleting
      <4>2. Delete(m, k, "task") \in Deletion
        BY <1>1, <4>1 DEF Delete, Deletion
      <4> QED BY <3>1, <4>2, NoneAssumption
    <3> QED BY <1>3, <3>2, <3>3 DEF Leads, OfOp, At, Deleting
  <2>2. CASE \E n \in FileSizes : runuserprog(n)
    <3>1. op'.at = "buffer"
      BY <2>2 DEF runuserprog
    <3> QED BY <1>1, <1>2, <1>3, <3>1 DEF Leads, OfProcess, At, Deleting
  <2> QED BY <2>1, <2>2
<1> QED BY <1>2, <1>4, <1>5, NothingLost

\* runuserprog gives up before it has made newmm.
LEMMA GiveUpLoses ==
    ASSUME MmTypes, PagesInv, Unset, op # None, op.at \in Begins, op' = None, UNCHANGED <<lent, table, mm>>
    PROVE  \A b \in Lost' \ Lost : b[1] = op.buf
<1>1. PICK m, B : m = mm.pgd /\ B = op.buf
  OBVIOUS
<1>2. op.at # "delete" /\ op.new = None /\ op.code = None /\ op.stack = None
  BY DEF Begins, Unset
<1>3. mm # None /\ lent \subseteq Block
  BY <1>2, WhileLoading
<1>4. Tree(m, 0, 0)' = Tree(m, 0, 0)
  BY PagesSame
<1>5. Leads' = Tree(m, 0, 0)
  BY <1>1, <1>3, <1>4 DEF Leads, OfProcess, OfOp, Deleting
<1>6. \A b \in lent : InBlock(b) \cap Leads # {} /\ b[1] \notin {B} => InBlock(b) \cap Leads' # {}
  <2> TAKE b \in lent
  <2>1. b[1] # None
    BY <1>3, BlockParts, NoneAssumption
  <2> QED BY <1>1, <1>2, <1>5, <2>1, LedByLoading
<1>7. \A b \in Lost' \ Lost : b[1] \in {B}
  BY <1>6, OnlyDropped
<1> QED BY <1>1, <1>7

\* kmalloc fails and newmm is deleted.
LEMMA ErrorLoses ==
    ASSUME MmTypes, PagesInv, Unset, op # None, op.at \in {"code", "stack"}, Error3,
           UNCHANGED <<lent, table, mm>>
    PROVE  \A b \in Lost' \ Lost : b[1] \in {op.buf, op.code} \ {None}
<1>1. PICK m, g, n, B, c : m = mm.pgd /\ g = op.new /\ n = op.npage /\ B = op.buf /\ c = op.code
  OBVIOUS
<1>2. /\ op.at # "delete" /\ op.stack = None /\ mm # None /\ lent \subseteq Block /\ op \in Loading
      /\ Loads
  BY WhileLoading DEF Unset
<1>3. g # None /\ g \in Frame /\ n \in Nat
  BY <1>1, <1>2, ProgramPages DEF Loads, Builds, IsDirectory, Loading
<1>4. Tree(m, 0, 0)' = Tree(m, 0, 0) /\ Tree(g, 0, 0)' = Tree(g, 0, 0)
  BY PagesSame
<1>5. Leads' = Tree(m, 0, 0) \cup Tree(g, 0, 0)
  <2>1. op' = Delete(g, n, "new") /\ Delete(g, n, "new") \in Deletion
    BY <1>1, <1>3 DEF Error3, Delete, Deletion
  <2>2. op'.at = "delete" /\ op'.of = "new" /\ op'.pgd = g /\ op'.i = 0 /\ op'.j = 0 /\ op' # None
    BY <2>1, NoneAssumption DEF Delete
  <2> QED BY <1>1, <1>2, <1>4, <2>2 DEF Leads, OfProcess, OfOp, Deleting
<1>6. \A b \in lent : InBlock(b) \cap Leads # {} /\ b[1] \notin {B, c} \ {None} => InBlock(b) \cap Leads' # {}
  <2> TAKE b \in lent
  <2>1. b[1] # None
    BY <1>2, BlockParts, NoneAssumption
  <2> QED BY <1>1, <1>2, <1>5, <2>1, LedByLoading
<1>7. \A b \in Lost' \ Lost : b[1] \in {B, c} \ {None}
  BY <1>6, OnlyDropped
<1> QED BY <1>1, <1>7

\* The buffer is allocated, or there is no memory for it.
LEMMA BufferLoses ==
    ASSUME MmTypes, PagesInv, Unset, AllocateBuffer
    PROVE  Lost' \subseteq Lost
<1>1. PICK m : m = mm.pgd
  OBVIOUS
<1>2. /\ op # None /\ op.at = "buffer" /\ UNCHANGED <<table, mm>> /\ op \in Loading /\ mm # None
      /\ Loads /\ lent \subseteq Block
  BY WhileLoading DEF AllocateBuffer, At
<1>3. op.buf = None /\ op.new = None /\ op.code = None /\ op.stack = None
  BY <1>2 DEF Loads
<1>4. Tree(m, 0, 0)' = Tree(m, 0, 0)
  BY <1>2, TreeSame
<1>5. Leads = Tree(m, 0, 0)
  BY <1>1, <1>2, <1>3 DEF Leads, OfProcess, OfOp, OfLoading, Deleting
<1>6. CASE lent' = lent /\ op' = None
  <2>1. Leads' = Tree(m, 0, 0)
    BY <1>1, <1>2, <1>4, <1>6 DEF Leads, OfProcess, OfOp, Deleting
  <2> QED BY <1>5, <1>6, <2>1, NothingLost
<1>7. CASE lent' = lent /\ op' = [op EXCEPT !.at = "read"]
  <2>1. op'.at = "read"
    BY <1>2, <1>7 DEF Loading
  <2>2. Tree(m, 0, 0) \subseteq Leads'
    BY <1>1, <1>2, <1>4, <2>1 DEF Leads, OfProcess, Deleting
  <2> QED BY <1>5, <1>7, <2>2, NothingLost
<1>8. ASSUME NEW n, FreeBlocks(n) # {}, NEW b, b = kmalloc(n), lent' = lent \cup {b},
             op' = [op EXCEPT !.at = "read", !.buf = b[1]]
      PROVE  Lost' \subseteq Lost
  <2>1. b \in Block
    BY <1>8, KmallocIs
  <2>2. b[1] \in Frame /\ b[1] # None /\ b[1] \in InBlock(b)
    BY <2>1, BlockParts, NoneAssumption
  <2>3. op' \in Loading /\ op'.at = "read" /\ op'.buf = b[1]
    BY <1>2, <1>8, <2>2 DEF Loading
  <2>4. op' # None
    BY <2>3, NoneAssumption
  <2>5. Tree(m, 0, 0) \subseteq Leads' /\ b[1] \in Leads'
    BY <1>1, <1>2, <1>4, <2>2, <2>3, <2>4, LoadingLeadsThen DEF OfLoading
  <2> QED BY <1>5, <1>8, <2>2, <2>5, NothingLost
<1> QED BY <1>6, <1>7, <1>8 DEF AllocateBuffer, Take, Goto

\* The program was read, or it was not.
LEMMA ReadLoses ==
    ASSUME MmTypes, PagesInv, Unset, ReadProgram
    PROVE  \A b \in Lost' \ Lost : b[1] = op.buf
<1>1. PICK m, g : m = mm.pgd /\ g = op.new
  OBVIOUS
<1>2. /\ op # None /\ op.at = "read" /\ UNCHANGED <<lent, table, mm>> /\ op \in Loading /\ mm # None
  BY WhileLoading DEF ReadProgram, At
<1>3. CASE op' = None
  BY <1>2, <1>3, GiveUpLoses DEF Begins
<1>4. CASE op' = [op EXCEPT !.at = "create"]
  <2>1. op' \in Loading /\ op'.at = "create" /\ op'.buf = op.buf /\ op'.new = op.new
        /\ op'.code = op.code /\ op'.stack = op.stack
    BY <1>2, <1>4 DEF Loading
  <2>2. Tree(m, 0, 0)' = Tree(m, 0, 0) /\ Tree(g, 0, 0)' = Tree(g, 0, 0)
    BY <1>2, PagesSame
  <2>3. Leads' = Leads
    BY <1>1, <1>2, <2>1, <2>2, NoneAssumption, LoadingLeads, LoadingLeadsThen DEF OfLoading
  <2>4. Lost' \subseteq Lost
    BY <1>2, <2>3, NothingLost
  <2> QED BY <2>4
<1> QED BY <1>3, <1>4 DEF ReadProgram, Goto

\* A program is loaded into newmm.
LEMMA MmCreateLoses ==
    ASSUME MmTypes, PagesInv, Unset, mm_create
    PROVE  \A b \in Lost' \ Lost : b[1] = op.buf
<1>1. PICK m, ld : m = mm.pgd /\ ld = loaded
  OBVIOUS
<1>2. /\ At("create") /\ op \in Loading /\ mm # None /\ mm' = mm
      /\ IsTree(m, 0, 0, ld) /\ InUse(Tree(m, 0, 0))
  BY <1>1, WhileLoading DEF mm_create, At
<1>3. op.new = None /\ op.code = None /\ op.stack = None
  BY <1>2 DEF Unset, At, Begins
<1>4. Leads = Tree(m, 0, 0) \cup ({op.buf} \ {None})
  BY <1>1, <1>2, <1>3 DEF Leads, OfProcess, OfOp, OfLoading, At, Deleting
<1>5. CASE lent' = lent /\ op' = None /\ UNCHANGED table
  BY <1>2, <1>5, GiveUpLoses DEF At, Begins
<1>6. ASSUME FreeBlocks(1) # {}, NEW b, b = kmalloc(1), lent' = lent \cup {b},
             op' = [op EXCEPT !.at = "code", !.new = b[1]],
             table' = [table EXCEPT ![b[1]] = EmptyTable]
      PROVE  Lost' \subseteq Lost
  <2>1. PICK g \in Frame : g = b[1] /\ b = <<g, 0>> /\ InBlock(b) = {g}
    BY <1>6, KmallocPage, OnePage
  <2>2. b \in Block /\ \A d \in lent : InBlock(b) \cap InBlock(d) = {}
    BY <1>6, KmallocIs
  <2>3. InBlock(b) \cap Tree(m, 0, 0) = {}
    BY <1>2, <2>2, FreePages
  <2>4. \A p \in Directory(m, 0) : table'[p] = table[p]
    <3>1. IsDirectory(m, 0)
      BY <1>2 DEF IsTree
    <3>2. \A p \in Directory(m, 0) : p \in Frame /\ p # g
      BY <2>1, <2>3, <3>1, DirectoryBlocks DEF Tree
    <3> QED BY <1>6, <2>1, <3>2 DEF MmTypes
  <2>5. Tree(m, 0, 0)' = Tree(m, 0, 0)
    BY <1>2, <1>6, <2>2, <2>4, TreeBesideNew
  <2>6. /\ op'.at = "code" /\ op'.new = g /\ op' # None /\ op'.new # None /\ op'.buf = op.buf
    <3>1. op' \in Loading /\ op'.at = "code" /\ op'.new = g /\ op'.buf = op.buf
      BY <1>2, <1>6, <2>1 DEF Loading
    <3> QED BY <2>1, <3>1, NoneAssumption
  <2>7. g \in Tree(g, 0, 0)'
    BY DEF Tree, Directory
  <2>8. g \in Leads'
    <3>1. g # None
      BY <2>6
    <3> QED BY <2>6, <2>7, <3>1 DEF Leads, OfOp, OfLoading, At, Deleting
  <2>9. Leads \subseteq Leads'
    <3>1. Tree(m, 0, 0) \subseteq Leads'
      BY <1>1, <1>2, <2>5, <2>6 DEF Leads, OfProcess, At, Deleting
    <3>2. {op.buf} \ {None} \subseteq Leads'
      BY <2>6 DEF Leads, OfOp, OfLoading, Deleting
    <3> QED BY <1>4, <3>1, <3>2
  <2> QED BY <1>6, <2>1, <2>8, <2>9, NothingLost
<1> QED BY <1>5, <1>6 DEF mm_create, Take

LEMMA CodeLoses ==
    ASSUME MmTypes, PagesInv, Unset, AllocateCode
    PROVE  \A b \in Lost' \ Lost : b[1] = op.buf
<1>1. PICK m, g, ld, n : m = mm.pgd /\ g = op.new /\ ld = loaded /\ n = op.npage
  OBVIOUS
<1>2. /\ At("code") /\ op \in Loading /\ mm # None /\ mm' = mm /\ UNCHANGED table /\ op # None
      /\ op.at = "code"
  BY WhileLoading DEF AllocateCode, At
<1>3. op.code = None /\ op.stack = None /\ g # None /\ g \in Frame
  <2>1. g # None /\ IsDirectory(g, 0)
    BY <1>1, <1>2 DEF PagesInv, Loads, Builds
  <2> QED BY <1>2, <2>1 DEF Unset, IsDirectory, Begins
<1>4. Tree(m, 0, 0)' = Tree(m, 0, 0) /\ Tree(g, 0, 0)' = Tree(g, 0, 0)
  <2>1. \A q : table'[q] = table[q]
    BY <1>2
  <2> QED BY <2>1, TreeSame
<1>5. Leads = Tree(m, 0, 0) \cup (({op.buf} \cup Tree(g, 0, 0)) \ {None})
  BY <1>1, <1>2, <1>3 DEF Leads, OfProcess, OfOp, OfLoading, At, Deleting
<1>6. CASE lent' = lent /\ Error3
  <2>1. \A b \in Lost' \ Lost : b[1] \in {op.buf, op.code} \ {None}
    BY <1>2, <1>6, ErrorLoses
  <2> QED BY <1>3, <2>1
<1>7. ASSUME FreeBlocks(op.npage) # {}, NEW b, b = kmalloc(op.npage), lent' = lent \cup {b},
             op' = [op EXCEPT !.at = "stack", !.code = b[1]]
      PROVE  Lost' \subseteq Lost
  <2>1. b \in Block
    BY <1>7, KmallocIs
  <2>2. b[1] \in Frame /\ b[1] \in InBlock(b) /\ b[1] # None
    BY <2>1, BlockParts, NoneAssumption
  <2>3. op'.at = "stack" /\ op'.new = g /\ op'.code = b[1] /\ op'.stack = None /\ op'.buf = op.buf /\ op' # None
    <3>1. op' \in Loading /\ op'.at = "stack" /\ op'.new = g /\ op'.code = b[1] /\ op'.stack = None /\ op'.buf = op.buf
      BY <1>1, <1>2, <1>3, <1>7, <2>2 DEF Loading
    <3> QED BY <3>1, NoneAssumption
  <2>4. Leads' = Tree(m, 0, 0) \cup (({op.buf, b[1]} \cup Tree(g, 0, 0)) \ {None})
    BY <1>1, <1>2, <1>3, <1>4, <2>2, <2>3 DEF Leads, OfProcess, OfOp, OfLoading, At, Deleting
  <2>5. Leads \subseteq Leads' /\ b[1] \in Leads'
    BY <1>5, <2>2, <2>4
  <2> QED BY <1>7, <2>2, <2>5, NothingLost
<1> QED BY <1>6, <1>7 DEF AllocateCode, Take

LEMMA StackLoses ==
    ASSUME MmTypes, PagesInv, Unset, AllocateStack
    PROVE  \A b \in Lost' \ Lost : b[1] \in {op.buf, op.code}
<1>1. PICK m, g : m = mm.pgd /\ g = op.new
  OBVIOUS
<1>2. /\ op \in Loading /\ mm # None /\ mm' = mm /\ UNCHANGED table /\ op # None /\ op.at = "stack"
  BY WhileLoading DEF AllocateStack, At
<1>3. op.stack = None
  BY <1>2 DEF Unset
<1>4. Tree(m, 0, 0)' = Tree(m, 0, 0) /\ Tree(g, 0, 0)' = Tree(g, 0, 0)
  <2>1. \A q : table'[q] = table[q]
    BY <1>2
  <2> QED BY <2>1, TreeSame
<1>5. CASE lent' = lent /\ Error3
  <2>1. \A b \in Lost' \ Lost : b[1] \in {op.buf, op.code} \ {None}
    BY <1>2, <1>5, ErrorLoses
  <2> QED BY <2>1
<1>6. ASSUME FreeBlocks(2) # {}, NEW b, b = kmalloc(2), lent' = lent \cup {b},
             op' = [op EXCEPT !.at = "map", !.stack = b[1]]
      PROVE  Lost' \subseteq Lost
  <2>1. b \in Block
    BY <1>6, KmallocIs
  <2>2. b[1] \in Frame /\ b[1] \in InBlock(b) /\ b[1] # None
    BY <2>1, BlockParts, NoneAssumption
  <2>3. /\ op' \in Loading /\ op'.at = "map" /\ op'.new = op.new /\ op'.code = op.code
        /\ op'.stack = b[1] /\ op'.buf = op.buf
    BY <1>2, <1>6, <2>2 DEF Loading
  <2>4. op' # None
    BY <2>3, NoneAssumption
  <2>5. Leads \subseteq Leads' /\ b[1] \in Leads'
    BY <1>1, <1>2, <1>3, <1>4, <2>2, <2>3, <2>4, LoadingLeads, LoadingLeadsThen DEF OfLoading
  <2> QED BY <1>6, <2>2, <2>5, NothingLost
<1> QED BY <1>5, <1>6 DEF AllocateStack, Take

\* The stack is given back, and newmm is deleted.
LEMMA Error5Loses ==
    ASSUME MmTypes, PagesInv, Unset, Error5
    PROVE  \A b \in Lost' \ Lost : b[1] \in {op.buf, op.code}
<1>1. PICK m, g, n, B, c, s : /\ m = mm.pgd /\ g = op.new /\ n = op.npage
                              /\ B = op.buf /\ c = op.code /\ s = op.stack
  OBVIOUS
<1>2. /\ op # None /\ op.at = "error_5" /\ UNCHANGED mm /\ kfree(s) /\ op \in Loading /\ mm # None
      /\ Loads /\ lent \subseteq Block /\ op' = Delete(g, n, "new")
  BY <1>1, WhileLoading DEF Error5, Error3, At
<1>3. g # None /\ g \in Frame /\ n \in Nat
  BY <1>1, <1>2, ProgramPages DEF Loads, Builds, IsDirectory, Loading
<1>4. Tree(m, 0, 0)' = Tree(m, 0, 0) /\ Tree(g, 0, 0)' = Tree(g, 0, 0)
  BY <1>1, Error5Step
<1>5. Leads' = Tree(m, 0, 0) \cup Tree(g, 0, 0)
  <2>1. Delete(g, n, "new") \in Deletion
    BY <1>3 DEF Delete, Deletion
  <2>2. op'.at = "delete" /\ op'.of = "new" /\ op'.pgd = g /\ op'.i = 0 /\ op'.j = 0 /\ op' # None
    BY <1>2, <2>1, NoneAssumption DEF Delete
  <2> QED BY <1>1, <1>2, <1>4, <2>2 DEF Leads, OfProcess, OfOp, Deleting
<1>6. \A b \in lent' : b \in lent /\ b[1] # s
  BY <1>2 DEF kfree
<1>7. \A b \in lent' : InBlock(b) \cap Leads # {} /\ b[1] \notin {B, c} => InBlock(b) \cap Leads' # {}
  BY <1>1, <1>2, <1>5, <1>6, LedByLoading
<1>8. \A b \in Lost' \ Lost : b[1] \in {B, c}
  BY <1>6, <1>7, OnlyDropped
<1> QED BY <1>1, <1>8

\* The process goes on with newmm: the tables that it had are lost.
LEMMA ActivateLoses ==
    ASSUME MmTypes, PagesInv, Unset, Activate
    PROVE  \A b \in Lost' \ Lost : b[1] \in PagesOf(mm.pgd)
<1>1. PICK m, g, ld, M : m = mm.pgd /\ g = op.new /\ ld = loaded /\ M = Tree(mm.pgd, 0, 0)
  OBVIOUS
<1>2. /\ op # None /\ op.at = "activate" /\ UNCHANGED <<lent, table>> /\ op \in Loading /\ mm # None
      /\ Loads /\ lent \subseteq Block /\ Disjoint /\ IsTree(m, 0, 0, ld)
      /\ mm' = NewMm(g) /\ op' = [op EXCEPT !.at = "copy"]
  BY <1>1, WhileLoading DEF Activate, At, Goto
<1>3. /\ op' \in Loading /\ op'.at = "copy" /\ op'.buf = op.buf /\ op'.new = op.new
      /\ op'.code = op.code /\ op'.stack = op.stack
  BY <1>2 DEF Loading
<1>4. op' # None /\ mm' # None /\ mm'.pgd = g /\ g # None
  <2>1. g # None /\ g \in Frame
    BY <1>1, <1>2 DEF Loads, Builds, IsDirectory
  <2>2. NewMm(g) \in MmRecord /\ NewMm(g).pgd = g
    BY <2>1 DEF NewMm, MmRecord
  <2> QED BY <1>2, <1>3, <2>1, <2>2, NoneAssumption
<1>5. Tree(g, 0, 0)' = Tree(g, 0, 0)
  BY <1>2, PagesSame
<1>6. OfLoading \subseteq Leads' /\ Tree(g, 0, 0) \subseteq Leads'
  BY <1>1, <1>3, <1>4, <1>5, LoadingLeadsThen DEF OfLoading
<1>7. Leads = M \cup OfLoading
  BY <1>1, <1>2, LoadingLeads
<1>8. \A b \in lent : InBlock(b) \cap Leads # {} /\ b[1] \notin M => InBlock(b) \cap Leads' # {}
  <2> TAKE b \in lent
  <2>1. InBlock(b) \cap M # {} => b[1] \in M
    BY <1>1, <1>2, BlockOfTree
  <2> QED BY <1>6, <1>7, <2>1
<1>9. \A b \in Lost' \ Lost : b[1] \in M
  BY <1>2, <1>8, OnlyDropped
<1> QED BY <1>1, <1>9, PagesOfIs

\* The program was copied: code and stack are mapped, and the buffer is given back.
LEMMA CopyLoses ==
    ASSUME MmTypes, PagesInv, Unset, CopyProgram
    PROVE  Lost' \subseteq Lost
<1>1. PICK m : m = mm.pgd
  OBVIOUS
<1>2. /\ op # None /\ op.at = "copy" /\ UNCHANGED mm /\ op \in Loading /\ mm # None /\ Loads
      /\ lent \subseteq Block /\ op' = None
  BY WhileLoading DEF CopyProgram, At
<1>3. Tree(m, 0, 0)' = Tree(m, 0, 0)
  BY <1>1, <1>2, CopyStep
<1>4. Leads' = Tree(m, 0, 0)
  BY <1>1, <1>2, <1>3 DEF Leads, OfProcess, OfOp, Deleting
<1>5. \A b \in lent' : b \in lent /\ b[1] # op.buf
  <2>1. CASE op.buf = None
    <3>1. lent' = lent
      BY <2>1 DEF CopyProgram
    <3>2. \A b \in lent : b[1] # None
      BY <1>2, BlockParts, NoneAssumption
    <3> QED BY <2>1, <3>1, <3>2
  <2>2. CASE op.buf # None
    BY <2>2 DEF CopyProgram, kfree
  <2> QED BY <2>1, <2>2
<1>6. op.new = m
  BY <1>1, <1>2 DEF Loads
<1>7. \A b \in lent' : InBlock(b) \cap Leads # {} => InBlock(b) \cap Leads' # {}
  BY <1>1, <1>2, <1>4, <1>5, <1>6, LedByLoading
<1> QED BY <1>5, <1>7, NothingLost

\* What a tree led to while a program is loaded, it leads to after do_mapping.
LEMMA MapKeeps ==
    ASSUME MmTypes, PagesInv, At("map"), mm' = mm, NEW m, NEW g, m = mm.pgd, g = op.new,
           op' # None, op'.at # "delete", op'.new = op.new, op'.buf = op.buf,
           op'.code = op.code, op'.stack = op.stack,
           \A q \in Directory(m, 0) \cup Directory(g, 0), j \in Entry :
               table[q][j] # None => table'[q][j] = table[q][j]
    PROVE  /\ Leads \subseteq Leads' /\ (Tree(g, 0, 0)' \ {None}) \subseteq Leads'
<1>1. MappingAt
  BY MappingIs
<1>2. Tree(m, 0, 0) \subseteq Tree(m, 0, 0)' /\ Tree(g, 0, 0) \subseteq Tree(g, 0, 0)'
  BY TreeGrows
<1>3. op # None /\ op.at = "map" /\ mm # None /\ g # None
  BY <1>1 DEF At, MappingAt
<1>4. Leads = Tree(m, 0, 0) \cup (({op.buf, op.code, op.stack} \cup Tree(g, 0, 0)) \ {None})
  BY <1>3 DEF Leads, OfProcess, OfOp, OfLoading, At, Deleting
<1>5. Leads' = Tree(m, 0, 0)' \cup (({op.buf, op.code, op.stack} \cup Tree(g, 0, 0)') \ {None})
  BY <1>3 DEF Leads, OfProcess, OfOp, OfLoading, At, Deleting
<1> QED BY <1>2, <1>4, <1>5

\* A table entry of a page that was not mapped is empty.
LEMMA EmptyEntry ==
    ASSUME MappingAt, NEW k, NEW r, IsEntry(k, r), k \in Tabs(op.new, 0)
    PROVE  /\ k \in Entry /\ r \in Entry
           /\ table[op.new][k] \in Directory(op.new, 0) /\ table[table[op.new][k]][r] = None
<1>1. PICK v : v = va
  OBVIOUS
<1>2. v \in Nat /\ v < Entries * Entries
  <2>1. v = IF op.i < op.npage THEN USER_CODE_ENTRY + op.i ELSE UserStackPage
    BY <1>1 DEF va
  <2>2. op.npage \in Programs
    BY DEF MappingAt, Loading
  <2>3. USER_CODE_ENTRY \in Nat /\ UserStackPage \in Nat
        /\ USER_CODE_ENTRY + op.npage <= UserStackPage /\ UserStackPage < Entries * Entries
    BY <2>2, MmAssumption
  <2>4. Entries * Entries \in Nat
    BY MmAssumption
  <2> QED BY <2>1, <2>3, <2>4 DEF MappingAt
<1>3. k \in Entry /\ r \in Entry /\ V(<<k, r>>) = v
  BY <1>1, <1>2, EntryOf DEF IsEntry
<1>4. k * Entries + r = v
  BY <1>3 DEF V
<1>5. table[table[op.new][k]][r] = Target(v)
  BY <1>3, <1>4 DEF MappingAt, IsMapped
<1>6. Target(v) = None
  <2>1. op.npage \in Programs
    BY DEF MappingAt, Loading
  <2>2. USER_CODE_ENTRY \in Nat /\ UserStackPage \in Nat
        /\ USER_CODE_ENTRY + op.npage <= UserStackPage
    BY <2>1, MmAssumption
  <2>3. v = IF op.i < op.npage THEN USER_CODE_ENTRY + op.i ELSE UserStackPage
    BY <1>1 DEF va
  <2> QED BY <2>2, <2>3 DEF MappingAt, Target
<1> QED BY <1>3, <1>5, <1>6 DEF Directory

LEMMA MapLoses ==
    ASSUME MmTypes, PagesInv, do_one_mapping
    PROVE  Lost' \subseteq Lost
<1>1. At("map") /\ MappingAt /\ mm' = mm /\ op \in Loading
  BY MappingIs DEF do_one_mapping, MappingAt
<1>2. PICK m, g, ld, n : m = mm.pgd /\ g = op.new /\ ld = loaded /\ n = op.npage
  OBVIOUS
<1>3. PICK k, r : IsEntry(k, r)
  BY DEF IsEntry
<1>4. k = va \div Entries /\ r = va % Entries
  BY <1>3 DEF IsEntry
<1>5. /\ IsDirectory(g, 0) /\ IsTree(m, 0, 0, ld) /\ InUse(Tree(m, 0, 0)) /\ IsDirectory(m, 0)
      /\ table \in [Frame -> [Entry -> Frame \cup {None}]]
  BY <1>1, <1>2 DEF MappingAt, IsTree, MmTypes
<1>6. \A q \in Directory(m, 0) \cup Directory(g, 0) : q \in Frame
  BY <1>5, DirectoryBlocks
<1>7. g \in Frame /\ g \in Directory(g, 0)
  BY <1>5 DEF IsDirectory, Directory
<1>a. k \in Entry /\ r \in Entry
  <2>1. PICK v : v = va
    OBVIOUS
  <2>2. op.npage \in Programs
    BY <1>1 DEF Loading
  <2>3. v \in Nat /\ v < Entries * Entries
    <3>1. USER_CODE_ENTRY \in Nat /\ UserStackPage \in Nat
          /\ USER_CODE_ENTRY + op.npage <= UserStackPage /\ UserStackPage < Entries * Entries
      BY <2>2, MmAssumption
    <3>2. v = IF op.i < op.npage THEN USER_CODE_ENTRY + op.i ELSE UserStackPage
      BY <2>1 DEF va
    <3>3. Entries * Entries \in Nat
      BY MmAssumption
    <3> QED BY <1>1, <3>1, <3>2, <3>3 DEF MappingAt
  <2> QED BY <1>3, <2>1, <2>3, EntryOf DEF IsEntry
<1>8. ASSUME op' = [op EXCEPT !.i = @ + 1, !.at = IF op.i = op.npage THEN "activate" ELSE "map"]
      PROVE  /\ op' # None /\ op'.at # "delete" /\ op'.new = g /\ op'.buf = op.buf
             /\ op'.code = op.code /\ op'.stack = op.stack
  <2>1. PICK x : x = (IF op.i = op.npage THEN "activate" ELSE "map") /\ x \in {"activate", "map"}
    OBVIOUS
  <2>2. op' = [op EXCEPT !.i = @ + 1, !.at = x] /\ op.i + 1 \in Nat
    BY <1>1, <1>8, <2>1 DEF MappingAt
  <2>3. /\ op' \in Loading /\ op'.at = x /\ op'.new = g /\ op'.buf = op.buf
        /\ op'.code = op.code /\ op'.stack = op.stack
    BY <1>1, <1>2, <2>1, <2>2 DEF Loading
  <2> QED BY <2>1, <2>3, NoneAssumption
<1>9. CASE table[g][k] # None
  <2>1. PICK t : t = table[g][k] /\ t # None
    BY <1>9
  <2>2. /\ op' = [op EXCEPT !.i = @ + 1, !.at = IF op.i = op.npage THEN "activate" ELSE "map"]
        /\ lent' = lent /\ table' = [table EXCEPT ![t][r] = pa]
    BY <1>2, <1>4, <2>1 DEF do_one_mapping
  <2>3. k \in Tabs(g, 0)
    BY <1>9, <1>a DEF Tabs, Entry
  <2>4. table[t][r] = None /\ t \in Frame
    BY <1>1, <1>2, <1>3, <1>6, <2>1, <2>3, EmptyEntry
  <2>5. \A q \in Frame, j \in Entry : table[q][j] # None => table'[q][j] = table[q][j]
    BY <1>5, <1>a, <2>2, <2>4
  <2>6. Leads \subseteq Leads'
    BY <1>1, <1>2, <1>6, <1>8, <2>2, <2>5, MapKeeps
  <2> QED BY <2>2, <2>6, NothingLost
<1>10. ASSUME table[g][k] = None, FreeBlocks(1) # {}, NEW b, b = kmalloc(1), lent' = lent \cup {b},
              op' = [op EXCEPT !.i = @ + 1, !.at = IF op.i = op.npage THEN "activate" ELSE "map"],
              NEW p, p = b[1], EntersTable(k, r, p)
       PROVE  Lost' \subseteq Lost
  <2>1. p \in Frame /\ b = <<p, 0>> /\ InBlock(b) = {p}
    BY <1>10, KmallocPage, OnePage
  <2>2. \A d \in lent : InBlock(b) \cap InBlock(d) = {}
    BY <1>10, KmallocIs
  <2>3. p \notin Directory(m, 0) /\ p \notin Directory(g, 0)
    <3>1. InUse(Directory(m, 0)) /\ InUse(Directory(g, 0))
      BY <1>5, DirectoryBlocks
    <3> QED BY <2>1, <2>2, <3>1, FreePages
  <2>4. pa \in Frame
    BY <1>1, MappingIs, PaIs
  <2>5. /\ \A q \in Frame : q # p /\ q # g => table'[q] = table[q]
        /\ \A l \in Entry : table'[g][l] = IF l = k THEN p ELSE table[g][l]
    BY <1>2, <1>7, <1>10, <1>a, <2>1, <2>3, <2>4, TableEntered
  <2>6. \A q \in Directory(m, 0) \cup Directory(g, 0), j \in Entry :
            table[q][j] # None => table'[q][j] = table[q][j]
    <3>1. \A q \in Directory(m, 0) \cup Directory(g, 0) : q \in Frame /\ q # p
      BY <1>6, <2>3
    <3> QED BY <1>10, <2>5, <3>1
  <2>7. Leads \subseteq Leads' /\ (Tree(g, 0, 0)' \ {None}) \subseteq Leads'
    BY <1>1, <1>2, <1>8, <1>10, <2>6, MapKeeps
  <2>8. p \in Tree(g, 0, 0)' /\ p # None
    <3>1. p # None
      BY <2>1, NoneAssumption
    <3>2. table'[g][k] = p /\ k \in 0 .. Entries - 1
      BY <1>a, <2>5 DEF Entry
    <3> QED BY <3>1, <3>2 DEF Tree, Directory, Tabs
  <2> QED BY <1>10, <2>1, <2>7, <2>8, NothingLost
<1>11. ASSUME lent' = lent, op' = [op EXCEPT !.at = "error_5"], UNCHANGED table
       PROVE  Lost' \subseteq Lost
  <2>1. /\ op' # None /\ op'.at # "delete" /\ op'.new = g /\ op'.buf = op.buf
        /\ op'.code = op.code /\ op'.stack = op.stack
    <3>1. /\ op' \in Loading /\ op'.at = "error_5" /\ op'.new = g /\ op'.buf = op.buf
          /\ op'.code = op.code /\ op'.stack = op.stack
      BY <1>1, <1>2, <1>11 DEF Loading
    <3> QED BY <3>1, NoneAssumption
  <2>2. Leads \subseteq Leads'
    BY <1>1, <1>2, <1>11, <2>1, MapKeeps
  <2> QED BY <1>11, <2>2, NothingLost
<1>12. CASE table[g][k] = None
  <2>1. \/ /\ FreeBlocks(1) # {} /\ lent' = lent \cup {kmalloc(1)}
           /\ op' = [op EXCEPT !.i = @ + 1, !.at = IF op.i = op.npage THEN "activate" ELSE "map"]
           /\ EntersTable(k, r, kmalloc(1)[1])
        \/ lent' = lent /\ op' = [op EXCEPT !.at = "error_5"] /\ UNCHANGED table
    BY <1>2, <1>4, <1>12 DEF do_one_mapping, Take, Goto, EntersTable
  <2> QED BY <1>10, <1>11, <1>12, <2>1
<1> QED BY <1>9, <1>12

\* The tree of the process beside one that is deleted.
LEMMA ProcessBeside ==
    ASSUME MmTypes, PagesInv, At("delete"), op.of = "new", NEW p \in Frame, kfree(p),
           p \in Tree(op.pgd, op.i, op.j), NEW m, m = mm.pgd
    PROVE  Tree(m, 0, 0)' = Tree(m, 0, 0)
<1>1. PICK T, M, ld : T = Tree(op.pgd, op.i, op.j) /\ M = Tree(m, 0, 0) /\ ld = loaded
  OBVIOUS
<1>2. Apart(M, T) /\ IsTree(m, 0, 0, ld) /\ lent \subseteq Block
  <2>1. op.of # "task" /\ mm # None /\ Deleting
    BY DeletingIs DEF Deleting
  <2> QED BY <1>1, <2>1 DEF PagesInv, Deletes, HasTables, MmTypes, Block, Deleting
<1>3. p \notin M /\ \A b \in lent : b[1] = p => InBlock(b) \cap M = {}
  BY <1>1, <1>2, BlockParts DEF Apart
<1> QED BY <1>1, <1>2, <1>3, TreeBesideFreed, ZenonT(40) DEF Tree

LEMMA PageLoses ==
    ASSUME MmTypes, PagesInv, DeletePage
    PROVE  Lost' \subseteq Lost
<1>1. PICK p, k, r : Frees(p, k, r)
  BY DeletePageFrees
<1>2. PICK g, m, i, j, n : g = op.pgd /\ m = mm.pgd /\ i = op.i /\ j = op.j /\ n = op.npage
  OBVIOUS
<1>3. /\ At("delete") /\ op \in Deletion /\ mm # None /\ mm' = mm /\ Disjoint /\ op # None /\ Deleting
      /\ IsTree(g, i, j, n) /\ op.of \in {"new", "task"}
  BY <1>2, DeletePageFrees, DeletingIs DEF DeletePage, PagesInv, Deleting
<1>4. /\ p \in Frame /\ p \in Tree(g, i, j) /\ kfree(p) /\ k \in Nat /\ r \in Nat
      /\ op' = [op EXCEPT !.i = k, !.j = r] /\ Tree(g, k, r)' = Tree(g, i, j) \ {p}
  BY <1>1, <1>2 DEF Frees
<1>5. /\ op'.at = "delete" /\ op'.of = op.of /\ op'.pgd = g /\ op'.i = k /\ op'.j = r /\ op' # None
  <2>1. /\ op' \in Deletion /\ op'.at = "delete" /\ op'.of = op.of /\ op'.pgd = g
        /\ op'.i = k /\ op'.j = r
    BY <1>2, <1>3, <1>4 DEF Deletion
  <2> QED BY <2>1, NoneAssumption
<1>6. lent' \subseteq lent /\ \A b \in lent' : b[1] # p
  BY <1>4 DEF kfree
<1>7. OfOp = Tree(g, i, j) /\ OfOp' = Tree(g, i, j) \ {p}
  BY <1>2, <1>3, <1>4, <1>5 DEF OfOp, At, Deleting
<1>8. OfProcess' = OfProcess
  <2>1. CASE op.of = "new"
    <3>1. Tree(m, 0, 0)' = Tree(m, 0, 0)
      BY <1>2, <1>3, <1>4, <2>1, ProcessBeside
    <3> QED BY <1>2, <1>3, <1>5, <2>1, <3>1 DEF OfProcess, At, Deleting
  <2>2. CASE op.of = "task"
    BY <1>3, <1>5, <2>2 DEF OfProcess, At, Deleting
  <2> QED BY <1>3, <2>1, <2>2
<1>9. ASSUME NEW b \in lent', InBlock(b) \cap Leads # {}
      PROVE  InBlock(b) \cap Leads' # {}
  <2>1. CASE InBlock(b) \cap OfProcess # {}
    BY <1>8, <2>1 DEF Leads
  <2>2. CASE InBlock(b) \cap OfOp # {}
    <3>1. b[1] \in Tree(g, i, j) /\ b \in lent
      BY <1>3, <1>6, <1>7, <2>2, BlockOfTree
    <3>2. b[1] \in OfOp'
      BY <1>6, <1>7, <3>1
    <3>3. b[1] \in InBlock(b)
      BY <3>1, BlockParts DEF MmTypes, Block
    <3> QED BY <3>2, <3>3 DEF Leads
  <2> QED BY <1>9, <2>1, <2>2 DEF Leads
<1> QED BY <1>6, <1>9, NothingLost

LEMMA PgdLoses ==
    ASSUME MmTypes, PagesInv, DeletePgd
    PROVE  Lost' \subseteq Lost
<1>1. PICK g, m : g = op.pgd /\ m = mm.pgd
  OBVIOUS
<1>2. /\ At("delete") /\ <<g, 0>> \in lent /\ Tree(op.pgd, op.i, op.j) = {g}
      /\ mm # None /\ Disjoint /\ op # None /\ Deleting /\ op.of \in {"new", "task"} /\ kfree(g) /\ op' = None
      /\ lent \subseteq Block
  BY <1>1, DeletePgdStep, DeletingIs DEF DeletePgd, PagesInv, MmTypes, Block, Deleting
<1>3. g \in Frame /\ InBlock(<<g, 0>>) = {g}
  <2>1. g \in Frame
    BY <1>2, BlockParts
  <2> QED BY <2>1, OnePage
<1>4. lent' \subseteq lent /\ \A b \in lent' : b[1] # g
  BY <1>2 DEF kfree
<1>5. \A b \in lent' : g \notin InBlock(b)
  BY <1>2, <1>3, <1>4, TheBlock
<1>6. OfOp = {g}
  BY <1>2 DEF OfOp, Deleting
<1>7. OfProcess \subseteq Leads'
  <2>1. CASE op.of = "new"
    <3>1. Tree(m, 0, 0)' = Tree(m, 0, 0)
      <4>1. g \in Tree(op.pgd, op.i, op.j)
        BY <1>2
      <4> QED BY <1>1, <1>2, <1>3, <2>1, <4>1, ProcessBeside
    <3>2. mm' = mm
      BY <2>1 DEF DeletePgd
    <3> QED BY <1>1, <1>2, <2>1, <3>1, <3>2 DEF Leads, OfProcess, At, Deleting
  <2>2. CASE op.of = "task"
    BY <1>2, <2>2 DEF OfProcess, Deleting
  <2> QED BY <1>2, <2>1, <2>2
<1> QED BY <1>4, <1>5, <1>6, <1>7, NothingLost DEF Leads

\* What each step does about memory that nothing leads to.
LEMMA StepLoses ==
    ASSUME MmIInv, Unset, [MmNext]_mmVars, Sparing
    PROVE  \A b \in Lost' \ Lost : b[1] \in Drops
<1>0. MmTypes /\ AreasInv /\ PagesInv
  BY DEF MmIInv
<1>1. ASSUME AreasGoOn, mm # None, op = None, UNCHANGED <<lent, table, op>>
      PROVE  Lost' \subseteq Lost
  BY <1>1, AreasLose DEF AreasGoOn
<1>2. ASSUME NEW addr \in Addresses, NEW len \in Lengths, do_map(addr, len)
      PROVE  Lost' \subseteq Lost
  BY <1>0, <1>1, <1>2, DoMap DEF do_map, Runs
<1>3. ASSUME NEW addr \in Addresses, NEW len \in Lengths, do_unmap(addr, len)
      PROVE  Lost' \subseteq Lost
  BY <1>0, <1>1, <1>3, DoUnmap DEF do_unmap, Runs
<1>4. ASSUME NEW addr \in Addresses, is_in_vma(addr)
      PROVE  Lost' \subseteq Lost
  BY <1>0, <1>1, <1>4, IsInVma DEF is_in_vma, Runs
<1>6. CASE UNCHANGED mmVars
  <2>1. PICK m, d, g, i, j : m = mm.pgd /\ d = op.new /\ g = op.pgd /\ i = op.i /\ j = op.j
    OBVIOUS
  <2>2. UNCHANGED <<lent, table, mm, op>>
    BY <1>6 DEF mmVars
  <2>3. /\ Tree(m, 0, 0)' = Tree(m, 0, 0) /\ Tree(d, 0, 0)' = Tree(d, 0, 0)
        /\ Tree(g, i, j)' = Tree(g, i, j)
    BY <2>2, PagesSame
  <2>4. Leads' = Leads
    BY <2>1, <2>2, <2>3 DEF Leads, OfProcess, OfOp, OfLoading, At, Deleting
  <2> QED BY <2>2, <2>4, NothingLost
<1>7. CASE task_create \/ mm_delete \/ \E n \in FileSizes : runuserprog(n)
  BY <1>0, <1>7, CreateLoses, BeginLoses
<1>8. CASE AllocateBuffer \/ do_one_mapping \/ CopyProgram
  BY <1>0, <1>8, BufferLoses, MapLoses, CopyLoses
<1>9. CASE DeletePage \/ DeletePgd
  BY <1>0, <1>9, PageLoses, PgdLoses
<1>10. CASE ReadProgram \/ mm_create \/ AllocateCode
  <2>1. Drops = {op.buf}
    BY <1>10 DEF ReadProgram, mm_create, AllocateCode, Drops, At
  <2>2. \A b \in Lost' \ Lost : b[1] = op.buf
    BY <1>0, <1>10, ReadLoses, MmCreateLoses, CodeLoses
  <2> QED BY <2>1, <2>2
<1>11. CASE AllocateStack \/ Error5
  <2>1. Drops = {op.buf, op.code}
    BY <1>11 DEF AllocateStack, Error5, Drops, At
  <2>2. \A b \in Lost' \ Lost : b[1] \in {op.buf, op.code}
    BY <1>0, <1>11, StackLoses, Error5Loses
  <2> QED BY <2>1, <2>2
<1>12. CASE Activate
  <2>1. Drops = PagesOf(mm.pgd)
    BY <1>12 DEF Activate, Drops, At
  <2>2. \A b \in Lost' \ Lost : b[1] \in PagesOf(mm.pgd)
    BY <1>0, <1>12, ActivateLoses
  <2> QED BY <2>1, <2>2
<1> QED BY <1>2, <1>3, <1>4, <1>6, <1>7, <1>8, <1>9, <1>10, <1>11, <1>12 DEF MmNext

\* Nothing gets lost but what runuserprog drops: its buffer, code that is not mapped yet, and
\* the tables that the process had (pc.c:1037, 1145, vm.c:48).
THEOREM LossCorrect ==
    ASSUME Sparing
    PROVE  MmSpec => LosesOnlyInRunuserprog
<1>1. MmInit => Unset
  BY DEF MmInit, Unset
<1>2. MmIInv /\ Unset /\ [MmNext]_mmVars => Unset'
  BY UnsetStep DEF MmIInv
<1>3. MmIInv /\ Unset /\ [MmNext]_mmVars
        => [\A b \in Lost' \ Lost : b[1] \in Drops]_mmVars
  BY StepLoses
<1> QED BY <1>1, <1>2, <1>3, MmInvariant, PTL DEF MmSpec, LosesOnlyInRunuserprog

--------------------------------------------------------------------------------
(* The page allocator *)

\* A block is taken.
LEMMA Taken ==
    ASSUME NEW n, FreeBlocks(n) # {}, lent' = lent \cup {kmalloc(n)}
    PROVE  \E b \in Pages!Block : Pages!Alloc("mm", b)
<1>1. PICK b : b = kmalloc(n) /\ lent' = lent \cup {b}
  OBVIOUS
<1>2. b \in Block /\ \A d \in lent : InBlock(b) \cap InBlock(d) = {}
  BY <1>1, KmallocIs
<1>3. Pages!Lent = lent
  BY DEF Pages!Lent
<1>4. Pages!Alloc("mm", b)
  BY <1>1, <1>2, <1>3 DEF Pages!Alloc, Pages!Unlent, InBlock
<1> QED BY <1>2, <1>4 DEF Block

\* A block is given back, or nothing is when none starts at the page.
LEMMA GivenBack ==
    ASSUME MmTypes, Disjoint, NEW p, kfree(p)
    PROVE  /\ lent' = lent \/ \E b \in Pages!Block : Pages!Free("mm", b)
           /\ \A b \in lent : b[1] = p => lent' = lent \ {b}
<1>1. lent \subseteq Block /\ lent' = { b \in lent : b[1] # p }
  BY DEF MmTypes, Block, kfree
<1>2. ASSUME NEW b \in lent, b[1] = p
      PROVE  lent' = lent \ {b}
  BY <1>1, <1>2, TheBlock
<1>3. CASE \A b \in lent : b[1] # p
  BY <1>1, <1>2, <1>3
<1>4. CASE \E b \in lent : b[1] = p
  <2>1. PICK b \in lent : b[1] = p
    BY <1>4
  <2>2. Pages!Free("mm", b)
    BY <1>2, <2>1 DEF Pages!Free
  <2> QED BY <1>1, <1>2, <2>1, <2>2 DEF Block
<1> QED BY <1>2, <1>3, <1>4

LEMMA MemoryStep ==
    ASSUME MmIInv, [MmNext]_mmVars
    PROVE  /\ Pages!Next \/ lent' = lent
           /\ GivesBack => \/ UNCHANGED mmVars
                           \/ \E b \in lent : lent' = lent \ {b}
                           \/ At("delete") /\ op.npage > 1 /\ halved'
<1>0. MmTypes /\ PagesInv /\ Disjoint
  BY DEF MmIInv, PagesInv
<1>1. ASSUME NEW n, FreeBlocks(n) # {}, lent' = lent \cup {kmalloc(n)}
      PROVE  Pages!Next
  BY <1>1, Taken DEF Pages!Next
<1>2. ASSUME NEW p, kfree(p)
      PROVE  Pages!Next \/ lent' = lent
  BY <1>0, <1>2, GivenBack DEF Pages!Next
<1>3. CASE op = None
  <2>1. Pages!Next \/ lent' = lent
    <3>1. CASE task_create
      BY <1>1, <3>1 DEF task_create, Take
    <3> QED BY <1>3, <3>1 DEF MmNext, mmVars, do_map, do_unmap, is_in_vma, runuserprog,
             AllocateBuffer, ReadProgram, CopyProgram, mm_create, AllocateCode, AllocateStack, do_one_mapping, Error5, Activate, mm_delete,
             DeletePage, DeletePgd, At
  <2> QED BY <1>3, <2>1 DEF GivesBack, At
<1>4. CASE At("delete")
  <2>1. CASE DeletePage
    <3>1. PICK p, k, r : Frees(p, k, r)
      BY <1>0, <2>1, DeletePageFrees
    <3>2. kfree(p) /\ (op.npage <= 1 => \E b \in lent : b[1] = p)
      BY <3>1 DEF Frees
    <3>3. CASE \E b \in lent : b[1] = p
      BY <1>0, <1>2, <3>2, <3>3, GivenBack
    <3>4. CASE \A b \in lent : b[1] # p
      <4>1. halved'
        BY <3>2, <3>4 DEF kfree
      <4>2. op.npage > 1
        BY <1>0, <1>4, <3>2, <3>4, DeletingIs DEF Deletion
      <4> QED BY <1>2, <1>4, <3>2, <4>1, <4>2
    <3> QED BY <3>3, <3>4
  <2>2. CASE DeletePgd
    <3>1. kfree(op.pgd) /\ <<op.pgd, 0>> \in lent
      BY <1>0, <2>2, DeletePgdStep DEF DeletePgd
    <3> QED BY <1>0, <1>2, <3>1, GivenBack
  <2> QED BY <1>4, <2>1, <2>2 DEF MmNext, mmVars, do_map, do_unmap, is_in_vma, runuserprog,
           AllocateBuffer, ReadProgram, CopyProgram, mm_create, AllocateCode, AllocateStack,
           do_one_mapping, Error5, Activate, mm_delete, task_create, Runs, At
<1>5. CASE op # None /\ op.at # "delete"
  <2>0. GivesBack <=> At("error_5") \/ (At("copy") /\ op.buf # None)
    BY <1>5 DEF GivesBack, At
  <2>1. CASE AllocateBuffer
    BY <1>1, <1>5, <2>0, <2>1 DEF AllocateBuffer, Take, At
  <2>2. CASE mm_create
    BY <1>1, <1>5, <2>0, <2>2 DEF mm_create, Take, At
  <2>3. CASE AllocateCode
    BY <1>1, <1>5, <2>0, <2>3 DEF AllocateCode, Take, At
  <2>4. CASE AllocateStack
    BY <1>1, <1>5, <2>0, <2>4 DEF AllocateStack, Take, At
  <2>5. CASE do_one_mapping
    BY <1>1, <1>5, <2>0, <2>5 DEF do_one_mapping, Take, At
  <2>6. CASE Error5
    <3>1. kfree(op.stack) /\ \E b \in lent : b[1] = op.stack
      BY <1>0, <2>6, Error5Step DEF Error5
    <3> QED BY <1>0, <1>2, <3>1, GivenBack
  <2>7. CASE CopyProgram
    <3>1. CASE op.buf = None
      BY <2>0, <2>7, <3>1 DEF CopyProgram, At
    <3>2. CASE op.buf # None
      BY <1>0, <1>2, <2>7, <3>2, CopyStep, GivenBack
    <3> QED BY <3>1, <3>2
  <2>8. CASE ReadProgram \/ Activate
    BY <2>0, <2>8 DEF ReadProgram, Activate, At
  <2>9. CASE UNCHANGED mmVars
    BY <2>9 DEF mmVars
  <2> QED BY <1>5, <2>1, <2>2, <2>3, <2>4, <2>5, <2>6, <2>7, <2>8, <2>9 DEF MmNext, do_map, do_unmap,
           is_in_vma, runuserprog, mm_delete, DeletePage, DeletePgd, task_create, Runs, At
<1>6. CASE op # None /\ halved
  <2>1. \A l : ~At(l)
    BY <1>6 DEF At
  <2>2. UNCHANGED mmVars
    BY <1>6, <2>1 DEF MmNext, do_map, do_unmap, is_in_vma, runuserprog, AllocateBuffer, ReadProgram,
       CopyProgram, mm_create, AllocateCode, AllocateStack, do_one_mapping, Error5, Activate,
       mm_delete, DeletePage, DeletePgd, task_create, Runs
  <2> QED BY <2>2 DEF mmVars
<1> QED BY <1>3, <1>4, <1>5, <1>6 DEF At

\* User memory is taken and given back as the page allocator demands (mybuddy.c:85).
THEOREM MemoryCorrect ==
    ASSUME Sparing
    PROVE  MmSpec => Pages!Spec
<1>1. MmInit => Pages!Init
  BY DEF MmInit, Pages!Init
<1>2. MmIInv /\ [MmNext]_mmVars => [Pages!Next]_([c \in {"mm"} |-> lent])
  BY MemoryStep
<1> QED BY <1>1, <1>2, MmInvariant, PTL DEF MmSpec, Pages!Spec

\* What is given back was lent, and is given back whole, until pgd_delete meets the second page
\* of a program of several (mybuddy.c:85, vm.c:71).
THEOREM WholeBlocksCorrect ==
    ASSUME Sparing
    PROVE  MmSpec => FreesWholeBlocks
<1>1. MmIInv /\ [MmNext]_mmVars
        => [GivesBack => (\E b \in lent : lent' = lent \ {b}) \/ (At("delete") /\ op.npage > 1 /\ halved')]_mmVars
  BY MemoryStep
<1> QED BY <1>1, MemoryCorrect, MmInvariant, PTL DEF MmSpec, FreesWholeBlocks
================================================================================
