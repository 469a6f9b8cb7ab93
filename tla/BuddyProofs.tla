------------------------------ MODULE BuddyProofs ------------------------------
(****************************************************************************)
(* Theorems about Buddy, for any number of pages, orders and callers, as    *)
(* long as their calls do not interleave (OneAtATime).                      *)
(****************************************************************************)
EXTENDS Buddy, SequenceFacts, FiniteSetTheorems

\* What lockup is for and does not ensure: of the calls, one at a time.
OneAtATime ==
    \A c, d \in Caller : loc[c].at # "idle" /\ loc[d].at # "idle" => c = d

--------------------------------------------------------------------------------
(* The inductive invariant *)

Blocks == FreeBlocks \cup Lent \cup InHand

\* The blocks of B are aligned, lie apart, and cover the first n pages.
Aligned(p, o) == \E k \in Nat : p = k * 2^o
Fits(b, n) == b \in Page \X Order /\ Aligned(b[1], b[2]) /\ b[1] + 2^b[2] <= n
Tiling(B, n) ==
    /\ \A b \in B : Fits(b, n)
    /\ \A b, d \in B : b # d => PagesOf(b) \cap PagesOf(d) = {}
    /\ \A p \in 0 .. n - 1 : \E b \in B : p \in PagesOf(b)

\* Lists have each page once, and their lengths are counted.
Lists == \A o \in Order : nr_free[o] = Len(freelist[o]) /\ IsInjective(freelist[o])

\* The first page of a block tells whose it is and of what order; pages that were not
\* handed over have never been marked.
Marks ==
    /\ \A b \in FreeBlocks : flag[b[1]] = "FREE" /\ bplevel[b[1]] = b[2]
    /\ \A b \in Lent : flag[b[1]] = "ALLOCED" /\ bplevel[b[1]] = b[2]
    /\ \A p \in boot .. NPages - 1 : flag[p] = "RESERVED"
    /\ InHand \cap (FreeBlocks \cup Lent) = {}

\* Of two halves of a block one is not free.
NoPairs ==
    \A b \in FreeBlocks :
        b[2] < MAX_BUDDY_ORDER => <<Pair(b[1], b[2]), b[2]>> \notin FreeBlocks

\* What the locals of a caller are worth.
Local(c) ==
    LET l == loc[c]
    IN  /\ l.at \in {"take", "unlink", "split"} => l.level <= l.order
        /\ l.at = "take" => freelist[l.order] # <<>>
        /\ l.at = "unlink" => <<l.page, l.order>> \in FreeBlocks
        /\ l.at = "split" => flag[l.page] = "ALLOCED" /\ bplevel[l.page] = l.level

Control == ~fault /\ \A c \in Caller : Local(c)

\* Nothing is lent twice.
Owners == \A c, d \in Caller : c # d => owned[c] \cap owned[d] = {}

IInv ==
    /\ TypeOK /\ Tiling(Blocks, boot)
    /\ Lists /\ Marks /\ NoPairs /\ Control /\ Owners

--------------------------------------------------------------------------------
(* Sizes and places of blocks *)

\* The sizes of blocks, from the laws of powers.
LEMMA Sizes ==
    /\ \A o \in Order : 2^o \in Nat \ {0}
    /\ \A o \in Order : o < MAX_BUDDY_ORDER => o + 1 \in Order /\ 2^(o + 1) = 2 * 2^o
    /\ \A i, j \in Order : i <= j => \E m \in Nat \ {0} : 2^j = m * 2^i
<1>1. MAX_BUDDY_ORDER \in Nat
  BY BuddyAssumption
<1>2. \A o \in Order : 2^o \in Nat \ {0}
  BY PowerLaws DEF Order
<1>3. ASSUME NEW o \in Order, o < MAX_BUDDY_ORDER
      PROVE  o + 1 \in Order /\ 2^(o + 1) = 2 * 2^o
  <2>1. 1 \in Order /\ o + 1 \in Order
    BY <1>1, <1>3 DEF Order
  <2>2. 2^(o + 1) = 2^o * 2^1
    BY <2>1, PowerLaws DEF Order
  <2>3. PICK s \in Nat : s = 2^o
    BY <1>2
  <2> QED BY <2>1, <2>2, <2>3, PowerLaws
<1>4. ASSUME NEW i \in Order, NEW j \in Order, i <= j
      PROVE  \E m \in Nat \ {0} : 2^j = m * 2^i
  <2>1. j - i \in Order /\ (j - i) + i = j
    BY <1>1, <1>4 DEF Order
  <2>2. 2^((j - i) + i) = 2^(j - i) * 2^i
    BY <2>1, PowerLaws DEF Order
  <2> QED BY <1>2, <2>1, <2>2
<1> QED BY <1>2, <1>3, <1>4

\* Of two multiples of a number, the later is at least that much later.
LEMMA Apart ==
    ASSUME NEW s \in Nat \ {0}, NEW i \in Nat, NEW j \in Nat
    PROVE  /\ i * s \in Nat /\ j * s \in Nat /\ (i + 1) * s = i * s + s
           /\ i < j => i * s + s <= j * s
           /\ i * s < j * s => i < j
<1>1. i * s \in Nat /\ j * s \in Nat /\ (i + 1) * s = i * s + s
  BY SMT
<1>2. \A u, v \in Nat : u < v => u * s + s <= v * s
  BY SMT
<1>3. \A u, v \in Nat : u <= v => u * s <= v * s
  BY SMT
<1> QED BY <1>1, <1>2, <1>3

\* Of two aligned blocks with a page in common the smaller is part of the other.
LEMMA Nested ==
    ASSUME NEW i \in Order, NEW j \in Order, i <= j, NEW p \in Nat, NEW q \in Nat,
           Aligned(p, i), Aligned(q, j),
           NEW x, x \in PagesOf(<<p, i>>), x \in PagesOf(<<q, j>>)
    PROVE  /\ q <= p /\ p + 2^i <= q + 2^j
           /\ PagesOf(<<p, i>>) \subseteq PagesOf(<<q, j>>)
<1>1. PICK s, t, m \in Nat \ {0} : s = 2^i /\ t = 2^j /\ t = m * s
  BY Sizes
<1>2. PICK k, l \in Nat : p = k * s /\ q = l * t
  BY <1>1 DEF Aligned
<1>3. PICK u, v \in Nat : u = l * m /\ v = u + m
  <2>1. l * m \in Nat
    BY SMT
  <2> QED BY <2>1
<1>4. l * (m * s) = (l * m) * s /\ (u + m) * s = u * s + m * s
  BY SMT
<1>5. q = u * s /\ q + t = v * s
  BY <1>1, <1>2, <1>3, <1>4
<1>6. x \in Nat /\ p <= x /\ x < p + s /\ q <= x /\ x < q + t
  BY <1>1 DEF PagesOf
<1>7. p + s = (k + 1) * s /\ k * s < v * s /\ u * s < (k + 1) * s
  BY <1>1, <1>2, <1>5, <1>6, Apart
<1>8. k < v /\ u < k + 1
  BY <1>7, Apart
<1>9. p + s <= v * s
  BY <1>2, <1>8, Apart
<1>10. u * s <= k * s
  <2>1. CASE u = k
    BY <2>1, Apart
  <2>2. CASE u < k
    BY <2>2, Apart
  <2> QED BY <1>8, <2>1, <2>2
<1>11. q <= p /\ p + s <= q + t
  BY <1>2, <1>5, <1>9, <1>10
<1> QED BY <1>1, <1>11 DEF PagesOf

\* A block has its first page, and pages of the allocator.
LEMMA FirstPage ==
    ASSUME NEW p \in Nat, NEW o \in Order
    PROVE  p \in PagesOf(<<p, o>>) /\ p <= p + 2^o - 1 /\ p + 2^o \in Nat
<1>1. PICK s \in Nat \ {0} : s = 2^o
  BY Sizes
<1> QED BY <1>1 DEF PagesOf

\* The two halves of a block.
LEMMA Halves ==
    ASSUME NEW p \in Nat, NEW o \in Order, o < MAX_BUDDY_ORDER, Aligned(p, o + 1)
    PROVE  /\ p + 2^o \in Nat /\ Aligned(p, o) /\ Aligned(p + 2^o, o) /\ p + 2^o # p
           /\ PagesOf(<<p, o + 1>>) = PagesOf(<<p, o>>) \cup PagesOf(<<p + 2^o, o>>)
           /\ PagesOf(<<p, o>>) \cap PagesOf(<<p + 2^o, o>>) = {}
           /\ p + 2^(o + 1) = (p + 2^o) + 2^o
           /\ Pair(p, o) = p + 2^o /\ Pair(p + 2^o, o) = p
<1>1. PICK s, t \in Nat \ {0} : s = 2^o /\ t = 2^(o + 1) /\ t = 2 * s
  BY Sizes
<1>2. PICK k \in Nat : p = k * t
  BY <1>1 DEF Aligned
<1>3. PICK x, y \in Nat : x = 2 * k /\ y = x + 1
  OBVIOUS
<1>4. k * (2 * s) = (2 * k) * s /\ (x + 1) * s = x * s + s
  BY SMT
<1>5. p = x * s /\ p + s = y * s
  BY <1>1, <1>2, <1>3, <1>4
<1>6. p \div s = x /\ (p + s) \div s = y
  <2>1. \A z \in Nat : (z * s) \div s = z
    <3>1. ASSUME NEW z \in Nat PROVE (z * s) \div s = z
      <4>1. z * s \in Nat /\ z * s + 0 = z * s
        BY SMT
      <4>2. (z * s + 0) \div s = z
        BY PlaceOf
      <4> QED BY <4>1, <4>2
    <3> QED BY <3>1
  <2> QED BY <1>5, <2>1
<1>7. x % 2 = 0 /\ y % 2 = 1
  BY <1>3
<1>8. Pair(p, o) = p + s /\ Pair(p + s, o) = p
  BY <1>1, <1>6, <1>7 DEF Pair
<1>9. /\ PagesOf(<<p, o + 1>>) = p .. p + t - 1
      /\ PagesOf(<<p, o>>) = p .. p + s - 1
      /\ PagesOf(<<p + s, o>>) = p + s .. p + s + s - 1
  BY <1>1 DEF PagesOf
<1>10. /\ PagesOf(<<p, o + 1>>) = PagesOf(<<p, o>>) \cup PagesOf(<<p + s, o>>)
       /\ PagesOf(<<p, o>>) \cap PagesOf(<<p + s, o>>) = {}
  <2>1. \A z : z \in p .. p + t - 1 <=> z \in p .. p + s - 1 \/ z \in p + s .. p + s + s - 1
    BY <1>1
  <2>2. \A z : ~(z \in p .. p + s - 1 /\ z \in p + s .. p + s + s - 1)
    BY <1>1
  <2> HIDE <1>1
  <2> QED BY <1>9, <2>1, <2>2, Zenon
<1>11. Aligned(p, o) /\ Aligned(p + s, o)
  BY <1>1, <1>3, <1>5 DEF Aligned
<1>12. p + s \in Nat /\ p + s # p /\ p + t = (p + s) + s
  BY <1>1
<1> QED BY <1>1, <1>8, <1>10, <1>11, <1>12, Zenon

\* An aligned block that begins among the pages ends among them.
LEMMA Inside ==
    ASSUME NEW p \in Page, NEW o \in Order, Aligned(p, o)
    PROVE  p + 2^o <= NPages
<1>1. MAX_BUDDY_ORDER \in Order /\ o <= MAX_BUDDY_ORDER
  BY BuddyAssumption DEF Order
<1>2. PICK s, t, m \in Nat \ {0} :
        s = 2^o /\ t = 2^MAX_BUDDY_ORDER /\ t = m * s
  BY <1>1, Sizes
<1>3. PICK k \in Nat : p = k * s
  BY <1>2 DEF Aligned
<1>4. PICK n \in Nat : NPages = n * t
  <2>1. NPages \in Nat /\ NPages % t = 0
    BY <1>2, BuddyAssumption
  <2>2. NPages \div t \in Nat /\ NPages = (NPages \div t) * t + (NPages % t)
    BY <2>1, DivMod
  <2>3. PICK q \in Nat : q = NPages \div t /\ NPages = q * t + 0
    BY <2>1, <2>2
  <2>4. q * t \in Nat
    BY SMT
  <2> QED BY <2>3, <2>4
<1>5. PICK u \in Nat : u = n * m
  <2>1. n * m \in Nat
    BY SMT
  <2> QED BY <2>1
<1>6. n * (m * s) = (n * m) * s
  BY SMT
<1>7. NPages = u * s /\ k * s < u * s
  <2>1. p < NPages
    BY BuddyAssumption DEF Page
  <2> QED BY <1>2, <1>3, <1>4, <1>5, <1>6, <2>1
<1>8. k * s + s <= u * s
  BY <1>7, Apart
<1> QED BY <1>2, <1>3, <1>7, <1>8

\* The pair of a block is the other half of the block they are merged into.
LEMMA PairFacts ==
    ASSUME NEW p \in Page, NEW o \in Order, o < MAX_BUDDY_ORDER, Aligned(p, o)
    PROVE  \E low \in Page, q \in Page :
             /\ q = Pair(p, o) /\ q # p /\ Aligned(q, o) /\ Pair(q, o) = p
             /\ low = (IF q < p THEN q ELSE p)
             /\ Aligned(low, o + 1) /\ low + 2^(o + 1) <= NPages
             /\ {p, q} = {low, low + 2^o}
<1>1. PICK s, t \in Nat \ {0} : s = 2^o /\ t = 2^(o + 1) /\ t = 2 * s
  BY Sizes
<1>2. PICK k \in Nat : p = k * s
  BY <1>1 DEF Aligned
<1>3. PICK l \in Nat : k = 2 * l \/ k = 2 * l + 1
  <2>1. k \div 2 \in Nat /\ (k = 2 * (k \div 2) \/ k = 2 * (k \div 2) + 1)
    BY SMT
  <2> QED BY <2>1
<1>4. l * (2 * s) = (2 * l) * s /\ (2 * l + 1) * s = (2 * l) * s + s
  BY SMT
<1>5. PICK low \in Nat : low = l * t
  <2>1. l * t \in Nat
    BY SMT
  <2> QED BY <2>1
<1>6. p = low \/ p = low + s
  BY <1>1, <1>2, <1>3, <1>4, <1>5
<1>7. p \in Nat /\ p < NPages /\ NPages \in Nat
  BY BuddyAssumption DEF Page
<1>8. low \in Page
  BY <1>6, <1>7 DEF Page
<1>9. Aligned(low, o + 1) /\ o + 1 \in Order
  BY <1>1, <1>5, Sizes DEF Aligned
<1>10. low + t <= NPages
  BY <1>1, <1>8, <1>9, Inside
<1>11. low + s \in Page
  BY <1>1, <1>7, <1>10 DEF Page
<1>12. /\ Aligned(low, o) /\ Aligned(low + s, o)
       /\ Pair(low, o) = low + s /\ Pair(low + s, o) = low
  <2>1. /\ Aligned(low, o) /\ Aligned(low + 2^o, o)
        /\ Pair(low, o) = low + 2^o /\ Pair(low + 2^o, o) = low
    BY <1>9, Halves
  <2> QED BY <1>1, <2>1
<1>13. CASE p = low
  <2>1. /\ low + s = Pair(p, o) /\ low + s # p /\ low = IF low + s < p THEN low + s ELSE p
        /\ {p, low + s} = {low, low + s}
    BY <1>12, <1>13
  <2> QED BY <1>1, <1>8, <1>9, <1>10, <1>11, <1>12, <1>13, <2>1
<1>14. CASE p = low + s
  <2>1. /\ low = Pair(p, o) /\ low # p /\ low = IF low < p THEN low ELSE p
        /\ {p, low} = {low, low + s}
    BY <1>12, <1>14
  <2> QED BY <1>1, <1>8, <1>9, <1>10, <1>11, <1>12, <1>14, <2>1
<1> QED BY <1>6, <1>13, <1>14

--------------------------------------------------------------------------------
(* Tilings *)

\* In a tiling, a page of a block that begins another is of no other.
LEMMA SameFirst ==
    ASSUME NEW B, NEW n, Tiling(B, n), NEW b \in B, NEW d \in B, b[1] \in PagesOf(d)
    PROVE  b = d
<1>1. b \in Page \X Order /\ b = <<b[1], b[2]>> /\ b[1] \in Nat /\ b[2] \in Order
  BY DEF Tiling, Fits, Page
<1>2. b[1] \in PagesOf(b)
  BY <1>1, FirstPage
<1> QED BY <1>2 DEF Tiling

\* Blocks may be replaced by others with the same pages.
LEMMA Replace ==
    ASSUME NEW B, NEW n, Tiling(B, n), NEW C \in SUBSET B, NEW D,
           \A d \in D : Fits(d, n),
           \A b, d \in D : b # d => PagesOf(b) \cap PagesOf(d) = {},
           \A x : (\E b \in C : x \in PagesOf(b)) <=> (\E d \in D : x \in PagesOf(d))
    PROVE  Tiling((B \ C) \cup D, n)
<1> DEFINE E == (B \ C) \cup D
<1>1. \A b \in E : Fits(b, n)
  BY DEF Tiling
<1>2. ASSUME NEW b \in B \ C, NEW d \in D  PROVE PagesOf(b) \cap PagesOf(d) = {}
  BY <1>2 DEF Tiling
<1>3. \A b, d \in E : b # d => PagesOf(b) \cap PagesOf(d) = {}
  BY <1>2 DEF Tiling
<1>4. ASSUME NEW x \in 0 .. n - 1  PROVE \E b \in E : x \in PagesOf(b)
  BY DEF Tiling
<1> QED BY <1>1, <1>3, <1>4 DEF Tiling

\* The next page that init_buddy hands over is a block of its own.
LEMMA AddPage ==
    ASSUME NEW B, NEW n \in Page, Tiling(B, n)
    PROVE  Tiling(B \cup {<<n, 0>>}, n + 1)
<1> DEFINE a == <<n, 0>>
<1>1. n \in Nat /\ n < NPages /\ NPages \in Nat /\ 0 \in Order
  BY BuddyAssumption DEF Page, Order
<1>2. a \in Page \X Order /\ 2^0 = 1 /\ PagesOf(a) = {n}
  BY <1>1, PowerLaws DEF PagesOf
<1>3. Aligned(n, 0)
  BY <1>1, PowerLaws DEF Aligned
<1>8. Fits(a, n + 1)
  BY <1>1, <1>2, <1>3 DEF Fits
<1> HIDE DEF a
<1>4. ASSUME NEW b \in B
      PROVE  Fits(b, n + 1) /\ n \notin PagesOf(b)
  <2>1. b \in Page \X Order /\ Aligned(b[1], b[2]) /\ b[1] + 2^b[2] <= n
    BY DEF Tiling, Fits
  <2>2. PICK p \in Nat, s \in Nat : p = b[1] /\ s = 2^b[2]
    BY <2>1, Sizes DEF Page
  <2> QED BY <1>1, <2>1, <2>2 DEF PagesOf, Fits
<1>5. \A b \in B \cup {a} : Fits(b, n + 1)
  BY <1>4, <1>8
<1>6. \A b, d \in B \cup {a} : b # d => PagesOf(b) \cap PagesOf(d) = {}
  BY <1>2, <1>4 DEF Tiling
<1>7. ASSUME NEW x \in 0 .. (n + 1) - 1  PROVE \E b \in B \cup {a} : x \in PagesOf(b)
  <2>1. CASE x = n
    BY <1>2, <2>1
  <2>2. CASE x # n
    <3>1. x \in 0 .. n - 1
      BY <1>1, <2>2
    <3> QED BY <3>1 DEF Tiling
  <2> QED BY <2>1, <2>2
<1> QED BY <1>5, <1>6, <1>7 DEF Tiling, a

\* Putting the halves of a block in its place, or the block in theirs.
LEMMA SplitTiling ==
    ASSUME NEW B, NEW n \in Nat, NEW p \in Page, NEW o \in Order, o < MAX_BUDDY_ORDER,
           Tiling(B, n), <<p, o + 1>> \in B
    PROVE  /\ p + 2^o \in Page /\ Aligned(p, o + 1)
           /\ Tiling((B \ {<<p, o + 1>>}) \cup {<<p, o>>, <<p + 2^o, o>>}, n)
<1> DEFINE a == <<p, o>>
           w == <<p, o + 1>>
<1>2. w \in Page \X Order /\ Aligned(p, o + 1) /\ p + 2^(o + 1) <= n
  BY DEF Tiling, Fits
<1>3. PICK s, t \in Nat \ {0} : s = 2^o /\ t = 2^(o + 1) /\ t = 2 * s
  BY Sizes
<1>4. o + 1 \in Order /\ p + t <= NPages
  BY <1>2, <1>3, Inside
<1>5. p \in Nat /\ p + s \in Page
  BY <1>3, <1>4, BuddyAssumption DEF Page
<1>6. PICK q \in Page : q = p + s
  BY <1>5
<1>7. /\ Aligned(p, o) /\ Aligned(q, o)
      /\ PagesOf(w) = PagesOf(a) \cup PagesOf(<<q, o>>)
      /\ PagesOf(a) \cap PagesOf(<<q, o>>) = {}
  BY <1>2, <1>3, <1>5, <1>6, Halves
<1>8. p + s <= n /\ q + s <= n
  <2>1. p + t = q + s
    BY <1>3, <1>5, <1>6
  <2> QED BY <1>2, <1>3, <1>5, <1>6, <2>1
<1>9. Fits(a, n) /\ Fits(<<q, o>>, n)
  BY <1>3, <1>7, <1>8 DEF Fits
<1>10. Tiling((B \ {w}) \cup {a, <<q, o>>}, n)
  <2> HIDE DEF a, w
  <2>1. \A d \in {a, <<q, o>>} : Fits(d, n)
    BY <1>9
  <2>2. \A d, e \in {a, <<q, o>>} : d # e => PagesOf(d) \cap PagesOf(e) = {}
    BY <1>7
  <2>3. \A x : (\E d \in {w} : x \in PagesOf(d)) <=> (\E d \in {a, <<q, o>>} : x \in PagesOf(d))
    BY <1>7
  <2>4. {w} \in SUBSET B
    BY DEF w
  <2> QED BY <2>1, <2>2, <2>3, <2>4, Replace
<1> QED BY <1>2, <1>3, <1>6, <1>10

LEMMA MergeTiling ==
    ASSUME NEW B, NEW n \in 0 .. NPages, NEW low \in Page, NEW up \in Page,
           NEW o \in Order, o < MAX_BUDDY_ORDER, Aligned(low, o + 1), up = low + 2^o,
           Tiling(B, n), <<low, o>> \in B, <<up, o>> \in B
    PROVE  Tiling((B \ {<<low, o>>, <<up, o>>}) \cup {<<low, o + 1>>}, n)
<1> DEFINE a == <<low, o>>
           b == <<up, o>>
           w == <<low, o + 1>>
<1>1. low \in Nat /\ up \in Nat /\ n \in Nat
  BY BuddyAssumption DEF Page
<1>2. /\ PagesOf(w) = PagesOf(a) \cup PagesOf(b)
      /\ low + 2^(o + 1) = up + 2^o
  BY <1>1, Halves
<1>3. o + 1 \in Order
  BY Sizes
<1>4. up + 2^o <= n
  BY DEF Tiling, Fits
<1>5. Fits(w, n)
  BY <1>2, <1>3, <1>4 DEF Fits
<1> HIDE DEF a, b, w
<1>6. \A x : (\E d \in {a, b} : x \in PagesOf(d)) <=> (\E d \in {w} : x \in PagesOf(d))
  BY <1>2
<1>7. {a, b} \in SUBSET B
  BY DEF a, b
<1>8. /\ \A d \in {w} : Fits(d, n)
      /\ \A d, e \in {w} : d # e => PagesOf(d) \cap PagesOf(e) = {}
  BY <1>5
<1> QED BY <1>6, <1>7, <1>8, Replace DEF a, b, w

--------------------------------------------------------------------------------
(* The free lists *)

FreeOf(fl) == UNION { { <<p, o>> : p \in Range(fl[o]) } : o \in Order }

LEMMA FreeIn ==
    ASSUME NEW fl \in [Order -> Seq(Page)]
    PROVE  /\ \A p, o : <<p, o>> \in FreeOf(fl) <=> o \in Order /\ p \in Range(fl[o])
           /\ \A b \in FreeOf(fl) :
                b \in Page \X Order /\ b = <<b[1], b[2]>> /\ b[1] \in Range(fl[b[2]])
<1>1. \A o \in Order : Range(fl[o]) \subseteq Page
  BY RangeOfSeq
<1>2. ASSUME NEW b \in FreeOf(fl)
      PROVE  b \in Page \X Order /\ b = <<b[1], b[2]>> /\ b[1] \in Range(fl[b[2]])
  <2>1. PICK o \in Order : \E p \in Range(fl[o]) : b = <<p, o>>
    BY DEF FreeOf
  <2>2. PICK p \in Range(fl[o]) : b = <<p, o>>
    BY <2>1
  <2> QED BY <1>1, <2>2
<1>3. ASSUME NEW p, NEW o
      PROVE  <<p, o>> \in FreeOf(fl) <=> o \in Order /\ p \in Range(fl[o])
  <2>1. <<p, o>> \in FreeOf(fl) => o \in Order /\ p \in Range(fl[o])
    BY <1>2
  <2> QED BY <2>1 DEF FreeOf
<1> QED BY <1>2, <1>3

\* A function that grows or shrinks at one place.
LEMMA Counted ==
    ASSUME NEW n \in [Order -> Nat], NEW o \in Order, NEW k \in Nat
    PROVE  /\ [n EXCEPT ![o] = k] \in [Order -> Nat]
           /\ \A i \in Order : [n EXCEPT ![o] = k][i] = IF i = o THEN k ELSE n[i]
  OBVIOUS

\* What linking a block on its list does.
LEMMA Linked ==
    ASSUME TypeOK, Lists, NEW p \in Page, NEW o \in Order, <<p, o>> \notin FreeBlocks,
           list_add(p, o), nr_free' = [nr_free EXCEPT ![o] = @ + 1]
    PROVE  /\ freelist' \in [Order -> Seq(Page)] /\ nr_free' \in [Order -> Nat]
           /\ Lists' /\ FreeBlocks' = FreeBlocks \cup {<<p, o>>}
<1>1. freelist \in [Order -> Seq(Page)] /\ nr_free \in [Order -> Nat]
  BY DEF TypeOK
<1>2. FreeBlocks = FreeOf(freelist) /\ FreeBlocks' = FreeOf(freelist')
  BY DEF FreeBlocks, FreeOf
<1>3. PICK s \in Seq(Page) : s = freelist[o] /\ IsInjective(s) /\ p \notin Range(s)
  BY <1>1, <1>2, FreeIn DEF Lists
<1>4. PICK r : r = <<p>> \o s
  OBVIOUS
<1>5. r \in Seq(Page) /\ IsInjective(r) /\ Range(r) = Range(s) \cup {p}
  BY <1>3, <1>4, ConsRange
<1>6. Len(r) = Len(s) + 1 /\ Len(s) \in Nat
  <2>1. <<p>> \in Seq(Page) /\ Len(<<p>>) = 1
    OBVIOUS
  <2> QED BY <1>3, <1>4, <2>1, ConcatProperties, LenProperties
<1>7. freelist' = [freelist EXCEPT ![o] = r]
  BY <1>3, <1>4 DEF list_add
<1>8. /\ freelist' \in [Order -> Seq(Page)]
      /\ \A i \in Order : freelist'[i] = IF i = o THEN r ELSE freelist[i]
  BY <1>1, <1>5, <1>7
<1>9. /\ nr_free' \in [Order -> Nat]
      /\ \A i \in Order : nr_free'[i] = IF i = o THEN nr_free[o] + 1 ELSE nr_free[i]
  <2>1. nr_free[o] + 1 \in Nat
    BY <1>1
  <2> QED BY <1>1, <2>1, Counted
<1>10. Lists'
  BY <1>3, <1>5, <1>6, <1>8, <1>9 DEF Lists
<1>11. ASSUME NEW b  PROVE b \in FreeOf(freelist') <=> b \in FreeOf(freelist) \cup {<<p, o>>}
  <2>1. /\ \A q, i : <<q, i>> \in FreeOf(freelist) <=> i \in Order /\ q \in Range(freelist[i])
        /\ \A d \in FreeOf(freelist) : d = <<d[1], d[2]>>
    BY <1>1, FreeIn
  <2>2. /\ \A q, i : <<q, i>> \in FreeOf(freelist') <=> i \in Order /\ q \in Range(freelist'[i])
        /\ \A d \in FreeOf(freelist') : d = <<d[1], d[2]>>
    BY <1>8, FreeIn
  <2>3. ASSUME NEW q, NEW i
        PROVE  <<q, i>> \in FreeOf(freelist') <=> <<q, i>> \in FreeOf(freelist) \cup {<<p, o>>}
    BY <1>3, <1>5, <1>8, <2>1, <2>2
  <2>4. CASE b \in FreeOf(freelist') \/ b \in FreeOf(freelist) \cup {<<p, o>>}
    <3>1. b = <<b[1], b[2]>>
      BY <2>1, <2>2, <2>4
    <3> QED BY <2>3, <3>1
  <2> QED BY <2>4
<1> QED BY <1>2, <1>8, <1>9, <1>10, <1>11

\* What taking a block off its list does.
LEMMA Unlinked ==
    ASSUME TypeOK, Lists, NEW p \in Page, NEW o \in Order, <<p, o>> \in FreeBlocks,
           \A i \in Order : <<p, i>> \in FreeBlocks => i = o,
           list_del_init(p), nr_free' = [nr_free EXCEPT ![o] = @ - 1]
    PROVE  /\ freelist' \in [Order -> Seq(Page)] /\ nr_free' \in [Order -> Nat]
           /\ Lists' /\ FreeBlocks' = FreeBlocks \ {<<p, o>>}
<1>1. freelist \in [Order -> Seq(Page)] /\ nr_free \in [Order -> Nat]
  BY DEF TypeOK
<1>2. FreeBlocks = FreeOf(freelist) /\ FreeBlocks' = FreeOf(freelist')
  BY DEF FreeBlocks, FreeOf
<1>3. \A q, i : <<q, i>> \in FreeOf(freelist) <=> i \in Order /\ q \in Range(freelist[i])
  BY <1>1, FreeIn
<1>4. PICK s \in Seq(Page) : s = freelist[o] /\ IsInjective(s) /\ p \in Range(s)
  BY <1>1, <1>2, <1>3 DEF Lists
<1>5. PICK r : r = Without(s, p)
  OBVIOUS
<1>6. r \in Seq(Page) /\ IsInjective(r) /\ Range(r) = Range(s) \ {p}
      /\ Len(r) = Len(s) - 1 /\ Len(s) \in Nat /\ Len(r) \in Nat
  <2>1. \E i \in DOMAIN s : s[i] = p
    BY <1>4 DEF Range
  <2>2. PICK k : k = CHOOSE i \in DOMAIN s : s[i] = p
    OBVIOUS
  <2>3. k \in DOMAIN s /\ s[k] = p
    BY <2>1, <2>2
  <2>4. k \in 1 .. Len(s)
    BY <1>4, <2>3, LenProperties
  <2>5. r = RemoveAt(s, k)
    BY <1>4, <1>5, <2>2 DEF Without
  <2>6. r \in Seq(Page) /\ IsInjective(r) /\ Range(r) = Range(s) \ {s[k]}
    BY <1>4, <2>4, <2>5, RemoveAtRange
  <2>7. Len(r) = Len(s) - 1
    BY <1>4, <2>4, <2>5, RemoveAtElements
  <2> QED BY <1>4, <2>3, <2>6, <2>7, LenProperties
<1>7. ASSUME NEW i \in Order, i # o  PROVE freelist[i] = Without(freelist[i], p)
  <2>1. p \notin Range(freelist[i])
    BY <1>2, <1>3, <1>7
  <2> QED BY <2>1 DEF Without
<1>8. /\ freelist' \in [Order -> Seq(Page)]
      /\ \A i \in Order : freelist'[i] = IF i = o THEN r ELSE freelist[i]
  <2>1. freelist' = [i \in Order |-> IF i = o THEN r ELSE freelist[i]]
    BY <1>4, <1>5, <1>7 DEF list_del_init
  <2> QED BY <1>1, <1>6, <2>1
<1>9. /\ nr_free' \in [Order -> Nat]
      /\ \A i \in Order : nr_free'[i] = IF i = o THEN nr_free[o] - 1 ELSE nr_free[i]
  <2>1. nr_free[o] - 1 \in Nat
    <3>1. nr_free[o] = Len(s)
      BY <1>4 DEF Lists
    <3> QED BY <1>6, <3>1
  <2> QED BY <1>1, <2>1, Counted
<1>10. Lists'
  BY <1>4, <1>6, <1>8, <1>9 DEF Lists
<1>11. ASSUME NEW b  PROVE b \in FreeOf(freelist') <=> b \in FreeOf(freelist) \ {<<p, o>>}
  <2>1. \A d \in FreeOf(freelist) : d = <<d[1], d[2]>>
    BY <1>1, FreeIn
  <2>2. /\ \A q, i : <<q, i>> \in FreeOf(freelist') <=> i \in Order /\ q \in Range(freelist'[i])
        /\ \A d \in FreeOf(freelist') : d = <<d[1], d[2]>>
    BY <1>8, FreeIn
  <2>3. ASSUME NEW q, NEW i
        PROVE  <<q, i>> \in FreeOf(freelist') <=> <<q, i>> \in FreeOf(freelist) \ {<<p, o>>}
    BY <1>3, <1>4, <1>6, <1>8, <2>2
  <2>4. CASE b \in FreeOf(freelist') \/ b \in FreeOf(freelist)
    <3>1. b = <<b[1], b[2]>>
      BY <2>1, <2>2, <2>4
    <3> QED BY <2>3, <3>1
  <2> QED BY <2>4
<1> QED BY <1>2, <1>8, <1>9, <1>10, <1>11

--------------------------------------------------------------------------------
(* A single caller *)

At == {"idle", "merge", "take", "unlink", "split"}

\* Only c is in a call, before or after this step.
Alone(c) == \A d \in Caller : d # c => loc[d].at = "idle" /\ loc'[d] = loc[d]

\* Then only c can hold a block.
LEMMA Mine ==
    ASSUME NEW c \in Caller, Alone(c)
    PROVE  /\ InHand = (IF loc[c].at \in {"merge", "split"}
                        THEN {<<loc[c].page, loc[c].order>>} ELSE {})
           /\ InHand' = (IF loc'[c].at \in {"merge", "split"}
                         THEN {<<loc'[c].page, loc'[c].order>>} ELSE {})
<1>1. /\ \A d \in Caller : loc[d].at \in {"merge", "split"} => d = c
      /\ \A d \in Caller : loc'[d].at \in {"merge", "split"} => d = c
  BY DEF Alone
<1> QED BY <1>1 DEF InHand

\* And only its locals need to be worth anything.
LEMMA OnlyMine ==
    ASSUME NEW c \in Caller, Alone(c), Local(c)'
    PROVE  \A d \in Caller : Local(d)'
<1>1. \A d \in Caller : d # c => loc'[d].at = "idle"
  BY DEF Alone
<1> QED BY <1>1 DEF Local

\* Setting the locals of a caller.
LEMMA Locals ==
    ASSUME TypeOK, NEW c \in Caller, NEW l,
           l \in [at : At, page : Page, order : Order, level : Order],
           loc' = [loc EXCEPT ![c] = l]
    PROVE  /\ loc' \in [Caller -> [at : At, page : Page, order : Order, level : Order]]
           /\ loc'[c] = l
  BY DEF TypeOK, At

\* No two blocks begin at the same page.
LEMMA Distinct ==
    ASSUME IInv, NEW p \in Page, NEW o \in Order, NEW i \in Order,
           <<p, o>> \in Blocks, <<p, i>> \in Blocks
    PROVE  o = i
<1>1. p \in PagesOf(<<p, i>>)
  BY FirstPage DEF Page
<1> QED BY <1>1, SameFirst DEF IInv

\* What the block in a caller's hand is.
LEMMA Held ==
    ASSUME IInv, NEW c \in Caller, Alone(c), loc[c].at \in {"merge", "split"}
    PROVE  \E p \in Page, o \in Order :
             /\ p = loc[c].page /\ o = loc[c].order /\ InHand = {<<p, o>>}
             /\ <<p, o>> \in Blocks /\ Aligned(p, o) /\ p < boot
             /\ <<p, o>> \notin FreeBlocks /\ <<p, o>> \notin Lent
<1>1. PICK p \in Page, o \in Order : p = loc[c].page /\ o = loc[c].order
  BY DEF IInv, TypeOK
<1>2. InHand = {<<p, o>>}
  BY <1>1, Mine
<1>3. <<p, o>> \in Blocks
  BY <1>2 DEF Blocks
<1>4. Aligned(p, o) /\ p + 2^o <= boot
  BY <1>3 DEF IInv, Tiling, Fits
<1>5. p < boot
  <2>1. PICK s \in Nat \ {0} : s = 2^o
    BY Sizes
  <2>2. boot \in Nat /\ p \in Nat
    BY DEF IInv, TypeOK, Page
  <2> QED BY <1>4, <2>1, <2>2
<1> QED BY <1>1, <1>2, <1>3, <1>4, <1>5 DEF IInv, Marks

LEMMA InitInv ==
    ASSUME Init
    PROVE  IInv
<1>1. NPages \in Nat \ {0} /\ 0 \in Page /\ 0 \in Order /\ MAX_BUDDY_ORDER \in Nat
  BY BuddyAssumption DEF Page, Order
<1>2. FreeBlocks = {} /\ Lent = {} /\ InHand = {} /\ Blocks = {}
  BY DEF Init, Idle, FreeBlocks, Lent, InHand, Blocks, Range
<1>3. TypeOK
  <2>1. Idle \in [at : At, page : Page, order : Order, level : Order]
    BY <1>1 DEF Idle, At
  <2>2. loc \in [Caller -> [at : At, page : Page, order : Order, level : Order]]
    BY <2>1 DEF Init
  <2>3. /\ flag \in [Page -> Flags] /\ bplevel \in [Page -> {-1} \cup Order]
        /\ nr_free \in [Order -> Nat] /\ owned \in [Caller -> SUBSET (Page \X Order)]
    BY <1>1 DEF Init, Flags
  <2>4. freelist \in [Order -> Seq(Page)]
    BY DEF Init
  <2>5. boot \in 0 .. NPages /\ spin \in {0, 1} /\ fault \in BOOLEAN
    BY <1>1 DEF Init
  <2> QED BY <2>2, <2>3, <2>4, <2>5 DEF TypeOK, At
<1>4. Tiling(Blocks, boot)
  BY <1>2 DEF Init, Tiling
<1>5. Lists
  BY DEF Init, Lists, IsInjective
<1>6. Marks /\ NoPairs
  BY <1>1, <1>2 DEF Init, Marks, NoPairs, Page
<1>7. Control
  BY <1>2 DEF Init, Idle, Control, Local
<1>8. Owners
  BY DEF Init, Owners
<1> QED BY <1>3, <1>4, <1>5, <1>6, <1>7, <1>8 DEF IInv

--------------------------------------------------------------------------------
(* The steps *)

LEMMA BootFreeInv ==
    ASSUME IInv, NEW c \in Caller, Alone(c), BootFree(c)
    PROVE  IInv'
<1>1. PICK n \in Page : n = boot /\ boot' = n + 1 /\ n + 1 \in 0 .. NPages
  BY BuddyAssumption DEF IInv, TypeOK, BootFree, Page
<1>2. 0 \in Order /\ n \in n .. NPages - 1 /\ n \in Nat /\ NPages \in Nat
  BY <1>1, BuddyAssumption DEF Page, Order
<1>3. PICK l : l = [at |-> "merge", page |-> n, order |-> 0, level |-> 0]
  OBVIOUS
<1>4. /\ l \in [at : At, page : Page, order : Order, level : Order]
      /\ loc' = [loc EXCEPT ![c] = l]
  BY <1>1, <1>2, <1>3 DEF At, BootFree, Enter
<1>5. loc' \in [Caller -> [at : At, page : Page, order : Order, level : Order]] /\ loc'[c] = l
  BY <1>4, Locals DEF IInv
<1>6. InHand = {} /\ InHand' = {<<n, 0>>}
  BY <1>3, <1>5, Mine DEF BootFree
<1>7. FreeBlocks' = FreeBlocks /\ Lent' = Lent
  BY DEF FreeBlocks, Lent, BootFree
<1>8. <<n, 0>> \notin FreeBlocks \cup Lent
  BY <1>1, <1>2 DEF IInv, Marks
<1>9. TypeOK'
  BY <1>1, <1>5 DEF IInv, TypeOK, At, BootFree, Enter, lockup
<1>10. Tiling(Blocks', boot')
  <2>1. Blocks' = Blocks \cup {<<n, 0>>}
    BY <1>6, <1>7 DEF Blocks
  <2> QED BY <1>1, <2>1, AddPage DEF IInv
<1>11. Lists' /\ NoPairs'
  BY <1>7 DEF IInv, Lists, NoPairs, BootFree
<1>12. Marks'
  <2>1. n + 1 .. NPages - 1 \subseteq n .. NPages - 1
    BY <1>2
  <2> QED BY <1>1, <1>6, <1>7, <1>8, <2>1 DEF IInv, Marks, BootFree
<1>13. Control'
  <2>1. Local(c)'
    BY <1>3, <1>5 DEF Local
  <2> QED BY <2>1, OnlyMine DEF IInv, Control, BootFree
<1>14. Owners'
  BY DEF IInv, Owners, BootFree
<1> QED BY <1>9, <1>10, <1>11, <1>12, <1>13, <1>14 DEF IInv

LEMMA FreeInv ==
    ASSUME IInv, NEW c \in Caller, Alone(c), NEW b \in owned[c], Free(c, b)
    PROVE  IInv'
<1>1. b \in Page \X Order /\ b = <<b[1], b[2]>> /\ b \in Lent
  BY DEF IInv, TypeOK, Lent
<1>2. PICK p \in Page, o \in Order : b = <<p, o>> /\ p = b[1] /\ o = b[2]
  BY <1>1
<1>3. flag[p] = "ALLOCED" /\ bplevel[p] = o
  BY <1>1, <1>2 DEF IInv, Marks
<1>4. PICK l : l = [at |-> "merge", page |-> p, order |-> o, level |-> 0]
  OBVIOUS
<1>5. /\ l \in [at : At, page : Page, order : Order, level : Order]
      /\ loc' = [loc EXCEPT ![c] = l]
  <2>1. l \in [at : At, page : Page, order : Order, level : Order]
    BY <1>4, BuddyAssumption DEF At, Order
  <2>2. loc' = [loc EXCEPT ![c] = [at |-> "merge", page |-> p, order |-> o, level |-> 0]]
    BY <1>2, <1>3 DEF Free, Enter
  <2> QED BY <1>4, <2>1, <2>2
<1>6. loc' \in [Caller -> [at : At, page : Page, order : Order, level : Order]] /\ loc'[c] = l
  BY <1>5, Locals DEF IInv
<1>7. InHand = {} /\ InHand' = {b}
  BY <1>2, <1>4, <1>6, Mine DEF Free, Running
<1>8. FreeBlocks' = FreeBlocks /\ Lent' = Lent \ {b} /\ Owners'
  <2>1. \A d \in Caller : owned'[d] = IF d = c THEN owned[c] \ {b} ELSE owned[d]
    BY DEF Free, IInv, TypeOK
  <2>2. \A d \in Caller : d # c => b \notin owned[d]
    BY DEF IInv, Owners
  <2> QED BY <2>1, <2>2 DEF FreeBlocks, Free, Lent, IInv, Owners
<1>9. b \notin FreeBlocks
  BY <1>2, <1>3 DEF IInv, Marks
<1>10. TypeOK'
  BY <1>6 DEF IInv, TypeOK, At, Free, Enter, lockup
<1>11. Tiling(Blocks', boot')
  <2>1. Blocks' = Blocks
    BY <1>1, <1>7, <1>8 DEF Blocks
  <2> QED BY <2>1 DEF IInv, Free
<1>12. Lists' /\ NoPairs'
  BY <1>8 DEF IInv, Lists, NoPairs, Free
<1>13. Marks'
  BY <1>7, <1>8, <1>9 DEF IInv, Marks, Free
<1>14. Control'
  <2>1. Local(c)'
    BY <1>4, <1>6 DEF Local
  <2> QED BY <2>1, OnlyMine DEF IInv, Control, Free
<1> QED BY <1>8, <1>10, <1>11, <1>12, <1>13, <1>14 DEF IInv

\* The test that __free_pages makes of the pair's first page is right: the pair is a free
\* block of that order, and not pages of another block with marks left from before.
LEMMA MergeableIsFree ==
    ASSUME IInv, NEW c \in Caller, Alone(c), loc[c].at = "merge",
           NEW p \in Page, NEW o \in Order, p = loc[c].page, o = loc[c].order,
           Mergeable(p, o)
    PROVE  <<Pair(p, o), o>> \in FreeBlocks
<1>1. <<p, o>> \in Blocks /\ Aligned(p, o) /\ InHand = {<<p, o>>}
  BY Held
<1>2. o < MAX_BUDDY_ORDER
  BY DEF Mergeable
<1>3. PICK low \in Page, q \in Page :
        /\ q = Pair(p, o) /\ q # p /\ Aligned(q, o)
        /\ Aligned(low, o + 1)
        /\ {p, q} = {low, low + 2^o}
  BY <1>1, <1>2, PairFacts
<1>4. flag[q] = "FREE" /\ bplevel[q] = o
  BY <1>3 DEF Mergeable
<1>5. /\ p \in Nat /\ q \in Nat /\ low \in Nat /\ NPages \in Nat
      /\ o \in Nat /\ o + 1 \in Order
  BY <1>2, BuddyAssumption, Sizes DEF Page, Order
<1>6. q \in 0 .. boot - 1
  <2>1. q \notin boot .. NPages - 1
    BY <1>4 DEF IInv, Marks
  <2> QED BY <1>5, <2>1, BuddyAssumption DEF IInv, TypeOK, Page
<1>7. PICK b \in Blocks : q \in PagesOf(b)
  BY <1>6 DEF IInv, Tiling
<1>8. b \in Page \X Order /\ Aligned(b[1], b[2])
  BY DEF IInv, Tiling, Fits
<1>9. PICK r \in Page, j \in Order : b = <<r, j>> /\ r = b[1] /\ j = b[2]
  BY <1>8
<1>10. r \in Nat /\ j \in Nat
  BY <1>9 DEF Page, Order
<1>11. p \in PagesOf(<<low, o + 1>>) /\ q \in PagesOf(<<low, o + 1>>)
  <2>1. PagesOf(<<low, o + 1>>) = PagesOf(<<low, o>>) \cup PagesOf(<<low + 2^o, o>>)
    BY <1>2, <1>3, <1>5, Halves
  <2>2. low \in PagesOf(<<low, o>>) /\ low + 2^o \in PagesOf(<<low + 2^o, o>>)
    BY <1>2, <1>3, <1>5, FirstPage, Halves
  <2> QED BY <1>3, <2>1, <2>2
<1>12. ~(o < j)
  <2>1. SUFFICES ASSUME o < j PROVE FALSE
    OBVIOUS
  <2>2. o + 1 <= j
    BY <1>5, <1>10, <2>1
  <2>3. PagesOf(<<low, o + 1>>) \subseteq PagesOf(<<r, j>>)
    BY <1>3, <1>5, <1>7, <1>8, <1>9, <1>10, <1>11, <2>2, Nested
  <2>4. p \in PagesOf(b)
    BY <1>9, <1>11, <2>3
  <2>5. <<p, o>> = b
    BY <1>1, <2>4, SameFirst DEF IInv
  <2> QED BY <1>9, <1>10, <1>5, <2>1, <2>5
<1>13. r = q
  <2>1. q \in PagesOf(<<q, o>>)
    BY <1>5, FirstPage
  <2>2. q <= r
    <3>1. j <= o /\ Aligned(r, j) /\ Aligned(q, o) /\ q \in PagesOf(<<r, j>>)
      BY <1>3, <1>5, <1>7, <1>8, <1>9, <1>10, <1>12
    <3>2. r \in Nat /\ q \in Nat
      BY <1>5, <1>10
    <3> QED BY ONLY j \in Order, o \in Order, <2>1, <3>1, <3>2, Nested
  <2>3. r <= q
    BY <1>5, <1>7, <1>9, <1>10 DEF PagesOf
  <2> QED BY <1>5, <1>10, <2>2, <2>3
<1>14. b \notin InHand /\ b \notin Lent
  BY <1>1, <1>3, <1>4, <1>9, <1>13 DEF IInv, Marks
<1>15. b \in FreeBlocks /\ j = o
  BY <1>4, <1>9, <1>13, <1>14 DEF Blocks, IInv, Marks
<1> QED BY <1>3, <1>9, <1>13, <1>15

LEMMA MergeInv ==
    ASSUME IInv, NEW c \in Caller, Alone(c), Merge(c)
    PROVE  IInv'
<1>1. PICK p \in Page, o \in Order :
        /\ p = loc[c].page /\ o = loc[c].order /\ InHand = {<<p, o>>}
        /\ <<p, o>> \in Blocks /\ Aligned(p, o) /\ p < boot
        /\ <<p, o>> \notin FreeBlocks /\ <<p, o>> \notin Lent
  BY Held DEF Merge
<1>2. loc[c].at = "merge" /\ Mergeable(p, o) /\ o < MAX_BUDDY_ORDER
  BY <1>1 DEF Merge, Mergeable
<1>3. PICK low \in Page, q \in Page :
        /\ q = Pair(p, o) /\ q # p /\ Aligned(q, o)
        /\ low = (IF q < p THEN q ELSE p)
        /\ Aligned(low, o + 1)
        /\ {p, q} = {low, low + 2^o}
  <2>1. o < MAX_BUDDY_ORDER /\ Aligned(p, o)
    BY <1>1, <1>2
  <2> QED BY ONLY <2>1, p \in Page, o \in Order, PairFacts
<1>4. <<q, o>> \in FreeBlocks
  BY <1>1, <1>2, <1>3, MergeableIsFree
<1>5. /\ list_del_init(q) /\ nr_free' = [nr_free EXCEPT ![o] = @ - 1]
      /\ bplevel' = [bplevel EXCEPT ![low] = -1]
      /\ loc' = [loc EXCEPT ![c].page = low, ![c].order = o + 1]
      /\ UNCHANGED <<flag, spin, owned, boot, fault>>
  BY <1>1, <1>3 DEF Merge
<1>6. \A b, d \in Blocks : b[1] = d[1] => b = d
  <2>1. ASSUME NEW b \in Blocks, NEW d \in Blocks, b[1] = d[1]  PROVE b = d
    <3>1. d \in Page \X Order /\ d = <<d[1], d[2]>> /\ d[1] \in Nat
      BY DEF IInv, Tiling, Fits, Page
    <3>2. b[1] \in PagesOf(d)
      BY <2>1, <3>1, FirstPage
    <3> QED BY <3>2, SameFirst DEF IInv
  <2> QED BY <2>1
<1>7. /\ freelist' \in [Order -> Seq(Page)] /\ nr_free' \in [Order -> Nat]
      /\ Lists' /\ FreeBlocks' = FreeBlocks \ {<<q, o>>}
  <2>1. \A i \in Order : <<q, i>> \in FreeBlocks => i = o
    BY <1>4, <1>6 DEF Blocks
  <2> QED BY <1>4, <1>5, <2>1, Unlinked DEF IInv
<1>8. /\ loc' \in [Caller -> [at : At, page : Page, order : Order, level : Order]]
      /\ loc'[c].at = "merge" /\ loc'[c].page = low /\ loc'[c].order = o + 1
  <2>1. o + 1 \in Order
    BY <1>2, Sizes
  <2>2. loc \in [Caller -> [at : At, page : Page, order : Order, level : Order]]
    BY DEF IInv, TypeOK, At
  <2> QED BY ONLY <1>2, <1>5, <2>1, <2>2, low \in Page, c \in Caller
<1>9. InHand' = {<<low, o + 1>>} /\ Lent' = Lent
  BY <1>5, <1>8, Mine DEF Lent
<1>10. Blocks' = (Blocks \ {<<p, o>>, <<q, o>>}) \cup {<<low, o + 1>>}
  <2>1. <<q, o>> \notin Lent \cup InHand
    BY <1>4 DEF IInv, Marks
  <2> QED BY <1>1, <1>4, <1>7, <1>9, <2>1 DEF Blocks
<1>11. TypeOK'
  BY <1>5, <1>7, <1>8 DEF IInv, TypeOK, At
<1>12. Tiling(Blocks', boot')
  <2>1. PICK up \in Page : up = low + 2^o /\ {p, q} = {low, up}
    BY <1>3
  <2>2. <<low, o>> \in Blocks /\ <<up, o>> \in Blocks
    BY <1>1, <1>4, <2>1 DEF Blocks
  <2>3. Blocks' = (Blocks \ {<<low, o>>, <<up, o>>}) \cup {<<low, o + 1>>}
    BY <1>10, <2>1
  <2>4. boot \in 0 .. NPages /\ boot' = boot /\ Tiling(Blocks, boot)
    BY <1>5 DEF IInv, TypeOK
  <2> QED BY <1>2, <1>3, <2>1, <2>2, <2>3, <2>4, MergeTiling
<1>13. <<low, o + 1>> \notin FreeBlocks \cup Lent
  <2>1. o + 1 # o /\ (<<low, o>> \in Blocks) /\ o + 1 \in Order
    BY <1>1, <1>2, <1>3, <1>4, Sizes DEF Blocks, Order
  <2> QED BY <2>1, Distinct DEF Blocks
<1>14. \A b \in FreeBlocks \ {<<q, o>>} : b[1] # p /\ b[1] # q
  BY <1>1, <1>4, <1>6 DEF Blocks
<1>15. \A b \in Lent : b[1] # p /\ b[1] # q
  <2>1. <<q, o>> \notin Lent
    BY <1>4 DEF IInv, Marks
  <2> QED BY <1>1, <1>4, <1>6, <2>1 DEF Blocks
<1>16. Marks'
  <2>1. \A b \in Blocks : b[1] \in Page
    BY DEF IInv, Tiling, Fits
  <2>2. \A b \in FreeBlocks' \cup Lent' : b[1] # low /\ b \in Blocks
    BY <1>3, <1>7, <1>9, <1>14, <1>15 DEF Blocks
  <2>3. \A b \in FreeBlocks' \cup Lent' : bplevel'[b[1]] = bplevel[b[1]]
    BY <1>5, <2>1, <2>2 DEF IInv, TypeOK
  <2> QED BY <1>5, <1>7, <1>9, <1>13, <2>3 DEF IInv, Marks
<1>17. NoPairs'
  BY <1>7 DEF IInv, NoPairs
<1>18. Control'
  BY <1>5, <1>8, OnlyMine DEF IInv, Control, Local
<1>19. Owners'
  BY DEF IInv, Owners, Merge
<1> QED BY <1>7, <1>11, <1>12, <1>16, <1>17, <1>18, <1>19 DEF IInv

LEMMA FreeDoneInv ==
    ASSUME IInv, NEW c \in Caller, Alone(c), FreeDone(c)
    PROVE  IInv'
<1>1. PICK p \in Page, o \in Order :
        /\ p = loc[c].page /\ o = loc[c].order /\ InHand = {<<p, o>>}
        /\ <<p, o>> \in Blocks /\ Aligned(p, o) /\ p < boot
        /\ <<p, o>> \notin FreeBlocks /\ <<p, o>> \notin Lent
  BY Held DEF FreeDone
<1>2. /\ ~Mergeable(p, o)
      /\ bplevel' = [bplevel EXCEPT ![p] = o] /\ flag' = [flag EXCEPT ![p] = "FREE"]
      /\ list_add(p, o) /\ nr_free' = [nr_free EXCEPT ![o] = @ + 1]
      /\ spin' = 0 /\ loc' = [loc EXCEPT ![c] = Idle]
      /\ UNCHANGED <<owned, boot, fault>>
  BY <1>1 DEF FreeDone, unlock
<1>3. /\ freelist' \in [Order -> Seq(Page)] /\ nr_free' \in [Order -> Nat]
      /\ Lists' /\ FreeBlocks' = FreeBlocks \cup {<<p, o>>}
  BY <1>1, <1>2, Linked DEF IInv
<1>4. 0 \in Page /\ 0 \in Order
  BY BuddyAssumption DEF Page, Order
<1>5. /\ loc' \in [Caller -> [at : At, page : Page, order : Order, level : Order]]
      /\ loc'[c] = Idle
  <2>1. Idle \in [at : At, page : Page, order : Order, level : Order]
    BY <1>4 DEF Idle, At
  <2> QED BY <1>2, <2>1, Locals DEF IInv
<1>6. InHand' = {} /\ Lent' = Lent
  BY <1>2, <1>5, Mine DEF Lent, Idle
<1>7. TypeOK'
  BY <1>2, <1>3, <1>5 DEF IInv, TypeOK, At, Flags
<1>8. Tiling(Blocks', boot')
  <2>1. Blocks' = Blocks
    BY <1>1, <1>3, <1>6 DEF Blocks
  <2> QED BY <1>2, <2>1 DEF IInv
<1>9. \A b \in FreeBlocks \cup Lent : b[1] \in Page /\ b[1] # p
  <2>1. ASSUME NEW b \in FreeBlocks \cup Lent  PROVE b[1] \in Page /\ b[1] # p
    <3>1. b \in Page \X Order /\ b = <<b[1], b[2]>> /\ b \in Blocks
      BY DEF IInv, Tiling, Fits, Blocks
    <3> QED BY <1>1, <3>1, Distinct
  <2> QED BY <2>1
<1>10. Marks'
  <2>1. \A b \in FreeBlocks \cup Lent : flag'[b[1]] = flag[b[1]] /\ bplevel'[b[1]] = bplevel[b[1]]
    BY <1>2, <1>9 DEF IInv, TypeOK
  <2>2. flag'[p] = "FREE" /\ bplevel'[p] = o
    BY <1>2 DEF IInv, TypeOK
  <2>3. \A n \in boot' .. NPages - 1 : flag'[n] = "RESERVED"
    <3>1. \A n \in boot .. NPages - 1 : n \in Page /\ n # p /\ flag[n] = "RESERVED"
      BY <1>1, BuddyAssumption DEF IInv, TypeOK, Marks, Page
    <3> QED BY <1>2, <3>1 DEF IInv, TypeOK
  <2>4. \A b \in FreeBlocks' : flag'[b[1]] = "FREE" /\ bplevel'[b[1]] = b[2]
    <3>1. ASSUME NEW b \in FreeBlocks'  PROVE flag'[b[1]] = "FREE" /\ bplevel'[b[1]] = b[2]
      <4>1. b \in FreeBlocks \/ b = <<p, o>>
        BY <1>3
      <4> QED BY <2>1, <2>2, <4>1 DEF IInv, Marks
    <3> QED BY <3>1
  <2>5. \A b \in Lent' : flag'[b[1]] = "ALLOCED" /\ bplevel'[b[1]] = b[2]
    BY <1>6, <2>1 DEF IInv, Marks
  <2> QED BY <1>6, <2>3, <2>4, <2>5 DEF Marks
<1>11. NoPairs'
  <2>1. SUFFICES ASSUME NEW b \in FreeBlocks', b[2] < MAX_BUDDY_ORDER,
                        <<Pair(b[1], b[2]), b[2]>> \in FreeBlocks'
                 PROVE  FALSE
    BY DEF NoPairs
  <2>2. PICK r \in Page, i \in Order : b = <<r, i>> /\ r = b[1] /\ i = b[2] /\ Aligned(r, i)
    <3>1. b \in Page \X Order /\ Aligned(b[1], b[2])
      BY <1>8 DEF Tiling, Fits, Blocks
    <3> QED BY <3>1
  <2>3. Pair(r, i) # r /\ Pair(Pair(r, i), i) = r
    BY <2>1, <2>2, PairFacts
  <2>4. \A d \in FreeBlocks : flag[d[1]] = "FREE" /\ bplevel[d[1]] = d[2]
    BY DEF IInv, Marks
  <2>5. CASE b = <<p, o>>
    <3>0. r = p /\ i = o
      BY <2>2, <2>5
    <3>1. <<Pair(p, o), o>> \in FreeBlocks
      BY <1>3, <2>1, <2>2, <2>3, <3>0
    <3> QED BY <1>2, <2>1, <2>2, <2>4, <2>5, <3>1 DEF Mergeable
  <2>6. CASE <<Pair(r, i), i>> = <<p, o>>
    <3>1. b \in FreeBlocks /\ r = Pair(p, o) /\ i = o
      BY <1>3, <2>2, <2>3, <2>6
    <3> QED BY <1>2, <2>1, <2>2, <2>4, <3>1 DEF Mergeable
  <2>7. CASE b # <<p, o>> /\ <<Pair(r, i), i>> # <<p, o>>
    BY <1>3, <2>1, <2>2, <2>7 DEF IInv, NoPairs
  <2> QED BY <2>5, <2>6, <2>7
<1>12. Control'
  BY <1>2, <1>5, OnlyMine DEF IInv, Control, Local, Idle
<1>13. Owners'
  BY DEF IInv, Owners, FreeDone
<1> QED BY <1>3, <1>7, <1>8, <1>10, <1>11, <1>12, <1>13 DEF IInv

\* The scan of the lists finds an order, unless all are empty.
LEMMA Scan ==
    ASSUME TypeOK, NEW lv \in Order, ~Exhausted(lv)
    PROVE  Found(lv) \in Order /\ lv <= Found(lv) /\ freelist[Found(lv)] # <<>>
<1> DEFINE T == {o \in lv .. MAX_BUDDY_ORDER : freelist[o] # <<>>}
           Fit(o) == freelist[o] # <<>> /\ \A i \in lv .. o - 1 : freelist[i] = <<>>
<1>1. lv \in Nat /\ MAX_BUDDY_ORDER \in Nat
  BY BuddyAssumption DEF Order
<1>2. T \in SUBSET Nat /\ T # {}
  BY <1>1 DEF Exhausted
<1>3. PICK o \in T : \A x \in T : o <= x
  BY <1>2, LeastNat
<1>4. ASSUME NEW i \in lv .. o - 1  PROVE freelist[i] = <<>>
  <2>1. i \in lv .. MAX_BUDDY_ORDER /\ ~(o <= i)
    BY <1>1, <1>3
  <2> QED BY <1>3, <2>1
<1>5. \E x \in lv .. MAX_BUDDY_ORDER : Fit(x)
  BY <1>3, <1>4
<1>6. Found(lv) = CHOOSE x \in lv .. MAX_BUDDY_ORDER : Fit(x)
  BY DEF Found
<1> HIDE DEF Fit
<1>7. Found(lv) \in lv .. MAX_BUDDY_ORDER /\ Fit(Found(lv))
  BY <1>5, <1>6
<1>8. PICK x \in lv .. MAX_BUDDY_ORDER : x = Found(lv)
  BY <1>7
<1> QED BY <1>1, <1>7, <1>8 DEF Fit, Order

\* Steps that change no mark, no list and no loan.
LEMMA SameBlocks ==
    ASSUME IInv, UNCHANGED <<flag, bplevel, freelist, nr_free, owned, boot, fault>>,
           InHand' = InHand,
           loc' \in [Caller -> [at : At, page : Page, order : Order, level : Order]],
           spin' \in {0, 1},
           \A c \in Caller : Local(c)'
    PROVE  IInv'
<1>1. FreeBlocks' = FreeBlocks /\ Lent' = Lent /\ Blocks' = Blocks
  BY DEF FreeBlocks, Lent, Blocks
<1>2. TypeOK'
  BY DEF IInv, TypeOK, At
<1>3. Tiling(Blocks', boot')
  BY <1>1 DEF IInv
<1>4. Lists' /\ Marks' /\ NoPairs'
  BY <1>1 DEF IInv, Lists, Marks, NoPairs
<1>5. Control'
  BY DEF IInv, Control
<1>6. Owners'
  BY DEF IInv, Owners
<1> QED BY <1>2, <1>3, <1>4, <1>5, <1>6 DEF IInv

LEMMA AllocInv ==
    ASSUME IInv, NEW c \in Caller, Alone(c), NEW lv \in Order, Alloc(c, lv)
    PROVE  IInv'
<1>1. PICK o \in Order : o = Found(lv) /\ lv <= o /\ freelist[o] # <<>>
  BY Scan DEF IInv, Alloc
<1>2. PICK l : l = [at |-> "take", page |-> 0, order |-> o, level |-> lv]
  OBVIOUS
<1>3. /\ l \in [at : At, page : Page, order : Order, level : Order]
      /\ loc' = [loc EXCEPT ![c] = l]
  <2>1. 0 \in Page
    BY BuddyAssumption DEF Page
  <2> QED BY <1>1, <1>2, <2>1 DEF At, Alloc
<1>4. loc' \in [Caller -> [at : At, page : Page, order : Order, level : Order]] /\ loc'[c] = l
  BY <1>3, Locals DEF IInv
<1>5. InHand' = InHand
  BY <1>2, <1>4, Mine DEF Alloc, Running
<1>6. \A d \in Caller : Local(d)'
  <2>1. freelist' = freelist
    BY DEF Alloc
  <2>2. Local(c)'
    BY <1>1, <1>2, <1>4, <2>1 DEF Local
  <2> QED BY <2>2, OnlyMine
<1> QED BY <1>4, <1>5, <1>6, SameBlocks DEF Alloc, lockup

LEMMA TakeInv ==
    ASSUME IInv, NEW c \in Caller, Alone(c), Take(c)
    PROVE  IInv'
<1>1. PICK o \in Order, lv \in Order :
        o = loc[c].order /\ lv = loc[c].level /\ lv <= o /\ freelist[o] # <<>>
  BY DEF IInv, TypeOK, Take, Control, Local
<1>2. PICK p \in Page : p = Head(freelist[o]) /\ p \in Range(freelist[o])
  <2>1. freelist[o] \in Seq(Page) /\ IsInjective(freelist[o])
    BY DEF IInv, TypeOK, Lists
  <2> QED BY <1>1, <2>1, TailRange
<1>3. loc' = [loc EXCEPT ![c].at = "unlink", ![c].page = p] /\ fault' = fault
  BY <1>1, <1>2 DEF Take
<1>4. /\ loc' \in [Caller -> [at : At, page : Page, order : Order, level : Order]]
      /\ loc'[c].at = "unlink" /\ loc'[c].page = p /\ loc'[c].order = o
      /\ loc'[c].level = lv
  <2>1. loc \in [Caller -> [at : At, page : Page, order : Order, level : Order]]
    BY DEF IInv, TypeOK, At
  <2>2. "unlink" \in At
    BY DEF At
  <2> QED BY ONLY <1>1, <1>3, <2>1, <2>2, p \in Page, c \in Caller
<1>5. InHand' = InHand
  BY <1>4, Mine DEF Take
<1>6. <<p, o>> \in FreeBlocks
  BY <1>2 DEF FreeBlocks
<1>7. \A d \in Caller : Local(d)'
  <2>1. FreeBlocks' = FreeBlocks
    BY DEF Take, FreeBlocks
  <2>2. Local(c)'
    BY <1>1, <1>4, <1>6, <2>1 DEF Local
  <2> QED BY <2>2, OnlyMine
<1> QED BY <1>3, <1>4, <1>5, <1>7, SameBlocks DEF Take, IInv, TypeOK

LEMMA UnlinkInv ==
    ASSUME IInv, NEW c \in Caller, Alone(c), Unlink(c)
    PROVE  IInv'
<1>1. PICK p \in Page, o \in Order, lv \in Order :
        /\ p = loc[c].page /\ o = loc[c].order /\ lv = loc[c].level /\ lv <= o
        /\ <<p, o>> \in FreeBlocks
  BY DEF IInv, TypeOK, Unlink, Control, Local
<1>2. /\ list_del_init(p) /\ bplevel' = [bplevel EXCEPT ![p] = lv]
      /\ flag' = [flag EXCEPT ![p] = "ALLOCED"]
      /\ nr_free' = [nr_free EXCEPT ![o] = @ - 1]
      /\ loc' = [loc EXCEPT ![c].at = "split"]
      /\ UNCHANGED <<spin, owned, boot, fault>>
  BY <1>1 DEF Unlink
<1>3. InHand = {}
  BY Mine DEF Unlink
<1>4. ASSUME NEW b \in Blocks, b # <<p, o>>  PROVE b[1] \in Page /\ b[1] # p
  <2>1. b \in Page \X Order /\ b = <<b[1], b[2]>>
    BY DEF IInv, Tiling, Fits
  <2>2. <<p, o>> \in Blocks
    BY <1>1 DEF Blocks
  <2> QED BY <1>4, <2>1, <2>2, Distinct
<1>5. /\ freelist' \in [Order -> Seq(Page)] /\ nr_free' \in [Order -> Nat]
      /\ Lists' /\ FreeBlocks' = FreeBlocks \ {<<p, o>>}
  <2>1. \A i \in Order : <<p, i>> \in FreeBlocks => i = o
    BY <1>1, <1>4 DEF Blocks
  <2> QED BY <1>1, <1>2, <2>1, Unlinked DEF IInv
<1>6. /\ loc' \in [Caller -> [at : At, page : Page, order : Order, level : Order]]
      /\ loc'[c].at = "split" /\ loc'[c].page = p /\ loc'[c].order = o
      /\ loc'[c].level = lv
  <2>1. loc \in [Caller -> [at : At, page : Page, order : Order, level : Order]]
    BY DEF IInv, TypeOK, At
  <2>2. "split" \in At
    BY DEF At
  <2> QED BY ONLY <1>1, <1>2, <2>1, <2>2, c \in Caller
<1>7. InHand' = {<<p, o>>} /\ Lent' = Lent
  BY <1>2, <1>6, Mine DEF Lent
<1>8. <<p, o>> \notin Lent
  BY <1>1 DEF IInv, Marks
<1>9. TypeOK'
  BY <1>2, <1>5, <1>6 DEF IInv, TypeOK, At, Flags
<1>10. Tiling(Blocks', boot')
  <2>1. Blocks' = Blocks
    BY <1>1, <1>3, <1>5, <1>7 DEF Blocks
  <2> QED BY <1>2, <2>1 DEF IInv
<1>11. Marks'
  <2>1. \A b \in FreeBlocks' \cup Lent' : b \in FreeBlocks \cup Lent /\ b # <<p, o>>
    BY <1>5, <1>7, <1>8
  <2>2. \A b \in FreeBlocks' \cup Lent' :
          flag'[b[1]] = flag[b[1]] /\ bplevel'[b[1]] = bplevel[b[1]]
    BY <1>2, <1>4, <2>1 DEF IInv, TypeOK, Blocks
  <2>3. \A n \in boot' .. NPages - 1 : flag'[n] = "RESERVED"
    <3>1. flag[p] = "FREE"
      BY <1>1 DEF IInv, Marks
    <3>2. \A n \in boot .. NPages - 1 : n \in Page /\ n # p /\ flag[n] = "RESERVED"
      BY <3>1, BuddyAssumption DEF IInv, TypeOK, Marks, Page
    <3> QED BY <1>2, <3>2 DEF IInv, TypeOK
  <2>4. InHand' \cap (FreeBlocks' \cup Lent') = {}
    BY <1>7, <2>1
  <2>5. \A b \in FreeBlocks' : flag'[b[1]] = "FREE" /\ bplevel'[b[1]] = b[2]
    BY <1>5, <2>2 DEF IInv, Marks
  <2>6. \A b \in Lent' : flag'[b[1]] = "ALLOCED" /\ bplevel'[b[1]] = b[2]
    BY <1>7, <2>2 DEF IInv, Marks
  <2> QED BY <2>3, <2>4, <2>5, <2>6 DEF Marks
<1>12. NoPairs'
  BY <1>5 DEF IInv, NoPairs
<1>13. Control'
  <2>1. flag'[p] = "ALLOCED" /\ bplevel'[p] = lv
    BY <1>2 DEF IInv, TypeOK
  <2>2. Local(c)'
    BY <1>1, <1>6, <2>1 DEF Local
  <2> QED BY <1>2, <2>2, OnlyMine DEF IInv, Control
<1>14. Owners'
  BY DEF IInv, Owners, Unlink
<1> QED BY <1>5, <1>9, <1>10, <1>11, <1>12, <1>13, <1>14 DEF IInv

LEMMA SplitInv ==
    ASSUME IInv, NEW c \in Caller, Alone(c), Split(c)
    PROVE  IInv'
<1>1. PICK p \in Page, w \in Order :
        /\ p = loc[c].page /\ w = loc[c].order /\ InHand = {<<p, w>>}
        /\ <<p, w>> \in Blocks /\ Aligned(p, w)
        /\ <<p, w>> \notin FreeBlocks /\ <<p, w>> \notin Lent
  BY Held DEF Split
<1>2. PICK lv \in Order : lv = loc[c].level /\ lv < w
  BY <1>1 DEF IInv, TypeOK, Split
<1>3. PICK o \in Order : o = w - 1 /\ w = o + 1 /\ o < MAX_BUDDY_ORDER /\ lv <= o /\ o # w
  <2>1. w - 1 \in Order /\ w = (w - 1) + 1 /\ w - 1 < MAX_BUDDY_ORDER /\ lv <= w - 1
    BY <1>2, BuddyAssumption DEF Order
  <2> QED BY <2>1 DEF Order
<1>4. /\ Aligned(p, o + 1) /\ <<p, o + 1>> \in Blocks /\ <<p, w>> = <<p, o + 1>>
       /\ p \in Nat /\ boot \in Nat /\ Tiling(Blocks, boot)
  <2>1. w = o + 1
    BY <1>3
  <2>2. p \in Nat /\ boot \in Nat
    BY DEF IInv, TypeOK, Page
  <2> QED BY <1>1, <2>1, <2>2, Zenon DEF IInv
<1>5. PICK up \in Page : up = p + 2^o /\ up # p /\ Pair(p, o) = up /\ Pair(up, o) = p
  <2>2. p + 2^o \in Page
    BY <1>3, <1>4, SplitTiling
  <2>3. p + 2^o # p /\ Pair(p, o) = p + 2^o /\ Pair(p + 2^o, o) = p
    <3>1. o < MAX_BUDDY_ORDER /\ Aligned(p, o + 1) /\ p \in Nat
      BY <1>3, <1>4
    <3> QED BY ONLY <3>1, o \in Order, Halves
  <2> QED BY <2>2, <2>3
<1>6. /\ list_add(up, o) /\ nr_free' = [nr_free EXCEPT ![o] = @ + 1]
      /\ bplevel' = [bplevel EXCEPT ![up] = o]
      /\ flag' = [flag EXCEPT ![up] = "FREE"]
      /\ loc' = [loc EXCEPT ![c].order = o]
      /\ UNCHANGED <<spin, owned, boot, fault>>
  BY <1>1, <1>3, <1>5 DEF Split
<1>7. up \in PagesOf(<<p, w>>)
  <2>1. p \in Nat /\ up \in Nat
    BY DEF Page
  <2>2. up \in PagesOf(<<up, o>>)
    BY <2>1, FirstPage
  <2>3. PagesOf(<<p, w>>) = PagesOf(<<p, o>>) \cup PagesOf(<<up, o>>)
    <3>1. PagesOf(<<p, o + 1>>) = PagesOf(<<p, o>>) \cup PagesOf(<<p + 2^o, o>>)
      BY <1>3, <1>4, Halves
    <3> QED BY <1>5, <1>4, <3>1
  <2> QED BY <2>2, <2>3
<1>8. ASSUME NEW b \in FreeBlocks \cup Lent
      PROVE  b[1] \in Page /\ b[1] # up /\ b[1] # p
  <2>1. b \in Page \X Order /\ b = <<b[1], b[2]>> /\ b \in Blocks
    BY DEF IInv, Tiling, Fits, Blocks
  <2>2. b # <<p, w>>
    BY <1>1
  <2>3. b[1] \notin PagesOf(<<p, w>>)
    BY <1>1, <2>1, <2>2, SameFirst DEF IInv
  <2>4. p \in PagesOf(<<p, w>>)
    BY FirstPage DEF Page
  <2> QED BY <1>7, <2>1, <2>3, <2>4
<1>9. <<up, o>> \notin FreeBlocks \cup Lent /\ <<p, o>> \notin FreeBlocks \cup Lent
  BY <1>8
<1>10. /\ freelist' \in [Order -> Seq(Page)] /\ nr_free' \in [Order -> Nat]
      /\ Lists' /\ FreeBlocks' = FreeBlocks \cup {<<up, o>>}
  BY <1>6, <1>9, Linked DEF IInv
<1>11. /\ loc' \in [Caller -> [at : At, page : Page, order : Order, level : Order]]
       /\ loc'[c].at = "split" /\ loc'[c].page = p /\ loc'[c].order = o
       /\ loc'[c].level = lv
  <2>1. loc \in [Caller -> [at : At, page : Page, order : Order, level : Order]]
    BY DEF IInv, TypeOK, At
  <2>2. loc[c].at = "split"
    BY DEF Split
  <2> QED BY ONLY <1>1, <1>2, <1>6, <2>1, <2>2, o \in Order, c \in Caller
<1>12. InHand' = {<<p, o>>} /\ Lent' = Lent
  BY <1>6, <1>11, Mine DEF Lent
<1>13. TypeOK'
  BY <1>6, <1>10, <1>11 DEF IInv, TypeOK, At, Flags
<1>14. Tiling(Blocks', boot')
  <2>1. Blocks' = (Blocks \ {<<p, o + 1>>}) \cup {<<p, o>>, <<p + 2^o, o>>}
    <3>1. /\ Blocks = FreeBlocks \cup Lent \cup {<<p, w>>}
          /\ Blocks' = (FreeBlocks \cup {<<up, o>>}) \cup Lent \cup {<<p, o>>}
      BY <1>1, <1>10, <1>12 DEF Blocks
    <3>2. Blocks' = (Blocks \ {<<p, w>>}) \cup {<<p, o>>, <<up, o>>}
      BY <1>1, <3>1
    <3> QED BY <1>5, <1>4, <3>2
  <2>2. boot' = boot
    BY <1>6
  <2> QED BY <1>3, <1>4, <2>1, <2>2, SplitTiling
<1>15. Marks'
  <2>1. \A b \in FreeBlocks \cup Lent :
          flag'[b[1]] = flag[b[1]] /\ bplevel'[b[1]] = bplevel[b[1]]
    BY <1>6, <1>8 DEF IInv, TypeOK
  <2>2. flag'[up] = "FREE" /\ bplevel'[up] = o
    BY <1>6 DEF IInv, TypeOK
  <2>3. \A n \in boot' .. NPages - 1 : flag'[n] = "RESERVED"
    <3>1. up \in Nat /\ p \in Nat /\ boot \in 0 .. NPages /\ NPages \in Nat
      BY BuddyAssumption DEF Page, IInv, TypeOK
    <3>2. up < boot
      <4>1. PICK s \in Nat \ {0} : s = 2^o
        BY Sizes
      <4>2. up + s <= boot
        <5>1. <<up, o>> \in Blocks' /\ boot' = boot
          BY <1>6, <1>10 DEF Blocks
        <5>2. Fits(<<up, o>>, boot)
          BY <1>14, <5>1 DEF Tiling
        <5> QED BY <4>1, <5>2 DEF Fits
      <4> QED BY <3>1, <4>1, <4>2
    <3>3. \A n \in boot .. NPages - 1 : n \in Page /\ n # up /\ flag[n] = "RESERVED"
      BY <3>1, <3>2 DEF IInv, Marks, Page
    <3> QED BY <1>6, <3>3 DEF IInv, TypeOK
  <2>4. \A b \in FreeBlocks' : flag'[b[1]] = "FREE" /\ bplevel'[b[1]] = b[2]
    <3>1. ASSUME NEW b \in FreeBlocks'  PROVE flag'[b[1]] = "FREE" /\ bplevel'[b[1]] = b[2]
      <4>1. b \in FreeBlocks \/ b = <<up, o>>
        BY <1>10
      <4> QED BY <2>1, <2>2, <4>1 DEF IInv, Marks
    <3> QED BY <3>1
  <2>5. \A b \in Lent' : flag'[b[1]] = "ALLOCED" /\ bplevel'[b[1]] = b[2]
    BY <1>12, <2>1 DEF IInv, Marks
  <2>6. InHand' \cap (FreeBlocks' \cup Lent') = {}
    <3>1. <<p, o>> # <<up, o>>
      BY <1>5
    <3>2. <<p, o>> \notin FreeBlocks' /\ <<p, o>> \notin Lent'
      BY <1>9, <1>10, <1>12, <3>1, Zenon
    <3> QED BY <1>12, <3>2
  <2> QED BY <2>3, <2>4, <2>5, <2>6 DEF Marks
<1>16. NoPairs'
  <2>1. SUFFICES ASSUME NEW b \in FreeBlocks', b[2] < MAX_BUDDY_ORDER,
                        <<Pair(b[1], b[2]), b[2]>> \in FreeBlocks'
                 PROVE  FALSE
    BY DEF NoPairs
  <2>2. PICK r \in Page, i \in Order : b = <<r, i>> /\ r = b[1] /\ i = b[2] /\ Aligned(r, i)
    <3>1. b \in Page \X Order /\ Aligned(b[1], b[2])
      BY <1>14 DEF Tiling, Fits, Blocks
    <3> QED BY <3>1
  <2>3. Pair(r, i) # r /\ Pair(Pair(r, i), i) = r
    BY <2>1, <2>2, PairFacts
  <2>4. CASE b = <<up, o>>
    <3>1. <<Pair(b[1], b[2]), b[2]>> = <<p, o>>
      BY <1>5, <2>4
    <3> QED BY <1>5, <1>9, <1>10, <2>1, <3>1
  <2>5. CASE <<Pair(r, i), i>> = <<up, o>>
    <3>1. b = <<p, o>>
      BY <1>5, <2>2, <2>3, <2>5
    <3> QED BY <1>5, <1>9, <1>10, <3>1
  <2>6. CASE b # <<up, o>> /\ <<Pair(r, i), i>> # <<up, o>>
    BY <1>10, <2>1, <2>2, <2>6 DEF IInv, NoPairs
  <2> QED BY <2>4, <2>5, <2>6
<1>17. Control'
  <2>1. flag[p] = "ALLOCED" /\ bplevel[p] = lv
    BY <1>1, <1>2 DEF IInv, Control, Local, Split
  <2>2. flag'[p] = "ALLOCED" /\ bplevel'[p] = lv
    BY <1>5, <1>6, <2>1 DEF IInv, TypeOK
  <2>3. Local(c)'
    BY <1>3, <1>11, <2>2 DEF Local
  <2> QED BY <1>6, <2>3, OnlyMine DEF IInv, Control
<1>18. Owners'
  BY DEF IInv, Owners, Split
<1> QED BY <1>10, <1>13, <1>14, <1>15, <1>16, <1>17, <1>18 DEF IInv

LEMMA AllocDoneInv ==
    ASSUME IInv, NEW c \in Caller, Alone(c), AllocDone(c)
    PROVE  IInv'
<1>1. PICK p \in Page, o \in Order :
        /\ p = loc[c].page /\ o = loc[c].order /\ InHand = {<<p, o>>}
        /\ <<p, o>> \in Blocks /\ <<p, o>> \notin FreeBlocks /\ <<p, o>> \notin Lent
  BY Held DEF AllocDone
<1>2. /\ owned' = [owned EXCEPT ![c] = @ \cup {<<p, o>>}]
      /\ spin' = 0 /\ loc' = [loc EXCEPT ![c] = Idle]
      /\ UNCHANGED <<flag, bplevel, freelist, nr_free, boot, fault>>
  BY <1>1 DEF AllocDone, unlock
<1>3. flag[p] = "ALLOCED" /\ bplevel[p] = o
  BY <1>1 DEF IInv, Control, Local, AllocDone
<1>4. /\ loc' \in [Caller -> [at : At, page : Page, order : Order, level : Order]]
      /\ loc'[c] = Idle
  <2>1. Idle \in [at : At, page : Page, order : Order, level : Order]
    BY BuddyAssumption DEF Idle, At, Page, Order
  <2> QED BY <1>2, <2>1, Locals DEF IInv
<1>5. owned' \in [Caller -> SUBSET (Page \X Order)] /\ owned'[c] = owned[c] \cup {<<p, o>>}
  BY <1>2 DEF IInv, TypeOK
<1>6. /\ FreeBlocks' = FreeBlocks /\ InHand' = {}
      /\ Lent' = Lent \cup {<<p, o>>} /\ Owners'
  <2>1. \A d \in Caller :
          owned'[d] = IF d = c THEN owned[c] \cup {<<p, o>>} ELSE owned[d]
    BY <1>2 DEF IInv, TypeOK
  <2>2. Lent' = Lent \cup {<<p, o>>}
    BY <2>1 DEF Lent
  <2>3. Owners'
    BY <1>1, <2>1 DEF IInv, Owners, Lent
  <2> QED BY <1>2, <1>4, <2>2, <2>3, Mine DEF FreeBlocks, Idle
<1>7. TypeOK'
  BY <1>2, <1>4, <1>5 DEF IInv, TypeOK, At
<1>8. Tiling(Blocks', boot')
  <2>1. Blocks' = Blocks
    BY <1>1, <1>6 DEF Blocks
  <2> QED BY <1>2, <2>1 DEF IInv
<1>9. Lists' /\ NoPairs'
  BY <1>2, <1>6 DEF IInv, Lists, NoPairs
<1>10. Marks'
  <2>1. \A b \in Lent' : flag'[b[1]] = "ALLOCED" /\ bplevel'[b[1]] = b[2]
    <3>1. ASSUME NEW b \in Lent'  PROVE flag[b[1]] = "ALLOCED" /\ bplevel[b[1]] = b[2]
      <4>1. b \in Lent \/ b = <<p, o>>
        BY <1>6
      <4> QED BY <1>3, <4>1 DEF IInv, Marks
    <3> QED BY <1>2, <3>1
  <2> QED BY <1>2, <1>6, <2>1 DEF IInv, Marks
<1>11. Control'
  BY <1>2, <1>4, OnlyMine DEF IInv, Control, Local, Idle
<1> QED BY <1>6, <1>7, <1>8, <1>9, <1>10, <1>11 DEF IInv

LEMMA AllocFailsInv ==
    ASSUME IInv, NEW c \in Caller, NEW lv \in Order, AllocFails(c, lv)
    PROVE  IInv'
<1>1. InHand' = InHand /\ FreeBlocks' = FreeBlocks
  BY DEF AllocFails, InHand, FreeBlocks
<1>2. \A d \in Caller : Local(d)'
  BY <1>1 DEF AllocFails, IInv, Control, Local
<1> QED BY <1>1, <1>2, SameBlocks DEF AllocFails, unlock, IInv, TypeOK, At

\* Where a step leaves the callers that do not make it.
LEMMA StepAlone ==
    ASSUME TypeOK, OneAtATime, OneAtATime', NEW c \in Caller,
           \/ BootFree(c) \/ (\E b \in owned[c] : Free(c, b)) \/ Merge(c) \/ FreeDone(c)
           \/ (\E lv \in Order : Alloc(c, lv)) \/ Take(c) \/ Unlink(c) \/ Split(c)
           \/ AllocDone(c)
    PROVE  Alone(c)
<1>1. loc \in [Caller -> [at : At, page : Page, order : Order, level : Order]]
  BY DEF TypeOK, At
<1>2. CASE loc[c].at # "idle"
  <2>1. ASSUME NEW d \in Caller, d # c  PROVE loc'[d] = loc[d]
    <3>1. ASSUME \/ Merge(c) \/ FreeDone(c) \/ Take(c) \/ Unlink(c) \/ Split(c)
                 \/ AllocDone(c)
          PROVE  loc'[d] = loc[d]
      BY <1>1, <2>1, <3>1 DEF Merge, FreeDone, Take, Unlink, Split, AllocDone
    <3>2. ~BootFree(c) /\ ~(\E b \in owned[c] : Free(c, b)) /\ ~(\E lv \in Order : Alloc(c, lv))
      BY <1>2 DEF BootFree, Free, Alloc, Running
    <3> QED BY <3>1, <3>2
  <2> QED BY <1>2, <2>1 DEF Alone, OneAtATime
<1>3. CASE loc[c].at = "idle"
  <2>1. ASSUME BootFree(c) \/ (\E b \in owned[c] : Free(c, b)) \/ (\E lv \in Order : Alloc(c, lv))
        PROVE  \E l : l.at # "idle" /\ loc' = [loc EXCEPT ![c] = l]
    BY <2>1 DEF BootFree, Free, Enter, Alloc
  <2>2. PICK l : l.at # "idle" /\ loc' = [loc EXCEPT ![c] = l]
    BY <1>3, <2>1 DEF Merge, FreeDone, Take, Unlink, Split, AllocDone
  <2>3. loc'[c].at # "idle" /\ \A d \in Caller : d # c => loc'[d] = loc[d]
    BY <1>1, <2>2
  <2> QED BY <2>3 DEF Alone, OneAtATime
<1> QED BY <1>2, <1>3

LEMMA StepInv ==
    ASSUME IInv, OneAtATime, OneAtATime', [Next]_vars
    PROVE  IInv'
<1>1. CASE UNCHANGED vars
  <2>1. FreeBlocks' = FreeBlocks /\ Lent' = Lent /\ InHand' = InHand /\ Blocks' = Blocks
    BY <1>1 DEF vars, FreeBlocks, Lent, InHand, Blocks
  <2> QED BY <1>1, <2>1 DEF vars, IInv, TypeOK, Lists, Marks, NoPairs, Control, Local, Owners
<1>2. ASSUME NEW c \in Caller, NEW lv \in Order, AllocFails(c, lv)  PROVE IInv'
  BY <1>2, AllocFailsInv
<1>3. ASSUME NEW c \in Caller,
             \/ BootFree(c) \/ (\E b \in owned[c] : Free(c, b)) \/ Merge(c) \/ FreeDone(c)
             \/ (\E lv \in Order : Alloc(c, lv)) \/ Take(c) \/ Unlink(c) \/ Split(c)
             \/ AllocDone(c)
      PROVE  IInv'
  <2>1. Alone(c)
    BY <1>3, StepAlone DEF IInv
  <2> QED BY <1>3, <2>1, BootFreeInv, FreeInv, MergeInv, FreeDoneInv, AllocInv, TakeInv,
             UnlinkInv, SplitInv, AllocDoneInv
<1> QED BY <1>1, <1>2, <1>3 DEF Next

\* What calls of __alloc_pages and __free_pages that do not interleave rest on and keep:
\* tiles, marks, lists that are counted, and no two free halves.
THEOREM Invariant == Spec /\ []OneAtATime => []IInv
<1>1. Init => IInv
  BY InitInv
<1>2. IInv /\ OneAtATime /\ OneAtATime' /\ [Next]_vars => IInv'
  BY StepInv
<1> QED BY <1>1, <1>2, PTL DEF Spec

\* After any sequence of calls the marks of free blocks and the orders of lent ones are
\* those that the next __free_pages goes by.
THEOREM BuddyCorrect == Spec /\ []OneAtATime => []BuddyInv
<1>1. IInv => BuddyInv
  BY DEF IInv, BuddyInv, Lists, Marks, FreeBlocksMarked, OrderRemembered
<1> QED BY <1>1, Invariant, PTL

\* At every step of a call each page that init_buddy has handed over is in one free
\* block, one lent block or the caller's hand.
THEOREM TiledCorrect == Spec /\ []OneAtATime => []Tiled
<1>1. ASSUME IInv  PROVE Tiled
  <2>1. Tiling(Blocks, boot) /\ boot \in Nat
    BY <1>1 DEF IInv, TypeOK
  <2>2. ASSUME NEW p \in 0 .. boot - 1
        PROVE  Cardinality({b \in Blocks : p \in PagesOf(b)}) = 1
    <3>1. PICK d \in Blocks : p \in PagesOf(d)
      BY <2>1 DEF Tiling
    <3>2. \A b \in Blocks : p \in PagesOf(b) => b = d
      BY <2>1, <3>1 DEF Tiling
    <3>3. {b \in Blocks : p \in PagesOf(b)} = {d}
      BY <3>1, <3>2
    <3> QED BY <3>3, FS_Singleton
  <2>3. ASSUME NEW b \in Blocks  PROVE PagesOf(b) \subseteq 0 .. boot - 1
    <3>1. b \in Page \X Order /\ b[1] + 2^b[2] <= boot
      BY <2>1 DEF Tiling, Fits
    <3>2. PICK p \in Nat, s \in Nat : p = b[1] /\ s = 2^b[2]
      BY <3>1, Sizes DEF Page
    <3> QED BY <2>1, <3>1, <3>2 DEF PagesOf
  <2> QED BY <2>2, <2>3 DEF Tiled, Blocks
<1> QED BY <1>1, Invariant, PTL

\* Between calls an area of the pages without a lent page has a free block of its size:
\* if it had only smaller ones, the smallest would lie beside its free pair.
LEMMA FullArea ==
    ASSUME IInv, InHand = {}, boot = NPages,
           NEW lv \in Order, Exhausted(lv), NEW a \in Page, Aligned(a, lv)
    PROVE  \E b \in Lent : PagesOf(b) \cap PagesOf(<<a, lv>>) # {}
<1> DEFINE A == PagesOf(<<a, lv>>)
           Part == {b \in FreeBlocks : b[1] \in A}
           T == {b[2] : b \in Part}
<1>1. SUFFICES ASSUME \A b \in Lent : PagesOf(b) \cap A = {}  PROVE FALSE
  OBVIOUS
<1>2. a \in Nat /\ lv \in Nat /\ NPages \in Nat /\ MAX_BUDDY_ORDER \in Nat
  BY BuddyAssumption DEF Page, Order
<1>3. A \subseteq 0 .. NPages - 1
  <2>1. PICK s \in Nat \ {0} : s = 2^lv
    BY Sizes
  <2>2. a + s <= NPages
    BY <2>1, Inside
  <2> QED BY <1>2, <2>1, <2>2 DEF PagesOf
<1>4. ASSUME NEW b \in FreeBlocks
      PROVE  /\ b \in Blocks /\ b \in Page \X Order /\ b = <<b[1], b[2]>> /\ b[1] \in Nat
             /\ b[2] \in Nat /\ Aligned(b[1], b[2]) /\ b[2] < lv
  <2>1. b \in Blocks /\ b \in Page \X Order /\ Aligned(b[1], b[2])
    BY DEF Blocks, IInv, Tiling, Fits
  <2>2. PICK r \in Page, j \in Order : b = <<r, j>>
    BY <2>1
  <2>3. freelist[j] # <<>>
    BY <2>2, FreeIn DEF FreeBlocks, FreeOf, IInv, TypeOK, Range
  <2>4. j < lv
    BY <1>2, <2>3 DEF Exhausted, Order
  <2> QED BY <2>1, <2>2, <2>4 DEF Page, Order
\* A page of the area is in a free block, which lies in the area.
<1>5. ASSUME NEW x \in A
      PROVE  \E b \in Part : x \in PagesOf(b)
  <2>1. x \in 0 .. boot - 1
    BY <1>3
  <2>2. PICK b \in Blocks : x \in PagesOf(b)
    BY <2>1 DEF IInv, Tiling
  <2>3. b \in FreeBlocks
    BY <1>1, <2>2 DEF Blocks
  <2>4. PICK r \in Page, j \in Order : b = <<r, j>> /\ r \in Nat /\ Aligned(r, j) /\ j <= lv
    BY <1>2, <1>4, <2>3
  <2>5. PagesOf(b) \subseteq A
    BY <1>2, <2>2, <2>4, Nested
  <2>6. r \in PagesOf(b)
    BY <2>4, FirstPage
  <2> QED BY <2>2, <2>3, <2>4, <2>5, <2>6
<1>6. T \in SUBSET Nat /\ T # {}
  <2>1. a \in A
    BY <1>2, FirstPage
  <2> QED BY <1>4, <1>5, <2>1
<1>7. PICK b \in Part : \A d \in Part : b[2] <= d[2]
  <2>1. PICK m \in T : \A n \in T : m <= n
    <3> HIDE DEF T
    <3> QED BY <1>6, LeastNat
  <2> QED BY <2>1
<1>8. PICK r \in Page, j \in Order :
        /\ b = <<r, j>> /\ r \in Nat /\ j \in Nat /\ j < lv /\ Aligned(r, j) /\ r \in A
        /\ b \in Blocks
  BY <1>4, <1>7
<1>9. j < MAX_BUDDY_ORDER /\ j + 1 \in Order /\ j + 1 <= lv
  BY <1>2, <1>8 DEF Order
<1>10. PICK low \in Page, q \in Page :
        /\ q = Pair(r, j) /\ q # r /\ Aligned(q, j)
        /\ Aligned(low, j + 1)
        /\ {r, q} = {low, low + 2^j}
  <2>1. j < MAX_BUDDY_ORDER /\ Aligned(r, j)
    BY <1>8, <1>9
  <2> QED BY ONLY <2>1, r \in Page, j \in Order, PairFacts
<1>11. r \in PagesOf(<<low, j + 1>>) /\ q \in PagesOf(<<low, j + 1>>)
  <2>1. low \in Nat
    BY DEF Page
  <2>2. PagesOf(<<low, j + 1>>) = PagesOf(<<low, j>>) \cup PagesOf(<<low + 2^j, j>>)
    BY <1>9, <1>10, <2>1, Halves
  <2>3. low \in PagesOf(<<low, j>>) /\ low + 2^j \in PagesOf(<<low + 2^j, j>>)
    <3>1. low + 2^j \in Nat
      BY <2>1, FirstPage
    <3> QED BY <2>1, <3>1, FirstPage
  <2> QED BY <1>10, <2>2, <2>3
<1>12. low \in Nat /\ q \in Nat
  BY DEF Page
<1>13. q \in A
  <2>1. PagesOf(<<low, j + 1>>) \subseteq A
    <3>1. Aligned(low, j + 1) /\ r \in PagesOf(<<a, lv>>) /\ j + 1 \in Order /\ j + 1 <= lv
      BY <1>8, <1>9, <1>10
    <3>2. a \in Nat /\ low \in Nat /\ r \in PagesOf(<<low, j + 1>>)
      BY <1>2, <1>11, <1>12
    <3> HIDE DEF A
    <3>3. PagesOf(<<low, j + 1>>) \subseteq PagesOf(<<a, lv>>)
      BY <3>1, <3>2, Nested
    <3> QED BY <3>3 DEF A
  <2> QED BY <1>11, <2>1
<1>14. PICK d \in Part : q \in PagesOf(d)
  BY <1>5, <1>13
<1>15. PICK t \in Page, i \in Order :
        /\ d = <<t, i>> /\ t \in Nat /\ i \in Nat /\ Aligned(t, i) /\ d \in Blocks /\ j <= i
  BY <1>4, <1>7, <1>8, <1>14
<1>16. CASE i = j
  <2>1. t = q
    <3>1. q \in PagesOf(<<q, j>>) /\ q \in PagesOf(<<t, j>>)
      BY <1>12, <1>14, <1>15, <1>16, FirstPage
    <3>2. t <= q /\ q <= t
      <4>1. /\ Aligned(t, j) /\ Aligned(q, j) /\ j <= j /\ t \in Nat /\ q \in Nat
            /\ q \in PagesOf(<<q, j>>) /\ q \in PagesOf(<<t, j>>)
        BY <1>8, <1>10, <1>12, <1>15, <1>16, <3>1
      <4> QED BY ONLY <4>1, j \in Order, Nested
    <3> QED BY <1>12, <1>15, <3>2
  <2> QED BY <1>7, <1>8, <1>9, <1>10, <1>14, <1>15, <1>16, <2>1 DEF IInv, NoPairs
<1>17. CASE i # j
  <2>1. j + 1 <= i
    BY <1>8, <1>15, <1>17
  <2>2. PagesOf(<<low, j + 1>>) \subseteq PagesOf(<<t, i>>)
    BY <1>9, <1>10, <1>11, <1>12, <1>14, <1>15, <2>1, Nested
  <2>3. r \in PagesOf(d)
    BY <1>11, <1>15, <2>2
  <2>4. b = d
    BY <1>8, <1>15, <2>3, SameFirst DEF IInv
  <2> QED BY <1>8, <1>15, <1>17, <2>4
<1> QED BY <1>16, <1>17

\* __alloc_pages fails only when no aligned block of the order is without a lent page.
THEOREM FullCorrect == Spec /\ []OneAtATime => []FailsOnlyWhenFull
<1>1. ASSUME IInv  PROVE FailsOnlyWhenFull
  <2>1. SUFFICES ASSUME boot = NPages, \A c \in Caller : loc[c].at = "idle",
                        NEW lv \in Order, Exhausted(lv),
                        NEW k \in 0 .. NPages \div 2^lv - 1
                 PROVE  \E b \in Lent : PagesOf(b) \cap PagesOf(<<k * 2^lv, lv>>) # {}
    BY DEF FailsOnlyWhenFull
  <2>2. InHand = {}
    BY <2>1 DEF InHand
  <2>3. PICK s \in Nat \ {0} : s = 2^lv
    BY Sizes
  <2>4. k \in Nat /\ k < NPages \div s /\ NPages \in Nat
    <3>1. NPages \in Nat
      BY BuddyAssumption
    <3>2. NPages \div s \in Nat
      BY <3>1, DivMod
    <3> QED BY <2>3, <3>1, <3>2
  <2>5. k * s \in Page
    <3>1. NPages \div s \in Nat /\ NPages % s \in Nat
          /\ NPages = (NPages \div s) * s + (NPages % s)
      <4>1. NPages % s \in 0 .. s - 1
        BY <2>4, DivMod
      <4> QED BY <2>4, <4>1, DivMod
    <3>2. PICK n, r \in Nat : n = NPages \div s /\ r = NPages % s /\ NPages = n * s + r
      BY <3>1
    <3>3. k * s \in Nat /\ n * s \in Nat /\ k * s + s <= n * s
      BY <2>4, <3>2, Apart
    <3>4. k * s < NPages
      BY <3>2, <3>3
    <3> QED BY <2>4, <3>3, <3>4 DEF Page
  <2>6. PICK a \in Page : a = k * 2^lv /\ Aligned(a, lv)
    BY <2>3, <2>4, <2>5 DEF Aligned
  <2> QED BY <1>1, <2>1, <2>2, <2>6, FullArea
<1> QED BY <1>1, Invariant, PTL

\* The blocks of the abstract allocator are aligned blocks among the pages.
LEMMA BlockIs ==
    ASSUME NEW b, NEW n \in Nat, Fits(b, n), n <= NPages
    PROVE  b \in Promise!Block
<1>1. PICK p \in Page, o \in Order : b = <<p, o>> /\ Aligned(p, o) /\ p + 2^o <= n
  BY DEF Fits
<1>2. PICK s \in Nat \ {0}, k \in Nat : s = 2^o /\ p = k * s
  BY <1>1, Sizes DEF Aligned
<1>3. p % s = 0
  <2>1. k * s \in Nat /\ k * s + 0 = k * s
    BY SMT
  <2>2. (k * s + 0) % s = 0
    BY PlaceOf
  <2> QED BY <1>2, <2>1, <2>2
<1>4. p + s <= NPages
  <2>1. p \in Nat /\ NPages \in Nat
    BY BuddyAssumption DEF Page
  <2> QED BY <1>1, <1>2, <2>1
<1> QED BY <1>1, <1>2, <1>3, <1>4 DEF Promise!Block, Page, Order

\* With calls that do not interleave the allocator implements PageAllocator: a block that
\* is lent is aligned and has no page of another, and only a lent block is taken back.
THEOREM AllocatorCorrect == Spec /\ []OneAtATime => ImplementsAllocator
<1>1. Init => Promise!Init
  BY DEF Init, Promise!Init
<1>2. ASSUME IInv, OneAtATime, OneAtATime', [Next]_vars  PROVE [Promise!Next]_owned
  <2>1. ASSUME NEW c \in Caller, NEW b \in owned[c], Free(c, b)  PROVE Promise!Next
    <3>1. b \in Promise!Block
      <4>1. b \in Blocks
        BY DEF Blocks, Lent
      <4>2. Fits(b, boot) /\ boot <= NPages /\ boot \in Nat
        BY <1>2, <4>1, BuddyAssumption DEF IInv, TypeOK, Tiling
      <4> QED BY <4>2, BlockIs
    <3>2. Promise!Free(c, b)
      BY <2>1 DEF Promise!Free, Free
    <3> QED BY <3>1, <3>2 DEF Promise!Next
  <2>2. ASSUME NEW c \in Caller, AllocDone(c)  PROVE Promise!Next
    <3>1. PICK p \in Page, o \in Order :
            /\ p = loc[c].page /\ o = loc[c].order /\ InHand = {<<p, o>>}
            /\ <<p, o>> \in Blocks /\ <<p, o>> \notin Lent
      <4>1. Alone(c)
        BY <1>2, <2>2, StepAlone DEF IInv
      <4> QED BY <1>2, <2>2, <4>1, Held DEF AllocDone
    <3>2. <<p, o>> \in Promise!Block
      <4>1. Fits(<<p, o>>, boot) /\ boot <= NPages /\ boot \in Nat
        BY <1>2, <3>1, BuddyAssumption DEF IInv, TypeOK, Tiling
      <4> QED BY <4>1, BlockIs
    <3>3. Promise!Unlent(<<p, o>>)
      <4>1. ASSUME NEW d \in Promise!Lent
            PROVE  Promise!PagesOf(<<p, o>>) \cap Promise!PagesOf(d) = {}
        <5>1. d \in Blocks /\ d # <<p, o>>
          BY <3>1 DEF Promise!Lent, Lent, Blocks
        <5>2. PagesOf(<<p, o>>) \cap PagesOf(d) = {}
          BY <1>2, <3>1, <5>1 DEF IInv, Tiling
        <5> QED BY <5>2 DEF Promise!PagesOf, PagesOf
      <4> QED BY <4>1 DEF Promise!Unlent
    <3>4. Promise!Alloc(c, <<p, o>>)
      BY <2>2, <3>1, <3>3 DEF Promise!Alloc, AllocDone
    <3> QED BY <3>2, <3>4 DEF Promise!Next
  <2>3. CASE UNCHANGED owned
    BY <2>3
  <2> QED BY <1>2, <2>1, <2>2, <2>3
         DEF Next, vars, BootFree, Merge, FreeDone, Alloc, AllocFails, Take, Unlink, Split
<1> QED BY <1>1, <1>2, Invariant, PTL DEF Spec, ImplementsAllocator, Promise!Spec

\* No page is lent to two callers, which is what the lock of the allocator is there for:
\* Exclusive can fail only by calls that interleave.
THEOREM ExclusiveCorrect == Spec /\ []OneAtATime => []Exclusive
<1>1. ASSUME IInv  PROVE Exclusive
  <2>1. SUFFICES ASSUME NEW c \in Caller, NEW d \in Caller, NEW a \in owned[c],
                        NEW b \in owned[d], <<c, a>> # <<d, b>>
                 PROVE  PagesOf(a) \cap PagesOf(b) = {}
    BY DEF Exclusive
  <2>2. a # b
    BY <1>1, <2>1 DEF IInv, Owners
  <2>3. a \in Blocks /\ b \in Blocks
    BY DEF Blocks, Lent
  <2> QED BY <1>1, <2>2, <2>3 DEF IInv, Tiling
<1> QED BY <1>1, Invariant, PTL
================================================================================
