----------------------------- MODULE VfsFileProofs -----------------------------
(****************************************************************************)
(* Theorems about VfsFile, for any files, blocks, length of a block, size   *)
(* of the page cache and strings to write.  What each needs beyond that, of *)
(* the I/O that may fail and of the calls there are, is in its ASSUME.      *)
(****************************************************************************)
EXTENDS VfsFile, SequenceFacts

--------------------------------------------------------------------------------
(* Pages of a file *)

\* The pages before a position are whole.
LEMMA PagesBefore ==
    ASSUME NEW a \in Nat, NEW b \in Nat \ {0}, NEW q \in Nat
    PROVE  /\ q * b \in Nat
           /\ q < a \div b => q * b + b <= a
           /\ q <= a \div b <=> q * b <= a
<1>1. a \div b \in Nat /\ a % b \in 0 .. b - 1 /\ a = (a \div b) * b + (a % b)
  BY DivMod
<1>2. PICK k \in Nat : k = a \div b
  BY <1>1
<1>3. q * b \in Nat /\ k * b \in Nat /\ a = k * b + (a % b)
  BY <1>1, <1>2, SMT
<1>4. ASSUME NEW x \in Nat, NEW y \in Nat, x < y
      PROVE  x * b + b <= y * b
  BY <1>4, SMT
<1>5. q < k => q * b + b <= a
  BY <1>1, <1>3, <1>4
<1>6. q <= k => q * b <= a
  BY <1>1, <1>3, <1>5
<1>7. k < q => a < q * b
  BY <1>1, <1>3, <1>4
<1>8. q <= k \/ k < q
  OBVIOUS
<1> QED BY <1>2, <1>3, <1>5, <1>6, <1>7, <1>8


--------------------------------------------------------------------------------
(* The page cache *)

\* A sequence of pages in which none occurs twice.
Distinct(s) ==
    \A j, k \in DOMAIN s : s[j].host = s[k].host /\ s[j].loc = s[k].loc => j = k

\* What a fetch leaves at the front, and that the other pages were there before.
Front1(s, h, l) ==
    /\ s \in Seq(PageOf) /\ Len(s) \in 1 .. PCACHE_CAPACITY /\ Distinct(s)
    /\ Head(s) = s[1] /\ s[1].host = h /\ s[1].loc = l
    /\ s[1] \in Range(pcache) \/ s[1].data = disk[l]
    /\ \A k \in 2 .. Len(s) : s[k] \in Range(pcache)

\* One page that was elsewhere, or nowhere, is put before a part of the others.
LEMMA ToFront ==
    ASSUME TypeOK, NEW page \in PageOf, NEW r \in Seq(PageOf), Len(r) < PCACHE_CAPACITY,
           Distinct(r), Range(r) \subseteq Range(pcache),
           \A k \in DOMAIN r : r[k].host # page.host \/ r[k].loc # page.loc,
           page \in Range(pcache) \/ page.data = disk[page.loc]
    PROVE  Front1(<<page>> \o r, page.host, page.loc)
<1> DEFINE s == <<page>> \o r
<1>1. <<page>> \in Seq(PageOf) /\ Len(<<page>>) = 1 /\ <<page>>[1] = page
  OBVIOUS
<1>2. /\ Len(r) \in Nat /\ s \in Seq(PageOf) /\ Len(s) = 1 + Len(r) /\ s[1] = page
      /\ \A k \in 2 .. Len(s) : k - 1 \in DOMAIN r /\ s[k] = r[k - 1]
  BY <1>1
<1> HIDE DEF s
<1>3. DOMAIN s = 1 .. Len(s) /\ DOMAIN r = 1 .. Len(r) /\ Head(s) = s[1]
  BY <1>2
<1>4. Distinct(s)
  <2> SUFFICES ASSUME NEW j \in DOMAIN s, NEW k \in DOMAIN s,
                      s[j].host = s[k].host, s[j].loc = s[k].loc
               PROVE  j = k
    BY DEF Distinct
  <2>1. CASE j = 1 /\ k # 1
    <3>1. k \in 2 .. Len(s)
      BY <1>2, <1>3, <2>1
    <3> QED BY <1>2, <2>1, <3>1
  <2>2. CASE j # 1 /\ k = 1
    <3>1. j \in 2 .. Len(s)
      BY <1>2, <1>3, <2>2
    <3> QED BY <1>2, <2>2, <3>1
  <2>3. CASE j # 1 /\ k # 1
    <3>1. j \in 2 .. Len(s) /\ k \in 2 .. Len(s)
      BY <1>2, <1>3, <2>3
    <3>2. j - 1 = k - 1
      BY <1>2, <3>1 DEF Distinct
    <3> QED BY <1>2, <3>1, <3>2
  <2> QED BY <2>1, <2>2, <2>3
<1>5. \A k \in 2 .. Len(s) : s[k] \in Range(pcache)
  BY <1>2 DEF Range
<1>6. Len(s) \in 1 .. PCACHE_CAPACITY
  BY <1>2, VfsAssumption
<1>7. Front1(s, page.host, page.loc)
  BY <1>2, <1>3, <1>4, <1>5, <1>6 DEF Front1
<1> QED BY <1>7 DEF s

\* Looking up a page, or reading and adding it.
LEMMA FetchedFacts ==
    ASSUME TypeOK, NEW h, NEW l, [host |-> h, loc |-> l, data |-> disk[l]] \in PageOf
    PROVE  Front1(Fetched(h, l), h, l)
<1> DEFINE page == [host |-> h, loc |-> l, data |-> disk[l]]
<1>1. /\ pcache \in Seq(PageOf) /\ Len(pcache) \in Nat /\ Len(pcache) <= PCACHE_CAPACITY
      /\ DOMAIN pcache = 1 .. Len(pcache) /\ Distinct(pcache)
      /\ PCACHE_CAPACITY \in Nat \ {0}
  BY VfsAssumption DEF TypeOK, Distinct
<1>2. CASE Cached(h, l)
  <2> DEFINE k == CHOOSE k \in Slots(pcache, h, l) : TRUE
             r == RemoveAt(pcache, k)
  <2>1. k \in 1 .. Len(pcache) /\ pcache[k].host = h /\ pcache[k].loc = l
    BY <1>1, <1>2 DEF Cached, Slots
  <2>2. Fetched(h, l) = <<pcache[k]>> \o r
    BY <1>2 DEF Fetched, pcache_look_up
  <2> HIDE DEF k
  <2>3. /\ r \in Seq(PageOf) /\ Len(r) = Len(pcache) - 1
        /\ \A i \in 1 .. Len(pcache) - 1 : r[i] = IF i < k THEN pcache[i] ELSE pcache[i + 1]
    BY <1>1, <2>1, RemoveAtElements
  <2> HIDE DEF r
  <2>4. DOMAIN r = 1 .. Len(pcache) - 1
    BY <1>1, <2>3
  <2> DEFINE old(i) == IF i < k THEN i ELSE i + 1
  <2>5. \A i \in DOMAIN r : /\ old(i) \in DOMAIN pcache /\ old(i) # k
                            /\ r[i] = pcache[old(i)]
    BY <1>1, <2>1, <2>3, <2>4
  <2>6. \A i, j \in DOMAIN r : old(i) = old(j) => i = j
    BY <1>1, <2>1, <2>4
  <2> HIDE DEF old
  <2>7. Distinct(r)
    BY <1>1, <2>5, <2>6 DEF Distinct
  <2>8. Range(r) \subseteq Range(pcache)
    BY <2>5 DEF Range
  <2>9. \A i \in DOMAIN r : r[i].host # h \/ r[i].loc # l
    BY <1>1, <2>1, <2>5 DEF Distinct
  <2>10. pcache[k] \in PageOf /\ pcache[k] \in Range(pcache) /\ Len(r) < PCACHE_CAPACITY
    BY <1>1, <2>1, <2>3 DEF Range
  <2>11. Front1(<<pcache[k]>> \o r, h, l)
    BY <2>1, <2>3, <2>7, <2>8, <2>9, <2>10, ToFront
  <2> QED BY <2>2, <2>11
<1>3. CASE ~Cached(h, l)
  <2> DEFINE r == IF Len(pcache) = PCACHE_CAPACITY THEN Front(pcache) ELSE pcache
  <2>1. Fetched(h, l) = <<page>> \o r
    BY <1>3 DEF Fetched, pcache_add
  <2>2. page \in PageOf /\ page.host = h /\ page.loc = l /\ page.data = disk[l]
    OBVIOUS
  <2>3. /\ r \in Seq(PageOf) /\ Len(r) \in Nat /\ Len(r) < PCACHE_CAPACITY
        /\ Len(r) <= Len(pcache) /\ \A i \in 1 .. Len(r) : r[i] = pcache[i]
    <3>1. CASE Len(pcache) = PCACHE_CAPACITY
      <4>1. r = SubSeq(pcache, 1, Len(pcache) - 1)
        BY <3>1 DEF Front
      <4> QED BY <1>1, <3>1, <4>1, SubSeqProperties
    <3>2. CASE Len(pcache) # PCACHE_CAPACITY
      <4>1. r = pcache
        BY <3>2
      <4>2. Len(pcache) < PCACHE_CAPACITY
        <5>1. \A n, c \in Nat : n <= c /\ n # c => n < c
          OBVIOUS
        <5> QED BY <1>1, <3>2, <5>1
      <4> HIDE DEF r, page
      <4> QED BY ONLY <1>1, <4>1, <4>2
    <3> QED BY <3>1, <3>2
  <2> HIDE DEF r, page
  <2>4. DOMAIN r = 1 .. Len(r) /\ \A i \in DOMAIN r : i \in DOMAIN pcache /\ r[i] = pcache[i]
    BY <1>1, <2>3
  <2>5. Distinct(r)
    BY <1>1, <2>4 DEF Distinct
  <2>6. Range(r) \subseteq Range(pcache)
    BY <2>4 DEF Range
  <2>7. \A i \in DOMAIN r : r[i].host # h \/ r[i].loc # l
    BY <1>3, <2>4 DEF Cached, Slots
  <2>8. Front1(<<page>> \o r, h, l)
    BY <2>2, <2>3, <2>5, <2>6, <2>7, ToFront
  <2> QED BY <2>1, <2>8
<1> QED BY <1>2, <1>3

\* The page at the front gets new data.
LEMMA StoredFacts ==
    ASSUME NEW s \in Seq(PageOf), Len(s) \in 1 .. PCACHE_CAPACITY, Distinct(s), NEW data,
           [s[1] EXCEPT !.data = data] \in PageOf
    PROVE  LET r == Stored(s, data)
           IN  /\ r \in Seq(PageOf) /\ Len(r) = Len(s) /\ Distinct(r) /\ DOMAIN r = DOMAIN s
               /\ r[1] = [s[1] EXCEPT !.data = data]
               /\ \A k \in 2 .. Len(s) : r[k] = s[k]
<1> DEFINE r == Stored(s, data)
<1>1. DOMAIN s = 1 .. Len(s) /\ 1 \in DOMAIN s /\ s[1] \in PageOf
  BY VfsAssumption
<1>2. /\ r = [k \in 1 .. Len(s) |-> IF k = 1 THEN [s[1] EXCEPT !.data = data] ELSE s[k]]
      /\ Len(s) \in Nat
  <2>1. PICK e : e = [s[1] EXCEPT !.data = data]
    OBVIOUS
  <2>2. r = [s EXCEPT ![1] = e]
    BY <2>1, Zenon DEF Stored
  <2>3. r = [k \in DOMAIN s |-> IF k = 1 THEN e ELSE s[k]]
    BY <1>1, <2>2
  <2> QED BY <1>1, <2>1, <2>3
<1> HIDE DEF r
<1>3. \A k \in 1 .. Len(s) : r[k] \in PageOf
  BY <1>1, <1>2
<1>4. r \in Seq(PageOf) /\ Len(r) = Len(s) /\ DOMAIN r = DOMAIN s
  BY <1>1, <1>2, <1>3
<1>5. \A k \in DOMAIN s : r[k].host = s[k].host /\ r[k].loc = s[k].loc
  <2>1. s[1].host = [s[1] EXCEPT !.data = data].host /\ s[1].loc = [s[1] EXCEPT !.data = data].loc
    BY <1>1 DEF PageOf, DataPage, FatDirPage, ExtDirPage
  <2> QED BY <1>1, <1>2, <2>1
<1>6. Distinct(r)
  BY <1>4, <1>5 DEF Distinct
<1> QED BY <1>1, <1>2, <1>4, <1>6 DEF r

--------------------------------------------------------------------------------
(* Pages of a call *)

\* Where the bytes are that a turn of the loop moves, and what has been moved after it.
LEMMA TurnFacts ==
    ASSUME NEW c \in Calls, c.end = c.pos + c.count, c.pos \div BLK <= c.page,
           c.page <= EndPage(c), c.cur = Moved(c),
           NEW d \in Calls, d.page = c.page + 1, d.pos = c.pos, d.end = c.end, d.count = c.count
    PROVE  /\ From(c) \in 0 .. BLK /\ To(c) \in 0 .. BLK /\ From(c) <= To(c)
           /\ c.cur + To(c) - From(c) <= c.count
           /\ Moved(d) = c.cur + To(c) - From(c)
           /\ d.page <= EndPage(d) + 1 /\ d.pos \div BLK <= d.page
           /\ c.page * BLK + From(c) = c.pos + c.cur
<1>1. /\ c.page \in Nat /\ c.pos \in Nat /\ c.end \in Nat /\ c.count \in Nat /\ c.cur \in Nat
      /\ BLK \in Nat \ {0}
  BY VfsAssumption DEF Calls
<1>2. PICK p \in Nat, P \in Nat, E \in Nat, n \in Nat, b \in Nat \ {0} :
        p = c.page /\ P = c.pos /\ E = c.end /\ n = c.count /\ b = BLK
  BY <1>1
<1>3. PICK fp, fr \in Nat : fp = P \div b /\ fr = P % b /\ P = fp * b + fr /\ fr < b
  BY DivMod
<1>4. PICK lp, lr \in Nat : lp = E \div b /\ lr = E % b /\ E = lp * b + lr /\ lr < b
  BY DivMod
<1>5. EndPage(c) = lp /\ EndPage(d) = lp /\ fp <= p /\ p <= lp /\ E = P + n
  BY <1>2, <1>3, <1>4 DEF EndPage
<1>6. PICK from, to : from = From(c) /\ to = To(c)
  OBVIOUS
<1>7. /\ from = IF p = fp THEN fr ELSE 0
      /\ to = IF p = lp THEN lr ELSE b
      /\ From(d) = IF p + 1 = fp THEN fr ELSE 0
  BY <1>2, <1>3, <1>4, <1>5, <1>6 DEF From, To
<1>8. /\ c.cur = p * b + from - P
      /\ Moved(d) = IF p + 1 > lp THEN n ELSE (p + 1) * b + From(d) - P
  BY <1>2, <1>5, <1>6 DEF Moved
<1>9. PICK w \in Nat : w = p * b
  BY SMT
<1>10. p # fp => fp * b + b <= w
  <2>1. \A x, y \in Nat : x < y => x * b + b <= y * b
    BY SMT
  <2> QED BY <1>5, <1>9, <2>1
<1>11. p # lp => w + b <= lp * b
  <2>1. \A x, y \in Nat : x < y => x * b + b <= y * b
    BY SMT
  <2> QED BY <1>5, <1>9, <2>1
<1>12. (p + 1) * b = w + b /\ fp * b \in Nat /\ lp * b \in Nat
  BY <1>9, SMT
<1>13. p = fp => w = fp * b
  BY <1>9
<1>14. p = lp => w = lp * b
  BY <1>9
<1>15. w + from = P + c.cur /\ from \in 0 .. b /\ to \in 0 .. b
  BY <1>3, <1>4, <1>7, <1>8, <1>9
<1>16. w + to = IF p = lp THEN E ELSE w + b
  BY <1>4, <1>7, <1>14
<1>17. from <= to
  BY <1>3, <1>4, <1>5, <1>7, <1>10, <1>13, <1>14
<1>18. c.cur + to - from <= n
  BY <1>1, <1>4, <1>5, <1>11, <1>12, <1>15, <1>16
<1>19. Moved(d) = c.cur + to - from
  <2>1. CASE p = lp
    BY <1>1, <1>5, <1>8, <1>15, <1>16, <2>1
  <2>2. CASE p # lp
    <3>1. p + 1 <= lp /\ p + 1 # fp
      BY <1>5, <2>2
    <3>2. Moved(d) = w + b - P
      BY <1>7, <1>8, <1>12, <3>1
    <3> QED BY <1>1, <1>2, <1>7, <1>8, <1>9, <1>15, <2>2, <3>2
  <2> QED BY <2>1, <2>2
<1>20. d.page <= EndPage(d) + 1 /\ d.pos \div BLK <= d.page
  <2>1. d.page = p + 1 /\ d.pos \div BLK = fp
    BY <1>2, <1>3
  <2> QED BY <1>5, <2>1
<1> QED BY <1>2, <1>6, <1>9, <1>15, <1>17, <1>18, <1>19, <1>20

\* A call that has just begun.
LEMMA FirstPage ==
    ASSUME NEW c \in Calls, c.end = c.pos + c.count, c.page = c.pos \div BLK
    PROVE  Moved(c) = 0 /\ c.page <= EndPage(c) /\ EndPage(c) \in Nat /\ c.page \in Nat
<1>1. c.pos \in Nat /\ c.count \in Nat /\ BLK \in Nat \ {0}
  BY VfsAssumption DEF Calls
<1>2. PICK P \in Nat, n \in Nat, b \in Nat \ {0} : P = c.pos /\ n = c.count /\ b = BLK
  BY <1>1
<1>3. PICK p, r \in Nat : p = P \div b /\ r = P % b /\ P = p * b + r /\ r < b
  BY DivMod
<1>4. PICK last \in Nat : last = (P + n) \div b
  <2>1. P + n \in Nat
    OBVIOUS
  <2> QED BY <2>1, DivMod
<1>5. EndPage(c) = last /\ c.page = p
  BY <1>2, <1>3, <1>4 DEF EndPage
<1>6. PICK w \in Nat : w = p * b
  BY SMT
<1>7. p <= last
  <2>1. P + n \in Nat /\ w <= P + n
    BY <1>3, <1>6
  <2> QED BY <1>4, <1>6, <2>1, PagesBefore
<1>8. From(c) = r
  BY <1>2, <1>3, <1>5 DEF From
<1>9. Moved(c) = w + r - P
  BY <1>2, <1>5, <1>6, <1>7, <1>8 DEF Moved
<1> QED BY <1>3, <1>5, <1>6, <1>7, <1>9

\* Block 0 of ext2 is no block of a file.
LEMMA ZeroIsFree ==
    ASSUME NEW f \in File
    PROVE  BlockZero \notin Range(Chain[f])
BY VfsAssumption DEF File, FatBlock, ExtBlock

\* The block that a turn of the loop is at: of its file, or block 0 if it moves nothing.
LEMMA BlockOfPage ==
    ASSUME TypeOK, call # None, NEW l \in Home
    PROVE  /\ l \in Block /\ call.f \in File /\ call.page \in Nat
           /\ l # BlockZero => /\ l \in Range(Chain[call.f]) /\ HasPage
                              /\ l = bmap(call.f, call.page)
           /\ l = BlockZero => From(call) = To(call)
<1>1. /\ call.f \in File /\ call.page \in Nat
      /\ Chain[call.f] \in Seq(Block) /\ Len(Chain[call.f]) \in Nat
  BY VfsAssumption DEF TypeOK, Calls
<1>2. BlockZero \in Block
  BY DEF Block
<1>3. CASE HasPage /\ l = bmap(call.f, call.page)
  <2>1. 1 \in DOMAIN Chain[call.f] /\ call.page + 1 \in DOMAIN Chain[call.f]
    BY <1>1, <1>3 DEF HasPage
  <2>2. l \in {Chain[call.f][1], Chain[call.f][call.page + 1]}
    BY <1>3 DEF bmap, fat32_bmap, ext2_bmap, HasPage
  <2>3. l \in Block /\ l \in Range(Chain[call.f])
    BY <1>1, <2>1, <2>2 DEF Range
  <2>4. l # BlockZero
    BY <1>1, <2>3, ZeroIsFree
  <2> QED BY <1>1, <1>3, <2>3, <2>4
<1>4. CASE ~HasPage /\ Empty /\ l = bmap(call.f, call.page)
  <2>1. call.f \notin Fat
    BY <1>4, VfsAssumption DEF Empty
  <2>2. l = BlockZero
    BY <1>4, <2>1 DEF bmap, ext2_bmap, HasPage
  <2> QED BY <1>1, <1>2, <1>4, <2>2 DEF Empty
<1>5. CASE Empty /\ l = BlockZero
  BY <1>1, <1>2, <1>5 DEF Empty
<1> QED BY <1>3, <1>4, <1>5 DEF Home

--------------------------------------------------------------------------------
(* What fetching and storing a page does to the cache and the disk *)

DiskOK ==
    /\ \A l \in Block : disk[l] \in [0 .. BLK - 1 -> Byte]
    /\ disk[FatDir] \in [Fat -> Nat \cup {Deleted}] /\ disk[ExtDir] = [f \in Ext |-> TRUE]
    /\ DOMAIN disk = Block \cup Dir /\ disk = [l \in DOMAIN disk |-> disk[l]]
CacheOK == pcache \in Seq(PageOf) /\ Len(pcache) <= PCACHE_CAPACITY /\ Distinct(pcache)

\* Block l is one of the inode h or block 0, or it is the directory.
AtHome(h, l) ==
    \/ l \in Dir /\ h = dir_host(l)
    \/ l \in Block /\ \E f \in File : h = host(f) /\ (l \in Range(Chain[f]) \/ l = BlockZero)

\* No inode is forgotten.
GensKept == \A f \in File : inode'[f].gen = inode[f].gen

LEMMA HostsKept ==
    ASSUME GensKept
    PROVE  Hosts' = Hosts
BY DEF GensKept, Hosts, host, dir_host

\* Directories and blocks differ.
LEMMA Places ==
    /\ FatDir \notin Block /\ ExtDir \notin Block /\ FatDir # ExtDir
    /\ FatDir \notin File /\ ExtDir \notin File
BY VfsAssumption DEF Dir

\* A page tells by its block whose it may be and what it may hold.
LEMMA PageKinds ==
    ASSUME NEW page \in PageOf
    PROVE  /\ page.loc \in Block \/ page.loc \in Dir
           /\ page.loc \in Block => page \in DataPage
           /\ page.loc = FatDir => page \in FatDirPage
           /\ page.loc = ExtDir => page \in ExtDirPage
           /\ page.loc \in Dir => page.host = dir_host(page.loc)
BY Places DEF PageOf, DataPage, FatDirPage, ExtDirPage, Dir

\* A block that is read is typed as a page.
LEMMA ReadIsTyped ==
    ASSUME TypeOK, NEW h, NEW l, AtHome(h, l)
    PROVE  [host |-> h, loc |-> l, data |-> disk[l]] \in PageOf
<1> DEFINE page == [host |-> h, loc |-> l, data |-> disk[l]]
<1>1. CASE l \in Dir /\ h = dir_host(l)
  BY <1>1 DEF TypeOK, Dir, PageOf, FatDirPage, ExtDirPage
<1>2. ASSUME l \in Block, NEW f \in File, h = host(f)
      PROVE  page \in PageOf
  <2>1. h \in File \X (0 .. MaxGen)
    BY <1>2 DEF TypeOK, host
  <2> QED BY <1>2, <2>1 DEF TypeOK, PageOf, DataPage
<1> QED BY <1>1, <1>2 DEF AtHome

\* Pages that can be found and have the same block are of the same inode.
LEMMA OneHost ==
    ASSUME TypeOK, OwnPages, NEW h, NEW l, AtHome(h, l), l # BlockZero,
           NEW page \in Range(pcache), page.loc = l, page.host \in Hosts
    PROVE  page.host = h
<1>1. page \in PageOf
  BY DEF TypeOK, Range
<1>2. CASE l \in Dir /\ h = dir_host(l)
  BY <1>1, <1>2, PageKinds
<1>3. ASSUME l \in Block, NEW f \in File, h = host(f), l \in Range(Chain[f])
      PROVE  page.host = h
  <2>1. page \in DataPage
    BY <1>1, <1>3, PageKinds
  <2>2. PICK g \in File, n \in 0 .. MaxGen : page.host = <<g, n>>
    BY <2>1 DEF DataPage
  <2>3. l \in Range(Chain[g])
    BY <1>3, <2>2 DEF OwnPages, Range
  <2>4. g = f
    BY <1>3, <2>3, VfsAssumption
  <2>5. ASSUME NEW d \in Dir
        PROVE  page.host # dir_host(d)
    BY <2>2, Places DEF dir_host, Dir
  <2>6. PICK e \in File : page.host = host(e)
    BY <2>5 DEF Hosts
  <2> QED BY <1>3, <2>2, <2>4, <2>6 DEF host
<1> QED BY <1>2, <1>3 DEF AtHome

\* What a fetch of block 0 brings.
LEMMA ZeroPage ==
    ASSUME OwnPages, NEW h, NEW s, Front1(s, h, BlockZero), TypeOK
    PROVE  s[1].data = disk[BlockZero]
<1>1. s[1].loc = BlockZero /\ (s[1] \in Range(pcache) \/ s[1].data = disk[BlockZero])
  BY DEF Front1
<1>2. CASE s[1] \in Range(pcache)
  <2>1. PICK k \in DOMAIN pcache : s[1] = pcache[k]
    BY <1>2 DEF Range
  <2>2. pcache[k].loc = BlockZero /\ BlockZero \in Block
    BY <1>1, <2>1 DEF Block
  <2>3. pcache[k] \in DataPage
    BY <2>2, PageKinds DEF TypeOK
  <2>4. pcache[k].host[1] \in File
    BY <2>3 DEF DataPage
  <2> QED BY <2>1, <2>2, <2>4, ZeroIsFree DEF OwnPages
<1> QED BY <1>1, <1>2

\* The cache after a fetch.
LEMMA FetchStep ==
    ASSUME TypeOK, OwnPages, NEW h, NEW l, NEW s, AtHome(h, l), Front1(s, h, l),
           pcache' = s, disk' = disk, GensKept
    PROVE  CacheOK' /\ OwnPages' /\ (Coherent => Coherent')
<1>1. s \in Seq(PageOf) /\ Len(s) \in 1 .. PCACHE_CAPACITY /\ DOMAIN s = 1 .. Len(s)
  BY DEF Front1
<1>2. CacheOK'
  BY <1>1, VfsAssumption DEF CacheOK, Front1, Distinct
<1>3. \A k \in DOMAIN s : s[k] \in Range(pcache) \/ (k = 1 /\ s[1].data = disk[l])
  BY <1>1, VfsAssumption DEF Front1
<1>4. s[1].host = h /\ s[1].loc = l
  BY DEF Front1
<1>5. \A k \in DOMAIN s : s[k] \in PageOf
  BY <1>1
<1>6. ASSUME NEW k \in DOMAIN s, s[k].loc \in Block
      PROVE  LET f == s[k].host[1]
             IN  /\ \/ s[k].loc \in Range(Chain[f])
                    \/ s[k].loc = BlockZero /\ s[k].data = disk'[BlockZero]
                 /\ s[k].host[2] <= inode'[f].gen
  <2>1. s[k] \in DataPage
    BY <1>5, <1>6, PageKinds
  <2>2. PICK f \in File, n \in 0 .. MaxGen : s[k].host = <<f, n>>
    BY <2>1 DEF DataPage
  <2>3. CASE s[k] \in Range(pcache)
    BY <1>6, <2>2, <2>3 DEF OwnPages, Range, GensKept
  <2>4. CASE k = 1 /\ s[1].data = disk[l]
    <3>1. PICK g \in File : h = host(g) /\ (l \in Range(Chain[g]) \/ l = BlockZero)
      BY <1>4, <1>6, <2>4, Places DEF AtHome, Dir
    <3>2. g = f /\ n = inode[f].gen
      BY <1>4, <2>2, <2>4, <3>1 DEF host
    <3>3. inode[f].gen \in Nat
      BY DEF TypeOK
    <3> QED BY <1>4, <2>2, <2>4, <3>1, <3>2, <3>3 DEF GensKept
  <2> QED BY <1>3, <2>3, <2>4
<1>7. OwnPages'
  BY <1>6 DEF OwnPages
<1>8. ASSUME Coherent, NEW k \in DOMAIN s, s[k].host \in Hosts
      PROVE  s[k].data = disk[s[k].loc]
  BY <1>3, <1>4, <1>8 DEF Coherent, Range
<1>9. Coherent => Coherent'
  BY <1>8, HostsKept DEF Coherent
<1> QED BY <1>2, <1>7, <1>9

\* The cache and the disk after the page at the front has been changed and written.
LEMMA WriteStep ==
    ASSUME TypeOK, OwnPages, NEW h, NEW l, NEW s, NEW data, AtHome(h, l), Front1(s, h, l),
           [s[1] EXCEPT !.data = data] \in PageOf, l = BlockZero => data = s[1].data,
           pcache' = Stored(s, data), writepage(l, data), GensKept
    PROVE  /\ CacheOK' /\ OwnPages' /\ DiskOK' /\ disk'[BlockZero] = disk[BlockZero]
           /\ Coherent /\ "write" \notin Fault => Coherent'
<1>1. PICK r, page : r = Stored(s, data) /\ page = [s[1] EXCEPT !.data = data]
  OBVIOUS
<1>2. /\ s \in Seq(PageOf) /\ Len(s) \in 1 .. PCACHE_CAPACITY /\ DOMAIN s = 1 .. Len(s)
      /\ Distinct(s) /\ s[1].host = h /\ s[1].loc = l /\ 1 \in DOMAIN s /\ s[1] \in PageOf
  BY VfsAssumption DEF Front1
<1>3. /\ r \in Seq(PageOf) /\ Len(r) = Len(s) /\ Distinct(r) /\ DOMAIN r = 1 .. Len(s)
      /\ r[1] = page /\ \A k \in 2 .. Len(s) : r[k] = s[k]
  BY <1>1, <1>2, StoredFacts
<1>4. page \in PageOf /\ page.host = h /\ page.loc = l /\ page.data = data
  BY <1>1, <1>2 DEF PageOf, DataPage, FatDirPage, ExtDirPage
<1>5. CacheOK'
  BY <1>1, <1>2, <1>3, VfsAssumption DEF CacheOK, Distinct
<1>6. \A k \in DOMAIN r : k = 1 \/ (k \in 2 .. Len(s) /\ r[k] = s[k] /\ r[k] \in Range(pcache))
  BY <1>2, <1>3, VfsAssumption DEF Front1
<1>12. disk'[BlockZero] = disk[BlockZero]
  <2>1. BlockZero \in DOMAIN disk
    BY DEF TypeOK, Block
  <2>2. l = BlockZero => data = disk[BlockZero]
    BY ZeroPage
  <2> QED BY <2>1, <2>2 DEF writepage
<1>13. l = BlockZero => data = disk'[BlockZero]
  BY <1>12, ZeroPage
<1>7. ASSUME NEW k \in DOMAIN r, r[k].loc \in Block
      PROVE  LET f == r[k].host[1]
             IN  /\ \/ r[k].loc \in Range(Chain[f])
                    \/ r[k].loc = BlockZero /\ r[k].data = disk'[BlockZero]
                 /\ r[k].host[2] <= inode'[f].gen
  <2>1. r[k] \in DataPage
    BY <1>3, <1>7, PageKinds
  <2>2. PICK f \in File, n \in 0 .. MaxGen : r[k].host = <<f, n>>
    BY <2>1 DEF DataPage
  <2>3. CASE r[k] \in Range(pcache)
    BY <1>7, <1>12, <2>2, <2>3 DEF OwnPages, Range, GensKept
  <2>4. CASE k = 1
    <3>1. PICK g \in File : h = host(g) /\ (l \in Range(Chain[g]) \/ l = BlockZero)
      BY <1>3, <1>4, <1>7, <2>4, Places DEF AtHome, Dir
    <3>2. g = f /\ n = inode[f].gen
      BY <1>3, <1>4, <2>2, <2>4, <3>1 DEF host
    <3>3. inode[f].gen \in Nat
      BY DEF TypeOK
    <3> QED BY <1>3, <1>4, <1>13, <2>2, <2>4, <3>1, <3>2, <3>3 DEF GensKept
  <2> QED BY <1>6, <2>3, <2>4
<1>8. OwnPages'
  BY <1>1, <1>7 DEF OwnPages
<1>9. DiskOK'
  <2>1. /\ l \in Block => data \in [0 .. BLK - 1 -> Byte]
        /\ l = FatDir => data \in [Fat -> Nat \cup {Deleted}]
        /\ l = ExtDir => data = [f \in Ext |-> TRUE]
    BY <1>4, PageKinds DEF DataPage, FatDirPage, ExtDirPage
  <2>2. disk' = [disk EXCEPT ![l] = data] \/ disk' = disk
    BY DEF writepage
  <2>3. FatDir \in DOMAIN disk /\ ExtDir \in DOMAIN disk /\ DOMAIN disk = Block \cup Dir
    BY DEF TypeOK, Dir
  <2> QED BY <2>1, <2>2, <2>3 DEF DiskOK, TypeOK
<1>10. ASSUME Coherent, "write" \notin Fault, NEW k \in DOMAIN r, r[k].host \in Hosts
       PROVE  r[k].data = disk'[r[k].loc]
  <2>1. l \in DOMAIN disk /\ disk' = [disk EXCEPT ![l] = data]
    BY <1>10 DEF writepage, AtHome, TypeOK, Dir
  <2>2. CASE k = 1
    BY <1>3, <1>4, <2>1, <2>2
  <2>3. CASE k \in 2 .. Len(s) /\ r[k] = s[k] /\ r[k] \in Range(pcache)
    <3>1. r[k].data = disk[r[k].loc]
      BY <1>10, <2>3 DEF Coherent, Range
    <3>2. CASE l = BlockZero
      BY <1>12, <2>1, <3>1, <3>2
    <3>3. ASSUME l # BlockZero, r[k].loc = l
          PROVE  FALSE
      <4>1. s[k].host = h
        BY <1>10, <2>3, <3>3, OneHost
      <4> QED BY <1>2, <2>3, <3>3, <4>1 DEF Distinct
    <3> QED BY <2>1, <3>1, <3>2, <3>3
  <2> QED BY <1>6, <2>2, <2>3
<1>11. Coherent /\ "write" \notin Fault => Coherent'
  BY <1>1, <1>10, HostsKept DEF Coherent
<1> QED BY <1>5, <1>8, <1>9, <1>11, <1>12

--------------------------------------------------------------------------------
(* Each step *)

Inv == TypeOK /\ Progress /\ OwnPages

\* What each step must leave, and what it leaves to readers where writes do not fail.
Kept == Inv' /\ (Coherent /\ "write" \notin Fault => Coherent')

InodeOK ==
    inode \in [File -> [gen : 0 .. MaxGen, state : {"none", "live", "unread", "negative"}, size : Nat]]

\* The types of the cache, the disk, the inodes and the call make up the type invariant.
LEMMA Types ==
    /\ TypeOK => DiskOK /\ CacheOK /\ InodeOK
    /\ DiskOK' /\ CacheOK' /\ InodeOK' /\ itab' \in [Ext -> Nat] /\ call' \in Calls \cup {None}
       /\ astray' \in BOOLEAN => TypeOK'
BY DEF TypeOK, DiskOK, CacheOK, InodeOK, Distinct

\* Steps that leave the page cache and the disk alone.
LEMMA CacheStays ==
    ASSUME TypeOK, OwnPages, UNCHANGED <<pcache, disk>>, GensKept
    PROVE  DiskOK' /\ CacheOK' /\ OwnPages' /\ (Coherent => Coherent')
<1>1. \A k \in DOMAIN pcache : pcache[k].loc \in Block => pcache[k].host[1] \in File
  BY PageKinds DEF TypeOK, DataPage
<1>2. OwnPages'
  BY <1>1 DEF OwnPages, GensKept
<1>3. Coherent => Coherent'
  BY HostsKept DEF Coherent
<1>4. DiskOK' /\ CacheOK'
  BY Types DEF DiskOK, CacheOK, Distinct
<1> QED BY <1>2, <1>3, <1>4

\* The directory of a file system, when it is fetched.
LEMMA DirFetch ==
    ASSUME TypeOK, NEW d \in Dir
    PROVE  /\ AtHome(dir_host(d), d)
           /\ Front1(Fetched(dir_host(d), d), dir_host(d), d)
           /\ d = FatDir => Fetched(dir_host(d), d)[1] \in FatDirPage
<1>1. AtHome(dir_host(d), d)
  BY DEF AtHome
<1>2. Front1(Fetched(dir_host(d), d), dir_host(d), d)
  BY <1>1, ReadIsTyped, FetchedFacts
<1>3. PICK s : s = Fetched(dir_host(d), d)
  OBVIOUS
<1>4. s[1] \in PageOf /\ s[1].loc = d
  BY <1>2, <1>3, VfsAssumption DEF Front1
<1> QED BY <1>1, <1>2, <1>3, <1>4, PageKinds

LEMMA OpenStep ==
    ASSUME Inv, NEW f \in File, Open(f)
    PROVE  Kept
<1>1. PICK d, h, s : d \in Dir /\ d = dir_of(f) /\ h = dir_host(d) /\ s = Fetched(h, d)
  BY DEF dir_of, Dir
<1>2. AtHome(h, d) /\ Front1(s, h, d) /\ (d = FatDir => s[1] \in FatDirPage)
  BY <1>1, DirFetch DEF Inv
<1>3. /\ TypeOK /\ OwnPages /\ call = None /\ call' = None /\ UNCHANGED <<disk, itab, astray>>
      /\ inode \in [File -> [gen : 0 .. MaxGen, size : Nat, state : {"none", "live", "unread", "negative"}]]
  BY DEF Inv, Open, TypeOK
<1>4. ASSUME NEW n \in Nat \cup {Deleted}, inode' = Found(f, n)
      PROVE  /\ GensKept
             /\ InodeOK'
  <2>1. n # Deleted => n \in Nat
    BY <1>4
  <2> QED BY <1>3, <1>4, <2>1 DEF Found, GensKept, InodeOK
<1>5. CASE pcache' = s /\ inode' = Found(f, IF f \in Fat THEN fat32_inode_lookup(f, Head(s).data)
                                                       ELSE ext2_inode_lookup(f))
  <2>1. PICK n : n = IF f \in Fat THEN fat32_inode_lookup(f, Head(s).data)
                                ELSE ext2_inode_lookup(f)
    OBVIOUS
  <2>2. n \in Nat \cup {Deleted}
    <3>1. CASE f \in Fat
      <4>1. d = FatDir /\ Head(s) = s[1]
        BY <1>1, <1>2, <3>1 DEF dir_of, Front1
      <4>2. s[1].data \in [Fat -> Nat \cup {Deleted}]
        BY <1>2, <4>1 DEF FatDirPage
      <4> QED BY <2>1, <3>1, <4>1, <4>2 DEF fat32_inode_lookup
    <3>2. CASE f \in Ext
      <4>1. f \notin Fat
        BY <3>2, VfsAssumption
      <4> QED BY <1>3, <2>1, <3>2, <4>1 DEF ext2_inode_lookup, TypeOK
    <3> QED BY <3>1, <3>2 DEF File
  <2>3. /\ GensKept
        /\ InodeOK'
    BY <1>4, <1>5, <2>1, <2>2
  <2>4. CacheOK' /\ OwnPages' /\ (Coherent => Coherent')
    BY <1>2, <1>3, <1>5, <2>3, FetchStep
  <2>5. DiskOK' /\ itab' \in [Ext -> Nat]
    BY <1>3, Types DEF DiskOK, TypeOK
  <2>6. TypeOK'
    BY <1>3, <2>3, <2>4, <2>5, Types DEF TypeOK
  <2> QED BY <1>3, <2>4, <2>6 DEF Kept, Inv, Progress
<1>6. CASE inode' = Found(f, Deleted) /\ UNCHANGED pcache
  <2>1. /\ GensKept
        /\ InodeOK'
    BY <1>4, <1>6
  <2>2. DiskOK' /\ CacheOK' /\ OwnPages' /\ (Coherent => Coherent')
    BY <1>3, <1>6, <2>1, CacheStays
  <2>3. TypeOK'
    BY <1>3, <2>1, <2>2, Types DEF TypeOK
  <2> QED BY <1>3, <2>2, <2>3 DEF Kept, Inv, Progress
<1>7. CASE pcache' = s /\ inode' = [inode EXCEPT ![f].state = "unread"]
  <2>1. GensKept /\ InodeOK'
    BY <1>3, <1>7 DEF GensKept, InodeOK
  <2>2. CacheOK' /\ OwnPages' /\ (Coherent => Coherent')
    BY <1>2, <1>3, <1>7, <2>1, FetchStep
  <2>3. DiskOK' /\ itab' \in [Ext -> Nat]
    BY <1>3, Types DEF DiskOK, TypeOK
  <2>4. TypeOK'
    BY <1>3, <2>1, <2>2, <2>3, Types DEF TypeOK
  <2> QED BY <1>3, <2>2, <2>4 DEF Kept, Inv, Progress
<1> QED BY <1>1, <1>5, <1>6, <1>7 DEF Open

LEMMA ForgetStep ==
    ASSUME Inv, NEW f \in File, Forget(f)
    PROVE  Kept
<1>1. /\ TypeOK /\ OwnPages /\ call = None /\ call' = None
      /\ UNCHANGED <<disk, itab, pcache, astray>>
      /\ inode \in [File -> [gen : 0 .. MaxGen, size : Nat, state : {"none", "live", "unread", "negative"}]]
      /\ inode[f].gen \in 0 .. MaxGen /\ inode[f].gen < MaxGen /\ MaxGen \in Nat
      /\ inode' = [inode EXCEPT ![f] = [gen |-> inode[f].gen + 1, state |-> "none", size |-> 0]]
  BY VfsAssumption DEF Inv, Forget, TypeOK
<1>2. InodeOK'
  <2>1. inode[f].gen + 1 \in 0 .. MaxGen
    BY <1>1
  <2> QED BY <1>1, <2>1 DEF InodeOK
<1>3. \A g \in File : /\ inode[g].gen \in Nat /\ inode[g].gen <= inode'[g].gen
                      /\ inode'[g].gen = IF g = f THEN inode[g].gen + 1 ELSE inode[g].gen
  BY <1>1
<1>4. ASSUME NEW k \in DOMAIN pcache, pcache[k].loc \in Block
      PROVE  /\ pcache[k] \in DataPage
             /\ pcache[k].host \in File \X (0 .. MaxGen)
             /\ pcache[k].host[1] \in File /\ pcache[k].host[2] \in Nat
  <2>1. pcache[k] \in DataPage
    BY <1>1, <1>4, PageKinds DEF TypeOK
  <2> QED BY <2>1 DEF DataPage
<1>5. OwnPages'
  <2>1. ASSUME NEW k \in DOMAIN pcache, pcache[k].loc \in Block
        PROVE  /\ \/ pcache[k].loc \in Range(Chain[pcache[k].host[1]])
                  \/ pcache[k].loc = BlockZero /\ pcache[k].data = disk'[BlockZero]
               /\ pcache[k].host[2] <= inode'[pcache[k].host[1]].gen
    <3>1. PICK g \in File, n \in Nat : g = pcache[k].host[1] /\ n = pcache[k].host[2]
      BY <1>4, <2>1
    <3>2. n <= inode[g].gen
      BY <1>1, <2>1, <3>1 DEF OwnPages
    <3>3. n <= inode'[g].gen
      BY <1>3, <3>2
    <3> QED BY <1>1, <2>1, <3>1, <3>3 DEF OwnPages
  <2> QED BY <1>1, <2>1 DEF OwnPages
<1>6. ASSUME Coherent, NEW k \in DOMAIN pcache, pcache[k].host \in Hosts'
      PROVE  pcache[k].data = disk[pcache[k].loc]
  <2>1. CASE pcache[k].loc \in Dir
    <3>1. pcache[k].host = dir_host(pcache[k].loc)
      BY <1>1, <2>1, PageKinds DEF TypeOK
    <3> QED BY <1>6, <2>1, <3>1 DEF Coherent, Hosts
  <2>2. CASE pcache[k].loc \in Block
    <3>1. PICK g \in File, n \in Nat : pcache[k].host = <<g, n>>
      BY <1>4, <2>2
    <3>2. n <= inode[g].gen
      BY <1>1, <2>2, <3>1 DEF OwnPages
    <3>3. \A d \in Dir : pcache[k].host # dir_host(d)
      BY <3>1, Places DEF dir_host, Dir
    <3>4. PICK e \in File : pcache[k].host = <<e, inode'[e].gen>>
      BY <1>6, <3>3 DEF Hosts, host, dir_host
    <3>5. e = g /\ n = inode'[g].gen
      BY <3>1, <3>4
    <3>6. inode'[g].gen = inode[g].gen
      BY <1>3, <3>2, <3>5
    <3>7. pcache[k].host = host(g)
      BY <3>1, <3>5, <3>6 DEF host
    <3> QED BY <1>6, <3>7 DEF Coherent, Hosts
  <2> QED BY <1>1, <2>1, <2>2, PageKinds DEF TypeOK
<1>7. Coherent => Coherent'
  BY <1>1, <1>6 DEF Coherent
<1>8. TypeOK'
  BY <1>1, <1>2, Types DEF DiskOK, CacheOK, Distinct, TypeOK
<1> QED BY <1>1, <1>5, <1>7, <1>8 DEF Kept, Inv, Progress

LEMMA ReaddirStep ==
    ASSUME Inv, NEW d \in Dir, readdir(d)
    PROVE  Kept
<1>1. PICK h, s : h = dir_host(d) /\ s = Fetched(h, d)
  OBVIOUS
<1>2. AtHome(h, d) /\ Front1(s, h, d)
  BY <1>1, DirFetch DEF Inv
<1>3. /\ TypeOK /\ OwnPages /\ call = None /\ UNCHANGED <<disk, itab, inode, call, astray>>
      /\ pcache' = s
  BY <1>1 DEF Inv, readdir
<1>4. GensKept
  BY <1>3 DEF GensKept
<1>5. CacheOK' /\ OwnPages' /\ (Coherent => Coherent')
  BY <1>2, <1>3, <1>4, FetchStep
<1>6. TypeOK'
  BY <1>3, <1>5, Types DEF DiskOK, InodeOK, TypeOK
<1> QED BY <1>3, <1>5, <1>6 DEF Kept, Inv, Progress

\* An entry of the FAT32 directory is changed and written.
LEMMA EntryStep ==
    ASSUME TypeOK, OwnPages, NEW f \in Fat, NEW v \in Nat \cup {Deleted}, GensKept,
           LET s == Fetched(dir_host(FatDir), FatDir)
               entries == [Head(s).data EXCEPT ![f] = v]
           IN  pcache' = Stored(s, entries) /\ writepage(FatDir, entries)
    PROVE  /\ CacheOK' /\ OwnPages' /\ DiskOK'
           /\ Coherent /\ "write" \notin Fault => Coherent'
<1>1. PICK h, s, data : /\ h = dir_host(FatDir) /\ s = Fetched(h, FatDir)
                        /\ data = [Head(s).data EXCEPT ![f] = v]
  OBVIOUS
<1>2. AtHome(h, FatDir) /\ Front1(s, h, FatDir) /\ s[1] \in FatDirPage
  BY <1>1, DirFetch DEF Dir
<1>3. data \in [Fat -> Nat \cup {Deleted}]
  BY <1>1, <1>2 DEF Front1, FatDirPage
<1>4. [s[1] EXCEPT !.data = data] \in FatDirPage
  BY <1>2, <1>3 DEF FatDirPage
<1>5. [s[1] EXCEPT !.data = data] \in PageOf
  BY <1>4 DEF PageOf
<1>6. pcache' = Stored(s, data) /\ writepage(FatDir, data) /\ FatDir # BlockZero
  BY <1>1, Places DEF Block
<1> QED BY <1>2, <1>5, <1>6, WriteStep

LEMMA RemoveStep ==
    ASSUME Inv, NEW f \in Fat, vfs_rm(f)
    PROVE  Kept
<1>1. /\ TypeOK /\ OwnPages /\ call = None /\ UNCHANGED <<itab, call, astray>>
      /\ inode' = [inode EXCEPT ![f].state = "negative"]
  BY DEF Inv, vfs_rm
<1>2. InodeOK' /\ GensKept
  <2>1. f \in File /\ InodeOK
    BY <1>1, Types DEF File
  <2> QED BY <1>1, <2>1 DEF InodeOK, GensKept
<1>3. CASE LET s == Fetched(dir_host(FatDir), FatDir)
               entries == [Head(s).data EXCEPT ![f] = Deleted]
           IN  pcache' = Stored(s, entries) /\ writepage(FatDir, entries)
  <2>1. /\ CacheOK' /\ OwnPages' /\ DiskOK'
        /\ Coherent /\ "write" \notin Fault => Coherent'
    BY <1>1, <1>2, <1>3, EntryStep
  <2>2. TypeOK'
    BY <1>1, <1>2, <2>1, Types DEF TypeOK
  <2> QED BY <1>1, <2>1, <2>2 DEF Kept, Inv, Progress
<1>4. CASE UNCHANGED <<pcache, disk>>
  <2>1. DiskOK' /\ CacheOK' /\ OwnPages' /\ (Coherent => Coherent')
    BY <1>1, <1>2, <1>4, CacheStays
  <2>2. TypeOK'
    BY <1>1, <1>2, <2>1, Types DEF TypeOK
  <2> QED BY <1>1, <2>1, <2>2 DEF Kept, Inv, Progress
<1> QED BY <1>3, <1>4 DEF vfs_rm

\* Steps that change nothing but the call, and perhaps go astray.
LEMMA CallOnly ==
    ASSUME Inv, UNCHANGED <<disk, itab, pcache, inode>>, call' \in Calls \cup {None},
           astray' \in BOOLEAN, Progress'
    PROVE  Kept
<1>1. TypeOK /\ OwnPages /\ GensKept
  BY DEF Inv, GensKept
<1>2. DiskOK' /\ CacheOK' /\ OwnPages' /\ (Coherent => Coherent')
  BY <1>1, CacheStays
<1>3. TypeOK'
  BY <1>1, <1>2, Types DEF TypeOK, InodeOK
<1> QED BY <1>2, <1>3 DEF Kept, Inv

LEMMA EndsStep ==
    ASSUME Inv, call' = None, UNCHANGED <<disk, itab, pcache, inode, astray>>
    PROVE  Kept
BY CallOnly DEF Progress, Inv, TypeOK

\* A call begins.
LEMMA BeginStep ==
    ASSUME Inv, NEW op \in {"read", "write"}, NEW f \in File, NEW pos \in Nat, NEW n \in Nat,
           NEW data \in Seq(Byte), Begin(op, f, pos, n, data),
           op = "read" => pos + n <= inode[f].size,
           Len(data) = IF op = "read" THEN 0 ELSE n
    PROVE  Kept
<1>1. PICK end : end = EndPos(op, f, pos, n)
  OBVIOUS
<1>2. /\ BLK \in Nat \ {0} /\ inode[f].size \in Nat
      /\ UNCHANGED <<disk, itab, pcache, inode>> /\ astray' \in BOOLEAN
      /\ inode[f].state = "live"
      /\ call' = [op |-> op, f |-> f, pos |-> pos, count |-> n, end |-> end,
                  page |-> pos \div BLK, cur |-> 0, data |-> data]
  BY <1>1, VfsAssumption DEF Begin, Inv, TypeOK
<1>3. end = pos + n
  BY <1>1, <1>2 DEF EndPos
<1>4. PICK c : c = call'
  OBVIOUS
<1>5. /\ c.op = op /\ c.f = f /\ c.pos = pos /\ c.count = n /\ c.end = pos + n /\ c.cur = 0
      /\ c.page = pos \div BLK /\ c.data = data
  BY <1>2, <1>3, <1>4
<1>6. pos \div BLK \in Nat
  <2>1. BLK \in Nat \ {0}
    BY <1>2
  <2> QED BY <2>1, DivMod
<1>7. c \in Calls
  <2>1. PICK p \in Nat : p = pos \div BLK
    BY <1>6
  <2>2. c = [op |-> op, f |-> f, pos |-> pos, count |-> n, end |-> pos + n,
             page |-> p, cur |-> 0, data |-> data]
    BY <1>2, <1>3, <1>4, <2>1
  <2> QED BY <2>2 DEF Calls
<1>8. Moved(c) = 0 /\ c.page <= EndPage(c) /\ EndPage(c) \in Nat /\ c.page \in Nat
  BY <1>5, <1>7, FirstPage
<1>9. Progress'
  <2>1. c.pos \div BLK <= c.page /\ c.page <= EndPage(c) + 1
    BY <1>5, <1>8
  <2>2. inode'[c.f].state = "live"
    BY <1>2, <1>3, <1>5
  <2>3. c.cur = Moved(c) /\ Len(c.data) = IF c.op = "read" THEN c.cur ELSE c.count
    BY <1>5, <1>8
  <2> QED BY <1>4, <1>5, <2>1, <2>2, <2>3 DEF Progress
<1> QED BY <1>2, <1>4, <1>7, <1>9, CallOnly

LEMMA CallBegins ==
    ASSUME Inv, NEW f \in File,
           \/ \E pos \in 0 .. MaxCount, n \in 1 .. MaxCount : generic_file_read(f, pos, n)
           \/ \E data \in Data : generic_file_write(f, data)
    PROVE  Kept
<1>1. ASSUME NEW pos \in 0 .. MaxCount, NEW n \in 1 .. MaxCount, generic_file_read(f, pos, n)
      PROVE  Kept
  <2>1. PICK op, none : op = "read" /\ none = <<>>
    OBVIOUS
  <2>2. none \in Seq(Byte) /\ Len(none) = 0
    BY <2>1
  <2>3. /\ Begin(op, f, pos, n, none) /\ pos + n <= inode[f].size
        /\ pos \in Nat /\ n \in Nat /\ op \in {"read", "write"}
        /\ Len(none) = IF op = "read" THEN 0 ELSE n
    BY <1>1, <2>1, <2>2, VfsAssumption DEF generic_file_read
  <2> QED BY <2>2, <2>3, BeginStep
<1>2. ASSUME NEW data \in Data, generic_file_write(f, data)
      PROVE  Kept
  <2>1. data \in Seq(Byte) /\ Len(data) \in Nat
    BY VfsAssumption
  <2> QED BY <1>2, <2>1, BeginStep DEF generic_file_write
<1> QED BY <1>1, <1>2

\* The page a turn of the loop fetches.
LEMMA DataFetch ==
    ASSUME Inv, call # None, NEW l \in Home
    PROVE  /\ l \in Block
           /\ AtHome(host(call.f), l)
           /\ Front1(Fetched(host(call.f), l), host(call.f), l)
           /\ Fetched(host(call.f), l)[1] \in DataPage
<1>1. l \in Block /\ (l \in Range(Chain[call.f]) \/ l = BlockZero)
  BY BlockOfPage DEF Inv
<1>2. call.f \in File
  BY DEF Inv, TypeOK, Calls
<1>3. AtHome(host(call.f), l)
  BY <1>1, <1>2 DEF AtHome
<1>4. Front1(Fetched(host(call.f), l), host(call.f), l)
  BY <1>3, ReadIsTyped, FetchedFacts DEF Inv
<1>5. PICK s : s = Fetched(host(call.f), l)
  OBVIOUS
<1>6. s[1] \in PageOf /\ s[1].loc = l
  BY <1>4, <1>5, VfsAssumption DEF Front1
<1> QED BY <1>1, <1>3, <1>4, <1>5, <1>6, PageKinds

\* The bytes that a turn of the loop moves.
LEMMA Between ==
    ASSUME TypeOK, Progress, call # None, call.page <= EndPage(call)
    PROVE  /\ From(call) \in 0 .. BLK /\ To(call) \in 0 .. BLK /\ From(call) <= To(call)
           /\ BLK \in Nat /\ To(call) - From(call) \in Nat
           /\ call.cur + To(call) - From(call) <= call.count
<1>1. PICK c, e : c = call /\ e = [c EXCEPT !.page = @ + 1, !.cur = @]
  OBVIOUS
<1>2. /\ c \in Calls /\ c.end = c.pos + c.count /\ c.pos \div BLK <= c.page
      /\ c.page <= EndPage(c) /\ c.cur = Moved(c) /\ c.data \in Seq(Byte)
  BY <1>1 DEF TypeOK, Progress, Calls
<1>3. e \in Calls /\ e.page = c.page + 1 /\ e.pos = c.pos /\ e.end = c.end /\ e.count = c.count
  <2>1. PICK p, m \in Nat : p = c.page + 1 /\ m = c.cur
    BY <1>2 DEF Calls
  <2>2. c \in Calls /\ e = [c EXCEPT !.page = p, !.cur = m]
    BY <1>1, <1>2, <2>1
  <2>3. e \in Calls /\ e.page = p /\ e.pos = c.pos /\ e.end = c.end /\ e.count = c.count
    BY ONLY <2>2 DEF Calls
  <2> QED BY <2>1, <2>3
<1>4. /\ From(c) \in 0 .. BLK /\ To(c) \in 0 .. BLK /\ From(c) <= To(c)
      /\ c.cur + To(c) - From(c) <= c.count
  BY <1>2, <1>3, TurnFacts
<1>5. BLK \in Nat
  BY VfsAssumption
<1>6. \A x, y, b \in Nat : x <= y => y - x \in Nat
  OBVIOUS
<1>7. PICK x, y \in Nat : x = From(c) /\ y = To(c)
  BY <1>4, <1>5
<1> QED BY <1>1, <1>4, <1>5, <1>6, <1>7

\* The call after a turn of the loop that brought it to data.
LEMMA TurnStep ==
    ASSUME Inv, call # None, call.page <= EndPage(call), NEW n, n = To(call) - From(call),
           NEW data \in Seq(Byte), inode' = inode,
           Len(data) = Len(call.data) + (IF call.op = "read" THEN n ELSE 0),
           call' = [call EXCEPT !.page = @ + 1, !.cur = @ + n, !.data = data]
    PROVE  call' \in Calls /\ Progress'
<1>1. PICK c, d : c = call /\ d = call'
  OBVIOUS
<1>2. /\ c \in Calls /\ c.end = c.pos + c.count /\ c.pos \div BLK <= c.page /\ c.cur = Moved(c)
      /\ c.page <= EndPage(c) /\ Len(c.data) = IF c.op = "read" THEN c.cur ELSE c.count
      /\ inode[c.f].state = "live"
      /\ n = To(c) - From(c) /\ d = [c EXCEPT !.page = @ + 1, !.cur = @ + n, !.data = data]
      /\ Len(data) = Len(c.data) + (IF c.op = "read" THEN n ELSE 0)
  BY <1>1 DEF Inv, TypeOK, Progress
<1>3. From(c) \in 0 .. BLK /\ To(c) \in 0 .. BLK /\ BLK \in Nat /\ n \in Nat
  BY <1>1, Between DEF Inv
<1>4. /\ d \in Calls
      /\ d.op = c.op /\ d.f = c.f /\ d.pos = c.pos /\ d.count = c.count /\ d.end = c.end
      /\ d.page = c.page + 1 /\ d.cur = c.cur + n /\ d.data = data
  <2>1. c.page \in Nat /\ c.cur \in Nat /\ c \in Calls
    BY <1>2 DEF Calls
  <2>2. PICK p, m \in Nat : p = c.page + 1 /\ m = c.cur + n
    BY <1>3, <2>1
  <2>3. d = [c EXCEPT !.page = p, !.cur = m, !.data = data]
    BY <1>2, <2>2
  <2>4. /\ d \in Calls
        /\ d.op = c.op /\ d.f = c.f /\ d.pos = c.pos /\ d.count = c.count /\ d.end = c.end
        /\ d.page = p /\ d.cur = m /\ d.data = data
    BY ONLY <2>1, <2>3, data \in Seq(Byte) DEF Calls
  <2> QED BY <2>2, <2>4
<1>5. /\ Moved(d) = c.cur + To(c) - From(c) /\ d.page <= EndPage(d) + 1
      /\ d.pos \div BLK <= d.page
  BY <1>2, <1>4, TurnFacts
<1>6. d.cur = Moved(d)
  <2>1. \A u, x, y \in Nat : u + (y - x) = u + y - x
    OBVIOUS
  <2>2. c.cur \in Nat
    BY <1>2 DEF Calls
  <2>3. From(c) \in Nat /\ To(c) \in Nat
    BY <1>3
  <2> QED BY <1>2, <1>4, <1>5, <2>1, <2>2, <2>3
<1>7. Len(d.data) = IF d.op = "read" THEN d.cur ELSE d.count
  <2>1. c.cur \in Nat /\ c.count \in Nat
    BY <1>2 DEF Calls
  <2> QED BY <1>2, <1>3, <1>4, <2>1
<1>8. Progress'
  BY <1>1, <1>2, <1>4, <1>5, <1>6, <1>7 DEF Progress
<1> QED BY <1>1, <1>4, <1>8

LEMMA ReadStep ==
    ASSUME Inv, InLoop("read"), NEW l \in Home, ReadPage(l)
    PROVE  Kept
<1>1. call # None /\ call.page <= EndPage(call) /\ call.op = "read" /\ TypeOK /\ OwnPages
  BY DEF InLoop, Running, Inv
<1>2. PICK h, s, n, bytes :
        /\ h = host(call.f) /\ s = Fetched(h, l) /\ n = To(call) - From(call)
        /\ bytes = [i \in 1 .. n |-> Head(s).data[From(call) + i - 1]]
  OBVIOUS
<1>3. /\ AtHome(h, l) /\ Front1(s, h, l) /\ s[1] \in DataPage
  BY <1>1, <1>2, DataFetch
<1>4. /\ pcache' = s /\ UNCHANGED <<disk, itab, inode, astray>>
      /\ call' = [call EXCEPT !.page = @ + 1, !.cur = @ + n, !.data = @ \o bytes]
  BY <1>2 DEF ReadPage
<1>5. /\ From(call) \in 0 .. BLK /\ To(call) \in 0 .. BLK /\ From(call) <= To(call)
      /\ BLK \in Nat /\ To(call) - From(call) \in Nat
  BY <1>1, Between DEF Inv
<1>6. PICK from, to, b \in Nat : from = From(call) /\ to = To(call) /\ b = BLK
  BY <1>5
<1>7. n \in Nat /\ n = to - from /\ to <= b
  BY <1>2, <1>5, <1>6
<1>8. bytes \in Seq(Byte) /\ Len(bytes) = n
  <2>1. PICK page : page = Head(s).data
    OBVIOUS
  <2>2. page \in [0 .. b - 1 -> Byte]
    BY <1>3, <1>6, <2>1 DEF Front1, DataPage
  <2>3. bytes = [i \in 1 .. n |-> page[from + i - 1]]
    BY <1>2, <1>6, <2>1
  <2>4. \A i \in 1 .. n : from + i - 1 \in 0 .. b - 1
    BY <1>6, <1>7
  <2>5. bytes \in [1 .. n -> Byte]
    BY <2>2, <2>3, <2>4
  <2> QED BY <1>7, <2>5
<1>9. PICK data : data = call.data \o bytes
  OBVIOUS
<1>10. call.data \in Seq(Byte) /\ data \in Seq(Byte) /\ Len(data) = Len(call.data) + n
  <2>1. call.data \in Seq(Byte)
    BY <1>1 DEF TypeOK, Calls
  <2>2. PICK t \in Seq(Byte) : t = call.data
    BY <2>1
  <2>3. t \o bytes \in Seq(Byte) /\ Len(t \o bytes) = Len(t) + n
    BY <1>8
  <2> QED BY <1>9, <2>2, <2>3
<1>11. call' = [call EXCEPT !.page = @ + 1, !.cur = @ + n, !.data = data]
  BY <1>4, <1>9
<1>12. call' \in Calls /\ Progress'
  BY <1>1, <1>2, <1>4, <1>10, <1>11, TurnStep
<1>13. CacheOK' /\ OwnPages' /\ (Coherent => Coherent')
  BY <1>1, <1>3, <1>4, FetchStep DEF GensKept
<1>14. TypeOK'
  BY <1>1, <1>4, <1>12, <1>13, Types DEF DiskOK, InodeOK, TypeOK
<1> QED BY <1>12, <1>13, <1>14 DEF Kept, Inv

\* A turn that moves nothing leaves the page as it is.
LEMMA NothingMoved ==
    ASSUME Inv, call # None, BlockZero \in Home, NEW page \in [0 .. BLK - 1 -> Byte]
    PROVE  Overlay(page) = page
<1>1. From(call) = To(call)
  BY BlockOfPage DEF Inv
<1>2. call.page \in Nat /\ call.pos \in Nat /\ BLK \in Nat \ {0}
  BY VfsAssumption DEF Inv, TypeOK, Calls
<1>3. From(call) \in Nat
  <2>1. PICK pos \in Nat, b \in Nat \ {0} : pos = call.pos /\ b = BLK
    BY <1>2
  <2>2. pos % b \in Nat
    BY DivMod
  <2> QED BY <2>1, <2>2 DEF From
<1>4. PICK n \in Nat : n = From(call) /\ n = To(call)
  BY <1>1, <1>3
<1>5. \A i : i \notin n .. n - 1
  OBVIOUS
<1>6. Overlay(page) = [i \in 0 .. BLK - 1 |-> page[i]]
  BY <1>4, <1>5 DEF Overlay
<1> QED BY <1>6

LEMMA WriteTurn ==
    ASSUME Inv, InLoop("write"), NEW l \in Home, WritePage(l)
    PROVE  Kept
<1>1. call # None /\ call.page <= EndPage(call) /\ call.op = "write" /\ TypeOK /\ OwnPages
  BY DEF InLoop, Running, Inv
<1>2. PICK h, s, n, data :
        /\ h = host(call.f) /\ s = Fetched(h, l) /\ n = To(call) - From(call)
        /\ data = Overlay(Head(s).data)
  OBVIOUS
<1>3. l \in Block /\ AtHome(h, l) /\ Front1(s, h, l) /\ s[1] \in DataPage
  BY <1>1, <1>2, DataFetch
<1>4. /\ pcache' = Stored(s, data) /\ writepage(l, data) /\ UNCHANGED <<itab, inode, astray>>
      /\ call' = [call EXCEPT !.page = @ + 1, !.cur = @ + To(call) - From(call)]
  BY <1>2 DEF WritePage
<1>5. /\ From(call) \in 0 .. BLK /\ To(call) \in 0 .. BLK /\ From(call) <= To(call)
      /\ BLK \in Nat /\ n \in Nat /\ call.cur + To(call) - From(call) <= call.count
  BY <1>1, <1>2, Between DEF Inv
<1>6. /\ call \in Calls /\ call.cur \in Nat /\ call.count \in Nat
      /\ call.data \in Seq(Byte) /\ Len(call.data) = call.count
  BY <1>1 DEF Inv, TypeOK, Progress, Calls
<1>7. PICK from, to, b, cur, count \in Nat :
        from = From(call) /\ to = To(call) /\ b = BLK /\ cur = call.cur /\ count = call.count
  <2>1. From(call) \in Nat /\ To(call) \in Nat
    BY <1>5
  <2> QED BY <1>5, <1>6, <2>1
<1>8. data \in [0 .. BLK - 1 -> Byte]
  <2>1. PICK page, t : page = Head(s).data /\ t = call.data
    OBVIOUS
  <2>2. page \in [0 .. b - 1 -> Byte] /\ t \in Seq(Byte) /\ Len(t) = count
    BY <1>3, <1>6, <1>7, <2>1 DEF Front1, DataPage
  <2>3. data = [i \in 0 .. b - 1 |->
                  IF i \in from .. to - 1 THEN t[cur + i - from + 1] ELSE page[i]]
    BY <1>2, <1>7, <2>1 DEF Overlay
  <2>4. ASSUME NEW i \in 0 .. b - 1, i \in from .. to - 1
        PROVE  t[cur + i - from + 1] \in Byte
    <3>1. cur + to - from <= count
      BY <1>5, <1>7
    <3>2. cur + i - from + 1 \in 1 .. count
      BY <1>7, <2>4, <3>1
    <3> QED BY <2>2, <3>2
  <2>5. data \in [0 .. b - 1 -> Byte]
    BY <2>2, <2>3, <2>4
  <2> QED BY <1>7, <2>5
<1>9. [s[1] EXCEPT !.data = data] \in PageOf
  <2>1. [s[1] EXCEPT !.data = data] \in DataPage
    BY <1>3, <1>8 DEF DataPage
  <2> QED BY <2>1 DEF PageOf
<1>10. GensKept
  BY <1>4 DEF GensKept
<1>11. /\ CacheOK' /\ OwnPages' /\ DiskOK'
       /\ Coherent /\ "write" \notin Fault => Coherent'
  <2>1. l = BlockZero => data = s[1].data
    BY <1>1, <1>2, <1>3, NothingMoved DEF Front1, DataPage
  <2> QED BY <1>1, <1>3, <1>4, <1>9, <1>10, <2>1, WriteStep
<1>12. call' = [call EXCEPT !.page = @ + 1, !.cur = @ + n, !.data = call.data]
  <2>1. PICK c : c = call
    OBVIOUS
  <2>2. PICK p, m : p = c.page + 1 /\ m = c.cur + n
    OBVIOUS
  <2>3. c.cur + To(c) - From(c) = m
    BY <1>2, <1>7, <2>1, <2>2
  <2>4. call' = [c EXCEPT !.page = p, !.cur = m]
    BY <1>4, <2>1, <2>2, <2>3
  <2>5. [c EXCEPT !.page = p, !.cur = m] = [c EXCEPT !.page = p, !.cur = m, !.data = c.data]
    BY ONLY <1>6, <2>1 DEF Calls
  <2> QED BY <2>1, <2>2, <2>4, <2>5
<1>13. call' \in Calls /\ Progress'
  <2>1. PICK t \in Seq(Byte) : t = call.data
    BY <1>6
  <2>2. Len(t) = Len(call.data) + (IF call.op = "read" THEN n ELSE 0)
    BY <1>1, <1>6, <2>1
  <2>3. call' = [call EXCEPT !.page = @ + 1, !.cur = @ + n, !.data = t]
    BY <1>12, <2>1
  <2> QED BY <1>1, <1>2, <1>4, <2>2, <2>3, TurnStep
<1>14. TypeOK'
  BY <1>1, <1>4, <1>11, <1>13, Types DEF InodeOK, TypeOK
<1> QED BY <1>11, <1>13, <1>14 DEF Kept, Inv

LEMMA WriteEndsStep ==
    ASSUME Inv, WriteEnds
    PROVE  Kept
<1>1. /\ TypeOK /\ OwnPages /\ call # None /\ call' = None /\ call.f \in File /\ call.end \in Nat
      /\ astray' = astray /\ astray' \in BOOLEAN
  BY DEF Inv, WriteEnds, Running, TypeOK, Calls
<1>2. CASE UNCHANGED <<disk, itab, pcache, inode>>
  BY <1>1, <1>2, EndsStep
<1>3. CASE call.end > inode[call.f].size
  <2>1. PICK f \in File, n \in Nat : f = call.f /\ n = call.end
    BY <1>1
  <2>2. inode' = [inode EXCEPT ![f].size = n]
    BY <1>3, <2>1 DEF WriteEnds
  <2>3. InodeOK' /\ GensKept
    <3>1. InodeOK
      BY <1>1, Types
    <3> QED BY <2>2, <3>1 DEF InodeOK, GensKept
  <2>4. CASE f \in Fat
    <3>1. fat32_write_inode(f, n)
      BY <1>3, <2>1, <2>4 DEF WriteEnds
    <3>2. CASE UNCHANGED <<pcache, disk>>
      <4>1. DiskOK' /\ CacheOK' /\ OwnPages' /\ (Coherent => Coherent')
        BY <1>1, <2>3, <3>2, CacheStays
      <4>2. itab' \in [Ext -> Nat]
        BY <1>1, <3>1 DEF fat32_write_inode, TypeOK
      <4>3. TypeOK'
        BY <1>1, <2>3, <4>1, <4>2, Types
      <4> QED BY <1>1, <4>1, <4>3 DEF Kept, Inv, Progress
    <3>3. CASE LET s == Fetched(dir_host(FatDir), FatDir)
                   entries == [Head(s).data EXCEPT ![f] = n]
               IN  pcache' = Stored(s, entries) /\ writepage(FatDir, entries)
      <4>1. n \in Nat \cup {Deleted}
        OBVIOUS
      <4>2. /\ CacheOK' /\ OwnPages' /\ DiskOK'
            /\ Coherent /\ "write" \notin Fault => Coherent'
        BY <1>1, <2>3, <2>4, <3>3, <4>1, EntryStep
      <4>3. itab' \in [Ext -> Nat]
        BY <1>1, <3>1 DEF fat32_write_inode, TypeOK
      <4>4. TypeOK'
        BY <1>1, <2>3, <4>2, <4>3, Types
      <4> QED BY <1>1, <4>2, <4>4 DEF Kept, Inv, Progress
    <3> QED BY <3>1, <3>2, <3>3 DEF fat32_write_inode
  <2>5. CASE f \notin Fat
    <3>1. ext2_write_inode(f, n) /\ f \in Ext
      BY <1>3, <2>1, <2>5 DEF WriteEnds, File
    <3>2. itab' \in [Ext -> Nat] /\ UNCHANGED <<pcache, disk>>
      BY <1>1, <3>1 DEF ext2_write_inode, TypeOK
    <3>3. DiskOK' /\ CacheOK' /\ OwnPages' /\ (Coherent => Coherent')
      BY <1>1, <2>3, <3>2, CacheStays
    <3>4. TypeOK'
      BY <1>1, <2>3, <3>2, <3>3, Types
    <3> QED BY <1>1, <3>3, <3>4 DEF Kept, Inv, Progress
  <2> QED BY <2>4, <2>5
<1> QED BY <1>2, <1>3 DEF WriteEnds

\* Every step of the file system keeps its pages and calls in order.
LEMMA Step ==
    ASSUME Inv, Next
    PROVE  Kept
<1>1. ASSUME NEW f \in File, Open(f)
      PROVE  Kept
  BY <1>1, OpenStep
<1>2. ASSUME NEW f \in File, Forget(f)
      PROVE  Kept
  BY <1>2, ForgetStep
<1>3. ASSUME NEW f \in File,
             \/ \E pos \in 0 .. MaxCount, n \in 1 .. MaxCount : generic_file_read(f, pos, n)
             \/ \E data \in Data : generic_file_write(f, data)
      PROVE  Kept
  BY <1>3, CallBegins
<1>4. ASSUME NEW f \in Fat, vfs_rm(f)
      PROVE  Kept
  BY <1>4, RemoveStep
<1>5. ASSUME NEW d \in Dir, readdir(d)
      PROVE  Kept
  BY <1>5, ReaddirStep
<1>6. ASSUME InLoop("read"), NEW l \in Home, ReadPage(l)
      PROVE  Kept
  BY <1>6, ReadStep
<1>7. ASSUME InLoop("write"), NEW l \in Home, WritePage(l)
      PROVE  Kept
  BY <1>7, WriteTurn
<1>8. ASSUME NEW l, PageFails(l)
      PROVE  Kept
  BY <1>8, EndsStep DEF PageFails
<1>9. CASE ReadEnds
  BY <1>9, EndsStep DEF ReadEnds
<1>10. CASE WriteEnds
  BY <1>10, WriteEndsStep
<1>11. CASE CallStep
  BY <1>6, <1>7, <1>8, <1>9, <1>10, <1>11 DEF CallStep
<1>12. CASE Stray
  BY <1>12, CallOnly DEF Stray, Inv, TypeOK, Progress
<1> QED BY <1>1, <1>2, <1>3, <1>4, <1>5, <1>11, <1>12 DEF Next

LEMMA InitInv == Init => Inv /\ Coherent
<1> SUFFICES ASSUME Init
             PROVE  Inv /\ Coherent
  OBVIOUS
<1>1. /\ FatDir \notin Block /\ ExtDir \notin Block /\ FatDir # ExtDir
      /\ InitSize \in [File -> Nat] /\ InitByte \in [Block -> Byte] /\ MaxGen \in Nat
      /\ PCACHE_CAPACITY \in Nat
  BY Places, VfsAssumption
<1>2. \A l \in Block : disk[l] \in [0 .. BLK - 1 -> Byte]
  <2> SUFFICES ASSUME NEW l \in Block
               PROVE  disk[l] \in [0 .. BLK - 1 -> Byte]
    OBVIOUS
  <2>1. l # FatDir /\ l # ExtDir
    BY <1>1
  <2>2. disk[l] = [i \in 0 .. BLK - 1 |-> InitByte[l]]
    BY <2>1 DEF Init
  <2> QED BY <1>1, <2>2
<1>3. disk[FatDir] = [f \in Fat |-> InitSize[f]] /\ disk[ExtDir] = [f \in Ext |-> TRUE]
  BY <1>1 DEF Init, Dir
<1>4. disk[FatDir] \in [Fat -> Nat \cup {Deleted}] /\ itab \in [Ext -> Nat]
  BY <1>1, <1>3 DEF Init, File
<1>5. pcache = <<>> /\ pcache \in Seq(PageOf) /\ Len(pcache) = 0 /\ DOMAIN pcache = {}
  BY DEF Init
<1>6. TypeOK
  <2>1. InodeOK /\ DOMAIN disk = Block \cup Dir /\ call = None /\ astray = FALSE
    BY <1>1 DEF Init, InodeOK
  <2>2. astray \in BOOLEAN /\ disk = [l \in DOMAIN disk |-> disk[l]]
    <3>1. disk = [l \in DOMAIN disk |-> disk[l]]
      <4> DEFINE First(l) == CASE l \in Block  -> [i \in 0 .. BLK - 1 |-> InitByte[l]]
                               [] l = FatDir -> [f \in Fat |-> InitSize[f]]
                               [] l = ExtDir -> [f \in Ext |-> TRUE]
      <4>1. disk = [l \in Block \cup Dir |-> First(l)]
        BY DEF Init
      <4> HIDE DEF First
      <4> QED BY <4>1
    <3>2. astray \in BOOLEAN
      BY <2>1, Zenon
    <3> QED BY <3>1, <3>2
  <2> QED BY <1>1, <1>2, <1>3, <1>4, <1>5, <2>1, <2>2 DEF TypeOK, InodeOK
<1>7. Progress /\ OwnPages /\ Coherent
  BY <1>5 DEF Init, Progress, OwnPages, Coherent
<1> QED BY <1>6, <1>7 DEF Inv

--------------------------------------------------------------------------------
(* Theorems *)

\* The caches, inodes and calls keep their types, pages belong to the inode they were read
\* for, and calls go page by page, whatever fails, until one uses what has not been read or
\* a page for which its file has no block (read_write.c, vfscache.c).
THEOREM Invariant == Spec => []Inv
<1>1. Inv /\ [Next]_vars => Inv'
  <2>1. Inv /\ Next => Inv'
    BY Step DEF Kept
  <2>2. Inv /\ UNCHANGED vars => Inv'
    BY CallOnly DEF Kept, Inv, vars, TypeOK, Progress
  <2> QED BY <2>1, <2>2
<1> QED BY <1>1, InitInv, PTL DEF Spec

\* While writes to the disk do not fail, readers get from the page cache what the disk has, of
\* block 0 too when a transfer ends with a full block (read_write.c:221, vfscache.c:308).
THEOREM CacheCorrect ==
    ASSUME "write" \notin Fault
    PROVE  Spec => []VfsInv
<1>1. Inv /\ Coherent /\ [Next]_vars => Inv' /\ Coherent'
  <2>1. Inv /\ Coherent /\ Next => Inv' /\ Coherent'
    BY Step DEF Kept
  <2>2. ASSUME Inv, Coherent, UNCHANGED vars
        PROVE  Inv' /\ Coherent'
    <3>1. Inv' /\ GensKept
      BY <2>2, CallOnly DEF Kept, Inv, vars, TypeOK, Progress, GensKept
    <3>2. Coherent'
      BY <2>2, <3>1, HostsKept DEF Coherent, vars
    <3> QED BY <3>1, <3>2
  <2> QED BY <2>1, <2>2
<1>2. Inv /\ Coherent => VfsInv
  BY DEF Inv, VfsInv
<1> QED BY <1>1, <1>2, InitInv, PTL DEF Spec

\* A write changes no block but those of its file, whatever fails: where its last turn is at
\* block 0, it writes there what the block has, from a cached copy (read_write.c:77, 221).
THEOREM BlocksCorrect == Spec => OwnBlocksOnly
<1>1. ASSUME Inv, Next, NEW l \in Block, disk'[l] # disk[l]
      PROVE  call # None /\ l \in Range(Chain[call.f])
  <2>1. l # FatDir
    BY Places
  <2>2. ASSUME NEW k, NEW data, k # l \/ data = disk[l], writepage(k, data)
        PROVE  FALSE
    <3>1. l \in DOMAIN disk
      BY <1>1 DEF Inv, TypeOK
    <3> QED BY <1>1, <2>2, <3>1 DEF writepage
  <2>3. ~ UNCHANGED disk
    BY <1>1
  <2>4. PICK k \in Home : InLoop("write") /\ WritePage(k)
    <3>1. \A f : ~Open(f) /\ ~Forget(f)
      BY <2>3 DEF Open, Forget
    <3>2. \A f, pos, n, data : ~generic_file_read(f, pos, n) /\ ~generic_file_write(f, data)
      BY <2>3 DEF generic_file_read, generic_file_write, Begin
    <3>3. \A f : ~vfs_rm(f)
      BY <2>1, <2>2, <2>3 DEF vfs_rm
    <3>4. \A d : ~readdir(d)
      BY <2>3 DEF readdir
    <3>5. ~ReadEnds /\ \A k : ~ReadPage(k) /\ ~PageFails(k)
      BY <2>3 DEF ReadEnds, ReadPage, PageFails
    <3>6. ~WriteEnds
      BY <2>1, <2>2, <2>3 DEF WriteEnds, fat32_write_inode, ext2_write_inode
    <3>7. ~Stray
      BY <2>3 DEF Stray
    <3> QED BY <1>1, <3>1, <3>2, <3>3, <3>4, <3>5, <3>6, <3>7 DEF Next, CallStep
  <2>5. call # None
    BY <2>4 DEF InLoop, Running
  <2>6. k = l
    BY <2>2, <2>4 DEF WritePage
  <2>7. l # BlockZero
    <3>1. SUFFICES ASSUME l = BlockZero
                   PROVE  FALSE
      OBVIOUS
    <3>2. PICK s : s = Fetched(host(call.f), l)
      OBVIOUS
    <3>3. Front1(s, host(call.f), l) /\ s[1] \in DataPage
      BY <1>1, <2>4, <2>5, <2>6, <3>2, DataFetch
    <3>4. Head(s).data = disk[l]
      BY <1>1, <3>1, <3>3, ZeroPage DEF Front1, Inv
    <3>5. Overlay(Head(s).data) = disk[l]
      BY <1>1, <2>4, <2>5, <2>6, <3>1, <3>3, <3>4, NothingMoved DEF Front1, DataPage
    <3> QED BY <2>2, <2>4, <2>6, <3>2, <3>5 DEF WritePage
  <2> QED BY <1>1, <2>4, <2>5, <2>6, <2>7, BlockOfPage DEF Inv
<1>2. Inv /\ [Next]_vars => [\A l \in Block : disk'[l] # disk[l] =>
                               call # None /\ l \in Range(Chain[call.f])]_vars
  BY <1>1
<1> QED BY <1>2, Invariant, PTL DEF Spec, OwnBlocksOnly

--------------------------------------------------------------------------------
(* VfsFile implements FileStore where the files of FAT32 have one cluster, and nothing fails *)
(* but memory and the reads of data and of inodes.                                          *)

Reliable == Fault \subseteq {"data", "inode", "mem"} /\ \A f \in Fat : Len(Chain[f]) = 1

\* The length of a file in its directory entry or in the inode table, and its bytes on the disk.
stored(f) == IF f \in Fat THEN disk[FatDir][f] ELSE itab[f]
byte(f, i) == disk[Chain[f][(i - 1) \div BLK + 1]][(i - 1) % BLK]

\* Inodes in memory agree with the disk, and files with the blocks they have.
Sizes ==
    \A f \in File :
        /\ stored(f) <= BLK * Len(Chain[f])
        /\ inode[f].state = "live" => inode[f].size = stored(f)
        /\ inode[f].state = "negative" => stored(f) = Deleted
        /\ inode[f].state = "unread" => stored(f) # Deleted

\* A read stays within its file; what a write has moved is on the disk, on its blocks.
Written ==
    call # None =>
        /\ call.op = "read" => call.end <= stored(call.f)
        /\ call.op = "write" => /\ call.pos = 0 /\ call.data \in Data
                               /\ call.cur <= BLK * Len(Chain[call.f])
                               /\ \A i \in 1 .. call.cur : byte(call.f, i) = call.data[i]

RInv == Inv /\ Coherent /\ Sizes /\ Written

\* The bytes of a file are on its blocks.
LEMMA ByteFacts ==
    ASSUME TypeOK, NEW f \in File, NEW i \in Nat, 1 <= i, i <= BLK * Len(Chain[f])
    PROVE  \E q, r \in Nat :
             /\ q = (i - 1) \div BLK /\ r = (i - 1) % BLK /\ i - 1 = q * BLK + r
             /\ r \in 0 .. BLK - 1 /\ q + 1 \in DOMAIN Chain[f]
             /\ Chain[f][q + 1] \in Range(Chain[f]) /\ Chain[f][q + 1] \in Block
             /\ byte(f, i) = disk[Chain[f][q + 1]][r] /\ byte(f, i) \in Byte
<1>1. Chain[f] \in Seq(Block) /\ BLK \in Nat \ {0}
  BY VfsAssumption
<1>2. PICK b \in Nat \ {0}, x, n \in Nat : b = BLK /\ x = i - 1 /\ n = Len(Chain[f])
  <2>1. i - 1 \in Nat /\ Len(Chain[f]) \in Nat
    BY <1>1
  <2> QED BY <1>1, <2>1
<1>3. PICK q, r \in Nat : q = x \div b /\ r = x % b /\ x = q * b + r /\ r < b
  BY DivMod
<1>4. q < n
  <2>1. \A u, v \in Nat : u <= v => u * b <= v * b
    BY SMT
  <2>2. q * b \in Nat /\ n * b \in Nat /\ n * b = b * n
    BY SMT
  <2>3. x < b * n
    BY <1>2
  <2>4. ~(n <= q)
    BY <1>3, <2>1, <2>2, <2>3
  <2> QED BY <2>4
<1>5. /\ q + 1 \in DOMAIN Chain[f] /\ Chain[f][q + 1] \in Range(Chain[f])
      /\ Chain[f][q + 1] \in Block
  BY <1>1, <1>2, <1>4 DEF Range
<1>6. byte(f, i) = disk[Chain[f][q + 1]][r]
  BY <1>2, <1>3 DEF byte
<1>7. r \in 0 .. BLK - 1
  BY <1>2, <1>3
<1>8. byte(f, i) \in Byte
  <2>1. disk[Chain[f][q + 1]] \in [0 .. BLK - 1 -> Byte]
    BY <1>5 DEF TypeOK
  <2> QED BY <1>6, <1>7, <2>1
<1> QED BY <1>2, <1>3, <1>5, <1>6, <1>7, <1>8

\* What the abstract variables are while inodes agree with the disk.
LEMMA Mapped ==
    /\ Sizes => /\ exists = { f \in File : stored(f) # Deleted }
                /\ content = [f \in File |-> [i \in 1 .. stored(f) |-> byte(f, i)]]
                /\ \A f \in File : i_size(f) = stored(f)
    /\ Sizes' => /\ exists' = { f \in File : stored(f)' # Deleted }
                 /\ content' = [f \in File |-> [i \in 1 .. stored(f)' |-> byte(f, i)']]
                 /\ \A f \in File : i_size(f)' = stored(f)'
<1>1. Sizes => \A f \in File : i_size(f) = stored(f)
  BY DEF Sizes, i_size, stored
<1>2. Sizes' => \A f \in File : i_size(f)' = stored(f)'
  BY DEF Sizes, i_size, stored
<1>3. Sizes => /\ exists = { f \in File : stored(f) # Deleted }
               /\ content = [f \in File |-> [i \in 1 .. stored(f) |-> byte(f, i)]]
  BY <1>1 DEF exists, content, byte
<1>4. Sizes' => /\ exists' = { f \in File : stored(f)' # Deleted }
                /\ content' = [f \in File |-> [i \in 1 .. stored(f)' |-> byte(f, i)']]
  BY <1>2 DEF exists, content, byte
<1> QED BY <1>1, <1>2, <1>3, <1>4

\* Lengths are numbers, and contents are strings of that length.
LEMMA ContentTypes ==
    ASSUME TypeOK, Sizes, NEW f \in File
    PROVE  /\ stored(f) \in Nat \cup {Deleted}
           /\ content[f] \in Seq(Byte)
           /\ stored(f) \in Nat => Len(content[f]) = stored(f)
           /\ stored(f) = Deleted => content[f] = <<>>
           /\ \A i \in 1 .. stored(f) : content[f][i] = byte(f, i) /\ byte(f, i) \in Byte
<1>1. stored(f) \in Nat \cup {Deleted}
  BY DEF TypeOK, stored, File
<1>2. PICK n \in Nat \cup {Deleted} : n = stored(f)
  BY <1>1
<1>3. content[f] = [i \in 1 .. n |-> byte(f, i)]
  BY <1>2, Mapped
<1>4. BLK \in Nat /\ Len(Chain[f]) \in Nat
  BY VfsAssumption
<1>5. PICK m : m = BLK * Len(Chain[f])
  OBVIOUS
<1>6. m \in Int /\ n <= m
  BY <1>2, <1>4, <1>5 DEF Sizes
<1>7. ASSUME NEW i \in 1 .. n
      PROVE  byte(f, i) \in Byte
  <2>1. i \in Nat /\ 1 <= i /\ i <= m
    BY <1>6, <1>7 DEF Deleted
  <2> QED BY <1>5, <2>1, ByteFacts
<1>8. CASE n \in Nat
  BY <1>2, <1>3, <1>7, <1>8 DEF Deleted
<1>9. CASE n = Deleted
  <2>1. 1 .. n = {}
    BY <1>9 DEF Deleted
  <2>2. content[f] = <<>>
    BY <1>3, <2>1
  <2> QED BY <1>2, <1>9, <2>1, <2>2 DEF Deleted
<1> QED BY <1>2, <1>8, <1>9

\* Steps that change no stored length and no byte of a file.
LEMMA StoreStays ==
    ASSUME Sizes, Sizes', UNCHANGED <<disk, itab>>
    PROVE  exists' = exists /\ content' = content
BY Mapped DEF stored, byte


\* What a fetch brings is what the disk has.
LEMMA FetchedIsOnDisk ==
    ASSUME Coherent, NEW h \in Hosts, NEW l, NEW s, Front1(s, h, l)
    PROVE  Head(s).data = disk[l]
BY DEF Front1, Coherent, Range

\* What a step does to the stored lengths and to the disk, and what the store sees of it.
Quiet == UNCHANGED <<disk, itab>> /\ Sizes' /\ Written'

LEMMA OpenRefines ==
    ASSUME Reliable, RInv, NEW f \in File, Open(f)
    PROVE  Quiet /\ io' = io
<1>1. PICK d, h, s : d \in Dir /\ d = dir_of(f) /\ h = dir_host(d) /\ s = Fetched(h, d)
  BY DEF dir_of, Dir
<1>2. /\ TypeOK /\ Sizes /\ call = None /\ call' = None /\ UNCHANGED <<disk, itab>>
      /\ h \in Hosts /\ Front1(s, h, d) /\ Head(s).data = disk[d]
  <2>1. h \in Hosts /\ Front1(s, h, d)
    BY <1>1, DirFetch DEF RInv, Inv, Hosts
  <2> QED BY <2>1, FetchedIsOnDisk DEF RInv, Inv, Open
<1>3. \/ inode' = Found(f, IF f \in Fat THEN fat32_inode_lookup(f, Head(s).data)
                                      ELSE ext2_inode_lookup(f))
      \/ /\ inode' = [inode EXCEPT ![f].state = "unread"]
         /\ f \in Fat => fat32_inode_lookup(f, Head(s).data) # Deleted
  BY <1>1 DEF Open, FetchFails, Reliable
<1>4. \/ inode' = Found(f, stored(f))
      \/ inode' = [inode EXCEPT ![f].state = "unread"] /\ stored(f) # Deleted
  <2>1. CASE f \in Fat
    <3>1. fat32_inode_lookup(f, Head(s).data) = stored(f)
      <4>1. d = FatDir
        BY <1>1, <2>1 DEF dir_of
      <4> QED BY <1>2, <2>1, <4>1 DEF fat32_inode_lookup, stored
    <3> QED BY <1>3, <2>1, <3>1
  <2>2. CASE f \notin Fat
    <3>1. stored(f) = ext2_inode_lookup(f)
      BY <2>2 DEF ext2_inode_lookup, stored
    <3>2. stored(f) # Deleted
      BY <1>2, <2>2 DEF stored, TypeOK, File, Deleted
    <3> QED BY <1>3, <2>2, <3>1, <3>2
  <2> QED BY <2>1, <2>2
<1>5. \A g \in File : stored(g)' = stored(g)
  BY <1>2 DEF stored
<1>6. ASSUME NEW g \in File
      PROVE  /\ inode'[g].state = "live" => inode'[g].size = stored(g)
             /\ inode'[g].state = "negative" => stored(g) = Deleted
             /\ inode'[g].state = "unread" => stored(g) # Deleted
  <2>1. InodeOK
    BY <1>2, Types
  <2>4. CASE inode' = [inode EXCEPT ![f].state = "unread"] /\ stored(f) # Deleted
    <3>1. inode'[g] = inode[g] \/ (g = f /\ inode'[g].state = "unread")
      BY <2>1, <2>4 DEF InodeOK
    <3> QED BY <1>2, <2>4, <3>1 DEF Sizes
  <2>5. CASE inode' = Found(f, stored(f)) /\ g = f
    <3>1. inode'[f].state = (IF stored(f) = Deleted THEN "negative" ELSE "live")
      BY <2>1, <2>5 DEF Found, InodeOK
    <3>2. inode'[f].size = IF stored(f) = Deleted THEN 0 ELSE stored(f)
      BY <2>1, <2>5 DEF Found, InodeOK
    <3> QED BY <2>5, <3>1, <3>2
  <2>3. CASE inode' = Found(f, stored(f)) /\ g # f
    <3>1. inode'[g] = inode[g]
      BY <2>1, <2>3 DEF Found, InodeOK
    <3> QED BY <1>2, <3>1 DEF Sizes
  <2> QED BY <1>4, <2>3, <2>4, <2>5
<1>7. Sizes'
  BY <1>2, <1>5, <1>6 DEF Sizes
<1> QED BY <1>2, <1>7 DEF Quiet, Written, io

LEMMA ForgetRefines ==
    ASSUME RInv, NEW f \in File, Forget(f)
    PROVE  Quiet /\ io' = io
<1>1. /\ InodeOK /\ Sizes /\ call = None /\ call' = None /\ UNCHANGED <<disk, itab>>
      /\ inode' = [inode EXCEPT ![f] = [gen |-> inode[f].gen + 1, state |-> "none", size |-> 0]]
  BY Types DEF RInv, Inv, Forget
<1>2. \A g \in File : inode'[g] = inode[g] \/ inode'[g].state = "none"
  BY <1>1 DEF InodeOK
<1>3. \A g \in File : stored(g)' = stored(g)
  BY <1>1 DEF stored
<1>4. Sizes'
  BY <1>1, <1>2, <1>3 DEF Sizes
<1> QED BY <1>1, <1>4 DEF Quiet, Written, io

LEMMA ReaddirRefines ==
    ASSUME RInv, NEW d \in Dir, readdir(d)
    PROVE  Quiet /\ io' = io
BY DEF RInv, readdir, Quiet, Sizes, Written, stored, io

\* The step that a file of FAT32 is removed by.
LEMMA RemoveRefines ==
    ASSUME Reliable, RInv, NEW f \in Fat, vfs_rm(f)
    PROVE  Sizes' /\ Written' /\ Store!Remove(f)
<1>1. PICK h, s, entries : /\ h = dir_host(FatDir) /\ s = Fetched(h, FatDir)
                           /\ entries = [Head(s).data EXCEPT ![f] = Deleted]
  OBVIOUS
<1>2. /\ TypeOK /\ InodeOK /\ Sizes /\ call = None /\ call' = None /\ itab' = itab
      /\ inode[f].state \in {"live", "unread"}
      /\ inode' = [inode EXCEPT ![f].state = "negative"]
      /\ disk' = [disk EXCEPT ![FatDir] = entries] /\ f \in File
  BY <1>1, Types DEF RInv, Inv, vfs_rm, writepage, FetchFails, Reliable, File
<1>3. Head(s).data = disk[FatDir]
  <2>1. h \in Hosts /\ Front1(s, h, FatDir)
    BY <1>1, <1>2, DirFetch DEF Dir, Hosts
  <2> QED BY <2>1, FetchedIsOnDisk DEF RInv
<1>4. /\ disk'[FatDir] = [disk[FatDir] EXCEPT ![f] = Deleted]
      /\ \A l \in Block : disk'[l] = disk[l]
  BY <1>1, <1>2, <1>3, Places DEF TypeOK, Dir
<1>5. \A g \in File : stored(g)' = IF g = f THEN Deleted ELSE stored(g)
  BY <1>2, <1>4 DEF stored, TypeOK
<1>6. \A g \in File : \A i \in 1 .. stored(g) : byte(g, i)' = byte(g, i)
  <2> SUFFICES ASSUME NEW g \in File, NEW i \in 1 .. stored(g)
               PROVE  byte(g, i)' = byte(g, i)
    OBVIOUS
  <2>1. i \in Nat /\ 1 <= i /\ i <= BLK * Len(Chain[g])
    <3>1. PICK m, n \in Int : m = BLK * Len(Chain[g]) /\ n = stored(g)
      BY <1>2, VfsAssumption, ContentTypes DEF Deleted
    <3> QED BY <1>2, <3>1 DEF Sizes
  <2>2. Chain[g][(i - 1) \div BLK + 1] \in Block
    BY <1>2, <2>1, ByteFacts
  <2> QED BY <1>4, <2>2 DEF byte
<1>7. Sizes'
  <2>1. ASSUME NEW g \in File
        PROVE  /\ stored(g)' <= BLK * Len(Chain[g])
               /\ inode'[g].state = "live" => inode'[g].size = stored(g)'
               /\ inode'[g].state = "negative" => stored(g)' = Deleted
               /\ inode'[g].state = "unread" => stored(g)' # Deleted
    <3>1. CASE g = f
      <4>1. inode'[g].state = "negative"
        BY <1>2, <3>1 DEF InodeOK
      <4>2. BLK \in Nat /\ Len(Chain[g]) \in Nat
        BY VfsAssumption
      <4>3. Deleted <= BLK * Len(Chain[g])
        BY <4>2, SMT DEF Deleted
      <4> QED BY <1>5, <3>1, <4>1, <4>3
    <3>2. CASE g # f
      BY <1>2, <1>5, <3>2 DEF Sizes, InodeOK
    <3> QED BY <3>1, <3>2
  <2> QED BY <2>1 DEF Sizes
<1>8. /\ \A g \in File : g \in exists <=> stored(g) # Deleted
      /\ \A g \in File : g \in exists' <=> stored(g)' # Deleted
      /\ exists \subseteq File /\ exists' \subseteq File
      /\ content = [g \in File |-> [i \in 1 .. stored(g) |-> byte(g, i)]]
      /\ content' = [g \in File |-> [i \in 1 .. stored(g)' |-> byte(g, i)']]
  BY <1>2, <1>7, Mapped
<1>9. f \in exists
  BY <1>2, <1>8 DEF Sizes, InodeOK, Deleted
<1>10. exists' = exists \ {f}
  BY <1>5, <1>8
<1>11. content' = [content EXCEPT ![f] = <<>>]
  <2>1. content'[f] = <<>>
    <3>1. 1 .. stored(f)' = {}
      BY <1>2, <1>5 DEF Deleted
    <3> QED BY <1>2, <1>8, <3>1
  <2>2. \A g \in File : g # f => content'[g] = content[g]
    BY <1>5, <1>6, <1>8
  <2>3. content = [g \in File |-> content[g]] /\ content' = [g \in File |-> content'[g]]
    BY <1>8
  <2> QED BY <2>1, <2>2, <2>3
<1>12. io = None /\ io' = None
  BY <1>2 DEF io
<1> QED BY <1>2, <1>7, <1>9, <1>10, <1>11, <1>12 DEF Written, Store!Remove


LEMMA BeginRefines ==
    ASSUME RInv, NEW op \in {"read", "write"}, NEW f \in File, NEW pos \in Nat, NEW n \in Nat,
           NEW data \in Seq(Byte), Begin(op, f, pos, n, data),
           op = "read" => pos + n <= inode[f].size,
           op = "write" => pos = 0 /\ data \in Data
    PROVE  /\ Quiet /\ io = None /\ f \in exists /\ stored(f) = inode[f].size
           /\ io' = [op |-> op, f |-> f, pos |-> pos, count |-> n, cur |-> 0, data |-> data]
<1>1. /\ InodeOK /\ Sizes /\ TypeOK /\ call = None /\ UNCHANGED <<disk, itab, pcache, inode>>
      /\ inode[f].state = "live" /\ inode[f].size \in Nat
      /\ \E end : /\ end = EndPos(op, f, pos, n)
                  /\ call' = [op |-> op, f |-> f, pos |-> pos, count |-> n, end |-> end,
                              page |-> pos \div BLK, cur |-> 0, data |-> data]
  BY Types DEF RInv, Inv, Begin, TypeOK
<1>2. PICK end : /\ end = EndPos(op, f, pos, n)
                 /\ call' = [op |-> op, f |-> f, pos |-> pos, count |-> n, end |-> end,
                             page |-> pos \div BLK, cur |-> 0, data |-> data]
  BY <1>1
<1>3. end = pos + n
  BY <1>1, <1>2 DEF EndPos
<1>4. stored(f) = inode[f].size /\ \A g \in File : stored(g)' = stored(g)
  BY <1>1 DEF Sizes, stored
<1>5. Sizes'
  BY <1>1, <1>4 DEF Sizes
<1>6. call' # None
  <2>1. PICK p : p = pos \div BLK
    OBVIOUS
  <2>2. BLK \in Nat \ {0} /\ pos + n \in Nat
    BY VfsAssumption
  <2>3. p \in Nat
    BY <2>1, <2>2, DivMod
  <2>4. call' \in Calls
    BY <1>2, <1>3, <2>1, <2>2, <2>3 DEF Calls
  <2> QED BY <2>4, VfsAssumption
<1>7. Written'
  <2>1. op = "read" => end <= stored(f)'
    BY <1>3, <1>4
  <2>2. call'.f = f /\ call'.op = op /\ call'.end = end /\ call'.cur = 0 /\ call'.pos = pos
        /\ call'.data = data
    BY <1>2
  <2>3. 0 <= BLK * Len(Chain[f])
    <3>1. \A u, v \in Nat : 0 <= u * v
      BY SMT
    <3>2. BLK \in Nat /\ Len(Chain[f]) \in Nat
      BY VfsAssumption
    <3> QED BY <3>1, <3>2
  <2> QED BY <2>1, <2>2, <2>3 DEF Written
<1>8. io' = [op |-> op, f |-> f, pos |-> pos, count |-> n, cur |-> 0, data |-> data]
  BY <1>2, <1>6 DEF io
<1>9. io = None /\ f \in exists
  BY <1>1, <1>4, Mapped DEF io, Deleted
<1> QED BY <1>1, <1>4, <1>5, <1>7, <1>8, <1>9 DEF Quiet

LEMMA BeginReadRefines ==
    ASSUME RInv, NEW f \in File, NEW pos \in 0 .. MaxCount, NEW n \in 1 .. MaxCount,
           generic_file_read(f, pos, n)
    PROVE  Sizes' /\ Written' /\ Store!BeginRead(f, pos, n)
<1>1. PICK none \in Seq(Byte) : none = <<>>
  <2>1. <<>> \in Seq(Byte)
    BY SMT
  <2> QED BY <2>1
<1>2. PICK op : op = "read"
  OBVIOUS
<1>3. /\ Begin(op, f, pos, n, none) /\ pos + n <= inode[f].size
      /\ pos \in Nat /\ n \in Nat /\ op \in {"read", "write"} /\ op # "write"
  BY <1>1, <1>2, VfsAssumption DEF generic_file_read
<1>4. /\ Quiet /\ io = None /\ f \in exists /\ stored(f) = inode[f].size
      /\ io' = [op |-> op, f |-> f, pos |-> pos, count |-> n, cur |-> 0, data |-> none]
  BY <1>2, <1>3, BeginRefines
<1>5. exists' = exists /\ content' = content
  BY <1>4, StoreStays DEF RInv, Quiet
<1>6. pos + n <= Len(content[f])
  <2>1. stored(f) \in Nat
    BY <1>4 DEF RInv, Inv, TypeOK
  <2> QED BY <1>3, <1>4, <2>1, ContentTypes DEF RInv, Inv
<1> QED BY <1>1, <1>2, <1>4, <1>5, <1>6 DEF Quiet, Store!BeginRead

LEMMA BeginWriteRefines ==
    ASSUME RInv, NEW f \in File, NEW data \in Data, generic_file_write(f, data)
    PROVE  Sizes' /\ Written' /\ Store!BeginWrite(f, 0, data)
<1>1. PICK op, n : op = "write" /\ n = Len(data)
  OBVIOUS
<1>2. /\ Begin(op, f, 0, n, data) /\ n \in Nat /\ op \in {"read", "write"} /\ op # "read"
      /\ 0 \in Nat /\ data \in Seq(Byte)
  BY <1>1, VfsAssumption DEF generic_file_write
<1>3. /\ Quiet /\ io = None /\ f \in exists
      /\ io' = [op |-> op, f |-> f, pos |-> 0, count |-> n, cur |-> 0, data |-> data]
  BY <1>2, BeginRefines
<1>4. exists' = exists /\ content' = content
  BY <1>3, StoreStays DEF RInv, Quiet
<1> QED BY <1>1, <1>3, <1>4 DEF Quiet, Store!BeginWrite

\* The block a turn of the loop is at, and that the page fetched is what it has.
LEMMA AtBlock ==
    ASSUME Reliable, RInv, call # None, NEW l \in Home, l # BlockZero,
           NEW s, s = Fetched(host(call.f), l)
    PROVE  /\ l = Chain[call.f][call.page + 1] /\ l \in Block
           /\ call.page + 1 \in DOMAIN Chain[call.f]
           /\ Head(s).data = disk[l] /\ disk[l] \in [0 .. BLK - 1 -> Byte]
<1>1. /\ call.page \in Nat /\ call.page < Len(Chain[call.f]) /\ call.f \in File
      /\ Chain[call.f] \in Seq(Block) /\ l = bmap(call.f, call.page)
  BY BlockOfPage, VfsAssumption DEF RInv, Inv, HasPage
<1>2. l = Chain[call.f][call.page + 1]
  <2>1. CASE call.f \in Fat
    <3>1. call.page = 0
      <4>1. Len(Chain[call.f]) = 1
        BY <2>1 DEF Reliable
      <4> QED BY <1>1, <4>1
    <3> QED BY <1>1, <2>1, <3>1 DEF bmap, fat32_bmap
  <2>2. CASE call.f \notin Fat
    BY <1>1, <2>2 DEF bmap, ext2_bmap
  <2> QED BY <2>1, <2>2
<1>3. PICK h : h = host(call.f)
  OBVIOUS
<1>4. h \in Hosts /\ Front1(s, h, l) /\ l \in Block
  BY <1>1, <1>3, DataFetch DEF RInv, Hosts
<1>5. Head(s).data = disk[l]
  BY <1>4, FetchedIsOnDisk DEF RInv
<1>6. call.page + 1 \in DOMAIN Chain[call.f]
  BY <1>1
<1> QED BY <1>2, <1>4, <1>5, <1>6 DEF RInv, Inv, TypeOK

\* The place in the file of a byte on the page that a call is at.
LEMMA ByteOfPage ==
    ASSUME NEW c \in Calls, c.f \in File, c.page + 1 \in DOMAIN Chain[c.f],
           NEW r \in 0 .. BLK - 1
    PROVE  /\ c.page * BLK + r + 1 \in Nat
           /\ byte(c.f, c.page * BLK + r + 1) = disk[Chain[c.f][c.page + 1]][r]
<1>1. c.page \in Nat /\ BLK \in Nat \ {0}
  BY VfsAssumption DEF Calls
<1>2. PICK p \in Nat, b \in Nat \ {0} : p = c.page /\ b = BLK
  BY <1>1
<1>3. PICK w \in Nat : w = p * b
  BY SMT
<1>4. (w + r) \div b = p /\ (w + r) % b = r
  BY <1>2, <1>3, PlaceOf
<1>5. PICK x \in Nat : x = w + r + 1 /\ x - 1 = w + r
  BY <1>3
<1>6. c.page * BLK + r + 1 = x
  BY <1>2, <1>3, <1>5
<1>7. byte(c.f, x) = disk[Chain[c.f][p + 1]][r]
  BY <1>2, <1>4, <1>5 DEF byte
<1> QED BY <1>2, <1>6, <1>7

\* What the store sees of a call is a call.
LEMMA IoIsThere ==
    ASSUME TypeOK, call # None
    PROVE  /\ io # None
           /\ io = [op |-> call.op, f |-> call.f, pos |-> call.pos, count |-> call.count,
                    cur |-> call.cur, data |-> call.data]
           /\ io \in StoreCalls
<1>1. call \in Calls
  BY DEF TypeOK
<1>2. io = [op |-> call.op, f |-> call.f, pos |-> call.pos, count |-> call.count,
            cur |-> call.cur, data |-> call.data]
  BY DEF io
<1>3. io \in StoreCalls
  BY <1>1, <1>2 DEF Calls, StoreCalls
<1> QED BY <1>2, <1>3, VfsAssumption

\* The records of calls that have moved on.
LEMMA IoMoves ==
    ASSUME NEW j \in StoreCalls, NEW m, NEW v
    PROVE  /\ [j EXCEPT !.cur = m, !.data = v]
                = [op |-> j.op, f |-> j.f, pos |-> j.pos, count |-> j.count, cur |-> m, data |-> v]
           /\ [j EXCEPT !.cur = m]
                = [op |-> j.op, f |-> j.f, pos |-> j.pos, count |-> j.count, cur |-> m,
                   data |-> j.data]
<1>1. [j EXCEPT !.cur = m, !.data = v]
         = [op |-> j.op, f |-> j.f, pos |-> j.pos, count |-> j.count, cur |-> m, data |-> v]
  <2>1. PICK a, b : /\ a = [j EXCEPT !.cur = m, !.data = v]
                    /\ b = [op |-> j.op, f |-> j.f, pos |-> j.pos, count |-> j.count, cur |-> m,
                            data |-> v]
    OBVIOUS
  <2>2. a \in [op : {j.op}, f : {j.f}, pos : {j.pos}, count : {j.count}, cur : {m}, data : {v}]
    BY <2>1 DEF StoreCalls
  <2>3. b \in [op : {j.op}, f : {j.f}, pos : {j.pos}, count : {j.count}, cur : {m}, data : {v}]
    BY <2>1
  <2>4. a = b
    BY <2>2, <2>3
  <2> QED BY <2>1, <2>4
<1>2. [j EXCEPT !.cur = m]
         = [op |-> j.op, f |-> j.f, pos |-> j.pos, count |-> j.count, cur |-> m, data |-> j.data]
  BY DEF StoreCalls
<1> QED BY <1>1, <1>2

\* A turn of a read brings the next bytes of the file.
LEMMA ReadRefines ==
    ASSUME Reliable, RInv, InLoop("read"), NEW l \in Home, l # BlockZero, ReadPage(l)
    PROVE  Quiet /\ io # None /\ \E n \in 0 .. io.count - io.cur : Store!MoveRead(n)
<1>1. /\ call # None /\ call.page <= EndPage(call) /\ call.op = "read" /\ TypeOK /\ Progress
      /\ Sizes /\ Inv /\ call \in Calls
  BY DEF InLoop, Running, RInv, Inv, TypeOK
<1>2. PICK c : c = call
  OBVIOUS
<1>3. PICK s, n, bytes :
        /\ s = Fetched(host(c.f), l) /\ n = To(c) - From(c)
        /\ bytes = [i \in 1 .. n |-> Head(s).data[From(c) + i - 1]]
  OBVIOUS
<1>4. /\ UNCHANGED <<disk, itab, inode>>
      /\ call' = [c EXCEPT !.page = @ + 1, !.cur = @ + n, !.data = @ \o bytes]
  BY <1>2, <1>3 DEF ReadPage
<1>5. /\ From(c) \in 0 .. BLK /\ To(c) \in 0 .. BLK /\ From(c) <= To(c)
      /\ BLK \in Nat /\ n \in Nat /\ c.cur + To(c) - From(c) <= c.count
  BY <1>1, <1>2, <1>3, Between
<1>6. c.f \in File /\ c.pos \in Nat /\ c.cur \in Nat /\ c.count \in Nat /\ c.page \in Nat
  BY <1>1, <1>2 DEF Calls
<1>7. PICK from, to, b, cur, count, pos, page \in Nat :
        /\ from = From(c) /\ to = To(c) /\ b = BLK /\ cur = c.cur /\ count = c.count
        /\ pos = c.pos /\ page = c.page
  <2>1. From(c) \in Nat /\ To(c) \in Nat
    BY <1>5
  <2> QED BY <1>5, <1>6, <2>1
<1>8. n = to - from /\ n \in Nat /\ to <= b /\ from <= to /\ cur + n <= count
  BY <1>3, <1>5, <1>7
<1>9. /\ page + 1 \in DOMAIN Chain[c.f] /\ Head(s).data = disk[Chain[c.f][page + 1]]
  BY <1>1, <1>2, <1>3, <1>7, AtBlock
<1>10. page * b + from = pos + cur
  <2>1. PICK d : d = [c EXCEPT !.page = page + 1]
    OBVIOUS
  <2>2. d \in Calls /\ d.page = c.page + 1 /\ d.pos = c.pos /\ d.end = c.end /\ d.count = c.count
    BY ONLY <1>1, <1>2, <1>7, <2>1 DEF Calls
  <2>3. c.page * BLK + From(c) = c.pos + c.cur
    BY <1>1, <1>2, <2>2, TurnFacts DEF Progress
  <2> QED BY <1>7, <2>3
<1>11. ASSUME NEW i \in 1 .. n
       PROVE  byte(c.f, pos + cur + i) = bytes[i]
  <2>1. PICK r \in 0 .. BLK - 1 : r = from + i - 1
    BY <1>7, <1>8
  <2>2. byte(c.f, c.page * BLK + r + 1) = disk[Chain[c.f][c.page + 1]][r]
    BY <1>1, <1>2, <1>6, <1>7, <1>9, ByteOfPage
  <2>3. c.page * BLK + r + 1 = pos + cur + i
    <3>1. PICK w \in Nat : w = page * b
      BY SMT
    <3> QED BY <1>7, <1>10, <2>1, <3>1
  <2>4. bytes[i] = Head(s).data[r]
    BY <1>3, <1>7, <2>1
  <2> QED BY <1>7, <1>9, <2>2, <2>3, <2>4
<1>12. PICK size \in Nat : size = stored(c.f) /\ pos + count <= size
  <2>1. c.end = pos + count /\ c.end <= stored(c.f) /\ inode[c.f].state = "live"
    BY <1>1, <1>2, <1>7 DEF RInv, Progress, Written
  <2>2. stored(c.f) \in Nat
    BY <1>1, <1>6, <2>1 DEF Sizes, TypeOK
  <2> QED BY <2>1, <2>2
<1>13. PICK t \in Seq(Byte) : t = content[c.f] /\ Len(t) = size
                             /\ \A i \in 1 .. size : t[i] = byte(c.f, i)
  BY <1>1, <1>6, <1>12, ContentTypes
<1>14. bytes \in Seq(Byte) /\ bytes = SubSeq(t, pos + cur + 1, pos + cur + n)
  <2>1. PICK x \in Nat : x = pos + cur
    BY <1>7
  <2>2. n \in Nat /\ x + n <= size
    BY <1>5, <1>8, <1>12, <2>1
  <2>3. ASSUME NEW i \in 1 .. n
        PROVE  bytes[i] = t[x + i] /\ t[x + i] \in Byte
    <3>1. x + i \in 1 .. size /\ pos + cur + i = x + i
      BY <2>1, <2>2
    <3> QED BY <1>11, <1>13, <3>1
  <2>4. PICK lo, hi \in Nat : lo = x + 1 /\ hi = x + n
    BY <2>2
  <2>5. \A j \in lo .. hi : t[j] \in Byte
    BY <1>13, <2>2, <2>4
  <2>6. PICK u : u = SubSeq(t, lo, hi)
    OBVIOUS
  <2>7. u \in Seq(Byte) /\ Len(u) = n /\ \A i \in 1 .. n : u[i] = t[x + i]
    <3>1. /\ u \in Seq(Byte) /\ Len(u) = IF lo <= hi THEN hi - lo + 1 ELSE 0
          /\ \A i \in 1 .. hi - lo + 1 : u[i] = t[lo + i - 1]
      BY <2>5, <2>6, SubSeqProperties
    <3>2. \A i \in 1 .. n : lo + i - 1 = x + i
      BY <2>2, <2>4
    <3> QED BY <2>2, <2>4, <3>1, <3>2
  <2>8. bytes \in Seq(Byte) /\ Len(bytes) = n
    <3>1. bytes = [i \in 1 .. n |-> bytes[i]] /\ \A i \in 1 .. n : bytes[i] \in Byte
      BY <1>3, <2>3
    <3>2. bytes \in [1 .. n -> Byte]
      BY <3>1
    <3> QED BY <2>2, <3>2
  <2>9. bytes = u
    BY <2>3, <2>7, <2>8, SeqEqual
  <2> QED BY <2>1, <2>4, <2>6, <2>8, <2>9
<1>15. call' # None /\ call'.f = c.f /\ call'.op = c.op /\ call'.end = c.end
       /\ call' = [c EXCEPT !.page = page + 1, !.cur = cur + n, !.data = c.data \o bytes]
  <2>1. call' = [c EXCEPT !.page = page + 1, !.cur = cur + n, !.data = c.data \o bytes]
    BY <1>4, <1>7
  <2>2. call'.f = c.f /\ call'.op = c.op /\ call'.end = c.end
    BY ONLY <1>1, <1>2, <2>1 DEF Calls
  <2>3. c.data \o bytes \in Seq(Byte) /\ cur + n \in Nat /\ page + 1 \in Nat
    <3>1. PICK v \in Seq(Byte) : v = c.data
      BY <1>1, <1>2 DEF Calls
    <3>2. v \o bytes \in Seq(Byte)
      BY <1>14
    <3>3. cur + n \in Nat /\ page + 1 \in Nat
      BY <1>8
    <3> QED BY <3>1, <3>2, <3>3
  <2>4. call' \in Calls
    BY ONLY <1>1, <1>2, <2>1, <2>3 DEF Calls
  <2> QED BY <2>1, <2>2, <2>4, VfsAssumption
<1>16. Quiet
  <2>1. \A g \in File : stored(g)' = stored(g)
    BY <1>4 DEF stored
  <2>2. Sizes'
    BY <1>1, <1>4, <2>1 DEF Sizes
  <2>3. Written'
    BY <1>1, <1>2, <1>4, <1>15, <2>1, <1>6 DEF Written, RInv
  <2> QED BY <1>4, <2>2, <2>3 DEF Quiet
<1>17. /\ io = [op |-> c.op, f |-> c.f, pos |-> pos, count |-> count, cur |-> cur, data |-> c.data]
       /\ io' = [io EXCEPT !.cur = @ + n, !.data = @ \o bytes]
  <2>1. io = [op |-> c.op, f |-> c.f, pos |-> pos, count |-> count, cur |-> cur, data |-> c.data]
    BY <1>1, <1>2, <1>7 DEF io
  <2>2. PICK d, m, v : d = call' /\ m = cur + n /\ v = c.data \o bytes
    OBVIOUS
  <2>3. /\ d.op = c.op /\ d.f = c.f /\ d.pos = c.pos /\ d.count = c.count
        /\ d.cur = m /\ d.data = v
    <3>1. d = [c EXCEPT !.page = page + 1, !.cur = m, !.data = v]
      BY <1>15, <2>2
    <3> QED BY ONLY <1>1, <1>2, <3>1 DEF Calls
  <2>4. io' = [op |-> c.op, f |-> c.f, pos |-> pos, count |-> count, cur |-> m, data |-> v]
    BY <1>7, <1>15, <2>2, <2>3 DEF io
  <2>5. PICK j \in StoreCalls : j = io
    BY <1>1, IoIsThere DEF TypeOK, Calls, StoreCalls
  <2>6. j = [op |-> c.op, f |-> c.f, pos |-> pos, count |-> count, cur |-> cur, data |-> c.data]
    BY <2>1, <2>5
  <2>7. [j EXCEPT !.cur = m, !.data = v]
           = [op |-> c.op, f |-> c.f, pos |-> pos, count |-> count, cur |-> m, data |-> v]
    <3>1. [j EXCEPT !.cur = m, !.data = v]
             = [op |-> j.op, f |-> j.f, pos |-> j.pos, count |-> j.count, cur |-> m, data |-> v]
      BY IoMoves
    <3>2. j.op = c.op /\ j.f = c.f /\ j.pos = pos /\ j.count = count
      BY <2>6
    <3> QED BY <3>1, <3>2
  <2>8. io' = [j EXCEPT !.cur = m, !.data = v]
    BY <2>4, <2>7
  <2> QED BY <2>1, <2>2, <2>5, <2>6, <2>8
<1>18. exists' = exists /\ content' = content
  BY <1>1, <1>16, StoreStays DEF Quiet
<1>19. io # None /\ io.count - io.cur = count - cur /\ io.op = "read"
  BY <1>1, <1>2, <1>17, IoIsThere
<1>20. n \in 0 .. io.count - io.cur
  BY <1>8, <1>19
<1>21. io' = [io EXCEPT !.cur = @ + n,
                        !.data = @ \o SubSeq(content[io.f], io.pos + io.cur + 1,
                                             io.pos + io.cur + n)]
  BY <1>13, <1>14, <1>17
<1>22. Store!MoveRead(n)
  BY <1>18, <1>19, <1>21 DEF Store!MoveRead
<1> QED BY <1>16, <1>19, <1>20, <1>22

\* Two places within pages are the same only on the same page.
LEMMA SamePlace ==
    ASSUME NEW b \in Nat \ {0}, NEW q \in Nat, NEW p \in Nat, NEW r \in 0 .. b - 1,
           NEW o \in 0 .. b - 1, q * b + r = p * b + o
    PROVE  q = p /\ r = o
<1>1. (q * b + r) \div b = q /\ (q * b + r) % b = r
  BY PlaceOf
<1>2. (p * b + o) \div b = p /\ (p * b + o) % b = o
  BY PlaceOf
<1> QED BY <1>1, <1>2, Zenon

\* A block of f gets the bytes of data from place x on, and is then as new says.
Overwritten(f, page, l, data, from, to, x, new) ==
    /\ f \in File /\ page \in Nat /\ page + 1 \in DOMAIN Chain[f] /\ l = Chain[f][page + 1]
    /\ from \in 0 .. BLK /\ to \in 0 .. BLK /\ x \in Nat /\ x = page * BLK + from
    /\ \A r \in 0 .. BLK - 1 :
          new[r] = IF r \in from .. to - 1 THEN data[x + r - from + 1] ELSE disk[l][r]
    /\ disk' = [disk EXCEPT ![l] = new]

\* The bytes of files after a block of one of them has been written to.
LEMMA ByteWritten ==
    ASSUME TypeOK, NEW f, NEW page, NEW l, NEW data, NEW from, NEW to, NEW x, NEW new,
           Overwritten(f, page, l, data, from, to, x, new),
           NEW g \in File, NEW i \in Nat, 1 <= i, i <= BLK * Len(Chain[g])
    PROVE  byte(g, i)' = IF g = f /\ i - 1 \in x .. x + (to - from) - 1 THEN data[i] ELSE byte(g, i)
<1>1. /\ f \in File /\ page \in Nat /\ page + 1 \in DOMAIN Chain[f] /\ l = Chain[f][page + 1]
      /\ from \in 0 .. BLK /\ to \in 0 .. BLK /\ x \in Nat /\ x = page * BLK + from
      /\ disk' = [disk EXCEPT ![l] = new]
      /\ \A r \in 0 .. BLK - 1 :
            new[r] = IF r \in from .. to - 1 THEN data[x + r - from + 1] ELSE disk[l][r]
  BY DEF Overwritten
<1> USE <1>1
<1>2. PICK q, r \in Nat :
        /\ q = (i - 1) \div BLK /\ r = (i - 1) % BLK /\ i - 1 = q * BLK + r
        /\ r \in 0 .. BLK - 1 /\ q + 1 \in DOMAIN Chain[g]
        /\ Chain[g][q + 1] \in Range(Chain[g]) /\ Chain[g][q + 1] \in Block
        /\ byte(g, i) = disk[Chain[g][q + 1]][r]
  BY ByteFacts
<1>3. byte(g, i)' = disk'[Chain[g][q + 1]][r]
  BY <1>2 DEF byte
<1>4. BLK \in Nat \ {0} /\ \A h \in File : Chain[h] \in Seq(Block) /\ IsInjective(Chain[h])
  BY VfsAssumption
<1>5. PICK b \in Nat \ {0}, w, v \in Nat : b = BLK /\ w = page * b /\ v = q * b
  <2>1. page * BLK \in Nat /\ q * BLK \in Nat
    BY <1>4, SMT
  <2> QED BY <1>4, <2>1
<1>6. from \in Nat /\ to \in Nat /\ to <= b /\ x = w + from /\ i - 1 = v + r /\ r < b
  BY <1>2, <1>4, <1>5
<1>7. l \in DOMAIN disk /\ l \in Range(Chain[f])
  <2>1. l \in Range(Chain[f]) /\ l \in Block
    BY <1>4 DEF Range
  <2> QED BY <2>1 DEF TypeOK
<1>8. CASE Chain[g][q + 1] = l
  <2>1. g = f
    BY <1>2, <1>7, <1>8, VfsAssumption
  <2>2. q = page
    <3>1. q + 1 = page + 1
      <4>1. IsInjective(Chain[f])
        BY <1>4
      <4> QED BY <1>2, <1>8, <2>1, <4>1 DEF IsInjective
    <3> QED BY <3>1
  <2>3. byte(g, i)' = new[r]
    BY <1>3, <1>7, <1>8
  <2>4. v = w
    BY <1>5, <2>2
  <2>5. r \in from .. to - 1 <=> i - 1 \in x .. x + (to - from) - 1
    BY <1>6, <2>4
  <2>6. x + r - from + 1 = i
    <3>1. PICK a \in Nat : a = from /\ x = w + a
      BY <1>6
    <3>2. w + a + r - a + 1 = i
      BY ONLY <1>6, <2>4, i \in Nat, r \in Nat, w \in Nat, v \in Nat, a \in Nat
    <3> QED BY <3>1, <3>2
  <2> QED BY <1>2, <1>8, <2>1, <2>3, <2>5, <2>6
<1>9. CASE Chain[g][q + 1] # l
  <2>1. byte(g, i)' = byte(g, i)
    BY <1>2, <1>3, <1>9
  <2>2. ASSUME g = f, i - 1 \in x .. x + (to - from) - 1
        PROVE  FALSE
    <3>1. PICK o \in Nat : i - 1 = w + o /\ o < to
      BY <1>6, <2>2
    <3>2. o \in 0 .. b - 1 /\ r \in 0 .. b - 1
      BY <1>6, <3>1
    <3>3. q * b + r = page * b + o
      BY <1>5, <1>6, <3>1
    <3>4. q = page
      BY <3>2, <3>3, SamePlace
    <3> QED BY <1>9, <2>2, <3>4
  <2> QED BY <2>1, <2>2
<1> QED BY <1>8, <1>9

\* A turn of a write puts the next bytes into the file.
LEMMA WriteRefines ==
    ASSUME Reliable, RInv, InLoop("write"), NEW l \in Home, l # BlockZero, WritePage(l)
    PROVE  /\ Sizes' /\ Written'
           /\ io # None /\ \E n \in 0 .. io.count - io.cur : Store!MoveWrite(n)
<1>1. /\ call # None /\ call.page <= EndPage(call) /\ call.op = "write" /\ TypeOK /\ Progress
      /\ Sizes /\ Inv /\ call \in Calls /\ Written
  BY DEF InLoop, Running, RInv, Inv, TypeOK
<1>2. PICK c : c = call
  OBVIOUS
<1>3. PICK s, n, new, old : /\ s = Fetched(host(c.f), l) /\ n = To(c) - From(c)
                            /\ old = Head(s).data /\ new = Overlay(old)
  OBVIOUS
<1>4. UNCHANGED <<itab, inode>> /\ disk' = [disk EXCEPT ![l] = new]
  BY <1>2, <1>3 DEF WritePage, writepage, Reliable
<1>5. /\ From(c) \in 0 .. BLK /\ To(c) \in 0 .. BLK /\ From(c) <= To(c)
      /\ BLK \in Nat /\ n \in Nat /\ c.cur + To(c) - From(c) <= c.count
  BY <1>1, <1>2, <1>3, Between
<1>6. /\ c.f \in File /\ c.cur \in Nat /\ c.count \in Nat /\ c.page \in Nat /\ c.pos = 0
      /\ c.data \in Data /\ \A i \in 1 .. c.cur : byte(c.f, i) = c.data[i]
  BY <1>1, <1>2 DEF Calls, Written
<1>7. PICK from, to, b, cur, count, page \in Nat :
        /\ from = From(c) /\ to = To(c) /\ b = BLK /\ cur = c.cur /\ count = c.count
        /\ page = c.page
  <2>1. From(c) \in Nat /\ To(c) \in Nat
    BY <1>5
  <2> QED BY <1>5, <1>6, <2>1
<1>8. n = to - from /\ n \in Nat /\ to <= b /\ from <= to /\ cur + n <= count
  BY <1>3, <1>5, <1>7
<1>9. /\ page + 1 \in DOMAIN Chain[c.f] /\ l = Chain[c.f][page + 1] /\ l \in Block
      /\ old = disk[l]
  BY <1>1, <1>2, <1>3, <1>7, AtBlock
<1>10. cur = page * BLK + from
  <2>1. PICK d : d = [c EXCEPT !.page = page + 1]
    OBVIOUS
  <2>2. d \in Calls /\ d.page = c.page + 1 /\ d.pos = c.pos /\ d.end = c.end /\ d.count = c.count
    BY ONLY <1>1, <1>2, <1>7, <2>1 DEF Calls
  <2>3. c.page * BLK + From(c) = c.pos + c.cur
    BY <1>1, <1>2, <2>2, TurnFacts DEF Progress
  <2> QED BY <1>6, <1>7, <2>3
<1>11. \A r \in 0 .. BLK - 1 :
          new[r] = IF r \in from .. to - 1 THEN c.data[cur + r - from + 1] ELSE disk[l][r]
  BY <1>2, <1>3, <1>7, <1>9 DEF Overlay
<1>12. PICK m : m = cur + n
  OBVIOUS
<1>13. ASSUME NEW g \in File, NEW i \in Nat, 1 <= i, i <= BLK * Len(Chain[g])
       PROVE  byte(g, i)' = IF g = c.f /\ i - 1 \in cur .. m - 1 THEN c.data[i] ELSE byte(g, i)
  <2>1. from \in 0 .. BLK /\ to \in 0 .. BLK /\ cur + (to - from) - 1 = m - 1
    BY <1>7, <1>8, <1>12
  <2>2. PICK f, t : f = c.f /\ t = c.data /\ f \in File
    BY <1>6
  <2>3. Overwritten(f, page, l, t, from, to, cur, new)
    BY <1>4, <1>9, <1>10, <1>11, <2>1, <2>2 DEF Overwritten
  <2>4. byte(g, i)' = IF g = f /\ i - 1 \in cur .. cur + (to - from) - 1
                      THEN t[i] ELSE byte(g, i)
    BY <1>1, <1>13, <2>3, ByteWritten
  <2> QED BY <2>1, <2>2, <2>4
<1>14. \A g \in File : stored(g)' = stored(g)
  <2>1. disk'[FatDir] = disk[FatDir]
    BY <1>4, <1>9, Places
  <2> QED BY <1>4, <2>1 DEF stored
<1>15. Sizes'
  BY <1>1, <1>4, <1>14 DEF Sizes
<1>16. /\ call' # None /\ call'.f = c.f /\ call'.op = c.op /\ call'.data = c.data
       /\ call'.pos = c.pos /\ call'.count = c.count /\ call'.cur = m
  <2>1. PICK k \in Nat : k = page + 1
    OBVIOUS
  <2>2. c.cur + To(c) - From(c) = m
    BY <1>7, <1>8, <1>12
  <2>3. call' = [c EXCEPT !.page = k, !.cur = m] /\ m \in Nat
    BY <1>2, <1>7, <1>8, <1>12, <2>1, <2>2 DEF WritePage
  <2>4. /\ call'.f = c.f /\ call'.op = c.op /\ call'.data = c.data
        /\ call'.pos = c.pos /\ call'.count = c.count /\ call'.cur = m
    BY ONLY <1>1, <1>2, <2>3 DEF Calls
  <2>5. call' \in Calls
    BY ONLY <1>1, <1>2, <2>1, <2>3 DEF Calls
  <2> QED BY <2>4, <2>5, VfsAssumption
<1>23. \E top \in Nat : top = BLK * Len(Chain[c.f]) /\ m <= top
  <2>1. PICK k \in Nat : k = Len(Chain[c.f]) /\ page + 1 <= k
    BY <1>6, <1>9, VfsAssumption
  <2>2. PICK w, top \in Nat : w = page * b /\ top = b * k
    <3>1. \A u, v \in Nat : u * v \in Nat
      BY SMT
    <3> QED BY <3>1, <2>1
  <2>3. w + b <= top
    <3>1. \A u, v \in Nat : u + 1 <= v => u * b + b <= b * v
      BY SMT
    <3> QED BY <2>1, <2>2, <3>1
  <2>4. cur = w + from
    BY <1>7, <1>10, <2>2
  <2>5. top = BLK * Len(Chain[c.f]) /\ m <= top
    <3>1. m = w + to
      BY <1>7, <1>8, <1>12, <2>2, <2>4
    <3>2. m <= top
      BY <1>7, <1>8, <2>2, <2>3, <3>1
    <3>3. b = BLK
      BY <1>7
    <3>4. top = BLK * Len(Chain[c.f])
      BY ONLY <2>1, <2>2, <3>3
    <3> QED BY <3>2, <3>4
  <2> QED BY <2>5
<1>17. Written'
  <2>1. ASSUME NEW i \in 1 .. m
        PROVE  byte(c.f, i)' = c.data[i]
    <3>1. PICK top \in Nat : top = BLK * Len(Chain[c.f]) /\ m <= top
      BY <1>23
    <3>2. i \in Nat /\ 1 <= i /\ i <= top
      BY <1>7, <1>8, <1>12, <2>1, <3>1
    <3>3. byte(c.f, i)' = IF i - 1 \in cur .. m - 1 THEN c.data[i] ELSE byte(c.f, i)
      BY <1>6, <1>13, <3>1, <3>2
    <3>4. i - 1 \in cur .. m - 1 \/ i \in 1 .. cur
      BY <1>7, <1>8, <1>12, <2>1
    <3> QED BY <1>6, <1>7, <3>3, <3>4
  <2>2. m <= BLK * Len(Chain[c.f])
    BY <1>23
  <2> QED BY <1>1, <1>2, <1>6, <1>16, <2>1, <2>2 DEF Written
<1>18. content' = [content EXCEPT ![c.f] = Store!Put(content[c.f], 0, c.data, cur, m)]
  <2>1. /\ content = [g \in File |-> [i \in 1 .. stored(g) |-> byte(g, i)]]
        /\ content' = [g \in File |-> [i \in 1 .. stored(g) |-> byte(g, i)']]
    BY <1>1, <1>14, <1>15, Mapped
  <2>2. ASSUME NEW g \in File
        PROVE  \A i \in 1 .. stored(g) :
                  byte(g, i)' = IF g = c.f /\ i - 1 \in cur .. m - 1 THEN c.data[i] ELSE byte(g, i)
    <3>1. PICK top, size \in Int : top = BLK * Len(Chain[g]) /\ size = stored(g)
      BY <1>1, VfsAssumption, ContentTypes DEF Deleted
    <3>2. size <= top
      BY <1>1, <3>1 DEF Sizes
    <3>3. \A i \in 1 .. size : i \in Nat /\ 1 <= i /\ i <= top
      BY <3>1, <3>2
    <3> QED BY <1>13, <3>1, <3>3
  <2>3. ASSUME NEW g \in File, g # c.f
        PROVE  content'[g] = content[g]
    BY <2>1, <2>2, <2>3
  <2>4. content'[c.f] = Store!Put(content[c.f], 0, c.data, cur, m)
    <3>1. PICK size \in Int : size = stored(c.f)
      BY <1>1, <1>6, ContentTypes DEF Deleted
    <3>2. /\ content[c.f] = [i \in 1 .. size |-> byte(c.f, i)]
          /\ content'[c.f] = [i \in 1 .. size |-> byte(c.f, i)']
      BY <1>6, <2>1, <3>1
    <3>3. \A i \in 1 .. size : i - 1 - 0 = i - 1 /\ i - 0 = i
      OBVIOUS
    <3>4. Store!Put(content[c.f], 0, c.data, cur, m)
            = [i \in 1 .. size |-> IF i - 1 \in cur .. m - 1 THEN c.data[i] ELSE byte(c.f, i)]
      BY <3>2, <3>3 DEF Store!Put
    <3> QED BY <1>6, <2>2, <3>1, <3>2, <3>4
  <2>5. content = [g \in File |-> content[g]] /\ content' = [g \in File |-> content'[g]]
    BY <2>1
  <2> QED BY <2>3, <2>4, <2>5
<1>19. exists' = exists
  BY <1>1, <1>14, <1>15, Mapped
<1>20. io # None /\ io' = [io EXCEPT !.cur = m] /\ io.cur = cur /\ io.count = count
       /\ io.op = "write" /\ io.f = c.f /\ io.pos = 0 /\ io.data = c.data
  <2>1. PICK j \in StoreCalls :
          /\ j = io /\ j # None
          /\ j = [op |-> c.op, f |-> c.f, pos |-> c.pos, count |-> c.count, cur |-> c.cur,
                  data |-> c.data]
    BY <1>1, <1>2, IoIsThere
  <2>2. j.op = c.op /\ j.f = c.f /\ j.pos = c.pos /\ j.count = c.count /\ j.data = c.data
        /\ j.cur = c.cur
    BY <2>1
  <2>3. [j EXCEPT !.cur = m]
          = [op |-> j.op, f |-> j.f, pos |-> j.pos, count |-> j.count, cur |-> m, data |-> j.data]
    BY IoMoves
  <2>4. io' = [op |-> c.op, f |-> c.f, pos |-> c.pos, count |-> c.count, cur |-> m,
               data |-> c.data]
    BY <1>16 DEF io
  <2>5. io' = [j EXCEPT !.cur = m]
    BY <2>2, <2>3, <2>4
  <2> QED BY <1>1, <1>2, <1>6, <1>7, <2>1, <2>2, <2>5
<1>21. n \in 0 .. io.count - io.cur
  BY <1>8, <1>20
<1>22. Store!MoveWrite(n)
  BY <1>12, <1>18, <1>19, <1>20 DEF Store!MoveWrite
<1> QED BY <1>15, <1>17, <1>20, <1>21, <1>22

\* A turn that is at block 0 of ext2 is nothing to the store.
LEMMA ZeroRefines ==
    ASSUME Reliable, RInv, call # None, BlockZero \in Home,
           ReadPage(BlockZero) \/ WritePage(BlockZero)
    PROVE  Quiet /\ io' = io
<1>1. PICK c, s : c = call /\ s = Fetched(host(call.f), BlockZero)
  OBVIOUS
<1>2. /\ c \in Calls /\ c.page \in Nat /\ c.cur \in Nat /\ c.data \in Seq(Byte)
      /\ From(c) = To(c) /\ Inv /\ TypeOK /\ Sizes /\ Written
  BY <1>1, BlockOfPage DEF RInv, Inv, TypeOK, Calls
<1>3. From(c) \in Nat
  <2>1. PICK pos \in Nat, b \in Nat \ {0} : pos = c.pos /\ b = BLK
    BY <1>2, VfsAssumption DEF Calls
  <2>2. pos % b \in Nat
    BY DivMod
  <2> QED BY <2>1, <2>2 DEF From
<1>4. PICK n \in Nat : n = From(c) /\ n = To(c)
  BY <1>2, <1>3
<1>5. Front1(s, host(call.f), BlockZero) /\ s[1] \in DataPage
  BY <1>1, <1>2, DataFetch
<1>6. UNCHANGED <<disk, itab, inode>> /\ call' = [c EXCEPT !.page = @ + 1]
  <2>1. CASE ReadPage(BlockZero)
    <3>1. PICK bytes : bytes = [i \in 1 .. n - n |-> Head(s).data[From(call) + i - 1]]
      OBVIOUS
    <3>2. call' = [c EXCEPT !.page = @ + 1, !.cur = @ + (n - n), !.data = @ \o bytes]
      BY <1>1, <1>4, <2>1, <3>1 DEF ReadPage
    <3>3. bytes = <<>>
      <4>1. 1 .. n - n = {}
        OBVIOUS
      <4> QED BY <3>1, <4>1
    <3>4. c.cur + (n - n) = c.cur /\ c.data \o bytes = c.data
      BY <1>2, <3>3, ConcatEmptySeq
    <3>5. PICK p : p = c.page + 1
      OBVIOUS
    <3>6. call' = [c EXCEPT !.page = p, !.cur = c.cur, !.data = c.data]
      BY <3>2, <3>4, <3>5
    <3>7. [c EXCEPT !.page = p, !.cur = c.cur, !.data = c.data] = [c EXCEPT !.page = p]
      BY ONLY <1>2 DEF Calls
    <3> QED BY <2>1, <3>5, <3>6, <3>7 DEF ReadPage
  <2>2. CASE WritePage(BlockZero)
    <3>1. Overlay(Head(s).data) = disk[BlockZero]
      <4>1. Head(s).data = disk[BlockZero] /\ Head(s).data \in [0 .. BLK - 1 -> Byte]
        BY <1>2, <1>5, ZeroPage DEF Front1, Inv, DataPage
      <4> QED BY <1>2, <4>1, NothingMoved
    <3>2. disk' = disk
      <4>1. writepage(BlockZero, disk[BlockZero])
        BY <1>1, <2>2, <3>1 DEF WritePage
      <4>2. disk = [l \in DOMAIN disk |-> disk[l]]
        BY <1>2 DEF TypeOK
      <4> QED BY <4>1, <4>2 DEF writepage
    <3>3. call' = [c EXCEPT !.page = @ + 1, !.cur = @ + n - n]
      BY <1>1, <1>4, <2>2 DEF WritePage
    <3>4. c.cur + n - n = c.cur
      BY <1>2
    <3>5. PICK p : p = c.page + 1
      OBVIOUS
    <3>6. call' = [c EXCEPT !.page = p, !.cur = c.cur]
      BY <3>3, <3>4, <3>5
    <3>7. [c EXCEPT !.page = p, !.cur = c.cur] = [c EXCEPT !.page = p]
      BY ONLY <1>2 DEF Calls
    <3> QED BY <2>2, <3>2, <3>5, <3>6, <3>7 DEF WritePage
  <2> QED BY <2>1, <2>2
<1>7. /\ call'.op = c.op /\ call'.f = c.f /\ call'.pos = c.pos /\ call'.count = c.count
      /\ call'.end = c.end /\ call'.cur = c.cur /\ call'.data = c.data /\ call' # None
  <2>1. PICK p \in Nat : p = c.page + 1
    BY <1>2
  <2>2. call' = [c EXCEPT !.page = p]
    BY <1>6, <2>1
  <2>3. call' \in Calls
    BY ONLY <1>2, <2>1, <2>2 DEF Calls
  <2>4. /\ call'.op = c.op /\ call'.f = c.f /\ call'.pos = c.pos /\ call'.count = c.count
        /\ call'.end = c.end /\ call'.cur = c.cur /\ call'.data = c.data
    BY ONLY <1>2, <2>2 DEF Calls
  <2> QED BY <2>3, <2>4, VfsAssumption
<1>8. \A g \in File : stored(g)' = stored(g)
  BY <1>6 DEF stored
<1>9. Sizes'
  BY <1>2, <1>6, <1>8 DEF Sizes
<1>10. Written'
  <2>1. c.f \in File /\ \A i : byte(c.f, i)' = byte(c.f, i)
    BY <1>2, <1>6 DEF byte, Calls
  <2> QED BY <1>1, <1>2, <1>7, <1>8, <2>1 DEF Written
<1>11. io' = io
  BY <1>1, <1>7 DEF io
<1> QED BY <1>6, <1>9, <1>10, <1>11 DEF Quiet

\* A call that ends and changes nothing else.
LEMMA EndsRefines ==
    ASSUME RInv, call # None, call' = None, UNCHANGED <<disk, itab, inode>>
    PROVE  Sizes' /\ Written' /\ Store!End
<1>1. TypeOK /\ Sizes
  BY DEF RInv, Inv
<1>2. \A g \in File : stored(g)' = stored(g)
  BY DEF stored
<1>3. Sizes'
  BY <1>1, <1>2 DEF Sizes
<1>4. exists' = exists /\ content' = content
  BY <1>1, <1>3, StoreStays
<1>5. io # None /\ io' = None
  BY <1>1, IoIsThere DEF io
<1> QED BY <1>3, <1>4, <1>5 DEF Written, Store!End

\* What the new length of a file leaves on the disk.
LEMMA Lengthened ==
    ASSUME Reliable, RInv, call # None, call.op = "write", call.end > inode[call.f].size, WriteEnds
    PROVE  /\ \A g \in File : stored(g)' = IF g = call.f THEN call.end ELSE stored(g)
           /\ \A l \in Block : disk'[l] = disk[l]
           /\ inode' = [inode EXCEPT ![call.f].size = call.end] /\ call' = None
<1>1. PICK f, n : f = call.f /\ n = call.end
  OBVIOUS
<1>2. /\ TypeOK /\ f \in File /\ n \in Nat /\ call' = None
      /\ inode' = [inode EXCEPT ![f].size = n]
  BY <1>1 DEF RInv, Inv, TypeOK, Calls, WriteEnds
<1>3. CASE f \in Fat
  <2>1. PICK h, s, entries : /\ h = dir_host(FatDir) /\ s = Fetched(h, FatDir)
                             /\ entries = [Head(s).data EXCEPT ![f] = n]
    OBVIOUS
  <2>2. disk' = [disk EXCEPT ![FatDir] = entries] /\ itab' = itab
    BY <1>1, <1>3, <2>1 DEF WriteEnds, fat32_write_inode, writepage, FetchFails, Reliable
  <2>3. Head(s).data = disk[FatDir]
    <3>1. h \in Hosts /\ Front1(s, h, FatDir)
      BY <1>2, <2>1, DirFetch DEF Dir, Hosts
    <3> QED BY <3>1, FetchedIsOnDisk DEF RInv
  <2>4. /\ disk'[FatDir] = [disk[FatDir] EXCEPT ![f] = n]
        /\ \A l \in Block : disk'[l] = disk[l]
    BY <1>2, <2>1, <2>2, <2>3, Places DEF TypeOK, Dir
  <2>5. \A g \in File : stored(g)' = IF g = f THEN n ELSE stored(g)
    BY <1>2, <1>3, <2>2, <2>4 DEF stored, TypeOK
  <2> QED BY <1>1, <1>2, <2>4, <2>5
<1>4. CASE f \notin Fat
  <2>1. itab' = [itab EXCEPT ![f] = n] /\ disk' = disk
    BY <1>1, <1>4 DEF WriteEnds, ext2_write_inode, Reliable
  <2>2. \A g \in File : stored(g)' = IF g = f THEN n ELSE stored(g)
    BY <1>2, <1>4, <2>1 DEF stored, TypeOK, File
  <2> QED BY <1>1, <1>2, <2>1, <2>2
<1> QED BY <1>3, <1>4

\* The end of a write gives the file its new length, and nothing but what was written.
LEMMA WriteEndsRefines ==
    ASSUME Reliable, RInv, WriteEnds
    PROVE  Sizes' /\ Written' /\ Store!End
<1>1. /\ call # None /\ call.op = "write" /\ call.page > EndPage(call) /\ call' = None
      /\ TypeOK /\ InodeOK /\ Progress /\ Sizes /\ Written /\ call \in Calls
  <2>1. call # None /\ call.op = "write" /\ ~(call.page <= EndPage(call)) /\ call' = None
    BY DEF WriteEnds, Running, InLoop
  <2>2. TypeOK /\ InodeOK /\ Progress /\ Sizes /\ Written /\ call \in Calls
    BY <2>1, Types DEF RInv, Inv, TypeOK
  <2>3. EndPage(call) \in Nat /\ call.page \in Nat
    <3>1. PICK e \in Nat : e = call.end
      BY <2>2 DEF Calls
    <3>2. e \div BLK \in Nat
      BY DivMod, VfsAssumption
    <3> QED BY <2>2, <3>1, <3>2 DEF EndPage, Calls
  <2> QED BY <2>1, <2>2, <2>3
<1>2. CASE call.end <= inode[call.f].size
  <2>1. UNCHANGED <<disk, itab, inode>>
    <3>1. call.end \in Nat /\ inode[call.f].size \in Nat
      BY <1>1 DEF Calls, InodeOK
    <3>2. ~(call.end > inode[call.f].size)
      BY <1>2, <3>1
    <3> QED BY <3>2 DEF WriteEnds
  <2> QED BY <1>1, <2>1, EndsRefines
<1>3. CASE call.end > inode[call.f].size
  <2>1. PICK c : c = call
    OBVIOUS
  <2>2. PICK f \in File, n \in Nat, data \in Seq(Byte) :
          /\ f = c.f /\ n = c.end /\ data = c.data /\ n = c.count /\ n = c.cur /\ c.pos = 0
          /\ Len(data) = n /\ \A i \in 1 .. n : byte(f, i) = data[i]
    <3>1. c.f \in File /\ c.end \in Nat /\ c.data \in Seq(Byte) /\ c.pos = 0 /\ c.count \in Nat
      BY <1>1, <2>1 DEF Calls, Written
    <3>2. c.cur = c.count /\ c.end = c.pos + c.count /\ Len(c.data) = c.count
      BY <1>1, <2>1 DEF Progress, Moved
    <3>3. \A i \in 1 .. c.cur : byte(c.f, i) = c.data[i]
      BY <1>1, <2>1 DEF Written
    <3>4. c.end = c.count
      BY <3>1, <3>2
    <3> QED BY <3>1, <3>2, <3>3, <3>4
  <2>3. /\ \A g \in File : stored(g)' = IF g = f THEN n ELSE stored(g)
        /\ \A l \in Block : disk'[l] = disk[l]
        /\ inode' = [inode EXCEPT ![f].size = n]
    BY <1>1, <1>3, <2>1, <2>2, Lengthened
  <2>4. PICK size \in Nat : /\ size = stored(f) /\ size = inode[f].size /\ size < n
                            /\ inode[f].state = "live"
    <3>1. inode[f].state = "live" /\ inode[f].size \in Nat /\ inode[f].size = stored(f)
      BY <1>1, <2>1, <2>2 DEF Progress, Sizes, InodeOK
    <3>2. inode[f].size < n
      BY <1>3, <2>1, <2>2, <3>1
    <3> QED BY <3>1, <3>2
  <2>5. ASSUME NEW g \in File, NEW i \in Nat, 1 <= i, i <= BLK * Len(Chain[g])
        PROVE  byte(g, i)' = byte(g, i)
    <3>1. Chain[g][(i - 1) \div BLK + 1] \in Block
      BY <1>1, <2>5, ByteFacts
    <3> QED BY <2>3, <3>1 DEF byte
  <2>6. PICK top \in Nat : top = BLK * Len(Chain[f]) /\ n <= top
    <3>1. \A u, v \in Nat : u * v \in Nat
      BY SMT
    <3>2. BLK * Len(Chain[f]) \in Nat
      BY <3>1, VfsAssumption
    <3>3. n <= BLK * Len(Chain[f])
      BY <1>1, <2>1, <2>2 DEF Written
    <3> QED BY <3>2, <3>3
  <2>7. Sizes'
    <3>1. ASSUME NEW g \in File
          PROVE  /\ stored(g)' <= BLK * Len(Chain[g])
                 /\ inode'[g].state = "live" => inode'[g].size = stored(g)'
                 /\ inode'[g].state = "negative" => stored(g)' = Deleted
                 /\ inode'[g].state = "unread" => stored(g)' # Deleted
      <4>1. CASE g = f
        BY <1>1, <2>3, <2>4, <2>6, <4>1 DEF InodeOK
      <4>2. CASE g # f
        BY <1>1, <2>3, <4>2 DEF Sizes, InodeOK
      <4> QED BY <4>1, <4>2
    <3> QED BY <3>1 DEF Sizes
  <2>8. /\ exists = { g \in File : stored(g) # Deleted }
        /\ exists' = { g \in File : stored(g)' # Deleted }
        /\ content = [g \in File |-> [i \in 1 .. stored(g) |-> byte(g, i)]]
        /\ content' = [g \in File |-> [i \in 1 .. stored(g)' |-> byte(g, i)']]
    BY <1>1, <2>7, Mapped
  <2>9. exists' = exists
    <3>1. n # Deleted /\ size # Deleted
      BY DEF Deleted
    <3>2. \A g \in File : stored(g)' # Deleted <=> stored(g) # Deleted
      BY <2>3, <2>4, <3>1
    <3> QED BY <2>8, <3>2
  <2>10. content'[f] = data
    <3>1. content'[f] = [i \in 1 .. n |-> byte(f, i)']
      BY <2>3, <2>8
    <3>2. ASSUME NEW i \in 1 .. n
          PROVE  byte(f, i)' = data[i]
      <4>1. i \in Nat /\ 1 <= i /\ i <= BLK * Len(Chain[f])
        BY <2>6
      <4> QED BY <2>2, <2>5, <4>1
    <3>3. content'[f] = [i \in 1 .. n |-> data[i]]
      BY <3>1, <3>2
    <3>4. data = [i \in 1 .. n |-> data[i]]
      BY <2>2
    <3> QED BY <3>3, <3>4
  <2>11. ASSUME NEW g \in File, g # f
         PROVE  content'[g] = content[g]
    <3>1. PICK room, len \in Int : room = BLK * Len(Chain[g]) /\ len = stored(g) /\ len <= room
      BY <1>1, VfsAssumption, ContentTypes DEF Deleted, Sizes
    <3>2. \A i \in 1 .. len : byte(g, i)' = byte(g, i)
      <4>1. \A i \in 1 .. len : i \in Nat /\ 1 <= i /\ i <= room
        BY <3>1
      <4> QED BY <2>5, <3>1, <4>1
    <3> QED BY <2>3, <2>8, <2>11, <3>1, <3>2
  <2>12. content' = [content EXCEPT ![f] = data]
    <3>1. content = [g \in File |-> content[g]] /\ content' = [g \in File |-> content'[g]]
      BY <2>8
    <3> QED BY <2>10, <2>11, <3>1
  <2>13. PICK t \in Seq(Byte) : t = content[f] /\ Len(t) = size
    BY <1>1, <2>4, ContentTypes
  <2>14. SubSeq(t, 1, 0) \o data = data
    <3>1. SubSeq(t, 1, 0) = <<>>
      BY SubSeqEmpty
    <3> QED BY <3>1, ConcatEmptySeq
  <2>15. /\ io # None /\ io' = None /\ io.op = "write" /\ io.f = f /\ io.pos = 0 /\ io.count = n
         /\ io.cur = n /\ io.data = data
    BY <1>1, <2>1, <2>2, IoIsThere DEF io
  <2>16. io.pos + io.count > Len(content[io.f]) /\ io.cur = io.count
    BY <2>4, <2>13, <2>15
  <2>17. content' = [content EXCEPT ![io.f] = SubSeq(content[io.f], 1, io.pos) \o io.data]
    BY <2>12, <2>13, <2>14, <2>15
  <2>18. Store!End
    BY <2>9, <2>15, <2>16, <2>17 DEF Store!End
  <2> QED BY <1>1, <2>7, <2>18 DEF Written
<1>4. call.end <= inode[call.f].size \/ call.end > inode[call.f].size
  <2>1. call.end \in Nat /\ inode[call.f].size \in Nat
    BY <1>1 DEF Calls, InodeOK
  <2> QED BY <2>1
<1> QED BY <1>2, <1>3, <1>4

LEMMA InitRefines ==
    ASSUME Reliable, Init
    PROVE  RInv /\ Store!Init
<1>1. Inv /\ Coherent /\ TypeOK /\ call = None
  BY InitInv DEF Inv, Init
<1>2. \A f \in File : stored(f) = InitSize[f] /\ InitSize[f] \in Nat
  <2> SUFFICES ASSUME NEW f \in File
               PROVE  stored(f) = InitSize[f] /\ InitSize[f] \in Nat
    OBVIOUS
  <2>1. disk[FatDir] = [g \in Fat |-> InitSize[g]] /\ itab = [g \in Ext |-> InitSize[g]]
    <3>1. FatDir \notin Block /\ ExtDir \notin Block /\ FatDir # ExtDir
      BY Places, VfsAssumption
    <3> QED BY <3>1 DEF Init, Dir
  <2>2. InitSize[f] \in Nat
    BY VfsAssumption
  <2> QED BY <2>1, <2>2 DEF stored, File
<1>3. Sizes
  <2>1. \A f \in File : InitSize[f] <= BLK * Len(Chain[f])
    <3> SUFFICES ASSUME NEW f \in File
                 PROVE  InitSize[f] <= BLK * Len(Chain[f])
      OBVIOUS
    <3>1. PICK top : top = BLK * Len(Chain[f])
      OBVIOUS
    <3>2. InitSize[f] \in 1 .. top
      BY <3>1, VfsAssumption
    <3> QED BY <3>1, <3>2
  <2> QED BY <1>2, <2>1 DEF Sizes, Init
<1>4. Written /\ io = None
  BY <1>1 DEF Written, io
<1>5. exists \in SUBSET File
  BY DEF exists
<1>6. content \in [File -> Seq(Byte)]
  <2>1. \A f \in File : content[f] \in Seq(Byte)
    BY <1>1, <1>3, ContentTypes
  <2>2. content = [f \in File |-> content[f]]
    BY <1>3, Mapped
  <2> QED BY <2>1, <2>2
<1>7. \A f \in File \ exists : content[f] = <<>>
  BY <1>1, <1>3, ContentTypes, Mapped
<1> QED BY <1>1, <1>3, <1>4, <1>5, <1>6, <1>7 DEF RInv, Store!Init

\* What a step of the file system is to the store: one of its own, or none.
Shown == Sizes' /\ Written' /\ (Store!Next \/ UNCHANGED Store!vars)

LEMMA QuietShown ==
    ASSUME RInv, Quiet, io' = io
    PROVE  Shown
<1>1. exists' = exists /\ content' = content
  BY StoreStays DEF RInv, Quiet
<1> QED BY <1>1 DEF Shown, Quiet, Store!vars

LEMMA CallRefines ==
    ASSUME Reliable, RInv, CallStep
    PROVE  Shown
<1>7. ASSUME InLoop("read") \/ InLoop("write"), BlockZero \in Home,
             ReadPage(BlockZero) \/ WritePage(BlockZero)
      PROVE  Shown
  BY <1>7, ZeroRefines, QuietShown DEF InLoop, Running
<1>1. ASSUME InLoop("read"), NEW l \in Home, l # BlockZero, ReadPage(l)
      PROVE  Shown
  <2>1. Sizes' /\ Written'
    BY <1>1, ReadRefines DEF Quiet
  <2>2. Store!Next
    BY <1>1, ReadRefines DEF Store!Next
  <2> QED BY <2>1, <2>2 DEF Shown
<1>2. ASSUME InLoop("write"), NEW l \in Home, l # BlockZero, WritePage(l)
      PROVE  Shown
  <2>1. Store!Next
    BY <1>2, WriteRefines DEF Store!Next
  <2> QED BY <1>2, <2>1, WriteRefines DEF Shown
<1>3. ASSUME call # None, call' = None, UNCHANGED <<disk, itab, inode>>
      PROVE  Shown
  BY <1>3, EndsRefines DEF Shown, Store!Next
<1>4. ASSUME InLoop("read") \/ InLoop("write"), NEW l, PageFails(l)
      PROVE  Shown
  BY <1>3, <1>4 DEF PageFails, InLoop, Running
<1>5. CASE ReadEnds
  BY <1>3, <1>5 DEF ReadEnds, Running
<1>6. CASE WriteEnds
  BY <1>6, WriteEndsRefines DEF Shown, Store!Next
<1> QED BY <1>1, <1>2, <1>4, <1>5, <1>6, <1>7 DEF CallStep

LEMMA StepRefines ==
    ASSUME Reliable, RInv, Next
    PROVE  Shown
<1>1. ASSUME NEW f \in File, Open(f)
      PROVE  Shown
  BY <1>1, OpenRefines, QuietShown
<1>2. ASSUME NEW f \in File, Forget(f)
      PROVE  Shown
  BY <1>2, ForgetRefines, QuietShown
<1>3. ASSUME NEW f \in File, NEW pos \in 0 .. MaxCount, NEW n \in 1 .. MaxCount,
             generic_file_read(f, pos, n)
      PROVE  Shown
  <2>1. Sizes' /\ Written' /\ Store!BeginRead(f, pos, n)
    BY <1>3, BeginReadRefines
  <2>2. n \in 0 .. MaxCount
    BY VfsAssumption
  <2> QED BY <2>1, <2>2 DEF Shown, Store!Next
<1>4. ASSUME NEW f \in File, NEW data \in Data, generic_file_write(f, data)
      PROVE  Shown
  <2>1. Sizes' /\ Written' /\ Store!BeginWrite(f, 0, data)
    BY <1>4, BeginWriteRefines
  <2>2. 0 \in 0 .. Len(content[f])
    <3>1. PICK t \in Seq(Byte) : t = content[f]
      BY ContentTypes DEF RInv, Inv
    <3> QED BY <3>1
  <2> QED BY <2>1, <2>2 DEF Shown, Store!Next
<1>5. ASSUME NEW f \in Fat, vfs_rm(f)
      PROVE  Shown
  <2>1. Sizes' /\ Written' /\ Store!Remove(f)
    BY <1>5, RemoveRefines
  <2> QED BY <2>1 DEF Shown, Store!Next, File
<1>6. ASSUME NEW d \in Dir, readdir(d)
      PROVE  Shown
  BY <1>6, ReaddirRefines, QuietShown
<1>7. CASE Stray
  <2>1. Quiet /\ io' = io
    BY <1>7 DEF Stray, Quiet, Sizes, Written, RInv, stored, byte, io
  <2> QED BY <2>1, QuietShown
<1> QED BY <1>1, <1>2, <1>3, <1>4, <1>5, <1>6, <1>7, CallRefines DEF Next

\* Where files of FAT32 have one cluster, and nothing fails but memory and the reads of data
\* and of inodes, reading, writing, growing and removing files work as the store says, until
\* a call goes astray (read_write.c:98, 191, fat32.c, ext2.c).
THEOREM StoreCorrect ==
    ASSUME Reliable
    PROVE  Spec => ImplementsFileStore
<1>1. RInv /\ [Next]_vars => RInv' /\ [Store!Next]_(Store!vars)
  <2>1. ASSUME RInv, Next
        PROVE  RInv' /\ (Store!Next \/ UNCHANGED Store!vars)
    <3>1. Inv' /\ Coherent'
      BY <2>1, Step DEF RInv, Kept, Reliable
    <3>2. Shown
      BY <2>1, StepRefines
    <3> QED BY <3>1, <3>2 DEF RInv, Shown
  <2>2. ASSUME RInv, UNCHANGED vars
        PROVE  RInv' /\ UNCHANGED Store!vars
    <3>1. Inv' /\ GensKept
      BY <2>2, CallOnly DEF Kept, RInv, Inv, vars, TypeOK, Progress, GensKept
    <3>2. Coherent'
      BY <2>2, <3>1, HostsKept DEF RInv, Coherent, vars
    <3>3. Quiet
      BY <2>2 DEF RInv, Quiet, Sizes, Written, stored, byte, vars
    <3>4. io' = io
      BY <2>2 DEF io, vars
    <3>5. exists' = exists /\ content' = content
      BY <2>2, <3>3, StoreStays DEF RInv, Quiet
    <3> QED BY <3>1, <3>2, <3>3, <3>4, <3>5 DEF RInv, Quiet, Store!vars
  <2> QED BY <2>1, <2>2
<1>2. Init => RInv /\ Store!Init
  BY InitRefines
<1> QED BY <1>1, <1>2, PTL DEF Spec, ImplementsFileStore, Store!Spec
================================================================================
