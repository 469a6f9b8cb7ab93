---------------------------- MODULE Ext2DeleteProofs ----------------------------
(****************************************************************************)
(* Theorems about Ext2Delete, for any files, blocks and directory, whatever *)
(* fails and wherever the machine stops.                                    *)
(****************************************************************************)
EXTENDS Ext2Delete, SequenceFacts

--------------------------------------------------------------------------------
(* Blocks and entries *)

\* Each place of a file is a hole or has a block.
LEMMA BlockNumbers ==
    ASSUME NEW f \in File
    PROVE  /\ Blocks(f) \subseteq Nat \ {0}
           /\ \A i \in Places(f) : i \in Nat /\ ext2_bmap(f, i) \in Blocks(f) \cup {0}
           /\ first_data_block_no = 0 => Bits(f) = Blocks(f)
<1>1. i_block[f] \in Seq(Nat) /\ i_blocks[f] \in Nat
  BY Ext2Assumption
<1>2. /\ Len(i_block[f]) \in Nat /\ DOMAIN i_block[f] = 1 .. Len(i_block[f])
      /\ \A j \in 1 .. Len(i_block[f]) : i_block[f][j] \in Nat
  BY <1>1, LenProperties, ElementOfSeq
<1>3. Blocks(f) \subseteq Nat \ {0}
  BY <1>2 DEF Blocks, Range
<1>4. ASSUME NEW i \in Places(f)
      PROVE  i \in Nat /\ ext2_bmap(f, i) \in Blocks(f) \cup {0}
  <2>1. i \in Nat
    BY DEF Places, EXT2_FIRST_MAP_INDEX
  <2>2. CASE i < Len(i_block[f])
    <3>1. i + 1 \in 1 .. Len(i_block[f]) /\ ext2_bmap(f, i) = i_block[f][i + 1]
      BY <1>2, <2>1, <2>2 DEF ext2_bmap
    <3> QED BY <1>2, <2>1, <3>1 DEF Blocks, Range
  <2>3. CASE ~(i < Len(i_block[f]))
    BY <2>1, <2>3 DEF ext2_bmap
  <2> QED BY <2>2, <2>3
<1>5. ASSUME first_data_block_no = 0  PROVE Bits(f) = Blocks(f)
  <2>1. \A b \in Blocks(f) : b - first_data_block_no = b
    BY <1>3, <1>5
  <2> QED BY <2>1 DEF Bits
<1> QED BY <1>3, <1>4, <1>5

\* The entries of a page, cached or not, are a sequence.
LEMMA EntriesProperties ==
    ASSUME TypeOK, NEW p \in Page
    PROVE  /\ directory[p] \in Seq(File) /\ Entries(p) \in Seq(File)
           /\ directory[p] # None /\ Entries(p) # None
           /\ cache[p] # None => cache[p] \in Seq(File)
BY Ext2Assumption DEF TypeOK, Entries

\* Erasing an entry leaves those of other files.
LEMMA WithoutProperties ==
    ASSUME NEW s \in Seq(File), NEW f \in Range(s)
    PROVE  /\ Place(f, s) \in 1 .. Len(s)
           /\ Without(f, s) \in Seq(File) /\ Len(Without(f, s)) = Len(s) - 1
           /\ Range(Without(f, s)) \subseteq Range(s)
           /\ Range(s) \ {f} \subseteq Range(Without(f, s))
<1> DEFINE T == { i \in DOMAIN s : s[i] = f }
           r == Without(f, s)
<1>1. DOMAIN s = 1 .. Len(s) /\ Len(s) \in Nat
  BY LenProperties
<1>2. T \in SUBSET Nat /\ T # {}
  BY <1>1 DEF Range
<1>3. \E i \in T : \A j \in T : i <= j
  BY <1>2, LeastNat
<1>4. Place(f, s) \in 1 .. Len(s) /\ s[Place(f, s)] = f
  BY <1>1, <1>3 DEF Place
<1>5. PICK k \in 1 .. Len(s) : k = Place(f, s)
  BY <1>4
<1>6. /\ r \in Seq(File) /\ Len(r) = Len(s) - 1
      /\ \A i \in 1 .. Len(s) - 1 : r[i] = IF i < k THEN s[i] ELSE s[i + 1]
  BY <1>5, RemoveAtElements DEF Without
<1> HIDE DEF r
<1>7. DOMAIN r = 1 .. Len(s) - 1
  BY <1>6, LenProperties
<1>8. ASSUME NEW g \in Range(r)  PROVE g \in Range(s)
  <2>1. PICK i \in 1 .. Len(s) - 1 : r[i] = g
    BY <1>7 DEF Range
  <2>2. i \in 1 .. Len(s) /\ i + 1 \in 1 .. Len(s)
    BY <1>1
  <2> QED BY <1>1, <1>6, <2>1, <2>2 DEF Range
<1>9. ASSUME NEW g \in Range(s), g # f  PROVE g \in Range(r)
  <2>1. PICK i \in 1 .. Len(s) : s[i] = g
    BY <1>1 DEF Range
  <2>2. i # k
    BY <1>4, <1>5, <1>9, <2>1
  <2>3. CASE i < k
    <3>1. i \in 1 .. Len(s) - 1
      BY <1>1, <2>3
    <3> QED BY <1>6, <1>7, <2>1, <2>3, <3>1 DEF Range
  <2>4. CASE k < i
    <3>1. i - 1 \in 1 .. Len(s) - 1 /\ ~(i - 1 < k) /\ (i - 1) + 1 = i
      BY <1>1, <2>4
    <3> QED BY <1>6, <1>7, <2>1, <3>1 DEF Range
  <2> QED BY <1>1, <2>2, <2>3, <2>4
<1> QED BY <1>4, <1>6, <1>8, <1>9 DEF r

\* The front of a page with the new entries, and its back with the old ones.
IsCut(cut, from, new, old) ==
    \E k \in from - 1 .. Len(new), j \in from .. Len(old) + 1 : cut = CutAt(k, j, new, old)

\* A page that is cut has entries of either, and begins with those that both have.
LEMMA CutProperties ==
    ASSUME NEW new \in Seq(File), NEW old \in Seq(File), NEW from \in 1 .. Len(new),
           NEW cut, IsCut(cut, from, new, old)
    PROVE  /\ cut \in Seq(File)
           /\ Range(cut) \subseteq Range(new) \cup Range(old)
           /\ \A j \in 1 .. from - 1 : j \in DOMAIN cut /\ cut[j] = new[j]
<1>1. /\ Len(new) \in Nat /\ DOMAIN new = 1 .. Len(new)
      /\ Len(old) \in Nat /\ DOMAIN old = 1 .. Len(old)
  BY LenProperties
<1>2. PICK k \in from - 1 .. Len(new), n \in from .. Len(old) + 1 :
         cut = SubSeq(new, 1, k) \o SubSeq(old, n, Len(old))
  BY DEF IsCut, CutAt
<1> DEFINE a == SubSeq(new, 1, k)
           b == SubSeq(old, n, Len(old))
<1>3. k \in Nat /\ k <= Len(new) /\ from - 1 <= k /\ n \in Nat /\ 1 <= n /\ n <= Len(old) + 1
  BY <1>1, <1>2
<1>4. /\ a \in Seq(File) /\ Len(a) = k
      /\ \A i \in 1 .. k : a[i] = new[i]
  <2>1. 1 \in 1 .. Len(new) + 1 /\ k \in 0 .. Len(new)
    BY <1>1, <1>3
  <2> QED BY <1>1, <1>3, <2>1, SubSeqProperties
<1>5. /\ b \in Seq(File) /\ Len(b) = Len(old) + 1 - n
      /\ \A i \in 1 .. Len(old) + 1 - n : b[i] = old[n + i - 1]
  <2>1. n \in 1 .. Len(old) + 1 /\ Len(old) \in n - 1 .. Len(old)
    BY <1>1, <1>3
  <2> QED BY <1>1, <1>3, <2>1, SubSeqProperties
<1> HIDE DEF a, b
<1>6. /\ cut \in Seq(File) /\ Len(cut) = Len(a) + Len(b)
      /\ \A i \in 1 .. Len(a) + Len(b) :
            cut[i] = IF i <= Len(a) THEN a[i] ELSE b[i - Len(a)]
  BY <1>2, <1>4, <1>5, ConcatProperties DEF a, b
<1>7. DOMAIN cut = 1 .. Len(a) + Len(b)
  BY <1>6, LenProperties
<1>8. ASSUME NEW g \in Range(cut)  PROVE g \in Range(new) \cup Range(old)
  <2>1. PICK i \in 1 .. Len(a) + Len(b) : cut[i] = g
    BY <1>7 DEF Range
  <2>2. CASE i <= k
    <3>1. i \in 1 .. k /\ i \in 1 .. Len(new)
      BY <1>1, <1>3, <2>2
    <3> QED BY <1>1, <1>4, <1>6, <2>1, <2>2, <3>1 DEF Range
  <2>3. CASE ~(i <= k)
    <3> DEFINE m == i - k
    <3>1. i \in Nat /\ i <= Len(a) + Len(b) /\ Len(a) = k /\ Len(b) = Len(old) + 1 - n /\ k < i
      BY <1>3, <1>4, <1>5, <2>1, <2>3
    <3>2. m \in 1 .. Len(old) + 1 - n /\ n + m - 1 \in 1 .. Len(old)
      BY <1>1, <1>3, <3>1
    <3>3. ~(i <= Len(a)) /\ i - Len(a) = m
      BY <1>3, <3>1
    <3>4. g = b[m]
      BY <1>6, <2>1, <3>3
    <3> HIDE DEF m
    <3>5. g = old[n + m - 1]
      BY <1>5, <3>2, <3>4
    <3> QED BY <1>1, <3>2, <3>5 DEF Range
  <2> QED BY <2>2, <2>3
<1>9. ASSUME NEW j \in 1 .. from - 1  PROVE j \in DOMAIN cut /\ cut[j] = new[j]
  <2>1. j \in 1 .. k /\ j \in 1 .. Len(a) + Len(b) /\ j <= Len(a)
    BY <1>1, <1>3, <1>4, <1>5
  <2> QED BY <1>4, <1>6, <1>7, <2>1
<1> QED BY <1>6, <1>8, <1>9

\* The back of a sequence has what the sequence has there.
LEMMA BackHas ==
    ASSUME NEW s \in Seq(File), NEW from \in 1 .. Len(s), NEW j \in 1 .. Len(s), ~(j < from)
    PROVE  s[j] \in Range(SubSeq(s, from, Len(s)))
<1> DEFINE b == SubSeq(s, from, Len(s))
<1>1. Len(s) \in Nat /\ from \in 1 .. Len(s) + 1 /\ Len(s) \in from - 1 .. Len(s)
  BY LenProperties
<1>2. /\ b \in Seq(File) /\ Len(b) = Len(s) - from + 1
      /\ \A i \in 1 .. Len(s) - from + 1 : b[i] = s[from + i - 1]
  BY <1>1, SubSeqProperties
<1> HIDE DEF b
<1>3. DOMAIN b = 1 .. Len(s) - from + 1
  BY <1>2, LenProperties
<1>4. j - from + 1 \in 1 .. Len(s) - from + 1 /\ from + (j - from + 1) - 1 = j
  BY <1>1
<1> QED BY <1>2, <1>3, <1>4 DEF Range, b

--------------------------------------------------------------------------------
(* What the steps have in common *)

\* Pages come into the cache and leave it, and the disk keeps its entries.  A call may end
\* or go on, but not with a page.
Reads ==
    /\ directory' = directory /\ torn' = torn
    /\ cache' \in [Page -> Seq(File) \cup {None}]
    /\ \A p \in Page : cache'[p] \in {None, cache[p], Entries(p)}
    /\ call' # None => call'.at \notin {"page", "cut"}

\* One page loses the entry of the removal in progress, in the cache.
Erases ==
    /\ At("entry")
    /\ directory' = directory /\ torn' = torn
    /\ cache' \in [Page -> Seq(File) \cup {None}]
    /\ \E p \in Page, e \in Seq(File) :
          /\ e # None /\ cache'[p] = e
          /\ Range(e) \subseteq Range(Entries(p)) /\ Range(Entries(p)) \ {call.f} \subseteq Range(e)
          /\ \A q \in Page \ {p} : cache'[q] \in {cache[q], Entries(q)}
          /\ call' # None => /\ call'.at = "page" /\ call'.page = p
                             /\ call'.i \in 1 .. Len(e)

\* Part of the page gets to the disk.
Cut ==
    /\ At("page") /\ cache' = cache
    /\ \E cut : /\ IsCut(cut, call.i, cache[call.page], directory[call.page])
                /\ directory' = [directory EXCEPT ![call.page] = cut]
    /\ torn' = torn \cup {call.page}
    /\ call' = [call EXCEPT !.at = "cut"]

\* All of it does.
Completes ==
    /\ At("cut") /\ cache' = cache
    /\ directory' = [directory EXCEPT ![call.page] = cache[call.page]]
    /\ torn' = torn \ {call.page}
    /\ call' = None

\* Nothing of the bitmaps and the table but what belongs to the file that is removed changes.
Frees ==
    /\ block_bitmap' \subseteq block_bitmap /\ skipped \subseteq skipped'
    /\ inode_bitmap' \subseteq inode_bitmap /\ inode_table' \subseteq inode_table
    /\ \A f \in File : (call # None => call.f # f) =>
          /\ first_data_block_no = 0 => Bits(f) \cap block_bitmap \subseteq block_bitmap'
          /\ f \in inode_bitmap => f \in inode_bitmap'
          /\ f \in inode_table => f \in inode_table'

\* Pages that are read keep their entries.
LEMMA CachedReads ==
    ASSUME TypeOK, NEW X, cache' = Cached(X), directory' = directory, torn' = torn,
           call' # None => call'.at \notin {"page", "cut"}
    PROVE  Reads
<1>1. \A p \in Page : Cached(X)[p] \in {cache[p], Entries(p)}
  BY DEF Cached
<1>2. \A p \in Page : Cached(X)[p] \in Seq(File) \cup {None}
  BY <1>1, EntriesProperties DEF TypeOK
<1> QED BY <1>1, <1>2 DEF Reads, Cached

\* The first page that has the entry is one that has it.
LEMMA FirstPage ==
    ASSUME TypeOK, NEW f, PagesWith(f) # {},
           NEW p, p = CHOOSE q \in PagesWith(f) : \A r \in PagesWith(f) : q <= r
    PROVE  p \in Page /\ f \in Range(Entries(p))
<1>1. PagesWith(f) \in SUBSET Nat
  BY Ext2Assumption DEF PagesWith
<1>2. \E q \in PagesWith(f) : \A r \in PagesWith(f) : q <= r
  BY <1>1, LeastNat
<1> QED BY <1>2 DEF PagesWith

\* ext2_delete_inode erases the entry in the page that has it.
LEMMA EraseErases ==
    ASSUME TypeOK, EraseEntry
    PROVE  Erases
<1> DEFINE f == call.f
           p == CHOOSE q \in PagesWith(f) : \A r \in PagesWith(f) : q <= r
           old == Entries(p)
           e == Without(f, old)
           place == Place(f, old)
           c == Cached(Searched(f))
<1>1. /\ At("entry") /\ call # None /\ PagesWith(f) # {}
      /\ cache' = [c EXCEPT ![p] = e]
      /\ directory' = directory /\ torn' = torn
      /\ IF place = Len(old) THEN call' = None
         ELSE call' = [call EXCEPT !.at = "page", !.page = p,
                                   !.i = IF p \in torn THEN 1 ELSE place]
  BY DEF EraseEntry, At, Goes, disk
<1>2. p \in Page /\ f \in Range(old)
  BY <1>1, FirstPage
<1>3. old \in Seq(File) /\ Len(old) \in Nat
  BY <1>2, EntriesProperties, LenProperties
<1> HIDE DEF p, old
<1>4. /\ place \in 1 .. Len(old)
      /\ e \in Seq(File) /\ Len(e) = Len(old) - 1 /\ e # None
      /\ Range(e) \subseteq Range(old) /\ Range(old) \ {f} \subseteq Range(e)
  BY <1>2, <1>3, WithoutProperties, Ext2Assumption
<1>5. /\ c \in [Page -> Seq(File) \cup {None}]
      /\ \A q \in Page : c[q] \in {cache[q], Entries(q)}
  BY EntriesProperties DEF Cached, TypeOK
<1> HIDE DEF c, e, place
<1>6. /\ cache'[p] = e /\ cache' \in [Page -> Seq(File) \cup {None}]
      /\ \A q \in Page \ {p} : cache'[q] \in {cache[q], Entries(q)}
  BY <1>1, <1>2, <1>4, <1>5
<1>7. ASSUME call' # None
      PROVE  call'.at = "page" /\ call'.page = p /\ call'.i \in 1 .. Len(e)
  <2>1. /\ place # Len(old)
        /\ call' = [call EXCEPT !.at = "page", !.page = p,
                                !.i = IF p \in torn THEN 1 ELSE place]
    BY <1>1, <1>7
  <2>2. call \in Calls
    BY <1>1 DEF TypeOK
  <2>3. /\ call'.at = "page" /\ call'.page = p
        /\ call'.i = IF p \in torn THEN 1 ELSE place
    BY <2>1, <2>2 DEF Calls
  <2> QED BY <1>3, <1>4, <2>1, <2>3
<1> QED BY <1>1, <1>2, <1>4, <1>6, <1>7 DEF Erases, old

\* Each step reads, erases or writes, as to the entries.
LEMMA EntriesStep ==
    ASSUME TypeOK, Next
    PROVE  Reads \/ Erases \/ Cut \/ Completes
<1>1. \A p \in Page : cache[p] \in Seq(File) \cup {None}
  BY DEF TypeOK
<1>2. ASSUME UNCHANGED <<cache, directory, torn>>,
             call' # None => call'.at \notin {"page", "cut"}
      PROVE  Reads
  BY <1>2 DEF Reads, TypeOK
<1>3. ASSUME NEW f \in File, ext2_inode_lookup(f)  PROVE Reads
  <2>1. /\ directory' = directory /\ torn' = torn /\ call' = None
        /\ \E X : cache' = Cached(X)
    BY <1>3 DEF ext2_inode_lookup, disk
  <2> QED BY <2>1, CachedReads
<1>4. ASSUME NEW f \in File, EvictDentry(f)  PROVE Reads
  BY <1>2, <1>4 DEF EvictDentry, disk
<1>5. ASSUME NEW f \in File, vfs_rm(f)  PROVE Reads
  BY <1>2, <1>5 DEF vfs_rm, disk, Begin
<1>6. ASSUME NEW p \in Page, EvictPage(p)  PROVE Reads
  BY <1>6 DEF EvictPage, Reads, TypeOK, disk
<1>7. CASE FreeBlock \/ SkipBlock
  <2>1. At("blocks") /\ call \in Calls /\ UNCHANGED <<cache, directory, torn>>
    BY <1>7 DEF FreeBlock, SkipBlock, Writes, Fails, disk, At, TypeOK
  <2>2. call' = None \/ call' = [call EXCEPT !.i = NextPlace + 1]
    BY <1>7 DEF FreeBlock, SkipBlock, Writes, Fails, Goes
  <2> QED BY <1>2, <2>1, <2>2 DEF Calls, At
<1>8. CASE BlocksDone \/ FreeInode \/ ClearTable
  <2>1. call \in Calls /\ UNCHANGED <<cache, directory, torn>>
    BY <1>8 DEF BlocksDone, FreeInode, ClearTable, Writes, Fails, disk, At, TypeOK
  <2>2. call' = None \/ \E label \in {"inode", "table", "entry"} : call' = [call EXCEPT !.at = label]
    BY <1>8 DEF BlocksDone, FreeInode, ClearTable, Writes, Fails, Goes, Goto
  <2> QED BY <1>2, <2>1, <2>2 DEF Calls
<1>9. CASE EntryUnread \/ EntryMissing
  <2>1. /\ directory' = directory /\ torn' = torn /\ call' = None
        /\ \E X : cache' = Cached(X)
    BY <1>9 DEF EntryUnread, EntryMissing, Goes, disk
  <2> QED BY <2>1, CachedReads
<1>10. CASE EraseEntry
  BY <1>10, EraseErases
<1>11. CASE CutPage
  BY <1>11 DEF CutPage, Goto, Cut, IsCut
<1>12. CASE WritePage
  BY <1>12 DEF WritePage, Goes, Completes
<1>13. CASE PageFails
  BY <1>2, <1>13 DEF PageFails, Fails, Goes, disk
<1>14. CASE Stray
  <2>1. call # None => call.at \notin {"page", "cut"}
    BY <1>14 DEF Stray, At
  <2> QED BY <1>2, <1>14, <2>1 DEF Stray, disk
<1>15. CASE Restart
  BY <1>15 DEF Restart, Reads, TypeOK, disk
<1> QED BY <1>3, <1>4, <1>5, <1>6, <1>7, <1>8, <1>9, <1>10, <1>11, <1>12, <1>13, <1>14, <1>15
     DEF Next

\* The block that is freed next is the first that is left.
LEMMA NextPlaceProperties ==
    ASSUME TypeOK, call # None, NextBlocks # {}
    PROVE  /\ NextPlace \in Places(call.f) /\ NextPlace \in Nat /\ NextPlace >= call.i
           /\ \A i \in Places(call.f) :
                 call.i <= i /\ i < NextPlace => ext2_bmap(call.f, i) = 0
           /\ ext2_bmap(call.f, NextPlace) \in Blocks(call.f)
<1>1. call.f \in File /\ call.i \in Nat
  BY DEF TypeOK, Calls
<1>2. \A i \in Places(call.f) : i \in Nat /\ ext2_bmap(call.f, i) \in Blocks(call.f) \cup {0}
  BY <1>1, BlockNumbers
<1>3. NextBlocks \in SUBSET Nat
  BY <1>2 DEF NextBlocks
<1>4. \E i \in NextBlocks : \A j \in NextBlocks : i <= j
  BY <1>3, LeastNat
<1>5. /\ NextPlace \in NextBlocks
      /\ \A j \in NextBlocks : NextPlace <= j
  BY <1>4 DEF NextPlace
<1>6. /\ NextPlace \in Places(call.f) /\ call.i <= NextPlace
      /\ ext2_bmap(call.f, NextPlace) # 0
  BY <1>5 DEF NextBlocks
<1>7. ASSUME NEW i \in Places(call.f), call.i <= i, i < NextPlace, ext2_bmap(call.f, i) # 0
      PROVE  FALSE
  <2>1. i \in NextBlocks
    BY <1>7 DEF NextBlocks
  <2> QED BY <1>2, <1>5, <1>6, <1>7, <2>1
<1> QED BY <1>1, <1>2, <1>6, <1>7

\* What a step of FreeBlock does.
LEMMA FreeBlockEffect ==
    ASSUME TypeOK, FreeBlock
    PROVE  /\ call # None /\ call.at = "blocks" /\ NextBlocks # {}
           /\ UNCHANGED <<inode_bitmap, inode_table, skipped, removed, dentry>>
           /\ \/ /\ block_bitmap' = block_bitmap \ {ext2_bmap(call.f, NextPlace)}
                 /\ call' = [call EXCEPT !.i = NextPlace + 1]
              \/ /\ block_bitmap' \in {block_bitmap, block_bitmap \ {ext2_bmap(call.f, NextPlace)}}
                 /\ call' = None
BY DEF FreeBlock, At, Writes, Fails, Goes, BitOf, disk

\* Bitmaps and table lose nothing of other files.
LEMMA FreesStep ==
    ASSUME TypeOK, Next
    PROVE  Frees
<1>1. CASE UNCHANGED <<block_bitmap, inode_bitmap, inode_table, skipped>>
  BY <1>1 DEF Frees
<1>2. CASE FreeBlock
  <2> DEFINE b == ext2_bmap(call.f, NextPlace)
  <2>1. /\ call # None /\ NextBlocks # {}
        /\ UNCHANGED <<inode_bitmap, inode_table, skipped>>
        /\ block_bitmap' \in {block_bitmap, block_bitmap \ {b}}
    BY <1>2, FreeBlockEffect
  <2>2. b \in Blocks(call.f) /\ call.f \in File
    BY <2>1, NextPlaceProperties DEF TypeOK, Calls
  <2>3. \A f \in File : f # call.f /\ first_data_block_no = 0 => b \notin Bits(f)
    BY <2>2, Ext2Assumption, BlockNumbers
  <2> HIDE DEF b
  <2> QED BY <2>1, <2>3 DEF Frees
<1>3. CASE SkipBlock
  BY <1>3 DEF SkipBlock, Frees
<1>4. CASE FreeInode
  BY <1>4 DEF FreeInode, At, Writes, Fails, Goes, disk, Frees, TypeOK
<1>5. CASE ClearTable
  BY <1>5 DEF ClearTable, At, Goto, Fails, Goes, disk, Frees, TypeOK
<1>6. CASE ~(FreeBlock \/ SkipBlock \/ FreeInode \/ ClearTable)
  BY <1>1, <1>6 DEF Next, ext2_inode_lookup, EvictDentry, vfs_rm, EvictPage, BlocksDone,
     EntryUnread, EntryMissing, EraseEntry, CutPage, WritePage, PageFails, Stray, Restart, disk
<1> QED BY <1>2, <1>3, <1>4, <1>5, <1>6

--------------------------------------------------------------------------------
(* The invariant *)

LEMMA InitInv ==
    ASSUME Init
    PROVE  Ext2Inv
<1>1. TypeOK
  BY Ext2Assumption DEF Init, TypeOK
<1>2. NothingLost /\ SuccessFreesAll /\ FreedInOrder
  BY DEF Init, NothingLost, SuccessFreesAll, FreedInOrder
<1>3. CachedAsOnDisk /\ FrontOnDisk
  BY DEF Init, CachedAsOnDisk, FrontOnDisk, Entries, At
<1> QED BY <1>1, <1>2, <1>3 DEF Ext2Inv

\* The page that is written, and what has got to the disk of it.
LEMMA PageInHand ==
    ASSUME Ext2Inv, At("page") \/ At("cut")
    PROVE  /\ call \in Calls /\ call.page \in Page
           /\ cache[call.page] \in Seq(File) /\ Entries(call.page) = cache[call.page]
           /\ directory[call.page] \in Seq(File) /\ call.i \in 1 .. Len(cache[call.page])
           /\ \A cut : IsCut(cut, call.i, cache[call.page], directory[call.page]) =>
                 /\ cut \in Seq(File)
                 /\ Range(cut) \subseteq Range(cache[call.page]) \cup Range(directory[call.page])
                 /\ \A j \in 1 .. call.i - 1 : j \in DOMAIN cut /\ cut[j] = cache[call.page][j]
<1>1. TypeOK /\ call # None
  BY DEF Ext2Inv, At
<1>2. call \in Calls
  BY <1>1 DEF TypeOK
<1>3. call.page \in Page /\ cache[call.page] # None /\ call.i \in 1 .. Len(cache[call.page])
  BY DEF Ext2Inv, FrontOnDisk
<1>4. cache[call.page] \in Seq(File) /\ directory[call.page] \in Seq(File)
  BY <1>1, <1>3, EntriesProperties
<1> QED BY <1>2, <1>3, <1>4, CutProperties DEF Entries

\* Cache and disk agree on the entries that have an inode.
LEMMA CachedStep ==
    ASSUME Ext2Inv, Reads \/ Erases \/ Cut \/ Completes, Frees
    PROVE  CachedAsOnDisk'
<1>1. inode_bitmap' \subseteq inode_bitmap /\ TypeOK
  BY DEF Frees, Ext2Inv
<1>2. ASSUME NEW p \in Page
      PROVE  /\ p \notin torn => Range(Entries(p)) \subseteq Range(directory[p])
             /\ Range(directory[p]) \cap inode_bitmap \subseteq Range(Entries(p))
  BY DEF Ext2Inv, CachedAsOnDisk
<1>3. CASE Reads
  <2>1. ASSUME NEW p \in Page  PROVE Entries(p)' \in {Entries(p), directory[p]}
    BY <1>3 DEF Reads, Entries
  <2>2. ASSUME NEW p \in Page
        PROVE  /\ p \notin torn' => Range(Entries(p)') \subseteq Range(directory'[p])
               /\ Range(directory'[p]) \cap inode_bitmap' \subseteq Range(Entries(p)')
    BY <1>1, <1>2, <1>3, <2>1 DEF Reads
  <2> QED BY <2>2 DEF CachedAsOnDisk
<1>4. CASE Erases
  <2>1. PICK p \in Page, e \in Seq(File) :
          /\ e # None /\ cache'[p] = e
          /\ Range(e) \subseteq Range(Entries(p)) /\ Range(Entries(p)) \ {call.f} \subseteq Range(e)
          /\ \A q \in Page \ {p} : cache'[q] \in {cache[q], Entries(q)}
    BY <1>4 DEF Erases
  <2>2. call.f \notin inode_bitmap
    BY <1>4 DEF Erases, At, Ext2Inv, FreedInOrder
  <2>3. /\ Entries(p)' = e /\ directory' = directory /\ torn' = torn
        /\ \A q \in Page \ {p} : Entries(q)' = Entries(q)
    BY <1>4, <2>1 DEF Entries, Erases
  <2>4. ASSUME NEW q \in Page
        PROVE  /\ q \notin torn' => Range(Entries(q)') \subseteq Range(directory'[q])
               /\ Range(directory'[q]) \cap inode_bitmap' \subseteq Range(Entries(q)')
    <3>1. CASE q = p
      BY <1>1, <1>2, <2>1, <2>2, <2>3, <3>1
    <3>2. CASE q # p
      BY <1>1, <1>2, <2>3, <3>2
    <3> QED BY <3>1, <3>2
  <2> QED BY <2>4 DEF CachedAsOnDisk
<1>5. CASE Cut
  <2>1. PICK cut : /\ IsCut(cut, call.i, cache[call.page], directory[call.page])
                 /\ directory' = [directory EXCEPT ![call.page] = cut]
    BY <1>5 DEF Cut
  <2>2. /\ call.page \in Page /\ cache[call.page] # None /\ Entries(call.page) = cache[call.page]
        /\ Range(cut) \subseteq Range(cache[call.page]) \cup Range(directory[call.page])
    BY <1>5, <2>1, PageInHand DEF Cut, Ext2Inv, FrontOnDisk
  <2>3. /\ cache' = cache /\ torn' = torn \cup {call.page} /\ directory'[call.page] = cut
        /\ \A q \in Page \ {call.page} : directory'[q] = directory[q]
    BY <1>1, <1>5, <2>1, <2>2 DEF Cut, TypeOK
  <2>4. \A q \in Page : Entries(q)' = Entries(q)
    BY <2>2, <2>3 DEF Entries
  <2>5. ASSUME NEW q \in Page
        PROVE  /\ q \notin torn' => Range(Entries(q)') \subseteq Range(directory'[q])
               /\ Range(directory'[q]) \cap inode_bitmap' \subseteq Range(Entries(q)')
    <3>1. CASE q = call.page
      BY <1>1, <1>2, <2>2, <2>3, <2>4, <3>1
    <3>2. CASE q # call.page
      BY <1>1, <1>2, <2>3, <2>4, <3>2
    <3> QED BY <3>1, <3>2
  <2> QED BY <2>5 DEF CachedAsOnDisk
<1>6. CASE Completes
  <2>1. call.page \in Page /\ cache[call.page] # None /\ Entries(call.page) = cache[call.page]
    BY <1>6, PageInHand DEF Completes, Ext2Inv, FrontOnDisk
  <2>2. /\ cache' = cache /\ torn' = torn \ {call.page}
        /\ directory'[call.page] = cache[call.page]
        /\ \A q \in Page \ {call.page} : directory'[q] = directory[q]
    BY <1>1, <1>6, <2>1 DEF Completes, TypeOK
  <2>3. \A q \in Page : Entries(q)' = Entries(q)
    BY <2>1, <2>2 DEF Entries
  <2>4. ASSUME NEW q \in Page
        PROVE  /\ q \notin torn' => Range(Entries(q)') \subseteq Range(directory'[q])
               /\ Range(directory'[q]) \cap inode_bitmap' \subseteq Range(Entries(q)')
    <3>1. CASE q = call.page
      BY <2>1, <2>2, <2>3, <3>1
    <3>2. CASE q # call.page
      BY <1>1, <1>2, <2>2, <2>3, <3>2
    <3> QED BY <3>1, <3>2
  <2> QED BY <2>4 DEF CachedAsOnDisk
<1> QED BY <1>3, <1>4, <1>5, <1>6

\* The page that is written stays in the cache, and its front on the disk.
LEMMA FrontStep ==
    ASSUME Ext2Inv, Reads \/ Erases \/ Cut \/ Completes
    PROVE  FrontOnDisk'
<1>1. CASE Reads
  BY <1>1 DEF Reads, FrontOnDisk, At
<1>2. CASE Erases
  <2>1. PICK p \in Page, e \in Seq(File) :
          /\ e # None /\ cache'[p] = e
          /\ call' # None => /\ call'.at = "page" /\ call'.page = p
                             /\ call'.i \in 1 .. Len(e)
    BY <1>2 DEF Erases
  <2> QED BY <2>1 DEF FrontOnDisk, At
<1>3. CASE Cut
  <2>1. PICK cut : /\ IsCut(cut, call.i, cache[call.page], directory[call.page])
                 /\ directory' = [directory EXCEPT ![call.page] = cut]
    BY <1>3 DEF Cut
  <2>2. /\ call.page \in Page /\ cache[call.page] # None /\ call \in Calls
        /\ call.i \in 1 .. Len(cache[call.page])
        /\ \A j \in 1 .. call.i - 1 : j \in DOMAIN cut /\ cut[j] = cache[call.page][j]
    BY <1>3, <2>1, PageInHand DEF Cut, Ext2Inv, FrontOnDisk
  <2>3. /\ call'.page = call.page /\ call'.i = call.i /\ call'.at = "cut"
        /\ cache' = cache /\ directory'[call.page] = cut /\ call.page \in torn'
    BY <1>3, <2>1, <2>2 DEF Cut, Calls, Ext2Inv, TypeOK
  <2> QED BY <2>2, <2>3 DEF FrontOnDisk
<1>4. CASE Completes
  BY <1>4 DEF Completes, FrontOnDisk, At
<1> QED BY <1>1, <1>2, <1>3, <1>4

\* The variables keep their types.
LEMMA TypeStep ==
    ASSUME Ext2Inv, Next, Reads \/ Erases \/ Cut \/ Completes, Frees
    PROVE  TypeOK'
<1>0. TypeOK
  BY DEF Ext2Inv
<1>1. /\ block_bitmap' \subseteq UNION { Bits(f) : f \in File }
      /\ inode_bitmap' \subseteq File /\ inode_table' \subseteq File
  BY <1>0 DEF Frees, TypeOK
<1>2. /\ directory' \in [Page -> Seq(File)] /\ torn' \subseteq Page
      /\ cache' \in [Page -> Seq(File) \cup {None}]
  <2>1. CASE Reads \/ Erases
    BY <1>0, <2>1 DEF Reads, Erases, TypeOK
  <2>2. CASE Cut
    <3>1. PICK cut : /\ IsCut(cut, call.i, cache[call.page], directory[call.page])
                 /\ directory' = [directory EXCEPT ![call.page] = cut]
      BY <2>2 DEF Cut
    <3>2. cut \in Seq(File) /\ call.page \in Page
      BY <2>2, <3>1, PageInHand DEF Cut
    <3> QED BY <1>0, <2>2, <3>1, <3>2 DEF Cut, TypeOK
  <2>3. CASE Completes
    <3>1. cache[call.page] \in Seq(File) /\ call.page \in Page
      BY <2>3, PageInHand DEF Completes
    <3> QED BY <1>0, <2>3, <3>1 DEF Completes, TypeOK
  <2> QED BY <2>1, <2>2, <2>3
<1>3. /\ dentry' \in [File -> {"none", "live", "unread", "negative"}]
      /\ call' \in Calls \cup {None} /\ removed' \in File \cup {None}
      /\ skipped' \subseteq Nat /\ astray' \in BOOLEAN
  <2>1. \A ok : Goes(ok) /\ call # None =>
                  /\ dentry' \in [File -> {"none", "live", "unread", "negative"}]
                  /\ call' = None /\ removed' \in File \cup {None}
    BY <1>0 DEF Goes, TypeOK, Calls
  <2>2. \A label \in {"inode", "table", "entry", "cut"} :
           call # None /\ Goto(label) => call' \in Calls
    BY <1>0 DEF Goto, TypeOK, Calls
  <2>3. CASE FreeBlock
    <3>1. /\ call # None /\ UNCHANGED <<dentry, removed, skipped>> /\ NextBlocks # {}
          /\ (call' = [call EXCEPT !.i = NextPlace + 1] \/ call' = None)
      BY <1>0, <2>3, FreeBlockEffect
    <3>2. NextPlace + 1 \in Nat /\ astray' = astray
      BY <1>0, <2>3, <3>1, NextPlaceProperties DEF FreeBlock
    <3> QED BY <1>0, <3>1, <3>2 DEF TypeOK, Calls
  <2>4. CASE SkipBlock
    <3>1. /\ call # None /\ UNCHANGED <<dentry, removed, astray>> /\ NextBlocks # {}
          /\ call' = [call EXCEPT !.i = NextPlace + 1]
          /\ skipped' = skipped \cup {ext2_bmap(call.f, NextPlace)}
      BY <2>4 DEF SkipBlock, At, BitOf
    <3>2. /\ NextPlace + 1 \in Nat /\ call.f \in File
          /\ ext2_bmap(call.f, NextPlace) \in Blocks(call.f)
      BY <1>0, <3>1, NextPlaceProperties DEF TypeOK, Calls
    <3>3. ext2_bmap(call.f, NextPlace) \in Nat
      BY <3>2, BlockNumbers
    <3> QED BY <1>0, <3>1, <3>2, <3>3 DEF TypeOK, Calls
  <2>5. CASE \E f \in File : ext2_inode_lookup(f) \/ EvictDentry(f)
    BY <1>0, <2>5 DEF ext2_inode_lookup, EvictDentry, TypeOK, disk
  <2>6. CASE \E f \in File : vfs_rm(f)
    <3>1. PICK f \in File :
            /\ call' = [f |-> f, at |-> Begin, i |-> 0, page |-> None]
            /\ removed' = None /\ UNCHANGED <<dentry, skipped, astray>>
      BY <2>6 DEF vfs_rm, disk
    <3> QED BY <1>0, <3>1 DEF Begin, TypeOK, Calls
  <2>7. CASE \E p \in Page : EvictPage(p)
    BY <1>0, <2>7 DEF EvictPage, TypeOK, disk
  <2>8. CASE BlocksDone
    BY <1>0, <2>2, <2>8 DEF BlocksDone, At, TypeOK, disk
  <2>9. CASE FreeInode
    BY <1>0, <2>1, <2>2, <2>9 DEF FreeInode, At, Writes, Fails, TypeOK, disk
  <2>10. CASE ClearTable
    BY <1>0, <2>1, <2>2, <2>10 DEF ClearTable, At, Fails, TypeOK, disk
  <2>11. CASE EntryUnread \/ EntryMissing
    BY <1>0, <2>1, <2>11 DEF EntryUnread, EntryMissing, At, TypeOK, disk
  <2>12. CASE EraseEntry
    <3>1. /\ call # None /\ call \in Calls /\ UNCHANGED <<skipped, astray>>
      BY <1>0, <2>12 DEF EraseEntry, At, TypeOK, disk
    <3>2. Erases /\ PagesWith(call.f) # {}
      BY <1>0, <2>12, EraseErases DEF EraseEntry
    <3>3. ASSUME call' # None
          PROVE  call' \in Calls /\ UNCHANGED <<dentry, removed>>
      <4> DEFINE p == CHOOSE q \in PagesWith(call.f) : \A r \in PagesWith(call.f) : q <= r
                 n == IF p \in torn THEN 1 ELSE Place(call.f, Entries(p))
      <4>1. call' = [call EXCEPT !.at = "page", !.page = p, !.i = n] /\ UNCHANGED <<dentry, removed>>
        BY <2>12, <3>3 DEF EraseEntry, Goes
      <4>2. p \in Page
        BY <1>0, <3>2, FirstPage
      <4>3. \E e \in Seq(File) : call'.i \in 1 .. Len(e)
        BY <3>2, <3>3 DEF Erases
      <4> HIDE DEF p, n
      <4>4. call'.i = n
        BY <3>1, <4>1 DEF Calls
      <4>5. n \in Nat
        BY <4>3, <4>4
      <4> QED BY <3>1, <4>1, <4>2, <4>5 DEF Calls
    <3>4. call' = None => dentry' \in [File -> {"none", "live", "unread", "negative"}]
                          /\ removed' \in File \cup {None}
      <4> DEFINE p == CHOOSE q \in PagesWith(call.f) : \A r \in PagesWith(call.f) : q <= r
                 n == IF p \in torn THEN 1 ELSE Place(call.f, Entries(p))
      <4>1. call \in Calls /\ call # None
        BY <3>1
      <4>2. \/ Goes(TRUE)
            \/ /\ call' = [call EXCEPT !.at = "page", !.page = p, !.i = n]
               /\ UNCHANGED <<dentry, removed>>
        BY <2>12 DEF EraseEntry
      <4> HIDE DEF p, n
      <4> QED BY <1>0, <2>1, <4>1, <4>2 DEF TypeOK
    <3> QED BY <1>0, <3>1, <3>3, <3>4 DEF TypeOK
  <2>13. CASE CutPage
    BY <1>0, <2>2, <2>13 DEF CutPage, At, TypeOK
  <2>14. CASE WritePage \/ PageFails
    BY <1>0, <2>1, <2>14 DEF WritePage, PageFails, Fails, At, TypeOK, disk
  <2>15. CASE Stray \/ Restart
    BY <1>0, <2>15 DEF Stray, Restart, TypeOK, disk
  <2> QED BY <2>3, <2>4, <2>5, <2>6, <2>7, <2>8, <2>9, <2>10, <2>11, <2>12, <2>13, <2>14, <2>15
       DEF Next
<1> QED BY <1>1, <1>2, <1>3 DEF TypeOK

\* Blocks are freed before the inode, the inode before its entry in the table, that before
\* the entry in the directory.
LEMMA OrderStep ==
    ASSUME Ext2Inv, Next, Frees, TypeOK'
    PROVE  NothingLost' /\ SuccessFreesAll' /\ FreedInOrder'
<1>1. TypeOK /\ NothingLost /\ SuccessFreesAll /\ FreedInOrder
  BY DEF Ext2Inv
<1>2. /\ block_bitmap' \subseteq block_bitmap /\ skipped \subseteq skipped'
      /\ inode_bitmap' \subseteq inode_bitmap /\ inode_table' \subseteq inode_table
  BY DEF Frees
<1>3. ASSUME call # None  PROVE call \in Calls /\ call.f \in File /\ call.i \in Nat
  BY <1>1, <1>3 DEF TypeOK, Calls
<1>4. UNCHANGED removed \/ removed' = None => SuccessFreesAll'
  BY <1>1, <1>2 DEF SuccessFreesAll, Findable, ext2_check_inode_bitmap
<1>5. call' = None => FreedInOrder'
  BY DEF FreedInOrder
<1>6. inode_bitmap' = inode_bitmap /\ inode_table' = inode_table => NothingLost'
  BY <1>1, <1>2 DEF NothingLost
<1>7. CASE FreeBlock \/ SkipBlock
  <2> DEFINE b == ext2_bmap(call.f, NextPlace)
  <2>1. /\ call # None /\ call.at = "blocks" /\ NextBlocks # {}
        /\ UNCHANGED <<inode_bitmap, inode_table, removed>>
        /\ \/ b \notin block_bitmap' \ skipped' /\ call' = [call EXCEPT !.i = NextPlace + 1]
           \/ call' = None
    <3>1. CASE FreeBlock
      BY <1>1, <3>1, FreeBlockEffect
    <3>2. CASE SkipBlock
      BY <3>2 DEF SkipBlock, At, BitOf
    <3> QED BY <1>7, <3>1, <3>2
  <2>2. ASSUME b \notin block_bitmap' \ skipped', call' = [call EXCEPT !.i = NextPlace + 1]
        PROVE  FreedInOrder'
    <3>1. /\ NextPlace \in Nat
          /\ \A i \in Places(call.f) :
                call.i <= i /\ i < NextPlace => ext2_bmap(call.f, i) = 0
      BY <1>1, <2>1, NextPlaceProperties
    <3>2. call'.f = call.f /\ call'.at = "blocks" /\ call'.i = NextPlace + 1
      BY <1>3, <2>1, <2>2 DEF Calls
    <3>3. ASSUME NEW i \in Places(call.f), i < NextPlace + 1, ext2_bmap(call.f, i) # 0
          PROVE  BitOf(ext2_bmap(call.f, i)) \notin block_bitmap' \ skipped'
      <4>1. i \in Nat
        BY DEF Places, EXT2_FIRST_MAP_INDEX
      <4>2. CASE i < call.i
        BY <1>1, <1>2, <2>1, <3>3, <4>2 DEF FreedInOrder
      <4>3. CASE call.i <= i /\ i < NextPlace
        BY <3>1, <3>3, <4>3
      <4>4. CASE i = NextPlace
        BY <2>2, <4>4 DEF BitOf
      <4> QED BY <1>3, <2>1, <3>1, <3>3, <4>1, <4>2, <4>3, <4>4
    <3>4. (\A i \in Places(call.f) :
              i < call.i /\ ext2_bmap(call.f, i) # 0 =>
                 BitOf(ext2_bmap(call.f, i)) \notin block_bitmap \ skipped)'
      BY <3>2, <3>3 DEF Places, ext2_bmap, BitOf
    <3> QED BY <3>2, <3>4 DEF FreedInOrder
  <2> QED BY <1>4, <1>5, <1>6, <2>1, <2>2
<1>8. CASE BlocksDone
  <2>1. /\ call # None /\ call.at = "blocks" /\ NextBlocks = {}
        /\ call' = [call EXCEPT !.at = "inode"]
        /\ UNCHANGED <<block_bitmap, inode_bitmap, inode_table, skipped, removed>>
    BY <1>8 DEF BlocksDone, At, Goto, disk
  <2>2. ASSUME NEW b \in Freed(call.f) \cap block_bitmap  PROVE b \in skipped
    <3>1. PICK i \in Places(call.f) : b = ext2_bmap(call.f, i) /\ b # 0
      BY DEF Freed, BitOf
    <3>2. i \in Nat
      BY DEF Places, EXT2_FIRST_MAP_INDEX
    <3>3. ~(call.i <= i)
      BY <2>1, <3>1 DEF NextBlocks
    <3>4. i < call.i
      BY <1>3, <2>1, <3>2, <3>3
    <3> QED BY <1>1, <2>1, <2>2, <3>1, <3>4 DEF FreedInOrder, BitOf
  <2>3. call'.f = call.f /\ call'.at = "inode"
    BY <1>3, <2>1 DEF Calls
  <2>4. Freed(call'.f) \cap block_bitmap' \subseteq skipped'
    BY <2>1, <2>2, <2>3
  <2> QED BY <1>4, <1>6, <2>1, <2>3, <2>4 DEF FreedInOrder, Freed, Places, ext2_bmap, BitOf
<1>9. CASE FreeInode
  <2>1. /\ call # None /\ call.at = "inode" /\ UNCHANGED removed
        /\ UNCHANGED <<block_bitmap, inode_table, skipped>>
        /\ \/ inode_bitmap' = inode_bitmap \ {call.f} /\ call' = [call EXCEPT !.at = "table"]
           \/ inode_bitmap' \in {inode_bitmap, inode_bitmap \ {call.f}} /\ call' = None
    BY <1>9 DEF FreeInode, At, Writes, Goto, Fails, Goes, disk
  <2>2. Freed(call.f) \cap block_bitmap \subseteq skipped
    BY <1>1, <2>1 DEF FreedInOrder
  <2>3. NothingLost'
    <3>1. ASSUME NEW b \in block_bitmap
          PROVE  \/ \E f \in inode_bitmap' : b \in Bits(f)
                 \/ \E f \in File : b \in Lost(f)
                 \/ b \in skipped
      <4>1. \/ \E f \in inode_bitmap : b \in Bits(f)
            \/ \E f \in File : b \in Lost(f)
            \/ b \in skipped
        BY <1>1 DEF NothingLost
      <4>2. ASSUME b \in Bits(call.f)  PROVE b \in Lost(call.f) \cup skipped
        BY <2>2, <4>2 DEF Lost
      <4> QED BY <1>3, <2>1, <4>1, <4>2
    <3>2. block_bitmap \subseteq
             (UNION { Bits(f) : f \in inode_bitmap' }) \cup (UNION { Lost(f) : f \in File }) \cup skipped
      BY <3>1
    <3>3. inode_bitmap' \subseteq inode_table'
      BY <1>1, <1>2, <2>1 DEF NothingLost
    <3> QED BY <2>1, <3>2, <3>3 DEF NothingLost
  <2>4. ASSUME inode_bitmap' = inode_bitmap \ {call.f}, call' = [call EXCEPT !.at = "table"]
        PROVE  FreedInOrder'
    <3>1. call'.f = call.f /\ call'.at = "table"
      BY <1>3, <2>1, <2>4 DEF Calls
    <3>2. Freed(call'.f) \cap block_bitmap' \subseteq skipped' /\ call'.f \notin inode_bitmap'
      BY <2>1, <2>2, <2>4, <3>1
    <3> QED BY <3>1, <3>2 DEF FreedInOrder, Freed, Places, ext2_bmap, BitOf
  <2> QED BY <1>4, <1>5, <2>1, <2>3, <2>4
<1>10. CASE ClearTable
  <2>1. /\ call # None /\ call.at = "table" /\ UNCHANGED removed
        /\ UNCHANGED <<block_bitmap, inode_bitmap, skipped>>
        /\ \/ inode_table' = inode_table \ {call.f} /\ call' = [call EXCEPT !.at = "entry"]
           \/ inode_table' = inode_table /\ call' = None
    BY <1>10 DEF ClearTable, At, Goto, Fails, Goes, disk
  <2>2. Freed(call.f) \cap block_bitmap \subseteq skipped /\ call.f \notin inode_bitmap
    BY <1>1, <2>1 DEF FreedInOrder
  <2>3. NothingLost'
    BY <1>1, <2>1, <2>2 DEF NothingLost
  <2>4. ASSUME inode_table' = inode_table \ {call.f}, call' = [call EXCEPT !.at = "entry"]
        PROVE  FreedInOrder'
    <3>1. call'.f = call.f /\ call'.at = "entry"
      BY <1>3, <2>1, <2>4 DEF Calls
    <3>2. /\ Freed(call'.f) \cap block_bitmap' \subseteq skipped' /\ call'.f \notin inode_bitmap'
          /\ call'.f \notin inode_table'
      BY <2>1, <2>2, <2>4, <3>1
    <3> QED BY <3>1, <3>2 DEF FreedInOrder, Freed, Places, ext2_bmap, BitOf
  <2> QED BY <1>4, <1>5, <2>1, <2>3, <2>4
<1>11. CASE EntryUnread \/ EntryMissing \/ EraseEntry \/ CutPage \/ WritePage \/ PageFails
  <2>1. /\ call # None /\ call.at \in {"entry", "page", "cut"}
        /\ UNCHANGED <<block_bitmap, inode_bitmap, inode_table, skipped>>
        /\ \/ call' = None /\ (removed' = call.f \/ UNCHANGED removed)
           \/ UNCHANGED removed /\ call' # None /\ call'.f = call.f /\ call'.at \in {"page", "cut"}
    <3>1. ASSUME At("entry") \/ At("page") \/ At("cut")  PROVE call # None /\ call \in Calls
      BY <1>1, <3>1 DEF At, TypeOK
    <3>2. CASE EntryUnread \/ EntryMissing \/ WritePage \/ PageFails
      BY <3>2 DEF EntryUnread, EntryMissing, WritePage, PageFails, Fails, Goes, At, disk
    <3>3. CASE EraseEntry
      <4> DEFINE p == CHOOSE q \in PagesWith(call.f) : \A r \in PagesWith(call.f) : q <= r
                 n == IF p \in torn THEN 1 ELSE Place(call.f, Entries(p))
      <4>1. /\ At("entry") /\ UNCHANGED <<block_bitmap, inode_bitmap, inode_table, skipped>>
            /\ \/ Goes(TRUE)
               \/ /\ call' = [call EXCEPT !.at = "page", !.page = p, !.i = n]
                  /\ UNCHANGED removed
        BY <3>3 DEF EraseEntry, disk
      <4> HIDE DEF p, n
      <4> QED BY <3>1, <4>1, Ext2Assumption DEF At, Goes, Calls, TypeOK
    <3>4. CASE CutPage
      BY <3>1, <3>4 DEF CutPage, Goto, At, Calls, TypeOK
    <3> QED BY <1>11, <3>2, <3>3, <3>4
  <2>2. /\ Freed(call.f) \cap block_bitmap \subseteq skipped
        /\ call.f \notin inode_bitmap \cup inode_table
    BY <1>1, <2>1 DEF FreedInOrder
  <2>3. ASSUME removed' = call.f  PROVE SuccessFreesAll'
    <3>1. /\ Bits(removed') \cap block_bitmap' \subseteq Lost(removed') \cup skipped'
          /\ removed' \notin inode_bitmap' \cup inode_table'
      BY <2>1, <2>2, <2>3 DEF Lost
    <3> QED BY <3>1 DEF SuccessFreesAll, Findable, ext2_check_inode_bitmap, Bits, Blocks, Lost,
            Freed, Places, ext2_bmap, BitOf
  <2>4. ASSUME call' # None, call'.f = call.f, call'.at \in {"page", "cut"}
        PROVE  FreedInOrder'
    <3>1. /\ Freed(call'.f) \cap block_bitmap' \subseteq skipped' /\ call'.f \notin inode_bitmap'
          /\ call'.f \notin inode_table'
      BY <2>1, <2>2, <2>4
    <3> QED BY <2>4, <3>1 DEF FreedInOrder, Freed, Places, ext2_bmap, BitOf
  <2> QED BY <1>4, <1>5, <1>6, <2>1, <2>3, <2>4
<1>12. CASE \E f \in File : vfs_rm(f)
  <2>1. PICK f \in File :
          /\ call' = [f |-> f, at |-> "blocks", i |-> 0, page |-> None]
          /\ removed' = None /\ UNCHANGED <<inode_bitmap, inode_table>>
    BY <1>12 DEF vfs_rm, Begin, disk
  <2>2. call'.at = "blocks" /\ call'.i = 0
    BY <2>1
  <2>3. (\A i \in Places(call.f) :
            i < call.i /\ ext2_bmap(call.f, i) # 0 =>
               BitOf(ext2_bmap(call.f, i)) \notin block_bitmap \ skipped)'
    BY <2>2 DEF Places, EXT2_FIRST_MAP_INDEX
  <2> QED BY <1>4, <1>6, <2>1, <2>2, <2>3 DEF FreedInOrder
<1>13. CASE \/ \E f \in File : ext2_inode_lookup(f) \/ EvictDentry(f)
            \/ \E p \in Page : EvictPage(p)
            \/ Restart
  <2>1. /\ call' = None /\ (UNCHANGED removed \/ removed' = None)
        /\ UNCHANGED <<inode_bitmap, inode_table>>
    BY <1>13 DEF ext2_inode_lookup, EvictDentry, EvictPage, Restart, disk
  <2> QED BY <1>4, <1>5, <1>6, <2>1
<1>14. CASE Stray
  BY <1>1, <1>4, <1>6, <1>14
     DEF Stray, disk, FreedInOrder, Freed, Places, ext2_bmap, BitOf
<1> QED BY <1>7, <1>8, <1>9, <1>10, <1>11, <1>12, <1>13, <1>14 DEF Next

LEMMA NextInv ==
    ASSUME Ext2Inv, Next
    PROVE  Ext2Inv' /\ Frees /\ (Reads \/ Erases \/ Cut \/ Completes)
<1>1. TypeOK
  BY DEF Ext2Inv
<1>2. Frees /\ (Reads \/ Erases \/ Cut \/ Completes)
  BY <1>1, FreesStep, EntriesStep
<1>3. TypeOK'
  BY <1>2, TypeStep
<1>4. NothingLost' /\ SuccessFreesAll' /\ FreedInOrder'
  BY <1>2, <1>3, OrderStep
<1>5. CachedAsOnDisk' /\ FrontOnDisk'
  BY <1>2, CachedStep, FrontStep
<1> QED BY <1>2, <1>3, <1>4, <1>5 DEF Ext2Inv

\* A removal loses no block and no inode, wherever it stops, and gives back all of the file
\* when it succeeds, but for the blocks behind the loop and those that had no memory
\* (ext2.c:210).
THEOREM RemovalCorrect == Spec => []Ext2Inv
<1>1. Init => Ext2Inv
  BY InitInv
<1>2. Ext2Inv /\ [Next]_vars => Ext2Inv'
  <2>1. CASE Next
    BY <2>1, NextInv
  <2>2. CASE UNCHANGED vars
    <3> USE <2>2 DEF vars, disk
    <3>1. TypeOK => TypeOK'
      BY DEF TypeOK
    <3>2. NothingLost => NothingLost'
      BY DEF NothingLost
    <3>3. SuccessFreesAll => SuccessFreesAll'
      BY DEF SuccessFreesAll, Findable, PagesWith, Entries, ext2_check_inode_bitmap,
         Bits, Blocks, Lost, Freed, Places, ext2_bmap, BitOf
    <3>4. FreedInOrder => FreedInOrder'
      BY DEF FreedInOrder, Freed, Places, ext2_bmap, BitOf
    <3>5. CachedAsOnDisk /\ FrontOnDisk => (CachedAsOnDisk /\ FrontOnDisk)'
      BY DEF CachedAsOnDisk, FrontOnDisk, At, Entries
    <3> QED BY <3>1, <3>2, <3>3, <3>4, <3>5 DEF Ext2Inv
  <2> QED BY <2>1, <2>2
<1> QED BY <1>1, <1>2, PTL DEF Spec

\* A step leaves whole the files that are not being removed.
LEMMA OthersStep ==
    ASSUME Ext2Inv, Next, NEW f \in File, Whole(f), call # None => call.f # f, ~CutOff(f)
    PROVE  Whole(f)'
<1>1. Frees /\ (Reads \/ Erases \/ Cut \/ Completes) /\ Ext2Inv' /\ TypeOK
  BY NextInv DEF Ext2Inv
<1>2. /\ first_data_block_no = 0 => Bits(f) \subseteq block_bitmap'
      /\ f \in inode_bitmap /\ f \in inode_bitmap' /\ f \in inode_table'
  BY <1>1 DEF Frees, Whole
<1>3. PICK p \in Page : f \in Range(Written(p))
  BY DEF Whole
<1>4. f \in Range(Written(p)')
  <2>1. CASE Reads
    <3>1. Written(p)' = directory[p]
      BY <2>1 DEF Reads, Written, At
    <3>2. CASE ~(At("cut") /\ call.page = p)
      BY <1>3, <3>1, <3>2 DEF Written
    <3>3. CASE At("cut") /\ call.page = p
      <4>1. /\ cache[p] \in Seq(File) /\ call.i \in 1 .. Len(cache[p]) /\ p \in torn
            /\ \A j \in 1 .. call.i - 1 : j \in DOMAIN directory[p] /\ directory[p][j] = cache[p][j]
        BY <3>3, PageInHand DEF Ext2Inv, FrontOnDisk
      <4>2. f \notin Range(SubSeq(cache[p], call.i, Len(cache[p])))
        BY <2>1, <3>3, <4>1 DEF CutOff, Reads
      <4>3. PICK j \in 1 .. Len(cache[p]) : cache[p][j] = f
        BY <1>3, <3>3, <4>1, LenProperties DEF Written, Range
      <4>4. CASE j < call.i
        <5>1. j \in 1 .. call.i - 1
          BY <4>1, <4>4, LenProperties
        <5> QED BY <3>1, <4>1, <4>3, <5>1 DEF Range
      <4>5. CASE ~(j < call.i)
        <5>1. f \in Range(SubSeq(cache[p], call.i, Len(cache[p])))
          BY <4>1, <4>3, <4>5, BackHas
        <5> QED BY <4>2, <5>1
      <4> QED BY <4>4, <4>5
    <3> QED BY <3>2, <3>3
  <2>2. CASE Erases
    <3>1. Written(p)' = directory[p] /\ Written(p) = directory[p]
      BY <2>2 DEF Erases, Written, At
    <3> QED BY <1>3, <3>1
  <2>3. CASE Cut
    <3>1. PICK cut : /\ IsCut(cut, call.i, cache[call.page], directory[call.page])
                     /\ directory' = [directory EXCEPT ![call.page] = cut]
      BY <2>3 DEF Cut
    <3>2. /\ call \in Calls /\ call.page \in Page /\ call # None /\ call.at = "page"
          /\ Entries(call.page) = cache[call.page]
      BY <2>3, PageInHand DEF Cut, At
    <3>3. Written(p) = directory[p] /\ f \in Range(directory[p])
      BY <1>3, <3>2 DEF Written, At
    <3>4. call' # None /\ call'.at = "cut" /\ call'.page = call.page
      BY <1>1, <2>3, <3>2, Ext2Assumption DEF Cut, Calls
    <3>5. CASE p = call.page
      <4>1. Written(p)' = cache[p]
        BY <2>3, <3>4, <3>5 DEF Written, At, Cut
      <4>2. f \in Range(Entries(p))
        BY <1>2, <3>3 DEF Ext2Inv, CachedAsOnDisk
      <4> QED BY <3>2, <3>5, <4>1, <4>2
    <3>6. CASE p # call.page
      <4>1. Written(p)' = directory[p]
        BY <1>1, <3>1, <3>4, <3>6 DEF Written, At, TypeOK
      <4> QED BY <3>3, <4>1
    <3> QED BY <3>5, <3>6
  <2>4. CASE Completes
    <3>1. call.page \in Page /\ At("cut")
      BY <2>4, PageInHand DEF Completes
    <3>2. Written(p)' = Written(p)
      BY <1>1, <2>4, <3>1 DEF Completes, Written, At, TypeOK
    <3> QED BY <1>3, <3>2
  <2> QED BY <1>1, <2>1, <2>2, <2>3, <2>4
<1>5. f \in Range(Entries(p))'
  <2>1. CASE ~(At("cut") /\ call.page = p)'
    BY <1>1, <1>2, <1>4, <2>1 DEF Ext2Inv, CachedAsOnDisk, Written
  <2>2. CASE (At("cut") /\ call.page = p)'
    BY <1>1, <1>4, <2>2 DEF Ext2Inv, FrontOnDisk, Written, Entries
  <2> QED BY <2>1, <2>2
<1>6. Findable(f)'
  BY <1>2, <1>5 DEF Findable, PagesWith, ext2_check_inode_bitmap
<1> QED BY <1>2, <1>4, <1>6 DEF Whole, Bits, Blocks

\* Removing a file leaves every other one whole, on the disk and in the caches, but for the
\* entries behind its own, in the page whose write stops half-way (ext2.c:264-416).
THEOREM OthersCorrect == Spec => OthersStayWhole
<1>1. Ext2Inv /\ [Next]_vars =>
         [\A f \in File : Whole(f) /\ (call # None => call.f # f) => Whole(f)' \/ CutOff(f)]_vars
  BY OthersStep
<1> QED BY <1>1, RemovalCorrect, PTL DEF Spec, OthersStayWhole

\* A file that is not found any more stays so, whatever is read again from the disk
\* (ext2.c:532).
THEOREM RemovedCorrect == Spec => StaysRemoved
<1>1. ASSUME Ext2Inv, Next, NEW f \in File, Findable(f)'
      PROVE  Findable(f)
  <2>1. Frees /\ (Reads \/ Erases \/ Cut \/ Completes) /\ TypeOK
    BY <1>1, NextInv DEF Ext2Inv
  <2>2. PICK p \in Page : f \in Range(Entries(p)')
    BY <1>1 DEF Findable, PagesWith
  <2>3. f \in inode_bitmap' /\ f \in inode_bitmap
    BY <1>1, <2>1 DEF Findable, ext2_check_inode_bitmap, Frees
  <2>4. f \in Range(Entries(p)) \/ f \in Range(directory[p])
    <3>1. CASE Reads
      <4>1. Entries(p)' \in {Entries(p), directory[p]}
        BY <3>1 DEF Reads, Entries
      <4> QED BY <2>2, <4>1
    <3>2. CASE Erases
      <4>1. PICK q \in Page, e \in Seq(File) :
               /\ e # None /\ cache'[q] = e /\ Range(e) \subseteq Range(Entries(q))
               /\ \A r \in Page \ {q} : cache'[r] \in {cache[r], Entries(r)}
        BY <3>2 DEF Erases
      <4>2. CASE p = q
        BY <2>2, <4>1, <4>2 DEF Entries
      <4>3. CASE p # q
        <5>1. Entries(p)' = Entries(p)
          BY <3>2, <4>1, <4>3 DEF Entries, Erases
        <5> QED BY <2>2, <5>1
      <4> QED BY <4>2, <4>3
    <3>3. CASE Cut \/ Completes
      <4>1. /\ call.page \in Page /\ cache[call.page] # None /\ cache' = cache
            /\ \A q \in Page \ {call.page} : directory'[q] = directory[q]
        <5>1. /\ call.page \in Page /\ cache[call.page] # None /\ cache' = cache
              /\ \E e : directory' = [directory EXCEPT ![call.page] = e]
          BY <1>1, <3>3 DEF Cut, Completes, Ext2Inv, FrontOnDisk
        <5> QED BY <2>1, <5>1 DEF TypeOK
      <4>2. Entries(p)' = Entries(p)
        BY <4>1 DEF Entries
      <4> QED BY <2>2, <4>2
    <3> QED BY <2>1, <3>1, <3>2, <3>3
  <2>5. f \in Range(Entries(p))
    BY <1>1, <2>3, <2>4 DEF Ext2Inv, CachedAsOnDisk
  <2> QED BY <2>3, <2>5 DEF Findable, PagesWith, ext2_check_inode_bitmap
<1>2. Ext2Inv /\ [Next]_vars => [\A f \in File : Findable(f)' => Findable(f)]_vars
  BY <1>1
<1> QED BY <1>2, RemovalCorrect, PTL DEF Spec, StaysRemoved
================================================================================
