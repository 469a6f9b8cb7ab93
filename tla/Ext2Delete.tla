------------------------------- MODULE Ext2Delete -------------------------------
(****************************************************************************)
(* Removing files of ext2: ext2_delete_inode (kernel/vfs/ext2.c) as vfs_rm  *)
(* (usr.c) calls it, with the lookup that finds files again, in a directory *)
(* whose pages may be cached (vfscache.c).                                  *)
(*                                                                          *)
(* The machine may stop between any two sectors that are written and start  *)
(* again with what is on the disk.  Reads and writes may fail (a write that *)
(* fails changes nothing), and there may be no memory for a block.  Names   *)
(* and inodes are the same here, and each file has one name.  The entries   *)
(* of a page are a sequence; rec_len and the zeros behind the last entry    *)
(* are left out, and so is the remnant of an entry where a page was cut,    *)
(* which is taken for a name that nobody asks for.                          *)
(*                                                                          *)
(* Some failures the code does not notice, and goes on with what it has not *)
(* read.  It may write anywhere then: astray.  Behaviours end there.        *)
(****************************************************************************)
EXTENDS Naturals, SequencesExt

CONSTANTS
    File,
    Page, Directory,    \* pages of the directory, and their entries at first
    i_block, i_blocks,  \* of each inode: block numbers with 0 for a hole, and how many are asked for
    first_data_block_no,\* 1 when blocks have 1024 bytes, else 0
    MaxEntries,         \* bound: entries that a page has room for
    None

EXT2_FIRST_MAP_INDEX == 12

VARIABLES
    block_bitmap,   \* bits that are set
    inode_bitmap,   \* inodes whose bit is set
    inode_table,    \* inodes whose entry is not zero
    directory,      \* entries on disk
    torn,           \* pages of it that are part new, part old
    skipped,        \* blocks that a removal has passed over for want of memory
    cache,          \* of each page of the directory: entries in the page cache, or None
    dentry,         \* of each name: "none" in the cache, "live" with an inode, "unread" with one
                    \* that was not read, "negative" without
    call,           \* the removal in progress, or None
    removed,        \* the file whose removal was the last to succeed, or None
    astray          \* has the code used what it has not read?

disk == <<block_bitmap, inode_bitmap, inode_table, directory, torn, skipped>>
vars == <<disk, cache, dentry, call, removed, astray>>

\* The blocks of a file, and their bits in the bitmaps, which begin with the first data block.
Blocks(f) == Range(i_block[f]) \ {0}
Bits(f) == { b - first_data_block_no : b \in Blocks(f) }

\* What a removal in progress keeps in its variables.  While it writes a page, i is the
\* first entry that may differ from what was there.
Calls == [f : File, at : {"blocks", "inode", "table", "entry", "page", "cut"},
          i : Nat, page : Page \cup {None}]

ASSUME Ext2Assumption ==
    /\ IsFiniteSet(Page) /\ Page \subseteq Nat
    /\ \A f \in File : i_block[f] \in Seq(Nat) /\ i_blocks[f] \in Nat
    /\ \A f, g \in File : f # g => Blocks(f) \cap Blocks(g) = {}
    /\ Directory \in [Page -> Seq(File)]
    /\ \A f \in File : \E p \in Page : f \in Range(Directory[p])
    /\ None \notin File \cup Seq(File) \cup Page \cup Calls
    /\ first_data_block_no \in {0, 1} /\ MaxEntries \in Nat

Init ==
    /\ block_bitmap = UNION { Bits(f) : f \in File }
    /\ inode_bitmap = File /\ inode_table = File
    /\ directory = Directory /\ torn = {} /\ skipped = {}
    /\ cache = [p \in Page |-> None]
    /\ dentry = [f \in File |-> "none"]
    /\ call = None /\ removed = None /\ astray = FALSE

--------------------------------------------------------------------------------
(* Finding a file *)

Entries(p) == IF cache[p] = None THEN directory[p] ELSE cache[p]
PagesWith(f) == { p \in Page : f \in Range(Entries(p)) }

\* The pages read until the entry is met; all when it is not.
Searched(f) == { p \in Page : \A q \in PagesWith(f) : p <= q }
Cached(pages) == [p \in Page |-> IF p \in pages THEN Entries(p) ELSE cache[p]]

ext2_check_inode_bitmap(f) == f \in inode_bitmap

\* Mutant: inodes of removed files are found.
Findable_Removed(f) == PagesWith(f) # {}

Findable(f) == PagesWith(f) # {} /\ ext2_check_inode_bitmap(f)

Before(p) == { q \in Page : q < p }

\* When the inode cannot be read, nobody looks at the result of ext2_fill_inode.  When a
\* page cannot be mapped or read, or the bitmap of inodes, nothing is found.
ext2_inode_lookup(f) ==
    /\ call = None /\ dentry[f] = "none"
    /\ \/ /\ Findable(f)
          /\ cache' = Cached(Searched(f))
          /\ \E state \in {"live", "unread"} : dentry' = [dentry EXCEPT ![f] = state]
       \/ /\ \E read \in { Before(p) : p \in Page } \cup {Page} : cache' = Cached(read)
          /\ dentry' = [dentry EXCEPT ![f] = "negative"]
    /\ UNCHANGED <<disk, call, removed, astray>>

\* The caches of pages and of dentries put something out.
EvictPage(p) ==
    /\ call = None /\ cache[p] # None
    /\ cache' = [cache EXCEPT ![p] = None]
    /\ UNCHANGED <<disk, dentry, call, removed, astray>>

EvictDentry(f) ==
    /\ call = None /\ dentry[f] # "none"
    /\ dentry' = [dentry EXCEPT ![f] = "none"]
    /\ UNCHANGED <<disk, cache, call, removed, astray>>

--------------------------------------------------------------------------------
(* Removing a file *)

At(label) == call # None /\ call.at = label
Goto(label) == call' = [call EXCEPT !.at = label]

Goes(ok) ==
    /\ call' = None
    /\ IF ok THEN dentry' = [dentry EXCEPT ![call.f] = "negative"] /\ removed' = call.f
             ELSE UNCHANGED <<dentry, removed>>

\* -EIO; nothing is undone, and the dentry keeps its inode.
Fails == Goes(FALSE)

\* A sector is read, changed and written.  When it has been written, it is read again.
Writes(change, next) ==
    \/ change /\ next /\ UNCHANGED <<dentry, removed>>
    \/ change /\ Fails
    \/ Fails /\ UNCHANGED disk

\* Mutant: the blocks are not freed.
Begin_Inode == "inode"

Begin == "blocks"

vfs_rm(f) ==
    /\ call = None /\ dentry[f] = "live"
    /\ call' = [f |-> f, at |-> Begin, i |-> 0, page |-> None]
    /\ removed' = None
    /\ UNCHANGED <<disk, cache, dentry, astray>>

\* Blocks that are in the inode.
ext2_bmap(f, i) == IF i < Len(i_block[f]) THEN i_block[f][i + 1] ELSE 0

\* The places of them that the loop passes: i_blocks counts sectors.
Places(f) == { i \in 0 .. EXT2_FIRST_MAP_INDEX - 1 : i < i_blocks[f] }

\* Mutant: the blocks end where there is a hole.
NextBlocks_UpToHole ==
    IF \E i \in 0 .. call.i : ext2_bmap(call.f, i) = 0 THEN {}
    ELSE { i \in Places(call.f) : call.i <= i /\ ext2_bmap(call.f, i) # 0 }

\* The blocks that are still to be freed, by their places.
NextBlocks == { i \in Places(call.f) : call.i <= i /\ ext2_bmap(call.f, i) # 0 }

\* The first data block is not subtracted.
BitOf(b) == b

\* The first of them.
NextPlace == CHOOSE i \in NextBlocks : \A j \in NextBlocks : i <= j

FreeBlock ==
    /\ At("blocks") /\ NextBlocks # {}
    /\ Writes(/\ block_bitmap' = block_bitmap \ {BitOf(ext2_bmap(call.f, NextPlace))}
              /\ UNCHANGED <<inode_bitmap, inode_table, directory, torn, skipped>>,
              call' = [call EXCEPT !.i = NextPlace + 1])
    /\ UNCHANGED <<cache, astray>>

\* ext2_bmap has no memory for a block, of which a direct one has no need: it returns 0,
\* which looks like a hole.
SkipBlock ==
    /\ At("blocks") /\ NextBlocks # {}
    /\ skipped' = skipped \cup {BitOf(ext2_bmap(call.f, NextPlace))}
    /\ call' = [call EXCEPT !.i = NextPlace + 1]
    /\ UNCHANGED <<block_bitmap, inode_bitmap, inode_table, directory, torn, cache, dentry,
                   removed, astray>>

BlocksDone ==
    /\ At("blocks") /\ NextBlocks = {}
    /\ Goto("inode")
    /\ UNCHANGED <<disk, cache, dentry, removed, astray>>

FreeInode ==
    /\ At("inode")
    /\ Writes(/\ inode_bitmap' = inode_bitmap \ {call.f}
              /\ UNCHANGED <<block_bitmap, inode_table, directory, torn, skipped>>,
              Goto("table"))
    /\ UNCHANGED <<cache, astray>>

\* This one is not read again, so that a failure comes before the write.
ClearTable ==
    /\ At("table")
    /\ \/ /\ inode_table' = inode_table \ {call.f}
          /\ Goto("entry")
          /\ UNCHANGED <<block_bitmap, inode_bitmap, directory, torn, skipped, dentry, removed>>
       \/ Fails /\ UNCHANGED disk
    /\ UNCHANGED <<cache, astray>>

\* The entry is searched for by its name, page by page.  A page that cannot be read ends
\* the removal as if all went well.
EntryUnread ==
    /\ At("entry")
    /\ \E p \in Searched(call.f) : cache[p] = None /\ cache' = Cached(Before(p))
    /\ Goes(TRUE)
    /\ UNCHANGED <<disk, astray>>

\* -ENOENT: no page has the entry, or one cannot be mapped.
EntryMissing ==
    /\ At("entry")
    /\ \/ PagesWith(call.f) = {} /\ cache' = Cached(Page)
       \/ \E p \in Searched(call.f) : cache' = Cached(Before(p))
    /\ Goes(FALSE)
    /\ UNCHANGED <<disk, astray>>

\* The first entry of a file in a page: one that was cut may have two.
Place(f, entries) ==
    CHOOSE i \in DOMAIN entries : entries[i] = f /\ \A j \in DOMAIN entries : entries[j] = f => i <= j

\* Mutant: one entry too few is moved forward.
Without_OneLess(f, entries) ==
    LET i == Place(f, entries) IN SubSeq(entries, 1, i - 1) \o SubSeq(entries, i + 1, Len(entries) - 1)

\* The entries behind that of f are moved forward.
Without(f, entries) == RemoveAt(entries, Place(f, entries))

\* The cached page loses the entry.  It is written when entries follow.
EraseEntry ==
    /\ At("entry") /\ PagesWith(call.f) # {}
    /\ LET f == call.f
           p == CHOOSE p \in PagesWith(f) : \A q \in PagesWith(f) : p <= q
           place == Place(f, Entries(p))
       IN  /\ cache' = [Cached(Searched(f)) EXCEPT ![p] = Without(f, Entries(p))]
           /\ IF place = Len(Entries(p)) THEN Goes(TRUE)
              ELSE /\ call' = [call EXCEPT !.at = "page", !.page = p,
                                          !.i = IF p \in torn THEN 1 ELSE place]
                   /\ UNCHANGED <<dentry, removed>>
    /\ UNCHANGED <<disk, astray>>

\* The first k entries of one sequence, and those of another from the j-th.
CutAt(k, j, new, old) == SubSeq(new, 1, k) \o SubSeq(old, j, Len(old))

\* The first sectors of the page are on the disk.
CutPage ==
    /\ At("page")
    /\ LET new == cache[call.page]
           old == directory[call.page]
       IN  \E k \in call.i - 1 .. Len(new), j \in call.i .. Len(old) + 1 :
              /\ Len(CutAt(k, j, new, old)) <= MaxEntries
              /\ directory' = [directory EXCEPT ![call.page] = CutAt(k, j, new, old)]
    /\ torn' = torn \cup {call.page}
    /\ Goto("cut")
    /\ UNCHANGED <<block_bitmap, inode_bitmap, inode_table, skipped, cache, dentry, removed, astray>>

\* All of them are.
WritePage ==
    /\ At("cut")
    /\ directory' = [directory EXCEPT ![call.page] = cache[call.page]]
    /\ torn' = torn \ {call.page}
    /\ Goes(TRUE)
    /\ UNCHANGED <<block_bitmap, inode_bitmap, inode_table, skipped, cache, astray>>

PageFails ==
    /\ At("page") \/ At("cut")
    /\ Fails
    /\ UNCHANGED <<disk, cache, astray>>

\* What is taken for read and is not: the inode that is removed; the descriptor of its
\* group, or of that of a block, when reading it failed; blocks behind the direct ones, as
\* ext2_bmap takes the number of a block of numbers for that of a sector; the lengths of
\* entries where a page was cut.
Stray ==
    /\ \/ call = None /\ \E f \in File : dentry[f] = "unread"
       \/ At("blocks") /\ (NextBlocks # {} \/ i_blocks[call.f] > EXT2_FIRST_MAP_INDEX)
       \/ At("inode")
       \/ (call = None \/ At("entry")) /\ \E p \in torn : cache[p] = None
    /\ astray' = TRUE
    /\ UNCHANGED <<disk, cache, dentry, call, removed>>

\* The machine starts anew.
Restart ==
    /\ cache' = [p \in Page |-> None]
    /\ dentry' = [f \in File |-> "none"]
    /\ call' = None /\ removed' = None
    /\ UNCHANGED <<disk, astray>>

Next ==
    /\ ~astray
    /\ \/ \E f \in File : ext2_inode_lookup(f) \/ EvictDentry(f) \/ vfs_rm(f)
       \/ \E p \in Page : EvictPage(p)
       \/ FreeBlock \/ SkipBlock \/ BlocksDone \/ FreeInode \/ ClearTable
       \/ EntryUnread \/ EntryMissing \/ EraseEntry \/ CutPage \/ WritePage \/ PageFails
       \/ Stray \/ Restart

Spec == Init /\ [][Next]_vars

--------------------------------------------------------------------------------
(* Properties *)

\* The variables have their types.
TypeOK ==
    /\ block_bitmap \subseteq UNION { Bits(f) : f \in File } /\ skipped \subseteq Nat
    /\ inode_bitmap \subseteq File /\ inode_table \subseteq File
    /\ directory \in [Page -> Seq(File)] /\ cache \in [Page -> Seq(File) \cup {None}]
    /\ torn \subseteq Page
    /\ dentry \in [File -> {"none", "live", "unread", "negative"}]
    /\ call \in Calls \cup {None} /\ removed \in File \cup {None} /\ astray \in BOOLEAN

\* The entries of a page on the disk, if the write in progress goes on.
Written(p) == IF At("cut") /\ call.page = p THEN cache[p] ELSE directory[p]

\* On the disk and in the cache, all that belongs to a file.  With blocks of 1024 bytes,
\* bits are another matter (ext2.c:269).
Whole(f) ==
    /\ first_data_block_no = 0 => Bits(f) \subseteq block_bitmap
    /\ f \in inode_bitmap /\ f \in inode_table
    /\ Findable(f) /\ \E p \in Page : f \in Range(Written(p))

\* Its entry is behind the one that is erased, in a page whose write stops half-way.
CutOff(f) ==
    /\ At("cut") /\ call.page \in torn'
    /\ f \in Range(SubSeq(cache[call.page], call.i, Len(cache[call.page])))

\* Removing one file, as far as it goes and wherever it stops, leaves the others whole;
\* but of a page whose write stops half-way, the entries behind (ext2.c:264-416).
OthersStayWhole ==
    [][\A f \in File : Whole(f) /\ (call # None => call.f # f) => Whole(f)' \/ CutOff(f)]_vars

\* The bits that a removal of the file resets, and those of its own that stay for ever.
Freed(f) == { BitOf(b) : b \in { ext2_bmap(f, i) : i \in Places(f) } \ {0} }
Lost(f) == Bits(f) \ Freed(f)

\* Wherever a removal stops, no block is lost: one that is in use belongs to an inode in
\* use, or is one that the loop does not reach or has passed over for want of memory; and
\* an inode in use has its entry in the table (ext2.c:264, 293, 309).
NothingLost ==
    /\ block_bitmap \subseteq
          (UNION { Bits(f) : f \in inode_bitmap }) \cup (UNION { Lost(f) : f \in File }) \cup skipped
    /\ inode_bitmap \subseteq inode_table

\* A file that is not found any more stays so, when its entry is read again from the disk
\* too (ext2.c:532).
StaysRemoved == [][\A f \in File : Findable(f)' => Findable(f)]_vars

\* A removal that succeeds has given back all of the file but the same blocks (ext2.c:210).
SuccessFreesAll ==
    removed # None => /\ Bits(removed) \cap block_bitmap \subseteq Lost(removed) \cup skipped
                      /\ removed \notin inode_bitmap \cup inode_table
                      /\ ~Findable(removed)

\* What a removal in progress has freed: the blocks it has passed, then all of them, the
\* inode, its entry in the table (ext2.c:264, 293, 309).
FreedInOrder ==
    call # None =>
      /\ call.at = "blocks" =>
            \A i \in Places(call.f) :
               i < call.i /\ ext2_bmap(call.f, i) # 0 =>
                  BitOf(ext2_bmap(call.f, i)) \notin block_bitmap \ skipped
      /\ call.at # "blocks" => Freed(call.f) \cap block_bitmap \subseteq skipped
      /\ call.at \notin {"blocks", "inode"} => call.f \notin inode_bitmap
      /\ call.at \in {"entry", "page", "cut"} => call.f \notin inode_table

\* A page in the cache has the entries of the page on the disk, but for such as have no
\* inode any more, or were cut off (ext2.c:324).
CachedAsOnDisk ==
    \A p \in Page : /\ p \notin torn => Range(Entries(p)) \subseteq Range(directory[p])
                    /\ Range(directory[p]) \cap inode_bitmap \subseteq Range(Entries(p))

\* A page that is being written is in the cache, and the entries in front of the one that was
\* erased are on the disk all the time (ext2.c:404-413).
FrontOnDisk ==
    At("page") \/ At("cut") =>
        /\ call.page \in Page /\ cache[call.page] # None
        /\ call.i \in 1 .. Len(cache[call.page])
        /\ At("cut") => /\ call.page \in torn
                        /\ \A j \in 1 .. call.i - 1 :
                              /\ j \in DOMAIN directory[call.page]
                              /\ directory[call.page][j] = cache[call.page][j]

\* What the disk has after any write of any removal (ext2.c:264-416).
Ext2Inv ==
    /\ TypeOK /\ NothingLost /\ SuccessFreesAll /\ FreedInOrder
    /\ CachedAsOnDisk /\ FrontOnDisk

\* A removal that succeeds has taken the entry out of the directory (ext2.c:324).
EntryErased == removed # None => \A p \in Page : removed \notin Range(directory[p])

\* A file that is found has its blocks.
FoundIsWhole == \A f \in File : Findable(f) => Bits(f) \subseteq block_bitmap

\* The code uses nothing that it has not read (ext2.c:250, 271, 543, 755).
NeverAstray == ~astray

\* A removal resets no bit of another file's blocks (ext2.c:269).
KeepsBitsOfOthers ==
    [][\A f \in File : call # None /\ call.f # f /\ Bits(f) \subseteq block_bitmap
                         => Bits(f) \subseteq block_bitmap']_vars

\* A block that a removal passes over has no bit (ext2.c:749).
SkipsNothing == skipped = {}
================================================================================
