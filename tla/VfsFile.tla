-------------------------------- MODULE VfsFile --------------------------------
(****************************************************************************)
(* Files through the VFS: generic_file_read and generic_file_write          *)
(* (kernel/vfs/read_write.c) over the page cache (vfscache.c), with what    *)
(* FAT32 (fat32.c) and ext2 (ext2.c) put below them: the map from pages of  *)
(* a file to blocks, reading and writing a block, finding an inode and      *)
(* writing back its size; and removing a file of FAT32.                     *)
(*                                                                          *)
(* A call goes page by page, one page a step.  One call runs at a time: the *)
(* shell is the only process that uses the VFS.  Every write goes through   *)
(* to the disk and nothing in the code sets P_DIRTY, so p_state is left out *)
(* and with it write_back and generic_file_flush, which look at nothing     *)
(* else.  Each file system has one directory of one block.                  *)
(*                                                                          *)
(* Where a call uses what has not been read, or a page for which its file   *)
(* has no block, it reads or writes somewhere else: astray.  Behaviours end *)
(* there.                                                                   *)
(****************************************************************************)
EXTENDS Integers, SequencesExt

CONSTANTS
    Fat, Ext,           \* files on the FAT32 and on the ext2 partition
    FatDir, ExtDir,     \* the directories, and their blocks
    Chain,              \* the blocks of each file, in order
    BlockZero,          \* block 0 of the ext2 partition
    BLK,                \* i_blksize
    PCACHE_CAPACITY,
    Byte,
    InitSize, InitByte, \* length of each file, and byte all over each block, at first
    Data,               \* what is written: some strings of bytes
    MaxCount,           \* bound: bytes of one call
    MaxGen,             \* bound: how often the inode of a file is forgotten
    Fault,              \* what may fail: reads of "data" and of a "dir"; of an "inode", that is,
                        \* of the table or the FAT at a lookup; of the table for a new "size";
                        \* "write"; "mem" for bmap
    None

File == Fat \cup Ext
FatBlock == UNION { Range(Chain[f]) : f \in Fat }
ExtBlock == UNION { Range(Chain[f]) : f \in Ext }
Block == FatBlock \cup ExtBlock \cup {BlockZero}
Dir == {FatDir, ExtDir}
Deleted == -1           \* name[0] = 0xE5

\* The locals of a call, and those that FileStore knows of.
Calls == [op : {"read", "write"}, f : File, pos : Nat, count : Nat, end : Nat, page : Nat,
          cur : Nat, data : Seq(Byte)]
StoreCalls == [op : {"read", "write"}, f : File, pos : Nat, count : Nat, cur : Nat,
               data : Seq(Byte)]

ASSUME VfsAssumption ==
    /\ Fat \cap Ext = {} /\ Dir \cap (Block \cup File) = {} /\ FatDir # ExtDir
    /\ BLK \in Nat \ {0} /\ PCACHE_CAPACITY \in Nat \ {0}
    /\ \A f \in File : Chain[f] \in Seq(Block) /\ IsInjective(Chain[f])
    /\ \A f, g \in File : f # g => Range(Chain[f]) \cap Range(Chain[g]) = {}
    /\ (\A f \in Ext : Len(Chain[f]) < 12) /\ BlockZero \notin FatBlock \cup ExtBlock
    /\ InitSize \in [File -> Nat] /\ \A f \in File : InitSize[f] \in 1 .. BLK * Len(Chain[f])
    /\ InitByte \in [Block -> Byte] /\ MaxCount \in Nat /\ MaxGen \in Nat
    /\ Data \subseteq Seq(Byte) /\ \A data \in Data : Len(data) \in 1 .. MaxCount
    /\ Fault \subseteq {"data", "dir", "inode", "size", "write", "mem"}
    /\ None \notin Calls \cup StoreCalls

VARIABLES
    disk,       \* data blocks; the FAT32 directory with the size of each file
    itab,       \* i_size in the ext2 inode table
    pcache,     \* c_LRU, the page used last first
    inode,      \* of each file: is there one in memory, which, of what size
    call,       \* the read or write in progress, with its locals
    astray      \* has a call used what it has not read, or no block of its file?

vars == <<disk, itab, pcache, inode, call, astray>>

Init ==
    /\ disk = [l \in Block \cup Dir |->
                 CASE l \in Block  -> [i \in 0 .. BLK - 1 |-> InitByte[l]]
                   [] l = FatDir -> [f \in Fat |-> InitSize[f]]
                   [] l = ExtDir -> [f \in Ext |-> TRUE]]
    /\ itab = [f \in Ext |-> InitSize[f]]
    /\ pcache = <<>>
    /\ inode = [f \in File |-> [gen |-> 0, state |-> "none", size |-> 0]]
    /\ call = None /\ astray = FALSE

--------------------------------------------------------------------------------
(* The page cache.  A page belongs to an inode: an inode that is read anew    *)
(* from the disk is another one, and finds none of the pages of the old.      *)

host(f) == <<f, inode[f].gen>>
dir_host(d) == <<d, 0>>
dir_of(f) == IF f \in Fat THEN FatDir ELSE ExtDir

Slots(s, h, l) == { k \in DOMAIN s : s[k].host = h /\ s[k].loc = l }
Cached(h, l) == Slots(pcache, h, l) # {}

\* pcache_look_up, with the move to the front.
pcache_look_up(s, h, l) ==
    LET k == CHOOSE k \in Slots(s, h, l) : TRUE IN <<s[k]>> \o RemoveAt(s, k)

\* Mutant: nothing is put out of a full cache.
pcache_add_NoLimit(s, page) == <<page>> \o s

pcache_add(s, page) ==
    <<page>> \o (IF Len(s) = PCACHE_CAPACITY THEN Front(s) ELSE s)

\* Look up a page, or read and add it; it is at the front then.
Fetched(h, l) ==
    IF Cached(h, l) THEN pcache_look_up(pcache, h, l)
                    ELSE pcache_add(pcache, [host |-> h, loc |-> l, data |-> disk[l]])

\* The fetch fails: the page is not cached, and reading it may fail.
FetchFails(h, l, kind) == ~Cached(h, l) /\ kind \in Fault

\* The page at the front gets new data, which writepage writes to its block;
\* the code that calls writepage for data and sizes does not look at its result.
Stored(s, data) == [s EXCEPT ![1].data = data]
writepage(l, data) ==
    \/ disk' = [disk EXCEPT ![l] = data]
    \/ "write" \in Fault /\ UNCHANGED disk

--------------------------------------------------------------------------------
(* Inodes *)

\* What the lookup of each file system finds in the cached directory: the size of
\* the file.  The file of FAT32 may be deleted; ext2 has the size elsewhere.
fat32_inode_lookup(f, page) == page[f]
ext2_inode_lookup(f) == itab[f]

Found(f, n) ==
    [inode EXCEPT ![f].state = IF n = Deleted THEN "negative" ELSE "live",
                  ![f].size = IF n = Deleted THEN 0 ELSE n]

\* path_lookup of a file that has no dentry.  With a deleted entry, or when the
\* directory cannot be read, what stays is a dentry without inode.  Nobody looks at the
\* results of ext2_fill_inode and of read_fat: the inode goes live all the same.
Open(f) ==
    LET d == dir_of(f)
        s == Fetched(dir_host(d), d)
    IN  /\ call = None /\ inode[f].state = "none"
        /\ \/ /\ pcache' = s
              /\ inode' = Found(f, IF f \in Fat THEN fat32_inode_lookup(f, Head(s).data)
                                                ELSE ext2_inode_lookup(f))
           \/ /\ FetchFails(dir_host(d), d, "dir")
              /\ inode' = Found(f, Deleted)
              /\ UNCHANGED pcache
           \/ /\ "inode" \in Fault /\ (f \in Fat => fat32_inode_lookup(f, Head(s).data) # Deleted)
              /\ pcache' = s
              /\ inode' = [inode EXCEPT ![f].state = "unread"]
        /\ UNCHANGED <<disk, itab, call, astray>>

\* The dentry cache drops the dentry, and with it the only way to the inode.
Forget(f) ==
    /\ call = None /\ inode[f].state # "none" /\ inode[f].gen < MaxGen
    /\ inode' = [inode EXCEPT ![f] = [gen |-> @.gen + 1, state |-> "none", size |-> 0]]
    /\ UNCHANGED <<disk, itab, pcache, call, astray>>

\* readdir goes over the pages of a directory.
readdir(d) ==
    /\ call = None
    /\ pcache' = Fetched(dir_host(d), d)
    /\ UNCHANGED <<disk, itab, inode, call, astray>>

\* vfs_rm with fat32_delete_inode, which reports success when it cannot read
\* the directory.  The blocks of the file stay allocated.
\* Mutant: the entry is marked in the cached page only.
vfs_rm_NoWrite(f) ==
    LET s == Fetched(dir_host(FatDir), FatDir)
        entries == [Head(s).data EXCEPT ![f] = Deleted]
    IN  /\ call = None /\ inode[f].state \in {"live", "unread"}
        /\ pcache' = Stored(s, entries)
        /\ inode' = [inode EXCEPT ![f].state = "negative"]
        /\ UNCHANGED <<disk, itab, call, astray>>

vfs_rm(f) ==
    LET s == Fetched(dir_host(FatDir), FatDir)
        entries == [Head(s).data EXCEPT ![f] = Deleted]
    IN  /\ call = None /\ inode[f].state \in {"live", "unread"}
        /\ \/ pcache' = Stored(s, entries) /\ writepage(FatDir, entries)
           \/ FetchFails(dir_host(FatDir), FatDir, "dir") /\ UNCHANGED <<pcache, disk>>
        /\ inode' = [inode EXCEPT ![f].state = "negative"]
        /\ UNCHANGED <<itab, call, astray>>

\* The new size of a file goes into its directory entry, or into the inode table;
\* that this fails is not looked at.
fat32_write_inode(f, n) ==
    LET s == Fetched(dir_host(FatDir), FatDir)
        entries == [Head(s).data EXCEPT ![f] = n]
    IN  /\ \/ pcache' = Stored(s, entries) /\ writepage(FatDir, entries)
           \/ FetchFails(dir_host(FatDir), FatDir, "dir") /\ UNCHANGED <<pcache, disk>>
        /\ UNCHANGED itab

ext2_write_inode(f, n) ==
    /\ \/ itab' = [itab EXCEPT ![f] = n]
       \/ Fault \cap {"size", "write"} # {} /\ UNCHANGED itab
    /\ UNCHANGED <<pcache, disk>>

--------------------------------------------------------------------------------
(* Reading and writing *)

\* fat32_inode_lookup fills a_page by "addr = (new_inode, addr)", so every page
\* is on the first cluster.
fat32_bmap(f, page) == Chain[f][1]

\* Mutant: pages are counted from 1.
ext2_bmap_FromOne(f, page) == IF page + 1 < Len(Chain[f]) THEN Chain[f][page + 2] ELSE BlockZero

\* Direct blocks only.  In i_block, pages that are not allocated have 0.
ext2_bmap(f, page) == IF page < Len(Chain[f]) THEN Chain[f][page + 1] ELSE BlockZero

bmap(f, page) == IF f \in Fat THEN fat32_bmap(f, page) ELSE ext2_bmap(f, page)

\* Where a call of n bytes from pos on ends in f: reading ends with the file.
EndPos(op, f, pos, n) ==
    IF op = "read" /\ pos + n >= inode[f].size THEN inode[f].size ELSE pos + n

EndPage(c) == c.end \div BLK

\* The bytes from .. to - 1 of page are those the call wants.
From(c) == IF c.page = c.pos \div BLK THEN c.pos % BLK ELSE 0
To(c)   == IF c.page = EndPage(c) THEN c.end % BLK ELSE BLK

\* Callers read within the file, and write from its start.
Begin(op, f, pos, n, data) ==
    LET end == EndPos(op, f, pos, n)
    IN  /\ call = None /\ inode[f].state = "live"
        /\ call' = [op |-> op, f |-> f, pos |-> pos, count |-> n, end |-> end,
                    page |-> pos \div BLK, cur |-> 0, data |-> data]
        /\ UNCHANGED <<disk, itab, pcache, inode, astray>>

generic_file_read(f, pos, n) ==
    pos + n <= inode[f].size /\ Begin("read", f, pos, n, <<>>)

generic_file_write(f, data) == Begin("write", f, 0, Len(data), data)

Running(op) == call # None /\ call.op = op
InLoop(op) == Running(op) /\ call.page <= EndPage(call)

\* Mutant: the data come from the first byte of the page on.
ReadPage_FromStart(l) ==
    LET s == Fetched(host(call.f), l)
        n == To(call) - From(call)
    IN  /\ pcache' = s
        /\ call' = [call EXCEPT !.page = @ + 1, !.cur = @ + n,
                                !.data = @ \o [i \in 1 .. n |-> Head(s).data[i - 1]]]
        /\ UNCHANGED <<disk, itab, inode, astray>>

ReadPage(l) ==
    LET s == Fetched(host(call.f), l)
        n == To(call) - From(call)
    IN  /\ pcache' = s
        /\ call' = [call EXCEPT !.page = @ + 1, !.cur = @ + n,
                                !.data = @ \o [i \in 1 .. n |-> Head(s).data[From(call) + i - 1]]]
        /\ UNCHANGED <<disk, itab, inode, astray>>

\* The page with the bytes of the call in their place.
Overlay(page) ==
    [i \in 0 .. BLK - 1 |-> IF i \in From(call) .. To(call) - 1
                            THEN call.data[call.cur + i - From(call) + 1] ELSE page[i]]

WritePage(l) ==
    LET s == Fetched(host(call.f), l)
        data == Overlay(Head(s).data)
    IN  /\ pcache' = Stored(s, data)
        /\ writepage(l, data)
        /\ call' = [call EXCEPT !.page = @ + 1, !.cur = @ + To(call) - From(call)]
        /\ UNCHANGED <<itab, inode, astray>>

\* No memory for the page, or it cannot be read: goto out.
PageFails(l) ==
    /\ FetchFails(host(call.f), l, "data")
    /\ call' = None
    /\ UNCHANGED <<disk, itab, pcache, inode, astray>>

ReadEnds ==
    /\ Running("read") /\ ~InLoop("read")
    /\ call' = None
    /\ UNCHANGED <<disk, itab, pcache, inode, astray>>

WriteEnds ==
    /\ Running("write") /\ ~InLoop("write")
    /\ call' = None
    /\ IF call.end > inode[call.f].size
       THEN /\ inode' = [inode EXCEPT ![call.f].size = call.end]
            /\ IF call.f \in Fat THEN fat32_write_inode(call.f, call.end)
                                ELSE ext2_write_inode(call.f, call.end)
       ELSE UNCHANGED <<disk, itab, pcache, inode>>
    /\ UNCHANGED astray

\* The file has the page that the loop is at; a turn moves nothing of a page of ext2.
HasPage == call.page < Len(Chain[call.f])
Empty == call.f \in Ext /\ From(call) = To(call)

\* The blocks that a turn may be at.  ext2_bmap wants memory for a block, of which direct
\* blocks have no need, and returns 0 when there is none.
Home == (IF HasPage \/ Empty THEN {bmap(call.f, call.page)} ELSE {})
        \cup (IF Empty /\ "mem" \in Fault THEN {BlockZero} ELSE {})

CallStep ==
    \/ InLoop("read") /\ \E l \in Home : ReadPage(l) \/ PageFails(l)
    \/ InLoop("write") /\ \E l \in Home : WritePage(l) \/ PageFails(l)
    \/ ReadEnds
    \/ WriteEnds

\* A call on an inode that was not read; a page beyond a_page of FAT32, where the heap has
\* whatever it has; bytes of ext2 that have no block, or for which there is no memory: they
\* are read from block 0, or written over the superblock.
Stray ==
    /\ \/ call = None /\ \E f \in File : inode[f].state = "unread"
       \/ /\ InLoop("read") \/ InLoop("write")
          /\ ~Empty /\ (HasPage => call.f \in Ext /\ "mem" \in Fault)
    /\ astray' = TRUE
    /\ UNCHANGED <<disk, itab, pcache, inode, call>>

Next ==
    /\ ~astray
    /\ \/ \E f \in File : \/ Open(f)
                          \/ Forget(f)
                          \/ \E pos \in 0 .. MaxCount, n \in 1 .. MaxCount :
                                generic_file_read(f, pos, n)
                          \/ \E data \in Data : generic_file_write(f, data)
       \/ \E f \in Fat : vfs_rm(f)
       \/ \E d \in Dir : readdir(d)
       \/ CallStep
       \/ Stray

Spec == Init /\ [][Next]_vars

--------------------------------------------------------------------------------
(* Properties *)

\* A page of a file, and of each directory.
DataPage == [host : File \X (0 .. MaxGen), loc : Block, data : [0 .. BLK - 1 -> Byte]]
FatDirPage == [host : {dir_host(FatDir)}, loc : {FatDir}, data : [Fat -> Nat \cup {Deleted}]]
ExtDirPage == [host : {dir_host(ExtDir)}, loc : {ExtDir}, data : {[f \in Ext |-> TRUE]}]
PageOf == DataPage \cup FatDirPage \cup ExtDirPage

\* The variables have their types, and the page cache keeps to its capacity
\* and holds a page once.
TypeOK ==
    /\ \A l \in Block : disk[l] \in [0 .. BLK - 1 -> Byte]
    /\ disk[FatDir] \in [Fat -> Nat \cup {Deleted}] /\ disk[ExtDir] = [f \in Ext |-> TRUE]
    /\ DOMAIN disk = Block \cup Dir /\ disk = [l \in DOMAIN disk |-> disk[l]]
    /\ itab \in [Ext -> Nat]
    /\ pcache \in Seq(PageOf) /\ Len(pcache) <= PCACHE_CAPACITY
    /\ \A j, k \in DOMAIN pcache :
          pcache[j].host = pcache[k].host /\ pcache[j].loc = pcache[k].loc => j = k
    /\ inode \in [File -> [gen : 0 .. MaxGen, size : Nat,
                          state : {"none", "live", "unread", "negative"}]]
    /\ call \in Calls \cup {None} /\ astray \in BOOLEAN

\* The bytes of a call before its page.
Moved(c) == IF c.page > EndPage(c) THEN c.count ELSE c.page * BLK + From(c) - c.pos

\* A call has moved the bytes before its page, all of them when it is over, of a file that is
\* there (read_write.c:107, 200).
Progress ==
    call # None =>
        /\ inode[call.f].state = "live"
        /\ call.end = call.pos + call.count
        /\ call.pos \div BLK <= call.page /\ call.page <= EndPage(call) + 1
        /\ call.cur = Moved(call)
        /\ Len(call.data) = IF call.op = "read" THEN call.cur ELSE call.count

\* A cached page of a file is one of its blocks, or block 0 of ext2 as it is on the disk, and
\* belongs to an inode that the file has or had.
OwnPages ==
    \A k \in DOMAIN pcache : pcache[k].loc \in Block =>
        LET f == pcache[k].host[1]
        IN  /\ \/ pcache[k].loc \in Range(Chain[f])
               \/ pcache[k].loc = BlockZero /\ pcache[k].data = disk[BlockZero]
            /\ pcache[k].host[2] <= inode[f].gen

\* A page that can still be found has the data of its block: what readers get
\* from the cache is on the disk (read_write.c:221, fat32.c:352, 472).
Hosts == { host(f) : f \in File } \cup { dir_host(d) : d \in Dir }
Coherent ==
    \A k \in DOMAIN pcache :
        pcache[k].host \in Hosts => pcache[k].data = disk[pcache[k].loc]

\* The page cache is well formed and tells what is on the disk, and calls go page by page
\* (vfscache.c:308, 337).
VfsInv == TypeOK /\ Progress /\ OwnPages /\ Coherent

\* A write changes blocks of the file it is for, and no others: neither those
\* of another file, nor free ones, nor block 0 of ext2 with its superblock.
OwnBlocksOnly ==
    [][\A l \in Block : disk'[l] # disk[l] => call # None /\ l \in Range(Chain[call.f])]_vars

--------------------------------------------------------------------------------
(* VfsFile implements FileStore. *)

i_size(f) == IF inode[f].state = "live" THEN inode[f].size
             ELSE IF f \in Fat THEN disk[FatDir][f] ELSE itab[f]

exists == { f \in File : i_size(f) # Deleted }

\* The bytes a file has on the disk, on its blocks in their order.
content ==
    [f \in File |-> [i \in 1 .. i_size(f) |->
        disk[Chain[f][(i - 1) \div BLK + 1]][(i - 1) % BLK]]]

io == IF call = None THEN None
      ELSE [op |-> call.op, f |-> call.f, pos |-> call.pos, count |-> call.count,
            cur |-> call.cur, data |-> call.data]

Store == INSTANCE FileStore

\* Reading, writing, growing and removing files work as FileStore says, through
\* every state of the page cache, whenever inodes are forgotten and read anew.
ImplementsFileStore == Store!Spec

\* What a read has brought so far are the bytes of the file from pos on.
ReadsTheFile ==
    Running("read") => call.data = SubSeq(content[call.f], call.pos + 1, call.pos + call.cur)

\* Calls stay on the blocks of their files, and use what they have read (read_write.c:78,
\* fat32.c:620, ext2.c:543, 749).
NeverAstray == ~astray
================================================================================
