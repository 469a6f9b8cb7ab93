----------------------------------- MODULE Fat -----------------------------------
(****************************************************************************)
(* The FAT32 driver of kernel/fs/fat (fat.c, utils.c, and fs_rm of usr.c)   *)
(* over the buffers of FsCache: opening, reading, writing, closing,         *)
(* creating and removing files of the root directory.                       *)
(*                                                                          *)
(* The calls go in steps that write at most one block, so that every state  *)
(* of the disk between two writes is a state of the model.  One process     *)
(* uses the driver and has one FILE open at a time; while it is open, other *)
(* files can be created and removed.  A cluster has one sector; the root    *)
(* directory is cluster 2 and has an unused entry at its end.  The second   *)
(* copies of the FAT and of FSInfo, which nothing reads, are left out, and  *)
(* so are errors of the card.                                               *)
(****************************************************************************)
EXTENDS FsCache, Sequences

CONSTANTS
    File,               \* names
    Data,               \* what is written: some strings of bytes
    Seek, MaxCount,     \* bounds: where fs_lseek goes, bytes of one read
    CS,                 \* bytes of a cluster
    total_data_clusters,
    PerSector,          \* entries in a sector of the FAT: 128
    base_addr,          \* first sector of the partition
    FSI_Free_Count,     \* never changed by the driver
    SlotCount,          \* entries in the root directory
    FAT_BUF_NUM, DIR_DATA_BUF_NUM, LOCAL_DATA_BUF_NUM,
    CrashAnywhere,      \* does power fail also while a file is in use?
    Deleted, None       \* names of entries: 0xE5 and 0

LastCluster == total_data_clusters + 1
Cluster == 2 .. LastCluster
EOC == LastCluster + 1  \* 0x0FFFFFFF: whatever is beyond the last cluster

reserved_sectors == 2
FatSector(c) == base_addr + reserved_sectors + c \div PerSector
first_data_sector == reserved_sectors + 2 * (LastCluster \div PerSector + 1)
FSInfo == base_addr + 1

fs_dataclus2sec(c) == first_data_sector + c - 2     \* within the partition
DataSector(c) == base_addr + fs_dataclus2sec(c)     \* on the card
RootSector == DataSector(2)

ASSUME FatAssumption ==
    /\ CS \in Nat \ {0} /\ total_data_clusters \in Nat \ {0} /\ PerSector \in Nat \ {0}
    /\ base_addr \in Nat /\ IsFiniteSet(File) /\ SlotCount \in Nat /\ SlotCount > Cardinality(File)
    /\ FSI_Free_Count \in 0 .. total_data_clusters
    /\ {FAT_BUF_NUM, DIR_DATA_BUF_NUM, LOCAL_DATA_BUF_NUM} \subseteq Nat \ {0}
    /\ \A data \in Data : Len(data) \in Nat \ {0}
    /\ Seek \subseteq Nat /\ MaxCount \in Nat /\ CrashAnywhere \in BOOLEAN
    /\ {Deleted, None} \cap File = {} /\ Deleted # None

VARIABLES
    disk,           \* the sectors of the partition
    Nxt_Free,       \* in fat_info.fat_fs_info: the cluster before the next to allocate
    fat_buf,
    dir_data_buf,
    file,           \* the open FILE, or NoFile
    call            \* the call in progress, with its locals, or NoCall

fatVars == <<disk, Nxt_Free, fat_buf, dir_data_buf, file, call>>

EmptyEntry   == [name |-> None, start |-> 0, size |-> 0]
DeletedEntry == [name |-> Deleted, start |-> 0, size |-> 0]
Zeros == [i \in 0 .. CS - 1 |-> 0]

NoFile == [entry |-> EmptyEntry, slot |-> 0, loc |-> 0, data_buf |-> Empty(LOCAL_DATA_BUF_NUM)]
NoCall == [op |-> "none", f |-> None, at |-> "none"]

FatSectors == { FatSector(c) : c \in Cluster }

\* A volume just formatted; read by init_fs.
FatInit ==
    /\ disk = [s \in {FSInfo} \cup FatSectors \cup { DataSector(c) : c \in Cluster } |->
                 CASE s = FSInfo -> 2
                   [] s \in FatSectors ->
                        [i \in 0 .. PerSector - 1 |-> IF s = FatSector(2) /\ i = 2 % PerSector
                                                      THEN EOC ELSE 0]
                   [] s = RootSector -> [i \in 1 .. SlotCount |-> EmptyEntry]
                   [] OTHER -> Zeros]
    /\ Nxt_Free = 2
    /\ fat_buf = Empty(FAT_BUF_NUM) /\ dir_data_buf = Empty(DIR_DATA_BUF_NUM)
    /\ file = NoFile /\ call = NoCall

--------------------------------------------------------------------------------
(* The FAT, through its buffers *)

\* The entry of a cluster as the driver reads it.
Entry(c) == Seen(fat_buf, FatSector(c), disk)[c % PerSector]

get_fat_entry_value(c) ==
    /\ fat_buf' = Fetched(fat_buf, FatSector(c), disk)
    /\ disk' = Fetching(fat_buf, FatSector(c), disk)

fs_modify_fat(c, v) ==
    LET s == FatSector(c)
    IN  /\ fat_buf' = Modified(Fetched(fat_buf, s, disk), s,
                               [Seen(fat_buf, s, disk) EXCEPT ![c % PerSector] = v])
        /\ disk' = Fetching(fat_buf, s, disk)

--------------------------------------------------------------------------------
(* The directory, through its buffers *)

Root == Seen(dir_data_buf, RootSector, disk)

\* fs_find stops at the first entry that was never used.
fs_find(f) == { i \in DOMAIN Root : Root[i].name = f /\ \A j \in 1 .. i : Root[j].name # None }

fs_find_empty_entry == Min({ i \in DOMAIN Root : Root[i].name \in {None, Deleted} })

ReadRoot == dir_data_buf' = Fetched(dir_data_buf, RootSector, disk)
SetRoot(i, e) ==
    dir_data_buf' = Modified(Fetched(dir_data_buf, RootSector, disk), RootSector, [Root EXCEPT ![i] = e])

\* A FILE as fs_open leaves it when it finds the entry.
Opened(f) ==
    LET i == Min(fs_find(f))
    IN  [entry |-> Root[i], slot |-> i, loc |-> 0, data_buf |-> Empty(LOCAL_DATA_BUF_NUM)]

fs_open(f) ==
    /\ call = NoCall /\ file = NoFile
    /\ ReadRoot
    /\ file' = IF fs_find(f) = {} THEN NoFile ELSE Opened(f)
    /\ UNCHANGED <<disk, Nxt_Free, fat_buf, call>>

--------------------------------------------------------------------------------
(* Reading and writing: at is where the loop is, k the cluster of the file it  *)
(* has reached, whose number is clus; cur bytes have been moved.               *)

StartClus == call.pos \div CS
EndClus == (call.pos + call.count - 1) \div CS
StartByte == IF call.k = StartClus THEN call.pos % CS ELSE 0
EndByte == IF call.k = EndClus THEN (call.pos + call.count - 1) % CS ELSE CS - 1
Moved == EndByte - StartByte + 1

\* In cluster k of the file, what comes next.
Reached(c, k) == [c EXCEPT !.k = k, !.at = IF k < c.pos \div CS THEN "advance" ELSE "move"]

Begin(op, n, data) ==
    [op |-> op, f |-> file.entry.name, at |-> "", k |-> 0, clus |-> file.entry.start, new |-> 0, next |-> 0,
     pos |-> file.loc, count |-> n, cur |-> 0, data |-> data]

\* fs_alloc starts from the hint, or looks from the beginning when that is illegal.
fs_alloc(c) ==
    IF Nxt_Free + 1 > FSI_Free_Count + 1 THEN [c EXCEPT !.at = "search", !.new = 2]
                                         ELSE [c EXCEPT !.at = "mark", !.new = Nxt_Free + 1]

fs_read(n) ==
    LET count == Min({n, file.entry.size - file.loc})
    IN  /\ call = NoCall /\ file # NoFile
        /\ file.entry.start # 0 /\ count > 0
        /\ call' = Reached(Begin("read", count, <<>>), 0)
        /\ UNCHANGED <<disk, Nxt_Free, fat_buf, dir_data_buf, file>>

fs_write(data) ==
    /\ call = NoCall /\ file # NoFile
    /\ LET c == Begin("write", Len(data), data)
       IN  call' = IF file.entry.start = 0 THEN fs_alloc(c) ELSE Reached(c, 0)
    /\ UNCHANGED <<disk, Nxt_Free, fat_buf, dir_data_buf, file>>

\* Mutant: the file pointer may go past the end.
fs_lseek_Far(loc) ==
    /\ call = NoCall /\ file # NoFile
    /\ file' = [file EXCEPT !.loc = loc]
    /\ UNCHANGED <<disk, Nxt_Free, fat_buf, dir_data_buf, call>>

fs_lseek(loc) ==
    /\ call = NoCall /\ file # NoFile
    /\ file' = [file EXCEPT !.loc = Min({loc, file.entry.size})]
    /\ UNCHANGED <<disk, Nxt_Free, fat_buf, dir_data_buf, call>>

Stage(label) == call.at = label
Running(op) == call.op = op

\* 0xFFFFFFFF is returned; nothing is undone.
Fail == call' = NoCall /\ UNCHANGED <<disk, Nxt_Free, fat_buf, dir_data_buf, file>>

\* On to the next cluster of the file; a write that comes to the end allocates one.
NextCluster ==
    /\ Stage("advance")
    /\ get_fat_entry_value(call.clus)
    /\ call' = IF Entry(call.clus) > LastCluster /\ Running("write") THEN fs_alloc(call)
               ELSE Reached([call EXCEPT !.clus = Entry(call.clus)], call.k + 1)
    /\ UNCHANGED <<Nxt_Free, dir_data_buf, file>>

\* fs_next_free(2).  When there is none, fs_modify_fat is called with 0xFFFFFFFF, whose
\* sector is not on the card.
Search ==
    /\ Stage("search")
    /\ IF call.new > LastCluster THEN Fail
       ELSE /\ get_fat_entry_value(call.new)
            /\ call' = IF Entry(call.new) = 0 THEN [call EXCEPT !.at = "mark"]
                                              ELSE [call EXCEPT !.new = @ + 1]
            /\ UNCHANGED <<Nxt_Free, dir_data_buf, file>>

Mark ==
    /\ Stage("mark")
    /\ fs_modify_fat(call.new, EOC)
    /\ call' = [call EXCEPT !.at = "scan", !.next = call.new]
    /\ UNCHANGED <<Nxt_Free, dir_data_buf, file>>

\* fs_next_free(clus), for the next time; when there is none this time fails too.
Scan ==
    /\ Stage("scan")
    /\ IF call.next > LastCluster THEN Fail
       ELSE /\ get_fat_entry_value(call.next)
            /\ IF Entry(call.next) = 0
               THEN Nxt_Free' = call.next - 1 /\ call' = [call EXCEPT !.at = "erase", !.next = 0]
               ELSE UNCHANGED Nxt_Free /\ call' = [call EXCEPT !.next = @ + 1]
            /\ UNCHANGED <<dir_data_buf, file>>

\* The sector is counted from the beginning of the card.
Erase ==
    /\ Stage("erase")
    /\ disk' = [disk EXCEPT ![fs_dataclus2sec(call.new)] = Zeros]
    /\ call' = [call EXCEPT !.at = "link"]
    /\ UNCHANGED <<Nxt_Free, fat_buf, dir_data_buf, file>>

\* Mutant: a cluster after the first is not linked.
Link_Not ==
    /\ Stage("link")
    /\ IF call.clus = 0
       THEN file' = [file EXCEPT !.entry.start = call.new] /\ UNCHANGED <<disk, fat_buf>>
       ELSE UNCHANGED <<file, disk, fat_buf>>
    /\ call' = [call EXCEPT !.at = "clear"]
    /\ UNCHANGED <<Nxt_Free, dir_data_buf>>

\* The new cluster becomes the first of the file, or follows the last.
Link ==
    /\ Stage("link")
    /\ IF call.clus = 0
       THEN file' = [file EXCEPT !.entry.start = call.new] /\ UNCHANGED <<disk, fat_buf>>
       ELSE fs_modify_fat(call.clus, call.new) /\ UNCHANGED file
    /\ call' = [call EXCEPT !.at = "clear"]
    /\ UNCHANGED <<Nxt_Free, dir_data_buf>>

\* fs_clr_4k, again with a sector counted from the beginning of the card.
ClearCluster ==
    /\ Stage("clear")
    /\ file' = [file EXCEPT !.data_buf = Cleared(@, fs_dataclus2sec(call.new), Zeros)]
    /\ disk' = Evicted(file.data_buf, disk)
    /\ call' = Reached([call EXCEPT !.clus = call.new, !.new = 0],
                       IF call.clus = 0 THEN 0 ELSE call.k + 1)
    /\ UNCHANGED <<Nxt_Free, fat_buf, dir_data_buf>>

\* The cluster is fetched; its bytes go to the caller, or the caller's into it.
After == IF call.k = EndClus THEN "end" ELSE "advance"

MoveRead ==
    LET s == DataSector(call.clus)
        bytes == Seen(file.data_buf, s, disk)
    IN  /\ Stage("move") /\ Running("read")
        /\ file' = [file EXCEPT !.data_buf = Fetched(@, s, disk)]
        /\ disk' = Fetching(file.data_buf, s, disk)
        /\ call' = [call EXCEPT !.at = After, !.cur = @ + Moved,
                        !.data = @ \o [i \in 1 .. Moved |-> bytes[StartByte + i - 1]]]
        /\ UNCHANGED <<Nxt_Free, fat_buf, dir_data_buf>>

\* Mutant: every cluster gets the first bytes of the caller.
Overlay_FromStart(bytes) ==
    [i \in 0 .. CS - 1 |-> IF i \in StartByte .. EndByte
                           THEN call.data[i - StartByte + 1] ELSE bytes[i]]

Overlay(bytes) ==
    [i \in 0 .. CS - 1 |-> IF i \in StartByte .. EndByte
                           THEN call.data[call.cur + i - StartByte + 1] ELSE bytes[i]]

MoveWrite ==
    LET s == DataSector(call.clus)
    IN  /\ Stage("move") /\ Running("write")
        /\ file' = [file EXCEPT !.data_buf =
                        Modified(Fetched(@, s, disk), s, Overlay(Seen(@, s, disk)))]
        /\ disk' = Fetching(file.data_buf, s, disk)
        /\ call' = [call EXCEPT !.at = After, !.cur = @ + Moved]
        /\ UNCHANGED <<Nxt_Free, fat_buf, dir_data_buf>>

EndMove ==
    /\ Stage("end")
    /\ file' = [file EXCEPT !.loc = @ + call.count,
                    !.entry.size = IF Running("write") THEN Max({@, call.pos + call.count}) ELSE @]
    /\ call' = NoCall
    /\ UNCHANGED <<disk, Nxt_Free, fat_buf, dir_data_buf>>

--------------------------------------------------------------------------------
(* Closing, creating and removing, all of which end in fs_fflush *)

Ending(op, f, at, slot, clus) == [op |-> op, f |-> f, at |-> at, slot |-> slot, clus |-> clus]

\* The entry of the file goes into the directory, then all buffers to the disk.
fs_close ==
    /\ call = NoCall /\ file # NoFile
    /\ SetRoot(file.slot, file.entry)
    /\ call' = Ending("close", file.entry.name, "info", file.slot, 0)
    /\ UNCHANGED <<disk, Nxt_Free, fat_buf, file>>

fs_create(f) ==
    /\ call = NoCall
    /\ IF fs_find(f) # {}
       THEN ReadRoot /\ UNCHANGED call
       ELSE /\ SetRoot(fs_find_empty_entry, [name |-> f, start |-> 0, size |-> 0])
            /\ call' = Ending("create", f, "info", 0, 0)
    /\ UNCHANGED <<disk, Nxt_Free, fat_buf, file>>

\* fs_rm opens the file for itself, frees its clusters one by one, and closes it.
fs_rm(f) ==
    /\ call = NoCall /\ (file # NoFile => file.entry.name # f)
    /\ ReadRoot
    /\ call' = IF fs_find(f) = {} THEN NoCall
               ELSE Ending("rm", f, "free", Opened(f).slot, Opened(f).entry.start)
    /\ UNCHANGED <<disk, Nxt_Free, fat_buf, file>>

\* Mutant: the last cluster is not freed.
FreeChain_Short ==
    /\ Stage("free")
    /\ IF call.clus \in Cluster /\ Entry(call.clus) \in Cluster
       THEN /\ fs_modify_fat(call.clus, 0)
            /\ call' = [call EXCEPT !.clus = Entry(call.clus)]
            /\ UNCHANGED dir_data_buf
       ELSE /\ SetRoot(call.slot, DeletedEntry)
            /\ call' = [call EXCEPT !.at = "info", !.clus = 0]
            /\ UNCHANGED <<disk, fat_buf>>
    /\ UNCHANGED <<Nxt_Free, file>>

FreeChain ==
    /\ Stage("free")
    /\ IF call.clus \in Cluster
       THEN /\ fs_modify_fat(call.clus, 0)
            /\ call' = [call EXCEPT !.clus = Entry(call.clus)]
            /\ UNCHANGED dir_data_buf
       ELSE /\ SetRoot(call.slot, DeletedEntry)
            /\ call' = [call EXCEPT !.at = "info", !.clus = 0]
            /\ UNCHANGED <<disk, fat_buf>>
    /\ UNCHANGED <<Nxt_Free, file>>

WriteFSInfo ==
    /\ Stage("info")
    /\ disk' = [disk EXCEPT ![FSInfo] = Nxt_Free]
    /\ call' = [call EXCEPT !.at = "flush"]
    /\ UNCHANGED <<Nxt_Free, fat_buf, dir_data_buf, file>>

Dirty(c) == { i \in Index(c) : c.buf[i].dirty }
NextDirty(c) == Min(Dirty(c))

\* write_fat_sector, fs_write_512 and fs_write_4k for one dirty buffer after the other:
\* those of the FAT, of the directory, and in fs_close those of the file.
FlushFat ==
    /\ Stage("flush") /\ Dirty(fat_buf) # {}
    /\ disk' = Written(fat_buf, NextDirty(fat_buf), disk)
    /\ fat_buf' = Flushed(fat_buf, NextDirty(fat_buf))
    /\ UNCHANGED <<Nxt_Free, dir_data_buf, file, call>>

FlushDir ==
    /\ Stage("flush") /\ Dirty(fat_buf) = {} /\ Dirty(dir_data_buf) # {}
    /\ disk' = Written(dir_data_buf, NextDirty(dir_data_buf), disk)
    /\ dir_data_buf' = Flushed(dir_data_buf, NextDirty(dir_data_buf))
    /\ UNCHANGED <<Nxt_Free, fat_buf, file, call>>

FlushData ==
    /\ Stage("flush") /\ Dirty(fat_buf) = {} /\ Dirty(dir_data_buf) = {}
    /\ Running("close") /\ Dirty(file.data_buf) # {}
    /\ disk' = Written(file.data_buf, NextDirty(file.data_buf), disk)
    /\ file' = [file EXCEPT !.data_buf = Flushed(@, NextDirty(@))]
    /\ UNCHANGED <<Nxt_Free, fat_buf, dir_data_buf, call>>

\* Mutant: the directory is not written.
EndFlush_WithoutDir ==
    /\ Stage("flush") /\ Dirty(fat_buf) = {}
    /\ Running("close") => Dirty(file.data_buf) = {}
    /\ file' = IF Running("close") THEN NoFile ELSE file
    /\ call' = NoCall
    /\ UNCHANGED <<disk, Nxt_Free, fat_buf, dir_data_buf>>

EndFlush ==
    /\ Stage("flush") /\ Dirty(fat_buf) = {} /\ Dirty(dir_data_buf) = {}
    /\ Running("close") => Dirty(file.data_buf) = {}
    /\ file' = IF Running("close") THEN NoFile ELSE file
    /\ call' = NoCall
    /\ UNCHANGED <<disk, Nxt_Free, fat_buf, dir_data_buf>>

\* The machine starts anew: init_fs reads FSInfo and empties the buffers.
init_fs ==
    /\ CrashAnywhere \/ (call = NoCall /\ file = NoFile)
    /\ Nxt_Free' = disk[FSInfo]
    /\ fat_buf' = Empty(FAT_BUF_NUM) /\ dir_data_buf' = Empty(DIR_DATA_BUF_NUM)
    /\ file' = NoFile /\ call' = NoCall
    /\ UNCHANGED disk

FatNext ==
    \/ \E f \in File : fs_open(f) \/ fs_create(f) \/ fs_rm(f)
    \/ \E n \in 1 .. MaxCount : fs_read(n)
    \/ \E data \in Data : fs_write(data)
    \/ \E loc \in Seek : fs_lseek(loc)
    \/ fs_close
    \/ NextCluster \/ Search \/ Mark \/ Scan \/ Erase \/ Link \/ ClearCluster
    \/ MoveRead \/ MoveWrite \/ EndMove
    \/ FreeChain \/ WriteFSInfo \/ FlushFat \/ FlushDir \/ FlushData \/ EndFlush
    \/ init_fs

FatSpec == FatInit /\ [][FatNext]_fatVars

--------------------------------------------------------------------------------
(* What files there are, as a user of the driver sees them *)

InUse(f) == f \in {file.entry.name, call.f}

\* What a FAT says of every cluster: to users of the driver, and on the disk.
FAT == [c \in Cluster |-> Entry(c)]
FATOnDisk == [c \in Cluster |-> disk[FatSector(c)][c % PerSector]]

\* The clusters of a chain from c on, by a FAT; no further when they go in a circle.
Follow(fat, c) ==
    LET walk[n \in 1 .. total_data_clusters] ==
            IF n = 1 THEN c
            ELSE LET d == walk[n - 1] IN IF d \in Cluster THEN fat[d] ELSE d
    IN  [i \in 1 .. Cardinality({ n \in 1 .. total_data_clusters : walk[n] \in Cluster }) |-> walk[i]]
Elements(s) == { s[i] : i \in DOMAIN s }

exists ==
    { f \in File : fs_find(f) # {} /\ ~(Running("rm") /\ call.f = f) }

entry(f) == IF file.entry.name = f THEN file.entry ELSE Root[Min(fs_find(f))]

\* The first bytes of a chain, by what its clusters hold.
Bytes(chain, size, held) == [b \in 1 .. size |-> held[chain[(b - 1) \div CS + 1]][(b - 1) % CS]]

\* What the clusters hold, for users of f and on the disk.
HeldFor(f) == [c \in Cluster |-> IF file.entry.name = f THEN Seen(file.data_buf, DataSector(c), disk)
                                                       ELSE disk[DataSector(c)]]
HeldOnDisk == [c \in Cluster |-> disk[DataSector(c)]]

content ==
    [f \in File |-> IF f \notin exists THEN <<>>
                    ELSE Bytes(Follow(FAT, entry(f).start), entry(f).size, HeldFor(f))]

ContentOnDisk(f) ==
    LET root == disk[RootSector]
        i == CHOOSE i \in DOMAIN root : root[i].name = f
    IN  Bytes(Follow(FATOnDisk, root[i].start), root[i].size, HeldOnDisk)

io ==
    IF Running("read") \/ Running("write")
    THEN [op |-> call.op, f |-> call.f, pos |-> call.pos, count |-> call.count,
          cur |-> call.cur, data |-> call.data]
    ELSE None

--------------------------------------------------------------------------------
(* Properties *)

\* The variables have their types; each sector is in one buffer at most, and a buffer
\* that is not dirty is what is on the disk (fscache.c:66, 95, 178; fat.c:142).
FatTypeOK ==
    /\ Nxt_Free \in Cluster
    /\ \A c \in {fat_buf, dir_data_buf, file.data_buf} : OneBuffer(c) /\ CleanIsOnDisk(c, disk)
    /\ file # NoFile => file.entry \in [name : File, start : {0} \cup Cluster, size : Nat] /\ file.loc <= file.entry.size
    /\ call = NoCall \/ call.f \in File

\* The chains of the files end, are long enough for their sizes, and share no cluster
\* with each other or the directory.
ChainsApart ==
    LET chain == [f \in exists |-> Follow(FAT, entry(f).start)]
    IN  \A f \in exists :
          /\ \A i, j \in DOMAIN chain[f] : chain[f][i] = chain[f][j] => i = j
          /\ chain[f] # <<>> => Entry(chain[f][Len(chain[f])]) > LastCluster
          /\ Len(chain[f]) * CS >= entry(f).size
          /\ 2 \notin Elements(chain[f])
          /\ \A g \in exists \ {f} : Elements(chain[f]) \cap Elements(chain[g]) = {}

\* Whatever sectors the buffers hold, each is there once and the chains are whole
\* (fscache.c:66, fat.c:555).
FatInv == FatTypeOK /\ ChainsApart

\* Clusters marked as used that no file and no call can come to any more.
Lost ==
    LET reached == UNION { Elements(Follow(FAT, entry(f).start)) : f \in exists }
        held == (IF Running("write") /\ call.at # "search" THEN {call.new} ELSE {})
                  \cup (IF Running("rm") THEN Elements(Follow(FAT, call.clus)) ELSE {})
    IN  { c \in Cluster \ {2} : Entry(c) # 0 } \ (reached \cup held)

\* A cluster gets lost only in a write that fails for want of another free one.
LosesOnlyOnFailure ==
    [][Lost' \subseteq Lost \/ (Stage("scan") /\ call' = NoCall)]_fatVars

\* Whatever is written to the disk for one file, and wherever it stops, the files that
\* are not in use at that moment are on the disk as they were.
BystandersOnDisk ==
    LET now == content IN
    \A f \in File : ~InUse(f) =>
        /\ f \in exists <=> \E i \in DOMAIN disk[RootSector] : disk[RootSector][i].name = f
        /\ f \in exists => ContentOnDisk(f) = now[f]

\* What fat.c:533 needs to erase the cluster it has allocated: the sector, counted
\* from the beginning of the card, is that of the cluster.
ErasesInPlace == Stage("erase") => fs_dataclus2sec(call.new) = DataSector(call.new)

\* Erasing a new cluster (fat.c:532) writes no sector but those of that cluster.
ErasesNewCluster ==
    [][Stage("erase") =>
         \A s \in DOMAIN disk : disk'[s] # disk[s] => s = DataSector(call.new)]_fatVars

Store == INSTANCE FileStore WITH Byte <- 0 .. 255

\* Creating, reading, writing and removing files of this driver work as FileStore
\* says, through every state of the buffers and of the chains, and across restarts.
ImplementsFileStore == Store!Spec
================================================================================
