# A verification project for the 412-UNIX kernel

412-UNIX is a small teaching kernel for one MIPS32 CPU: processes and a
multilevel feedback scheduler, a boot, a buddy and a slab allocator, two-level
page tables, a FAT32 driver, a VFS with FAT32 and ext2 behind it, a keyboard,
an SD card and a text screen, and a shell. This directory holds TLA+ models of
it, TLC runs over small instances, and TLAPS proofs. Paths such as `pc.c:67` are
relative to the file's directory under `src/`.

## 1. Inventory

| component | state | operations | who uses it |
|---|---|---|---|
| process control (`kernel/pc/pc.c`) | lists `tasks`, `sched`, `sched_back[1..3]`, `wait`, `exited`; one `task_struct` per process; `current_task` | `task_create`, `exec_from_kernel`, `waitpid`, `wakeup_parent`, `pc_kill`, `pc_exit`, `clear_exited`, `pc_schedule`, `find_next_task` | shell, timer interrupt, every process when it ends |
| pids (`kernel/pc/pid.c`) | `pidmap`, `next_pid` | `pid_alloc`, `pid_free`, `pid_check` | process control |
| lock (`kernel/lock/lock.c`) | `spin` | `lockup`, `unlock` | buddy allocator only |
| bakery lock (`kernel/lock/mylock.c`) | slot table, `choosing`, `number` | `do_lock`, `do_unlock` | not in the build |
| boot memory (`kernel/mm/mybootmm.c`) | page map, list of regions | `insert_mminfo`, `split_mminfo`, `find_pages`, `bootmm_alloc_pages` | buddy, at boot |
| buddy (`kernel/mm/mybuddy.c`) | free list per order, `flag` and `bplevel` per page | `__alloc_pages`, `__free_pages` | slab, process control |
| slab (`kernel/mm/myslab.c`) | `cpu.page`, partial and full lists per size, free list per page | `slab_alloc`, `slab_free`, `kmalloc`, `kfree` | everything |
| address spaces (`kernel/vm/vm.c`, `kernel/pc/page.c`) | page tables, sorted list of areas, `mmap_cache` | `mm_create`, `mm_delete`, `do_map`, `do_unmap`, `do_mapping` | process control |
| FAT32 (`kernel/fs/fat`) and its buffers (`kernel/fs/fscache`) | FAT and directory buffers with reference and dirty bits, open `FILE`s | `fs_open`, `fs_read`, `fs_write`, `fs_close`, `fs_create`, `fs_rm`, `fs_mv` | shell when built without the VFS |
| VFS caches (`kernel/vfs/vfscache.c`) | dentry and page cache: hash chains, LRU list, size | `look_up`, `add`, `put_LRU`, `write_back` | VFS |
| VFS (`open.c`, `mount.c`, `read_write.c`, `fat32.c`, `ext2.c`) | dentries, inodes, mounts, open files | path walk, mount crossing, paged read and write, create, delete | shell |
| keyboard (`kernel/driver/ps2.c`) | 32-entry ring, modifier state | `ps2_handler`, `kernel_getkey` | shell, processes |
| SD card, screen, time, system calls, editor, listing | device registers, cursor | I/O | all |

**How they interact.** Everything runs on one CPU in kernel mode. Code runs with
interrupts enabled unless it calls `disable_interrupts` or sets EXL; the timer
interrupt (every 1000000 cycles) runs `pc_schedule`, which changes the process on
the CPU. So any two processes interleave at every instruction that is not
protected, and nothing but interrupt masking protects shared state: `lockup`
does not wait (`lock.c:13`). Exceptions and interrupts enter through code that is
not part of the repository; the models take from `src/` what handlers do and
from `register_interrupt_handler` when they run.

**What is hard.** The lists and states of processes at every point a tick can
split creation, waiting and exit; pids that are reused; read-modify-write of the
pid bitmap; allocators called by the shell while another process exits; buffer
caches whose tags must name what they hold; file system updates that are several
writes; a key ring filled by an interrupt. `PROJECT.json` lists each hazard at
its line.

**What makes each component correct.**

* Process control: every process is on exactly the list its state calls for; the
  CPU runs only ready tasks; a waiter is woken by its own child and by nobody
  else; the shell is not starved; the machine stops only when there is nothing
  to run; the ASID is that of the process.
* Pids: live processes have distinct, allocated pids.
* Locks: mutual exclusion; whoever waits gets in.
* Allocators: no two live blocks overlap, free and allocated memory add up, free
  blocks are coalesced, a freed page is referenced by nobody.
* Address spaces: the areas are sorted, disjoint and counted; the cache points
  to one of them.
* File systems and caches: one buffer per sector, dirty data reaches the disk,
  chains are disjoint and terminated, a machine that stops between two writes
  leaves at most lost clusters.
* Keyboard: keys are read in order, once, and only an overflow or a reset loses one.

## 2. Plan

Done, in this order: `Pid`, `Pc` and their proofs; `Lifecycle`; `PageAllocator`,
`Buddy`, `Slab`, `Kmalloc`; `FileStore` with `VfsFile`; `FsCache` and `Fat`, which
implements `FileStore` too; `Namespace` with `PathWalk`; `Mm` on top of
`PageAllocator`; `Ext2Delete`; `Ps2`; then the proofs: `SequenceFacts`, `Ext2DeleteProofs`,
`VfsFileProofs`, `BuddyProofs`, `PathWalkProofs`, `MemoryProofs`, `DriverProofs`. The modules that
compose others:

    Lifecycle     <- PcLifecycle <- Pc <- Pid
    PageAllocator <- Buddy, Kmalloc, Slab, Mm
    FileStore     <- VfsFile, Fat <- FsCache
    Namespace     <- PathWalk

What would come next: a proof that `Fat` implements `FileStore`, from the invariant
that `DriverProofs` has for it; then a second process in `PathWalk`.

## 3. The modules

### `Pid` (kernel/pc/pid.c)

`pidmap` is the set of pids whose bit is set. `pid_alloc` is split where it
matters: the scan with the load of the byte (`pid_scan`, `pid_load`) and the
store (`pid_store`), since `pidmap[index] |= ...` is a load and a store and runs
with interrupts enabled. The scan itself is one step; only the byte it found is
kept across a tick, and it is the stale byte that does harm. `next_pid` is
incremented without a modulo as in the code, so a scan may start at `PID_NUM`: a
bit past the bitmap belongs to another object and reads as either value
(`MayBeSet`, `MayBeClear`), and setting it changes no pid. Nothing in the code
stops `next_pid` from running on past the bitmap while what lies there reads as
clear; `PID_CAP` bounds how far it does. The runs let it run one past the end,
the theorems hold for every `PID_CAP`.

### `Pc` (kernel/pc/pc.c, the process commands of usr/ps.c)

State:

| variable | code |
|---|---|
| `list[0]`, `list[i]`, `list[WAIT]`, `list[EXITED]` | `sched`, `sched_back[i]`, `wait`, `exited`: sequences of task structures linked through `.sched` |
| `tasks`, `before` | the list `tasks`, linked through `.node`: its members and its order. Only searches read it, so the order is kept as a relation, which the proofs need |
| `task[t]` | the fields of a `task_struct`; `exiting` is the program counter inside `pc_exit` |
| `current_task`, `asid` | the same, and the ASID in EntryHi |
| `at`, `newpid`, `byte`, `new` | the shell's program counter and locals |
| `fault` | which endless loop or wild write stopped the kernel |

States are the code's numbers: `S_UNINIT` 0, `S_READY` 1, `S_TERMINAL` 4, and
`-pid` for a task that waits. A structure that `clear_exited` has removed is
never freed by the code; the model recycles it (`NoTask`), which stands for a
structure newly allocated.

Steps are stretches no tick can split. Under disabled interrupts or EXL a whole
function is one step (`Kill`, `Exit`, `WaitSleep`); with interrupts enabled each
update of shared state is one: `task_create` is `PidAlloc`, `PidAllocStore`,
`FillTask` (or `KmallocFails`, `PidFreeStore`), `EnterSched`, `SetReady`;
`waitpid` is `WaitCheck` and `WaitSleep`, with the enabled gap between them;
`pc_exit` is `ExitMm` and `Exit`. `Tick` is the whole timer handler:
`clear_exited`, `find_next_task` with its charging and requeueing, the ASID and
the switch, with its two endless loops as `fault`.

| action | code |
|---|---|
| `Tick` | `pc_schedule` 677-707, `clear_exited` 579-609, `find_next_task` 711-746 |
| `PidAlloc` ... `SetReady` | `task_create` 413-498, `exec_from_kernel` 333-357 |
| `WaitCheck`, `WaitSleep` | `waitpid` 39-101 |
| `Kill`, `KillNull` | `pc_kill` 502-575 |
| `ExitMm`, `Exit` | `pc_exit` 612-673, `wakeup_parent` 105-132 |

Who does what follows from the callers in the repository: only the shell creates
processes, waits and kills, one command at a time; a child (`runprog`, `vmprog`)
computes until it calls `pc_exit`, or for ever. The shell's `kill` reads one
character and takes it less '0' as the pid, so it reaches pids 0 to 79; the model
lets it be any pid of the bitmap. The build does
not define `PC_DEBUG`, so `pc_kill` does not check what `find_in_tasks` returns:
`KillNull` is the write through 0.

Abstractions: inserting into a list is one step, although `__list_add` is four
stores that a tick may split when the shell runs it with interrupts enabled
(hazard at `list.h:23`); registers, names, arguments and open files are left out
(`task_files` is always 0); `mm` is `null`, `live` or `freed`, and deleting a
freed one is recorded; `mm_delete` is one step.

`FastTyping` says whether the shell may run two commands without a tick in
between. The keyboard has a ring of 32 keys, so it can; with `FALSE` a command
starts only after a tick has cleared the exited list, which is how a person
types.

Definitions named `X_...` next to `X` and marked *Mutant* are deliberately wrong
versions of `X`, each a plausible slip in that code. No specification uses them;
put in the place of `X` they make one property fail, which shows that the
property depends on what the code does.

### `Lifecycle`, `PcLifecycle`

`Lifecycle` says what process control promises with three variables: the phase
of each process, who has the CPU, and the children whose exit will wake the
sleeping shell. It has no lists, levels, slices or pids, and no step that a tick
could split in two. `PcLifecycle` maps `Pc` to it: phases are states, and the
shell awaits the live children that have the pid in its state. `PidAlloc` and the
like, `EnterSched`, `WaitCheck`, `ExitMm`, a second kill of a dead task and a
machine that stops are stutters. That `Pc` implements it says that the scheduler
never leaves the CPU to a task that is not ready, whatever the lists look like,
and that an exit wakes the shell in the same step if and only if the shell waits
for it. `Sleep` may be for nobody: this is the lost wake-up of section 5, which
the code does not prevent.

### `PageAllocator`, `Buddy` (kernel/mm/mybuddy.c, kernel/lock/lock.c)

| action | code |
|---|---|
| `BootFree` | the loop of `init_buddy` that frees every page |
| `Free`, `Merge`, `FreeDone` | `__free_pages`: entry, each turn of its loop, the end |
| `Alloc`, `AllocFails`, `Take`, `Unlink`, `Split`, `AllocDone` | `__alloc_pages`: the search, the read of the list's first node, its removal, each turn of the loop that splits, the end |

Pages are numbered from `buddy_start_pfn`, which is how the code computes a
pair. A caller can be interrupted between any two of these steps, since both
functions run with interrupts enabled, and `lockup` writes `spin` without
looking at it, so nothing keeps a second caller out. What lies within one step
(a list operation with the fields beside it) can be split by a tick as well; the
model leaves this out, and one split is enough to refute `Exclusive`. `owned` is
what clients have: a block is given back by who has it, with the order that
`kfree` reads from `bplevel`. `fault` is a list head taken for a page.
`PageAllocator` has the blocks lent as its only state; callers whose calls do not
interleave implement it, and `Mm` is a client of it.

`Without` takes a page out of a list, which holds it once. `PowerLaws` states of powers
of two up to the largest order what the provers do not know of `^`; TLC evaluates it.

### `Slab` (kernel/mm/myslab.c)

`slab_alloc` is one step per turn around its labels (`FromFreeList`,
`PageNotFull`, `NewPage`, `NoPage`, `TakePartial`), `slab_free` is one step.
Calls do not overlap: the code has no lock here either, and what interleaved
callers do to lists is shown by `Buddy`. Objects of a page are numbered in the
order in which `end_ptr` first gave them out, `slabp` is the list through the
pointers behind the objects. `node` keeps what `page->list` is worth, which
`slab_free` goes by: linked with itself, linked in a list, or poisoned by
`list_del`. Pages come from the buddy system as `PageAllocator` promises them.
Clients free what they hold in any order. `fault` says what put an end to the allocator's
work, and behaviours end there: the endless loop after `__alloc_pages` returned 0; a
`slab_free` that unlinks a node poisoned by `list_del`; or one that gives a page back which
is still the current page of its cache (section 5 has both). So the properties hold through
any sequence of calls up to such a step, and `FreedIsReachable` while the allocator works.

### `Kmalloc` (kernel/mm/myslab.c, `alloc_pages` of mybuddy.c)

The decisions `kmalloc` takes for a size, with the code's constants: the cache
that `get_slab` finds, the number of objects a page of that cache gives, and the
order of a block of pages. Each is written as the code's loop does it and compared
with what it is for. The loop of `get_slab` is a recursive function, `best`, of the caches
looked at so far. `KmallocAssumption` bounds the sizes by 2^20 pages: a size is an
`unsigned int`, and beyond that rounding it up to pages overflows.

### `FileStore`, `VfsFile` (kernel/vfs: read_write.c, vfscache.c, fat32.c, ext2.c)

| variable | code |
|---|---|
| `disk` | blocks of files; the block of the FAT32 directory, as the size in each entry |
| `itab` | `i_size` in the inode table of ext2 |
| `pcache` | `c_LRU` of the page cache, the page used last first; the hash chains hold the same pages |
| `inode[f]` | the inode that a dentry of `f` leads to: `"live"`, `"unread"` when its fields were not filled, `"negative"` for a dentry without one, `"none"` |
| `call` | the call in progress with `pageNo`, `cur` and the buffer |
| `astray` | a call has used what it has not read, or no block of its file |

| action | code |
|---|---|
| `Open` | `real_lookup` 426-445 with `fat32_inode_lookup`, `ext2_inode_lookup`, `ext2_fill_inode` |
| `generic_file_read`, `generic_file_write` | read_write.c up to their loops |
| `ReadPage`, `WritePage`, `PageFails` | one turn of the loop: look-up or read and add, copy, `writepage`; `goto out` |
| `ReadEnds`, `WriteEnds` | after the loop, with `write_inode` when the file grew |
| `vfs_rm`, `readdir` | the same, as far as pages and inodes go |
| `Forget` | `dcache_put_LRU` puts the dentry out |
| `Stray` | what a call does with an inode that was not read, or with a page that its file does not have |

Only the shell calls the VFS, so one call runs at a time; calls to other files,
to directories and evictions come between any two of them. The page cache finds
a page by its block and its inode (`vfscache.c:308`). An inode is never freed and
never found again once its dentry is gone: the next lookup makes another one,
which is why `host` has a generation, and why pages of the old one stay in the
cache, unreachable, until they are the oldest. `Coherent` is about those that can
be found.

`p_state` is left out: no line sets `P_DIRTY`, every write goes to the disk at
once, and so neither `write_back` nor `generic_file_flush` ever does anything. A
directory is one block, and every file has an entry in it. Files of ext2 use
direct blocks. Callers read within a file (`vfs_cat` all of it, the editor byte by
byte) and write from its start.

`Fault` names what may fail: reading the data of a file (`"data"`) or a directory (`"dir"`); at
a lookup, reading the inode table or the FAT (`"inode"`), which nobody notices, so that the
inode goes live with whatever its memory held (`ext2.c:543`, `fat32.c:601`); writing the new size
to the inode table (`"size"`); writing (`"write"`); and memory for `ext2_bmap` (`"mem"`), which
then returns 0 also for a direct block. What `kmalloc` gives for dentries, inodes and pages
is taken to be there: below a page in size it loops rather than fail.

Nothing keeps a call within the blocks of its file, and a call that ends at a block's end goes on
to the page behind it, of which it moves no byte. On ext2 such a turn reads block 0, or writes it
as it is, and the call goes on; a turn that has bytes to move without a block (`HasPage`,
`Empty`), or on FAT32 one beyond `a_page`, goes somewhere else, as does a call on an unread inode.
Behaviours end there, `astray` (`Stray`). `NeverAstray` of section 5 is what the code does not
promise; the other properties say what holds up to that point.

`FileStore` is what the user of a file is promised: bytes come and go in order,
in pieces; what a call reports is what it moved; a file has its new length when
the whole write is done; a removed file stays removed. It has no pages, blocks,
inodes or directories. `VfsFile` implements it with the bytes *on the disk* as
the content of a file: a read through a cached page must give those. `Fat` implements
it with what its chains and buffers say, and across restarts; there a file can also
be made (`Create`).

### `FsCache`, `Fat` (kernel/fs: fscache.c, fat.c, utils.c, `fs_rm` of usr.c)

`FsCache` has one array of buffers with a clock hand, as operators: which buffer
`fs_victim` takes, what a sector reads as, what goes to the disk when a buffer is
replaced. `Fat` has three: `fat_buf`, `dir_data_buf`, and `data_buf` in the open
`FILE`; buffers of 512 and of 4096 bytes differ in size only.

| action | code |
|---|---|
| `fs_open`, `fs_create`, `fs_lseek`, `fs_read`, `fs_write` | the same, up to their loops |
| `NextCluster` | along the chain to the cluster where the transfer starts |
| `Search`, `Mark`, `Scan`, `Erase`, `Link`, `ClearCluster` | `fs_alloc` and what its caller does with the cluster: find a free one, mark it, find the next and write FSInfo, erase it, link it, clear a buffer for it |
| `MoveRead`, `MoveWrite`, `EndMove` | a turn of the loop of `fs_read` or `fs_write`, and the end |
| `fs_close`, `WriteFSInfo`, `FlushFat`, `FlushDir`, `FlushData`, `EndFlush` | `fs_close` and `fs_fflush`, a buffer at a time |
| `fs_rm`, `FreeChain` | `fs_rm`, and each turn of its loop |
| `init_fs` | a machine that starts anew |

Every step writes one block at most, so that the states of the disk between two
writes are states of the model. `FAT` entries and a directory entry are records;
the end of a chain is a number beyond the last cluster, as the code compares it.
`FSI_Free_Count` is written and never changed. Left out: subdirectories, `fs_mv`
(it builds the entry from a name buffer it does not always set), `fs_mkdir`, and
errors of the card, on which the calls return at once. A file that is open is not
removed by the shell, and not in the model.

`init_fs` may come whenever no file is in use; with `CrashAnywhere`, always. What
may be lost then is in section 5. `base_addr` is where the partition starts; `fs_alloc` erases a
new cluster at a sector counted from the start of the card, and `ErasesInPlace` says that this
is the cluster's.

### `Namespace`, `PathWalk` (kernel/vfs: open.c, mount.c, vfscache.c, usr.c)

`Namespace` is what a user knows of paths: a tree, a current directory, a walk name
by name to a node or an error. `PathWalk` has dentries in memory that is used
again, their counts (`u32`, so counted modulo `Word`), the cache with its
replacement, and the two volumes with the mount between them.

| action | code |
|---|---|
| `path_lookup` | `path_lookup`: where the walk starts |
| `Dots` | `.` and `..`, `follow_dotdot` |
| `Component`, `LastComponent` | a turn of `link_path_walk` and its end: `do_lookup` or `real_lookup`, `follow_mount`, checks and counts; then `vfs_open`, `vfs_cd` or `vfs_rm` |
| `Stray` | `dcache_put_LRU` unlinks a dentry whose `d_alias` was never set |

No caller passes `O_CREAT`, so that part of `open_namei` is left out; so are
errors of `kmalloc` and of the card. In a directory of ext2 a missing name is
an error instead of a dentry without inode, since the loop of `ext2_inode_lookup`
runs to `i_blocks`, which counts sectors, and reads past the last block
(`ext2.c:485`): `Ext2Dir`. `dcache_put_LRU` reads `put` before it sets it
(`vfscache.c:168`): the model has every choice among unused dentries, and the fall
through to those in use. The order in the LRU list only breaks ties there, and is
left out. Dentries of open files are not given back by `vfs_close`.

Of the fields that `d_alloc` never initialises, `d_pinned` and `d_mounted` are taken as 0. The third
is `d_alias`: `d_alloc` initialises that of `root_dentry` instead (`open.c:528`), so that only a
lookup that finds the file, which links it to its inode (`fat32.c:630`, `ext2.c:574`), sets it. When
a name that was *not* found is put out, `list_del` goes through whatever the memory held
(`vfscache.c:200`). The model has `d_alias` as a flag of each dentry, and the behaviour ends at
that step, `astray`. What follows in the kernel is not described; what came before is.

### `Mm` (kernel/vm/vm.c, kernel/pc/page.c, `runuserprog` of pc.c)

The areas of one process, and the pages its tables take from the page allocator,
which is `PageAllocator` in an `INSTANCE`: every block the process takes or gives
back must be a step of it (`FreesWholeBlocks`).

| action | code |
|---|---|
| `do_map`, `do_unmap`, `is_in_vma` | the same, with `find_vma`, `mmap_cache`, `get_unmapped_area`, `insert_vma_struct` |
| `task_create` | its `mm_create` |
| `runuserprog`, `AllocateBuffer`, `ReadProgram`, `mm_create`, `AllocateCode`, `AllocateStack`, `do_one_mapping`, `Error5`, `Activate`, `CopyProgram` | `runuserprog` with its labels: the buffer for the file and the reading of it, the new tables, and the copy after which alone the buffer is given back; `error_3` is `mm_delete`, `error_5` before it gives the stack back |
| `mm_delete`, `DeletePage`, `DeletePgd` | `mm_delete`: `pgd_delete` entry by entry, `exit_mmap` |

No code in the build calls `do_map` or `do_unmap`, and the program that calls
`runuserprog` is not started; they are modelled as what they offer. `Sparing` is a
discipline of who calls `do_map`, and `SparesAreas` says which: what is asked for lies in user
space, not below the first area, and there is room. `do_map` checks none of this: it
takes the 0 or -1 of `get_unmapped_area` for an address (`vm.c:196`). The loop of
`get_unmapped_area` is a recursive function of its turns (`AfterTurns`); it passes the areas of the
list and at most one more, which was freed and is still in `mmap_cache`, so that as many turns as
there are areas and one are enough. A page table has `Entries` entries; addresses wrap at `Word`.

A program has any size. `kmalloc` takes half a page and less from the slab allocator, whose
pages are not counted here and which hangs rather than fail: a small buffer is no block of
pages, and `mm_struct` is left out. Two steps end a behaviour. The code of a program of several
pages is *one* block, of which `pgd_delete` gives back each page (`vm.c:71`): the first page gives
back the whole block, and with the next one `free_pages` is asked for a page that starts none
(`halved`). And the copy of the program goes in lines of 64 bytes with one more than a file of
whole pages has: where the page behind the code is not mapped it ends in the exception
handler, which is not part of the repository (`CopyProgram`).

### `Ext2Delete` (kernel/vfs/ext2.c, `vfs_rm`)

`ext2_delete_inode` step by step: `FreeBlock` for each block, `FreeInode`, `ClearTable`,
`EraseEntry`; the bits, the inode table and the pages of the directory on disk, and the
cached pages that may differ from them. `Restart` can come anywhere. Each read and
write may fail, in a lookup and in a removal, and `ext2_bmap` may get no memory.

| action | code |
|---|---|
| `ext2_inode_lookup` | the same, with `ext2_check_inode_bitmap` and `ext2_fill_inode` |
| `FreeBlock`, `SkipBlock`, `BlocksDone` | the loop over `i_blocks`: a block whose bit is reset; one that `ext2_bmap`, for want of memory for a buffer that a direct block does not need, takes for a hole (`ext2.c:749`); its end |
| `FreeInode`, `ClearTable` | the bit of the inode, its place in the table |
| `EntryUnread`, `EntryMissing`, `EraseEntry` | the search for the entry: a page that cannot be read, which ends the removal with success (`ext2.c:354`); no entry, or a page that cannot be mapped; the entry goes from the cached page |
| `CutPage`, `WritePage`, `PageFails` | `ext2_writepage`, which writes the sectors of the page one after the other: after some of them, after all, an error |
| `Stray` | the code goes on with what it has not read |

A page is 2 to 16 sectors. Between the first and the last of them the disk has the new entries in front
and the old ones behind (`CutAt`), where an entry may be missing or be there twice, as the
entries are not all of one length; such a page is `torn` until it is written whole. What the
cut leaves of an entry is taken for a name that nobody asks for.

What the code has not read and uses all the same ends a behaviour, `astray` (`Stray`):
an inode whose block in the table could not be read (`ext2.c:543`), which goes live with any
blocks; the descriptor of a group that could not be read (`ext2.c:250`, `ext2.c:271`); the blocks
behind the direct ones, where the number of a block of numbers is taken for that of a sector
(`ext2.c:755`), which the loop comes to since `i_blocks` counts sectors; and a torn page read anew,
whose lengths of entries do not add up. Any bit and block may be overwritten from there on.

Left out: `rec_len` and the zeros behind the last entry, the free counts of super block and
groups, which the code does not keep, hard links, and the entry of an inode whose number ends in a
byte 0, at which the search ends (`ext2.c:369`). `vfs_rm` does not ask whether it has a directory
before it. With blocks of 2048 bytes `kmalloc` hangs for a block (section 5, `SlabServesSmall`), so the
run has blocks of 4096.

A removal that fails after a write leaves the dentry with its inode, and a second
one finds the entry gone from the cache and reports `-ENOENT`.

### `Ps2` (kernel/driver/ps2.c)

The handler is one step and comes between any two accesses of `kernel_getkey`:
`Test`, `Take`, `Clear`, `Advance`, `Check`, and the reset of the ring, entry by
entry (`ClearEntry`), then both pointers (`ResetWptr`, `ResetRptr`). Keys are
numbered as they are pressed. `overrun` and `dropped` remember that an unread key
was written over, that the handler wrote into a reset, or that a reset found
unread keys. One event is one key; modifiers, and the codes that the handler reads
on for, are left out, as is the translation to characters, which looks at the
shift keys when the key is *read*.

### The modules with proofs

| module | about |
|---|---|
| `SequenceFacts` | removing, appending, moving to the front and positions in sequences without repetitions; quotients and remainders |
| `PcProofs` | the inductive invariant of `Pc`; `Pc` implements `Lifecycle`; who is woken; ownership of pids; the order in the queues |
| `BuddyProofs` | `Buddy`, with calls one at a time |
| `MemoryProofs` | `Slab`, with any clients; `Kmalloc`; `Mm`, with areas spared, and that it is a client of `PageAllocator` |
| `VfsFileProofs` | `VfsFile`, and that it implements `FileStore` |
| `PathWalkProofs` | `PathWalk`, as long as what is put out of the cache is not in use, and that it implements `Namespace` |
| `DriverProofs` | `Ps2`, with one reader; `Fat`, as long as new clusters are erased in place and with power failing between calls only |
| `Ext2DeleteProofs` | `Ext2Delete`, for any files |

Section 6 lists the theorems.

## 4. The runs

Each with the `MC` module of the module it is about, which adds the symmetry of
children, pages and caches; there is none in runs with a liveness
property and in those of `VfsFile`, whose blocks and files differ.
Deadlock is not checked where the kernel really stops, or behaviours end: after a `fault`,
where `astray` or `halved`, in `Kmalloc` after the last size, and in `Ps2` and `PathWalk` after
the last key and call that their bounds allow.

| run | bounds | question |
|---|---|---|
| `Pc_lists` | 2 children, pids 0..3 and one past the end, 3 background levels, 1, 2, 3 slices | type invariant, lists against states, CPU, slices, ASID, stops, who wakes and overtakes whom, the inductive invariant of the proofs (`IInv`), and `Pc` implements `Lifecycle` |
| `Pc_live` | 2 children, pids 0..3, slow typing, 2 levels, fairness of `Tick` | ownership of pids, the shell's progress and the drain of the first level |
| `Buddy_one` | 1 caller, 8 pages, orders 0 to 2 | tiling, marks of free blocks, orders remembered, no needless failure, and `Buddy` implements `PageAllocator` |
| `Slab_pages` | 2 caches, 3 pages of 3 objects | objects, free lists, page lists and counts agree; freed memory is found again |
| `Kmalloc_sizes` | sizes 1 to 70000 | the choice of cache and order, the room in a page |
| `Vfs_file` | a FAT32 file of one block, an ext2 file of two, blocks of 3 bytes, 2 cached pages, calls of up to 6 bytes, each inode forgotten once; reads of data and inodes may fail, and memory for `bmap` | cached pages equal their blocks, writes stay on the blocks of their file, and `VfsFile` implements `FileStore` |
| `Fat_files` | 2 files, 3 bytes to write, clusters of 2 bytes, 4 clusters of which the directory has one, 2 entries in a sector of the FAT, one buffer of each kind | chains of files, what the disk has of files not in use, lost clusters, and `Fat` implements `FileStore` |
| `PathWalk_cache` | two volumes with 5 files and a directory, 12 calls, up to 6 of them, 8 dentries, counts modulo 256 | what the cache may put out, what it says, and `PathWalk` implements `Namespace` |
| `Mm_process` | 10 pages of 2 bytes in blocks of 1 and 2, tables of 2 entries, programs of 0, 1 and 3 bytes, 3 areas, addresses 2 and 5 below `KERNEL_ENTRY` 22, length 3, `Sparing` | areas apart and counted, the program maps its own pages, what is lost, what is given back |
| `Ext2_delete` | 3 files in 2 pages of a directory: a hole and a block, one block and room for more, none; any I/O may fail, and memory for `ext2_bmap` | blocks, inodes and entries after any write, and what a restart finds |
| `Ps2_keys` | a ring of 4, 11 keys, one reader, fairness of the reader | order and loss of keys, and every key is read that is neither written over nor dropped by a reset |
| `Pc_wakeup` | 2 children, slow typing | refutes a sentence of the code, section 5 |

Why the bounds are enough. Two children besides idle and the shell give every
pair of a creating, a waiting, an exiting and a killed process, and a queue with
an order; with two children and four pids a pid is reused while the structure of
its last owner is still listed, the allocation fails when all pids are taken,
and the scan wraps. With `CNT_BASE` 1 the levels have 1, 2 and 3 slices, so a
task is demoted on its first turn, rotated on its second level and reaches the
last. The bitmap of one byte makes all pids share the byte that is loaded and
stored. `CNT_LV0` is written and never read. What needs larger numbers is what
the theorems cover.

Eight pages with orders 0 to 2 are two blocks of the largest order, so merges and
splits chain over two orders, a merge must stop at the largest order although a
neighbour of that order is free, and requests fail with memory left. Three pages
of three objects for two caches let a page be current, partial and full, be
emptied and given to the other cache, and run out. 70000 bytes are a little more
than 16 pages, so the order goes up to 5, and every cache is chosen.

In `Vfs_file` two pages are fewer than the two directories and three blocks that
calls use, so a page is put out between the pages of one call; an ext2 transfer
begins and ends in the middle of a block, spans two, and grows the file within
the second, or fills that and goes on to a page it does not have; the file of FAT32 grows within
its cluster, or beyond it, astray; forgetting an inode once gives pages of the old one beside
pages of the new. Two values of a byte tell old data from new.

In `Fat_files` one buffer for the FAT of three sectors and one for data put a sector out
whenever another is needed, also in the middle of `fs_alloc`; a file of three bytes
has two of the three free clusters, so that two files ask for the last one and for
more than there are. In `PathWalk_cache` six calls reach more names than eight dentries hold, so
the cache replaces dentries within a walk, on both sides of the mount: files that were found,
after which the walk goes on, and names that were not, where it ends. In `Mm_process`
ten pages hold the process, a program of two pages with its buffer, and part of another try, so that each
of its allocations also fails; code and stack share a table or not; a program of two pages is
deleted by halves. In `Ext2_delete` the first page has one entry and the second two, so that an
entry with and one without entries behind it is removed, and the page of two is cut; the 8 and 16 in
`i_blocks` are what sectors of 4096-byte blocks count to, and 16 goes beyond the direct blocks; no
two files share a block. In `Ps2_keys` eleven keys go
nearly three times around a ring of four.

Each module has one invariant that conjoins its type invariant with the parts that
belong together, and the runs check that: `IInv` of `Pc` (with `SliceBounds`,
`AsidOfCurrent`, `ExitedAreTerminal`), `BuddyInv` (`FreeBlocksMarked`,
`OrderRemembered`), `SlabInv` (`LinkedOnce`, `CachesApart`, `CurrentIsKept`,
`SelfUntilFull`, `LiveNotFree`), `GivesEnough` of `Kmalloc` (`ObjectsInPage`, `BlockFits`),
`VfsInv` (`Progress`, `OwnPages`, `Coherent`), `FatInv` (`ChainsApart`), `PathInv`
(`HeldByChildren`), `MmInv` (`AreasApart`, `AreasCounted`), `Ext2Inv` (`FreedInOrder`,
`CachedAsOnDisk`, `FrontOnDisk`, `NothingLost`, `SuccessFreesAll`) and `Ps2Inv` (`FirstInFirstOut`);
`ReachedAreCached` includes `PwdIsCached`. For each part there is a mutant that breaks
the whole.

What the properties of `Pc_lists` say: `ListsMatchStates` relates five lists,
the list of all tasks and the states at every point a tick can split the code;
`CurrentRunnable` the CPU to both; `WokenByItsChild` that `parent` and `-pid`,
which are only numbers and are reused, still identify the child; `LastLevelFifo`
and `NoOvertaking` are the queue disciplines that `pc.c:22` claims.

**Fairness.** `FairSpec` asks only that `Tick` keeps happening: the timer is a
hardware counter that `pc_schedule` restarts. No fairness is asked of the shell
or of children, which may loop for ever or be slow. `ShellGetsCpu` holds because
the foreground list is walked after every background turn. A task on the *last*
level has no such promise: its head may run for ever, by design
(`LastLevelFifo`). `FairSpec` of `Ps2` asks that a reader that polls goes on
(`WF` of `kernel_getkey`): `kernel_getchar` loops without sleeping, and the process
that does so gets the CPU again and again, the shell by `ShellGetsCpu`.
`KeysAreRead` promises nothing for keys that an overrun or a reset lost.

## 5. Where the code does something else than it says

`Pc_wakeup` is a run that TLC ends with a counterexample: `waitpid` checks with
interrupts disabled that the child lives, enables them (`pc.c:67`) and then goes to
sleep. If the child exits in between, nobody wakes the shell. With no other process the
next tick stops the machine in the branch of which `pc.c:699` says that it is a bug
unless there is only idle.

The modules state more such sentences, or assume them away with a constant. TLC
refutes each in the same way, with the constants given; where only some are, the
others are those of the run of the module.

*Processes* (constants of `Pc_wakeup.cfg`)

* `KillsTheLiving`, with `FastTyping = TRUE`: a pid reused before the tick that clears
  its last owner makes `pc_kill` take the dead structure (`pc.c:191`, `pc.c:533`).
* `LivePidChecks`: `next_pid` reaches 256 and `pid_alloc` hands out a pid that
  `pid_check` denies (`pid.c:60`, `pid.c:14`).
* `KillFindsTask`: an exit between load and store of `pidmap[index] |= ...` has its
  freed bit set again; a `kill` of that pid finds no task (`pid.c:58`, `pc.c:569`).
* `MmDeletedOnce`: a process preempted in `pc_exit` after `mm_delete` is killed and its
  address space deleted again (`pc.c:633`, `pc.h:59`).

*Memory*

* `Exclusive` of `Buddy`, with two callers, 4 pages and order 1: they take the same
  page, since `lockup` does not wait for the lock that `buddy.h:42` calls exclusive.
  `ExclusiveCorrect` of section 6 shows that this takes two calls that interleave: any
  number of callers whose calls do not never share a page.
* `CurrentNotReturned` of `Slab`: a full page is on the full list and still the current page.
  `slab_free` asks whether the node of the page is linked to tell the current page from others
  (`myslab.c:186`), and gives an emptied current page back to the buddy system.
* `NodesUnlinkable` of `Slab`: a page taken from the partial list has its node
  poisoned by `list_del`; the next free of one of its objects takes the page for a listed
  one (`myslab.c:190`) and unlinks it through the poison.
* `SlabServesSmall` of `Kmalloc`: the search of `get_slab` starts from 2048 as the best
  size so far and wants a smaller one (`myslab.c:212`), so sizes from 1537 to 2048 find
  no cache, although `kmalloc` leaves them to the slab system (`myslab.c:243`).
* `AreasCounted` of `Mm`, with `Sparing = FALSE`: an area below the first one takes the
  place of the whole list (`vm.c:177`), and `exit_mmap` then waits for ever.
* `FindsFirst` of `Mm`: `find_vma` takes the area of `mmap_cache` when it ends after the
  address, whether or not an earlier one does (`vm.c:86`, `vm.c:92`).
* `NeverByHalves` of `Mm`: the code of a program is one block of several pages; `pgd_delete`
  gives back each page of it (`vm.c:71`), although freeing a part "is not allowed"
  (`mybuddy.c:85`).
* `runuserprog` loses memory at its labels, which `LosesOnlyInRunuserprog` names one by one
  (`Drops`): the buffer when the file cannot be read or an allocation fails (`pc.c:945`, given
  back only at `pc.c:1059`), the code when there is no stack for it or not all of it could be
  mapped, and the tables that the process had before.

*Files through the VFS*

* `ReadsTheFile` of `VfsFile`, with `Chain <- TwoClusters` and `InitSize <-
  LongInitSize`: `fat32_inode_lookup` follows the chain of a file twice; the second time,
  `addr = (new_inode, addr)` (`fat32.c:610`) lacks the name of `read_fat`, so `a_page` has
  the first cluster for every page. Reading a longer file gives its first cluster again
  and again, and writing it puts every page there.
* `Coherent` with `Fault = {"write"}`: the result of `writepage` is not looked at
  (`read_write.c:221`, `fat32.c:352`), and readers get from the cache what the disk
  lacks.
* `ImplementsFileStore` of `VfsFile` with `Fault = {"size"}` or `{"dir"}`: the result of
  `write_inode` is not looked at (`read_write.c:232`), so the new size is lost with the
  inode. (`fat32_delete_inode` also reports success when it cannot read the directory,
  `fat32.c:312`; as the file is then still there, this is a stutter of `FileStore`.)
* `NeverAstray` of `VfsFile`, with `Fault = {}` too: nothing allocates blocks for a growing file; on
  ext2 the page has block 0 in `i_block`, and that is where the data would go (`read_write.c:78`);
  on FAT32 `a_page` is read past its end. With `"inode"` in `Fault`, `ext2_inode_lookup` makes a
  live inode of one that could not be read (`ext2.c:543`).
* `NeverAstray` of `PathWalk`: a name that was not found has a `d_alias` nobody initialised, since
  `d_alloc` initialises that of the root (`open.c:528`); `dcache_put_LRU` unlinks it
  (`vfscache.c:200`).
* `PwdIsCached`, with `Calls <- MCCdCalls` and `DCACHE_CAPACITY = 5`: `vfs_cd` has given its
  reference back before it makes the dentry the current directory (`usr.c:69`).
* `ReachedAreCached`, with `DCACHE_CAPACITY = 6`: with every dentry in use, the one with
  the lowest count is put out all the same (`vfscache.c:178`).
* `NeverAstray` of `Ext2Delete`: the inode (`ext2.c:543`) and the group descriptors (`ext2.c:250`,
  `ext2.c:271`) are used also when reading them failed, and the loop passes the direct blocks, since
  `i_blocks` counts sectors and not blocks as `ext2.h:97` says, and `ext2_bmap` takes the number
  of the indirect block for that of a sector (`ext2.c:755`). Bits of other files may be reset.
* `KeepsBitsOfOthers`, with `first_data_block_no = 1`: the bit of the next block is reset
  (`ext2.c:269`).
* `SkipsNothing`: without memory for a buffer, `ext2_bmap` returns 0 (`ext2.c:749`), which the loop
  takes for a hole (`ext2.c:266`); the block stays marked for ever.
* `EntryErased`: an entry that is the last of its page is erased in the cache only
  (`ext2.c:324`); the name comes back at the next start, with an inode in no use.
* `FoundIsWhole`: a removal that stops after a block has been freed leaves a file that is
  found and lacks it; the blocks are given back before the entry goes.
* A stop between the sectors of a directory page (`ext2.c:724`) cuts off entries behind the one
  being erased, which is the exception `CutOff` in `OthersStayWhole`.

*The FAT driver*

* `ErasesNewCluster` and `ErasesInPlace` with `base_addr = 1`: erasing a new cluster counts sectors from the
  start of the card (`fat.c:533`), and so does the tag that `fs_clr_4k` gives to a cleared
  buffer (`fat.c:561`, `fscache.c:107`).
* `LosesOnlyOnFailure` with `CrashAnywhere = TRUE`: the FAT goes to the disk before the
  directory (`fat.c:351`), FSInfo before both, so that a restart finds clusters that are
  marked and belong to nobody.
* Without any of these, the last free cluster is lost when it is asked for: `fs_alloc`
  has marked it before it finds that there is no further one (`fat.c:525`); that is why
  `LosesOnlyOnFailure` excepts a failing write.

*Keys*

* `FirstInFirstOut` of `Ps2`, with `Reader = {shell, prog}`: between test and clearing of
  an entry another reader takes the same key. The shell goes on reading while a program
  that it has started calls `kernel_getchar` (`pc.c:893`).

## 6. What is proved

Each theorem holds for every value of the constants that its module's assumptions
allow, and under the hypothesis given with it, which the run of the module satisfies. In `Slab`,
`Mm`, `VfsFile`, `PathWalk` and `Ext2Delete` the steps at which the code loses its footing (section
5) are steps of the model, which ends there, so that they need no hypothesis.

| theorem | statement |
|---|---|
| **`PcProofs`**: any children, pids, width of the bitmap's elements, levels, slices; `FastTyping` too | |
| `Invariant` | `Spec => []IInv` |
| `TypeCorrect`, `ListsCorrect`, `CurrentCorrect`, `SlicesCorrect`, `AsidCorrect`, `ExitedCorrect` | `[]P` for `TypeOK`, `ListsMatchStates`, `CurrentRunnable`, `SliceBounds`, `AsidOfCurrent`, `ExitedAreTerminal` |
| `HaltCorrect` | `[]HaltsOnlyWithoutWork` |
| `Refinement` | `Spec => ImplementsLifecycle` |
| `WokenCorrect` | `Spec => WokenByItsChild` |
| `PidsCorrect` | with `FastTyping = FALSE`: `Spec => []PidsOwned` |
| `OrderCorrect`, `LastLevelCorrect` | `Spec => NoOvertaking`, `Spec => LastLevelFifo` |
| **`BuddyProofs`**: any pages, orders and callers, with `[]OneAtATime` | |
| `Invariant`, `BuddyCorrect` | `[]IInv`, `[]BuddyInv` |
| `TiledCorrect`, `FullCorrect`, `ExclusiveCorrect` | `[]Tiled`, `[]FailsOnlyWhenFull`, `[]Exclusive` |
| `AllocatorCorrect` | `ImplementsAllocator` |
| **`MemoryProofs`**, `Slab`: any caches, pages, objects per page and clients | |
| `ListsCorrect`, `ObjectsCorrect`, `FreedCorrect` | `[]SlabInv`, `[]Accounted`, `[]FreedIsReachable` |
| **`MemoryProofs`**, `Kmalloc`: the code's sizes of caches, any size below 2^20 pages | |
| `BestFitCorrect`, `EnoughCorrect` | `[]BestFit`, `[]GivesEnough` |
| **`MemoryProofs`**, `Mm`: any memory, width of tables, programs, areas, addresses and lengths, with `Sparing` | |
| `MmInvariant`, `MmCorrect` | `[]MmIInv`, `[]MmInv` |
| `OwnPagesCorrect`, `LossCorrect` | `[]MapsItsOwn`, `LosesOnlyInRunuserprog` |
| `MemoryCorrect` | `Pages!Spec`: `Mm` is a client of `PageAllocator` |
| `WholeBlocksCorrect` | `FreesWholeBlocks` |
| **`VfsFileProofs`**: any files, chains, sizes of blocks and of the cache | |
| `Invariant` | whatever fails: `[]Inv`: types, `Progress`, `OwnPages` |
| `CacheCorrect` | with `"write" \notin Fault`: `[]VfsInv` |
| `BlocksCorrect` | whatever fails: `OwnBlocksOnly` |
| `StoreCorrect` | with `Reliable`: `ImplementsFileStore` |
| **`PathWalkProofs`**: any volumes, calls and size of the cache, with `[]Orderly` and `[][KeepsUsed]_vars` | |
| `Invariant`, `PathCorrect` | `[]IInv`, `[]PathInv` |
| `ReachedCorrect`, `CacheCorrect` | `[]ReachedAreCached`, `[]CacheTellsTheDisk` |
| `NamespaceCorrect` | `ImplementsNamespace` |
| **`DriverProofs`**, `Ps2`: any length of the ring and number of keys, one reader | |
| `Ps2Correct` | `[]Ps2Inv` |
| **`DriverProofs`**, `Fat`: any files, clusters, entries, buffers and `base_addr`, with `[]ErasesInPlace` and `~CrashAnywhere` | |
| `FatIInvariant`, `FatCorrect` | `[]FatIInv`, `[]FatInv` |
| `BystandersCorrect` | `[]BystandersOnDisk` |
| **`Ext2DeleteProofs`**: any files, blocks, `i_blocks` and pages of the directory, whatever fails | |
| `RemovalCorrect`, `OthersCorrect`, `RemovedCorrect` | `[]Ext2Inv`, `OthersStayWhole`, `StaysRemoved` |

**Processes.** `PidAssumption` and `PcAssumption` say that idle, shell and the children
are distinct, that there are at least two pids, one level and one slice. The theorems of
`PcProofs` hold in spite of the findings above: none of those races breaks the lists, the
scheduler's choice or the ASID. `ListsMatchStates` alone is not inductive. `IInv` adds

* `Foreground`: the foreground list is idle followed by the shell unless it
  sleeps, so that `Head(sched)` is always a ready task. Without it a step to a
  background task could find the list empty. It also says that children are
  never waiting, which bounds what `wakeup_parent` can find.
* `ShellControl`: what the shell's locals are worth at each point of a command:
  the task under construction is on no list before `EnterSched`, and on the
  first level after it; the bits of idle and the shell are set in the bitmap and
  in the byte that is about to be stored, so that no child ever gets pid 0 or 1
  and lands on the foreground list.
* `TasksOrdered`: every set of listed tasks has a first one, so that the searches
  of `find_in_tasks` and `waitpid` return a listed task.

The proof has one lemma per action (`...Step`). Under them are lemmas about the
operators: what removing from a sequence without repetitions leaves
(`WithoutProperties`), what a move between two lists does to all lists
(`MoveProperties`), what charging and requeueing do (`PayProperties`,
`RequeueProperties`), and that `NextTask` returns a ready task that is on the
queue of its level (`NextTaskProperties`). `Moved`, `Turned`, `Pickable`,
`Placed` and `Wakes` name their conclusions. `HaltCorrect` is not part of the
inductive invariant: it follows from it in the step that stops the machine.

The refinement of `Lifecycle` needs one fact more: every child has the shell as its
parent (`Parents`), since only the shell runs `task_create`. With it, the children that
the abstract shell awaits are those that the code's `wakeup_parent` answers for, and each
action of `Pc` is shown to be its step of `Lifecycle` or a stutter. `PidsOwned` is not
inductive because the bitmap's byte is loaded in one step and stored in a later one. `PidControl`
says what the stale byte relies on: between load and store nobody lives under the pid
being given out or taken back, and the byte marks the pid of everybody who lives. An
exit in between may set its own freed bit again, which loses a pid and breaks nothing
here. With `FastTyping` the theorem is false, as section 5 says.

`InOrder` says for each step what becomes of the order in every queue (`KeptOrder`: only
the task on the CPU may get behind others; `AllKeptOrder`: on the last level not even that
one).

**Buddy.** `OneAtATime` says that at most one caller is within a call; it is what
`lockup` is for and does not ensure. In the run, one caller makes it true; with two it
restricts behaviours, and leaves those in which blocks pass between many callers. The
invariant has five parts beside the types:

* `Tiling`: the free blocks, the lent ones and the one in the caller's hand are aligned,
  lie apart, and cover the pages that `init_buddy` has handed over.
* `Marks`: the *first* page of a free or lent block says so and has its order. The
  marks of other pages are stale. That the test of `__free_pages` on the first page of
  a pair is right in spite of them is the lemma `MergeableIsFree`: the page belongs to
  some block, and if it were inside one, that block would be larger and contain the
  block being freed.
* `NoPairs`: of two halves one is not free. It is what makes merging complete and gives
  `FullCorrect`: when a request fails, a block of the order that is entirely free would
  be covered by free blocks, of which two smallest would be halves of one.
* `Control`: what the locals of a caller are worth, and no list head is taken for a page.
* `Owners`: nothing is lent twice.

The geometry (`Nested`: aligned blocks contain one another or lie apart; `Halves`;
`PairFacts`: what `page ^ (1 << order)` is) follows from `PowerLaws`.

**Slab.** `SlabInv`, `Accounted` and `FreedIsReachable` are inductive together. `SlabInv` has for
this `CurrentIsKept` (a current page has not been given back, until `fault` says that one was) and
`SelfUntilFull` (the node of a page is linked with itself just until its last fresh object is
handed out, so that until then `slab_free` can tell the current page from listed ones).

**Sizes.** `get_slab` is a loop over twelve caches. Its recursive function is unfolded one turn at
a time: `Chosen` says that after k turns the best so far is the smallest of the first k caches that
fit, and a least turn at which it fails cannot exist. `Capacity` and `order` are the least numbers
of which the loop's test holds.

**Areas and page tables.** `MmIInv` has two halves that hardly meet.

* `AreasInv`: there is a sequence of areas without repetitions that the pointers link, that is
  sorted and apart, and has `map_count` members. `Remembered` is what makes it
  inductive: `do_unmap` leaves the area it freed in `mmap_cache` (`vm.c:125`), where
  `find_vma` and `get_unmapped_area` go on to read it. It is then the first of the free
  ones, it lies where it lay among the areas that are left, and its `vm_next` is the area after
  that place, so that a search that starts from it goes on in the list; and `kmalloc` hands it
  out next. `TurnPasses` says where the search of `get_unmapped_area` stands after each turn.
* `PagesInv`: what a pgd leads to is a tree (`IsTree`): the pgd and each table are blocks of one
  page, no page is there twice, and a block with a mapped page has its first page
  mapped. Blocks lie apart (`Disjoint`). `Loads` says how far `runuserprog` has come: what
  newmm maps is exactly what `Target` says for the pages done so far, and its tables and
  the blocks for code and stack share nothing with each other or with the tables of the
  process. `Deletes` says that what `pgd_delete` has still to visit is a tree, apart
  from the tables that the process keeps. `MapsItsOwn` follows by counting the tree; `LossCorrect`
  by following what each step stops reaching.

All of them hold for programs of any size. Until a page is given back that starts no block
(`halved`), every block given back was lent (`WholeBlocksCorrect`); the invariant knows of the
deletion only that what is left is a tree, so that it does not matter how a block was mapped. The
buffer of `runuserprog` is a block that no table leads to (`Loads`), which is why it can be given
back whole by `CopyProgram`, and is lost where another label returns.

**Files through the VFS.** `Progress` says how far a call has come for the page it is
at, `OwnPages` that a cached page of a file is one of its blocks and belongs to an inode
it has or had; the other pages there can be are of block 0 of ext2, as it is on the disk, from a
turn that moves nothing. With them `Coherent` is inductive as long as no write fails. `Reliable`
adds that only reads of data and inodes fail, or memory for `bmap`, and that a file of FAT32 has
one cluster, because of the finding at `fat32.c:610`. The refinement then needs `Sizes`
(the inode in memory, the directory and the blocks of a file agree about its length, and
an inode without file means a removed file) and `Written` (what a write has moved so far is on
the disk): a step of `ReadPage` gives the bytes of the abstract file because the cached page
is coherent, and a write changes the abstract content exactly where the data go.

**Paths.** The assumptions on the volumes are those of a tree: in a directory a name is there
once, an inode has one name, and a directory of ext2 is on ext2. The hypotheses are two. `Orderly`
says that the count of a directory does not wrap, and that no directory is removed. `KeepsUsed` says
of a step that what it puts out of the cache has no references and is not the current directory,
which is what `dcache_put_LRU` is written for (`vfscache.c:172`) and section 5 shows it not to keep to
when there is no such dentry. In the run both hold throughout. That nothing that is still reached is put
out is then proved: the path to the current directory, the mount, where the walk stands. The inductive invariant has these parts:

* `Parented`: every cached dentry but the two roots has its parent in the cache, which is a
  directory and not the mount point. It stays so because a directory *counts* its
  dentries and the walk that stands at it (`Counted`), so that the one put out for a new name
  is nobody's parent. A file may have one reference too few, since a walk that
  fails at its last name gives it back twice; nothing depends on the count of a file.
* `Told`, `NameOnce`, `InodeOnce`: a dentry says what is on the disk, also that there is
  nothing; a name is cached once, and so is an inode. `InodeOnce` is needed for removal:
  `vfs_rm` empties one dentry, and if a second had the inode it would say what is gone.
* `Stands`: the walk and `pwd` are at directories of the volume mounted there. It is why a
  step up from a root is a step over the mount (`follow_dotdot`).

The lemma `Added` says that making a dentry, with another put out, keeps all this; then each
step of a walk is the step of `Namespace` from the inode of its dentry.

**Keys.** With two readers `FirstInFirstOut` is false, as section 5 says. Its inductive form
is `Ordered`: there is a number n such that the ring has just the last n keys pressed, each as
far from the reader's place as it is from the oldest of them; `Start` is that place, which
moves on with `Clear`, one step before `buffer_rptr`. During a reset only the entries from `i`
on still have theirs, and n becomes 0 where the write pointer is set. The key in the reader's
hand is after all that were returned and before the n. An overrun is what would make the n
keys more than `RING`.

**The FAT32 driver.** Both hypotheses are findings of section 5. `ErasesInPlace` is about each step
that erases a new cluster, and not about where the partition starts: the sector that is
written is the cluster's. On a partition at sector 0 it always is, elsewhere seldom; a behaviour that erases
nothing satisfies it anywhere. A machine that stops within a call loses clusters, which
`~CrashAnywhere` leaves out. `FatIInv` has nine parts:

* `Caches`: the buffers of a cache are for different sectors of those it is for, and one that is
  not dirty has what the disk has. The buffers of the open file are for the clusters of its chain
  (`Loaded`), so that a cluster that is freed or erased is in none of them. Each operation of
  `FsCache` is shown once to keep this and what users read through the cache, whichever buffer the
  clock hand takes; each action of `Fat` that goes through a cache cites that.
* `Tables`: what is read as FAT or as directory is one.
* `Names`: a name is in the directory once, before the first entry that was never used, where
  `fs_find` ends its search.
* `ChainsOK`: for every entry there *is* a sequence of clusters that the FAT links and ends
  (`IsChain`), none of which is cluster 2 or in the sequence of another entry. `Follow` of the
  model then gives that sequence. While `fs_rm` frees a chain, the entry still leads to its first
  cluster; its sequence is what the loop has still to free (`First`).
* `Hint`: the cluster after `Nxt_Free` is not marked, as long as `fs_alloc` takes the hint. It does
  not search then, but marks the cluster unseen. This is why `fs_alloc` must find the next
  free cluster after it has marked one, and where it loses one when there is none.
* `CallOK`: what the locals of a call are worth at each stage. A read or write stands at cluster k
  of the chain (`Transfer`); what `fs_alloc` has marked is in no chain until it is linked, and its
  sector is erased by then. What ends in `fs_fflush` has written FSInfo before the FAT (`Closing`).
* `AtRest`: without call and open file nothing is dirty. It is what a restart needs.
* `Synced`: entries, and the FAT for the chains, of files not in use are on the disk.
* `FileOK`: the open file is one of the directory.

`FatCorrect` and `BystandersCorrect` follow from it in each state.

**Removal in ext2.** There is no hypothesis: whatever `i_blocks` says, whatever fails and wherever
the machine stops, up to the step at which the code uses what it has not read. `FreedInOrder` says
what is gone at each point of a removal: the blocks the loop has passed, then all that it reaches,
the bit of the inode, its place in the table. `CachedAsOnDisk` says that a cached page of the
directory lacks, of the entries on the disk, only such as have no inode any more, and one that
was not torn has no others; `FrontOnDisk`, that while a page is written the entries in front of the
erased one are on the disk all the time. Then a removal that stops anywhere loses nothing of other
files but the entries that a cut page cuts off, and a file that was removed is not found
again, since its inode bit stays reset.

**Recursion.** The provers have no induction over data: an induction theorem of the library
takes an operator, which none of the backends can instantiate. Where a loop or a linked list is a
recursive function (`best`, `AfterTurns`, `List`), the theorems go another way. A lemma shows that a
function with the defining equation exists, by extending one of n arguments to n + 1; the set of
arguments at which the claim fails is a set of numbers, and would have a least element (`LeastNat`),
which the equation refutes.

**Only model-checked.** Liveness (`ShellGetsCpu`, `FirstLevelDrains`, `KeysAreRead`) is out of the
prover's reach, as is `ENABLED`. Not proved is that `Fat` implements `FileStore`: with `FatIInv`, what
is missing is what each step does to the bytes that a file has through its chain and its buffers.
Nor is `LosesOnlyOnFailure`.

## 7. What is not modelled

* Register saving and restoring (`switch_ex.s`), the screen, the SD card's register
  protocol, the clock, the system call table with its single print, the editor and the
  listing: input and output without shared state that the properties could be about.
* The bakery lock (`mylock.c`) is not in the build, and nothing calls it.
* Boot memory (`mybootmm.c`) runs once, before there is anything to interleave with,
  and is asked for one block.
* The four stores of `__list_add`, and the argument of a new process in the shell's
  buffer (hazards at `list.h:23` and `pc.c:373`).
* In `VfsFile`: names and their conversion, indirect blocks of ext2, and chains that
  end in another mark than `0x0FFFFFFF` or files without a cluster, which `fat32.c:599`
  follows out of the table.
* In `Fat`: subdirectories, renaming, and errors of the card.
* In `PathWalk`: a second process that walks at the same time. `runuserprog` could, but
  has no caller that is itself called.
* Creating files on the volumes of the VFS: nothing does.
