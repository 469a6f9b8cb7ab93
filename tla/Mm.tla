---------------------------------- MODULE Mm ----------------------------------
(****************************************************************************)
(* The memory of a user process: the areas of its mm_struct (kernel/vm/vm.c) *)
(* and its page tables (kernel/pc/page.c), as task_create, runuserprog and   *)
(* pc_exit (kernel/pc/pc.c) build and delete them.                           *)
(*                                                                          *)
(* Pages are blocks of the page allocator, taken and given back one a step; *)
(* a kmalloc of pages may fail at any time.  Objects of the slab allocator  *)
(* (mm_struct, a small buffer) are left out, and of the tables the          *)
(* attributes.  No code calls do_map and do_unmap yet, and vmprog22, which  *)
(* calls runuserprog, is not started: they are modelled as the functions    *)
(* they offer.                                                              *)
(****************************************************************************)
EXTENDS Integers, Sequences, FiniteSetsExt

CONSTANTS
    MAX_BUDDY_ORDER, NPages,        \* the page allocator: block sizes, pages
    Entries,                        \* entries of a table: 1024
    USER_CODE_ENTRY, UserStackPage, \* virtual pages: where the code starts, the one of the stack
    FileSizes,                      \* sizes of the files of programs, in bytes
    Vma,                            \* memory for vma_structs
    PageBytes, KERNEL_ENTRY, Word,  \* sizes and addresses: 4096, 2^31, 2^32
    Addresses, Lengths,             \* what do_map, do_unmap and is_in_vma are asked
    Sparing,                        \* does the process ask for areas as SparesAreas says?
    None

Entry == 0 .. Entries - 1
Frame == 0 .. NPages - 1

\* Addresses are in words of the machine, and the kernel has at least the upper half of them.
ASSUME AddressAssumption ==
    /\ PageBytes \in Nat \ {0} /\ KERNEL_ENTRY \in Nat /\ Word \in Nat \ {0} /\ 2 * KERNEL_ENTRY <= Word
    /\ KERNEL_ENTRY % PageBytes = 0 /\ Word % PageBytes = 0
    /\ Addresses \subseteq Nat /\ Lengths \subseteq Nat \ {0} /\ Sparing \in BOOLEAN

\* The pages of the programs.
npage_of(size) == (size + PageBytes - 1) \div PageBytes
Programs == { npage_of(n) : n \in FileSizes }

\* A program lies below its stack.
ASSUME MmAssumption ==
    /\ MAX_BUDDY_ORDER \in Nat /\ NPages \in Nat /\ IsFiniteSet(Vma)
    /\ Entries \in Nat /\ USER_CODE_ENTRY \in Nat /\ UserStackPage \in Nat
    /\ FileSizes \subseteq Nat /\ \A n \in Programs : USER_CODE_ENTRY + n <= UserStackPage
    /\ UserStackPage < Entries * Entries

\* What the proofs use of powers of two: the provers do not know the operator.
ASSUME PowersAssumption == 2^0 = 1 /\ \A k \in 0 .. MAX_BUDDY_ORDER : 2^k \in Nat \ {0}

\* The records of mm, and of op while a program is loaded and an mm is deleted.
MmRecord == [pgd : Frame, mmap : Vma \cup {None}, mmap_cache : Vma \cup {None}, map_count : Int]
Loading == [at : {"buffer", "read", "create", "code", "stack", "map", "error_5", "activate", "copy"},
            size : FileSizes, npage : Programs, buf : Frame \cup {None},
            new : Frame \cup {None}, code : Frame \cup {None}, stack : Frame \cup {None}, i : Nat]
Deletion == [at : {"delete"}, of : {"new", "task"}, pgd : Frame, npage : Nat, i : Nat, j : Nat]

ASSUME NoneAssumption == None \notin Frame \cup Vma \cup MmRecord \cup Loading \cup Deletion

VARIABLES
    lent,       \* the blocks of the page allocator in use
    table,      \* the content of pages that are tables: entries, None is 0
    vma,        \* what the memory of each vma_struct holds, also when it was freed
    unused,     \* the free ones of these, the next to be allocated first
    mm,         \* current_task->mm, or None
    loaded,     \* the pages of the program that runuserprog has put in mm, or 0
    op,         \* runuserprog or mm_delete in progress, with its locals; or None
    halved      \* was a page given back that starts no block in use?

mmVars == <<lent, table, vma, unused, mm, loaded, op, halved>>

Pages == INSTANCE PageAllocator WITH Caller <- {"mm"}, owned <- [c \in {"mm"} |-> lent]

EmptyTable == [i \in Entry |-> None]

Area == [vm_start : 0 .. Word - 1, vm_end : 0 .. Word - 1, vm_next : Vma \cup {None}]
NoAreas == [v \in Vma |-> [vm_start |-> 0, vm_end |-> 0, vm_next |-> None]]

MmInit ==
    /\ lent = {} /\ table = [p \in Frame |-> EmptyTable]
    /\ vma = NoAreas
    /\ unused \in { s \in [1 .. Cardinality(Vma) -> Vma] : \A i, j \in DOMAIN s : s[i] = s[j] => i = j }
    /\ mm = None /\ loaded = 0 /\ op = None /\ halved = FALSE

--------------------------------------------------------------------------------
(* Areas *)

PageAlign(n) == (((n + PageBytes - 1) % Word) \div PageBytes) * PageBytes
Minus1 == Word - 1

\* The areas of the list, in its order.
List ==
    LET nth[n \in 1 .. Cardinality(Vma)] ==
            IF n = 1 THEN mm.mmap
            ELSE LET v == nth[n - 1] IN IF v = None THEN None ELSE vma[v].vm_next
    IN  [i \in 1 .. Cardinality({ n \in 1 .. Cardinality(Vma) : nth[n] # None }) |-> nth[i]]
InList == { List[i] : i \in DOMAIN List }

\* Places in the list of the areas that end after addr; of those that start at or before.
EndAfter(addr) == { i \in DOMAIN List : vma[List[i]].vm_end > addr }
StartUpTo(addr) == { i \in DOMAIN List : \A j \in 1 .. i : vma[List[j]].vm_start <= addr }

FirstAfter(addr) == IF EndAfter(addr) = {} THEN None ELSE List[Min(EndAfter(addr))]
Before(addr) ==
    LET i == IF EndAfter(addr) = {} THEN Len(List) + 1 ELSE Min(EndAfter(addr))
    IN  IF i = 1 THEN None ELSE List[i - 1]

\* The area remembered is asked first, whether or not it is still in the list.
Remembers(addr) ==
    mm.mmap_cache # None /\ vma[mm.mmap_cache].vm_end > addr /\ vma[mm.mmap_cache].vm_start <= addr

find_vma(addr) == IF Remembers(addr) THEN mm.mmap_cache ELSE FirstAfter(addr)
CacheVma(v) == IF v = None THEN mm.mmap_cache ELSE v

find_vma_prepare(addr) == IF StartUpTo(addr) = {} THEN None ELSE List[Max(StartUpTo(addr))]

\* The loop of get_unmapped_area ends: the address is too high, or there is room up to v.
Ends(a, v, len) ==
    (a + len) % Word > KERNEL_ENTRY \/ v = None \/ (a + len) % Word <= vma[v].vm_start

\* The address after so many turns of the loop.
AfterTurns(from, len, turns) ==
    LET turn[n \in 0 .. turns] ==
            IF n = 0 THEN <<from, find_vma(from)>>
            ELSE LET t == turn[n - 1]
                 IN  IF Ends(t[1], t[2], len) THEN t ELSE <<vma[t[2]].vm_end, vma[t[2]].vm_next>>
    IN  turn[turns][1]

AreaUpTo(addr, len, turns) ==
    LET from == PageAlign(addr)
        a == AfterTurns(from, len, turns)
    IN  IF (from + len) % Word > KERNEL_ENTRY THEN Minus1
        ELSE IF from = 0 THEN 0
        ELSE IF (a + len) % Word > KERNEL_ENTRY THEN Minus1 ELSE a

\* Mutant: only the area found first is looked at.
get_unmapped_area_First(addr, len) == AreaUpTo(addr, len, 1)

\* 0 or -1 when there is none.  The loop passes each area of the list, and one remembered.
get_unmapped_area(addr, len) == AreaUpTo(addr, len, Cardinality(Vma) + 1)

\* The process runs.
Runs == mm # None /\ op = None

\* An area for which nothing lies before it becomes the only one of the list.
insert_vma_struct(v, start, end, cache) ==
    LET prev == find_vma_prepare(start)
        next == IF prev = None THEN None ELSE vma[prev].vm_next
    IN  /\ vma' = [x \in Vma |->
                     CASE x = v    -> [vm_start |-> start, vm_end |-> end, vm_next |-> next]
                       [] x = prev -> [vma[x] EXCEPT !.vm_next = v]
                       [] OTHER    -> vma[x]]
        /\ mm' = [mm EXCEPT !.mmap = IF prev = None THEN v ELSE @,
                            !.mmap_cache = cache, !.map_count = @ + 1]

\* What the code needs of whoever asks for an area: it lies in user space, not below the first
\* area, and there is room.  Nothing in the code looks at that (vm.c:196, 179).
SparesAreas(addr, len) ==
    /\ addr > 0 /\ addr + len <= KERNEL_ENTRY
    /\ List # <<>> => vma[List[1]].vm_start <= addr
    /\ get_unmapped_area(addr, len) \notin {0, Minus1}

\* Mutant: an area is counted also when kmalloc fails.
do_map_Counts(addr, len) ==
    LET start == get_unmapped_area(addr, len)
        from  == PageAlign(addr)
        cache == IF from = 0 \/ (from + len) % Word > KERNEL_ENTRY THEN mm.mmap_cache
                 ELSE CacheVma(find_vma(from))
    IN  /\ Runs
        /\ Sparing => SparesAreas(addr, len)
        /\ IF unused = <<>>
           THEN mm' = [mm EXCEPT !.mmap_cache = cache, !.map_count = @ + 1] /\ UNCHANGED <<vma, unused>>
           ELSE /\ insert_vma_struct(Head(unused), start, PageAlign((start + len) % Word), cache)
                /\ unused' = Tail(unused)
        /\ UNCHANGED <<lent, table, loaded, op, halved>>

\* What get_unmapped_area answers is not looked at.
do_map(addr, len) ==
    LET start == get_unmapped_area(addr, len)
        from  == PageAlign(addr)
        cache == IF from = 0 \/ (from + len) % Word > KERNEL_ENTRY THEN mm.mmap_cache
                 ELSE CacheVma(find_vma(from))
    IN  /\ Runs
        /\ Sparing => SparesAreas(addr, len)
        /\ IF unused = <<>>
           THEN mm' = [mm EXCEPT !.mmap_cache = cache] /\ UNCHANGED <<vma, unused>>
           ELSE /\ insert_vma_struct(Head(unused), start, PageAlign((start + len) % Word), cache)
                /\ unused' = Tail(unused)
        /\ UNCHANGED <<lent, table, loaded, op, halved>>

\* The whole area goes, when it does not end before what is to be unmapped.
do_unmap(addr, len) ==
    LET v == FirstAfter(addr)
        prev == Before(addr)
    IN  /\ Runs /\ addr + len <= KERNEL_ENTRY
        /\ v # None
        /\ IF vma[v].vm_start < addr + len /\ vma[v].vm_end >= addr + len
           THEN /\ mm' = [mm EXCEPT !.mmap = IF prev = None THEN vma[v].vm_next ELSE @,
                                    !.mmap_cache = v, !.map_count = @ - 1]
                /\ vma' = IF prev = None THEN vma
                          ELSE [vma EXCEPT ![prev].vm_next = vma[v].vm_next]
                /\ unused' = <<v>> \o unused
           ELSE mm' = [mm EXCEPT !.mmap_cache = v] /\ UNCHANGED <<vma, unused>>
        /\ UNCHANGED <<lent, table, loaded, op, halved>>

\* is_in_vma, for what it remembers.
is_in_vma(addr) ==
    /\ Runs
    /\ mm' = [mm EXCEPT !.mmap_cache = CacheVma(find_vma(addr))]
    /\ UNCHANGED <<lent, table, vma, unused, loaded, op, halved>>

--------------------------------------------------------------------------------
(* Page tables *)

\* kmalloc of n pages gives the lowest block of the first order that is large enough.
IsOrder(k, n) == 2^k >= n /\ (k > 0 => 2^(k - 1) < n)

\* Mutant: blocks in use are handed out.
FreeBlocks_Any(n) == { b \in Pages!Block : IsOrder(b[2], n) }

FreeBlocks(n) == { b \in Pages!Block : IsOrder(b[2], n) /\ Pages!Unlent(b) }
kmalloc(n) == CHOOSE b \in FreeBlocks(n) : \A c \in FreeBlocks(n) : b[1] <= c[1]

\* What kfree gives back: the block that starts at the page.  For another page free_pages
\* follows whatever order was once noted for it, and corrupts its lists: the behaviours end
\* there.  What a free page held is forgotten here, as it is not read again.
kfree(p) ==
    /\ lent' = { b \in lent : b[1] # p }
    /\ table' = [table EXCEPT ![p] = EmptyTable]
    /\ halved' = \A b \in lent : b[1] # p

At(label) == ~halved /\ op # None /\ op.at = label
Goto(label) == op' = [op EXCEPT !.at = label]

NewMm(pgd) == [pgd |-> pgd, mmap |-> None, mmap_cache |-> None, map_count |-> 0]

\* Take a block for the step next, or fail; n = 0 fails always.
Take(n, next(_), fail) ==
    \/ n > 0 /\ FreeBlocks(n) # {} /\ lent' = lent \cup {kmalloc(n)} /\ next(kmalloc(n)[1])
    \/ lent' = lent /\ fail

\* The mm_create of task_create.
task_create ==
    LET made(p) == mm' = NewMm(p) /\ table' = [table EXCEPT ![p] = EmptyTable]
    IN  /\ op = None /\ mm = None
        /\ Take(1, made, FALSE)
        /\ UNCHANGED <<vma, unused, loaded, op, halved>>

\* runuserprog, up to where the program is entered.
runuserprog(size) ==
    /\ Runs /\ loaded = 0
    /\ op' = [at |-> "buffer", size |-> size, npage |-> npage_of(size), buf |-> None,
              new |-> None, code |-> None, stack |-> None, i |-> 0]
    /\ UNCHANGED <<lent, table, vma, unused, mm, loaded, halved>>

\* The buffer for file_size + 1 bytes is an object of the slab allocator, which hangs rather
\* than fail, or of pages.  That there are none is not looked at: vfs_read fails, or else
\* copies to address 0, into the exception handler.
BufferPages(size) == IF size + 1 <= PageBytes \div 2 THEN 0 ELSE npage_of(size + 1)

AllocateBuffer ==
    LET got(p) == op' = [op EXCEPT !.at = "read", !.buf = p]
    IN  /\ At("buffer")
        /\ IF BufferPages(op.size) = 0 THEN lent' = lent /\ Goto("read")
           ELSE Take(BufferPages(op.size), got, op' = None)
        /\ UNCHANGED <<table, vma, unused, mm, loaded, halved>>

\* vfs_read: when it fails runuserprog returns, and the buffer stays.
ReadProgram ==
    /\ At("read")
    /\ Goto("create") \/ op' = None
    /\ UNCHANGED <<lent, table, vma, unused, mm, loaded, halved>>

mm_create ==
    LET made(p) == /\ op' = [op EXCEPT !.at = "code", !.new = p]
                   /\ table' = [table EXCEPT ![p] = EmptyTable]
    IN  /\ At("create")
        /\ Take(1, made, op' = None /\ UNCHANGED table)
        /\ UNCHANGED <<vma, unused, mm, loaded, halved>>

\* error_3: mm_delete(newmm), which has no areas.  No label gives the buffer back.
Delete(pgd, npage, of) == [at |-> "delete", of |-> of, pgd |-> pgd, npage |-> npage, i |-> 0, j |-> 0]
Error3 == op' = Delete(op.new, op.npage, "new")

AllocateCode ==
    LET got(p) == op' = [op EXCEPT !.at = "stack", !.code = p]
    IN  At("code") /\ Take(op.npage, got, Error3) /\ UNCHANGED <<table, vma, unused, mm, loaded, halved>>

AllocateStack ==
    LET got(p) == op' = [op EXCEPT !.at = "map", !.stack = p]
    IN  At("stack") /\ Take(2, got, Error3) /\ UNCHANGED <<table, vma, unused, mm, loaded, halved>>

\* do_mapping of the code page by page, then the stack's.
va == IF op.i < op.npage THEN USER_CODE_ENTRY + op.i ELSE UserStackPage
\* Mutant: the stack is taken to follow the code.
pa_AfterCode == op.code + op.i

pa == IF op.i < op.npage THEN op.code + op.i ELSE op.stack

do_one_mapping ==
    LET pde == table[op.new][va \div Entries]
        enter(t, pt) == table' = [t EXCEPT ![pt][va % Entries] = pa]
        Mapped == op' = [op EXCEPT !.i = @ + 1, !.at = IF op.i = op.npage THEN "activate" ELSE "map"]
        made(p) == enter([table EXCEPT ![op.new][va \div Entries] = p, ![p] = EmptyTable], p) /\ Mapped
    IN  /\ At("map")
        /\ IF pde # None THEN enter(table, pde) /\ Mapped /\ UNCHANGED lent
           ELSE Take(1, made, Goto("error_5") /\ UNCHANGED table)
        /\ UNCHANGED <<vma, unused, mm, loaded, halved>>

\* Mutant: the code is given back, which newmm may map.
Error5_Code ==
    /\ At("error_5")
    /\ kfree(op.code) /\ Error3
    /\ UNCHANGED <<vma, unused, mm, loaded>>

\* error_5: the stack is given back, and then newmm.
Error5 ==
    /\ At("error_5")
    /\ kfree(op.stack) /\ Error3
    /\ UNCHANGED <<vma, unused, mm, loaded>>

\* The process goes on with newmm; what it had before stays.
Activate ==
    /\ At("activate")
    /\ mm' = NewMm(op.new) /\ loaded' = op.npage /\ Goto("copy")
    /\ UNCHANGED <<lent, table, vma, unused, halved>>

\* The buffer is copied to where the code is mapped, in lines of the cache and with one more
\* than a file of whole pages has.  It must be mapped as well: else the copy ends in the
\* exception handler, which is not part of the repository.
CopyProgram ==
    /\ At("copy")
    /\ op.size % PageBytes # 0 \/ USER_CODE_ENTRY + op.npage = UserStackPage
    /\ IF op.buf = None THEN UNCHANGED <<lent, table, halved>> ELSE kfree(op.buf)
    /\ op' = None
    /\ UNCHANGED <<vma, unused, mm, loaded>>

\* mm_delete(current_task->mm), called by pc_exit and pc_kill.
mm_delete ==
    /\ Runs
    /\ op' = Delete(mm.pgd, loaded, "task")
    /\ UNCHANGED <<lent, table, vma, unused, mm, loaded, halved>>

\* pgd_delete frees each page of a table, then the table, and the pgd at last.
Tables == { i \in op.i .. Entries - 1 : table[op.pgd][i] # None }
Pte(i) == table[table[op.pgd][i]]
Ptes(i) == { j \in Entry : Pte(i)[j] # None /\ (i = op.i => op.j <= j) }

\* Mutant: a table is not given back.
DeletePage_KeepTable ==
    /\ At("delete") /\ Tables # {}
    /\ LET i == Min(Tables)
       IN  IF Ptes(i) # {}
           THEN kfree(Pte(i)[Min(Ptes(i))]) /\ op' = [op EXCEPT !.i = i, !.j = Min(Ptes(i)) + 1]
           ELSE UNCHANGED <<lent, table, halved>> /\ op' = [op EXCEPT !.i = i + 1, !.j = 0]
    /\ UNCHANGED <<vma, unused, mm, loaded>>

DeletePage ==
    /\ At("delete") /\ Tables # {}
    /\ LET i == Min(Tables)
       IN  IF Ptes(i) # {}
           THEN kfree(Pte(i)[Min(Ptes(i))]) /\ op' = [op EXCEPT !.i = i, !.j = Min(Ptes(i)) + 1]
           ELSE kfree(table[op.pgd][i]) /\ op' = [op EXCEPT !.i = i + 1, !.j = 0]
    /\ UNCHANGED <<vma, unused, mm, loaded>>

\* exit_mmap gives back the areas of the list, and nothing remembers them; it stops for
\* ever when map_count says that there are others.
DeletePgd ==
    /\ At("delete") /\ Tables = {}
    /\ kfree(op.pgd)
    /\ IF op.of = "new"
       THEN UNCHANGED <<vma, unused, mm, loaded>>
       ELSE /\ mm.map_count = Len(List)
            /\ unused' = [i \in 1 .. Len(List) |-> List[Len(List) + 1 - i]] \o unused
            /\ vma' = NoAreas /\ mm' = None /\ loaded' = 0
    /\ op' = None

MmNext ==
    \/ \E addr \in Addresses, len \in Lengths : do_map(addr, len) \/ do_unmap(addr, len)
    \/ \E addr \in Addresses : is_in_vma(addr)
    \/ task_create
    \/ \E n \in FileSizes : runuserprog(n)
    \/ AllocateBuffer \/ ReadProgram \/ mm_create \/ AllocateCode \/ AllocateStack
    \/ do_one_mapping \/ Error5 \/ Activate \/ CopyProgram
    \/ mm_delete \/ DeletePage \/ DeletePgd

MmSpec == MmInit /\ [][MmNext]_mmVars

--------------------------------------------------------------------------------
(* Properties *)

\* The variables have their types.
MmTypeOK ==
    /\ lent \subseteq Pages!Block /\ table \in [Frame -> [Entry -> Frame \cup {None}]]
    /\ vma \in [Vma -> Area] /\ unused \in Seq(Vma) /\ loaded \in Nat /\ halved \in BOOLEAN
    /\ mm \in MmRecord \cup {None} /\ op \in Loading \cup Deletion \cup {None}
    /\ mm # None => mm.map_count \in 0 .. Cardinality(Vma)

\* The list of areas is in the order of their addresses, they do not overlap, and none of
\* them was freed (get_unmapped_area, vm.c:136).
AreasApart ==
    mm # None =>
        /\ \A i \in 1 .. Len(List) - 1 : vma[List[i]].vm_end <= vma[List[i + 1]].vm_start
        /\ \A v \in InList : vma[v].vm_start < vma[v].vm_end
        /\ \A i \in DOMAIN unused : unused[i] \notin InList

\* map_count is the number of areas, so that exit_mmap ends (vm.c:260).
AreasCounted == mm # None => mm.map_count = Len(List)

\* The list of areas is what insert_vma_struct and exit_mmap go by (vm.c:170, 249).
MmInv == MmTypeOK /\ AreasApart /\ AreasCounted

\* The first area that ends after addr is found (vm.c:86).
FindsFirst == mm # None => \A addr \in Addresses : find_vma(addr) = FirstAfter(addr)

\* The pages of the tables of an mm, with its pgd.
PagesOf(pgd) ==
    LET tables == { table[pgd][i] : i \in Entry } \ {None}
    IN  {pgd} \cup tables \cup ((UNION { { table[t][j] : j \in Entry } : t \in tables }) \ {None})

\* What the program can reach is its own: its pages are in use, and no page is there
\* twice, as a table or as a page (do_one_mapping, page.c:8).
MapsItsOwn ==
    Runs =>
        LET tables == { i \in Entry : table[mm.pgd][i] # None }
            entries == { e \in tables \X Entry : table[table[mm.pgd][e[1]]][e[2]] # None }
        IN  /\ \A p \in PagesOf(mm.pgd) : \E b \in lent : p \in Pages!PagesOf(b)
            /\ Cardinality(PagesOf(mm.pgd)) = 1 + Cardinality(tables) + Cardinality(entries)

\* Blocks in use that nothing leads to any more.
Deleting == op # None /\ op.at = "delete"
Left == IF Tables = {} THEN {op.pgd}
        ELSE {op.pgd} \cup UNION { {table[op.pgd][i]} \cup { Pte(i)[j] : j \in Ptes(i) } : i \in Tables }
Reached ==
    (IF mm = None \/ (Deleting /\ op.of = "task") THEN {} ELSE PagesOf(mm.pgd))
      \cup (IF op = None THEN {} ELSE IF Deleting THEN Left
            ELSE ({op.buf, op.code, op.stack} \cup (IF op.new = None THEN {} ELSE PagesOf(op.new))) \ {None})
Lost == { b \in lent : Pages!PagesOf(b) \cap Reached = {} }

\* What runuserprog drops: the buffer when it gives up, the memory for code when it does so
\* before the code is mapped, and the page tables the process had before.
Drops ==
    CASE At("read") \/ At("create") \/ At("code") -> {op.buf}
      [] At("stack") \/ At("error_5")             -> {op.buf, op.code}
      [] At("activate")                           -> PagesOf(mm.pgd)
      [] OTHER                                    -> {}

\* No other memory gets lost, not where an allocation fails half-way through the tables, nor
\* when an mm is deleted (pc.c:1037, 1145, vm.c:48).
LosesOnlyInRunuserprog == [][\A b \in Lost' \ Lost : b[1] \in Drops]_mmVars

\* User memory is taken and given back as the page allocator demands: what is given back was
\* lent and is given back whole (mybuddy.c:85), until pgd_delete meets the second page of a
\* program of several.
GivesBack == At("delete") \/ At("error_5") \/ (At("copy") /\ op.buf # None)
FreesWholeBlocks ==
    /\ Pages!Spec
    /\ [][GivesBack => (\E b \in lent : lent' = lent \ {b}) \/ (At("delete") /\ op.npage > 1 /\ halved')]_mmVars

--------------------------------------------------------------------------------
(* What a comment of the code says, which it does not keep to *)

\* mybuddy.c:85: a block is not freed in part.
NeverByHalves == ~halved
================================================================================
