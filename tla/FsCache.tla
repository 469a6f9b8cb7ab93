-------------------------------- MODULE FsCache --------------------------------
(* The buffers of kernel/fs/fscache/fscache.c: an array of buffers with a clock *)
(* hand.  The FAT driver has three: for sectors of the FAT (fat_buf), sectors   *)
(* of directories (dir_data_buf), and in each FILE for clusters (data_buf).     *)
(* A cache is [buf, clock]; a buffer has the sector it holds (cur), the two bits *)
(* of state, and its data.  The operators give a cache and a disk after a call.  *)
EXTENDS Integers, FiniteSetsExt

NoSector == -1          \* 0xffffffff

Empty(n) ==
    [buf |-> [i \in 0 .. n - 1 |->
                [cur |-> NoSector, ref |-> FALSE, dirty |-> FALSE, data |-> <<>>]],
     clock |-> 0]

Index(c) == DOMAIN c.buf
Holds(c, s) == \E i \in Index(c) : c.buf[i].cur = s

\* The buffer that the clock hand reaches after k steps.
Hand(c, k) == (c.clock + k) % Cardinality(Index(c))

Turn(c) == 0 .. Cardinality(Index(c)) - 1
Unused(c) == { k \in Turn(c) : ~c.buf[Hand(c, k)].ref /\ ~c.buf[Hand(c, k)].dirty }
Clean(c)  == { k \in Turn(c) : ~c.buf[Hand(c, k)].dirty }

\* How far the hand goes: to the first buffer neither used nor dirty, else in the
\* second sweep to the first that is not dirty, else nowhere.
Steps(c) == IF Unused(c) # {} THEN Min(Unused(c))
            ELSE IF Clean(c) # {} THEN Min(Clean(c)) ELSE 0

fs_victim(c) == Hand(c, Steps(c))

\* The first sweep takes the reference bit of the buffers it passes.
Passed(c) == IF Unused(c) # {} THEN { Hand(c, k) : k \in 0 .. Steps(c) - 1 } ELSE Index(c)

Swept(c) ==
    [buf |-> [i \in Index(c) |-> IF i \in Passed(c) THEN [c.buf[i] EXCEPT !.ref = FALSE]
                                                   ELSE c.buf[i]],
     clock |-> Hand(c, Steps(c) + 1)]

\* fs_write_4k, fs_write_512, write_fat_sector: a dirty buffer goes to its sector.
Written(c, i, d) == IF c.buf[i].dirty THEN [d EXCEPT ![c.buf[i].cur] = c.buf[i].data] ELSE d
Flushed(c, i) == [c EXCEPT !.buf[i].dirty = FALSE]

\* Put a new content in the place of the victim.
Replaced(c, buffer) == [Swept(c) EXCEPT !.buf[fs_victim(c)] = buffer]
Evicted(c, d) == Written(c, fs_victim(c), d)

\* fs_read_4k, fs_read_512, read_fat_sector: the buffer that holds sector s; the cache
\* and the disk when sector s has been asked for.
Place(c, s) == CHOOSE i \in Index(c) : c.buf[i].cur = s

Fetched(c, s, d) ==
    IF Holds(c, s)
    THEN [c EXCEPT !.buf[Place(c, s)].ref = TRUE]
    ELSE Replaced(c, [cur |-> s, ref |-> TRUE, dirty |-> FALSE, data |-> Evicted(c, d)[s]])

Fetching(c, s, d) == IF Holds(c, s) THEN d ELSE Evicted(c, d)

\* state = 3 and new data, in the buffer of a sector just fetched.
Modified(c, s, data) ==
    [c EXCEPT !.buf[Place(c, s)] = [cur |-> s, ref |-> TRUE, dirty |-> TRUE, data |-> data]]

\* fs_clr_4k: a buffer of zeros for a cluster just erased, which is not read.
Cleared(c, s, zeros) == Replaced(c, [cur |-> s, ref |-> FALSE, dirty |-> FALSE, data |-> zeros])

\* What sector s holds for those who read through c.
Seen(c, s, d) == IF Holds(c, s) THEN c.buf[Place(c, s)].data ELSE d[s]

\* A sector is in one buffer at most, and a buffer that is not dirty is what is on the disk.
OneBuffer(c) == \A i, j \in Index(c) : c.buf[i].cur = c.buf[j].cur /\ i # j => c.buf[i].cur = NoSector
CleanIsOnDisk(c, d) ==
    \A i \in Index(c) : c.buf[i].cur # NoSector /\ ~c.buf[i].dirty => c.buf[i].data = d[c.buf[i].cur]
================================================================================
