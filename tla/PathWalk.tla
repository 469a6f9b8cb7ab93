-------------------------------- MODULE PathWalk --------------------------------
(****************************************************************************)
(* Looking up paths in kernel/vfs: path_lookup and what it calls (open.c),  *)
(* the mount of the ext2 volume on /ext2 (mount.c), and the cache of        *)
(* dentries with its reference counts (vfscache.c), as vfs_open, vfs_cd and *)
(* vfs_rm use them (open.c, usr.c).                                         *)
(*                                                                          *)
(* One process uses them.  A step is one component of the path.  No caller  *)
(* passes O_CREAT, so the parts of open.c for it are left out, as are       *)
(* errors of kmalloc and of the card.  dcache_put_LRU reads put before it   *)
(* is set; the outcomes kept are those where what it reads is a dentry of   *)
(* the cache or counts as used.  d_alloc leaves d_alias of a new dentry as  *)
(* it finds it and initialises that of the root (open.c:528): until a       *)
(* lookup links it, dcache_put_LRU cannot unlink it.  What the kernel does  *)
(* after it tried is not described: the behaviour ends astray.              *)
(****************************************************************************)
EXTENDS Integers, FiniteSets, Sequences, FiniteSetsExt

CONSTANTS
    Dir, Root, Ext2Root,    \* inodes: directories, and the roots of the two volumes
    Ext2Dir,                \* the directories of the second
    Tree,                   \* the entries of the directories on disk: [dir, name, inode]
    Calls,                  \* the calls that are made: [op, absolute, names, dir]
    DCACHE_CAPACITY,        \* 16
    Word,                   \* d_count is a u32: 2^32
    MaxCalls,               \* bound: how many calls are made
    None

VARIABLES
    dentry,     \* what the memory of each dentry holds, also when it was freed
    cache,      \* the dentries in dcache
    pwd,        \* pwd_dentry and pwd_mnt
    deleted,    \* inodes deleted on disk
    nd,         \* the walk: its nameidata, the call, and the names left; or None
    answer,     \* of the last call: an inode or an error
    calls,      \* how many were made
    astray      \* list_del went through a d_alias that nothing had set

vars == <<dentry, cache, pwd, deleted, nd, answer, calls, astray>>

\* Where the dentries are: one more than the cache holds, as a new one is allocated
\* before an old one is freed.  The first three are those of init_vfs.
Address == 1 .. DCACHE_CAPACITY + 1
root_dentry == 1
ext2_root_dentry == 2
ext2_mountpoint == 3
Mount == {"root_mnt", "ext2_root_mnt"}

\* The inodes, and the names that dentries have.
Inode == Dir \cup { e.inode : e \in Tree }
Filename == {"/", "ext2"} \cup UNION { { c.names[k] : k \in DOMAIN c.names } : c \in Calls }

\* What the memory of a dentry holds, and a walk in progress.
Dentries == [d_parent : Address \cup {None}, d_name : Filename,
             d_inode : Inode \cup {None}, d_count : 0 .. Word - 1,
             d_alias : BOOLEAN]     \* it was linked to an inode
Nameidata == [op : {"open", "cd", "rm"}, dir : BOOLEAN, rest : Seq(Filename),
              dentry : Address, mnt : Mount]

ASSUME PathWalkAssumption ==
    /\ DCACHE_CAPACITY \in Nat /\ DCACHE_CAPACITY >= 3 /\ Word \in Nat \ {0}
    /\ Root \in Dir \ Ext2Dir /\ Ext2Root \in Ext2Dir /\ Ext2Dir \subseteq Dir
    /\ None \notin Dir /\ None \notin Address

\* The directories of a volume are in that volume.  A name is in a directory once, and an
\* inode has one name.
ASSUME TreeAssumption ==
    /\ \A e \in Tree : /\ e.dir \in Dir /\ e.inode \notin {None, Root, Ext2Root}
                       /\ e.inode \in Dir => (e.inode \in Ext2Dir <=> e.dir \in Ext2Dir)
    /\ \A e, f \in Tree : e.inode = f.inode \/ (e.dir = f.dir /\ e.name = f.name) => e = f

\* vfs_cd asks for a directory (usr.c:59).
ASSUME CallsAssumption ==
    /\ \A c \in Calls : /\ c.op \in {"open", "cd", "rm"} /\ c.absolute \in BOOLEAN
                        /\ c.names \in Seq(Filename) /\ c.dir \in BOOLEAN
                        /\ c.op = "cd" => c.dir
    /\ None \notin Nameidata
    /\ None \notin [op : {"open", "cd", "rm"}, dir : BOOLEAN, at : Dir, rest : Seq(Filename)]

Dentry(parent, name, inode, count, alias) ==
    [d_parent |-> parent, d_name |-> name, d_inode |-> inode, d_count |-> count,
     d_alias |-> alias]

\* After init_vfs: the volumes are mounted, and nothing was looked up.
Init ==
    /\ dentry = [i \in Address |->
                   CASE i = root_dentry      -> Dentry(None, "/", Root, 2, TRUE)
                     [] i = ext2_root_dentry -> Dentry(None, "/", Ext2Root, 1, TRUE)
                     [] i = ext2_mountpoint  -> Dentry(root_dentry, "ext2", Ext2Root, 1, FALSE)
                     [] OTHER                -> Dentry(None, "/", None, 0, FALSE)]
    /\ cache = {root_dentry, ext2_root_dentry, ext2_mountpoint}
    /\ pwd = [dentry |-> root_dentry, mnt |-> "root_mnt"]
    /\ deleted = {} /\ nd = None /\ answer = None /\ calls = 0 /\ astray = FALSE

mnt_root(m) == IF m = "root_mnt" THEN root_dentry ELSE ext2_root_dentry
mnt_mountpoint(m) == IF m = "root_mnt" THEN root_dentry ELSE ext2_mountpoint

--------------------------------------------------------------------------------
(* Dentries and their cache; dt is what the memory holds *)

dget(dt, i) == [dt EXCEPT ![i].d_count = (@ + 1) % Word]

\* Mutant: the count is signed.
dput_Signed(dt, i) == [dt EXCEPT ![i].d_count = @ - 1]

dput(dt, i) == [dt EXCEPT ![i].d_count = (@ - 1) % Word]

dcache_look_up(parent, name) ==
    { i \in cache : dentry[i].d_parent = parent /\ dentry[i].d_name = name }

\* Mutant: whatever is at the end of the list.
dcache_put_LRU_Any(dt) == cache

\* Those that dcache_put_LRU may free: one not in use when there is any, else one that
\* is used least.
dcache_put_LRU(dt) ==
    LET least == Min({ dt[i].d_count : i \in cache })
    IN  { i \in cache : dt[i].d_count = least }

\* The inode that the lookup of the file system finds on disk.
InodeOf(t, gone, dir, name) ==
    LET found == { e \in t : e.dir = dir /\ e.name = name /\ e.inode \notin gone }
    IN  IF found = {} THEN None ELSE (CHOOSE e \in found : TRUE).inode
inode_lookup(dir, name) == InodeOf(Tree, deleted, dir, name)

\* Where kmalloc puts a new dentry.
New == Min(Address \ cache)

\* Mutant: a dentry holds no reference to its directory.
real_lookup_FreeParent(parent, name) ==
    LET dir   == dentry[parent].d_inode
        inode == inode_lookup(dir, name)
        fails == inode = None /\ dir \in Ext2Dir
        made  == [dentry EXCEPT ![New] = Dentry(parent, name, inode, 1, inode # None)]
        put   == IF Cardinality(cache) = DCACHE_CAPACITY THEN dcache_put_LRU(made) ELSE {0}
    IN  { [next |-> New, fails |-> fails, cache |-> (cache \ {i}) \cup {New},
           stray |-> i \in cache /\ ~made[i].d_alias,
           mem |-> IF inode # None \/ fails THEN dput(made, New) ELSE made] : i \in put }

\* d_alloc and real_lookup: the memory and the cache with the dentry of a name that was not
\* cached, and whether the one put out was never linked to an inode.  When there is no such
\* file, the dentry keeps its reference; only in a directory of ext2, where the search goes
\* on to blocks it does not have (i_blocks counts sectors, ext2.c:485), this is an error.
real_lookup(parent, name) ==
    LET dir   == dentry[parent].d_inode
        inode == inode_lookup(dir, name)
        fails == inode = None /\ dir \in Ext2Dir
        made  == dget([dentry EXCEPT ![New] = Dentry(parent, name, inode, 1, inode # None)], parent)
        put   == IF Cardinality(cache) = DCACHE_CAPACITY THEN dcache_put_LRU(made) ELSE {0}
    IN  { [next |-> New, fails |-> fails, cache |-> (cache \ {i}) \cup {New},
           stray |-> i \in cache /\ ~made[i].d_alias,
           mem |-> IF inode # None \/ fails THEN dput(made, New) ELSE made] : i \in put }

\* The outcomes of do_lookup: the next dentry, the memory and the cache.
do_lookup(parent, name) ==
    LET found == dcache_look_up(parent, name)
        done  == IF found # {}
                 THEN { [next |-> i, fails |-> FALSE, stray |-> FALSE, mem |-> dentry, cache |-> cache] :
                          i \in found }
                 ELSE real_lookup(parent, name)
    IN  { [r EXCEPT !.mem = IF r.fails THEN @ ELSE dget(@, r.next)] : r \in done }

\* follow_mount with lookup_mnt: the outcome of do_lookup where a volume is mounted.
follow_mount(r, m) ==
    IF m = "root_mnt" /\ r.next = ext2_mountpoint
    THEN [next |-> ext2_root_dentry, mnt |-> "ext2_root_mnt", cache |-> r.cache,
          mem |-> dget(dput(r.mem, r.next), ext2_root_dentry)]
    ELSE [next |-> r.next, mnt |-> m, cache |-> r.cache, mem |-> r.mem]

\* Mutant: it stops at the mount point.
follow_dotdot_Once(i, m) ==
    IF i = root_dentry /\ m = "root_mnt" THEN [dentry |-> i, mnt |-> m]
    ELSE IF i # mnt_root(m) THEN [dentry |-> dentry[i].d_parent, mnt |-> m]
    ELSE [dentry |-> mnt_mountpoint(m), mnt |-> "root_mnt"]

\* follow_dotdot, which loops at most once over a mount point.
follow_dotdot(i, m) ==
    IF i = root_dentry /\ m = "root_mnt" THEN [dentry |-> i, mnt |-> m]
    ELSE IF i # mnt_root(m) THEN [dentry |-> dentry[i].d_parent, mnt |-> m]
    ELSE [dentry |-> dentry[mnt_mountpoint(m)].d_parent, mnt |-> "root_mnt"]

--------------------------------------------------------------------------------
(* path_lookup and link_path_walk *)

\* The call ends with an error, or at the dentry of nd; mem is the memory by then.
Return(error, mem) ==
    /\ nd' = None /\ answer' = error /\ dentry' = mem
    /\ UNCHANGED <<pwd, deleted, calls, astray>>

\* Mutant: vfs_rm leaves the inode in its dentry.
Found_Kept(op, i, m, mem) ==
    /\ nd' = None /\ answer' = mem[i].d_inode
    /\ pwd' = IF op = "cd" THEN [dentry |-> i, mnt |-> m] ELSE pwd
    /\ deleted' = IF op = "rm" THEN deleted \cup {mem[i].d_inode} ELSE deleted
    /\ dentry' = mem

\* vfs_open, vfs_cd and vfs_rm with what path_lookup found.
Found(op, i, m, mem) ==
    /\ nd' = None /\ answer' = mem[i].d_inode
    /\ pwd' = IF op = "cd" THEN [dentry |-> i, mnt |-> m] ELSE pwd
    /\ IF op = "rm"
       THEN /\ deleted' = deleted \cup {mem[i].d_inode}
            /\ dentry' = [mem EXCEPT ![i].d_inode = None]
       ELSE deleted' = deleted /\ dentry' = mem

On(i, m, mem) ==
    /\ nd' = [nd EXCEPT !.dentry = i, !.mnt = m, !.rest = Tail(@)]
    /\ dentry' = mem
    /\ UNCHANGED <<pwd, deleted, answer, calls, astray>>

path_lookup(c) ==
    LET i == IF c.absolute THEN root_dentry ELSE pwd.dentry
        m == IF c.absolute THEN "root_mnt" ELSE pwd.mnt
    IN  /\ nd = None /\ ~astray /\ calls < MaxCalls
        /\ calls' = calls + 1
        /\ IF c.names = <<>>
           THEN Found(c.op, i, m, dget(dentry, i))
           ELSE /\ nd' = [op |-> c.op, dir |-> c.dir, rest |-> c.names, dentry |-> i, mnt |-> m]
                /\ dentry' = dget(dentry, i)
                /\ UNCHANGED <<pwd, deleted, answer>>
        /\ UNCHANGED <<cache, astray>>

Walking == nd # None
Name == Head(nd.rest)
IsLast == Len(nd.rest) = 1

\* "." and "..", which keep the reference to where they come.
Dots ==
    /\ Walking /\ ~astray /\ Name \in {".", ".."}
    /\ LET to  == IF Name = "." THEN nd ELSE follow_dotdot(nd.dentry, nd.mnt)
           mem == dget(dput(dentry, nd.dentry), to.dentry)
       IN  IF IsLast THEN Found(nd.op, to.dentry, to.mnt, mem) /\ UNCHANGED <<calls, astray>>
                     ELSE On(to.dentry, to.mnt, mem)
    /\ UNCHANGED cache

\* A name before the last: the walk's reference moves on.
Component ==
    /\ Walking /\ ~astray /\ Name \notin {".", ".."} /\ ~IsLast
    /\ \E r \in { o \in do_lookup(nd.dentry, Name) : ~o.stray } :
          LET p     == follow_mount(r, nd.mnt)
              inode == p.mem[p.next].d_inode
              mem   == dput(p.mem, nd.dentry)
          IN  /\ cache' = p.cache
              /\ IF r.fails THEN Return("ENOENT", dput(r.mem, nd.dentry))
                 ELSE IF inode = None THEN Return("ENOENT", dput(mem, p.next))
                 ELSE IF inode \notin Dir THEN Return("ENOTDIR", dput(mem, p.next))
                 ELSE On(p.next, p.mnt, mem)

\* The last name: its reference is given back before it is used, and once more when the
\* walk fails; the one to the directory stays.
LastComponent ==
    /\ Walking /\ ~astray /\ Name \notin {".", ".."} /\ IsLast
    /\ \E r \in { o \in do_lookup(nd.dentry, Name) : ~o.stray } :
          LET p     == follow_mount(r, nd.mnt)
              mem   == dput(p.mem, p.next)
              inode == mem[p.next].d_inode
          IN  /\ cache' = p.cache
              /\ IF r.fails THEN Return("ENOENT", dput(r.mem, nd.dentry))
                 ELSE IF inode = None THEN Return("ENOENT", dput(mem, p.next))
                 ELSE IF nd.dir /\ inode \notin Dir THEN Return("ENOTDIR", dput(mem, p.next))
                 ELSE Found(nd.op, p.next, p.mnt, mem) /\ UNCHANGED <<calls, astray>>

\* dcache_put_LRU unlinks a dentry that was never linked.
Stray ==
    /\ Walking /\ ~astray /\ Name \notin {".", ".."}
    /\ \E r \in do_lookup(nd.dentry, Name) : r.stray
    /\ astray' = TRUE /\ UNCHANGED <<dentry, cache, pwd, deleted, nd, answer, calls>>

Next == Dots \/ Component \/ LastComponent \/ Stray \/ \E c \in Calls : path_lookup(c)

Spec == Init /\ [][Next]_vars

--------------------------------------------------------------------------------
(* Properties *)

\* Refuted: a name that is not found is put out of the cache like any other (open.c:528).
NeverAstray == ~astray

\* The variables have their types.
TypeOK ==
    /\ dentry \in [Address -> Dentries]
    /\ cache \subseteq Address /\ Cardinality(cache) <= DCACHE_CAPACITY
    /\ pwd \in [dentry : Address, mnt : Mount]
    /\ Walking => nd \in Nameidata /\ nd.rest # <<>>
    /\ astray \in BOOLEAN

\* The current directory was not freed; vfs_cd keeps no reference to it (usr.c:69).
PwdIsCached == pwd.dentry \in cache

\* No dentry that is still reached was freed by dcache_put_LRU (vfscache.c:159): the
\* parent of one in the cache, the mount point, the roots, where the walk is, and the
\* current directory.
ReachedAreCached ==
    /\ {root_dentry, ext2_root_dentry, ext2_mountpoint} \subseteq cache
    /\ \A i \in cache : dentry[i].d_parent # None => dentry[i].d_parent \in cache
    /\ Walking => nd.dentry \in cache
    /\ PwdIsCached

\* A directory counts a reference for each dentry of the cache in it and one for a walk
\* that is there (d_alloc, open.c:532), so that none of them can be freed before it.
HeldByChildren ==
    \A d \in cache :
        Cardinality({ i \in cache : dentry[i].d_parent = d })
          + (IF Walking /\ nd.dentry = d THEN 1 ELSE 0) <= dentry[d].d_count

\* The counts by which dcache_put_LRU chooses are in their range and count what they are
\* for (vfscache.c:172, 188).
PathInv == TypeOK /\ HeldByChildren

\* The cache has a name in a directory once, and what it says of it is what is on disk,
\* up to where the behaviour goes astray.
CacheTellsTheDisk ==
    \A i \in cache \ {root_dentry, ext2_root_dentry, ext2_mountpoint} :
        /\ \A j \in cache : dentry[i].d_parent = dentry[j].d_parent
                              /\ dentry[i].d_name = dentry[j].d_name => i = j
        /\ dentry[i].d_inode = inode_lookup(dentry[dentry[i].d_parent].d_inode, dentry[i].d_name)

\* The two volumes as one tree: an inode deleted is one that no name leads to.
Child(d, n) == IF d = Root /\ n = "ext2" THEN Ext2Root ELSE InodeOf(Tree, {}, d, n)
Parent(i) == IF i = Root \/ i = Ext2Root THEN Root ELSE (CHOOSE e \in Tree : e.inode = i).dir

Names == INSTANCE Namespace WITH
    gone <- deleted,
    cwd  <- dentry[pwd.dentry].d_inode,
    walk <- IF nd = None THEN None
            ELSE [op |-> nd.op, dir |-> nd.dir, at |-> dentry[nd.dentry].d_inode, rest |-> nd.rest]

\* Whatever was looked up, evicted and removed before, a path leads where it leads in
\* the tree, also through the mount point and back (link_path_walk, open.c:171), as long
\* as no name that was not found was put out of the cache (astray).
ImplementsNamespace == Names!Spec
================================================================================
